----------------------------- MODULE MCProcess -----------------------------
(***************************************************************************)
(* Process for TLC.  Pids other than 0 and kernel stacks are only compared *)
(* for equality and picked among the free ones: they are symmetric.        *)
(***************************************************************************)
EXTENDS Process, TLC

CONSTANTS p1, p2, p3

Pids2 == {IDLE_PID, p1}
Pids3 == {IDLE_PID, p1, p2}
Pids4 == {IDLE_PID, p1, p2, p3}

Users == Pids \ {IDLE_PID}

Symmetry == Permutations(Users) \cup Permutations(Stacks)
=============================================================================
