----------------------------- MODULE BlockStore -----------------------------
(***************************************************************************)
(* What the block cache of easy-fs promises: a memory of blocks in which a *)
(* read returns the last value written, and in which a power failure sets  *)
(* each block back to some value it had since the last sync_all, or at it. *)
(***************************************************************************)
CONSTANTS Blocks, Values

VARIABLES
  mem,      \* the contents of each block
  maybe,    \* the values a block may have after a power failure
  out       \* what the last read returned

Init ==
  /\ mem \in [Blocks -> Values]
  /\ maybe = [b \in Blocks |-> {mem[b]}]
  /\ out \in Values

Read(b) == out' = mem[b] /\ UNCHANGED <<mem, maybe>>

Write(b, v) ==
  /\ mem' = [mem EXCEPT ![b] = v]
  /\ maybe' = [maybe EXCEPT ![b] = @ \cup {v}]
  /\ UNCHANGED out

Sync ==
  /\ maybe' = [b \in Blocks |-> {mem[b]}]
  /\ UNCHANGED <<mem, out>>

Crash ==
  /\ mem' \in [Blocks -> Values] /\ \A b \in Blocks : mem'[b] \in maybe[b]
  /\ maybe' = [b \in Blocks |-> {mem'[b]}]
  /\ UNCHANGED out

Next ==
  \/ \E b \in Blocks : Read(b) \/ \E v \in Values : Write(b, v)
  \/ Sync
  \/ Crash

Spec == Init /\ [][Next]_<<mem, maybe, out>>
=============================================================================
