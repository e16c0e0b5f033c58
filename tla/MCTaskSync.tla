----------------------------- MODULE MCTaskSync -----------------------------
(* TaskSync for model checking: three threads of one process. *)
EXTENDS TaskSync

CONSTANTS t1, t2, t3
=============================================================================
