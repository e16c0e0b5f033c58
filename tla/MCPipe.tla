------------------------------- MODULE MCPipe -------------------------------
(* Pipe for model checking: two processes with one thread each. *)
EXTENDS Pipe

CONSTANTS t1, t2, p1, p2

OwnerOf == [t \in Threads |-> IF t = t1 THEN p1 ELSE p2]
=============================================================================
