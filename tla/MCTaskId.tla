------------------------------ MODULE MCTaskId ------------------------------
(* TaskId with three pages per stack region and a handful of ids. *)
EXTENDS TaskId
=============================================================================
