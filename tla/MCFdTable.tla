----------------------------- MODULE MCFdTable -----------------------------
(* Instances of FdTable for TLC. *)
EXTENDS FdTable
OpenFlagSets == {RDONLY, WRONLY \cup CREATE, RDWR \cup TRUNC}
=============================================================================
