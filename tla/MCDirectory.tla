---------------------------- MODULE MCDirectory ----------------------------
(* Instance of Directory for TLC: every plain path from the root and, from *)
(* the working directory, paths through "." and "..".                      *)
EXTENDS Directory

Absolute(n) == {[absolute |-> TRUE, parts |-> p] : p \in BoundedSeq(Names, n)}
Relative == {[absolute |-> FALSE, parts |-> p] :
               p \in {<<"a">>, <<"..">>, <<"..", "b">>, <<".", "a", "..", "..", "a">>}}
Paths == Absolute(2) \cup Relative
=============================================================================
