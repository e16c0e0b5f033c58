--------------------------- MODULE MCAddressSpace ---------------------------
(***************************************************************************)
(* AddressSpace for TLC.  One program has one LOAD segment of two pages,   *)
(* another two with a page between them; the last two are built wrongly:   *)
(* segments in descending order, and two that share a page.                *)
(***************************************************************************)
EXTENDS AddressSpace

Load(va, mem, file) == [va |-> va, mem |-> mem, file |-> file]

OneSegment == <<Load(0, 3, 2)>>
SomePrograms ==
  {OneSegment, <<Load(0, 1, 1), Load(4, 1, 0)>>,
   <<Load(4, 1, 1), Load(0, 1, 1)>>, <<Load(0, 1, 1), Load(1, 1, 1)>>}

Symmetry == Permutations(Procs \ {DAEMON})
=============================================================================
