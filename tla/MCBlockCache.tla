---------------------------- MODULE MCBlockCache ----------------------------
(***************************************************************************)
(* BlockCache for TLC: blocks, values and users are symmetric.             *)
(***************************************************************************)
EXTENDS BlockCache, TLC

Symmetry == Permutations(Blocks) \cup Permutations(Values) \cup Permutations(Users)
=============================================================================
