---------------------------- MODULE MCDiskInode ----------------------------
(***************************************************************************)
(* DiskInode for TLC: with two direct blocks and indirect blocks of two    *)
(* pointers the indirect levels begin after 2, 4 and 8 data blocks.        *)
(***************************************************************************)
EXTENDS DiskInode, TLC

Symmetry == Permutations(Files)
=============================================================================
