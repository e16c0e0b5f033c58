----------------------------- MODULE DiskInode -----------------------------
(***************************************************************************)
(* The index tree of a file: DiskInode of easy-fs/src/layout.rs, the       *)
(* resizing of easy-fs/src/vfs.rs around it and the data bitmap            *)
(* (easy-fs/src/bitmap.rs, alloc_data and dealloc_data of efs.rs).         *)
(*                                                                         *)
(* A block is its number in the data area, from 1; 0 stands for the block  *)
(* number 0 that marks an unused pointer.  `blk` holds the pointers of the *)
(* blocks used as indirect blocks, `used` the bits set in the bitmap.      *)
(* Every operation holds the lock of the file system: it is one step.      *)
(***************************************************************************)
EXTENDS Integers, Sequences, FiniteSets, Functions

CONSTANTS
  Files,
  BLOCK_SIZE, DIRECT_COUNT, INDIRECT_COUNT,
  NBlocks,       \* blocks of the data area
  Sizes,         \* the sizes files are given
  MaxShrink,     \* decrease_size is called up to this many data blocks
  MaxOps         \* bound on the number of operations

ASSUME DiskInodeAssumption ==
  /\ BLOCK_SIZE \in Nat \ {0} /\ DIRECT_COUNT \in Nat \ {0} /\ INDIRECT_COUNT \in Nat \ {0}
  /\ NBlocks \in Nat /\ MaxShrink \in Nat /\ MaxOps \in Nat /\ Sizes \subseteq Nat

VARIABLES
  inode,    \* the DiskInode of each file
  blk,      \* the pointers in each block
  used,     \* the data bitmap
  data,     \* the blocks that hold bytes of a file
  lost,     \* history: the blocks of inodes that were deleted without clear
  ops       \* number of operations so far

vars == <<inode, blk, used, data, lost, ops>>

INDIRECT1_COUNT == INDIRECT_COUNT
INDIRECT2_COUNT == INDIRECT_COUNT * INDIRECT_COUNT
DIRECT_BOUND == DIRECT_COUNT
INDIRECT1_BOUND == DIRECT_BOUND + INDIRECT1_COUNT
INDIRECT2_BOUND == INDIRECT1_BOUND + INDIRECT2_COUNT

DataBlocks == 1 .. NBlocks
ZeroBlock == [i \in 0 .. INDIRECT_COUNT - 1 |-> 0]

\* What clear_size leaves of an inode, and what the blank disk has.
EmptyInode ==
  [size |-> 0, direct |-> [i \in 0 .. DIRECT_COUNT - 1 |-> 0],
   indirect1 |-> 0, indirect2 |-> 0, indirect3 |-> 0]

Init ==
  /\ inode = [f \in Files |-> EmptyInode]
  /\ blk = [b \in 0 .. NBlocks |-> ZeroBlock]
  /\ used = {} /\ data = {} /\ lost = {} /\ ops = 0

-----------------------------------------------------------------------------
(* Sizes *)

div_ceil(a, b) == (a + b - 1) \div b
Min(a, b) == IF a < b THEN a ELSE b
Max(a, b) == IF a > b THEN a ELSE b

count_data_block(size) == div_ceil(size, BLOCK_SIZE)

\* Mutant: the indirect2 block itself is not counted.
CountTotalShort(size) ==
  LET n == count_data_block(size)
  IN n + (IF n > DIRECT_BOUND THEN 1 ELSE 0)
       + (IF n > INDIRECT1_BOUND
            THEN Min(div_ceil(n - INDIRECT1_BOUND, INDIRECT1_COUNT), INDIRECT1_COUNT) ELSE 0)

count_total_block(size) ==
  LET n == count_data_block(size)
      level1 == IF n > DIRECT_BOUND THEN 1 ELSE 0
      level2 == IF n > INDIRECT1_BOUND
                  THEN 1 + Min(div_ceil(n - INDIRECT1_BOUND, INDIRECT1_COUNT), INDIRECT1_COUNT)
                  ELSE 0
      level3 == IF n > INDIRECT2_BOUND
                  THEN 1 + div_ceil(n - INDIRECT2_BOUND, INDIRECT2_COUNT)
                         + div_ceil(n - INDIRECT2_BOUND, INDIRECT1_COUNT)
                  ELSE 0
  IN n + level1 + level2 + level3

-----------------------------------------------------------------------------
(* Looking up a block *)

block_id(ino, b, index) ==
  IF index < DIRECT_BOUND THEN ino.direct[index]
  ELSE IF index < INDIRECT1_BOUND THEN b[ino.indirect1][index - DIRECT_BOUND]
  ELSE IF index < INDIRECT2_BOUND THEN
    LET i == index - INDIRECT1_BOUND
    IN b[b[ino.indirect2][i \div INDIRECT1_COUNT]][i % INDIRECT1_COUNT]
  ELSE
    LET i == index - INDIRECT2_BOUND
        indirect2 == b[ino.indirect3][i \div INDIRECT2_COUNT]
        indirect1 == b[indirect2][(i % INDIRECT2_COUNT) \div INDIRECT1_COUNT]
    IN b[indirect1][(i % INDIRECT2_COUNT) % INDIRECT1_COUNT]

-----------------------------------------------------------------------------
(* Growing: build_tree consumes the new blocks v as it fills in pointers *)

\* new_blocks.next().unwrap(); where that would panic, 0 enters the tree.
NextBlock(v) == IF v = <<>> THEN 0 ELSE Head(v)
Rest(v) == IF v = <<>> THEN <<>> ELSE Tail(v)

RECURSIVE build_tree(_, _, _, _, _, _), build_children(_, _, _, _, _, _, _)

\* The closure over the indirect block id, from its pointer i on.
build_children(s, id, i, src, dst, depth, max) ==
  IF i = INDIRECT_COUNT \/ s.leaf >= dst THEN s
  ELSE LET t == IF s.leaf >= src
                  THEN [s EXCEPT !.blk[id][i] = NextBlock(s.v), !.v = Rest(@)]
                  ELSE s
       IN build_children(build_tree(t, t.blk[id][i], src, dst, depth + 1, max),
                         id, i + 1, src, dst, depth, max)

\* s is [leaf, v, blk]: the current leaf, the blocks left, the indirect blocks.
build_tree(s, id, src, dst, depth, max) ==
  IF depth = max THEN [s EXCEPT !.leaf = @ + 1]
  ELSE build_children(s, id, 0, src, dst, depth, max)

\* The level is entered for the first time.
NeedsRoot(s, prev) == s.index = prev

\* One indirect level of increase_size; s is [ino, v, blk, index, total], prev the
\* number of leaves of the level before.
GrowLevel(s, field, prev, depth) ==
  LET fresh == NeedsRoot(s, prev)
      root == IF fresh THEN NextBlock(s.v) ELSE s.ino[field]
      start == [leaf |-> 0, v |-> IF fresh THEN Rest(s.v) ELSE s.v, blk |-> s.blk]
      index == s.index - prev
      total == s.total - prev
      r == build_tree(start, root, index, total, 0, depth)
  IN [ino |-> [s.ino EXCEPT ![field] = root], v |-> r.v, blk |-> r.blk,
      index |-> Max(index, r.leaf), total |-> total]

\* Mutant: the new blocks are filled in from index 0, the old ones move up.
GrowDirectInFront(ino, index, upto, v) ==
  [i \in DOMAIN ino.direct |->
     IF i < upto - index THEN v[i + 1]
     ELSE IF i < upto THEN ino.direct[i - (upto - index)] ELSE ino.direct[i]]

\* The direct pointers from index on are filled in.
GrowDirect(ino, index, upto, v) ==
  [i \in DOMAIN ino.direct |->
     IF index <= i /\ i < upto THEN v[i - index + 1] ELSE ino.direct[i]]

\* DiskInode::increase_size with the new blocks v.
increase_size(ino, b, size, v) ==
  LET index == count_data_block(ino.size)
      total == count_data_block(size)
      upto == Max(index, Min(total, DIRECT_COUNT))
      s0 == [ino |-> [ino EXCEPT !.size = size, !.direct = GrowDirect(ino, index, upto, v)],
             v |-> SubSeq(v, upto - index + 1, Len(v)), blk |-> b,
             index |-> upto, total |-> total]
      s1 == GrowLevel(s0, "indirect1", DIRECT_COUNT, 1)
      s2 == GrowLevel(s1, "indirect2", INDIRECT1_COUNT, 2)
  IN IF s0.total <= DIRECT_COUNT THEN s0
     ELSE IF s1.total <= INDIRECT1_COUNT THEN s1
     ELSE IF s2.total <= INDIRECT2_COUNT THEN s2
     ELSE GrowLevel(s2, "indirect3", INDIRECT2_COUNT, 3)

-----------------------------------------------------------------------------
(* Shrinking: collect_tree appends the pointers it passes *)

RECURSIVE collect_tree(_, _, _, _, _, _), collect_children(_, _, _, _, _, _, _)

collect_children(c, b, id, i, max, depth, dst) ==
  IF i = INDIRECT_COUNT \/ c.leaf >= max THEN c
  ELSE collect_children(collect_tree([c EXCEPT !.out = Append(@, b[id][i])],
                                     b, b[id][i], max, depth + 1, dst),
                        b, id, i + 1, max, depth, dst)

\* c is [leaf, out]: the current leaf and the blocks collected.
collect_tree(c, b, id, max, depth, dst) ==
  IF depth = dst THEN [c EXCEPT !.leaf = @ + 1]
  ELSE collect_children(c, b, id, 0, max, depth, dst)

Collect(out, b, id, max, dst) == collect_tree([leaf |-> 0, out |-> out], b, id, max, 0, dst)

\* One indirect level of clear_size: its root, then everything below it.
ClearLevel(out, b, id, max, dst) == Collect(Append(out, id), b, id, max, dst).out

\* The blocks clear_size returns; it leaves an empty inode.
clear_size(ino, b) ==
  LET n == count_data_block(ino.size)
      n1 == n - DIRECT_COUNT
      n2 == n1 - INDIRECT1_COUNT
      n3 == n2 - INDIRECT2_COUNT
      out0 == [i \in 1 .. Min(n, DIRECT_COUNT) |-> ino.direct[i - 1]]
      out1 == ClearLevel(out0, b, ino.indirect1, n1, 1)
      out2 == ClearLevel(out1, b, ino.indirect2, n2, 2)
  IN IF n1 <= 0 THEN out0
     ELSE IF n2 <= 0 THEN out1
     ELSE IF n3 <= 0 THEN out2
     ELSE ClearLevel(out2, b, ino.indirect3, n3, 3)

\* DiskInode::decrease_size: [ino, out], out the blocks to deallocate.  Past the
\* direct blocks, block_index is never DIRECT_COUNT, is INDIRECT1_COUNT whenever
\* the second level is reached (indirect2 is then cleared before it is walked,
\* and block 0 read in its place) and 0 at the third.
decrease_size(ino, b, size) ==
  LET index == count_data_block(ino.size)
      kept == count_data_block(size)
      upto == Max(kept, Min(index, DIRECT_COUNT))
      direct == [i \in DOMAIN ino.direct |-> IF kept <= i /\ i < upto THEN 0 ELSE ino.direct[i]]
      out0 == [i \in 1 .. upto - kept |-> ino.direct[kept + i - 1]]
      ino0 == [ino EXCEPT !.size = size, !.direct = direct]
      r1 == upto - DIRECT_COUNT
      c1 == Collect(out0, b, ino.indirect1, r1, 1)
      r2 == r1 - INDIRECT1_COUNT
      c2 == Collect(Append(c1.out, ino.indirect2), b, 0, r2, 2)
      ino2 == [ino0 EXCEPT !.indirect2 = 0]
      r3 == r2 - INDIRECT1_COUNT
  IN IF r1 <= 0 THEN [ino |-> ino0, out |-> out0]
     ELSE IF r2 <= 0 THEN [ino |-> ino0, out |-> c1.out]
     ELSE IF r2 <= INDIRECT2_COUNT THEN [ino |-> ino2, out |-> c2.out]
     ELSE [ino |-> ino2, out |-> Collect(c2.out, b, ino.indirect3, r3, 3).out]

-----------------------------------------------------------------------------
(* Reading and writing bytes *)

\* Mutant: the piece is as long as a block, wherever it starts.
BlockEndUnaligned(start) == start + BLOCK_SIZE

\* end_current_block, before it is cut to the end of the range.
BlockEnd(start) == (start \div BLOCK_SIZE + 1) * BLOCK_SIZE

RECURSIVE segments(_, _, _, _)

\* The loop of read_at and write_at, from start to end: start_block is counted along, size
\* bytes of the buffer are done.
segments(start, start_block, size, end) ==
  LET upto == Min(BlockEnd(start), end)
      segment == [block |-> start_block, from |-> start % BLOCK_SIZE, buf |-> size, len |-> upto - start]
  IN {segment} \cup
     (IF upto = end THEN {} ELSE segments(upto, start_block + 1, size + upto - start, end))

\* What read_at and write_at copy between a file's bytes from offset to end and a buffer.
Segments(offset, end) == segments(offset, offset \div BLOCK_SIZE, 0, end)

\* The blocks a file's bytes from offset to end are in.
Touched(ino, b, offset, end) ==
  {block_id(ino, b, seg.block) : seg \in Segments(offset, Min(end, ino.size))}

-----------------------------------------------------------------------------
(* Operations, under the lock of the file system *)

Free == DataBlocks \ used

\* Bitmap::alloc called n times: the lowest bits that are clear.
alloc_data(n) ==
  [i \in 1 .. n |-> CHOOSE x \in Free : Cardinality({y \in Free : y < x}) = i - 1]

\* Inode::write_at: grow if needed, then write.  sys_write passes no empty buffer
\* on.  An offset past the end is left by a clear through another descriptor.
write_at(f, offset, end) ==
  LET ino == inode[f]
      need == IF end < ino.size THEN 0 ELSE count_total_block(end) - count_total_block(ino.size)
      v == alloc_data(need)
      s == IF end < ino.size THEN [ino |-> ino, blk |-> blk]
           ELSE increase_size(ino, blk, end, v)
  IN /\ offset < end /\ need <= Cardinality(Free)
     /\ inode' = [inode EXCEPT ![f] = s.ino]
     /\ blk' = s.blk
     /\ used' = used \cup Range(v)
     /\ data' = data \cup Touched(s.ino, s.blk, offset, end)
     /\ UNCHANGED lost

\* EasyFileSystem::dealloc_data of each block: fill(0), then the bit.
dealloc_data(out) ==
  /\ used' = used \ out
  /\ data' = data \ out
  /\ blk' = [b \in DOMAIN blk |-> IF b \in out THEN ZeroBlock ELSE blk[b]]
  /\ UNCHANGED lost

\* Inode::clear
clear(f) ==
  /\ inode' = [inode EXCEPT ![f] = EmptyInode]
  /\ dealloc_data(Range(clear_size(inode[f], blk)))

\* Inode::decrease_size, called when a directory entry is deleted.
shrink(f, size) ==
  /\ size < inode[f].size /\ count_data_block(inode[f].size) <= MaxShrink
  /\ LET r == decrease_size(inode[f], blk, size)
     IN inode' = [inode EXCEPT ![f] = r.ino] /\ dealloc_data(Range(r.out))

\* The data blocks of a file, by their index.
DataOf(ino, b) == {block_id(ino, b, i) : i \in 0 .. count_data_block(ino.size) - 1}

\* The indirect blocks a file of that size has to have: the definition that the
\* numbers of count_total_block and the walks of the code are compared with.
IndirectOf(ino, b) ==
  LET n == count_data_block(ino.size)
      At(id, k) == {b[id][i] : i \in 0 .. Min(k, INDIRECT_COUNT) - 1}
      n2 == n - INDIRECT1_BOUND
      n3 == n - INDIRECT2_BOUND
      second == At(ino.indirect3, div_ceil(n3, INDIRECT2_COUNT))
  IN (IF n > DIRECT_BOUND THEN {ino.indirect1} ELSE {})
     \cup (IF n2 > 0 THEN {ino.indirect2} \cup At(ino.indirect2, div_ceil(n2, INDIRECT1_COUNT)) ELSE {})
     \cup (IF n3 > 0
             THEN {ino.indirect3} \cup second
                  \cup UNION {At(b[ino.indirect3][j], div_ceil(n3 - j * INDIRECT2_COUNT, INDIRECT1_COUNT))
                              : j \in 0 .. div_ceil(n3, INDIRECT2_COUNT) - 1}
             ELSE {})

Owned(f) == DataOf(inode[f], blk) \cup IndirectOf(inode[f], blk)

\* DiskInode::init leaves indirect3 as it is.
init(ino) == [EmptyInode EXCEPT !.indirect3 = ino.indirect3]

\* Inode::delete of a file that was not cleared before, as Drop for ProcessControlBlock
\* does under /proc, and create_inode, which takes the inode for another file.
recreate(f) ==
  /\ inode' = [inode EXCEPT ![f] = init(@)]
  /\ lost' = lost \cup Owned(f)
  /\ UNCHANGED <<blk, used, data>>

Next ==
  /\ ops < MaxOps /\ ops' = ops + 1
  /\ \E f \in Files :
       \/ \E offset \in {0, inode[f].size, BLOCK_SIZE}, end \in Sizes : write_at(f, offset, end)
       \/ clear(f) \/ recreate(f)
       \/ \E size \in Sizes : shrink(f, size)

Spec == Init /\ [][Next]_vars

-----------------------------------------------------------------------------
(* Properties *)

\* The types of the inodes, the blocks and the bitmaps.
TypeOK ==
  /\ \A f \in Files : inode[f].size \in Nat
  /\ used \subseteq DataBlocks /\ data \subseteq 0 .. NBlocks
  /\ \A b \in DOMAIN blk : Range(blk[b]) \subseteq 0 .. NBlocks

\* Every file has exactly the blocks count_total_block gives it, no block is used
\* twice in a tree or shared by two files, and every bit set in the bitmap is a
\* block of some file: none is lost, through growth across the levels and clear, but
\* those of an inode deleted without clear, which nobody is given again.
\* clear_size returns every block of the file once, so the assert_eq of Inode::clear and
\* the assert of Bitmap::dealloc hold; a block not in use has no bytes of a deleted file.
TreesPartitionUsed ==
  /\ TypeOK
  /\ \A f \in Files : Cardinality(Owned(f)) = count_total_block(inode[f].size)
  /\ \A f, g \in Files : f # g => Owned(f) \cap Owned(g) = {}
  /\ lost \cup UNION {Owned(f) : f \in Files} = used
  /\ \A f \in Files : lost \cap Owned(f) = {}
  /\ \A f \in Files :
       LET out == clear_size(inode[f], blk)
       IN Len(out) = count_total_block(inode[f].size) /\ Range(out) = Owned(f)
  /\ data \subseteq used

\* Growing or writing a file, or changing another one, never moves a block that
\* the file keeps: its bytes stay where they are.
BlocksStay ==
  [][\A f \in Files :
       \A i \in 0 .. Min(count_data_block(inode[f].size), count_data_block(inode'[f].size)) - 1 :
         block_id(inode'[f], blk', i) = block_id(inode[f], blk, i)]_vars

\* Where the bytes of the buffer are on disk: position in the buffer, block, position in it.
Copied(f, offset, end) ==
  UNION {{<<seg.buf + n, block_id(inode[f], blk, seg.block), seg.from + n>> : n \in 0 .. seg.len - 1}
         : seg \in Segments(offset, end)}

\* read_at and write_at agree on where each byte of a file is, whatever the range it is
\* accessed with: they copy every byte of the range, between its place in the buffer and
\* its place on disk, which depends on its offset only and is that of no other byte.
BytesInPlace ==
  \A f \in Files :
    /\ \A offset \in 0 .. inode[f].size - 1 : \A end \in offset + 1 .. inode[f].size :
         Copied(f, offset, end) =
           {<<o - offset, block_id(inode[f], blk, o \div BLOCK_SIZE), o % BLOCK_SIZE>>
              : o \in offset .. end - 1}
    /\ inode[f].size > 0 =>
         Cardinality({<<c[2], c[3]>> : c \in Copied(f, 0, inode[f].size)}) = inode[f].size
=============================================================================
