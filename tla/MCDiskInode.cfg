SPECIFICATION Spec
CONSTANTS
  Files = {f1, f2}
  BLOCK_SIZE = 2
  DIRECT_COUNT = 2
  INDIRECT_COUNT = 2
  NBlocks = 32
  Sizes = {1, 4, 12, 18}
  MaxShrink = 2
  MaxOps = 6
INVARIANTS TreesPartitionUsed BytesInPlace
PROPERTY BlocksStay
SYMMETRY Symmetry
CHECK_DEADLOCK FALSE
