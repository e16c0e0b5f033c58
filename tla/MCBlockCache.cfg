SPECIFICATION Spec
CONSTANTS
  Blocks = {b1, b2, b3, b4}
  Values = {v1, v2}
  Users = {u1, u2, u3}
  BLOCK_CACHE_SIZE = 3
  MaxNesting = 1
INVARIANTS OneCopy NeverRunsOut
PROPERTY IsBlockStore
SYMMETRY Symmetry
