SPECIFICATION Spec
CONSTANTS
  Names = {"a", "b"}
  NInodes = 4
  UserPaths <- Paths
  MaxDepth = 3
INVARIANTS TreeSound PathsAgree
PROPERTY EntriesStay
CHECK_DEADLOCK FALSE
