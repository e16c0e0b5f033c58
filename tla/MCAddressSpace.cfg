SPECIFICATION Spec
CONSTANTS
  Procs = {daemon, p1, p2}
  DAEMON = daemon
  NFrames = 25
  PAGE_SIZE = 2
  VaSize = 28
  InitProc <- OneSegment
  Programs <- SomePrograms
  USER_STACK_SIZE = 2
  FB_VADDR = 18
  FbBytes = 2
  NThreads = 3
  DirSize = 5
  Values = {0, 1}
  MaxStores = 1
  MaxOps = 5
INVARIANTS FramesOwnedOnce TablesMatchAreas BuffersExact
PROPERTIES NewPagesAreBlank MemoryIsPrivate
SYMMETRY Symmetry
CHECK_DEADLOCK FALSE
