SPECIFICATION Spec
CONSTANTS
  p1 = p1
  p2 = p2
  p3 = p3
  Pids <- Pids4
  Stacks = {k1, k2, k3, k4}
  MaxThreads = 3
  Codes = {0}
  Kills = {}
  Tids = {1, 2}
  Waits = TRUE
  ProcDirs = {}
  MaxChanges = 0
INVARIANTS ProcessTree NoPanic
PROPERTIES ExitStatusKept
CHECK_DEADLOCK FALSE
SYMMETRY Symmetry
