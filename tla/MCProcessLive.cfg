SPECIFICATION LiveSpec
CONSTANTS
  p1 = p1
  p2 = p2
  p3 = p3
  Pids <- Pids3
  Stacks = {k1, k2, k3}
  MaxThreads = 1
  Codes = {0}
  Kills = {2}
  Tids = {0}
  Waits = FALSE
  ProcDirs = {p1}
  MaxChanges = 1
PROPERTIES OrphansReaped KilledDies
CHECK_DEADLOCK FALSE
