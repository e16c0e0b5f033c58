SPECIFICATION Spec
CONSTANTS
  Procs = {p1, p2}
  First = p1
  Paths = {"f", "g"}
  MaxInodes = 2
  Flags <- OpenFlagSets
  MaxFds = 4
  MaxFiles = 4
  MaxSize = 2
  MaxCalls = 5
INVARIANTS WrittenBehindOffset BytesOfOwnPath
PROPERTY OpenFdsStay
CHECK_DEADLOCK FALSE
