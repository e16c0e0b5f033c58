SPECIFICATION FairSpec
CONSTANTS
  u1 = u1
  u2 = u2
  Users = {u1, u2}
  Daemon = d
  Nobody = nobody
  f1 = f1
  Files = {f1}
  Tokens = {1, 2}
  MaxInput = 1
  MaxAccess = 2
INVARIANTS HandlersFindCellsFree OnlyOverlapHalts DiskSleepersWillWake InputInOrder
PROPERTIES DiskWaitsEnd InputIsRead
CHECK_DEADLOCK FALSE
