SPECIFICATION LiveSpec
CONSTANTS
  t1 = t1
  t2 = t2
  t3 = t3
  Tasks = {t1, t2, t3}
  NoTask = NoTask
  NMutex = 1
  NSem = 1
  NCond = 1
  ResCounts = {0, 7}
  ISIZE_MAX = 3
  MaxCount = 1
  Durations = {1, 2}
  MaxTime = 2
  Observed = {t1}
  Nesting = FALSE
INVARIANTS
  MutexesSound
  SemaphoreConserves
  ScheduledOnce
PROPERTIES
  HandoverIsFifo
  SleepersWakeOnTime
  MutexGranted
  SleepEnds
