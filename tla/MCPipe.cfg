SPECIFICATION PipeLiveSpec
CONSTANTS
  t1 = t1
  t2 = t2
  p1 = p1
  p2 = p2
  Threads = {t1, t2}
  Processes = {p1, p2}
  Owner <- OwnerOf
  Byte = {0, 1}
  Eof = Eof
  RING_BUFFER_SIZE = 2
  MaxLen = 3
INVARIANTS
  PipeInv
PROPERTIES
  IsByteQueue
  EofReachesReaders
  NoMutualWait
