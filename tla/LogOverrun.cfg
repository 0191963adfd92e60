SPECIFICATION Spec
CONSTANTS
  Procs = {p1, p2, p3}
  Blocks = {b1, b2, b3}
  MAXOPBLOCKS = 1
  LOGSIZE = 3
  NLOG = 3
  None = None
  MaxStores = 3
  MaxCrashes = 0
INVARIANT LogStaysInBounds
CHECK_DEADLOCK FALSE
