SPECIFICATION FairSpec
CONSTANTS
  Procs = {p1, p2}
  Blocks = {b1, b2, b3}
  MAXOPBLOCKS = 2
  LOGSIZE = 6
  NLOG = 6
  None = None
  MaxStores = 3
  MaxCrashes = 2
INVARIANTS QuiescentClean Reservation
PROPERTIES AtomicDiskSpec SleeperWakes
