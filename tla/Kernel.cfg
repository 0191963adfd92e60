INIT KernelInit
NEXT KernelNext
CONSTANTS
  SKIPLIST_LEVELS = 4
  Procs = {1, 2, 3}
  Deadlines = {0, 1, 2}
  Pages = 14
  Users = {q1, q2}
  Nil = Nil
  Bufs = {c1, c2}
  Blocks = {b1, b2, b3}
  Data = {0, 1}
  Readers = {q1, q2}
  INPUT_BUF = 3
  UWRAP = 6
  Requests = {2}
  CPUs = {q1, q2}
  Threads = {t1, t2}
  Free = Free
SYMMETRY Symmetry
INVARIANTS
  WellFormed
  RefcountExact SleepersHaveWaker
  ReadersJustified NoStuckModifier
  SpinExclusive NoSelfSpin InterruptsRestored
PROPERTIES
  ImplementsRunQueue BlockStoreSpec LineSpec EofAlone
CHECK_DEADLOCK FALSE
