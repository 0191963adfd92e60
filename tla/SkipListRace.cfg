CONSTANTS
  SKIPLIST_LEVELS = 2
  Procs = {1, 2, 3}
  Deadlines = {0, 1, 2}
  Pages = 8
SPECIFICATION RaceSpec
INVARIANT DeadlineOrder
CHECK_DEADLOCK FALSE
