SPECIFICATION Spec
CONSTANTS
  Procs = {p1, p2}
  ninodes = 4
  NINODE = 3
  NFILE = 1
  Names = {"a", "b"}
  Calls <- MCCalls
  MaxCalls = 3
  None = None
SYMMETRY Symmetry
INVARIANTS RefsExact NamesCounted UsedNotFreed OneParent CyclesThroughPut
CHECK_DEADLOCK FALSE
