SPECIFICATION Spec
CONSTANTS
  Procs = {p1, p2}
  ninodes = 4
  NINODE = 3
  NFILE = 1
  Names = {"a", "b"}
  Calls <- MCCalls
  MaxCalls = 2
  None = None
SYMMETRY Symmetry
INVARIANT NoLockCycle
CHECK_DEADLOCK FALSE
