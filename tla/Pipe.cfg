SPECIFICATION Spec
CONSTANTS
  Procs = {p1, p2, p3}
  PIPESIZE = 2
  UINT = 4
  ReadSizes = {1, 2}
  WriteSizes = {3}
  None = None
SYMMETRY Symmetry
INVARIANTS SleepersJustified
PROPERTIES ChannelSpec
CHECK_DEADLOCK FALSE
