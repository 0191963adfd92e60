CONSTANTS
  NPROC = 4
  CPUs = {1}
  BootCPU = 1
  Quantum = 1
  NiceFirst = 0
  NiceValues = {0}
  Syscalls = {"nicefork", "yield", "exit", "wait", "kill"}
  MaxPid = 4
  MaxTicks = 0
SPECIFICATION Spec
INVARIANTS ParentAlive NoMissedExit
