CONSTANTS
  NPROC = 2
  CPUs = {1}
  BootCPU = 1
  Quantum = 1
  NiceFirst = 0
  NiceValues = {0}
  Syscalls = {"nicefork", "kill"}
  MaxPid = 3
  MaxTicks = 1
SPECIFICATION Spec
PROPERTY BornUnkilled
