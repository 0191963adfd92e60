CONSTANTS
  NPROC = 2
  CPUs = {1, 2}
  BootCPU = 1
  Quantum = 1
  NiceFirst = 0
  NiceValues = {0, 1}
  Syscalls = {"nicefork", "yield", "sleep", "exit", "wait", "kill"}
  MaxPid = 3
  MaxTicks = 1
SPECIFICATION Spec
INVARIANTS QueueExact QuantumLeft UniquePids RunsOnce
PROPERTIES Lifecycle RQSpec
