CONSTANTS
  MaxProcs = 3
  KernelProcs = {1, 3}
  InitProcs = 2
  CountSems = {s1}
  BinSems = {b1}
  Calls = {"down", "up", "binary_up", "yield"}
  MaxCount = 1
  MaxSignals = 0
  LowTicks = 1
  HighTicks = 1
  NULL = NULL
SPECIFICATION FairSpec
INVARIANTS TypeOK BlockedIsWakeable
PROPERTIES SemaphoreSpec ReadyRuns NoStrandedPermit
