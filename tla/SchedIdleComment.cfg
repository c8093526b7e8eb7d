CONSTANTS
  MaxProcs = 3
  KernelProcs = {1}
  InitProcs = 1
  CountSems = {s1}
  BinSems = {}
  Calls = {"down", "exec", "exit"}
  MaxCount = 1
  MaxSignals = 1
  LowTicks = 1
  HighTicks = 1
  NULL = NULL
SPECIFICATION Spec
INVARIANT IdleWhenNoneAvailable
