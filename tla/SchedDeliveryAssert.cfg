CONSTANTS
  MaxProcs = 2
  KernelProcs = {}
  InitProcs = 2
  CountSems = {}
  BinSems = {}
  Calls = {"sigsend", "sigaction"}
  MaxCount = 0
  MaxSignals = 1
  LowTicks = 1
  HighTicks = 1
  NULL = NULL
SPECIFICATION Spec
INVARIANT DeliveryAssertHolds
