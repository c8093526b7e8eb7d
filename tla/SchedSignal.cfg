CONSTANTS
  MaxProcs = 2
  KernelProcs = {}
  InitProcs = 2
  CountSems = {}
  BinSems = {}
  Calls = {"sigsend", "sigwait", "sigaction", "alarm"}
  MaxCount = 0
  MaxSignals = 1
  LowTicks = 2
  HighTicks = 2
  NULL = NULL
SPECIFICATION Spec
INVARIANTS IdleMeansNoneReady 
