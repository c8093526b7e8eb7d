CONSTANTS
  Pushers = {p1, p2}
  Poppers = {c1}
  Values = {a, b}
  MaxSize = 2
  BaseSize = 2
  NONE = NONE
SPECIFICATION FairSpec
INVARIANTS AssertsHold MutualExclusion CountsMatch
PROPERTIES PushersGetOn FifoSpec
