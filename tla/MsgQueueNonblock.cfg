SPECIFICATION FairSpec
PROPERTIES NonblockReturns
CONSTANTS
  Senders = {s1}
  Receivers = {r1, r2}
  Modes = {"wait", "nonblock"}
  Values = {a}
  MaxLen = 2
  NONE = NONE
CHECK_DEADLOCK FALSE
