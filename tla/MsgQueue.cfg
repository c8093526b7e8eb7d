SPECIFICATION FairSpec
INVARIANTS FirstExists CountsMatch
PROPERTIES FifoSpec MessagesArrive
CONSTANTS
  Senders = {s1, s2}
  Receivers = {r1, r2}
  Modes = {"wait", "nonblock"}
  Values = {a, b}
  MaxLen = 2
  NONE = NONE
\* mq_pop_nonblock may wait for ever with the lock (run nonblock_blocks).
CHECK_DEADLOCK FALSE
