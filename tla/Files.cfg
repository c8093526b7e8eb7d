CONSTANTS
  Procs = {p1, p2}
  PROC_MAX_FILES = 1
  Workloads = {{"tar"}, {"kbd"}, {"x", "y", "z"}, {"log", "dir"}, {"i2c"}}
  MAX_FILES = 2
  TarSize = 2
  BUFF_SIZE = 2
  Sizes = {1, 2}
  Numbers = {1, 2}
  MaxKeys = 2
  MaxCalls = 5
  Garbage = Garbage
  NULL = NULL
SPECIFICATION Spec
INVARIANTS RequestsQueued ServedOnce NonblockNeverWaits TmpFilesRight TransferIntact
PROPERTIES Served
CHECK_DEADLOCK FALSE
