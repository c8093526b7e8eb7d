SPECIFICATION Spec
CONSTANTS
  Procs = {p1, p2}
  TTY_BUFF_SIZE = 3
  TTY_SUBMIT_BUFF = 3
  LINE_BUFF_SIZE = 3
  __FILE_BUFF_SIZE = 2
  VGA_TEXT_WIDTH = 2
  VGA_TEXT_HEIGHT = 2
  Workloads <- MCWorkloads
  NULL = NULL
INVARIANTS KeysRight InputRight NonblockNeverWaits  
 
CHECK_DEADLOCK FALSE
