SPECIFICATION Spec
CONSTANTS
  SECTOR_SIZE = 4
  SD_RESP_TIMEOUT = 2
  SD_INIT_TIMEOUT = 2
  Disks <- MCDisks
  BootEntries <- MCBootEntries
  NamePrefixes <- MCNamePrefixes
  Paths <- MCPaths
  NULL = NULL
  PAGE_SIZE = 4
  PAGES = 5
  LOAD_BUFF = 2
  HEADER_SIZE = 1
  PH_SIZE = 1
  INSTR_SIZE = 2
  MEMORY_CHUNK = 2
  MIN_HEAP_START = 6
  MAX_HEAP_SIZE = 16
  Libe <- MCLibe
  Execs <- MCExecs
  MaxProcs = 3
  MaxCalls = 5
  Sizes = {2, 4}
  ReadLens = {12}
INVARIANTS ReadRight  PagesDisjoint HeapRight
PROPERTIES ResolvesRight Progress
CHECK_DEADLOCK FALSE
