CONSTANTS
  Threads = {t1, t2}
  HeapArrSize = 5
  ChunkSize = 2
  Sizes = {1, 3, 4}
SPECIFICATION FairSpec
INVARIANTS HeapSound PanicMeansFull
PROPERTIES SearchEnds
CHECK_DEADLOCK FALSE
