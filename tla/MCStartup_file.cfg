SPECIFICATION Spec
CONSTANTS
  CACHE_LINE_SIZE = 64
  HEAP_SIZE = 256
  FileSize = 512
  Addrs = {1, 2}
  CpNum = 1
  MaxEpoch = 4
  MaxThreads = 2
INVARIANTS
  TakenOver
  ThreadNumbers
PROPERTY FileSurvives
