SPECIFICATION FairSpec
CONSTANTS
  EpochLimit = 8
  Threads = {t1, t2}
  Lines = {l1}
  Values = {0, 1}
  InitVal = 0
  None = None
  MaxEpoch = 4
PROPERTIES
  CheckpointEnds
  ShutdownEnds
