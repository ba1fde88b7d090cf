SPECIFICATION RSpec
CONSTANTS
  EpochLimit = 8
  Threads = {t1, t2}
  Lines = {l1}
  Values = {0, 1}
  InitVal = 0
  None = None
  PowerFails = TRUE
  MaxEpoch = 5
SYMMETRY ThreadSymmetry
INVARIANTS
  TypeOK
  EpochDiscipline
  OverlapIsAnnounced
  DurableBeforeClear
  RecoveryKeepsCheckpoint
  CheckpointImage
  RedoLogsComplete
  BitmapRecycled
  CleanShutdown
PROPERTIES
  ImplementsDurability
