SPECIFICATION RSpec
CONSTANTS
  EpochLimit = 8
  Threads = {t1}
  Lines = {l1, l2}
  Values = {0, 1}
  InitVal = 0
  None = None
  PowerFails = FALSE
  MaxEpoch = 4
SYMMETRY LineSymmetry
INVARIANT RecoveredHeapIsEpochImage
