SPECIFICATION Spec
CONSTANTS
  EpochLimit = 8
  Threads = {t1, t2}
  Objs = {o1}
  None = None
  MaxEpoch = 6
  MaxLog = 2
SYMMETRY ThreadSymmetry
INVARIANTS
  TypeOK
  NoReuseAcrossEpochs
  ValidIffChanged
  EpochStateRecycled
  NoDoubleFree
  MetadataComplete
