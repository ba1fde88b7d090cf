SPECIFICATION FairSpec
CONSTANT Threads = {t1, t2, t3}
INVARIANTS
  TypeOK
  UserNumCounts
  AtMostOneCheckpointPasses
PROPERTIES
  NoResizeWhileIterating
  RegistrationReturns
  FinalizeReturns
