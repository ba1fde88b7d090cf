SPECIFICATION Spec
CONSTANTS
  Logs = {p, q}
  Entries = {a, b}
  None = None
  NumBlocks = 2
  BLOCK_NUM = 2
  MaxEntries = 4
SYMMETRY LogSymmetry
INVARIANTS
  OneOwner
  StampedAlike
  NoBlockWasted
PROPERTY ImplementsLogs
