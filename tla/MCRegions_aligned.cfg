SPECIFICATION Spec
CONSTANTS
  CACHE_LINE_SIZE = 4
  HEAP_SIZE = 12
  Clients <- AlignedRegions
INVARIANTS WritesAreSaved NoBitLeft
