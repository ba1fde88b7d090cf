SPECIFICATION ObjSpec
CONSTANTS
  CACHE_LINE_SIZE = 2
  Lines = 10
  Types = {1, 2, 5, 7}
  Places <- SizeClasses
  MaxLog = 3
INVARIANT SizesSaved
