CONSTANTS
  TotalPages = 48
  MAX_ORDER = 5
  StartPage = 4
  EndPage = 48
  TABLE = 8
  DIRECTORY = 16
  IDENTITY = 16
  KERNEL = 48
  KHEAP_START = 64
  KHEAP_INITIAL_SIZE = 2
  FbStarts = {112, 117}
  FbSizes = {1, 8, 10}
  Expansions = {1, 2, 5}
SPECIFICATION VmmSpec
INVARIANTS FramesApart MappedIsExact FirstTableServes
PROPERTY ImplementsAddressSpace
CHECK_DEADLOCK FALSE
