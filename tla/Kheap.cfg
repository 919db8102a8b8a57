CONSTANTS
  HDR = 2
  PAGE_SIZE = 8
  KHEAP_INITIAL_SIZE = 16
  Sizes = {1, 7}
  AlignedSizes = {4}
  MaxHeap = 32
SPECIFICATION Spec
INVARIANTS TypeOK HeapTiles UsedIsLive HolesMerge OneExpansionServes
CHECK_DEADLOCK FALSE
