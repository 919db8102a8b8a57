CONSTANTS
  TotalPages = 12
  MAX_ORDER = 4
  StartPage = 2
  EndPage = 12
SPECIFICATION Spec
INVARIANTS TypeOK BlocksTileRegion MergesWhatIsListed RefusedOnlyWhenFull
PROPERTY ImplementsPageAllocator
