SPECIFICATION HeapSpec
CONSTANTS
  NPAGE = 4
  PAGE_SIZE = 5
  BIGBLOCK = 2
  Sizes = {2, 10}
INVARIANTS FreeExact EveryRunIsFound HeapExact
PROPERTY MemorySpec
CHECK_DEADLOCK FALSE
