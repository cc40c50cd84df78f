SPECIFICATION FairSpec
CONSTANTS
  HDR = 2
  HeapBytes = 76
  Layouts = {"heap_init", "tests"}
  FirstSize = 1
  BlockSize = 2
  BlockCount = 4
  Requests = {1, 3, 6}
  GoOn = FALSE
INVARIANTS Tiled Coalesced
PROPERTIES MallocServes CallsReturn
CHECK_DEADLOCK FALSE
