SPECIFICATION FairSpec
CONSTANTS
  NTHREADS = 4
  KeyMod = 4
  Delays = {1, 3}
INVARIANTS Rings OneQueueEach WalkInQueue DeltasAddUp
PROPERTIES CallsReturn FifoSpec
