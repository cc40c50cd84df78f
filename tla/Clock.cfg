SPECIFICATION FairClock
CONSTANTS
  NTHREADS = 3
  KeyMod = 8
  Delays = {1, 4}
  SleepRootLinked = TRUE
  Users = {0, 1, 2}
  TicksWhen = "safe"
  MaxTicks = 3
  BehindTable = {0,3}
INVARIANTS SleepLeadsBack DelaysAge
PROPERTIES TickReturns
