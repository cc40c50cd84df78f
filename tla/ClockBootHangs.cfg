SPECIFICATION FairClock
CONSTANTS
  NTHREADS = 3
  KeyMod = 8
  Delays = {}
  SleepRootLinked = FALSE
  Users = {0, 1}
  TicksWhen = "idle"
  MaxTicks = 3
  BehindTable = {0, 3}
PROPERTIES TickReturns
