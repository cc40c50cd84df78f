SPECIFICATION Spec
CONSTANTS
  NTHREADS = 3
  RootCalls = {"create", "resume", "join"}
  ChildCalls = {"yield", "exit"}
  Ticks = {}
  SleepRootLinked = FALSE
  RetVals = {0, 1}
PROPERTIES JoinCollects
