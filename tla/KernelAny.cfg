SPECIFICATION Spec
CONSTANTS
  NTHREADS = 3
  RootCalls = {"create", "resume", "join", "join of no thread", "yield", "suspend", "kill", "sleep", "unsleep", "exit"}
  ChildCalls = {"create", "resume", "yield", "exit"}
  Ticks = {}
  SleepRootLinked = FALSE
  RetVals = {0}
INVARIANTS OnlyCurrentRuns
PROPERTIES StaleNotScheduled
CHECK_DEADLOCK FALSE
