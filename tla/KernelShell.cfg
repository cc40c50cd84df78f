SPECIFICATION FairSpec
CONSTANTS
  NTHREADS = 4
  RootCalls = {"create", "create with a long argument", "resume", "join", "yield"}
  ChildCalls = {"yield", "exit"}
  Ticks = {"root"}
  SleepRootLinked = FALSE
  RetVals = {0, 1}
INVARIANTS ReadyListExact OneRunning ContractKept JoinsMasked
PROPERTIES Lifecycle ReadyRuns JoinReturns SchedulerSpec
