SPECIFICATION FairShell
CONSTANTS
  NTHREADS = 3
  RootCalls = {"create", "resume", "join"}
  ChildCalls = {"exit"}
  Ticks = {"root", "child"}
  SleepRootLinked = TRUE
  RetVals = {0, 1, 2, 3, 4}
  MAX = 8
  Lines <- MCLines
  Base = 2
  ByteMod = 5
  Typed = {0, 2, 3}
  MaxLetters = 6
INVARIANTS OneReader
PROPERTIES KillAtomic ReplSpec PromptReturns
CHECK_DEADLOCK FALSE
