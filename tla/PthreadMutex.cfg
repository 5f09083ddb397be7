SPECIFICATION FairSpec
CONSTANTS
  t1 = t1
  t2 = t2
  t3 = t3
  Threads <- MCThreads
  None = None
  MaxCalls = 4
  MaxDepth = 2
  MaxDeaths = 1
INVARIANTS
  MutualExclusion
  UnwarnedIsClean
PROPERTIES
  EveryCallReturns
CHECK_DEADLOCK FALSE
