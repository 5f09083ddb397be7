SPECIFICATION FairSpec
CONSTANTS
  t1 = t1
  t2 = t2
  t3 = t3
  Threads <- MCThreads
  None = None
  GoneLimit = 2
  MaxWaits = 3
  MaxSignals = 3
  MaxQuits = 2
INVARIANTS
  WaitersAccounted
  SignalsAreWakeups
  DestroyedIsQuiet
PROPERTIES
  EveryoneSignalledLeaves
CHECK_DEADLOCK FALSE
