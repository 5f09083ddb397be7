\* Threads that arrive in a number that is not a multiple of Count wait for ever.
SPECIFICATION FairSpec
CONSTANTS
  t1 = t1
  t2 = t2
  t3 = t3
  Threads <- MCThreads
  Locks <- MCLocks
  Proxies <- MCProxies
  None = None
  OnceLock = OnceLock
  BarrierLock = BarrierLock
  Proxy = Proxy
  Count = 2
  MaxArrivals = 4
INVARIANTS
  MutualExclusion
  InitialisedOnce
  MeetingsAreWhole
PROPERTIES
  EveryoneGetsThrough
CHECK_DEADLOCK FALSE
