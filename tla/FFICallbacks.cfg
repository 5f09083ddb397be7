\* Three native threads on a platform whose condition variables may wake without
\* a signal.  Nothing follows undefined behaviour, so the model may stop there.
SPECIFICATION FairSpec
CONSTANTS
  t1 = t1
  t2 = t2
  t3 = t3
  Threads <- ThreeThreads
  Main = Main
  NoOne = NoOne
  Restless <- OneThread
  MaxSkew = 1
INVARIANTS
  NoUseAfterFree
  SignalFindsWaiter
  NoLostWakeup
PROPERTIES
  QueuedCallsReturn
  CallSpec
CHECK_DEADLOCK FALSE
