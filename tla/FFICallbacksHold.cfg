SPECIFICATION Spec
CONSTANTS
  t1 = t1
  t2 = t2
  t3 = t3
  Threads <- TwoThreads
  Main = Main
  NoOne = NoOne
  Restless <- NoThread
  MaxSkew = 1
INVARIANT HoldsLoopOpen
