SPECIFICATION FairSpec
CONSTANTS
  t1 = t1
  t2 = t2
  t3 = t3
  Threads <- MCThreads
  NullSenders <- MCNullSenders
  NoArgs = NoArgs
  MaxDepth = 2
INVARIANTS
  ReturnsDelivered
  NothingLeftOver
PROPERTIES
  RaisersReturn
CHECK_DEADLOCK FALSE
