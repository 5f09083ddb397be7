\* OS X: callbacks poke the descriptor.  The application may have terminated.
SPECIFICATION EmbedFairSpec
CONSTANTS
  Timeouts <- MCTimeouts
  Pokes = TRUE
INVARIANTS
  OneToken
  NoBusySpin
  DueWorkWakesWatcher
PROPERTIES
  LoopServes
CHECK_DEADLOCK FALSE
