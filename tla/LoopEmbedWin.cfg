SPECIFICATION WinFairSpec
CONSTANTS
  Loops <- AllLoops
  QueueLimit = 4
  SemLimit = 4
INVARIANTS
  TurnOwed
PROPERTIES
  LoopTurns
CHECK_DEADLOCK FALSE
