SPECIFICATION Spec
CONSTANTS
  o1 = o1
  o2 = o2
  o3 = o3
  o4 = o4
  Objects <- MCObjects
  Native = Native
  Null = Null
  Freed = Freed
  NoCall = NoCall
  MaxRefs = 3
SYMMETRY MCSymmetry
INVARIANTS
  ViewsKeepTheirMemory
  AttachedPointersLead
  CallFindsItsStorage
CHECK_DEADLOCK FALSE
