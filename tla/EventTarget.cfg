SPECIFICATION EventSpec
CONSTANTS
  f1 = f1
  f2 = f2
  Funcs <- MCFuncs
  MaxListeners = 4
  MaxNative = 4
  MaxDepth = 3
SYMMETRY Symmetry
INVARIANTS
  FiresThoseBefore
  ListenersAreHeard
