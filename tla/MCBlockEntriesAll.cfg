SPECIFICATION Spec
CONSTANTS
  Outside = Outside
  Indirect = Indirect
  RetEdge = RetEdge
  CallEdge = CallEdge
  Undef = Undef
  MCLength = 3
  Functions <- MCControlFunctions
INVARIANT BlocksCounted
CHECK_DEADLOCK FALSE
