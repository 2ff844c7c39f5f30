SPECIFICATION CSpec
CONSTANTS
  Outside = Outside
  Indirect = Indirect
  RetEdge = RetEdge
  CallEdge = CallEdge
  Undef = Undef
  Registers <- MCRegisters
  Widths <- MCWidths
  RetUses <- MCRetUses
  CallUses <- MCCallUses
  Functions <- MCFunctions
  MCLength = 3
  MaxIter = 9
INVARIANTS CTypeOK CoversEquation ChangeBound FreeIsExact NoTaintedRead
PROPERTIES OnlyShrinks Converges
