CONSTANTS
  Inputs <- MCInputs
  Instructions <- MCInstructions
  Base = 8
  Entry = 2
  Radix = 3
  Length = 6
  MostUses = 3
SPECIFICATION Spec
CHECK_DEADLOCK FALSE
INVARIANTS
  RewritesTables
