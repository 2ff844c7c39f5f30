CONSTANTS
  Code <- MCCode
  Size <- MCSize
  Main = "main"
  Window = 20
  Deepest = 5
SPECIFICATION StackSpec
CHECK_DEADLOCK FALSE
INVARIANTS
  PoisonMatchesFrames
  NoFalseReport
PROPERTIES
  OverflowReported
