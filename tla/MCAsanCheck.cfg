SPECIFICATION CheckSpec
CONSTANTS
  Granules = 3
  Operations = {"access", "rep movs", "rep stos"}
  Sizes = {1, 2, 4, 8}
  Counts = {0, 1, 3, 8}
INVARIANTS NoFalseAlarm NothingMissed
CHECK_DEADLOCK FALSE
