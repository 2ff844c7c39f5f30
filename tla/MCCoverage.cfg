SPECIFICATION Spec
CONSTANTS
  Threads = {t1, t2}
  Width = 3
  Id <- MCId
  Counters = 3
  MaxBlocks = 4
INVARIANTS IndexInBounds NothingOvercounted
PROPERTY IsEdgeProfile
CHECK_DEADLOCK FALSE
