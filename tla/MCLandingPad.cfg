SPECIFICATION Spec
CONSTANTS
  Code <- MCCode
  Handler <- MCHandler
  Entry = 0
  Exit <- MCExit
  Raise <- MCRaise
  Abort <- MCAbort
  Depth = 4
  Last = 22
  Threshold = 5
  PageSize = 8
  Options <- MCOptions
INVARIANT ReturnsLikeOriginal
INVARIANT ShortJumpsReach
PROPERTY RunsOriginal
CHECK_DEADLOCK FALSE
