SPECIFICATION ArraySpec
CONSTANTS
  Arrays <- MCArrays
  Names = {"a", "b", "c", "d", "frame_dummy"}
  Runtime = "runtime"
  MCFirst = {1, 2, 3}
  MCSymbols = {TRUE, FALSE}
INVARIANT RunsConstructors
PROPERTY Completes
CHECK_DEADLOCK FALSE
