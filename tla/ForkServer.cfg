CONSTANTS
  Runs = 2
  CycleCounts = {0, 1, 2}
SPECIFICATION Spec
CHECK_DEADLOCK FALSE
INVARIANTS
  TypeOK
  OneServer
  ResultIsOfRun
  MapIsOfRun
PROPERTIES
  EveryRequestAnswered
  EndsWithFuzzer
