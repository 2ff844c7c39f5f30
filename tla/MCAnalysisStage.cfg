CONSTANTS
  Symbols <- MCSymbols
  Unknown <- MCUnknown
  Commands <- MCCommands
  Outfiles = {"a", "b"}
  Most = 3
SPECIFICATION StageSpec
CHECK_DEADLOCK FALSE
INVARIANTS
  TypeOK
  OwnRegisters
  EveryFunctionAnalysed
PROPERTIES
  EveryCommandEnds
