SPECIFICATION MachineSpec
CONSTANTS
  GPRegs <- MCGPRegs
  Sites <- MCSites
  MCBases = {"rsp"}
  MCCodes = {"asan", "rep_movs"}
INVARIANTS Transparent OperandIntact RedZoneIntact AlignedAtCall
CHECK_DEADLOCK FALSE
