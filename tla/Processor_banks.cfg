SPECIFICATION Spec
CONSTANTS
  WordSize = 2048
  Garbage <- MCGarbage
  Values <- MCValues
  Psrs <- MCPsrs
  Dests <- MCDests
  Bases <- MCBases
  Offsets <- MCOffsets
  Lists <- MCLists
  Codes <- MCCodes
  MaxCycles = 2
  MaxEvents = 1
INVARIANT TypeOK
PROPERTIES UserModeConfined HiddenBanksKept BranchLinks ConditionGates
CHECK_DEADLOCK FALSE
