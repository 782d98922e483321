SPECIFICATION Spec
CONSTANTS
  WordSize = 2048
  Garbage <- MCGarbage
  Values <- FewValues
  Psrs <- FewPsrs
  Dests <- FewDests
  Bases <- MCBases
  Offsets <- MCOffsets
  Lists <- FewLists
  Codes <- FewCodes
  MaxCycles = 3
  MaxEvents = 2
INVARIANTS SavedStatus LegalMode
PROPERTIES WildNeedsIllegalMode ReturnRestores
CHECK_DEADLOCK FALSE
