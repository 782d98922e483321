SPECIFICATION MCSpec
CONSTANTS
  WordSize = 2048
  Garbage <- MCGarbage
  ClientRegs <- MCRegs
  Values <- MCValues
  MaxOps = 3
INVARIANT TypeOK
PROPERTY BankingRule
CHECK_DEADLOCK FALSE
