\* The instructions, their trace and the debug messages, one part at a time; each
\* part stops at its bound.
CONSTANTS
    Names = {1, 2, 3, 4}
    Limit = 3
    NULL = NULL
    PcSize = 64
    OffsetSize = 8
    Places = {"p1", "p2"}
    AddressSize = 16
    Addresses = {0, 4, 8, 12}
    Vectors = {0, 4}
    FirstAddress = 4
    StackSize = 3
    MaxDepth = 3
    Flags = {{"MEMORY", "REGISTERS", "POSITION"}, {"REGISTERS", "STATE"}}
    EarlyEnd = TRUE
    AluWidth = 4
    AluBytes = 8
    AluOperations = {"AND", "EOR", "SUB", "RSB", "ADD", "ADC", "SBC", "RSC", "TST", "TEQ", "CMP",
                  "CMN", "ORR", "MOV", "BIC", "MVN"}
    Kinds = {"immediate", "LSL_imm", "LSL_reg", "LSR_imm", "LSR_reg", "ASR_imm", "ASR_reg",
             "ROR_imm", "ROR_reg"}
    FirstOperands = {0, 1, 2, 3, 4, 5, 6, 7, 8, 9, 10, 11, 12, 13, 14, 15}
    Operands = {0, 1, 2, 3, 4, 5, 6, 7, 8, 9, 10, 11, 12, 13, 14, 15}
    AluLength = 1
    MoveWidth = 8
    MemorySize = 16
    Registers = {0, 1, 2}
    Named = {1, 2}
    Values = {4, 8, 130, 255}
    Sizes = {1, 2, 4}
    IndexOffsets = {4}
    IndexAmounts = {0}
    Blocks = TRUE
    Lists = {{0, 2}}
    Garbage = {229}
    MaxLength = 3
    LaneBits = 2
SPECIFICATION MCSpec
INVARIANTS
    ShiftsAreArithmetic
    ConditionsOfSum
    StoredIsLoaded
    BranchesReach
    StackFollowsCalls
    PrintsSelected
PROPERTIES
    StackRestores
    WritesReplaceLanes
    ReadsTakeLanes
    LinesTellTheAccess
CHECK_DEADLOCK FALSE
