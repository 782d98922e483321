------------------------------ MODULE Execution -----------------------------
(* The parts of an execution that share no state: the debug messages            *)
(* (DebugFiles), the branches (Branches), the trace (Trace), what instructions   *)
(* compute (Alu) and transfer (Transfers) and the fields that memory takes out   *)
(* of words (BitFields), each with the constants and the variables of its        *)
(* module, and what they guarantee.                                              *)
EXTENDS DebugFiles

CONSTANTS PcSize, OffsetSize,                                       \* of Branches
          Places, AddressSize, Addresses, Vectors, FirstAddress, StackSize, MaxDepth,
          Flags, EarlyEnd,                                          \* of Trace
          AluWidth, AluBytes, AluOperations, Kinds, FirstOperands, Operands,
          AluLength,                                                \* of Alu
          MoveWidth, MemorySize, Registers, Named, Values, Sizes,
          IndexOffsets, IndexAmounts, Blocks, Lists, Garbage,
          MaxLength,                                                \* of Transfers
          LaneBits                                                  \* of BitFields

VARIABLES pc, lr, branch,                                             \* of Branches
          enabled, trace_flags, last_address, location_stack, calls, fetch, fetched,
          lines, seen,                                                \* of Trace
          flags, operation, operations,                               \* of Alu
          reg, mem, transfer, stored, pushed, transfers,              \* of Transfers
          word, read, call                                            \* of BitFields

Branch == INSTANCE Branches WITH WordSize <- PcSize

Traced == INSTANCE Trace WITH None <- NULL, pc <- fetch

Computed == INSTANCE Alu WITH
    Width <- AluWidth, Operations <- AluOperations, ByteSize <- AluBytes, MaxLength <- AluLength,
    last <- operation, executed <- operations

Moves == INSTANCE Transfers WITH
    Width <- MoveWidth, Offsets <- IndexOffsets, Amounts <- IndexAmounts,
    last <- transfer, executed <- transfers

Fields == INSTANCE BitFields

-----------------------------------------------------------------------------
\* Branches reach their targets and calls link the next instruction (arm_branch,
\* arm_fetch; see Branches).
BranchesReach == Branch!BranchesReach

\* The location stack holds the places of the calls not yet ended (LOCATION,
\* END_LOCATION; see Trace).
StackFollowsCalls == Traced!StackFollowsCalls

\* Sequential marks and positions are those of the accesses (trace_memory,
\* trace_print_location; see Trace).
LinesTellTheAccess == Traced!LinesTellTheAccess

\* The shifter gives the operand and the carry of the architecture, but for the
\* amounts listed as deviations (data_processing_operand, asr, ror; see Alu).
ShiftsAreArithmetic == Computed!ShiftsAreArithmetic

\* After an addition the conditions tell the sum that no word can hold
\* (CarryFrom, oVerflow, condition; see Alu).
ConditionsOfSum == Computed!ConditionsOfSum

\* A load brings back what was stored at its address (arm_load_store; see
\* Transfers).
StoredIsLoaded == Moves!StoredIsLoaded

\* Block stores and loads of opposite directions are a stack
\* (arm_load_store_multiple; see Transfers).
StackRestores == Moves!StackRestores

\* Bytes and halves written replace their bits of the word and no other
\* (memory_write_byte, memory_write_half; see BitFields).
WritesReplaceLanes == Fields!WritesReplaceLanes

\* Bytes and halves read are their bits of the word (memory_read_byte,
\* memory_read_half; see BitFields).
ReadsTakeLanes == Fields!ReadsTakeLanes
=============================================================================
