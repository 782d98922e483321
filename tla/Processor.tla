----------------------------- MODULE Processor -----------------------------
(* The simulated processor: arm_core.c, arm_exception.c and the control of   *)
(* the instruction decoders.  One action is one call of arm_step on an       *)
(* instruction of one decoder, one arm_exception raised by the irq listener, *)
(* or one register write of the debugger.  The program is any program: what  *)
(* an instruction computes or loads is any of a set of values, and one flag, *)
(* Z, stands for the four that the conditions test.                          *)
EXTENDS RegisterFile, Integers, FiniteSets

CONSTANTS Values,       \* what instructions compute and load, debuggers write
          Psrs,         \* status words the debugger writes
          Dests,        \* destination registers
          Bases,        \* base registers
          Offsets,      \* branch offsets, in bytes
          Lists,        \* register lists of block transfers
          Codes,        \* the bytes the irq listener receives
          MaxCycles,    \* bound on the instructions executed
          MaxEvents     \* bound on interrupts and debugger writes

ASSUME ProcessorAssumption ==
  /\ Values \subseteq Word /\ Psrs \subseteq Word /\ Offsets \subseteq Word
  /\ Dests \subseteq Regs /\ Bases \subseteq Regs
  /\ Lists \subseteq SUBSET Regs
  /\ Codes \subseteq 0..255
  /\ MaxCycles \in Nat /\ MaxEvents \in Nat

VARIABLES data,         \* the register file
          wild,         \* a register write went outside its array
          cycle_count,  \* instructions executed
          exited,       \* the program ended the simulation
          events,       \* interrupts and debugger writes so far
          entered,      \* by mode: the cpsr its last entry found (a history)
          tainted,      \* the cpsr was loaded with an illegal mode by the debugger,
                        \* or by a return with what no entry saved (a history)
          fetched,      \* address of the last instruction (a history)
          last          \* the last step (a history)

history == <<entered, tainted, fetched, last>>
pvars == <<data, wild, cycle_count, exited, events, history>>

-----------------------------------------------------------------------------
\* Mutant: additions do not wrap.
Plus_wide(a, b) == a + b

Plus(a, b) == (a + b) % WordSize
Minus(a, b) == (a + WordSize - b) % WordSize

SetMask(psr, mask) == IF (psr \div mask) % 2 = 1 THEN psr ELSE psr + mask
ClrMask(psr, mask) == IF (psr \div mask) % 2 = 1 THEN psr - mask ELSE psr
HasMask(psr, mask) == (psr \div mask) % 2 = 1

\* Mutant: the mode is a field of four bits.
SetMode_narrow(psr, mode) == psr - (psr % 16) + (mode % 16)

SetMode(psr, mode) == psr - ModeOf(psr) + mode

\* The pc is read 4 beyond its value, bit 1 cleared.
ReadPc(d) == ClrMask(Plus(d[PC], 4), 2)

arm_read_register(d, reg) == IF reg = PC THEN {ReadPc(d)} ELSE read_register(d, reg)

\* The effect of a call on the registers: the file, and whether it was left.
State == [d |-> data, wild |-> wild]

Put(s, reg, v) == [d |-> write_register(s.d, reg, v),
                   wild |-> s.wild \/ IsWild(s.d, reg)]

PutCpsr(s, v) == [s EXCEPT !.d = write_cpsr(s.d, v)]

PutSpsr(s, v) == [d |-> write_spsr(s.d, v),
                  wild |-> \/ s.wild
                           \/ current_mode_has_spsr(s.d) /\ IsWild(s.d, SPSR)]

PutUsr(s, reg, v) == [s EXCEPT !.d = write_usr_register(s.d, reg, v)]

-----------------------------------------------------------------------------
\* The mode an exception enters; a code that is none leaves the mode alone.
EntryMode(code, mode) ==
  IF code \in {RESET, SOFTWARE_INTERRUPT} THEN SVC
  ELSE IF code = UNDEFINED_INSTRUCTION THEN UND
  ELSE IF code \in {PREFETCH_ABORT, DATA_ABORT} THEN ABT
  ELSE IF code = INTERRUPT THEN IRQ
  ELSE IF code = FAST_INTERRUPT THEN FIQ
  ELSE mode

EntryPsr(psr, code) ==
  LET masked == ClrMask(SetMask(ClrMask(psr, T_BIT), I_BIT), E_BIT)
      abort == IF code \in {RESET, PREFETCH_ABORT, DATA_ABORT, INTERRUPT, FAST_INTERRUPT}
               THEN SetMask(masked, A_BIT) ELSE masked
      fast == IF code \in {RESET, FAST_INTERRUPT} THEN SetMask(abort, F_BIT) ELSE abort
  IN  SetMode(fast, EntryMode(code, ModeOf(psr)))

LinkOffset(code) == IF code \in {PREFETCH_ABORT, INTERRUPT, FAST_INTERRUPT} THEN 4
                    ELSE IF code = DATA_ABORT THEN 8 ELSE 0

Vector(code) == IF code \in UNDEFINED_INSTRUCTION..DATA_ABORT THEN 4 * (code - 1)
                ELSE IF code \in INTERRUPT..FAST_INTERRUPT THEN 4 * code
                ELSE 0

\* Mutant: the status is saved after it was changed.
arm_exception_late(s, code) ==
  LET switched == PutCpsr(s, EntryPsr(s.d[CPSR], code))
      saved == IF code = RESET THEN switched
               ELSE Put(PutSpsr(switched, switched.d[CPSR]), LR,
                        Plus(ReadPc(s.d), LinkOffset(code)))
  IN  PutUsr(saved, PC, Vector(code))

\* Mutant: the status is saved before the mode is switched.
arm_exception_early(s, code) ==
  LET cpsr == s.d[CPSR]
      kept == IF code = RESET THEN s ELSE PutSpsr(s, cpsr)
      switched == PutCpsr(kept, EntryPsr(cpsr, code))
      saved == IF code = RESET THEN switched
               ELSE Put(switched, LR, Plus(ReadPc(s.d), LinkOffset(code)))
  IN  PutUsr(saved, PC, Vector(code))

\* The cpsr moves to the spsr of the new mode, the pc to its r14; the pc is
\* written through the user bank.
arm_exception(s, code) ==
  LET cpsr == s.d[CPSR]
      switched == PutCpsr(s, EntryPsr(cpsr, code))
      spsr_saved == PutSpsr(switched, cpsr)
      saved == IF code = RESET THEN switched
               ELSE Put(spsr_saved, LR, Plus(ReadPc(s.d), LinkOffset(code)))
  IN  PutUsr(saved, PC, Vector(code))

\* The history of an entry: what the cpsr was, for the mode that saved it.
NoEntry == -1

RecordEntry(d, code) ==
  entered' = [m \in ExceptionModes |->
                IF code # RESET /\ m = EntryMode(code, get_mode(d))
                THEN d[CPSR] ELSE entered[m]]

-----------------------------------------------------------------------------
\* arm_create: an array of zeroes, and a RESET.
Created == arm_exception([d |-> registers_create, wild |-> FALSE], RESET)

Nothing == [by |-> "none", passed |-> TRUE, code |-> 0]

Init == /\ data = Created.d
        /\ wild = Created.wild
        /\ cycle_count = 0
        /\ exited = FALSE
        /\ events = 0
        /\ entered = [m \in ExceptionModes |-> NoEntry]
        /\ tainted = FALSE
        /\ fetched = 0
        /\ last = Nothing

\* The guest runs while the simulation does and the file is intact.
CanStep == ~exited /\ ~wild /\ cycle_count < MaxCycles

CanEvent == ~exited /\ ~wild /\ events < MaxEvents

FetchAddress == Minus(ReadPc(data), 4)

\* arm_fetch: the pc moves past the instruction, read or not.
arm_fetch == Put(State, PC, Plus(FetchAddress, 4))

Conds == {"AL", "EQ", "NE"}

condition(d, cond) == \/ cond = "AL"
                      \/ cond = "EQ" /\ HasMask(d[CPSR], FlagUnit)
                      \/ cond = "NE" /\ ~HasMask(d[CPSR], FlagUnit)

\* arm_step after the handler of the instruction changed the registers to s and
\* returned result: a non-zero result is raised as an exception.
Finish(s, result, by, cond) ==
  LET final == IF result = 0 THEN s ELSE arm_exception(s, result)
  IN  /\ data' = final.d
      /\ wild' = final.wild
      /\ cycle_count' = cycle_count + 1
      /\ fetched' = FetchAddress
      /\ IF result = 0 THEN UNCHANGED entered ELSE RecordEntry(s.d, result)
      /\ last' = [by |-> by, passed |-> condition(data, cond), code |-> result]
      /\ UNCHANGED <<exited, events>>

\* -1 as the uint8_t that arm_exception takes.
Invalid == 255

\* An instruction of the "never" condition.
NeverInstruction ==
  /\ CanStep
  /\ Finish(arm_fetch, Invalid, "never", "AL")
  /\ UNCHANGED tainted

\* ZNCV_update: the flags of a value replace those of the cpsr read before.
ZNCV_update(s, psr, value) ==
  PutCpsr(s, IF value = 0 THEN SetMask(psr, FlagUnit) ELSE ClrMask(psr, FlagUnit))

\* TST, TEQ, CMP and CMN.
Compare(cond, value) ==
  /\ CanStep
  /\ LET s == arm_fetch
     IN  Finish(IF condition(s.d, cond) THEN ZNCV_update(s, s.d[CPSR], value) ELSE s,
                0, "dp", cond)
  /\ UNCHANGED tainted

\* Mutant: the condition is forgotten.
DataProcessing_always(cond, s_bit, mvn, rd, value) ==
  /\ CanStep
  /\ ~(s_bit /\ rd = PC)
  /\ LET s == arm_fetch
         done == Put(s, rd, IF mvn THEN AllOnes - value ELSE value)
     IN  Finish(IF s_bit THEN ZNCV_update(done, s.d[CPSR], value) ELSE done,
                0, "dp", cond)
  /\ UNCHANGED tainted

\* The other operations; MVN writes the complement of the value it tests.
DataProcessing(cond, s_bit, mvn, rd, value) ==
  /\ CanStep
  /\ ~(s_bit /\ rd = PC)
  /\ LET s == arm_fetch
         done == Put(s, rd, IF mvn THEN AllOnes - value ELSE value)
     IN  Finish(IF ~condition(s.d, cond) THEN s
                ELSE IF s_bit THEN ZNCV_update(done, s.d[CPSR], value)
                ELSE done,
                0, "dp", cond)
  /\ UNCHANGED tainted

\* The same with the S bit and the pc as destination: the return from an
\* exception, where the mode has a saved status.
ExceptionReturn(cond, value) ==
  /\ CanStep
  /\ LET s == arm_fetch
         done == Put(s, PC, value)
         mode == get_mode(data)
         returns == condition(s.d, cond) /\ current_mode_has_spsr(done.d)
     IN  /\ \E psr \in read_spsr(done.d) :
              Finish(IF ~condition(s.d, cond) THEN s
                     ELSE IF returns THEN PutCpsr(done, psr)
                     ELSE done,
                     0, IF returns THEN "return" ELSE "dp", cond)
         /\ tainted' = \/ tainted
                       \/ /\ returns
                          /\ mode \notin ExceptionModes \/ entered[mode] = NoEntry

\* Mutant: the link is the pc as instructions read it.
Branch_linkPc(cond, link, offset) ==
  /\ CanStep
  /\ LET s == arm_fetch
         pc == ReadPc(s.d)
         linked == IF link THEN Put(s, LR, pc) ELSE s
     IN  Finish(IF condition(linked.d, cond) THEN Put(linked, PC, Plus(pc, offset))
                ELSE linked,
                0, IF link THEN "bl" ELSE "b", cond)
  /\ UNCHANGED tainted

\* B and BL: the link is written before the condition is looked at.
Branch(cond, link, offset) ==
  /\ CanStep
  /\ LET s == arm_fetch
         pc == ReadPc(s.d)
         linked == IF link THEN Put(s, LR, Minus(pc, 4)) ELSE s
     IN  Finish(IF condition(linked.d, cond) THEN Put(linked, PC, Plus(pc, offset))
                ELSE linked,
                0, IF link THEN "bl" ELSE "b", cond)
  /\ UNCHANGED tainted

\* MRS; where its condition fails it is undefined.
MoveStatus(cond, from_spsr, rd) ==
  /\ CanStep
  /\ LET s == arm_fetch
     IN  \E psr \in IF from_spsr THEN read_spsr(s.d) ELSE {s.d[CPSR]} :
           IF condition(s.d, cond)
           THEN Finish(Put(s, rd, psr), 0, "mrs", cond)
           ELSE Finish(s, UNDEFINED_INSTRUCTION, "mrs", cond)
  /\ UNCHANGED tainted

\* Undefined: the other miscellaneous instructions (MSR among them), the
\* coprocessor loads and stores, and the other coprocessor instructions.
Undefined(cond) ==
  /\ CanStep
  /\ Finish(arm_fetch, UNDEFINED_INSTRUCTION, "undefined", cond)
  /\ UNCHANGED tainted

\* SWI, whatever its condition.
SoftwareInterrupt(cond) ==
  /\ CanStep
  /\ Finish(arm_fetch, SOFTWARE_INTERRUPT, "swi", cond)
  /\ UNCHANGED tainted

\* SWI 0x123456, whatever its condition: exit.
Exit(cond) ==
  /\ CanStep
  /\ data' = arm_fetch.d
  /\ cycle_count' = cycle_count + 1
  /\ fetched' = FetchAddress
  /\ exited' = TRUE
  /\ last' = [by |-> "exit", passed |-> condition(data, cond), code |-> 0]
  /\ UNCHANGED <<wild, events, entered, tainted>>

-----------------------------------------------------------------------------
\* The addressing modes of a single transfer.  "offset" does not look at the
\* condition.  "pre" writes the address back to the base; "post", of half words,
\* writes the next one; "indexed", the post-indexed modes of bytes and words,
\* leaves the base; "none" are the forms that give no address, -1.
Addressing == {"offset", "pre", "post", "indexed", "none"}

\* A load into rd or a store: the load is skipped where the address is -1.  The
\* value is any: a failed access leaves it uninitialised.
LoadStore(cond, load, mode, rn, rd, address, next, value) ==
  /\ CanStep
  /\ mode = "pre" => next = address
  /\ LET s == arm_fetch
         passed == condition(s.d, cond)
         based == IF mode \in {"pre", "post"} /\ passed THEN Put(s, rn, next) ELSE s
         addressed == /\ mode # "none" /\ address # AllOnes
                      /\ mode = "offset" \/ passed
     IN  Finish(IF load /\ addressed THEN Put(based, rd, value) ELSE based,
                0, IF mode = "offset" THEN "transfer" ELSE "indexed", cond)
  /\ UNCHANGED tainted

\* The first and last address of a block transfer of so many bytes.
StartAddress(base, inc, after, bytes) ==
  IF inc THEN IF after THEN base ELSE Plus(base, 4)
  ELSE IF after THEN Plus(Minus(base, bytes), 4) ELSE Minus(base, bytes)

EndAddress(base, inc, after, bytes) ==
  IF inc THEN IF after THEN Minus(Plus(base, bytes), 4) ELSE Plus(base, bytes)
  ELSE IF after THEN base ELSE Minus(base, 4)

\* Bytes of a register list (numberOfSetBits).
ListBytes(list) == 4 * Cardinality(list)

\* The registers of the list are loaded, the pc with bit 0 cleared; one value
\* stands for theirs.
Load(s, list, value) ==
  LET slots == {getRegister(s.d, i) : i \in list \ {PC}}
  IN  [d |-> [k \in Slots |-> IF k \in slots THEN value
                              ELSE IF k = PC /\ PC \in list THEN ClrMask(value, 1)
                              ELSE s.d[k]],
       wild |-> s.wild \/ \E i \in list : IsWild(s.d, i)]

\* LDM and STM: the base is written back first, then an address of -1 makes the
\* instruction invalid; the forms with the S bit transfer nothing.
LoadStoreMultiple(cond, load, s_bit, writeback, inc, after, rn, list, value) ==
  /\ CanStep
  /\ LET s == arm_fetch
         bytes == ListBytes(list)
         passed == condition(s.d, cond)
     IN  \E base \in arm_read_register(s.d, rn) :
           LET next == IF inc THEN Plus(base, bytes) ELSE Minus(base, bytes)
               based == IF passed /\ writeback THEN Put(s, rn, next) ELSE s
               invalid == AllOnes \in {StartAddress(base, inc, after, bytes),
                                       EndAddress(base, inc, after, bytes)}
           IN  Finish(IF ~invalid /\ load /\ ~s_bit /\ passed
                      THEN Load(based, list, value) ELSE based,
                      IF invalid THEN Invalid ELSE 0, "block", cond)
  /\ UNCHANGED tainted

-----------------------------------------------------------------------------
\* arm_exception called by the irq listener between two instructions: no mask of
\* the cpsr is looked at.
Interrupted(code) ==
  /\ CanEvent
  /\ LET s == arm_exception(State, code)
     IN  data' = s.d /\ wild' = s.wild
  /\ RecordEntry(data, code)
  /\ last' = [by |-> "irq", passed |-> TRUE, code |-> code]
  /\ events' = events + 1
  /\ UNCHANGED <<cycle_count, exited, tainted, fetched>>

\* write_register, the debugger's P packet.
DebuggerWrites(reg, value) ==
  /\ CanEvent
  /\ LET s == Put(State, reg, value)
     IN  data' = s.d /\ wild' = s.wild
  /\ last' = [by |-> "gdb", passed |-> TRUE, code |-> 0]
  /\ events' = events + 1
  /\ UNCHANGED <<cycle_count, exited, entered, tainted, fetched>>

\* write_general_registers, its G packet: r0 to r15 in the mode there is, then
\* the cpsr.
DebuggerWritesAll(value, psr) ==
  /\ CanEvent
  /\ LET slots == {getRegister(data, i) : i \in Regs}
     IN  /\ data' = [k \in Slots |-> IF k = CPSR THEN psr
                                     ELSE IF k \in slots THEN value ELSE data[k]]
         /\ wild' = (wild \/ \E i \in Regs : IsWild(data, i))
  /\ tainted' = (tainted \/ ModeOf(psr) \notin Modes)
  /\ last' = [by |-> "gdb", passed |-> TRUE, code |-> 0]
  /\ events' = events + 1
  /\ UNCHANGED <<cycle_count, exited, entered, fetched>>

Instruction ==
  \/ NeverInstruction
  \/ \E cond \in Conds :
       \/ \E value \in Values : Compare(cond, value)
       \/ \E s_bit, mvn \in BOOLEAN, rd \in Dests, value \in Values :
            DataProcessing(cond, s_bit, mvn, rd, value)
       \/ \E value \in Values : ExceptionReturn(cond, value)
       \/ \E link \in BOOLEAN, offset \in Offsets : Branch(cond, link, offset)
       \/ \E from_spsr \in BOOLEAN, rd \in Dests : MoveStatus(cond, from_spsr, rd)
       \/ Undefined(cond)
       \/ SoftwareInterrupt(cond)
       \/ Exit(cond)
       \/ \E load \in BOOLEAN, mode \in Addressing, rn \in Bases, rd \in Dests,
             address, next, value \in Values :
            LoadStore(cond, load, mode, rn, rd, address, next, value)
       \/ \E load, s_bit, writeback, inc, after \in BOOLEAN, rn \in Bases,
             list \in Lists, value \in Values :
            LoadStoreMultiple(cond, load, s_bit, writeback, inc, after, rn, list,
                              value)

Event == \/ \E code \in Codes : Interrupted(code)
         \/ \E reg \in Dests, value \in Values : DebuggerWrites(reg, value)
         \/ \E value \in Values, psr \in Psrs : DebuggerWritesAll(value, psr)

Next == Instruction \/ Event

Spec == Init /\ [][Next]_pvars

-----------------------------------------------------------------------------
TypeOK == /\ data \in Files
          /\ wild \in BOOLEAN
          /\ cycle_count \in 0..MaxCycles
          /\ exited \in BOOLEAN
          /\ events \in 0..MaxEvents
          /\ entered \in [ExceptionModes -> Word \union {NoEntry}]
          /\ tainted \in BOOLEAN
          /\ fetched \in Word
          /\ last.passed \in BOOLEAN
          /\ last.code \in 0..255

\* The saved status of a mode is the cpsr its most recent entry found, whatever
\* nested exceptions, returns and register writes came between: only
\* arm_exception writes an spsr, and it writes the one of the mode it enters.
SavedStatus == \A m \in ExceptionModes :
                 entered[m] # NoEntry => data[SPSR_slot(m)] = entered[m]

\* The processor is in one of the seven modes as long as neither the debugger
\* wrote another to the cpsr nor a program returned from an exception that its
\* mode never took.
LegalMode == tainted \/ get_mode(data) \in Modes

ByGuest == last'.by \notin {"irq", "gdb", "none"}

\* No instruction of a user-mode program changes the control bits of the cpsr,
\* except by raising an exception: there is no saved status to load there.
UserModeConfined ==
  [][ByGuest /\ get_mode(data) = USR /\ last'.code = 0
       => data'[CPSR] % FlagUnit = data[CPSR] % FlagUnit]_pvars

\* What the program of a mode can name: the sixteen registers of its bank.
Visible(mode) ==
  LET own == IF mode \in ExceptionModes THEN {R13_slot(mode), R14_slot(mode)} ELSE {13, 14}
  IN  (0..7) \union {PC} \union own \union IF mode = FIQ THEN 18..22 ELSE 8..12

\* An instruction that raises no exception changes only the registers its own
\* mode can name and the cpsr: those of the other modes wait unchanged.
HiddenBanksKept ==
  [][ByGuest /\ last'.code = 0 /\ get_mode(data) \in Modes
       => \A k \in Slots \ (Visible(get_mode(data)) \union {CPSR}) :
            data'[k] = data[k]]_pvars

\* The slots that reads and writes of a mode name.
Reaches(d) == {getRegister(d, reg) : reg \in Regs \union {CPSR}}
              \union {getRegister(d, reg) : reg \in
                        IF current_mode_has_spsr(d) THEN {SPSR} ELSE {}}

\* No step that starts in a mode that exists, whether of the program, the
\* debugger or the interrupt thread, writes outside the array, not even in the
\* mode of the exception it raises; and what can be read in that mode is in it.
\* The modes that do not exist are those LegalMode bounds.
WildNeedsIllegalMode ==
  [][get_mode(data) \in Modes
       => Reaches(data) \subseteq Slots /\ (wild' => wild)]_pvars

\* A return ends the entry that saved the status it loads: the program is back
\* in the mode, with the flags and masks, that the exception interrupted.
ReturnRestores ==
  [][(/\ last'.by = "return"
      /\ get_mode(data) \in ExceptionModes
      /\ entered[get_mode(data)] # NoEntry)
       => data'[CPSR] = entered[get_mode(data)]]_pvars

\* BL links to the instruction after it, in the bank of the current mode:
\* instructions read their own address + 8, whatever the pc was.
BranchLinks ==
  [][(/\ last'.by = "bl"
      /\ cycle_count' # cycle_count
      /\ get_mode(data) \in Modes)
       => \E v \in read_register(data', LR) : v = Plus(fetched', 4)]_pvars

\* A data processing, block transfer or indexed transfer whose condition fails
\* moves to the next instruction and changes nothing else.  A block transfer at
\* an invalid address is the exception: it is invalid even then.
ConditionGates ==
  [][(/\ last'.by \in {"dp", "indexed", "block", "b"}
      /\ cycle_count' # cycle_count
      /\ ~last'.passed /\ last'.code = 0)
       => \A k \in Slots \ {PC} : data'[k] = data[k]]_pvars

-----------------------------------------------------------------------------
\* What the sources say and the code does not do.

\* Raising an exception moves the pc to its vector, 0 for a reset.
VectorTaken == [][last'.code \in RESET..FAST_INTERRUPT /\ last' # last
                    => data'[PC] = Vector(last'.code)]_pvars

\* An instruction whose condition fails only moves the pc.
FailedConditionDoesNothing ==
  [][ByGuest /\ cycle_count' # cycle_count /\ ~last'.passed
       => \A k \in Slots \ {PC} : data'[k] = data[k]]_pvars
=============================================================================
