-------------------------- MODULE ProcessorProofs --------------------------
(* Proofs about Processor.  The inductive invariant relates the saved status *)
(* words to the history of entries: a mode can only become illegal through a *)
(* word that no entry saved, and a register write can only leave the array   *)
(* in an illegal mode.                                                       *)
EXTENDS Processor, FiniteSetTheorems, TLAPS

-----------------------------------------------------------------------------
\* The operators of RegisterFile: the type of what they return, and which slots
\* a register write can reach.

\* A status word selects one of 32 modes.
LEMMA ModeRange == \A w \in Word : ModeOf(w) \in 0..31
BY WordSizeAssumption DEF Word, ModeOf

\* get_mode reads the cpsr, a word of the array.
LEMMA GetModeRange == \A d \in Files : get_mode(d) \in 0..31
BY ModeRange DEF Files, Slots, CPSR, get_mode

\* A store of a word leaves a register file.
LEMMA StoreType ==
  ASSUME NEW d \in Files, NEW slot, NEW v \in Word
  PROVE  Store(d, slot, v) \in Files
BY DEF Store, Files

\* A read yields a word, in the array or outside it.
LEMMA ContentsType ==
  ASSUME NEW d \in Files, NEW slot
  PROVE  Contents(d, slot) \subseteq Word
BY GarbageAssumption DEF Contents, Files

\* -1 and 0 are words.
LEMMA AllOnesIsWord == AllOnes \in Word /\ 0 \in Word
BY WordSizeAssumption DEF AllOnes, Word

\* The slots of the saved status words lie in the array, differ from each other
\* and from the cpsr.
LEMMA SpsrSlots ==
  \A m \in ExceptionModes :
     /\ SPSR_slot(m) \in Slots
     /\ SPSR_slot(m) # CPSR
     /\ \A n \in ExceptionModes : SPSR_slot(m) = SPSR_slot(n) => m = n
BY DEF Slots, CPSR, ExceptionModes, BankIndex, SPSR_slot,
   USR, SVC, ABT, UND, IRQ, FIQ

\* A general register is never kept in the slot of a status word.
LEMMA GeneralSlot ==
  ASSUME NEW d \in Files, NEW reg \in Regs
  PROVE  /\ getRegister(d, reg) \in Slots \union {Outside}
         /\ getRegister(d, reg) # CPSR
         /\ \A m \in ExceptionModes : getRegister(d, reg) # SPSR_slot(m)
<1>1. get_mode(d) \in 0..31
  BY GetModeRange
<1>2. BankIndex(get_mode(d)) \in 0..4
  BY DEF BankIndex
<1>3. getRegister(d, reg) \in (0..15) \union (18..32) \union {Outside}
  BY <1>1, <1>2 DEF getRegister, Outside, Regs, PC, CPSR, R13_slot, R14_slot
<1>4. \A m \in ExceptionModes : SPSR_slot(m) \in 33..37
  BY DEF SPSR_slot, BankIndex
<1>. QED
  BY <1>3, <1>4 DEF Slots, Outside, CPSR

\* The slots of a legal mode are in the array.
LEMMA LegalSlot ==
  ASSUME NEW d \in Files, NEW reg \in Regs, get_mode(d) \in Modes
  PROVE  ~IsWild(d, reg)
<1>1. get_mode(d) \in 0..31
  BY GetModeRange
<1>. QED
  BY <1>1 DEF IsWild, getRegister, Slots, Outside, Regs, PC, CPSR, Modes,
     ExceptionModes, BankIndex, R13_slot, R14_slot, SPSR_slot,
     USR, SYS, SVC, ABT, UND, IRQ, FIQ

\* The saved status of an exception mode is in its own slot; in any other mode
\* that is said to have one, it is outside the array.
LEMMA StatusSlot ==
  ASSUME NEW d \in Files
  PROVE  /\ get_mode(d) \in ExceptionModes =>
              /\ current_mode_has_spsr(d)
              /\ getRegister(d, SPSR) = SPSR_slot(get_mode(d))
              /\ ~IsWild(d, SPSR)
         /\ current_mode_has_spsr(d) /\ get_mode(d) \notin ExceptionModes =>
              /\ getRegister(d, SPSR) = Outside
              /\ IsWild(d, SPSR)
<1>1. get_mode(d) \in 0..31
  BY GetModeRange
<1>. QED
  BY <1>1 DEF current_mode_has_spsr, IsWild, getRegister, Slots, Outside, PC, CPSR,
     SPSR, ExceptionModes, BankIndex, R13_slot, R14_slot, SPSR_slot,
     USR, SYS, SVC, ABT, UND, IRQ, FIQ

-----------------------------------------------------------------------------
\* The registers as a call on them leaves them.
SType == [d : Files, wild : BOOLEAN]

\* s keeps the cpsr and the saved status words of t.
SameStatus(s, t) == /\ s.d[CPSR] = t.d[CPSR]
                    /\ \A m \in ExceptionModes :
                         s.d[SPSR_slot(m)] = t.d[SPSR_slot(m)]

ControlBits == {T_BIT, F_BIT, I_BIT, A_BIT, E_BIT, FlagUnit}

-----------------------------------------------------------------------------
\* Additions and subtractions wrap.
LEMMA PlusMinusType ==
  \A a, b \in Int : Plus(a, b) \in Word /\ Minus(a, b) \in Word
BY WordSizeAssumption DEF Plus, Minus, Word

\* Setting or clearing a bit above the mode gives a word of the same mode.
LEMMA MaskType ==
  ASSUME NEW psr \in Word, NEW mask \in ControlBits
  PROVE  /\ SetMask(psr, mask) \in Word /\ ModeOf(SetMask(psr, mask)) = ModeOf(psr)
         /\ ClrMask(psr, mask) \in Word /\ ModeOf(ClrMask(psr, mask)) = ModeOf(psr)
<1>. USE WordSizeAssumption DEF Word, SetMask, ClrMask, ModeOf
<1>1. CASE mask = 32
  BY <1>1
<1>2. CASE mask = 64
  BY <1>2
<1>3. CASE mask = 128
  BY <1>3
<1>4. CASE mask = 256
  BY <1>4
<1>5. CASE mask = 512
  BY <1>5
<1>6. CASE mask = 1024
  BY <1>6
<1>. QED
  BY <1>1, <1>2, <1>3, <1>4, <1>5, <1>6
     DEF ControlBits, T_BIT, F_BIT, I_BIT, A_BIT, E_BIT, FlagUnit

\* The flag lies above the control bits.
LEMMA FlagApart ==
  ASSUME NEW psr \in Word
  PROVE  /\ SetMask(psr, FlagUnit) % FlagUnit = psr % FlagUnit
         /\ ClrMask(psr, FlagUnit) % FlagUnit = psr % FlagUnit
BY WordSizeAssumption DEF Word, SetMask, ClrMask, FlagUnit

\* SetMode gives a word of the mode it sets.
LEMMA SetModeType ==
  ASSUME NEW psr \in Word, NEW mode \in 0..31
  PROVE  SetMode(psr, mode) \in Word /\ ModeOf(SetMode(psr, mode)) = mode
BY WordSizeAssumption DEF Word, SetMode, ModeOf

\* The pc as instructions read it is a word.
LEMMA ReadPcType == \A d \in Files : ReadPc(d) \in Word
BY WordSizeAssumption DEF ReadPc, ClrMask, Plus, Files, Slots, PC, Word

-----------------------------------------------------------------------------
\* A write of a general register keeps every status word, and leaves the array
\* in an illegal mode only.
LEMMA PutEffect ==
  ASSUME NEW s \in SType, NEW reg \in Regs, NEW v \in Word
  PROVE  /\ Put(s, reg, v) \in SType
         /\ SameStatus(Put(s, reg, v), s)
         /\ Put(s, reg, v).wild => s.wild \/ get_mode(s.d) \notin Modes
<1>1. s.d \in Files /\ s.wild \in BOOLEAN
  BY DEF SType
<1>2. Put(s, reg, v).d = Store(s.d, getRegister(s.d, reg), v)
  BY DEF Put, write_register
<1>3. Put(s, reg, v).wild = (s.wild \/ IsWild(s.d, reg))
  BY DEF Put
<1>4. Put(s, reg, v) \in SType
  BY <1>1, StoreType DEF Put, write_register, SType, IsWild
<1>5. SameStatus(Put(s, reg, v), s)
  <2>1. CPSR \in Slots /\ \A m \in ExceptionModes : SPSR_slot(m) \in Slots
    BY SpsrSlots DEF CPSR, Slots
  <2>. QED
    BY <1>1, <1>2, <2>1, GeneralSlot DEF SameStatus, Store
<1>. QED
  BY <1>1, <1>3, <1>4, <1>5, LegalSlot

\* A write of the cpsr keeps every other slot.
LEMMA PutCpsrEffect ==
  ASSUME NEW s \in SType, NEW v \in Word
  PROVE  /\ PutCpsr(s, v) \in SType
         /\ PutCpsr(s, v).wild = s.wild
         /\ PutCpsr(s, v).d[CPSR] = v
         /\ \A m \in ExceptionModes :
              PutCpsr(s, v).d[SPSR_slot(m)] = s.d[SPSR_slot(m)]
<1>1. s.d \in Files /\ s.wild \in BOOLEAN
  BY DEF SType
<1>2. PutCpsr(s, v) = [d |-> Store(s.d, CPSR, v), wild |-> s.wild]
  BY DEF PutCpsr, write_cpsr, SType
<1>. QED
  BY <1>1, <1>2, StoreType, SpsrSlots DEF SType, Store, CPSR, Slots

\* In an exception mode, a write of the spsr changes the saved status of that
\* mode and nothing else.
LEMMA PutSpsrEffect ==
  ASSUME NEW s \in SType, NEW v \in Word
  PROVE  /\ PutSpsr(s, v) \in SType
         /\ PutSpsr(s, v).d[CPSR] = s.d[CPSR]
         /\ \A m \in ExceptionModes :
              PutSpsr(s, v).d[SPSR_slot(m)] =
                IF m = get_mode(s.d) THEN v ELSE s.d[SPSR_slot(m)]
         /\ PutSpsr(s, v).wild => s.wild \/ get_mode(s.d) \notin Modes
<1>1. s.d \in Files /\ s.wild \in BOOLEAN
  BY DEF SType
<1>2. PutSpsr(s, v).d = write_spsr(s.d, v)
  BY DEF PutSpsr
<1>3. PutSpsr(s, v).wild = (s.wild \/ (current_mode_has_spsr(s.d) /\ IsWild(s.d, SPSR)))
  BY DEF PutSpsr
<1>4. write_spsr(s.d, v) \in Files
  BY <1>1, StoreType DEF write_spsr
<1>5. PutSpsr(s, v) \in SType
  BY <1>1, <1>4 DEF PutSpsr, SType, IsWild, current_mode_has_spsr
<1>6. CPSR \in Slots /\ \A m \in ExceptionModes : SPSR_slot(m) \in Slots /\ SPSR_slot(m) # CPSR
  BY SpsrSlots DEF CPSR, Slots
<1>7. CASE get_mode(s.d) \in ExceptionModes
  <2>1. PutSpsr(s, v).d = Store(s.d, SPSR_slot(get_mode(s.d)), v)
    BY <1>1, <1>2, <1>7, StatusSlot DEF write_spsr
  <2>2. ~IsWild(s.d, SPSR)
    BY <1>1, <1>7, StatusSlot
  <2>. QED
    BY <1>1, <1>3, <1>5, <1>6, <1>7, <2>1, <2>2, SpsrSlots DEF Store
<1>8. CASE get_mode(s.d) \notin ExceptionModes
  <2>1. PutSpsr(s, v).d[CPSR] = s.d[CPSR]
        /\ \A m \in ExceptionModes : PutSpsr(s, v).d[SPSR_slot(m)] = s.d[SPSR_slot(m)]
    <3>1. CASE current_mode_has_spsr(s.d)
      <4>1. getRegister(s.d, SPSR) = Outside
        BY <1>1, <1>8, <3>1, StatusSlot
      <4>2. \A k \in Slots : write_spsr(s.d, v)[k] = s.d[k]
        BY <3>1, <4>1 DEF write_spsr, Store, Outside, Slots
      <4>. QED
        BY <1>2, <1>6, <4>2
    <3>2. CASE ~current_mode_has_spsr(s.d)
      BY <1>2, <3>2 DEF write_spsr
    <3>. QED
      BY <3>1, <3>2
  <2>2. current_mode_has_spsr(s.d) => get_mode(s.d) \notin Modes
    BY <1>8 DEF current_mode_has_spsr, Modes, ExceptionModes
  <2>. QED
    BY <1>3, <1>5, <1>8, <2>1, <2>2
<1>. QED
  BY <1>7, <1>8

\* The user bank never holds a status word.
LEMMA PutUsrEffect ==
  ASSUME NEW s \in SType, NEW reg \in Regs, NEW v \in Word
  PROVE  /\ PutUsr(s, reg, v) \in SType
         /\ SameStatus(PutUsr(s, reg, v), s)
         /\ PutUsr(s, reg, v).wild = s.wild
<1>1. s.d \in Files /\ s.wild \in BOOLEAN
  BY DEF SType
<1>2. PutUsr(s, reg, v) = [d |-> write_usr_register(s.d, reg, v), wild |-> s.wild]
  BY DEF PutUsr, SType
<1>3. write_usr_register(s.d, reg, v) \in Files
  BY <1>1, StoreType DEF write_usr_register
<1>4. /\ reg # CPSR /\ CPSR \in Slots
      /\ \A m \in ExceptionModes : SPSR_slot(m) \in Slots /\ SPSR_slot(m) # reg
  <2>1. \A m \in ExceptionModes : SPSR_slot(m) \in 33..37
    BY DEF SPSR_slot, BankIndex
  <2>. QED
    BY <2>1 DEF Regs, CPSR, Slots
<1>. QED
  BY <1>1, <1>2, <1>3, <1>4 DEF SType, SameStatus, write_usr_register, Store

-----------------------------------------------------------------------------
\* Bytes and the mode an exception enters.
LEMMA EntryModeRange ==
  \A code \in 0..255, mode \in 0..31 :
     /\ EntryMode(code, mode) \in 0..31
     /\ EntryMode(code, mode) \in ExceptionModes \/ EntryMode(code, mode) = mode
     /\ code \in RESET..FAST_INTERRUPT => EntryMode(code, mode) \in ExceptionModes
BY DEF EntryMode, ExceptionModes, RESET, UNDEFINED_INSTRUCTION, SOFTWARE_INTERRUPT,
   PREFETCH_ABORT, DATA_ABORT, INTERRUPT, FAST_INTERRUPT, SVC, UND, ABT, IRQ, FIQ

\* The status an exception enters with is a word of the mode it enters.
LEMMA EntryPsrType ==
  ASSUME NEW psr \in Word, NEW code \in 0..255
  PROVE  /\ EntryPsr(psr, code) \in Word
         /\ ModeOf(EntryPsr(psr, code)) = EntryMode(code, ModeOf(psr))
<1>. DEFINE t == ClrMask(psr, T_BIT)
            i == SetMask(t, I_BIT)
            masked == ClrMask(i, E_BIT)
            abort == IF code \in {RESET, PREFETCH_ABORT, DATA_ABORT, INTERRUPT, FAST_INTERRUPT}
                     THEN SetMask(masked, A_BIT) ELSE masked
            fast == IF code \in {RESET, FAST_INTERRUPT} THEN SetMask(abort, F_BIT) ELSE abort
<1>1. {T_BIT, I_BIT, E_BIT, A_BIT, F_BIT} \subseteq ControlBits
  BY DEF ControlBits
<1>2. t \in Word
  BY <1>1, MaskType
<1>3. i \in Word
  BY <1>1, <1>2, MaskType
<1>4. masked \in Word
  BY <1>1, <1>3, MaskType
<1>5. abort \in Word
  BY <1>1, <1>4, MaskType
<1>6. fast \in Word
  BY <1>1, <1>5, MaskType
<1>7. EntryPsr(psr, code) = SetMode(fast, EntryMode(code, ModeOf(psr)))
  BY DEF EntryPsr
<1>8. EntryMode(code, ModeOf(psr)) \in 0..31
  BY ModeRange, EntryModeRange
<1>. QED
  BY <1>6, <1>7, <1>8, SetModeType

\* The link and the vector of an exception are words.
LEMMA LinkType ==
  \A code \in 0..255, w \in Word :
     Plus(w, LinkOffset(code)) \in Word /\ Vector(code) \in Word
<1>1. \A code \in 0..255 : LinkOffset(code) \in Int
  BY DEF LinkOffset
<1>2. \A code \in 0..255 : Vector(code) \in 0..28
  BY DEF Vector, UNDEFINED_INSTRUCTION, DATA_ABORT, INTERRUPT, FAST_INTERRUPT
<1>3. Word \subseteq Int /\ 0..28 \subseteq Word
  BY WordSizeAssumption DEF Word
<1>. QED
  BY <1>1, <1>2, <1>3, PlusMinusType

\* An exception enters its mode and saves the status it found there, whatever
\* the mode it interrupts; no other saved status changes.
LEMMA ExceptionEffect ==
  ASSUME NEW s \in SType, NEW code \in 0..255
  PROVE  /\ arm_exception(s, code) \in SType
         /\ arm_exception(s, code).d[CPSR] = EntryPsr(s.d[CPSR], code)
         /\ get_mode(arm_exception(s, code).d) = EntryMode(code, get_mode(s.d))
         /\ code = RESET =>
              \A m \in ExceptionModes :
                 arm_exception(s, code).d[SPSR_slot(m)] = s.d[SPSR_slot(m)]
         /\ code # RESET =>
              \A m \in ExceptionModes :
                 arm_exception(s, code).d[SPSR_slot(m)] =
                   IF m = EntryMode(code, get_mode(s.d)) THEN s.d[CPSR]
                   ELSE s.d[SPSR_slot(m)]
         /\ arm_exception(s, code).wild =>
              s.wild \/ EntryMode(code, get_mode(s.d)) \notin Modes
<1>. DEFINE cpsr == s.d[CPSR]
            switched == PutCpsr(s, EntryPsr(cpsr, code))
            spsr_saved == PutSpsr(switched, cpsr)
            link == Plus(ReadPc(s.d), LinkOffset(code))
            linked == Put(spsr_saved, LR, link)
            saved == IF code = RESET THEN switched ELSE linked
            final == PutUsr(saved, PC, Vector(code))
            mode == EntryMode(code, get_mode(s.d))
<1>1. arm_exception(s, code) = final
  BY DEF arm_exception
<1>2. s.d \in Files /\ cpsr \in Word
  BY DEF SType, Files, Slots, CPSR
<1>3. EntryPsr(cpsr, code) \in Word /\ ModeOf(EntryPsr(cpsr, code)) = mode
  BY <1>2, EntryPsrType DEF get_mode
<1>4. link \in Word /\ Vector(code) \in Word /\ LR \in Regs /\ PC \in Regs
  <2>1. ReadPc(s.d) \in Word
    BY <1>2, ReadPcType
  <2>2. Plus(ReadPc(s.d), LinkOffset(code)) \in Word /\ Vector(code) \in Word
    BY <2>1, LinkType
  <2>3. LR \in Regs /\ PC \in Regs
    BY DEF LR, PC, Regs
  <2>. QED
    BY <2>2, <2>3
<1>5. /\ switched \in SType
      /\ switched.wild = s.wild
      /\ switched.d[CPSR] = EntryPsr(cpsr, code)
      /\ get_mode(switched.d) = mode
      /\ \A m \in ExceptionModes : switched.d[SPSR_slot(m)] = s.d[SPSR_slot(m)]
  BY <1>3, PutCpsrEffect DEF get_mode
<1>6. /\ spsr_saved \in SType
      /\ spsr_saved.d[CPSR] = EntryPsr(cpsr, code)
      /\ get_mode(spsr_saved.d) = mode
      /\ \A m \in ExceptionModes :
           spsr_saved.d[SPSR_slot(m)] = IF m = mode THEN cpsr ELSE s.d[SPSR_slot(m)]
      /\ spsr_saved.wild => s.wild \/ mode \notin Modes
  <2>. HIDE DEF switched, cpsr, mode
  <2>1. cpsr \in Word
    BY <1>2
  <2>. QED
    BY <1>5, <2>1, PutSpsrEffect DEF get_mode
<1>7. /\ linked \in SType
      /\ SameStatus(linked, spsr_saved)
      /\ linked.wild => s.wild \/ mode \notin Modes
  <2>. HIDE DEF spsr_saved, link, mode
  <2>. QED
    BY <1>4, <1>6, PutEffect
<1>8. saved \in SType
  BY <1>5, <1>7
<1>9. /\ final \in SType /\ SameStatus(final, saved) /\ final.wild = saved.wild
  <2>. HIDE DEF saved
  <2>. QED
    BY <1>4, <1>8, PutUsrEffect
<1>. HIDE DEF switched, spsr_saved, linked, link, final, mode, cpsr
<1>. QED
  BY <1>1, <1>5, <1>6, <1>7, <1>9
     DEF SameStatus, get_mode, RESET, FAST_INTERRUPT, cpsr, mode

-----------------------------------------------------------------------------
\* What the entries saved are words of legal modes, until the cpsr was loaded
\* with something else.
SavedLegal == tainted \/ \A m \in ExceptionModes :
                           entered[m] # NoEntry => ModeOf(entered[m]) \in Modes

\* What was written outside the array was written in a mode that does not exist.
WildTainted == wild => tainted

IInv == TypeOK /\ SavedStatus /\ LegalMode /\ SavedLegal /\ WildTainted

\* The registers s that an instruction has reached so far: the mode, the control
\* bits and the saved status words are those it started with.
Keeps(s) == /\ s \in SType
            /\ get_mode(s.d) = get_mode(data)
            /\ s.d[CPSR] % FlagUnit = data[CPSR] % FlagUnit
            /\ \A m \in ExceptionModes : s.d[SPSR_slot(m)] = data[SPSR_slot(m)]
            /\ s.wild => wild \/ get_mode(data) \notin Modes

\* Writing a general register keeps them.
LEMMA KeepsPut ==
  ASSUME IInv, NEW s, Keeps(s), NEW reg \in Regs, NEW v \in Word
  PROVE  Keeps(Put(s, reg, v))
<1>1. s \in SType
  BY DEF Keeps
<1>. QED
  BY <1>1, PutEffect DEF Keeps, SameStatus, IInv, LegalMode, get_mode

\* So does a write of the cpsr with the same control bits.
LEMMA KeepsCpsr ==
  ASSUME IInv, NEW s, Keeps(s), NEW v \in Word, ModeOf(v) = get_mode(data),
         v % FlagUnit = data[CPSR] % FlagUnit
  PROVE  Keeps(PutCpsr(s, v))
<1>1. s \in SType
  BY DEF Keeps
<1>. QED
  BY <1>1, PutCpsrEffect DEF Keeps, get_mode

\* The fetch writes the pc only.
LEMMA KeepsFetch ==
  ASSUME IInv
  PROVE  Keeps(arm_fetch) /\ FetchAddress \in Word
<1>1. Keeps(State)
  BY DEF Keeps, State, IInv, TypeOK, WildTainted, SType
<1>2. ReadPc(data) \in Int /\ Word \subseteq Int
  BY ReadPcType, WordSizeAssumption DEF IInv, TypeOK, Word
<1>3. FetchAddress \in Word
  BY <1>2, PlusMinusType DEF FetchAddress
<1>4. Plus(FetchAddress, 4) \in Word /\ PC \in Regs
  BY <1>2, <1>3, PlusMinusType DEF PC, Regs
<1>. QED
  BY <1>1, <1>3, <1>4, KeepsPut DEF arm_fetch

\* New flags leave the mode and the control bits alone.
LEMMA KeepsFlags ==
  ASSUME IInv, NEW s, Keeps(s), NEW psr \in Word, ModeOf(psr) = get_mode(data),
         psr % FlagUnit = data[CPSR] % FlagUnit, NEW value
  PROVE  Keeps(ZNCV_update(s, psr, value))
<1>1. FlagUnit \in ControlBits
  BY DEF ControlBits
<1>. QED
  BY <1>1, MaskType, FlagApart, KeepsCpsr DEF ZNCV_update

\* The registers a block transfer loads are general registers.
LEMMA KeepsLoad ==
  ASSUME IInv, NEW s, Keeps(s), NEW list \in SUBSET Regs, NEW v \in Word
  PROVE  Keeps(Load(s, list, v))
<1>. DEFINE slots == {getRegister(s.d, i) : i \in list \ {PC}}
<1>1. s \in SType /\ s.d \in Files /\ s.wild \in BOOLEAN
  BY DEF Keeps, SType
<1>2. /\ Load(s, list, v).d =
           [k \in Slots |-> IF k \in slots THEN v
                           ELSE IF k = PC /\ PC \in list THEN ClrMask(v, 1)
                           ELSE s.d[k]]
      /\ Load(s, list, v).wild = (s.wild \/ \E i \in list : IsWild(s.d, i))
      /\ Load(s, list, v) = [d |-> Load(s, list, v).d, wild |-> Load(s, list, v).wild]
  BY DEF Load
<1>3. ClrMask(v, 1) \in Word
  BY WordSizeAssumption DEF ClrMask, Word
<1>4. Load(s, list, v).d \in Files
  BY <1>1, <1>2, <1>3 DEF Files
<1>5. CPSR \notin slots /\ \A m \in ExceptionModes : SPSR_slot(m) \notin slots
  BY <1>1, GeneralSlot
<1>6. /\ CPSR \in Slots /\ CPSR # PC
      /\ \A m \in ExceptionModes : SPSR_slot(m) \in Slots /\ SPSR_slot(m) # PC
  <2>1. \A m \in ExceptionModes : SPSR_slot(m) \in 33..37
    BY DEF SPSR_slot, BankIndex
  <2>. QED
    BY <2>1 DEF PC, CPSR, Slots
<1>7. /\ Load(s, list, v).d[CPSR] = s.d[CPSR]
      /\ \A m \in ExceptionModes : Load(s, list, v).d[SPSR_slot(m)] = s.d[SPSR_slot(m)]
  BY <1>2, <1>5, <1>6
<1>8. Load(s, list, v).wild => wild \/ get_mode(data) \notin Modes
  BY <1>1, <1>2, LegalSlot DEF Keeps
<1>9. Load(s, list, v) \in SType
  BY <1>2, <1>4, <1>1 DEF SType
<1>. QED
  BY <1>7, <1>8, <1>9 DEF Keeps, get_mode

-----------------------------------------------------------------------------
\* The end of an instruction: with or without an exception, the invariant holds
\* again if the registers the handler left satisfy its parts.
LEMMA FinishInv ==
  ASSUME IInv, CanStep, NEW s \in SType, NEW result \in 0..255, NEW by, NEW cond,
         Finish(s, result, by, cond),
         tainted' \in BOOLEAN, tainted => tainted',
         \A m \in ExceptionModes : s.d[SPSR_slot(m)] = data[SPSR_slot(m)],
         tainted' \/ get_mode(s.d) \in Modes,
         s.wild => tainted'
  PROVE  IInv'
<1>. DEFINE raised == arm_exception(s, result)
            mode == EntryMode(result, get_mode(s.d))
<1>1. /\ cycle_count' \in 0..MaxCycles
      /\ fetched' \in Word
      /\ last'.passed \in BOOLEAN /\ last'.code \in 0..255
      /\ exited' \in BOOLEAN /\ events' \in 0..MaxEvents
  BY KeepsFetch, ProcessorAssumption DEF Finish, IInv, TypeOK, CanStep, condition, HasMask
<1>2. s.d \in Files /\ s.d[CPSR] \in Word /\ get_mode(s.d) \in 0..31
  BY GetModeRange DEF SType, Files, Slots, CPSR
<1>3. CASE result = 0
  <2>1. data' = s.d /\ wild' = s.wild /\ entered' = entered
    BY <1>3 DEF Finish
  <2>. QED
    BY <1>1, <1>2, <2>1 DEF SType, IInv, TypeOK, SavedStatus, LegalMode, SavedLegal,
       WildTainted
<1>4. CASE result # 0
  <2>1. data' = raised.d /\ wild' = raised.wild
    BY <1>4 DEF Finish
  <2>2. entered' = [m \in ExceptionModes |->
                      IF result # RESET /\ m = mode THEN s.d[CPSR] ELSE entered[m]]
    BY <1>4 DEF Finish, RecordEntry
  <2>3. TypeOK'
    BY <1>1, <1>2, <2>1, <2>2, ExceptionEffect DEF SType, IInv, TypeOK
  <2>4. SavedStatus'
    BY <2>1, <2>2, ExceptionEffect DEF IInv, SavedStatus
  <2>5. mode \in Modes \/ mode = get_mode(s.d)
    BY <1>2, EntryModeRange DEF Modes, ExceptionModes
  <2>6. LegalMode' /\ WildTainted'
    BY <2>1, <2>5, ExceptionEffect DEF LegalMode, WildTainted
  <2>7. SavedLegal'
    BY <2>2 DEF IInv, SavedLegal, get_mode
  <2>. QED
    BY <2>3, <2>4, <2>6, <2>7 DEF IInv
<1>. QED
  BY <1>3, <1>4

\* FinishInv for a handler that kept the mode and the saved status words.
LEMMA FinishKeeps ==
  ASSUME IInv, CanStep, NEW s, Keeps(s), NEW result \in 0..255, NEW by, NEW cond,
         Finish(s, result, by, cond), tainted' = tainted
  PROVE  IInv'
BY FinishInv DEF Keeps, IInv, TypeOK, LegalMode, WildTainted

\* The instruction ended, perhaps with an exception, on registers that keep the
\* mode, the control bits and the saved status words; it was no return.
Ends(s, result, by, cond) ==
  Keeps(s) /\ CanStep /\ Finish(s, result, by, cond) /\ tainted' = tainted

Names == {"never", "dp", "b", "bl", "mrs", "undefined", "swi", "transfer",
          "indexed", "block"}

Kept == \E s \in SType, result \in 0..255, by \in Names, cond \in Conds :
          Ends(s, result, by, cond)

\* How the decoders below conclude that their step is one of Kept.
LEMMA EndsKept ==
  ASSUME NEW s, NEW result \in 0..255, NEW by \in Names, NEW cond \in Conds,
         Keeps(s), CanStep, Finish(s, result, by, cond), tainted' = tainted
  PROVE  Kept
<1>1. s \in SType /\ Ends(s, result, by, cond)
  BY DEF Keeps, Ends
<1>. QED
  BY <1>1 DEF Kept

\* Such an ending restores the invariant.
LEMMA KeptInv == IInv /\ Kept => IInv'
BY FinishKeeps DEF Kept, Ends

-----------------------------------------------------------------------------
\* arm_create: the array of zeroes is in no legal mode, and the RESET raised on
\* it enters supervisor mode without saving that status.
LEMMA InitInv == Init => IInv
<1>. SUFFICES ASSUME Init PROVE IInv
  OBVIOUS
<1>. DEFINE zero == [d |-> registers_create, wild |-> FALSE]
<1>1. zero \in SType
  BY AllOnesIsWord DEF SType, Files, registers_create
<1>2. RESET \in 0..255 /\ EntryMode(RESET, get_mode(zero.d)) = SVC /\ SVC \in Modes
  BY DEF RESET, EntryMode, Modes
<1>3. Created \in SType /\ get_mode(Created.d) \in Modes /\ ~Created.wild
  BY <1>1, <1>2, ExceptionEffect DEF Created
<1>4. Nothing.passed \in BOOLEAN /\ Nothing.code \in 0..255
  BY DEF Nothing
<1>5. TypeOK
  <2>1. Created.d \in Files /\ Created.wild \in BOOLEAN
    BY <1>3 DEF SType
  <2>2. entered \in [ExceptionModes -> Word \union {NoEntry}]
    BY DEF Init
  <2>3. cycle_count \in 0..MaxCycles /\ events \in 0..MaxEvents
    BY ProcessorAssumption DEF Init
  <2>4. wild \in BOOLEAN /\ exited \in BOOLEAN /\ tainted \in BOOLEAN
    BY <2>1 DEF Init
  <2>. QED
    BY <1>4, <2>1, <2>2, <2>3, <2>4, AllOnesIsWord DEF Init, TypeOK
<1>. QED
  BY <1>3, <1>5 DEF Init, IInv, SavedStatus, LegalMode, SavedLegal, WildTainted

\* A return loads the saved status of its mode; anything else the instruction
\* does keeps the control bits.
Returned == /\ last'.by = "return"
            /\ last'.code = 0
            /\ current_mode_has_spsr(data)
            /\ (get_mode(data) \in ExceptionModes =>
                  data'[CPSR] = data[SPSR_slot(get_mode(data))])
            /\ (wild' => wild \/ get_mode(data) \notin Modes)

\* The return from an exception loads what the entry of its mode saved, or the
\* cpsr is tainted.
LEMMA ReturnShape ==
  ASSUME IInv, NEW cond \in Conds, NEW value \in Values, ExceptionReturn(cond, value)
  PROVE  Kept \/ (Returned /\ IInv')
<1>. DEFINE s == arm_fetch
            done == Put(s, PC, value)
            mode == get_mode(data)
            returns == condition(s.d, cond) /\ current_mode_has_spsr(done.d)
            final(psr) == IF ~condition(s.d, cond) THEN s
                          ELSE IF returns THEN PutCpsr(done, psr) ELSE done
            foreign == returns /\ (mode \notin ExceptionModes \/ entered[mode] = NoEntry)
<1>1. PICK psr \in read_spsr(done.d) :
        Finish(final(psr), 0, IF returns THEN "return" ELSE "dp", cond)
  BY DEF ExceptionReturn
<1>2. CanStep /\ tainted' = (tainted \/ foreign)
  BY DEF ExceptionReturn
<1>3. Keeps(s)
  BY KeepsFetch
<1>4. Keeps(done)
  BY <1>3, KeepsPut, ProcessorAssumption DEF PC, Regs
<1>. HIDE DEF s, done
<1>5. done \in SType /\ done.d \in Files /\ get_mode(done.d) = mode
  BY <1>4 DEF Keeps, SType
<1>6. psr \in Word
  BY <1>1, <1>5, ContentsType, AllOnesIsWord DEF read_spsr
<1>7. CASE ~returns
  <2>1. Keeps(final(psr))
    BY <1>3, <1>4, <1>7
  <2>2. tainted' = tainted
    BY <1>2, <1>7 DEF IInv, TypeOK
  <2>3. Finish(final(psr), 0, "dp", cond)
    BY <1>1, <1>7
  <2>4. 0 \in 0..255 /\ "dp" \in Names
    BY DEF Names
  <2>. HIDE DEF final
  <2>. QED
    BY <1>2, <2>1, <2>2, <2>3, <2>4, EndsKept
<1>8. CASE returns
  <2>1. final(psr) = PutCpsr(done, psr)
    BY <1>8
  <2>2. /\ final(psr) \in SType
        /\ final(psr).wild = done.wild
        /\ final(psr).d[CPSR] = psr
        /\ get_mode(final(psr).d) = ModeOf(psr)
        /\ \A m \in ExceptionModes : final(psr).d[SPSR_slot(m)] = data[SPSR_slot(m)]
    BY <1>4, <1>5, <1>6, <2>1, PutCpsrEffect DEF Keeps, get_mode
  <2>3. tainted' \in BOOLEAN /\ (tainted => tainted') /\ (final(psr).wild => tainted')
    BY <1>2, <1>4, <2>2 DEF IInv, TypeOK, Keeps, LegalMode, WildTainted
  <2>4. mode \in ExceptionModes => psr = data[SPSR_slot(mode)]
    <3>1. SUFFICES ASSUME mode \in ExceptionModes PROVE psr = data[SPSR_slot(mode)]
      OBVIOUS
    <3>2. psr = done.d[SPSR_slot(mode)]
      BY <1>1, <1>5, <1>8, <3>1, StatusSlot, SpsrSlots DEF read_spsr, Contents
    <3>. QED
      BY <1>4, <3>1, <3>2 DEF Keeps
  <2>5. tainted' \/ ModeOf(psr) \in Modes
    <3>1. SUFFICES ASSUME ~tainted, mode \in ExceptionModes, entered[mode] # NoEntry
                   PROVE  ModeOf(psr) \in Modes
      BY <1>2, <1>8
    <3>2. psr = entered[mode]
      BY <2>4, <3>1 DEF IInv, SavedStatus
    <3>. QED
      BY <3>1, <3>2 DEF IInv, SavedLegal
  <2>6. Finish(final(psr), 0, "return", cond)
    BY <1>1, <1>8
  <2>. HIDE DEF final
  <2>7. IInv'
    <3>1. PICK x \in SType : x = final(psr)
      BY <2>2
    <3>2. /\ Finish(x, 0, "return", cond) /\ 0 \in 0..255
          /\ \A m \in ExceptionModes : x.d[SPSR_slot(m)] = data[SPSR_slot(m)]
          /\ tainted' \/ get_mode(x.d) \in Modes
          /\ x.wild => tainted'
      BY <2>2, <2>3, <2>5, <2>6, <3>1
    <3>. QED
      BY ONLY IInv, <1>2, <2>3, <3>2, FinishInv, Zenon
  <2>8. last'.by = "return" /\ last'.code = 0 /\ data' = final(psr).d
    BY <2>6 DEF Finish
  <2>9. current_mode_has_spsr(data)
    BY <1>5, <1>8 DEF current_mode_has_spsr
  <2>10. wild' => wild \/ mode \notin Modes
    BY <1>4, <2>2, <2>6 DEF Finish, Keeps
  <2>. QED
    BY <2>2, <2>4, <2>7, <2>8, <2>9, <2>10 DEF Returned
<1>. QED
  BY <1>7, <1>8

\* A block transfer writes its base back, then loads its registers.
LEMMA BlockKept ==
  ASSUME IInv, NEW cond \in Conds, NEW load \in BOOLEAN, NEW s_bit \in BOOLEAN,
         NEW writeback \in BOOLEAN, NEW inc \in BOOLEAN, NEW after \in BOOLEAN,
         NEW rn \in Bases, NEW list \in Lists, NEW value \in Values,
         LoadStoreMultiple(cond, load, s_bit, writeback, inc, after, rn, list, value)
  PROVE  Kept
<1>. DEFINE s == arm_fetch
            bytes == ListBytes(list)
            passed == condition(s.d, cond)
            next(base) == IF inc THEN Plus(base, bytes) ELSE Minus(base, bytes)
            based(base) == IF passed /\ writeback THEN Put(s, rn, next(base)) ELSE s
            invalid(base) == AllOnes \in {StartAddress(base, inc, after, bytes),
                                          EndAddress(base, inc, after, bytes)}
            final(base) == IF ~invalid(base) /\ load /\ ~s_bit /\ passed
                           THEN Load(based(base), list, value) ELSE based(base)
<1>1. PICK base \in arm_read_register(s.d, rn) :
        Finish(final(base), IF invalid(base) THEN Invalid ELSE 0, "block", cond)
  BY DEF LoadStoreMultiple
<1>2. CanStep /\ tainted' = tainted
  BY DEF LoadStoreMultiple
<1>3. Keeps(s) /\ s.d \in Files
  BY KeepsFetch DEF Keeps, SType
<1>4. list \in SUBSET Regs /\ rn \in Regs /\ value \in Word
  BY ProcessorAssumption
<1>5. bytes \in Int
  <2>1. IsFiniteSet(Regs)
    <3>1. 0 \in Int /\ 15 \in Int
      OBVIOUS
    <3>. QED
      BY <3>1, FS_Interval DEF Regs
  <2>2. Cardinality(list) \in Nat
    BY <1>4, <2>1, FS_Subset, FS_CardinalityType
  <2>. QED
    BY <2>2 DEF ListBytes
<1>6. base \in Word /\ base \in Int
  <2>1. base \in Word
    BY <1>1, <1>3, ReadPcType, ContentsType DEF arm_read_register, read_register
  <2>. QED
    BY <2>1, WordSizeAssumption DEF Word
<1>7. next(base) \in Word
  BY <1>5, <1>6, PlusMinusType
<1>. HIDE DEF s, next
<1>8. Keeps(based(base))
  BY <1>3, <1>4, <1>7, KeepsPut
<1>. HIDE DEF based, invalid
<1>9. Keeps(final(base))
  BY <1>4, <1>8, KeepsLoad
<1>. HIDE DEF final
<1>. QED
  BY <1>1, <1>2, <1>9, EndsKept DEF Invalid, Names

\* An interrupt enters its mode between two instructions; a byte that names no
\* exception stays in the mode there is and saves the cpsr as its status.
LEMMA InterruptInv ==
  ASSUME IInv, NEW code \in Codes, Interrupted(code)
  PROVE  IInv'
<1>. DEFINE raised == arm_exception(State, code)
            mode == EntryMode(code, get_mode(data))
<1>1. State \in SType /\ State.d = data /\ State.wild = wild
  BY DEF State, SType, IInv, TypeOK
<1>2. code \in 0..255
  BY ProcessorAssumption
<1>3. data' = raised.d /\ wild' = raised.wild /\ tainted' = tainted /\ ~wild
  BY DEF Interrupted, CanEvent
<1>4. entered' = [m \in ExceptionModes |->
                    IF code # RESET /\ m = mode THEN data[CPSR] ELSE entered[m]]
  BY DEF Interrupted, RecordEntry
<1>5. raised \in SType
  BY <1>1, <1>2, ExceptionEffect
<1>6. mode \in Modes \/ mode = get_mode(data)
  <2>1. get_mode(data) \in 0..31
    BY GetModeRange DEF IInv, TypeOK
  <2>. QED
    BY <1>2, <2>1, EntryModeRange DEF Modes, ExceptionModes
<1>7. TypeOK'
  <2>1. data' \in Files /\ wild' \in BOOLEAN
    BY <1>3, <1>5 DEF SType
  <2>2. data[CPSR] \in Word
    BY DEF IInv, TypeOK, Files, Slots, CPSR
  <2>3. entered' \in [ExceptionModes -> Word \union {NoEntry}]
    BY <1>4, <2>2 DEF IInv, TypeOK
  <2>4. /\ events' \in 0..MaxEvents
        /\ last'.passed \in BOOLEAN /\ last'.code \in 0..255
    BY <1>2, ProcessorAssumption DEF Interrupted, CanEvent, IInv, TypeOK
  <2>5. UNCHANGED <<cycle_count, exited, tainted, fetched>>
    BY DEF Interrupted
  <2>. QED
    BY <2>1, <2>3, <2>4, <2>5 DEF IInv, TypeOK
<1>8. SavedStatus'
  BY <1>1, <1>2, <1>3, <1>4, ExceptionEffect DEF IInv, SavedStatus
<1>9. LegalMode' /\ WildTainted'
  BY <1>1, <1>2, <1>3, <1>6, ExceptionEffect
     DEF IInv, LegalMode, WildTainted
<1>10. SavedLegal'
  BY <1>3, <1>4 DEF IInv, LegalMode, SavedLegal, get_mode
<1>. QED
  BY <1>7, <1>8, <1>9, <1>10 DEF IInv

\* The debugger's writes reach general registers and the cpsr only.
LEMMA DebuggerInv ==
  ASSUME IInv,
         \/ \E reg \in Dests, value \in Values : DebuggerWrites(reg, value)
         \/ \E value \in Values, psr \in Psrs : DebuggerWritesAll(value, psr)
  PROVE  IInv'
<1>1. /\ events' \in 0..MaxEvents /\ last'.passed \in BOOLEAN /\ last'.code \in 0..255
      /\ UNCHANGED <<cycle_count, exited, entered, fetched>>
  <2>1. /\ CanEvent /\ events' = events + 1
        /\ last' = [by |-> "gdb", passed |-> TRUE, code |-> 0]
        /\ UNCHANGED <<cycle_count, exited, entered, fetched>>
    BY DEF DebuggerWrites, DebuggerWritesAll
  <2>. QED
    BY <2>1, ProcessorAssumption DEF CanEvent, IInv, TypeOK
<1>2. CASE \E reg \in Dests, value \in Values : DebuggerWrites(reg, value)
  <2>1. PICK reg \in Dests, value \in Values : DebuggerWrites(reg, value)
    BY <1>2
  <2>2. Keeps(State) /\ reg \in Regs /\ value \in Word
    BY ProcessorAssumption DEF Keeps, State, IInv, TypeOK, WildTainted, SType
  <2>3. Keeps(Put(State, reg, value))
    BY <2>2, KeepsPut
  <2>4. /\ data' = Put(State, reg, value).d /\ wild' = Put(State, reg, value).wild
        /\ tainted' = tainted
    BY <2>1 DEF DebuggerWrites
  <2>5. data' \in Files /\ wild' \in BOOLEAN /\ (wild' => tainted)
    BY <2>3, <2>4 DEF Keeps, SType, IInv, LegalMode, WildTainted
  <2>6. /\ get_mode(data)' = get_mode(data)
        /\ \A m \in ExceptionModes : data'[SPSR_slot(m)] = data[SPSR_slot(m)]
    BY <2>3, <2>4 DEF Keeps, get_mode
  <2>. QED
    BY <1>1, <2>4, <2>5, <2>6 DEF IInv, TypeOK, SavedStatus, LegalMode, SavedLegal,
       WildTainted
<1>3. CASE \E value \in Values, psr \in Psrs : DebuggerWritesAll(value, psr)
  <2>1. PICK value \in Values, psr \in Psrs : DebuggerWritesAll(value, psr)
    BY <1>3
  <2>. DEFINE slots == {getRegister(data, i) : i \in Regs}
  <2>2. /\ data' = [k \in Slots |-> IF k = CPSR THEN psr
                                   ELSE IF k \in slots THEN value ELSE data[k]]
        /\ wild' = (wild \/ \E i \in Regs : IsWild(data, i))
        /\ tainted' = (tainted \/ ModeOf(psr) \notin Modes)
    BY <2>1 DEF DebuggerWritesAll
  <2>3. value \in Word /\ psr \in Word
    BY ProcessorAssumption
  <2>4. data' \in Files /\ wild' \in BOOLEAN
    BY <2>2, <2>3 DEF Files, IInv, TypeOK
  <2>5. \A m \in ExceptionModes : data'[SPSR_slot(m)] = data[SPSR_slot(m)]
    <3>1. \A m \in ExceptionModes : SPSR_slot(m) \notin slots
      BY GeneralSlot DEF IInv, TypeOK
    <3>. QED
      BY <2>2, <3>1, SpsrSlots
  <2>6. TypeOK' /\ SavedStatus'
    BY <1>1, <2>2, <2>4, <2>5 DEF IInv, TypeOK, SavedStatus
  <2>7. get_mode(data)' = ModeOf(psr)
    BY <2>2 DEF get_mode, Slots, CPSR
  <2>8. wild' => tainted
    BY <2>2, LegalSlot DEF IInv, TypeOK, LegalMode, WildTainted
  <2>. QED
    BY <1>1, <2>2, <2>6, <2>7, <2>8 DEF IInv, LegalMode, SavedLegal, WildTainted
<1>. QED
  BY <1>2, <1>3

-----------------------------------------------------------------------------
\* The exit of the guest writes the pc only.
Exited == /\ Keeps(arm_fetch) /\ data' = arm_fetch.d /\ last'.by = "exit"
          /\ wild' = wild
          /\ IInv'

\* Every instruction but a return and an exit keeps the control bits until it
\* raises an exception.
LEMMA InstructionShape ==
  ASSUME IInv, Instruction
  PROVE  Kept \/ Exited \/ (Returned /\ IInv')
<1>. USE DEF Names
<1>. DEFINE s == arm_fetch
            passed(cond) == condition(s.d, cond)
<1>1. Keeps(s) /\ s.d \in Files /\ s.d[CPSR] \in Word /\ ModeOf(s.d[CPSR]) = get_mode(data)
      /\ s.d[CPSR] % FlagUnit = data[CPSR] % FlagUnit
  BY KeepsFetch DEF Keeps, SType, Files, Slots, CPSR, get_mode
<1>2. Values \subseteq Word /\ Dests \subseteq Regs /\ Bases \subseteq Regs
  BY ProcessorAssumption
<1>3. 0 \in 0..255 /\ Invalid \in 0..255 /\ UNDEFINED_INSTRUCTION \in 0..255
      /\ SOFTWARE_INTERRUPT \in 0..255
  BY DEF Invalid, UNDEFINED_INSTRUCTION, SOFTWARE_INTERRUPT
<1>. HIDE DEF s
<1>4. CASE NeverInstruction
  BY <1>1, <1>3, <1>4, EndsKept DEF NeverInstruction, s, Conds
<1>5. ASSUME NEW cond \in Conds, NEW value \in Values, Compare(cond, value)
      PROVE  Kept
  <2>. DEFINE final == IF passed(cond) THEN ZNCV_update(s, s.d[CPSR], value) ELSE s
  <2>1. CanStep /\ Finish(final, 0, "dp", cond) /\ tainted' = tainted
    BY <1>5 DEF Compare, s
  <2>2. Keeps(final)
    BY <1>1, KeepsFlags
  <2>. HIDE DEF final
  <2>. QED
    BY <1>3, <2>1, <2>2, EndsKept
<1>6. ASSUME NEW cond \in Conds, NEW s_bit \in BOOLEAN, NEW mvn \in BOOLEAN,
             NEW rd \in Dests, NEW value \in Values,
             DataProcessing(cond, s_bit, mvn, rd, value)
      PROVE  Kept
  <2>. DEFINE written == IF mvn THEN AllOnes - value ELSE value
              done == Put(s, rd, written)
              final == IF ~passed(cond) THEN s
                       ELSE IF s_bit THEN ZNCV_update(done, s.d[CPSR], value) ELSE done
  <2>1. CanStep /\ Finish(final, 0, "dp", cond) /\ tainted' = tainted
    BY <1>6 DEF DataProcessing, s
  <2>2. written \in Word
    BY <1>2, WordSizeAssumption DEF AllOnes, Word
  <2>3. Keeps(done)
    BY <1>1, <1>2, <2>2, KeepsPut
  <2>. HIDE DEF done
  <2>4. Keeps(final)
    BY <1>1, <2>3, KeepsFlags
  <2>. HIDE DEF final
  <2>. QED
    BY <1>3, <2>1, <2>4, EndsKept
<1>7. ASSUME NEW cond \in Conds, NEW link \in BOOLEAN, NEW offset \in Offsets,
             Branch(cond, link, offset)
      PROVE  Kept
  <2>. DEFINE pc == ReadPc(s.d)
              linked == IF link THEN Put(s, LR, Minus(pc, 4)) ELSE s
              final == IF condition(linked.d, cond) THEN Put(linked, PC, Plus(pc, offset))
                       ELSE linked
  <2>1. CanStep /\ Finish(final, 0, IF link THEN "bl" ELSE "b", cond) /\ tainted' = tainted
    BY <1>7 DEF Branch, s
  <2>2. pc \in Int /\ offset \in Int
    BY <1>1, ReadPcType, ProcessorAssumption, WordSizeAssumption DEF Word
  <2>3. Minus(pc, 4) \in Word /\ Plus(pc, offset) \in Word
    BY <2>2, PlusMinusType
  <2>4. LR \in Regs /\ PC \in Regs
    BY DEF LR, PC, Regs
  <2>. HIDE DEF pc
  <2>5. Keeps(linked)
    BY <1>1, <2>3, <2>4, KeepsPut
  <2>. HIDE DEF linked
  <2>6. Keeps(final)
    BY <2>3, <2>4, <2>5, KeepsPut
  <2>. HIDE DEF final
  <2>. QED
    BY <1>3, <2>1, <2>6, EndsKept
<1>8. ASSUME NEW cond \in Conds, NEW from_spsr \in BOOLEAN, NEW rd \in Dests,
             MoveStatus(cond, from_spsr, rd)
      PROVE  Kept
  <2>1. PICK psr \in IF from_spsr THEN read_spsr(s.d) ELSE {s.d[CPSR]} :
          IF passed(cond) THEN Finish(Put(s, rd, psr), 0, "mrs", cond)
          ELSE Finish(s, UNDEFINED_INSTRUCTION, "mrs", cond)
    BY <1>8 DEF MoveStatus, s
  <2>2. CanStep /\ tainted' = tainted
    BY <1>8 DEF MoveStatus
  <2>3. read_spsr(s.d) \subseteq Word
    BY <1>1, ContentsType, AllOnesIsWord DEF read_spsr
  <2>4. psr \in Word
    BY <1>1, <2>1, <2>3
  <2>5. Keeps(Put(s, rd, psr))
    BY <1>1, <1>2, <2>4, KeepsPut
  <2>. QED
    BY <1>1, <1>3, <2>1, <2>2, <2>5, EndsKept
<1>9. ASSUME NEW cond \in Conds, Undefined(cond) \/ SoftwareInterrupt(cond)
      PROVE  Kept
  <2>1. CanStep /\ tainted' = tainted
    BY <1>9 DEF Undefined, SoftwareInterrupt
  <2>2. \/ Finish(s, UNDEFINED_INSTRUCTION, "undefined", cond)
        \/ Finish(s, SOFTWARE_INTERRUPT, "swi", cond)
    BY <1>9 DEF Undefined, SoftwareInterrupt, s
  <2>. QED
    BY <1>1, <1>3, <2>1, <2>2, EndsKept
<1>10. ASSUME NEW cond \in Conds, Exit(cond)
       PROVE  Exited
  <2>1. /\ data' = s.d /\ cycle_count' = cycle_count + 1 /\ fetched' = FetchAddress
        /\ exited' = TRUE /\ last' = [by |-> "exit", passed |-> condition(data, cond), code |-> 0]
        /\ CanStep /\ UNCHANGED <<wild, events, entered, tainted>>
    BY <1>10 DEF Exit, s
  <2>2. cycle_count' \in 0..MaxCycles /\ fetched' \in Word
    BY <2>1, KeepsFetch, ProcessorAssumption DEF CanStep, IInv, TypeOK
  <2>3. last'.passed \in BOOLEAN /\ last'.code \in 0..255
    BY <2>1 DEF condition, HasMask
  <2>4. TypeOK'
    BY <1>1, <2>1, <2>2, <2>3 DEF IInv, TypeOK
  <2>. QED
    BY <1>1, <2>1, <2>4 DEF IInv, SavedStatus, LegalMode, SavedLegal, WildTainted,
       Keeps, get_mode, Exited, s
<1>11. ASSUME NEW cond \in Conds, NEW load \in BOOLEAN, NEW mode \in Addressing,
              NEW rn \in Bases, NEW rd \in Dests, NEW address \in Values, NEW next \in Values,
              NEW value \in Values,
              LoadStore(cond, load, mode, rn, rd, address, next, value)
       PROVE  Kept
  <2>. DEFINE based == IF mode \in {"pre", "post"} /\ passed(cond) THEN Put(s, rn, next)
                       ELSE s
              addressed == /\ mode # "none" /\ address # AllOnes
                           /\ mode = "offset" \/ passed(cond)
              final == IF load /\ addressed THEN Put(based, rd, value) ELSE based
  <2>1. /\ CanStep /\ tainted' = tainted
        /\ Finish(final, 0, IF mode = "offset" THEN "transfer" ELSE "indexed", cond)
    BY <1>11 DEF LoadStore, s
  <2>2. Keeps(based)
    BY <1>1, <1>2, KeepsPut
  <2>. HIDE DEF based
  <2>3. Keeps(final)
    BY <1>2, <2>2, KeepsPut
  <2>. HIDE DEF final
  <2>. QED
    BY <1>3, <2>1, <2>3, EndsKept
<1>. QED
  BY <1>4, <1>5, <1>6, <1>7, <1>8, <1>9, <1>10, <1>11, ReturnShape, BlockKept
  DEF Instruction

\* Every instruction keeps the invariant.
LEMMA InstructionInv == IInv /\ Instruction => IInv'
BY InstructionShape, KeptInv DEF Exited

\* So do the interrupts and the writes of the debugger.
LEMMA EventInv == IInv /\ Event => IInv'
BY InterruptInv, DebuggerInv DEF Event

\* The invariant is inductive.
THEOREM Inductive == Spec => []IInv
<1>1. IInv /\ UNCHANGED pvars => IInv'
  BY DEF IInv, TypeOK, SavedStatus, LegalMode, SavedLegal, WildTainted, pvars,
     history, get_mode
<1>2. IInv /\ [Next]_pvars => IInv'
  BY <1>1, InstructionInv, EventInv DEF Next
<1>. QED
  BY InitInv, <1>2, PTL DEF Spec

\* The state of the processor stays in its types: additions wrap, status words
\* keep their width, and a call of arm_exception takes any byte.
THEOREM TypeCorrect == Spec => []TypeOK
BY Inductive, PTL DEF IInv

\* The saved status of a mode is the cpsr its last entry found, for every
\* interleaving of instructions, interrupts and debugger writes.
THEOREM StatusSaved == Spec => []SavedStatus
BY Inductive, PTL DEF IInv

\* Without a write of the cpsr by the debugger or a return that no entry
\* prepared, the processor stays in the seven modes.
THEOREM ModeStaysLegal == Spec => []LegalMode
BY Inductive, PTL DEF IInv

-----------------------------------------------------------------------------
\* The action properties.  Each follows from what the steps are: registers that
\* keep the control bits, then perhaps an exception; a return; or an event.

\* What an instruction that ended without an exception leaves.
LEMMA KeptControl ==
  ASSUME IInv, Kept
  PROVE  /\ last'.by \in Names
         /\ last'.code = 0 => data'[CPSR] % FlagUnit = data[CPSR] % FlagUnit
<1>1. PICK s \in SType, result \in 0..255, by \in Names, cond \in Conds :
        Ends(s, result, by, cond)
  BY DEF Kept
<1>2. last' = [by |-> by, passed |-> condition(data, cond), code |-> result]
  BY <1>1 DEF Ends, Finish
<1>3. result = 0 => data' = s.d
  BY <1>1 DEF Ends, Finish
<1>4. s.d[CPSR] % FlagUnit = data[CPSR] % FlagUnit
  BY <1>1 DEF Ends, Keeps
<1>. QED
  BY <1>2, <1>3, <1>4

\* No step outside the exceptions changes the control bits of user mode: with
\* no saved status, a return loads nothing.
THEOREM UserConfined == Spec => UserModeConfined
<1>. DEFINE Step == ByGuest /\ get_mode(data) = USR /\ last'.code = 0
                      => data'[CPSR] % FlagUnit = data[CPSR] % FlagUnit
<1>1. ASSUME IInv, Instruction PROVE Step
  <2>1. CASE Kept
    BY <1>1, <2>1, KeptControl
  <2>2. CASE Exited
    BY <2>2 DEF Exited, Keeps
  <2>3. CASE Returned
    BY <2>3 DEF Returned, current_mode_has_spsr
  <2>. QED
    BY <1>1, <2>1, <2>2, <2>3, InstructionShape
<1>2. ASSUME Event PROVE Step
  BY <1>2 DEF Event, Interrupted, DebuggerWrites, DebuggerWritesAll, ByGuest
<1>3. IInv /\ [Next]_pvars => [Step]_pvars
  BY <1>1, <1>2 DEF Next
<1>. QED
  BY <1>3, Inductive, PTL DEF Spec, UserModeConfined

\* A return brings back the cpsr that the entry of its mode found.
THEOREM ReturnRestoresEntry == Spec => ReturnRestores
<1>. DEFINE Step == (/\ last'.by = "return"
                     /\ get_mode(data) \in ExceptionModes
                     /\ entered[get_mode(data)] # NoEntry)
                      => data'[CPSR] = entered[get_mode(data)]
<1>1. ASSUME IInv, Instruction PROVE Step
  <2>1. CASE Kept
    BY <1>1, <2>1, KeptControl DEF Names
  <2>2. CASE Exited
    BY <2>2 DEF Exited
  <2>3. CASE Returned
    BY <1>1, <2>3 DEF Returned, IInv, SavedStatus
  <2>. QED
    BY <1>1, <2>1, <2>2, <2>3, InstructionShape
<1>2. ASSUME Event PROVE Step
  BY <1>2 DEF Event, Interrupted, DebuggerWrites, DebuggerWritesAll
<1>3. IInv /\ [Next]_pvars => [Step]_pvars
  BY <1>1, <1>2 DEF Next
<1>. QED
  BY <1>3, Inductive, PTL DEF Spec, ReturnRestores

\* No step leaves the array in a mode that exists.
LEMMA StepStays ==
  ASSUME IInv, Next, get_mode(data) \in Modes, wild'
  PROVE  wild
<1>1. CASE Instruction
  <2>1. CASE Kept
    <3>1. PICK s \in SType, result \in 0..255, by \in Names, cond \in Conds :
            Ends(s, result, by, cond)
      BY <2>1 DEF Kept
    <3>2. /\ get_mode(s.d) \in Modes /\ get_mode(s.d) \in 0..31
          /\ s.wild => wild
      BY <3>1, GetModeRange DEF Ends, Keeps, SType
    <3>3. EntryMode(result, get_mode(s.d)) \in Modes
      BY <3>2, EntryModeRange DEF Modes, ExceptionModes
    <3>4. wild' => s.wild
      BY <3>1, <3>3, ExceptionEffect DEF Ends, Finish
    <3>. QED
      BY <3>2, <3>4
  <2>. QED
    BY <1>1, <2>1, InstructionShape DEF Exited, Returned
<1>2. CASE \E code \in Codes : Interrupted(code)
  <2>1. PICK code \in Codes : Interrupted(code)
    BY <1>2
  <2>2. /\ State \in SType /\ State.d = data /\ State.wild = wild
        /\ code \in 0..255 /\ get_mode(data) \in 0..31
    BY ProcessorAssumption, GetModeRange DEF State, SType, IInv, TypeOK
  <2>3. EntryMode(code, get_mode(data)) \in Modes
    BY <2>2, EntryModeRange DEF Modes, ExceptionModes
  <2>. QED
    BY <2>1, <2>2, <2>3, ExceptionEffect DEF Interrupted
<1>3. CASE \E reg \in Dests, value \in Values : DebuggerWrites(reg, value)
  <2>1. PICK reg \in Dests, value \in Values : DebuggerWrites(reg, value)
    BY <1>3
  <2>2. reg \in Regs /\ value \in Word /\ data \in Files
    BY ProcessorAssumption DEF IInv, TypeOK
  <2>3. ~IsWild(data, reg)
    BY <2>2, LegalSlot
  <2>. QED
    BY <2>1, <2>3 DEF DebuggerWrites, Put, State
<1>4. CASE \E value \in Values, psr \in Psrs : DebuggerWritesAll(value, psr)
  BY <1>4, LegalSlot DEF DebuggerWritesAll, IInv, TypeOK
<1>. QED
  BY <1>1, <1>2, <1>3, <1>4 DEF Next, Event

\* What a mode that exists can name is in the array.
LEMMA ReachInside ==
  ASSUME IInv, get_mode(data) \in Modes
  PROVE  Reaches(data) \subseteq Slots
<1>1. data \in Files
  BY DEF IInv, TypeOK
<1>2. \A reg \in Regs : getRegister(data, reg) \in Slots
  BY <1>1, LegalSlot DEF IsWild
<1>3. getRegister(data, CPSR) \in Slots
  BY DEF getRegister, CPSR, Slots
<1>4. current_mode_has_spsr(data) => getRegister(data, SPSR) \in Slots
  BY <1>1, StatusSlot, SpsrSlots DEF IsWild, Modes, ExceptionModes, current_mode_has_spsr
<1>. QED
  BY <1>2, <1>3, <1>4 DEF Reaches

\* In a mode that exists no read or write of a register leaves the array, nor
\* does an exception raised in it, for every program, interrupt and debugger.
THEOREM AccessesStayInArray == Spec => WildNeedsIllegalMode
<1>. DEFINE Step == get_mode(data) \in Modes
                      => Reaches(data) \subseteq Slots /\ (wild' => wild)
<1>1. IInv /\ [Next]_pvars => [Step]_pvars
  BY StepStays, ReachInside
<1>. QED
  BY <1>1, Inductive, PTL DEF Spec, WildNeedsIllegalMode

-----------------------------------------------------------------------------
(* What one instruction leaves of the registers: nothing but the pc where its *)
(* condition fails, the link of a BL, and the banks of the other modes.        *)
\* The pc is one register in every mode.
LEMMA PutPc ==
  ASSUME NEW s, NEW v
  PROVE  /\ \A k \in Slots \ {PC} : Put(s, PC, v).d[k] = s.d[k]
         /\ Put(s, PC, v).d[PC] = v
<1>1. getRegister(s.d, PC) = PC /\ PC \in Slots
  BY DEF getRegister, PC, Slots
<1>. QED
  BY <1>1 DEF Put, write_register, Store

\* The fetch moves the pc to the next instruction and nothing else.
LEMMA FetchMoves ==
  /\ \A k \in Slots \ {PC} : arm_fetch.d[k] = data[k]
  /\ arm_fetch.d[PC] = Plus(FetchAddress, 4)
  /\ \A cond : condition(arm_fetch.d, cond) <=> condition(data, cond)
<1>1. /\ \A k \in Slots \ {PC} : arm_fetch.d[k] = data[k]
      /\ arm_fetch.d[PC] = Plus(FetchAddress, 4)
  BY PutPc DEF arm_fetch, State
<1>2. arm_fetch.d[CPSR] = data[CPSR]
  BY <1>1 DEF CPSR, PC, Slots
<1>. QED
  BY <1>1, <1>2 DEF condition

\* An instruction that ends on what the fetch left changed the pc only, and
\* every one tells in "last" whether its condition held.
LEMMA Fetched ==
  ASSUME NEW s, NEW result, NEW by, NEW cond, Finish(s, result, by, cond)
  PROVE  /\ last'.by = by /\ last'.code = result
         /\ last'.passed <=> condition(arm_fetch.d, cond)
         /\ result = 0 /\ s = arm_fetch => \A k \in Slots \ {PC} : data'[k] = data[k]
<1>1. last' = [by |-> by, passed |-> condition(data, cond), code |-> result]
  BY DEF Finish
<1>2. result = 0 => data' = s.d
  BY DEF Finish
<1>3. condition(data, cond) <=> condition(arm_fetch.d, cond)
  BY FetchMoves
<1>. QED
  BY <1>1, <1>2, <1>3, FetchMoves

\* A data processing, branch, indexed or block transfer whose condition fails
\* leaves every register but the pc, in every mode, legal or not.
THEOREM FailedConditionGates == Spec => ConditionGates
<1>. DEFINE Gated == last'.by \in {"dp", "indexed", "block", "b"}
            Stays == \A k \in Slots \ {PC} : data'[k] = data[k]
            Step == (Gated /\ cycle_count' # cycle_count /\ ~last'.passed /\ last'.code = 0)
                      => Stays
            s == arm_fetch
            passed(cond) == condition(s.d, cond)
<1>. HIDE DEF s
<1>1. ASSUME NEW f, NEW result, NEW by, NEW cond, Finish(f, result, by, cond),
             (by \in {"dp", "indexed", "block", "b"} /\ result = 0 /\ ~passed(cond)) => f = s
      PROVE  Step
  BY <1>1, Fetched DEF s
<1>2. ASSUME NeverInstruction PROVE Step
  <2>1. Finish(s, Invalid, "never", "AL")
    BY <1>2 DEF NeverInstruction, s
  <2>. QED
    BY <1>1, <2>1
<1>3. ASSUME NEW cond, NEW value, Compare(cond, value) PROVE Step
  <2>. DEFINE f == IF passed(cond) THEN ZNCV_update(s, s.d[CPSR], value) ELSE s
  <2>1. Finish(f, 0, "dp", cond) /\ (~passed(cond) => f = s)
    BY <1>3 DEF Compare, s
  <2>. HIDE DEF f
  <2>. QED
    BY <1>1, <2>1
<1>4. ASSUME NEW cond, NEW s_bit, NEW mvn, NEW rd, NEW value,
             DataProcessing(cond, s_bit, mvn, rd, value)
      PROVE  Step
  <2>. DEFINE done == Put(s, rd, IF mvn THEN AllOnes - value ELSE value)
              f == IF ~passed(cond) THEN s
                   ELSE IF s_bit THEN ZNCV_update(done, s.d[CPSR], value) ELSE done
  <2>1. Finish(f, 0, "dp", cond) /\ (~passed(cond) => f = s)
    BY <1>4 DEF DataProcessing, s
  <2>. HIDE DEF f
  <2>. QED
    BY <1>1, <2>1
<1>5. ASSUME NEW cond, NEW value, ExceptionReturn(cond, value) PROVE Step
  <2>. DEFINE done == Put(s, PC, value)
              returns == passed(cond) /\ current_mode_has_spsr(done.d)
              f(psr) == IF ~passed(cond) THEN s
                        ELSE IF returns THEN PutCpsr(done, psr) ELSE done
  <2>1. PICK psr \in read_spsr(done.d) :
          Finish(f(psr), 0, IF returns THEN "return" ELSE "dp", cond)
    BY <1>5 DEF ExceptionReturn, s
  <2>2. ~passed(cond) => f(psr) = s
    OBVIOUS
  <2>. HIDE DEF f
  <2>. QED
    BY <1>1, <2>1, <2>2
<1>6. ASSUME NEW cond, NEW link, NEW offset, Branch(cond, link, offset) PROVE Step
  <2>. DEFINE linked == IF link THEN Put(s, LR, Minus(ReadPc(s.d), 4)) ELSE s
              f == IF condition(linked.d, cond)
                   THEN Put(linked, PC, Plus(ReadPc(s.d), offset)) ELSE linked
  <2>1. Finish(f, 0, IF link THEN "bl" ELSE "b", cond)
    BY <1>6 DEF Branch, s
  <2>2. ~link /\ ~passed(cond) => f = s
    OBVIOUS
  <2>. HIDE DEF f
  <2>. QED
    BY <1>1, <2>1, <2>2
<1>7. ASSUME NEW cond, NEW from_spsr, NEW rd, MoveStatus(cond, from_spsr, rd) PROVE Step
  <2>1. PICK psr : \/ Finish(Put(s, rd, psr), 0, "mrs", cond)
                   \/ Finish(s, UNDEFINED_INSTRUCTION, "mrs", cond)
    BY <1>7 DEF MoveStatus, s
  <2>. QED
    BY <1>1, <2>1
<1>8. ASSUME NEW cond, Undefined(cond) \/ SoftwareInterrupt(cond) PROVE Step
  <2>1. \/ Finish(s, UNDEFINED_INSTRUCTION, "undefined", cond)
        \/ Finish(s, SOFTWARE_INTERRUPT, "swi", cond)
    BY <1>8 DEF Undefined, SoftwareInterrupt, s
  <2>. QED
    BY <1>1, <2>1
<1>9. ASSUME NEW cond, Exit(cond) PROVE Step
  BY <1>9 DEF Exit
<1>10. ASSUME NEW cond, NEW load, NEW mode, NEW rn, NEW rd, NEW address, NEW next, NEW value,
              LoadStore(cond, load, mode, rn, rd, address, next, value)
       PROVE  Step
  <2>. DEFINE based == IF mode \in {"pre", "post"} /\ passed(cond) THEN Put(s, rn, next) ELSE s
              addressed == /\ mode # "none" /\ address # AllOnes
                           /\ mode = "offset" \/ passed(cond)
              f == IF load /\ addressed THEN Put(based, rd, value) ELSE based
  <2>1. Finish(f, 0, IF mode = "offset" THEN "transfer" ELSE "indexed", cond)
    BY <1>10 DEF LoadStore, s
  <2>2. mode # "offset" /\ ~passed(cond) => f = s
    OBVIOUS
  <2>. HIDE DEF f
  <2>. QED
    BY <1>1, <2>1, <2>2
<1>11. ASSUME NEW cond, NEW load, NEW s_bit, NEW writeback, NEW inc, NEW after, NEW rn,
              NEW list, NEW value,
              LoadStoreMultiple(cond, load, s_bit, writeback, inc, after, rn, list, value)
       PROVE  Step
  <2>. DEFINE bytes == ListBytes(list)
              next(base) == IF inc THEN Plus(base, bytes) ELSE Minus(base, bytes)
              based(base) == IF passed(cond) /\ writeback THEN Put(s, rn, next(base)) ELSE s
              invalid(base) == AllOnes \in {StartAddress(base, inc, after, bytes),
                                            EndAddress(base, inc, after, bytes)}
              f(base) == IF ~invalid(base) /\ load /\ ~s_bit /\ passed(cond)
                         THEN Load(based(base), list, value) ELSE based(base)
  <2>1. PICK base \in arm_read_register(s.d, rn) :
          Finish(f(base), IF invalid(base) THEN Invalid ELSE 0, "block", cond)
    BY <1>11 DEF LoadStoreMultiple, s
  <2>2. ~passed(cond) => f(base) = s
    OBVIOUS
  <2>. HIDE DEF f
  <2>. QED
    BY <1>1, <2>1, <2>2
<1>12. Instruction => Step
  <2>. HIDE DEF Step
  <2>. QED
    BY <1>2, <1>3, <1>4, <1>5, <1>6, <1>7, <1>8, <1>9, <1>10, <1>11 DEF Instruction
<1>13. Event => Step
  BY DEF Event, Interrupted, DebuggerWrites, DebuggerWritesAll
<1>14. [Next]_pvars => [Step]_pvars
  BY <1>12, <1>13 DEF Next
<1>. QED
  BY <1>14, PTL DEF Spec, ConditionGates
-----------------------------------------------------------------------------
\* Clearing bit 1 of an address clears it, and steps of 4, which wrap at a
\* multiple of 4, leave it clear.
LEMMA BitOne ==
  ASSUME NEW w \in Word
  PROVE  /\ ClrMask(w, 2) \in Word /\ ~HasMask(ClrMask(w, 2), 2)
         /\ ~HasMask(w, 2) => ~HasMask(Plus(w, 4), 2) /\ ~HasMask(Minus(w, 4), 2)
<1>. DEFINE q == WordSize \div 4
<1>1. q \in Nat /\ WordSize = 4 * q /\ q > 1
  BY WordSizeAssumption
<1>. HIDE DEF q
<1>2. w \in Nat /\ w < WordSize
  BY WordSizeAssumption DEF Word
<1>3. ClrMask(w, 2) \in Word /\ ~HasMask(ClrMask(w, 2), 2)
  <2>. DEFINE h == w \div 4
  <2>1. h \in Nat /\ w \in (4 * h)..(4 * h + 3)
    BY <1>2
  <2>. HIDE DEF h
  <2>2. HasMask(w, 2) <=> w \in {4 * h + 2, 4 * h + 3}
    BY <2>1 DEF HasMask
  <2>3. ClrMask(w, 2) \in {4 * h, 4 * h + 1} /\ ClrMask(w, 2) <= w
    BY <2>1, <2>2 DEF ClrMask, HasMask
  <2>4. ~HasMask(ClrMask(w, 2), 2)
    BY <2>1, <2>3 DEF HasMask
  <2>5. ClrMask(w, 2) \in Nat
    BY <2>1, <2>3
  <2>6. ClrMask(w, 2) \in Word
    BY <1>2, <2>3, <2>5, WordSizeAssumption DEF Word
  <2>. QED
    BY <2>4, <2>6
<1>4. Plus(w, 4) \in {w + 4, w + 4 - WordSize} /\ Minus(w, 4) \in {w - 4, w - 4 + WordSize}
  BY <1>1, <1>2 DEF Plus, Minus
<1>5. ASSUME ~HasMask(w, 2)
      PROVE  ~HasMask(Plus(w, 4), 2) /\ ~HasMask(Minus(w, 4), 2)
  <2>. DEFINE h == w \div 4
  <2>1. h \in Nat /\ w \in {4 * h, 4 * h + 1}
    BY <1>2, <1>5 DEF HasMask
  <2>. HIDE DEF h
  <2>2. \A v \in Nat : (\E g \in Int : v \in {4 * g, 4 * g + 1}) => ~HasMask(v, 2)
    BY DEF HasMask
  <2>3. Plus(w, 4) \in Nat /\ Minus(w, 4) \in Nat
    BY <1>1, <1>2 DEF Plus, Minus
  <2>4. \E g \in Int : Plus(w, 4) \in {4 * g, 4 * g + 1}
    <3>1. CASE Plus(w, 4) = w + 4
      <4>1. h + 1 \in Int /\ Plus(w, 4) \in {4 * (h + 1), 4 * (h + 1) + 1}
        BY <2>1, <3>1
      <4>. QED
        BY <4>1
    <3>2. CASE Plus(w, 4) = w + 4 - WordSize
      <4>1. h + 1 - q \in Int /\ Plus(w, 4) \in {4 * (h + 1 - q), 4 * (h + 1 - q) + 1}
        BY <1>1, <2>1, <3>2
      <4>. QED
        BY <4>1
    <3>. QED
      BY <1>4, <3>1, <3>2
  <2>5. \E g \in Int : Minus(w, 4) \in {4 * g, 4 * g + 1}
    <3>1. CASE Minus(w, 4) = w - 4
      <4>1. h - 1 \in Int /\ Minus(w, 4) \in {4 * (h - 1), 4 * (h - 1) + 1}
        BY <2>1, <3>1
      <4>. QED
        BY <4>1
    <3>2. CASE Minus(w, 4) = w - 4 + WordSize
      <4>1. h - 1 + q \in Int /\ Minus(w, 4) \in {4 * (h - 1 + q), 4 * (h - 1 + q) + 1}
        BY <1>1, <2>1, <3>2
      <4>. QED
        BY <4>1
    <3>. QED
      BY <1>4, <3>1, <3>2
  <2>. QED
    BY <2>2, <2>3, <2>4, <2>5
<1>. QED
  BY <1>3, <1>5

\* After the fetch, instructions read 8 beyond their own address: 4 less is the
\* address of the next instruction, which bit 1 of the pc never changes.
LEMMA NextAddress ==
  ASSUME IInv
  PROVE  Minus(ReadPc(arm_fetch.d), 4) = Plus(FetchAddress, 4)
<1>. DEFINE next == Plus(FetchAddress, 4)
<1>1. data[PC] \in Word
  BY DEF IInv, TypeOK, Files, PC, Slots
<1>2. \A w \in Word : Plus(w, 4) \in Word /\ Minus(w, 4) \in Word
  BY PlusMinusType, WordSizeAssumption DEF Word
<1>3. ReadPc(data) \in Word /\ ~HasMask(ReadPc(data), 2)
  BY <1>1, <1>2, BitOne DEF ReadPc
<1>4. FetchAddress \in Word /\ ~HasMask(FetchAddress, 2)
  BY <1>2, <1>3, BitOne DEF FetchAddress
<1>5. next \in Word /\ ~HasMask(next, 2)
  BY <1>2, <1>4, BitOne
<1>6. Plus(next, 4) \in Word /\ ~HasMask(Plus(next, 4), 2)
  <2>. HIDE DEF next
  <2>. QED
    BY <1>2, <1>5, BitOne
<1>7. ReadPc(arm_fetch.d) = Plus(next, 4)
  BY <1>6, FetchMoves DEF ReadPc, ClrMask, HasMask
<1>8. Minus(Plus(next, 4), 4) = next
  <2>. HIDE DEF next
  <2>1. Plus(next, 4) \in {next + 4, next + 4 - WordSize}
    BY <1>5, WordSizeAssumption DEF Plus, Word
  <2>. QED
    BY <1>5, <1>6, <2>1, WordSizeAssumption DEF Minus, Word
<1>. QED
  BY <1>7, <1>8

\* In a legal mode r14 is a register of the array, other than the pc and the
\* cpsr, and only the cpsr decides which.
LEMMA LinkSlot ==
  ASSUME NEW d \in Files, get_mode(d) \in Modes
  PROVE  getRegister(d, LR) \in Slots \ {PC, CPSR}
<1>1. LR \in Regs
  BY DEF LR, Regs
<1>2. getRegister(d, LR) \in Slots /\ getRegister(d, LR) # CPSR
  BY <1>1, LegalSlot, GeneralSlot DEF IsWild
<1>3. BankIndex(get_mode(d)) \in 0..4
  BY DEF BankIndex
<1>4. getRegister(d, LR) # PC
  BY <1>3 DEF getRegister, LR, PC, CPSR, R14_slot, Modes, ExceptionModes, Outside,
     USR, SYS, SVC, ABT, UND, IRQ, FIQ
<1>. QED
  BY <1>2, <1>4

\* The slot of a register is a matter of the mode alone.
LEMMA SlotOfMode ==
  ASSUME NEW d, NEW e, NEW reg, get_mode(d) = get_mode(e)
  PROVE  getRegister(d, reg) = getRegister(e, reg)
BY DEF getRegister

\* A BL leaves in the r14 of its mode the address of the instruction after it,
\* for every pc and offset, also where its condition fails.
LEMMA BranchLeavesLink ==
  ASSUME IInv, get_mode(data) \in Modes, NEW cond, NEW offset,
         Branch(cond, TRUE, offset)
  PROVE  \E v \in read_register(data', LR) : v = Plus(fetched', 4)
<1>. DEFINE s == arm_fetch
            pc == ReadPc(s.d)
            linked == Put(s, LR, Minus(pc, 4))
            final == IF condition(linked.d, cond) THEN Put(linked, PC, Plus(pc, offset))
                     ELSE linked
            slot == getRegister(data, LR)
<1>1. Finish(final, 0, "bl", cond)
  BY DEF Branch
<1>2. data' = final.d /\ fetched' = FetchAddress
  BY <1>1 DEF Finish
<1>3. slot \in Slots \ {PC, CPSR} /\ CPSR \in Slots \ {PC}
  BY LinkSlot DEF IInv, TypeOK, CPSR, PC, Slots
<1>4. s.d[CPSR] = data[CPSR]
  BY <1>3, FetchMoves
<1>5. getRegister(s.d, LR) = slot
  BY <1>4, SlotOfMode DEF get_mode
<1>6. linked.d[slot] = Minus(pc, 4) /\ linked.d[CPSR] = data[CPSR]
  BY <1>3, <1>4, <1>5 DEF Put, write_register, Store
<1>. HIDE DEF s, linked, slot
<1>7. final.d[slot] = Minus(pc, 4) /\ final.d[CPSR] = data[CPSR]
  BY <1>3, <1>6, PutPc
<1>8. getRegister(data', LR) = slot
  BY <1>2, <1>7, SlotOfMode DEF get_mode, slot
<1>9. read_register(data', LR) = {Minus(pc, 4)}
  BY <1>2, <1>3, <1>7, <1>8 DEF read_register, Contents
<1>. QED
  BY <1>2, <1>9, NextAddress DEF s

\* BL links to the instruction after it, for every address and every legal mode.
THEOREM LinkIsNextInstruction == Spec => BranchLinks
<1>. DEFINE Step == (/\ last'.by = "bl"
                     /\ cycle_count' # cycle_count
                     /\ get_mode(data) \in Modes)
                      => \E v \in read_register(data', LR) : v = Plus(fetched', 4)
<1>1. ASSUME IInv, NEW cond, NEW link \in BOOLEAN, NEW offset, Branch(cond, link, offset)
      PROVE  Step
  <2>1. CASE link
    BY <1>1, <2>1, BranchLeavesLink
  <2>2. CASE ~link
    BY <1>1, <2>2 DEF Branch, Finish
  <2>. QED
    BY <2>1, <2>2
<1>2. ASSUME NEW cond, NEW value, Compare(cond, value) \/ ExceptionReturn(cond, value)
      PROVE  Step
  <2>1. CASE Compare(cond, value)
    BY <2>1 DEF Compare, Finish
  <2>2. CASE ExceptionReturn(cond, value)
    <3>1. last'.by \in {"return", "dp"}
      BY <2>2 DEF ExceptionReturn, Finish
    <3>. QED
      BY <3>1
  <2>. QED
    BY <1>2, <2>1, <2>2
<1>3. ASSUME NEW cond, NEW s_bit, NEW mvn, NEW rd, NEW value,
             DataProcessing(cond, s_bit, mvn, rd, value)
      PROVE  Step
  BY <1>3 DEF DataProcessing, Finish
<1>4. ASSUME NEW cond, NEW from_spsr, NEW rd, MoveStatus(cond, from_spsr, rd)
      PROVE  Step
  BY <1>4 DEF MoveStatus, Finish
<1>5. ASSUME NEW cond, NeverInstruction \/ Undefined(cond) \/ SoftwareInterrupt(cond)
                       \/ Exit(cond)
      PROVE  Step
  BY <1>5 DEF NeverInstruction, Undefined, SoftwareInterrupt, Exit, Finish
<1>6. ASSUME NEW cond, NEW load, NEW mode, NEW rn, NEW rd, NEW address, NEW next, NEW value,
             LoadStore(cond, load, mode, rn, rd, address, next, value)
      PROVE  Step
  BY <1>6 DEF LoadStore, Finish
<1>7. ASSUME NEW cond, NEW load, NEW s_bit, NEW writeback, NEW inc, NEW after, NEW rn,
             NEW list, NEW value,
             LoadStoreMultiple(cond, load, s_bit, writeback, inc, after, rn, list, value)
      PROVE  Step
  BY <1>7 DEF LoadStoreMultiple, Finish
<1>8. IInv /\ Instruction => Step
  <2>. HIDE DEF Step
  <2>. QED
    BY <1>1, <1>2, <1>3, <1>4, <1>5, <1>6, <1>7 DEF Instruction
<1>9. Event => Step
  BY DEF Event, Interrupted, DebuggerWrites, DebuggerWritesAll
<1>10. IInv /\ [Next]_pvars => [Step]_pvars
  BY <1>8, <1>9 DEF Next
<1>. QED
  BY <1>10, Inductive, PTL DEF Spec, BranchLinks
-----------------------------------------------------------------------------
\* The slots that the program of the current mode cannot name.
Hidden == Slots \ (Visible(get_mode(data)) \union {CPSR})

\* The registers s that an instruction has reached so far keep the mode, and the
\* hidden slots hold what they held before it.
Apart(s) == Keeps(s) /\ \A k \in Hidden : s.d[k] = data[k]

\* A general register of a legal mode is one that the program can name.
LEMMA RegisterIsVisible ==
  ASSUME NEW d, NEW reg \in Regs, get_mode(d) \in Modes
  PROVE  getRegister(d, reg) \in Visible(get_mode(d))
<1>1. reg \in 0..15
  BY DEF Regs
<1>2. CASE get_mode(d) \in {USR, SYS}
  BY <1>1, <1>2 DEF getRegister, Visible, PC, CPSR, ExceptionModes, USR, SYS, SVC, ABT,
     UND, IRQ, FIQ
<1>3. CASE get_mode(d) \in ExceptionModes
  BY <1>1, <1>3 DEF getRegister, Visible, PC, CPSR, ExceptionModes, USR, SYS, SVC, ABT,
     UND, IRQ, FIQ
<1>. QED
  BY <1>2, <1>3 DEF Modes, ExceptionModes

\* A write of a general register stays apart from them.
LEMMA ApartPut ==
  ASSUME IInv, get_mode(data) \in Modes, NEW s, Apart(s), NEW reg \in Regs, NEW v \in Word
  PROVE  Apart(Put(s, reg, v))
<1>1. Keeps(Put(s, reg, v))
  BY KeepsPut DEF Apart
<1>2. getRegister(s.d, reg) \notin Hidden
  BY RegisterIsVisible DEF Apart, Keeps, Hidden
<1>3. \A k \in Hidden : Put(s, reg, v).d[k] = s.d[k]
  BY <1>2 DEF Hidden, Put, write_register, Store
<1>. QED
  BY <1>1, <1>3 DEF Apart

\* So does a write of the cpsr: it is not one of them.
LEMMA CpsrApart ==
  ASSUME NEW s \in SType, NEW v
  PROVE  \A k \in Hidden : PutCpsr(s, v).d[k] = s.d[k]
BY DEF Hidden, PutCpsr, write_cpsr, Store, SType

\* New flags stay apart.
LEMMA ApartFlags ==
  ASSUME IInv, NEW s, Apart(s), NEW psr \in Word, ModeOf(psr) = get_mode(data),
         psr % FlagUnit = data[CPSR] % FlagUnit, NEW value
  PROVE  Apart(ZNCV_update(s, psr, value))
<1>1. Keeps(ZNCV_update(s, psr, value))
  BY KeepsFlags DEF Apart
<1>. QED
  BY <1>1, CpsrApart DEF Apart, Keeps, ZNCV_update

\* A block load, which writes registers of the current mode, stays apart.
LEMMA ApartLoad ==
  ASSUME IInv, get_mode(data) \in Modes, NEW s, Apart(s), NEW list \in SUBSET Regs,
         NEW v \in Word
  PROVE  Apart(Load(s, list, v))
<1>. DEFINE slots == {getRegister(s.d, i) : i \in list \ {PC}}
<1>1. Keeps(Load(s, list, v))
  BY KeepsLoad DEF Apart
<1>2. slots \intersect Hidden = {} /\ PC \notin Hidden
  <2>1. \A i \in list : getRegister(s.d, i) \in Visible(get_mode(data))
    BY RegisterIsVisible DEF Apart, Keeps
  <2>. QED
    BY <2>1 DEF Hidden, Visible
<1>3. \A k \in Hidden : Load(s, list, v).d[k] = s.d[k]
  BY <1>2 DEF Hidden, Load
<1>. QED
  BY <1>1, <1>3 DEF Apart

\* The fetch stays apart.
LEMMA ApartFetch == IInv => Apart(arm_fetch)
<1>1. PC \notin Hidden /\ Hidden \subseteq Slots
  BY DEF Hidden, Visible
<1>. QED
  BY <1>1, KeepsFetch, FetchMoves DEF Apart

\* What the property says of a step.
HiddenKept == (ByGuest /\ last'.code = 0 /\ get_mode(data) \in Modes)
                => \A k \in Hidden : data'[k] = data[k]

\* An instruction that ends on such registers keeps the other banks.
LEMMA ApartEnds ==
  ASSUME NEW s, NEW result, NEW by, NEW cond, Finish(s, result, by, cond),
         result = 0 => Apart(s)
  PROVE  HiddenKept
BY DEF Finish, Apart, HiddenKept

\* A return stays apart until it loads the status.
LEMMA ReturnApart ==
  ASSUME IInv, get_mode(data) \in Modes, NEW cond \in Conds, NEW value \in Values,
         ExceptionReturn(cond, value)
  PROVE  HiddenKept
<1>. DEFINE s == arm_fetch
            done == Put(s, PC, value)
            returns == condition(s.d, cond) /\ current_mode_has_spsr(done.d)
            final(psr) == IF ~condition(s.d, cond) THEN s
                          ELSE IF returns THEN PutCpsr(done, psr) ELSE done
<1>1. PICK psr \in read_spsr(done.d) :
        Finish(final(psr), 0, IF returns THEN "return" ELSE "dp", cond)
  BY DEF ExceptionReturn
<1>2. Apart(s)
  BY ApartFetch
<1>. HIDE DEF s
<1>3. Apart(done)
  BY <1>2, ApartPut, ProcessorAssumption DEF PC, Regs
<1>. HIDE DEF done
<1>4. \A k \in Hidden : final(psr).d[k] = data[k]
  BY <1>2, <1>3, CpsrApart DEF Apart, Keeps
<1>. HIDE DEF final
<1>. QED
  BY <1>1, <1>4 DEF Finish, HiddenKept

\* A block transfer stays apart, whatever its list and its base.
LEMMA BlockApart ==
  ASSUME IInv, get_mode(data) \in Modes, NEW cond \in Conds, NEW load \in BOOLEAN,
         NEW s_bit \in BOOLEAN, NEW writeback \in BOOLEAN, NEW inc \in BOOLEAN,
         NEW after \in BOOLEAN, NEW rn \in Bases, NEW list \in Lists, NEW value \in Values,
         LoadStoreMultiple(cond, load, s_bit, writeback, inc, after, rn, list, value)
  PROVE  HiddenKept
<1>. DEFINE s == arm_fetch
            bytes == ListBytes(list)
            passed == condition(s.d, cond)
            next(base) == IF inc THEN Plus(base, bytes) ELSE Minus(base, bytes)
            based(base) == IF passed /\ writeback THEN Put(s, rn, next(base)) ELSE s
            invalid(base) == AllOnes \in {StartAddress(base, inc, after, bytes),
                                          EndAddress(base, inc, after, bytes)}
            final(base) == IF ~invalid(base) /\ load /\ ~s_bit /\ passed
                           THEN Load(based(base), list, value) ELSE based(base)
<1>1. PICK base \in arm_read_register(s.d, rn) :
        Finish(final(base), IF invalid(base) THEN Invalid ELSE 0, "block", cond)
  BY DEF LoadStoreMultiple
<1>2. Apart(s) /\ s.d \in Files
  BY ApartFetch DEF Apart, Keeps, SType
<1>3. list \in SUBSET Regs /\ rn \in Regs /\ value \in Word
  BY ProcessorAssumption
<1>4. bytes \in Int
  <2>1. 0 \in Int /\ 15 \in Int
    OBVIOUS
  <2>2. IsFiniteSet(Regs)
    BY <2>1, FS_Interval DEF Regs
  <2>3. Cardinality(list) \in Nat
    BY <1>3, <2>2, FS_Subset, FS_CardinalityType
  <2>. QED
    BY <2>3 DEF ListBytes
<1>5. base \in Int
  <2>1. base \in Word
    BY <1>1, <1>2, ReadPcType, ContentsType DEF arm_read_register, read_register
  <2>. QED
    BY <2>1, WordSizeAssumption DEF Word
<1>6. next(base) \in Word
  BY <1>4, <1>5, PlusMinusType
<1>. HIDE DEF s, next
<1>7. Apart(based(base))
  BY <1>2, <1>3, <1>6, ApartPut
<1>. HIDE DEF based, invalid
<1>8. Apart(final(base))
  BY <1>3, <1>7, ApartLoad
<1>. HIDE DEF final
<1>. QED
  BY <1>1, <1>8, ApartEnds

\* Every instruction stays apart, or raises an exception.
LEMMA InstructionApart ==
  ASSUME IInv, get_mode(data) \in Modes, Instruction
  PROVE  HiddenKept
<1>. DEFINE s == arm_fetch
            passed(cond) == condition(s.d, cond)
<1>1. Apart(s)
  BY ApartFetch
<1>2. s.d \in Files /\ s.d[CPSR] \in Word /\ ModeOf(s.d[CPSR]) = get_mode(data)
      /\ s.d[CPSR] % FlagUnit = data[CPSR] % FlagUnit
  BY <1>1 DEF Apart, Keeps, SType, Files, Slots, CPSR, get_mode
<1>3. Values \subseteq Word /\ Dests \subseteq Regs /\ Bases \subseteq Regs
  BY ProcessorAssumption
<1>. HIDE DEF s
<1>4. CASE NeverInstruction
  BY <1>1, <1>4, ApartEnds DEF NeverInstruction, s
<1>5. ASSUME NEW cond \in Conds, NEW value \in Values, Compare(cond, value)
      PROVE  HiddenKept
  <2>. DEFINE final == IF passed(cond) THEN ZNCV_update(s, s.d[CPSR], value) ELSE s
  <2>1. Finish(final, 0, "dp", cond)
    BY <1>5 DEF Compare, s
  <2>2. Apart(final)
    BY <1>1, <1>2, ApartFlags
  <2>. HIDE DEF final
  <2>. QED
    BY <2>1, <2>2, ApartEnds
<1>6. ASSUME NEW cond \in Conds, NEW s_bit \in BOOLEAN, NEW mvn \in BOOLEAN,
             NEW rd \in Dests, NEW value \in Values,
             DataProcessing(cond, s_bit, mvn, rd, value)
      PROVE  HiddenKept
  <2>. DEFINE written == IF mvn THEN AllOnes - value ELSE value
              done == Put(s, rd, written)
              final == IF ~passed(cond) THEN s
                       ELSE IF s_bit THEN ZNCV_update(done, s.d[CPSR], value) ELSE done
  <2>1. Finish(final, 0, "dp", cond)
    BY <1>6 DEF DataProcessing, s
  <2>2. written \in Word
    BY <1>3, WordSizeAssumption DEF AllOnes, Word
  <2>3. Apart(done)
    BY <1>1, <1>3, <2>2, ApartPut
  <2>. HIDE DEF done
  <2>4. Apart(final)
    BY <1>1, <1>2, <2>3, ApartFlags
  <2>. HIDE DEF final
  <2>. QED
    BY <2>1, <2>4, ApartEnds
<1>7. ASSUME NEW cond \in Conds, NEW link \in BOOLEAN, NEW offset \in Offsets,
             Branch(cond, link, offset)
      PROVE  HiddenKept
  <2>. DEFINE pc == ReadPc(s.d)
              linked == IF link THEN Put(s, LR, Minus(pc, 4)) ELSE s
              final == IF condition(linked.d, cond) THEN Put(linked, PC, Plus(pc, offset))
                       ELSE linked
  <2>1. Finish(final, 0, IF link THEN "bl" ELSE "b", cond)
    BY <1>7 DEF Branch, s
  <2>2. pc \in Int /\ offset \in Int
    BY <1>2, ReadPcType, ProcessorAssumption, WordSizeAssumption DEF Word
  <2>3. Minus(pc, 4) \in Word /\ Plus(pc, offset) \in Word /\ LR \in Regs /\ PC \in Regs
    BY <2>2, PlusMinusType DEF LR, PC, Regs
  <2>. HIDE DEF pc
  <2>4. Apart(linked)
    BY <1>1, <2>3, ApartPut
  <2>. HIDE DEF linked
  <2>5. Apart(final)
    BY <2>3, <2>4, ApartPut
  <2>. HIDE DEF final
  <2>. QED
    BY <2>1, <2>5, ApartEnds
<1>8. ASSUME NEW cond \in Conds, NEW from_spsr \in BOOLEAN, NEW rd \in Dests,
             MoveStatus(cond, from_spsr, rd)
      PROVE  HiddenKept
  <2>1. PICK psr \in IF from_spsr THEN read_spsr(s.d) ELSE {s.d[CPSR]} :
          \/ Finish(Put(s, rd, psr), 0, "mrs", cond)
          \/ Finish(s, UNDEFINED_INSTRUCTION, "mrs", cond)
    BY <1>8 DEF MoveStatus, s
  <2>2. read_spsr(s.d) \subseteq Word
    BY <1>2, ContentsType, AllOnesIsWord DEF read_spsr
  <2>3. Apart(Put(s, rd, psr))
    BY <1>1, <1>2, <1>3, <2>1, <2>2, ApartPut
  <2>. QED
    BY <1>1, <2>1, <2>3, ApartEnds
<1>9. ASSUME NEW cond \in Conds, Undefined(cond) \/ SoftwareInterrupt(cond)
      PROVE  HiddenKept
  <2>1. \/ Finish(s, UNDEFINED_INSTRUCTION, "undefined", cond)
        \/ Finish(s, SOFTWARE_INTERRUPT, "swi", cond)
    BY <1>9 DEF Undefined, SoftwareInterrupt, s
  <2>. QED
    BY <1>1, <2>1, ApartEnds
<1>10. ASSUME NEW cond \in Conds, Exit(cond)
       PROVE  HiddenKept
  BY <1>1, <1>10 DEF Exit, Apart, HiddenKept, s
<1>11. ASSUME NEW cond \in Conds, NEW load \in BOOLEAN, NEW mode \in Addressing,
              NEW rn \in Bases, NEW rd \in Dests, NEW address \in Values, NEW next \in Values,
              NEW value \in Values,
              LoadStore(cond, load, mode, rn, rd, address, next, value)
       PROVE  HiddenKept
  <2>. DEFINE based == IF mode \in {"pre", "post"} /\ passed(cond) THEN Put(s, rn, next)
                       ELSE s
              addressed == /\ mode # "none" /\ address # AllOnes
                           /\ mode = "offset" \/ passed(cond)
              final == IF load /\ addressed THEN Put(based, rd, value) ELSE based
  <2>1. Finish(final, 0, IF mode = "offset" THEN "transfer" ELSE "indexed", cond)
    BY <1>11 DEF LoadStore, s
  <2>2. Apart(based)
    BY <1>1, <1>3, ApartPut
  <2>. HIDE DEF based
  <2>3. Apart(final)
    BY <1>3, <2>2, ApartPut
  <2>. HIDE DEF final
  <2>. QED
    BY <2>1, <2>3, ApartEnds
<1>. QED
  BY <1>4, <1>5, <1>6, <1>7, <1>8, <1>9, <1>10, <1>11, ReturnApart, BlockApart
     DEF Instruction

\* An instruction that raises no exception leaves the registers and the saved
\* status of every other mode as they were, for any program.
THEOREM OtherBanksWait == Spec => HiddenBanksKept
<1>1. IInv /\ Instruction => HiddenKept
  BY InstructionApart DEF HiddenKept
<1>2. Event => HiddenKept
  BY DEF Event, Interrupted, DebuggerWrites, DebuggerWritesAll, HiddenKept, ByGuest
<1>3. IInv /\ [Next]_pvars => [HiddenKept]_pvars
  BY <1>1, <1>2 DEF Next
<1>. QED
  BY <1>3, Inductive, PTL DEF Spec, HiddenBanksKept, HiddenKept, Hidden
=============================================================================
