-------------------------- MODULE RegistersProofs --------------------------
(* The register file is well typed and implements the banked registers, for  *)
(* every word size, every set of written words and every set of registers.   *)
EXTENDS Registers, TLAPS

\* A status word selects one of 32 modes.
LEMMA ModeRange == \A w \in Word : ModeOf(w) \in 0..31
BY WordSizeAssumption DEF Word, ModeOf

\* get_mode reads the cpsr, a word of the array.
LEMMA GetModeRange == \A d \in Files : get_mode(d) \in 0..31
BY ModeRange DEF Files, Slots, CPSR, get_mode

\* A store of a word leaves a register file.
LEMMA StoreType ==
  ASSUME NEW d \in Files, NEW slot, NEW v \in Word
  PROVE  Store(d, slot, v) \in Files
BY DEF Store, Files

\* A read yields a word, in the array or outside it.
LEMMA ContentsType ==
  ASSUME NEW d \in Files, NEW slot
  PROVE  Contents(d, slot) \subseteq Word
BY GarbageAssumption DEF Contents, Files

\* -1 and 0 are words.
LEMMA AllOnesIsWord == AllOnes \in Word /\ 0 \in Word
BY WordSizeAssumption DEF AllOnes, Word

\* The slots of the saved status words lie in the array, differ from each other
\* and from the cpsr.
LEMMA SpsrSlots ==
  \A m \in ExceptionModes :
     /\ SPSR_slot(m) \in Slots
     /\ SPSR_slot(m) # CPSR
     /\ \A n \in ExceptionModes : SPSR_slot(m) = SPSR_slot(n) => m = n
BY DEF Slots, CPSR, ExceptionModes, BankIndex, SPSR_slot,
   USR, SVC, ABT, UND, IRQ, FIQ

-----------------------------------------------------------------------------
\* The register file keeps its type through every operation.
THEOREM TypeCorrect == Spec => []TypeOK
<1>1. Init => TypeOK
  BY AllOnesIsWord DEF Init, TypeOK, registers_create, Files
<1>2. TypeOK /\ [Next]_rvars => TypeOK'
  <2> SUFFICES ASSUME TypeOK, [Next]_rvars PROVE TypeOK'
    OBVIOUS
  <2> USE DEF TypeOK
  <2>1. ASSUME NEW reg \in ClientRegs, ReadRegister(reg) PROVE TypeOK'
    BY <2>1, ContentsType DEF ReadRegister, read_register
  <2>2. ASSUME NEW reg \in ClientRegs, ReadUsrRegister(reg) PROVE TypeOK'
    BY <2>2, ContentsType DEF ReadUsrRegister, read_usr_register
  <2>3. CASE ReadSpsr
    BY <2>3, ContentsType, AllOnesIsWord DEF ReadSpsr, read_spsr
  <2>4. ASSUME NEW reg \in ClientRegs, NEW v \in Values, WriteRegister(reg, v)
        PROVE  TypeOK'
    BY <2>4, StoreType, ClientAssumption DEF WriteRegister, write_register, IsWild
  <2>5. ASSUME NEW reg \in ClientRegs, NEW v \in Values, WriteUsrRegister(reg, v)
        PROVE  TypeOK'
    BY <2>5, StoreType, ClientAssumption DEF WriteUsrRegister, write_usr_register
  <2>6. ASSUME NEW v \in Values, WriteCpsr(v) PROVE TypeOK'
    BY <2>6, StoreType, ClientAssumption DEF WriteCpsr, write_cpsr
  <2>7. ASSUME NEW v \in Values, WriteSpsr(v) PROVE TypeOK'
    BY <2>7, StoreType, ClientAssumption
    DEF WriteSpsr, write_spsr, IsWild, current_mode_has_spsr
  <2>8. CASE UNCHANGED rvars
    BY <2>8 DEF rvars
  <2>. QED
    BY <2>1, <2>2, <2>3, <2>4, <2>5, <2>6, <2>7, <2>8 DEF Next
<1>. QED
  BY <1>1, <1>2, PTL DEF Spec

-----------------------------------------------------------------------------
\* No two banked registers share a slot of the array, and none of them is the
\* slot of a status word.
LEMMA SlotsAreDisjoint ==
  ASSUME NEW b \in ExceptionModes \union {USR}, NEW r \in Regs, IsPrivate(b, r)
  PROVE  /\ BankSlot(b, r) \in Slots
         /\ BankSlot(b, r) # CPSR
         /\ \A m \in ExceptionModes : BankSlot(b, r) # SPSR_slot(m)
         /\ \A b2 \in ExceptionModes \union {USR}, r2 \in Regs :
              /\ IsPrivate(b2, r2)
              /\ BankSlot(b, r) = BankSlot(b2, r2)
              => b = b2 /\ r = r2
BY DEF IsPrivate, BankSlot, Regs, Slots, CPSR, ExceptionModes, BankIndex,
   R13_slot, R14_slot, SPSR_slot, USR, SVC, ABT, UND, IRQ, FIQ

\* Writing the slot of a banked register writes that register and nothing else.
LEMMA StoreRegister ==
  ASSUME NEW d \in Files, NEW v \in Word,
         NEW b \in ExceptionModes \union {USR}, NEW r \in Regs, IsPrivate(b, r)
  PROVE  LET e == Store(d, BankSlot(b, r), v)
         IN  /\ BankView(e) = [BankView(d) EXCEPT ![b][r] = v]
             /\ SpsrView(e) = SpsrView(d)
             /\ e[CPSR] = d[CPSR]
<1> DEFINE e == Store(d, BankSlot(b, r), v)
<1>1. e[CPSR] = d[CPSR]
  BY SlotsAreDisjoint DEF Store, Slots, CPSR
<1>2. SpsrView(e) = SpsrView(d)
  BY SlotsAreDisjoint, SpsrSlots DEF Store, SpsrView
<1>3. \A b2 \in ExceptionModes \union {USR}, r2 \in Regs :
        IsPrivate(b2, r2) =>
          e[BankSlot(b2, r2)] = IF b2 = b /\ r2 = r THEN v ELSE d[BankSlot(b2, r2)]
  BY SlotsAreDisjoint DEF Store
<1>4. BankView(e) = [BankView(d) EXCEPT ![b][r] = v]
  BY <1>3, ZenonT(60) DEF BankView
<1>. QED
  BY <1>1, <1>2, <1>4

\* Writing the cpsr leaves the banks and the saved status words alone.
LEMMA StoreCpsr ==
  ASSUME NEW d \in Files, NEW v \in Word
  PROVE  LET e == Store(d, CPSR, v)
         IN  BankView(e) = BankView(d) /\ SpsrView(e) = SpsrView(d) /\ e[CPSR] = v
<1> DEFINE e == Store(d, CPSR, v)
<1>1. \A b \in ExceptionModes \union {USR}, r \in Regs :
        IsPrivate(b, r) => e[BankSlot(b, r)] = d[BankSlot(b, r)]
  BY SlotsAreDisjoint DEF Store
<1>2. BankView(e) = BankView(d)
  BY <1>1 DEF BankView
<1>3. SpsrView(e) = SpsrView(d)
  BY SpsrSlots DEF Store, SpsrView
<1>. QED
  BY <1>2, <1>3 DEF Store, Slots, CPSR

\* Writing the slot of a saved status word writes that one and nothing else.
LEMMA StoreSpsr ==
  ASSUME NEW d \in Files, NEW v \in Word, NEW m \in ExceptionModes
  PROVE  LET e == Store(d, SPSR_slot(m), v)
         IN  /\ BankView(e) = BankView(d)
             /\ SpsrView(e) = [SpsrView(d) EXCEPT ![m] = v]
             /\ e[CPSR] = d[CPSR]
<1> DEFINE e == Store(d, SPSR_slot(m), v)
<1>1. \A b \in ExceptionModes \union {USR}, r \in Regs :
        IsPrivate(b, r) => e[BankSlot(b, r)] = d[BankSlot(b, r)]
  BY SlotsAreDisjoint DEF Store
<1>2. BankView(e) = BankView(d)
  BY <1>1 DEF BankView
<1>3. SpsrView(e) = [SpsrView(d) EXCEPT ![m] = v]
  BY SpsrSlots DEF Store, SpsrView
<1>. QED
  BY <1>2, <1>3, SpsrSlots DEF Store, Slots, CPSR

\* A write outside the array changes no slot.
LEMMA StoreOutside ==
  ASSUME NEW d \in Files, NEW v, NEW slot, slot \notin Slots
  PROVE  Store(d, slot, v) = d
BY DEF Store, Files

\* getRegister finds the slot of the register in the bank of the current mode,
\* and leaves the array exactly when no bank owns the register.
LEMMA SlotOfOwner ==
  ASSUME data \in Files, NEW reg \in Regs
  PROVE  /\ Banked!Unowned(reg) <=> IsWild(data, reg)
         /\ ~Banked!Unowned(reg) =>
              /\ Banked!Owner(reg) \in ExceptionModes \union {USR}
              /\ IsPrivate(Banked!Owner(reg), reg)
              /\ getRegister(data, reg) = BankSlot(Banked!Owner(reg), reg)
<1>1. get_mode(data) \in 0..31 /\ Banked!Mode = get_mode(data)
  BY GetModeRange DEF get_mode, Banked!Mode
<1>. QED
  BY <1>1 DEF Banked!Unowned, Banked!Owner, IsWild, getRegister, IsPrivate,
     BankSlot, Slots, Outside, Regs, PC, CPSR, SPSR, Modes, ExceptionModes,
     BankIndex, R13_slot, R14_slot, SPSR_slot, USR, SYS, SVC, ABT, UND, IRQ, FIQ,
     Banked!Modes, Banked!ExceptionModes, Banked!USR, Banked!SYS,
     Banked!SVC, Banked!ABT, Banked!UND, Banked!IRQ, Banked!FIQ

\* The same for the saved status of the current mode.
LEMMA SlotOfSpsr ==
  ASSUME data \in Files, current_mode_has_spsr(data)
  PROVE  /\ Banked!HasSpsr
         /\ Banked!Mode \in ExceptionModes =>
              /\ getRegister(data, SPSR) = SPSR_slot(Banked!Mode)
              /\ ~IsWild(data, SPSR)
         /\ Banked!Mode \notin ExceptionModes =>
              /\ getRegister(data, SPSR) = Outside
              /\ IsWild(data, SPSR)
<1>1. get_mode(data) \in 0..31 /\ Banked!Mode = get_mode(data)
  BY GetModeRange DEF get_mode, Banked!Mode
<1>. QED
  BY <1>1 DEF Banked!HasSpsr, IsWild, getRegister, current_mode_has_spsr, Slots,
     Outside, PC, CPSR, SPSR, ExceptionModes, BankIndex, R13_slot, R14_slot,
     SPSR_slot, USR, SYS, SVC, ABT, UND, IRQ, FIQ, Banked!ExceptionModes, Banked!USR, Banked!SYS,
     Banked!SVC, Banked!ABT, Banked!UND, Banked!IRQ, Banked!FIQ

-----------------------------------------------------------------------------
\* The initial array maps to the initial banks: calloc zeroes every word.
LEMMA InitMaps == Init => Banked!BInit
<1>1. \A b \in ExceptionModes \union {USR}, r \in Regs :
        IsPrivate(b, r) => BankSlot(b, r) \in Slots
  BY SlotsAreDisjoint
<1>. QED
  BY <1>1, SpsrSlots DEF Init, registers_create, BankView, SpsrView, Slots, CPSR,
     Regs, ExceptionModes, USR, SVC, ABT, UND, IRQ, FIQ,
     Banked!BInit, Banked!Banks, Banked!Regs, Banked!ExceptionModes, Banked!USR, Banked!SYS,
     Banked!SVC, Banked!ABT, Banked!UND, Banked!IRQ, Banked!FIQ

\* The state the banked registers see is what a step reads and writes.
LEMMA SameModes ==
  /\ Banked!Regs = Regs
  /\ Banked!ExceptionModes = ExceptionModes
  /\ Banked!USR = USR
BY DEF Regs, ExceptionModes, USR, SVC, ABT, UND, IRQ, FIQ, Banked!Regs,
   Banked!ExceptionModes, Banked!USR, Banked!SVC, Banked!ABT, Banked!UND,
   Banked!IRQ, Banked!FIQ

\* read_register returns the register of the current mode's bank.
LEMMA ReadRegisterMaps ==
  ASSUME TypeOK, NEW reg \in ClientRegs, ReadRegister(reg)
  PROVE  Banked!BRead(reg)
<1>1. data \in Files /\ reg \in Regs
  BY ClientAssumption DEF TypeOK
<1>2. CASE Banked!Unowned(reg)
  <2>1. out' \in Garbage
    BY <1>1, <1>2, SlotOfOwner DEF ReadRegister, read_register, Contents, IsWild
  <2>. QED
    BY <1>2, <2>1, GarbageAssumption DEF ReadRegister, Banked!BRead
<1>3. CASE ~Banked!Unowned(reg)
  <2>1. out' = data[BankSlot(Banked!Owner(reg), reg)]
    BY <1>1, <1>3, SlotOfOwner DEF ReadRegister, read_register, Contents, IsWild
  <2>2. out' = BankView(data)[Banked!Owner(reg)][reg]
    BY <1>1, <1>3, <2>1, SlotOfOwner DEF BankView
  <2>. QED
    BY <1>3, <2>2 DEF ReadRegister, Banked!BRead
<1>. QED
  BY <1>2, <1>3

\* read_usr_register reads the user bank in every mode.
LEMMA ReadUsrRegisterMaps ==
  ASSUME TypeOK, NEW reg \in ClientRegs, ReadUsrRegister(reg)
  PROVE  Banked!BReadUser(reg)
<1>1. reg \in Regs /\ reg \in Slots
  BY ClientAssumption DEF Regs, Slots
<1>2. out' = data[reg]
  BY <1>1 DEF ReadUsrRegister, read_usr_register, Contents
<1>3. BankView(data)[USR][reg] = data[reg]
  BY <1>1 DEF BankView, IsPrivate, BankSlot, ExceptionModes,
     USR, SVC, ABT, UND, IRQ, FIQ
<1>. QED
  BY <1>2, <1>3, SameModes DEF ReadUsrRegister, Banked!BReadUser

\* read_spsr returns the saved status of the current mode, -1 where there is none.
LEMMA ReadSpsrMaps ==
  ASSUME TypeOK, ReadSpsr
  PROVE  Banked!BReadSpsr
<1>1. data \in Files /\ get_mode(data) = Banked!Mode
  BY DEF TypeOK, get_mode, Banked!Mode
<1>2. CASE ~current_mode_has_spsr(data)
  BY <1>1, <1>2 DEF ReadSpsr, read_spsr, current_mode_has_spsr, Banked!BReadSpsr,
     Banked!HasSpsr, Banked!ExceptionModes, USR, SYS, Banked!USR, Banked!SYS,
     Banked!SVC, Banked!ABT, Banked!UND, Banked!IRQ, Banked!FIQ
<1>3. CASE current_mode_has_spsr(data) /\ Banked!Mode \in ExceptionModes
  <2>1. out' = data[SPSR_slot(Banked!Mode)]
    BY <1>1, <1>3, SlotOfSpsr DEF ReadSpsr, read_spsr, Contents, IsWild
  <2>. QED
    BY <1>3, <2>1, SameModes DEF ReadSpsr, Banked!BReadSpsr, SpsrView
<1>4. CASE current_mode_has_spsr(data) /\ Banked!Mode \notin ExceptionModes
  <2>1. out' \in Garbage
    BY <1>1, <1>4, SlotOfSpsr DEF ReadSpsr, read_spsr, Contents, IsWild
  <2>. QED
    BY <1>1, <1>4, <2>1, SameModes, SlotOfSpsr, GarbageAssumption
    DEF ReadSpsr, Banked!BReadSpsr
<1>. QED
  BY <1>2, <1>3, <1>4

\* write_register writes the register of the current mode's bank.
LEMMA WriteRegisterMaps ==
  ASSUME TypeOK, NEW reg \in ClientRegs, NEW v \in Values, WriteRegister(reg, v)
  PROVE  Banked!BWrite(reg, v)
<1>1. data \in Files /\ reg \in Regs /\ v \in Word
  BY ClientAssumption DEF TypeOK
<1>2. CASE Banked!Unowned(reg)
  <2>1. IsWild(data, reg) /\ data' = data
    BY <1>1, <1>2, SlotOfOwner, StoreOutside DEF WriteRegister, write_register, IsWild
  <2>. QED
    BY <1>2, <2>1 DEF WriteRegister, Banked!BWrite
<1>3. CASE ~Banked!Unowned(reg)
  <2>1. /\ ~IsWild(data, reg)
        /\ data' = Store(data, BankSlot(Banked!Owner(reg), reg), v)
    BY <1>1, <1>3, SlotOfOwner DEF WriteRegister, write_register
  <2>2. /\ BankView(data') = [BankView(data) EXCEPT ![Banked!Owner(reg)][reg] = v]
        /\ SpsrView(data') = SpsrView(data)
        /\ data'[CPSR] = data[CPSR]
    BY <1>1, <1>3, <2>1, SlotOfOwner, StoreRegister
  <2>3. corrupt' = FALSE /\ Banked!Unowned(reg) = FALSE
    BY <1>3, <2>1 DEF WriteRegister, IsWild, Banked!Unowned
  <2>. QED
    BY <1>3, <2>2, <2>3 DEF WriteRegister, Banked!BWrite
<1>. QED
  BY <1>2, <1>3

\* write_usr_register writes the user bank in user mode and nothing otherwise.
LEMMA WriteUsrRegisterMaps ==
  ASSUME TypeOK, NEW reg \in ClientRegs, NEW v \in Values, WriteUsrRegister(reg, v)
  PROVE  Banked!BWriteUser(reg, v) \/ UNCHANGED rvars
<1>1. data \in Files /\ reg \in Regs /\ v \in Word
  BY ClientAssumption DEF TypeOK
<1>2. CASE get_mode(data) = USR
  <2>1. IsPrivate(USR, reg) /\ BankSlot(USR, reg) = reg
    BY DEF IsPrivate, BankSlot, ExceptionModes, USR, SVC, ABT, UND, IRQ, FIQ
  <2>2. /\ BankView(data') = [BankView(data) EXCEPT ![USR][reg] = v]
        /\ SpsrView(data') = SpsrView(data)
        /\ data'[CPSR] = data[CPSR]
    BY <1>1, <1>2, <2>1, StoreRegister DEF WriteUsrRegister, write_usr_register
  <2>. QED
    BY <1>2, <2>2, SameModes
    DEF WriteUsrRegister, Banked!BWriteUser, Banked!Mode, get_mode
<1>3. CASE get_mode(data) # USR
  BY <1>3 DEF WriteUsrRegister, write_usr_register, rvars
<1>. QED
  BY <1>2, <1>3

\* write_spsr writes the saved status of the current mode, if it has one.
LEMMA WriteSpsrMaps ==
  ASSUME TypeOK, NEW v \in Values, WriteSpsr(v)
  PROVE  Banked!BWriteSpsr(v) \/ UNCHANGED rvars
<1>1. data \in Files /\ v \in Word
  BY ClientAssumption DEF TypeOK
<1>2. CASE ~current_mode_has_spsr(data)
  BY <1>2 DEF TypeOK, WriteSpsr, write_spsr, rvars
<1>3. CASE current_mode_has_spsr(data) /\ Banked!Mode \in ExceptionModes
  <2>1. data' = Store(data, SPSR_slot(Banked!Mode), v) /\ ~corrupt'
    BY <1>1, <1>3, SlotOfSpsr DEF WriteSpsr, write_spsr
  <2>2. /\ BankView(data') = BankView(data)
        /\ SpsrView(data') = [SpsrView(data) EXCEPT ![Banked!Mode] = v]
        /\ data'[CPSR] = data[CPSR]
    BY <1>1, <1>3, <2>1, StoreSpsr
  <2>. QED
    BY <1>1, <1>3, <2>1, <2>2, SlotOfSpsr, SameModes
    DEF WriteSpsr, Banked!BWriteSpsr, TypeOK
<1>4. CASE current_mode_has_spsr(data) /\ Banked!Mode \notin ExceptionModes
  <2>1. data' = data /\ corrupt'
    BY <1>1, <1>4, SlotOfSpsr, StoreOutside DEF WriteSpsr, write_spsr, IsWild
  <2>. QED
    BY <1>1, <1>4, <2>1, SlotOfSpsr, SameModes DEF WriteSpsr, Banked!BWriteSpsr, TypeOK
<1>. QED
  BY <1>2, <1>3, <1>4

\* The 38-word array of registers.c implements the banked registers of the ARM:
\* whatever the sequence of reads, writes and mode changes, a read returns what
\* was last written to that register of the current mode's bank.
THEOREM ArrayImplementsBanks == Spec => BankingRule
<1>1. Init => Banked!BInit
  BY InitMaps
<1>2. TypeOK /\ [Next]_rvars => [Banked!BNext]_(Banked!bvars)
  <2> SUFFICES ASSUME TypeOK, [Next]_rvars PROVE [Banked!BNext]_(Banked!bvars)
    OBVIOUS
  <2> DEFINE Goal == [Banked!BNext]_(Banked!bvars)
  <2>2. ASSUME NEW reg \in ClientRegs, ReadRegister(reg) PROVE Goal
    BY <2>2, ReadRegisterMaps DEF Banked!BNext
  <2>3. ASSUME NEW reg \in ClientRegs, ReadUsrRegister(reg) PROVE Goal
    BY <2>3, ReadUsrRegisterMaps DEF Banked!BNext
  <2>4. CASE ReadSpsr
    BY <2>4, ReadSpsrMaps DEF Banked!BNext
  <2>5. ASSUME NEW reg \in ClientRegs, NEW v \in Values, WriteRegister(reg, v)
        PROVE  Goal
    BY <2>5, WriteRegisterMaps DEF Banked!BNext
  <2>6. ASSUME UNCHANGED rvars PROVE UNCHANGED Banked!bvars
    BY <2>6 DEF rvars, Banked!bvars, BankView, SpsrView
  <2>7. ASSUME NEW reg \in ClientRegs, NEW v \in Values, WriteUsrRegister(reg, v)
        PROVE  Goal
    BY <2>6, <2>7, WriteUsrRegisterMaps DEF Banked!BNext
  <2>8. ASSUME NEW v \in Values, WriteCpsr(v) PROVE Goal
    <3>1. Banked!BWriteCpsr(v)
      BY <2>8, StoreCpsr, ClientAssumption
      DEF TypeOK, WriteCpsr, write_cpsr, Banked!BWriteCpsr
    <3>. QED
      BY <3>1 DEF Banked!BNext
  <2>9. ASSUME NEW v \in Values, WriteSpsr(v) PROVE Goal
    BY <2>6, <2>9, WriteSpsrMaps DEF Banked!BNext
  <2>. QED
    BY <2>2, <2>3, <2>4, <2>5, <2>6, <2>7, <2>8, <2>9 DEF Next
<1>. QED
  BY <1>1, <1>2, TypeCorrect, PTL DEF Spec, BankingRule, Banked!BSpec
=============================================================================
