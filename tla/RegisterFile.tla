---------------------------- MODULE RegisterFile ----------------------------
(* The operations of registers.c as operators on the array of 38 words.  A   *)
(* word is a number below WordSize (2^32 in the code); TLC's runs keep the   *)
(* mode, the control bits and one flag, which take the low 11 bits.          *)
EXTENDS ArmConstants

CONSTANTS WordSize,
          Garbage     \* the words that memory outside the array may hold

ASSUME WordSizeAssumption == /\ WordSize \in Nat
                             /\ WordSize >= 2048
                             /\ WordSize % 2048 = 0

Word == 0..(WordSize - 1)

ASSUME GarbageAssumption == Garbage \subseteq Word /\ Garbage # {}

\* Mutant: -1 taken for one more than the greatest word.
AllOnes_beyond == WordSize

\* The value -1 of a uint32_t, returned where there is no register to read.
AllOnes == WordSize - 1

Files == [Slots -> Word]

ModeOf(psr) == psr % 32

get_mode(d) == ModeOf(d[CPSR])

\* Mutant: every mode but system has a saved status.
current_mode_has_spsr_user(d) == get_mode(d) # SYS

current_mode_has_spsr(d) == get_mode(d) \notin {USR, SYS}

\* The uint8_t that -1 becomes: an index far outside the array.
Outside == 255

\* Mutant: FIQ mode shares r8 to r12 with the others.
getRegister_noFiq(d, reg) ==
  LET mode == get_mode(d)
  IN  IF mode \in {USR, SYS} \/ reg < 13 \/ reg \in {PC, CPSR} THEN reg
      ELSE IF mode \notin ExceptionModes THEN Outside
      ELSE IF reg = 13 THEN R13_slot(mode)
      ELSE IF reg = 14 THEN R14_slot(mode)
      ELSE SPSR_slot(mode)

\* Mutant: the switch lost the case of UND.
getRegister_noUnd(d, reg) ==
  LET mode == get_mode(d)
  IN  IF mode \in {USR, SYS} \/ reg < 8 \/ reg \in {PC, CPSR} THEN reg
      ELSE IF reg < 13 THEN IF mode = FIQ THEN reg + 10 ELSE reg
      ELSE IF mode \notin ExceptionModes \ {UND} THEN Outside
      ELSE IF reg = 13 THEN R13_slot(mode)
      ELSE IF reg = 14 THEN R14_slot(mode)
      ELSE SPSR_slot(mode)

\* Slot of register reg (0..15, CPSR or SPSR) in the current mode.
getRegister(d, reg) ==
  LET mode == get_mode(d)
      shared == \/ mode \in {USR, SYS}
                \/ reg < 8
                \/ reg \in {PC, CPSR}
                \/ mode # FIQ /\ reg < 13
  IN  IF shared THEN reg
      ELSE IF reg < 13 THEN reg + 10
      ELSE IF mode \notin ExceptionModes THEN Outside
      ELSE IF reg = 13 THEN R13_slot(mode)
      ELSE IF reg = 14 THEN R14_slot(mode)
      ELSE SPSR_slot(mode)

\* The access to reg in the current mode leaves the array.
IsWild(d, reg) == getRegister(d, reg) \notin Slots

\* What a slot may yield: its content, or garbage outside the array.
Contents(d, slot) == IF slot \in Slots THEN {d[slot]} ELSE Garbage

Store(d, slot, value) == [s \in Slots |-> IF s = slot THEN value ELSE d[s]]

read_register(d, reg) == Contents(d, getRegister(d, reg))

read_usr_register(d, reg) == Contents(d, reg)

read_spsr(d) == IF current_mode_has_spsr(d)
                THEN Contents(d, getRegister(d, SPSR))
                ELSE {AllOnes}

write_register(d, reg, value) == Store(d, getRegister(d, reg), value)

\* The user bank is written in user mode only.
write_usr_register(d, reg, value) ==
  IF get_mode(d) = USR THEN Store(d, reg, value) ELSE d

write_cpsr(d, value) == Store(d, CPSR, value)

write_spsr(d, value) ==
  IF current_mode_has_spsr(d) THEN Store(d, getRegister(d, SPSR), value) ELSE d

\* calloc: every word is zero, so that the mode is none of the legal ones.
registers_create == [s \in Slots |-> 0]
=============================================================================
