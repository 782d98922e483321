----------------------------- MODULE Registers -----------------------------
(* registers.c as a component: the array of 38 words, one action per         *)
(* operation of its interface, and the value the last read returned.         *)
EXTENDS RegisterFile

CONSTANTS ClientRegs,   \* the registers its clients access
          Values        \* the words they write

ASSUME ClientAssumption == ClientRegs \subseteq Regs /\ Values \subseteq Word

VARIABLES data,     \* the array
          out,      \* what the last read returned
          corrupt   \* a write went outside the array: nothing is known any more

rvars == <<data, out, corrupt>>

Init == /\ data = registers_create
        /\ out = 0
        /\ corrupt = FALSE

ReadRegister(reg) == /\ ~corrupt
                     /\ out' \in read_register(data, reg)
                     /\ UNCHANGED <<data, corrupt>>

ReadUsrRegister(reg) == /\ ~corrupt
                        /\ out' \in read_usr_register(data, reg)
                        /\ UNCHANGED <<data, corrupt>>

ReadSpsr == /\ ~corrupt
            /\ out' \in read_spsr(data)
            /\ UNCHANGED <<data, corrupt>>

WriteRegister(reg, v) == /\ ~corrupt
                         /\ data' = write_register(data, reg, v)
                         /\ corrupt' = IsWild(data, reg)
                         /\ UNCHANGED out

WriteUsrRegister(reg, v) == /\ ~corrupt
                            /\ data' = write_usr_register(data, reg, v)
                            /\ UNCHANGED <<out, corrupt>>

WriteCpsr(v) == /\ ~corrupt
                /\ data' = write_cpsr(data, v)
                /\ UNCHANGED <<out, corrupt>>

WriteSpsr(v) == /\ ~corrupt
                /\ data' = write_spsr(data, v)
                /\ corrupt' = (current_mode_has_spsr(data) /\ IsWild(data, SPSR))
                /\ UNCHANGED out

Next == \/ \E reg \in ClientRegs : ReadRegister(reg) \/ ReadUsrRegister(reg)
        \/ ReadSpsr
        \/ \E reg \in ClientRegs, v \in Values : WriteRegister(reg, v)
        \/ \E reg \in ClientRegs, v \in Values : WriteUsrRegister(reg, v)
        \/ \E v \in Values : WriteCpsr(v) \/ WriteSpsr(v)

Spec == Init /\ [][Next]_rvars

-----------------------------------------------------------------------------
\* The array holds 38 words and a read returns a word, in every mode the
\* clients select, the illegal ones included.
TypeOK == /\ data \in Files
          /\ out \in Word
          /\ corrupt \in BOOLEAN

\* Where the array keeps each bank of the abstract register file.
BankSlot(b, reg) == IF b = FIQ /\ reg \in 8..12 THEN reg + 10
                    ELSE IF b \in ExceptionModes /\ reg = 13 THEN R13_slot(b)
                    ELSE IF b \in ExceptionModes /\ reg = 14 THEN R14_slot(b)
                    ELSE reg

\* Registers that an exception mode shares with user mode are in its abstract
\* bank too, where nothing ever reads or writes them.
IsPrivate(b, reg) == b = USR \/ (b = FIQ /\ reg \in 8..14) \/ reg \in 13..14

BankView(d) == [b \in ExceptionModes \union {USR} |->
                  [r \in Regs |-> IF IsPrivate(b, r) THEN d[BankSlot(b, r)] ELSE 0]]

SpsrView(d) == [m \in ExceptionModes |-> d[SPSR_slot(m)]]

Banked == INSTANCE BankedRegisters WITH
  bank <- BankView(data), cpsr <- data[CPSR], spsr <- SpsrView(data)

\* The 38 slots implement the banks: no two banked registers share a slot, a
\* read returns what was last written to the register of the current mode's
\* bank whatever mode changes came between, and only a mode that does not
\* exist leaves the array (getRegister and the operations built on it).
BankingRule == Banked!BSpec
=============================================================================
