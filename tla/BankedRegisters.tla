-------------------------- MODULE BankedRegisters --------------------------
(* What the register file promises: one user bank of sixteen registers, in   *)
(* FIQ mode private r8..r14, in the other exception modes private r13 and    *)
(* r14, one saved status per exception mode, and one cpsr that selects the   *)
(* bank.  In a mode that does not exist, r13, r14 and the spsr have no owner *)
(* and an access to them is a corruption.                                    *)
EXTENDS ArmConstants

CONSTANTS Word,         \* the values of a register
          AllOnes,      \* what reading an absent saved status gives
          ModeOf(_),    \* the mode selected by a status word
          ClientRegs,   \* the registers clients access
          Values        \* the values clients write

VARIABLES bank, cpsr, spsr, out, corrupt

bvars == <<bank, cpsr, spsr, out, corrupt>>

Banks == ExceptionModes \union {USR}

Mode == ModeOf(cpsr)

HasSpsr == Mode \notin {USR, SYS}

\* The bank that holds reg in the current mode.
Owner(reg) == IF \/ Mode = FIQ /\ reg \in 8..14
                 \/ Mode \in ExceptionModes /\ reg \in 13..14
              THEN Mode
              ELSE USR

\* No bank holds reg in the current mode.
Unowned(reg) == Mode \notin Modes /\ reg \in 13..14

BInit == /\ bank = [b \in Banks |-> [r \in Regs |-> 0]]
         /\ cpsr = 0
         /\ spsr = [m \in ExceptionModes |-> 0]
         /\ out = 0
         /\ corrupt = FALSE

BRead(reg) == /\ ~corrupt
              /\ IF Unowned(reg) THEN out' \in Word
                 ELSE out' = bank[Owner(reg)][reg]
              /\ UNCHANGED <<bank, cpsr, spsr, corrupt>>

BReadUser(reg) == /\ ~corrupt
                  /\ out' = bank[USR][reg]
                  /\ UNCHANGED <<bank, cpsr, spsr, corrupt>>

BReadSpsr == /\ ~corrupt
             /\ IF Mode \in ExceptionModes THEN out' = spsr[Mode]
                ELSE IF HasSpsr THEN out' \in Word
                ELSE out' = AllOnes
             /\ UNCHANGED <<bank, cpsr, spsr, corrupt>>

BWrite(reg, v) == /\ ~corrupt
                  /\ IF Unowned(reg) THEN bank' = bank
                     ELSE bank' = [bank EXCEPT ![Owner(reg)][reg] = v]
                  /\ corrupt' = Unowned(reg)
                  /\ UNCHANGED <<cpsr, spsr, out>>

BWriteUser(reg, v) == /\ ~corrupt
                      /\ Mode = USR
                      /\ bank' = [bank EXCEPT ![USR][reg] = v]
                      /\ UNCHANGED <<cpsr, spsr, out, corrupt>>

BWriteCpsr(v) == /\ ~corrupt
                 /\ cpsr' = v
                 /\ UNCHANGED <<bank, spsr, out, corrupt>>

BWriteSpsr(v) == /\ ~corrupt
                 /\ HasSpsr
                 /\ IF Mode \in ExceptionModes
                    THEN spsr' = [spsr EXCEPT ![Mode] = v]
                    ELSE spsr' = spsr
                 /\ corrupt' = (Mode \notin ExceptionModes)
                 /\ UNCHANGED <<bank, cpsr, out>>

BNext == \/ \E reg \in ClientRegs : BRead(reg) \/ BReadUser(reg)
         \/ BReadSpsr
         \/ \E reg \in ClientRegs, v \in Values : BWrite(reg, v) \/ BWriteUser(reg, v)
         \/ \E v \in Values : BWriteCpsr(v) \/ BWriteSpsr(v)

BSpec == BInit /\ [][BNext]_bvars
=============================================================================
