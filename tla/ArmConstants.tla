---------------------------- MODULE ArmConstants ----------------------------
(* The numeric names shared by the simulator's sources: processor modes and  *)
(* exceptions (arm_constants.h), status registers (trace.h), slots of the    *)
(* register file (registers.h) and bits of a program status register.        *)
EXTENDS Naturals

\* Processor modes: the codes of bits 4..0 of a program status register.
USR == 16
FIQ == 17
IRQ == 18
SVC == 19
ABT == 23
UND == 27
SYS == 31

Modes == {USR, FIQ, IRQ, SVC, ABT, UND, SYS}

\* The modes an exception enters: those with a saved program status register.
ExceptionModes == {FIQ, IRQ, SVC, ABT, UND}

\* Exceptions, by priority.
RESET == 1
UNDEFINED_INSTRUCTION == 2
SOFTWARE_INTERRUPT == 3
PREFETCH_ABORT == 4
DATA_ABORT == 5
INTERRUPT == 6
FAST_INTERRUPT == 7

\* Register numbers: 0..15 are the general registers, 15 is the pc.
LR == 14
PC == 15
CPSR == 16
SPSR == 17
Regs == 0..15

\* The register file is an array of 38 words.  Slots 0..15 are the user bank,
\* slot 16 the cpsr, 18..22 the r8..r12 of FIQ; the others are banked by mode.
Slots == 0..37

\* r13, r14 and the saved status take five consecutive slots each, in this order.
BankIndex(m) == IF m = SVC THEN 0 ELSE IF m = ABT THEN 1 ELSE IF m = UND THEN 2
                ELSE IF m = IRQ THEN 3 ELSE 4

R13_slot(m) == 23 + BankIndex(m)
R14_slot(m) == 28 + BankIndex(m)
SPSR_slot(m) == 33 + BankIndex(m)

\* Masks of the control bits 5..9 of a program status register.  The flags are
\* the bits from FlagUnit up (bits 31..28 in the code, without the unused bits
\* 10..27 between the two groups).
T_BIT == 32
F_BIT == 64
I_BIT == 128
A_BIT == 256
E_BIT == 512
FlagUnit == 1024
=============================================================================
