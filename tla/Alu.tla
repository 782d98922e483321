--------------------------------- MODULE Alu ---------------------------------
(* What data processing instructions compute (arm_data_processing.c, the     *)
(* shifts of util.c) and the conditions that test it (arm_instruction.c), on *)
(* words of Width bits (32 in the code).  The destination is not the pc, the *)
(* case Processor models.                                                    *)
EXTENDS Words

CONSTANTS Width,        \* the bits of a word
          ByteSize,     \* the values of the low byte of a register (256)
          Operations,   \* the operations executed, a subset of Opcodes
          Kinds,        \* the forms of the second operand, a subset of AllKinds
          FirstOperands, \* what the first register may hold
          Operands,     \* what the second register or the immediate may
          MaxLength     \* bound: instructions executed

AllOnes == Power[Width] - 1
Word == 0..AllOnes

Opcodes == {"AND", "EOR", "SUB", "RSB", "ADD", "ADC", "SBC", "RSC",
            "TST", "TEQ", "CMP", "CMN", "ORR", "MOV", "BIC", "MVN"}
AllKinds == {"immediate", "LSL_imm", "LSL_reg", "LSR_imm", "LSR_reg",
             "ASR_imm", "ASR_reg", "ROR_imm", "ROR_reg"}

\* What the constants are; the modules that give them their values assume it.
AluAssumption == /\ Width \in Nat \ {0, 1} /\ ByteSize \in Nat /\ Width <= ByteSize
                 /\ Operations \subseteq Opcodes /\ Kinds \subseteq AllKinds
                 /\ FirstOperands \union Operands \subseteq Word /\ MaxLength \in Nat

VARIABLES flags,        \* the bits N, Z, C and V of the cpsr
          last,         \* the last instruction: inputs and what it wrote
          executed      \* how many were

avars == <<flags, last, executed>>

Sign(x) == Bit(x, Width - 1)
Complement(x) == AllOnes - x
Modulo(x) == x % Power[Width]

-----------------------------------------------------------------------------
\* Shifts of C.  By the width or more, or by less than 0, they are undefined:
\* the processor shifts by the amount modulo the width, a compiler may give 0.
ShiftLeft(x, n) == {Modulo(x * Power[n % Width])} \union IF n \in 0..(Width - 1) THEN {} ELSE {0}
ShiftRight(x, n) == {x \div Power[n % Width]} \union IF n \in 0..(Width - 1) THEN {} ELSE {0}

asr(x, n) == {Or(low, high, Width) : low \in ShiftRight(x, n),
                           high \in IF Sign(x) = 1 THEN ShiftLeft(AllOnes, Width - n) ELSE {0}}

\* Mutant: both halves of the rotation move the same way.
ror_swapped(x, n) == {Or(low, high, Width) : low \in ShiftRight(x, Width - n), high \in ShiftLeft(x, n)}

ror(x, n) == {Or(low, high, Width) : low \in ShiftRight(x, n), high \in ShiftLeft(x, Width - n)}

\* The last bit that a shift right by n pushes out.
LastOut(x, n) == Bit(x, n - 1)

\* The bit of a register-specified shift by n, of which byte counts only.
RegisterCarry(n, c, out) == IF n = 0 THEN c ELSE IF n <= Width THEN out ELSE 0

\* data_processing_operand and data_processing_immediate_operand: the second
\* operand and the carry, from the carry c of the cpsr.
ShifterOperand(kind, n, x, c) ==
  LET byte == n % ByteSize
      Out(operands, carry) == {[operand |-> o, carry |-> carry] : o \in operands}
  IN CASE kind = "immediate" -> UNION {Out({o}, IF n = 0 THEN c ELSE Sign(o)) : o \in ror(x, n)}
       [] kind = "LSL_imm" -> Out(ShiftLeft(x, n), IF n = 0 THEN c ELSE Bit(x, Width - n))
       [] kind = "LSL_reg" -> Out(ShiftLeft(x, n), RegisterCarry(byte, c,
                                                     IF byte \in 1..Width THEN Bit(x, Width - byte) ELSE 0))
       [] kind = "LSR_imm" -> Out(ShiftRight(x, n), IF n = 0 THEN Sign(x) ELSE LastOut(x, n))
       [] kind = "LSR_reg" -> Out(ShiftRight(x, n), RegisterCarry(byte, c,
                                                     IF byte \in 1..Width THEN LastOut(x, byte) ELSE 0))
       [] kind = "ASR_imm" -> Out(asr(x, n), IF n = 0 THEN Sign(x) ELSE LastOut(x, n))
       [] kind = "ASR_reg" -> Out(asr(x, byte), RegisterCarry(byte, c,
                                                     IF byte \in 1..Width THEN LastOut(x, byte) ELSE 0))
       [] kind = "ROR_imm" -> Out(ror(x, n), IF n = 0 THEN c ELSE LastOut(x, n))
       [] kind = "ROR_reg" -> Out(ror(x, byte), IF byte = 0 THEN c
                                                ELSE IF byte % Width = 0 THEN Sign(x)
                                                ELSE LastOut(x, byte % Width))

\* sub and rsb.
Difference(a, b) == Modulo(a + Complement(b) + 1)

\* The operators: logical_and, logical_eor, sub, rsb, add, logical_or, mov, bic.
Operate(op, a, b) ==
  CASE op \in {"AND", "TST"} -> And(a, b, Width)
    [] op \in {"EOR", "TEQ"} -> Xor(a, b, Width)
    [] op \in {"SUB", "SBC", "CMP"} -> Difference(a, b)
    [] op \in {"RSB", "RSC"} -> Difference(b, a)
    [] op \in {"ADD", "ADC", "CMN"} -> Modulo(a + b)
    [] op = "ORR" -> Or(a, b, Width)
    [] op \in {"MOV", "MVN"} -> b
    [] op = "BIC" -> And(a, Complement(b), Width)

Additions == {"ADD", "ADC", "CMN"}
Subtractions == {"SUB", "RSB", "SBC", "RSC", "CMP"}
Comparisons == {"TST", "TEQ", "CMP", "CMN"}

CarryFrom(a, b, value) == IF b > value \/ a > value THEN 1 ELSE 0

\* Mutant: the sign of the second operand is not looked at.
oVerflow_half(a, b, value) == IF Sign(a) # Sign(value) THEN 1 ELSE 0

oVerflow(a, b, value) == IF Sign(a) = Sign(b) /\ Sign(value) # Sign(b) THEN 1 ELSE 0

\* The int whose being 0 or not becomes the flag: ~CarryFrom is -1 or -2.
Carry(op, a, b, value, shifted) ==
  IF op \in Additions THEN CarryFrom(a, b, value)
  ELSE IF op \in Subtractions THEN -CarryFrom(a, b, value) - 1
  ELSE shifted

\* ADC adds the carry; SBC and RSC subtract its complement, -1 or -2.
Adjusted(op, value, c) ==
  IF op = "ADC" THEN Modulo(value + c)
  ELSE IF op \in {"SBC", "RSC"} THEN Modulo(value + c + 1)
  ELSE value

ZNCV_update(f, value, arithmetic, carry, v) ==
  [n |-> Sign(value), z |-> IF value = 0 THEN 1 ELSE 0,
   c |-> IF carry # 0 THEN 1 ELSE 0, v |-> IF arithmetic THEN v ELSE f.v]

\* arm_data_processing_shift: a is the first operand, x and n what the second
\* is made of; the comparisons update the flags whatever the S bit.
Execute(op, s, kind, n, x, a) ==
  /\ executed' = executed + 1
  /\ \E out \in ShifterOperand(kind, n, x, flags.c) :
       LET b == out.operand
           value == Operate(op, a, b)
           final == Adjusted(op, value, flags.c)
           carry == Carry(op, a, b, value, out.carry)
       IN  /\ flags' = IF s \/ op \in Comparisons
                       THEN ZNCV_update(flags, final, op \in Additions \union Subtractions,
                                        carry, oVerflow(a, b, value))
                       ELSE flags
           /\ last' = [op |-> op, s |-> s, kind |-> kind, n |-> n, x |-> x, a |-> a, b |-> b,
                       c |-> flags.c, v |-> flags.v,
                       rd |-> IF op = "MVN" THEN Complement(final) ELSE final]

\* The amounts that an instruction of a kind may name: five bits, an even
\* rotation, or a register.
Amounts(kind) ==
  IF kind = "immediate" THEN {n \in 0..(Width - 1) : n % 2 = 0}
  ELSE IF kind \in {"LSL_imm", "LSR_imm", "ASR_imm", "ROR_imm"} THEN 0..(Width - 1)
  ELSE Word

NoInstruction == [op |-> "none", s |-> FALSE, kind |-> "none", n |-> 0, x |-> 0, a |-> 0,
                  b |-> 0, c |-> 0, v |-> 0, rd |-> 0]

Init == flags \in [n : {0, 1}, z : {0, 1}, c : {0, 1}, v : {0, 1}] /\ last = NoInstruction
        /\ executed = 0

Next == /\ executed < MaxLength
        /\ \E op \in Operations, s \in BOOLEAN, kind \in Kinds :
             \E n \in Amounts(kind), x \in Operands, a \in FirstOperands :
               Execute(op, s, kind, n, x, a)

Spec == Init /\ [][Next]_avars

\* condition: EQ NE CS CC MI PL VS VC HI LS GE LT GT LE AL and, last, never.
condition(cond, f) ==
  CASE cond = 0 -> f.z = 1
    [] cond = 1 -> f.z = 0
    [] cond = 2 -> f.c = 1
    [] cond = 3 -> f.c = 0
    [] cond = 4 -> f.n = 1
    [] cond = 5 -> f.n = 0
    [] cond = 6 -> f.v = 1
    [] cond = 7 -> f.v = 0
    [] cond = 8 -> f.c = 1 /\ f.z = 0
    [] cond = 9 -> f.c = 0 \/ f.z = 1
    [] cond = 10 -> f.n = f.v
    [] cond = 11 -> f.n # f.v
    [] cond = 12 -> f.n = f.v /\ f.z = 0
    [] cond = 13 -> f.n # f.v \/ f.z = 1
    [] cond = 14 -> TRUE
    [] cond = 15 -> FALSE

-----------------------------------------------------------------------------
Signed(x) == IF Sign(x) = 1 THEN x - Power[Width] ELSE x
SetsFlags(i) == i.op # "none" /\ (i.s \/ i.op \in Comparisons)

\* The first operand shifted right by n as a signed number.
Halved(x, n) == Signed(x) \div Power[n]

\* What the architecture shifts by: the low byte of a register; an immediate 0
\* of LSR or ASR stands for the width.
Amount(kind, n) == IF kind \in {"LSR_imm", "ASR_imm"} /\ n = 0 THEN Width ELSE n % ByteSize

\* Where the operand is not the one of the architecture: LSR #0 and ASR #0 do
\* not shift by the width, ROR #0 does not rotate through the carry; and C
\* leaves undefined a shift by a register that holds Width or more (not its
\* low byte alone is taken) and ASR by 0 of a negative number.
OperandDeviates(kind, n, x) ==
  \/ kind \in {"LSR_imm", "ASR_imm", "ROR_imm"} /\ n = 0
  \/ n >= Width
  \/ kind = "ASR_reg" /\ n = 0 /\ Sign(x) = 1

\* Where the carry is not: ROR #0 keeps C, ASR by more than the width clears it.
CarryDeviates(kind, n) == \/ kind = "ROR_imm" /\ n = 0
                          \/ kind = "ASR_reg" /\ n % ByteSize > Width

\* The carry of the architecture, where c is the one before and b the operand.
CarryOut(kind, n, x, c, b) ==
  LET amount == Amount(kind, n)
  IN IF amount = 0 THEN c
     ELSE CASE kind \in {"LSL_imm", "LSL_reg"} -> ((x * Power[amount]) \div Power[Width]) % 2
            [] kind \in {"LSR_imm", "LSR_reg", "ASR_imm", "ASR_reg"} -> (x \div Power[amount - 1]) % 2
            [] kind \in {"ROR_imm", "ROR_reg"} -> (x \div Power[(amount - 1) % Width]) % 2
            [] kind = "immediate" -> Sign(b)

\* The second operand, but where the code keeps from the architecture: the
\* value shifted, as a signed number for ASR, or rotated.
OperandIsShifted ==
  last.op # "none" /\ ~OperandDeviates(last.kind, last.n, last.x) =>
    /\ last.kind \in {"LSL_imm", "LSL_reg"} => last.b = Modulo(last.x * Power[last.n])
    /\ last.kind \in {"LSR_imm", "LSR_reg"} => last.b = last.x \div Power[last.n]
    /\ last.kind \in {"ASR_imm", "ASR_reg"} => Signed(last.b) = Halved(last.x, last.n)
    /\ last.kind \in {"immediate", "ROR_imm", "ROR_reg"}
         => last.b = (last.x \div Power[last.n]) + Modulo(last.x * Power[Width - last.n])

\* A logical operation sets C to the carry of the shifter, for amounts of the
\* width or more too, and leaves V alone.
ShiftedOutIsCarry ==
  (SetsFlags(last) /\ last.op \notin Additions \union Subtractions) =>
    /\ flags.v = last.v
    /\ ~CarryDeviates(last.kind, last.n)
         => flags.c = CarryOut(last.kind, last.n, last.x, last.c, last.b)

\* The shifter gives the operand and the carry of the architecture for every
\* form, amount, value and carry before but those that OperandDeviates and
\* CarryDeviates list (data_processing_operand, asr, ror).
ShiftsAreArithmetic == OperandIsShifted /\ ShiftedOutIsCarry

\* After ADDS and CMN the sixteen conditions tell the sum that no word can
\* hold: its carry, its overflow, and how it compares with 0 as a signed number;
\* after every operation but MVN, N and Z are those of what was written
\* (CarryFrom, oVerflow, ZNCV_update, condition).
ConditionsOfSum ==
  SetsFlags(last) =>
    /\ last.op \in {"ADD", "CMN"} =>
         LET unsigned == last.a + last.b
             signed == Signed(last.a) + Signed(last.b)
             Passes(cond) == condition(cond, flags)
         IN  /\ Passes(0) <=> Modulo(unsigned) = 0
             /\ Passes(2) <=> unsigned \notin Word
             /\ Passes(4) <=> Sign(Modulo(unsigned)) = 1
             /\ Passes(6) <=> signed \notin -(Power[Width - 1])..(Power[Width - 1] - 1)
             /\ Passes(8) <=> unsigned > Power[Width]
             /\ Passes(10) <=> signed >= 0
             /\ Passes(12) <=> signed > 0
    /\ \A pair \in 0..7 : condition(2 * pair, flags) # condition(2 * pair + 1, flags)
    /\ last.op # "MVN" => /\ flags.n = Sign(last.rd)
                          /\ flags.z = 1 <=> last.rd = 0
=============================================================================
