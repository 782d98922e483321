------------------------------- MODULE Branches --------------------------------
(* B and BL of arm_branch_other.c with the arithmetic of their offset, between *)
(* two fetches of arm_core.c: WordSize words (2^32 in the code) and OffsetSize  *)
(* offsets in instructions (2^24).                                             *)
EXTENDS Integers

CONSTANTS WordSize,     \* the number of words
          OffsetSize    \* the number of offsets in the instruction

\* What the constants are; the modules that give them their values assume it.
BranchesAssumption ==
  /\ WordSize \in Nat /\ WordSize % 4 = 0
  /\ OffsetSize \in Nat \ {0} /\ OffsetSize % 2 = 0 /\ 4 * OffsetSize <= WordSize

Modulo(x) == x % WordSize
Word == 0..(WordSize - 1)
Offsets == 0..(OffsetSize - 1)

VARIABLES pc,      \* the program counter
          lr,      \* the link register
          branch   \* the branch executed last: its address, offset and condition

bvars == <<pc, lr, branch>>

NoBranch == [at |-> 0, offset |-> 0, passed |-> FALSE, link |-> FALSE]

\* The debugger sets any pc.
Init == pc \in Word /\ lr = 0 /\ branch = NoBranch

-----------------------------------------------------------------------------
\* Bit 1 of an address, and the last of the bits of an offset.
Bit1(x) == (x \div 2) % 2
SignBit(offset) == offset >= OffsetSize \div 2

\* Mutant: the offset is negated and keeps its width.
Negated_narrow(offset) == (OffsetSize - offset) % OffsetSize

\* The two's complement of the offset, extended by the bit that is then its last:
\* set_bits of the 30 lower bits of a word.
Negated(offset) ==
  LET negated == (OffsetSize - offset) % OffsetSize
  IN  IF SignBit(negated) THEN negated + ((WordSize \div 4) - OffsetSize) ELSE negated

\* arm_read_register of the pc: 4 beyond, without bit 1.
ReadPc(x) == LET beyond == Modulo(x + 4) IN beyond - (2 * Bit1(beyond))

\* What arm_fetch reads, before it moves the pc past it.
FetchAddress(x) == Modulo(ReadPc(x) - 4)

\* The link of BL, 4 before the pc as it is read.
Link(read) == Modulo(read - 4)

\* A fetch and arm_branch: the link is written whatever the condition.
arm_branch(link, passed, offset) ==
  LET fetched == FetchAddress(pc)
      read == ReadPc(Modulo(fetched + 4))
  IN  /\ lr' = IF link THEN Link(read) ELSE lr
      /\ pc' = IF passed THEN Modulo(read - Modulo(4 * Negated(offset)))
               ELSE Modulo(fetched + 4)
      /\ branch' = [at |-> fetched, offset |-> offset, passed |-> passed, link |-> link]

\* A return, by any instruction that moves the link to the pc.
Return == /\ pc' = lr
          /\ branch' = NoBranch
          /\ UNCHANGED lr

Next == \/ \E link, passed \in BOOLEAN, offset \in Offsets : arm_branch(link, passed, offset)
        \/ Return

Spec == Init /\ [][Next]_bvars

-----------------------------------------------------------------------------
MostNegative == OffsetSize \div 2

Signed(offset) == IF offset < MostNegative THEN offset ELSE offset - OffsetSize

Target(b) == Modulo(b.at + 8 + 4 * Signed(b.offset))

Taken(b) == b # NoBranch /\ b.passed

\* The next fetch after a branch that was taken is where its signed offset, counted
\* in instructions from two beyond it, points, all but the most negative offset; and
\* the link of a call is the instruction after it (arm_branch, arm_fetch and the two
\* corrections of the pc between them).
BranchesReach ==
  /\ Taken(branch) /\ branch.offset # MostNegative => FetchAddress(pc) = Target(branch)
  /\ branch.link => FetchAddress(lr) = Modulo(branch.at + 4)

=============================================================================
