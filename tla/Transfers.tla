------------------------------ MODULE Transfers -------------------------------
(* The loads and stores of arm_load_store.c with their addresses and what      *)
(* they move: the addressing modes, the shifted index, the sizes, the block    *)
(* transfers, on words of Width bits and bytes of a quarter of that (32 and 8  *)
(* in the code), in a memory whose least significant byte comes first.  The    *)
(* registers are those of one mode, without the pc (see Processor); whether a  *)
(* condition passes is an input.                                               *)
EXTENDS Words, FiniteSets

CONSTANTS Width,       \* the bits of a word
          MemorySize,  \* memory_get_size, a number of words of four bytes
          Registers,   \* the registers of the instructions
          Named,       \* those that single transfers name
          Values,      \* what the registers hold first
          Sizes,       \* the bytes of the single transfers, a subset of {1, 2, 4}
          Offsets,     \* the immediate offsets
          Amounts,     \* the amounts of the shifts of an index
          Blocks,      \* whether the program holds block transfers
          Lists,       \* their lists of registers
          Garbage,     \* what a variable may hold that no access has set
          MaxLength    \* a bound on the instructions executed

WordSize == Power[Width]
AllOnes == WordSize - 1
Word == 0..AllOnes

\* The values of n bytes, and of one.
Bytes == [n \in 0..4 |-> Power[n * (Width \div 4)]]
ByteSize == Power[Width \div 4]

\* What the constants are; the modules that give them their values assume it.
TransfersAssumption ==
  /\ Width \in Nat /\ Width >= 8 /\ Width % 4 = 0
  /\ MemorySize \in Nat /\ MemorySize % 4 = 0 /\ MemorySize <= AllOnes
  /\ Registers \subseteq 0..14 /\ Named \subseteq Registers /\ Values \subseteq Word
  /\ Sizes \subseteq {1, 2, 4} /\ Offsets \subseteq Word /\ Amounts \subseteq 0..(Width - 1)
  /\ Blocks \in BOOLEAN /\ Lists \subseteq SUBSET Registers
  /\ Garbage \subseteq Word /\ Garbage # {} /\ MaxLength \in Nat

VARIABLES reg,      \* the registers
          mem,      \* the bytes of memory
          last,     \* the last instruction, and the address it used
          stored,   \* the last single store, until another instruction writes memory
          pushed,   \* the last block store that wrote its base back, as long as
                    \* its base register and memory are left alone
          executed  \* how many instructions were

tvars == <<reg, mem, last, stored, pushed, executed>>

Modulo(x) == x % WordSize
Sign(x) == x \div Power[Width - 1]

None == [kind |-> "none"]

Init == /\ reg \in [Registers -> Values]
        /\ mem = [a \in 0..(MemorySize - 1) |-> 0]
        /\ last = None /\ stored = None /\ pushed = None
        /\ executed = 0

-----------------------------------------------------------------------------
\* Memory, as memory.c gives it to arm_core.c: an access out of range or not
\* aligned fails, and its result is ignored by the instructions.
Accessible(a, n) == a < MemorySize /\ a % n = 0

Lanes(n) == 0..(n - 1)

ReadFrom(a, n) ==
  LET Part(i) == IF i \in Lanes(n) THEN mem[a + i] * Bytes[i] ELSE 0
  IN  Part(0) + Part(1) + Part(2) + Part(3)

\* What a read leaves in the variable it is given, of n bytes.
Read(a, n) == IF Accessible(a, n) THEN {ReadFrom(a, n)} ELSE {g % Bytes[n] : g \in Garbage}

Wrote(m, a, n, value) ==
  [x \in DOMAIN m |-> IF Accessible(a, n) /\ x - a \in Lanes(n)
                      THEN (value \div Bytes[x - a]) % ByteSize ELSE m[x]]

-----------------------------------------------------------------------------
\* shift: the index of a register offset, where an amount of 0 of the other
\* shifts stands for the width, or for a rotation through the carry c.
shift(type, n, x, c) ==
  CASE type = "LSL" -> Modulo(x * Power[n])
    [] type = "LSR" -> IF n = 0 THEN 0 ELSE x \div Power[n]
    [] type = "ASR" -> IF n = 0 THEN Sign(x) * AllOnes
                       ELSE (x \div Power[n]) + Sign(x) * (WordSize - Power[Width - n])
    [] type = "ROR" -> IF n = 0 THEN c * Power[Width - 1] + (x \div 2)
                       ELSE (x \div Power[n]) + Modulo(x * Power[Width - n])

Shifts == {"LSL", "LSR", "ASR", "ROR"}

\* The base and the offset, in the direction of the U bit.
Moved(base, up, offset) == Modulo(IF up THEN base + offset ELSE base - offset)

\* The form that the P and W bits give: those of half words write the base of a
\* post-indexed transfer back, those of words and bytes compute its address only.
Form(size, immediate, p, w) ==
  CASE p /\ w -> "pre"
    [] p /\ ~w -> "offset"
    [] ~p /\ w /\ (size = 2 \/ immediate) -> "none"
    [] ~p /\ size = 2 /\ ~w -> "post"
    [] OTHER -> "computed"

\* getAddressModeHalf and getAddressModeBW: the address, AllOnes for none, and
\* the registers with the base written back.
Addressed(form, passed, rn, target) ==
  CASE form = "offset" -> [address |-> target, regs |-> reg]
    [] form = "none" \/ (form # "offset" /\ ~passed) -> [address |-> AllOnes, regs |-> reg]
    [] form = "pre" /\ passed -> [address |-> target, regs |-> [reg EXCEPT ![rn] = target]]
    [] form = "post" /\ passed -> [address |-> reg[rn], regs |-> [reg EXCEPT ![rn] = target]]
    [] form = "computed" /\ passed -> [address |-> target, regs |-> reg]

\* set_bits on the bits above a byte or a half word.
Extended(value, n, signed) ==
  IF signed /\ value \div (Bytes[n] \div 2) = 1
  THEN value + (WordSize - Bytes[n]) ELSE value

Single(load, size, address, value) ==
  [kind |-> "single", load |-> load, size |-> size, address |-> address, value |-> value]

\* Mutant: the base is written back after the load.
Landed_before(a, rn, rd, value) == [reg EXCEPT ![rd] = value, ![rn] = a.regs[rn]]

\* A load writes its register after the base was written back.
Landed(a, rn, rd, value) == [a.regs EXCEPT ![rd] = value]

\* A push stands until its base is moved.
Kept == IF pushed # None /\ reg'[pushed.rn] = pushed.top THEN pushed ELSE None

\* arm_load_store.  A load is skipped where there is no address; a store is not,
\* and fails there.
arm_load_store(load, size, signed, immediate, p, up, w, rn, rd, target, passed) ==
  LET a == Addressed(Form(size, immediate, p, w), passed, rn, target)
  IN  IF load
      THEN /\ IF a.address # AllOnes
              THEN \E value \in Read(a.address, size) :
                     /\ reg' = Landed(a, rn, rd, Extended(value, size, signed))
                     /\ last' = Single(TRUE, size, a.address, reg'[rd])
              ELSE /\ reg' = a.regs
                   /\ last' = Single(TRUE, size, a.address, 0)
           /\ pushed' = Kept
           /\ UNCHANGED <<mem, stored>>
      ELSE /\ reg' = a.regs
           /\ mem' = Wrote(mem, a.address, size, a.regs[rd])
           /\ last' = Single(FALSE, size, a.address, a.regs[rd] % Bytes[size])
           /\ stored' = last'
           /\ pushed' = None

SingleTransfer ==
  \E size \in Sizes, load, immediate, p, up, w, passed, signed \in BOOLEAN,
     rn, rd \in Named :
    \* The signed loads that arm_load_store extends are decoded as bytes.
    /\ signed => load /\ size = 1 /\ immediate
    /\ \/ /\ immediate
          /\ \E offset \in Offsets :
               arm_load_store(load, size, signed, immediate, p, up, w, rn, rd,
                              Moved(reg[rn], up, offset), passed)
       \/ /\ ~immediate /\ size = 2
          /\ \E rm \in Named :
               arm_load_store(load, size, signed, immediate, p, up, w, rn, rd,
                              Moved(reg[rn], up, reg[rm]), passed)
       \/ /\ ~immediate /\ size # 2
          /\ \E rm \in Named, type \in Shifts, n \in Amounts, c \in {0, 1} :
               /\ c = 1 => type = "ROR" /\ n = 0
               /\ arm_load_store(load, size, signed, immediate, p, up, w, rn, rd,
                                 Moved(reg[rn], up, shift(type, n, reg[rm], c)), passed)

-----------------------------------------------------------------------------
\* getAddressModeMulti: the first and the last address announced.
StartAddress(base, inc, after, bytes) ==
  IF inc THEN IF after THEN base ELSE Modulo(base + 4)
  ELSE IF after THEN Modulo(base - bytes + 4) ELSE Modulo(base - bytes)

EndAddress(base, inc, after, bytes) ==
  IF inc THEN IF after THEN Modulo(base + bytes - 4) ELSE Modulo(base + bytes)
  ELSE IF after THEN base ELSE Modulo(base - 4)

\* Mutant: the base moves up whatever the direction.
Beyond_up(base, inc, bytes) == Modulo(base + bytes)

\* The base written back.
Beyond(base, inc, bytes) == IF inc THEN Modulo(base + bytes) ELSE Modulo(base - bytes)

\* numberOfSetBits times the bytes of a word.
ListBytes(list) == 4 * Cardinality(list)

\* The address of a register of the list: the loops take them from register 0 on.
At(start, list, i) == Modulo(start + 4 * Cardinality({j \in list : j < i}))

\* The words of the list are read, or written after the base was.
Loaded(regs, start, list) ==
  {[i \in Registers |-> IF i \in list THEN words[i] ELSE regs[i]] :
     words \in {f \in [list -> UNION {Read(At(start, list, i), 4) : i \in list}] :
                  \A i \in list : f[i] \in Read(At(start, list, i), 4)}}

Saved(regs, start, list) ==
  [x \in DOMAIN mem |->
     LET owners == {i \in list : LET a == At(start, list, i)
                                 IN  Accessible(a, 4) /\ x - a \in Lanes(4)}
     IN  IF owners = {} THEN mem[x]
         ELSE LET i == CHOOSE i \in owners : TRUE
              IN  (regs[i] \div Bytes[x - At(start, list, i)]) % ByteSize]

\* arm_load_store_multiple: the base is written back whatever the addresses; an
\* address of AllOnes makes the instruction invalid, and so would an address
\* after the last transfer that is not the one announced.
arm_load_store_multiple(load, s_bit, writeback, inc, after, rn, list, passed) ==
  LET base == reg[rn]
      bytes == ListBytes(list)
      start == StartAddress(base, inc, after, bytes)
      end == EndAddress(base, inc, after, bytes)
      next == Beyond(base, inc, bytes)
      based == IF passed /\ writeback THEN [reg EXCEPT ![rn] = next] ELSE reg
      announced == AllOnes \notin {start, end}
      moves == announced /\ ~s_bit /\ passed
      ends == end = Modulo(start + bytes - 4)
      whole == \A i \in list : Accessible(At(start, list, i), 4)
      result == IF announced /\ (moves => ends) THEN 0 ELSE -1
  IN  /\ last' = IF moves
                 THEN [kind |-> "block", announced |-> TRUE, moved |-> TRUE, result |-> result,
                       load |-> load, inc |-> inc, after |-> after, rn |-> rn, list |-> list,
                       back |-> writeback]
                 ELSE [kind |-> "block", announced |-> announced, moved |-> FALSE,
                       result |-> result]
      /\ reg' \in IF load /\ moves THEN Loaded(based, start, list) ELSE {based}
      /\ mem' = IF ~load /\ moves THEN Saved(based, start, list) ELSE mem
      /\ stored' = IF load \/ ~moves THEN stored ELSE None
      /\ pushed' = IF ~load /\ moves
                   THEN IF writeback /\ whole /\ rn \notin list
                        THEN [kind |-> "block", inc |-> inc, after |-> after, rn |-> rn,
                              list |-> list, top |-> next, regs |-> reg]
                        ELSE None
                   ELSE Kept

BlockTransfer ==
  /\ Blocks
  /\ \E load, s_bit, writeback, inc, after, passed \in BOOLEAN, rn \in Registers, list \in Lists :
       arm_load_store_multiple(load, s_bit, writeback, inc, after, rn, list, passed)

\* Between them the program computes: a register is given another value.
Compute ==
  /\ \E r \in Registers, value \in Garbage :
       /\ pushed # None /\ r # pushed.rn
       /\ reg' = [reg EXCEPT ![r] = value]
  /\ last' = None
  /\ UNCHANGED <<mem, stored, pushed>>

Next == /\ executed < MaxLength
        /\ executed' = executed + 1
        /\ SingleTransfer \/ BlockTransfer \/ Compute

Spec == Init /\ [][Next]_tvars

-----------------------------------------------------------------------------
\* A load of the size and the address of the last store brings back what it
\* stored, whatever the addressing modes of the two and wherever their index,
\* base and data registers coincide (arm_load_store and its addressing modes).
StoredIsLoaded ==
  (/\ stored # None /\ last.kind = "single" /\ last.load
   /\ last.address = stored.address /\ last.size = stored.size
   /\ Accessible(last.address, last.size))
  => last.value % Bytes[last.size] = stored.value

\* A block store and the block load of the other direction are a stack: all the
\* registers of the list and the base come back as they were, whatever was
\* computed in between, for the four pairs of addressing modes; and the addresses
\* announced for a block are those of its first and last word, so that the check
\* after the transfer never fails (arm_load_store_multiple, getAddressModeMulti).
StackRestores ==
  [][/\ last'.kind = "block" => (last'.result = 0 <=> last'.announced)
     /\ (/\ pushed # None /\ last'.kind = "block" /\ last'.moved /\ last'.load /\ last'.back
         /\ last'.rn = pushed.rn /\ last'.list = pushed.list
         /\ last'.inc # pushed.inc /\ last'.after # pushed.after)
        => \A i \in pushed.list \union {pushed.rn} : reg'[i] = pushed.regs[i]]_tvars

=============================================================================
