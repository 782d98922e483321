----------------------------- MODULE BitFields -----------------------------
(* The bit-field macros of util.h and the way memory.c takes bytes and       *)
(* halves out of a 32-bit word and puts them back, on a word of four lanes   *)
(* of LaneBits bits (8 in the code).                                         *)
EXTENDS Words

CONSTANT LaneBits

\* What the constant is; the module that gives it its value assumes it.
LaneBitsAssumption == LaneBits \in Nat \ {0, 1}

VARIABLES word,     \* the word in memory
          read,     \* what the last read returned
          call      \* the last call: [op, lane, lanes, bits]

bvars == <<word, read, call>>

Width == 4 * LaneBits
TopBit == Width - 1
WordValues == 0..(Power[Width] - 1)

\* The values of a field of so many lanes.
FieldValues(lanes) == 0..(Power[LaneBits * lanes] - 1)

\* ~0 >> n << n: the mask of the bits from n up.  A shift by the width of the
\* word is undefined: the processor shifts by 0, a compiler may give 0.
HighMask(n) == IF n < Width THEN {Power[Width] - Power[n]} ELSE {Power[Width] - 1, 0}

clr_bit(x, i) == IF (x \div Power[i]) % 2 = 1 THEN x - Power[i] ELSE x

\* Mutant: the field is one bit too wide.
get_bits_wide(x, h, l) == (x \div Power[l]) % Power[h - l + 2]

get_bits(x, h, l) == (x \div Power[l]) % Power[h - l + 1]

\* What set_bits may give: bits is not cut to the width of the field.
set_bits(x, h, l, bits) ==
  {Or(Or(x % Power[l], And(x, mask, Width), Width), (bits * Power[l]) % Power[Width], Width) :
     mask \in HighMask(h + 1)}

FirstBit(lane) == lane * LaneBits
LastBit(lane, lanes) == lane * LaneBits + lanes * LaneBits - 1

\* memory_read_byte and memory_read_half.
ReadField(lane, lanes) ==
  /\ read' = get_bits(word, LastBit(lane, lanes), FirstBit(lane))
  /\ call' = [op |-> "read", lane |-> lane, lanes |-> lanes, bits |-> 0]
  /\ UNCHANGED word

\* Mutant: no special case for the fields that end at the top bit.
write_field_direct(x, lane, lanes, bits) ==
  set_bits(x, LastBit(lane, lanes), FirstBit(lane), bits)

\* A field that ends at the top bit is written with that bit cleared first and
\* a field one bit narrower.
write_field(x, lane, lanes, bits) ==
  IF LastBit(lane, lanes) = TopBit
  THEN set_bits(clr_bit(x, TopBit), TopBit - 1, FirstBit(lane), bits)
  ELSE set_bits(x, LastBit(lane, lanes), FirstBit(lane), bits)

\* memory_write_byte and memory_write_half.
WriteField(lane, lanes, bits) ==
  /\ word' \in write_field(word, lane, lanes, bits)
  /\ call' = [op |-> "write", lane |-> lane, lanes |-> lanes, bits |-> bits]
  /\ UNCHANGED read

\* The lanes of a byte (any) and of a half (even addresses).
LanesOf(lanes) == IF lanes = 1 THEN 0..3 ELSE {0, 2}

NoCall == [op |-> "none", lane |-> 0, lanes |-> 1, bits |-> 0]

Init == word \in WordValues /\ read = 0 /\ call = NoCall

Next == \E lanes \in {1, 2} : \E lane \in LanesOf(lanes) :
          \/ ReadField(lane, lanes)
          \/ \E bits \in FieldValues(lanes) : WriteField(lane, lanes, bits)

Spec == Init /\ [][Next]_bvars

-----------------------------------------------------------------------------
Lane(x, i) == (x \div Power[LaneBits * i]) % Power[LaneBits]

InField(c, i) == i \in c.lane..(c.lane + c.lanes - 1)

\* memory_write_byte and memory_write_half replace the lanes of the field with
\* those of the value and keep every other bit, the sign bit included, for
\* every word and value: neither the old bits nor the value's spill over.
WritesReplaceLanes ==
  [][call'.op = "write" =>
       \A i \in 0..3 :
         Lane(word', i) = IF InField(call', i) THEN Lane(call'.bits, i - call'.lane)
                          ELSE Lane(word, i)]_bvars

\* memory_read_byte and memory_read_half return the lanes of the field and
\* nothing else of the word.
ReadsTakeLanes ==
  [][call'.op = "read" =>
       \A i \in 0..3 :
         Lane(read', i) = IF i < call'.lanes THEN Lane(word, call'.lane + i)
                          ELSE 0]_bvars
=============================================================================
