---------------------------- MODULE MemoryProofs ----------------------------
(* The memory is well typed, never leaves the words it allocated and         *)
(* implements an array of bytes, for every size and every set of byte values.*)
EXTENDS Memory, TLAPS

\* The allocation covers every address below the size: the word of such an
\* address was allocated, and so was the whole of an aligned access (oneMore).
LEMMA WordAllocated ==
  ASSUME NEW a \in Nat, a < Size
  PROVE  a \div 4 \in 0..(WordCount - 1)
BY SizeAssumption DEF WordCount

\* Replaced lanes are bytes again.
LEMMA LanesType ==
  ASSUME NEW w \in Bytes(4), NEW lane \in 0..3, NEW n \in {1, 2, 4}, lane + n <= 4
  PROVE  /\ GetLanes(w, lane, n) \in Bytes(n)
         /\ \A v \in Bytes(n) : SetLanes(w, lane, n, v) \in Bytes(4)
BY DEF GetLanes, SetLanes, Bytes

\* A reversed value is a value of as many bytes.
LEMMA ReverseType == /\ \A h \in Bytes(2) : reverse_2(h) \in Bytes(2)
                     /\ \A w \in Bytes(4) : reverse_4(w) \in Bytes(4)
BY DEF reverse_2, reverse_4, Bytes

\* The bytes of an aligned access lie in one word.
LEMMA LaneRange ==
  ASSUME NEW a \in Nat
  PROVE  /\ a % 4 \in 0..3
         /\ a % 2 = 0 => (a % 4) + 2 <= 4
         /\ a % 4 = 0 => (a % 4) + 4 <= 4
BY Z3

\* The word of an address in range is there.
LEMMA WordThere ==
  ASSUME TypeOK, NEW a \in Nat, ~OutOfRange(a)
  PROVE  WordAt(a) = data[a \div 4] /\ WordAt(a) \in Bytes(4)
BY WordAllocated, SizeAssumption DEF TypeOK, OutOfRange, WordAt

\* The inductive invariant of the theorem below.
Inv == TypeOK /\ NoOverrun

\* The initial state satisfies the invariant.
LEMMA InitInv == Init => Inv
BY BlockAssumption DEF Init, Inv, TypeOK, NoOverrun, memory_create, Fields

\* A refused access keeps the invariant.
LEMMA FailsInv == Inv /\ Fails => Inv'
BY DEF Inv, TypeOK, NoOverrun, Fails

\* A successful access of n bytes at an aligned address stays in the words.
LEMMA AccessInv ==
  ASSUME Inv, NEW a \in Nat, NEW n \in {1, 2, 4}, ~OutOfRange(a), a % n = 0,
         Touches(a),
         \/ UNCHANGED data /\ value' \in Bytes(n)
         \/ (\E w \in Bytes(4) : Update(a, w)) /\ UNCHANGED value
  PROVE  Inv'
<1>1. a \div 4 \in 0..(WordCount - 1)
  BY WordAllocated, SizeAssumption DEF OutOfRange
<1>2. overrun' = FALSE
  BY <1>1 DEF Inv, TypeOK, Touches
<1>3. data' \in [0..(WordCount - 1) -> Bytes(4)]
  BY <1>1 DEF Inv, TypeOK, Update
<1>. QED
  BY <1>2, <1>3 DEF Inv, TypeOK, NoOverrun, Touches

\* Every step keeps the invariant.
LEMMA NextInv == Inv /\ [Next]_mvars => Inv'
<1> SUFFICES ASSUME Inv, [Next]_mvars PROVE Inv'
  OBVIOUS
<1>1. CASE UNCHANGED mvars
  BY <1>1 DEF Inv, TypeOK, NoOverrun, mvars
<1>2. ASSUME NEW a \in Addresses, ~OutOfRange(a)
      PROVE  a \in Nat /\ WordAt(a) \in Bytes(4)
  BY <1>2, AddressAssumption, WordThere DEF Inv
<1>3. ASSUME NEW a \in Addresses, memory_read_byte(a) PROVE Inv'
  <2>1. CASE OutOfRange(a)
    BY <1>3, <2>1, FailsInv DEF memory_read_byte
  <2>2. CASE ~OutOfRange(a)
    <3>1. a \in Nat /\ a % 1 = 0 /\ WordAt(a) \in Bytes(4) /\ (a % 4) + 1 <= 4
      BY <1>2, <2>2, LaneRange
    <3>2. value' \in Bytes(1)
      BY <1>3, <2>2, <3>1, LanesType, LaneRange DEF memory_read_byte
    <3>. QED
      BY <1>3, <2>2, <3>1, <3>2, AccessInv DEF memory_read_byte
  <2>. QED
    BY <2>1, <2>2
<1>4. ASSUME NEW a \in Addresses, memory_read_half(a) PROVE Inv'
  <2>1. CASE OutOfRange(a) \/ a % 2 # 0
    BY <1>4, <2>1, FailsInv DEF memory_read_half
  <2>2. CASE ~OutOfRange(a) /\ a % 2 = 0
    <3>1. a \in Nat /\ WordAt(a) \in Bytes(4) /\ (a % 4) + 2 <= 4
      BY <1>2, <2>2, LaneRange
    <3>2. value' \in Bytes(2)
      BY <1>4, <2>2, <3>1, LanesType, LaneRange, ReverseType DEF memory_read_half
    <3>. QED
      BY <1>4, <2>2, <3>1, <3>2, AccessInv DEF memory_read_half
  <2>. QED
    BY <2>1, <2>2
<1>5. ASSUME NEW a \in Addresses, memory_read_word(a) PROVE Inv'
  <2>1. CASE OutOfRange(a) \/ a % 4 # 0
    BY <1>5, <2>1, FailsInv DEF memory_read_word
  <2>2. CASE ~OutOfRange(a) /\ a % 4 = 0
    <3>1. a \in Nat /\ WordAt(a) \in Bytes(4)
      BY <1>2, <2>2
    <3>2. value' \in Bytes(4)
      BY <1>5, <2>2, <3>1, ReverseType DEF memory_read_word
    <3>. QED
      BY <1>5, <2>2, <3>1, <3>2, AccessInv DEF memory_read_word
  <2>. QED
    BY <2>1, <2>2
<1>6. ASSUME NEW a \in Addresses, NEW v \in Bytes(1), memory_write_byte(a, v)
      PROVE  Inv'
  <2>1. CASE OutOfRange(a)
    BY <1>6, <2>1, FailsInv DEF memory_write_byte
  <2>2. CASE ~OutOfRange(a)
    <3>1. a \in Nat /\ a % 1 = 0 /\ WordAt(a) \in Bytes(4) /\ (a % 4) + 1 <= 4
      BY <1>2, <2>2, LaneRange
    <3>2. SetLanes(WordAt(a), a % 4, 1, v) \in Bytes(4)
      BY <1>6, <3>1, LanesType, LaneRange
    <3>. QED
      BY <1>6, <2>2, <3>1, <3>2, AccessInv DEF memory_write_byte
  <2>. QED
    BY <2>1, <2>2
<1>7. ASSUME NEW a \in Addresses, NEW v \in Bytes(2), memory_write_half(a, v)
      PROVE  Inv'
  <2>1. CASE OutOfRange(a) \/ a % 2 # 0
    BY <1>7, <2>1, FailsInv DEF memory_write_half
  <2>2. CASE ~OutOfRange(a) /\ a % 2 = 0
    <3> DEFINE half == IF big_endian THEN reverse_2(v) ELSE v
    <3>1. a \in Nat /\ WordAt(a) \in Bytes(4) /\ (a % 4) + 2 <= 4
      BY <1>2, <2>2, LaneRange
    <3>2. SetLanes(WordAt(a), a % 4, 2, half) \in Bytes(4)
      BY <1>7, <3>1, LanesType, LaneRange, ReverseType
    <3>. QED
      BY <1>7, <2>2, <3>1, <3>2, AccessInv DEF memory_write_half
  <2>. QED
    BY <2>1, <2>2
<1>8. ASSUME NEW a \in Addresses, NEW v \in Bytes(4), memory_write_word(a, v)
      PROVE  Inv'
  <2>1. CASE OutOfRange(a) \/ a % 4 # 0
    BY <1>8, <2>1, FailsInv DEF memory_write_word
  <2>2. CASE ~OutOfRange(a) /\ a % 4 = 0
    <3>1. a \in Nat /\ (IF big_endian THEN reverse_4(v) ELSE v) \in Bytes(4)
      BY <1>2, <2>2, ReverseType
    <3>. QED
      BY <1>8, <2>2, <3>1, AccessInv DEF memory_write_word
  <2>. QED
    BY <2>1, <2>2
<1>9. CASE Undefined
  BY <1>1, <1>9 DEF Undefined
<1>. QED
  BY <1>1, <1>3, <1>4, <1>5, <1>6, <1>7, <1>8, <1>9 DEF Next

\* The memory keeps its type, and no call leaves the words malloc returned,
\* whatever the size: the check on the first byte's address, the alignment and
\* the extra word of memory_create are enough.  Only the descriptor may be
\* left, by memory_create, and is not where its block has room for its fields.
THEOREM MemoryStaysInBounds == Spec => [](TypeOK /\ NoOverrun)
<1>1. Inv <=> TypeOK /\ NoOverrun
  BY DEF Inv
<1>. QED
  BY <1>1, InitInv, NextInv, PTL DEF Spec

-----------------------------------------------------------------------------
Top == 4 * WordCount - 1

\* Byte i of an access at a lies in the word of a, i bytes above the byte of a.
LEMMA LaneOfByte ==
  ASSUME NEW a \in Nat, NEW i \in 0..3, (a % 4) + i <= 3
  PROVE  (a + i) \div 4 = a \div 4 /\ (a + i) % 4 = (a % 4) + i
BY Z3

\* An allowed access covers allocated bytes only.
LEMMA AccessCovered ==
  ASSUME NEW a \in Nat, NEW n \in {1, 2, 4}, ~OutOfRange(a), a % n = 0
  PROVE  /\ a \div 4 \in 0..(WordCount - 1)
         /\ (a % 4) + n <= 4
         /\ a..(a + n - 1) \subseteq 0..Top
<1>1. (a % 4) + n <= 4 /\ a % 4 \in 0..3
  BY LaneRange
<1>2. a \div 4 \in 0..(WordCount - 1)
  BY WordAllocated, SizeAssumption DEF OutOfRange
<1>. QED
  BY <1>1, <1>2, SizeAssumption DEF Top, WordCount

\* Reading lanes of a word reads the bytes at the addresses of the access.
LEMMA LanesAreBytes ==
  ASSUME TypeOK, NEW a \in Nat, NEW n \in {1, 2, 4}, ~OutOfRange(a), a % n = 0
  PROVE  GetLanes(WordAt(a), a % 4, n) = [i \in 0..(n - 1) |-> ByteView[a + i]]
<1>1. \A i \in 0..(n - 1) :
        /\ a + i \in 0..Top
        /\ (a + i) \div 4 = a \div 4
        /\ (a + i) % 4 = (a % 4) + i
  <2>1. (a % 4) + n <= 4 /\ a..(a + n - 1) \subseteq 0..Top
    BY AccessCovered
  <2> TAKE i \in 0..(n - 1)
  <2>2. i \in 0..3 /\ (a % 4) + i <= 3 /\ a + i \in a..(a + n - 1)
    BY <2>1
  <2>. QED
    BY <2>1, <2>2, LaneOfByte
<1>2. \A i \in 0..(n - 1) : ByteView[a + i] = WordAt(a)[(a % 4) + i]
  BY <1>1, WordThere DEF ByteView, Top
<1>. QED
  BY <1>2 DEF GetLanes

\* Replacing lanes of a word replaces the bytes at the addresses of the access.
LEMMA UpdateIsBytes ==
  ASSUME TypeOK, NEW a \in Nat, NEW n \in {1, 2, 4}, ~OutOfRange(a), a % n = 0,
         NEW v \in Bytes(n), Update(a, SetLanes(WordAt(a), a % 4, n, v))
  PROVE  ByteView' = [x \in 0..Top |-> IF x \in a..(a + n - 1) THEN v[x - a]
                                       ELSE ByteView[x]]
<1> DEFINE w == SetLanes(WordAt(a), a % 4, n, v)
<1>1. (a % 4) + n <= 4 /\ a % 4 \in 0..3 /\ a \div 4 \in 0..(WordCount - 1)
  BY AccessCovered, LaneRange
<1>2. \A x \in 0..Top : data'[x \div 4][x % 4] =
        IF x \in a..(a + n - 1) THEN v[x - a] ELSE data[x \div 4][x % 4]
  <2> SUFFICES ASSUME NEW x \in 0..Top
               PROVE  data'[x \div 4][x % 4] =
                        IF x \in a..(a + n - 1) THEN v[x - a]
                        ELSE data[x \div 4][x % 4]
    OBVIOUS
  <2>1. x \in Nat /\ x % 4 \in 0..3 /\ x \div 4 \in 0..(WordCount - 1)
    BY SizeAssumption DEF Top, WordCount
  <2>2. data'[x \div 4] = IF x \div 4 = a \div 4 THEN w ELSE data[x \div 4]
    BY <1>1, <2>1 DEF Update, TypeOK
  <2>3. x \in a..(a + n - 1)
          <=> x \div 4 = a \div 4 /\ x % 4 \in (a % 4)..((a % 4) + n - 1)
    BY <1>1, <2>1
  <2>4. x \div 4 = a \div 4 => (x % 4) - (a % 4) = x - a
    BY <2>1
  <2>5. w[x % 4] = IF x % 4 \in (a % 4)..((a % 4) + n - 1) THEN v[(x % 4) - (a % 4)]
                   ELSE WordAt(a)[x % 4]
    BY <2>1 DEF SetLanes
  <2>. QED
    BY <2>2, <2>3, <2>4, <2>5, WordThere
<1>. QED
  BY <1>2 DEF ByteView, Top

\* An access the memory refuses is refused by the byte array, and only that.
LEMMA SameRefusals ==
  ASSUME NEW a \in Nat, NEW n
  PROVE  AsBytes!Allowed(a, n) <=> (~OutOfRange(a) /\ a % n = 0)
BY SizeAssumption DEF AsBytes!Allowed, OutOfRange

\* The value as the byte array orders it: reversed when big endian.
Ordered(v, n) == IF big_endian THEN [i \in 0..(n - 1) |-> v[n - 1 - i]] ELSE v

\* Ordering the bytes of an access is their reversal or nothing.
LEMMA OrderedIsReverse ==
  /\ \A v \in Bytes(1) : Ordered(v, 1) = v
  /\ \A v \in Bytes(2) : Ordered(v, 2) = IF big_endian THEN reverse_2(v) ELSE v
  /\ \A v \in Bytes(4) : Ordered(v, 4) = IF big_endian THEN reverse_4(v) ELSE v
BY DEF Ordered, Bytes, reverse_2, reverse_4

\* A read of n bytes implements the byte array's read.
LEMMA ReadMaps ==
  ASSUME TypeOK, NEW a \in Nat, NEW n \in {1, 2, 4}, ~OutOfRange(a), a % n = 0,
         value' = Ordered(GetLanes(WordAt(a), a % 4, n), n),
         Touches(a), UNCHANGED data
  PROVE  AsBytes!ARead(a, n)
<1>1. GetLanes(WordAt(a), a % 4, n) = [i \in 0..(n - 1) |-> ByteView[a + i]]
  BY LanesAreBytes
<1>2. ASSUME big_endian
      PROVE  value' = [i \in 0..(n - 1) |-> ByteView[a + (n - 1) - i]]
  BY <1>1, <1>2 DEF Ordered
<1>3. ASSUME ~big_endian
      PROVE  value' = [i \in 0..(n - 1) |-> ByteView[a + i]]
  BY <1>1, <1>3 DEF Ordered
<1>4. value' = [i \in 0..(n - 1) |-> ByteView[AsBytes!AddressOf(a, n, i)]]
  BY <1>2, <1>3 DEF AsBytes!AddressOf
<1>. QED
  BY <1>4, SameRefusals DEF AsBytes!ARead, Touches, SUCCESS, ByteView

\* A write of n bytes implements the byte array's write.
LEMMA WriteMaps ==
  ASSUME TypeOK, NEW a \in Nat, NEW n \in {1, 2, 4}, ~OutOfRange(a), a % n = 0,
         NEW v \in Bytes(n),
         Update(a, SetLanes(WordAt(a), a % 4, n, Ordered(v, n))),
         Touches(a), UNCHANGED value
  PROVE  AsBytes!AWrite(a, n, v)
<1>1. Ordered(v, n) \in Bytes(n)
  BY DEF Ordered, Bytes
<1>2. ByteView' = [x \in 0..Top |-> IF x \in a..(a + n - 1) THEN Ordered(v, n)[x - a]
                                    ELSE ByteView[x]]
  BY <1>1, UpdateIsBytes
<1>3. ASSUME NEW x \in a..(a + n - 1)
      PROVE  Ordered(v, n)[x - a] = AsBytes!ByteFor(v, a, n, x)
  <2>1. x - a \in 0..(n - 1) /\ n - 1 - (x - a) = a + (n - 1) - x
    OBVIOUS
  <2>. QED
    BY <2>1 DEF Ordered, AsBytes!ByteFor
<1>4. ByteView' = [x \in 0..Top |-> IF x \in a..(a + n - 1)
                                    THEN AsBytes!ByteFor(v, a, n, x)
                                    ELSE ByteView[x]]
  BY <1>2, <1>3
<1>. QED
  BY <1>4, SameRefusals DEF AsBytes!AWrite, Touches, SUCCESS, Top

\* A refused access implements a refused access of the byte array.
LEMMA FailMaps ==
  ASSUME NEW a \in Nat, NEW n, OutOfRange(a) \/ a % n # 0, Fails
  PROVE  AsBytes!ARead(a, n) /\ \A v : AsBytes!AWrite(a, n, v)
<1>1. ByteView' = ByteView /\ ret' = -1
  BY DEF Fails, ByteView, FAILURE
<1>. QED
  BY <1>1, SameRefusals DEF AsBytes!ARead, AsBytes!AWrite, Fails

\* Replacing a whole word is replacing its four bytes.
LEMMA WholeWord ==
  ASSUME NEW w \in Bytes(4), NEW v \in Bytes(4)
  PROVE  GetLanes(w, 0, 4) = w /\ SetLanes(w, 0, 4, v) = v
BY DEF GetLanes, SetLanes, Bytes

\* The words of memory.c implement an array of bytes in both endiannesses, for
\* every size: all six functions agree on where a byte is, so that what one
\* writes the others read.
THEOREM WordsImplementBytes == Spec => ByteAddressing
<1>1. Init => AsBytes!AInit
  <2> SUFFICES ASSUME Init PROVE AsBytes!AInit
    OBVIOUS
  <2>1. \A x \in 0..Top : x \div 4 \in 0..(WordCount - 1) /\ x % 4 \in 0..3
    BY SizeAssumption DEF Top, WordCount
  <2>2. ByteView \in [0..Top -> Byte]
    BY <2>1 DEF Init, memory_create, ByteView, Top, Bytes
  <2>. QED
    BY <2>2 DEF Init, memory_create, AsBytes!AInit, AsBytes!Values, Bytes, SUCCESS, Top
<1>2. TypeOK /\ [Next]_mvars => [AsBytes!ANext]_(AsBytes!avars)
  <2> SUFFICES ASSUME TypeOK, [Next]_mvars PROVE [AsBytes!ANext]_(AsBytes!avars)
    OBVIOUS
  <2> DEFINE Goal == AsBytes!ANext
  <2>1. ASSUME NEW a \in Addresses, ~OutOfRange(a)
        PROVE  a \in Nat /\ a % 1 = 0 /\ WordAt(a) \in Bytes(4)
    BY <2>1, AddressAssumption, WordThere
  <2>2. \A a \in Addresses, n \in {1, 2, 4} : AsBytes!ARead(a, n) => Goal
    BY DEF AsBytes!ANext, AsBytes!Widths
  <2>3. \A a \in Addresses, n \in {1, 2, 4} : \A v \in Written \cap Bytes(n) :
          AsBytes!AWrite(a, n, v) => Goal
    BY DEF AsBytes!ANext, AsBytes!Widths, AsBytes!Values, Bytes
  <2>4. ASSUME NEW a \in Addresses, memory_read_byte(a) PROVE Goal
    <3>1. CASE OutOfRange(a)
      BY <2>2, <2>4, <3>1, FailMaps, AddressAssumption DEF memory_read_byte
    <3>2. CASE ~OutOfRange(a)
      <4>1. GetLanes(WordAt(a), a % 4, 1) \in Bytes(1)
        BY <2>1, <3>2, LanesType, LaneRange
      <4>. QED
        BY <2>1, <2>2, <2>4, <3>2, <4>1, OrderedIsReverse, ReadMaps
        DEF memory_read_byte
    <3>. QED
      BY <3>1, <3>2
  <2>5. ASSUME NEW a \in Addresses, memory_read_half(a) PROVE Goal
    <3>1. CASE OutOfRange(a) \/ a % 2 # 0
      BY <2>2, <2>5, <3>1, FailMaps, AddressAssumption DEF memory_read_half
    <3>2. CASE ~OutOfRange(a) /\ a % 2 = 0
      <4>1. GetLanes(WordAt(a), a % 4, 2) \in Bytes(2)
        BY <2>1, <3>2, LanesType, LaneRange
      <4>. QED
        BY <2>1, <2>2, <2>5, <3>2, <4>1, OrderedIsReverse, ReadMaps
        DEF memory_read_half
    <3>. QED
      BY <3>1, <3>2
  <2>6. ASSUME NEW a \in Addresses, memory_read_word(a) PROVE Goal
    <3>1. CASE OutOfRange(a) \/ a % 4 # 0
      BY <2>2, <2>6, <3>1, FailMaps, AddressAssumption DEF memory_read_word
    <3>2. CASE ~OutOfRange(a) /\ a % 4 = 0
      <4>1. GetLanes(WordAt(a), a % 4, 4) = WordAt(a)
        BY <2>1, <3>2, WholeWord
      <4>. QED
        BY <2>1, <2>2, <2>6, <3>2, <4>1, OrderedIsReverse, ReadMaps
        DEF memory_read_word
    <3>. QED
      BY <3>1, <3>2
  <2>7. ASSUME NEW a \in Addresses, NEW v \in Written \cap Bytes(1),
               memory_write_byte(a, v)
        PROVE  Goal
    <3>1. CASE OutOfRange(a)
      BY <2>3, <2>7, <3>1, FailMaps, AddressAssumption DEF memory_write_byte
    <3>2. CASE ~OutOfRange(a)
      BY <2>1, <2>3, <2>7, <3>2, OrderedIsReverse, WriteMaps DEF memory_write_byte
    <3>. QED
      BY <3>1, <3>2
  <2>8. ASSUME NEW a \in Addresses, NEW v \in Written \cap Bytes(2),
               memory_write_half(a, v)
        PROVE  Goal
    <3>1. CASE OutOfRange(a) \/ a % 2 # 0
      BY <2>3, <2>8, <3>1, FailMaps, AddressAssumption DEF memory_write_half
    <3>2. CASE ~OutOfRange(a) /\ a % 2 = 0
      BY <2>1, <2>3, <2>8, <3>2, OrderedIsReverse, WriteMaps DEF memory_write_half
    <3>. QED
      BY <3>1, <3>2
  <2>9. ASSUME NEW a \in Addresses, NEW v \in Written \cap Bytes(4),
               memory_write_word(a, v)
        PROVE  Goal
    <3>1. CASE OutOfRange(a) \/ a % 4 # 0
      BY <2>3, <2>9, <3>1, FailMaps, AddressAssumption DEF memory_write_word
    <3>2. CASE ~OutOfRange(a) /\ a % 4 = 0
      <4>1. Update(a, SetLanes(WordAt(a), a % 4, 4, Ordered(v, 4)))
        BY <2>1, <2>9, <3>2, OrderedIsReverse, ReverseType, WholeWord
        DEF memory_write_word
      <4>. QED
        BY <2>1, <2>3, <2>9, <3>2, <4>1, WriteMaps DEF memory_write_word
    <3>. QED
      BY <3>1, <3>2
  <2>10. CASE UNCHANGED mvars
    BY <2>10 DEF mvars, AsBytes!avars, ByteView
  <2>11. CASE Undefined
    BY <2>10, <2>11 DEF Undefined
  <2>. QED
    BY <2>4, <2>5, <2>6, <2>7, <2>8, <2>9, <2>10, <2>11 DEF Next
<1>3. Spec => []TypeOK
  BY MemoryStaysInBounds, PTL
<1>. QED
  BY <1>1, <1>2, <1>3, PTL DEF Spec, ByteAddressing, AsBytes!ASpec
=============================================================================
