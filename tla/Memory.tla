------------------------------- MODULE Memory -------------------------------
(* memory.c: the simulated memory, an array of 32-bit words in host order.   *)
(* A word is its four bytes, byte 0 in bits 7..0: taking or replacing a byte *)
(* or a half of a word (get_bits, set_bits) selects bytes of it.  BitFields  *)
(* checks that the macros do so.                                             *)
EXTENDS Integers

CONSTANTS Size,         \* memory_create's argument, in bytes
          Byte,         \* the values of a byte
          Addresses,    \* the addresses clients use
          Written,      \* the bytes, halves and words they write
          Blocks        \* what malloc may give for the size of a pointer, in pointers

ASSUME SizeAssumption == Size \in Nat \ {0}
ASSUME AddressAssumption == Addresses \subseteq Nat
ASSUME ByteAssumption == Byte # {}
ASSUME BlockAssumption == Blocks \subseteq Nat \ {0}

VARIABLES block,        \* the size of the descriptor's block, in pointers
          data,         \* the words
          big_endian,   \* the endianness given at creation
          value,        \* the caller's variable that reads fill
          ret,          \* what the last call returned
          overrun       \* a call accessed what was not allocated

mvars == <<block, data, big_endian, value, ret, overrun>>

SUCCESS == 0
FAILURE == -1

\* Mutant: the size rounded down to whole words.
WordCount_truncated == Size \div 4

\* The number of words allocated: one more when the size is not a multiple of 4.
WordCount == Size \div 4 + (IF Size % 4 > 0 THEN 1 ELSE 0)

\* The least n bytes of a value.
Bytes(n) == [0..(n - 1) -> Byte]

reverse_2(h) == [i \in 0..1 |-> h[1 - i]]

reverse_4(w) == [i \in 0..3 |-> w[3 - i]]

\* The n bytes of word w from byte lane up, and w with these bytes replaced.
GetLanes(w, lane, n) == [i \in 0..(n - 1) |-> w[lane + i]]
SetLanes(w, lane, n, v) ==
  [i \in 0..3 |-> IF i \in lane..(lane + n - 1) THEN v[i - lane] ELSE w[i]]

\* struct memory_data, in pointers: size, is_big_endian and data.
Fields == 3

\* The word that holds the address.  NoOverrun says that it was allocated.
WordAt(address) == IF address \div 4 \in DOMAIN data THEN data[address \div 4]
                   ELSE CHOOSE word \in Bytes(4) : TRUE

OutOfRange(address) == address >= Size

\* malloc leaves the words as it found them.  It is asked for the size of the
\* pointer that memory is, and the fields are written to what it gives.
memory_create == /\ block \in Blocks
                 /\ data \in [0..(WordCount - 1) -> Bytes(4)]
                 /\ big_endian \in BOOLEAN
                 /\ overrun = (Fields > block)

Init == /\ memory_create
        /\ value \in Bytes(1)
        /\ ret = SUCCESS

\* A failing call returns before it touches the memory or the caller's variable.
Fails == /\ ret' = FAILURE
         /\ UNCHANGED <<block, data, big_endian, value, overrun>>

\* A successful call accesses the word that holds the address.
Touches(address) == /\ ret' = SUCCESS
                    /\ overrun' = (address \div 4 \notin DOMAIN data)
                    /\ UNCHANGED <<block, big_endian>>

Update(address, word) == data' = [data EXCEPT ![address \div 4] = word]

memory_read_byte(address) ==
  \/ OutOfRange(address) /\ Fails
  \/ /\ ~OutOfRange(address)
     /\ value' = GetLanes(WordAt(address), address % 4, 1)
     /\ Touches(address)
     /\ UNCHANGED data

memory_read_half(address) ==
  \/ (OutOfRange(address) \/ address % 2 # 0) /\ Fails
  \/ /\ ~OutOfRange(address) /\ address % 2 = 0
     /\ LET half == GetLanes(WordAt(address), address % 4, 2)
        IN  value' = IF big_endian THEN reverse_2(half) ELSE half
     /\ Touches(address)
     /\ UNCHANGED data

memory_read_word(address) ==
  \/ (OutOfRange(address) \/ address % 4 # 0) /\ Fails
  \/ /\ ~OutOfRange(address) /\ address % 4 = 0
     /\ LET word == WordAt(address)
        IN  value' = IF big_endian THEN reverse_4(word) ELSE word
     /\ Touches(address)
     /\ UNCHANGED data

memory_write_byte(address, v) ==
  \/ OutOfRange(address) /\ Fails
  \/ /\ ~OutOfRange(address)
     /\ Update(address, SetLanes(WordAt(address), address % 4, 1, v))
     /\ Touches(address)
     /\ UNCHANGED value

\* Mutant: a half is stored in host order whatever the endianness.
memory_write_half_unswapped(address, v) ==
  \/ (OutOfRange(address) \/ address % 2 # 0) /\ Fails
  \/ /\ ~OutOfRange(address) /\ address % 2 = 0
     /\ Update(address, SetLanes(WordAt(address), address % 4, 2, v))
     /\ Touches(address)
     /\ UNCHANGED value

memory_write_half(address, v) ==
  \/ (OutOfRange(address) \/ address % 2 # 0) /\ Fails
  \/ /\ ~OutOfRange(address) /\ address % 2 = 0
     /\ LET half == IF big_endian THEN reverse_2(v) ELSE v
        IN  Update(address, SetLanes(WordAt(address), address % 4, 2, half))
     /\ Touches(address)
     /\ UNCHANGED value

memory_write_word(address, v) ==
  \/ (OutOfRange(address) \/ address % 4 # 0) /\ Fails
  \/ /\ ~OutOfRange(address) /\ address % 4 = 0
     /\ Update(address, IF big_endian THEN reverse_4(v) ELSE v)
     /\ Touches(address)
     /\ UNCHANGED value

\* What follows an overrun is undefined, and is not followed.
Undefined == overrun /\ UNCHANGED mvars

Next == \/ Undefined
        \/ /\ ~overrun
           /\ \E address \in Addresses :
                \/ memory_read_byte(address)
                \/ memory_read_half(address)
                \/ memory_read_word(address)
                \/ \E v \in Written \cap Bytes(1) : memory_write_byte(address, v)
                \/ \E v \in Written \cap Bytes(2) : memory_write_half(address, v)
                \/ \E v \in Written \cap Bytes(4) : memory_write_word(address, v)

Spec == Init /\ [][Next]_mvars

-----------------------------------------------------------------------------
TypeOK == /\ block \in Blocks
          /\ data \in [0..(WordCount - 1) -> Bytes(4)]
          /\ big_endian \in BOOLEAN
          /\ value \in Bytes(1) \union Bytes(2) \union Bytes(4)
          /\ ret \in {SUCCESS, FAILURE}

\* No access leaves what was allocated, but those of memory_create to its
\* descriptor where malloc gives no more than the pointer it is asked for.  The
\* words are never left, though only the first byte's address is compared with
\* the size, which need not be a multiple of four (memory_create, the accesses).
NoOverrun == overrun => block < Fields

ByteView == [a \in 0..(4 * WordCount - 1) |-> data[a \div 4][a % 4]]

AsBytes == INSTANCE ByteMemory WITH
  Capacity <- 4 * WordCount, bytes <- ByteView

\* The words behave as one array of bytes: a byte, a half and a word written in
\* either endianness are read back by accesses of every width as the endianness
\* orders them, the neighbouring bytes keep their values, and an access out of
\* range or not aligned fails without effect.
ByteAddressing == AsBytes!ASpec
=============================================================================
