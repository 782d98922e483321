----------------------------- MODULE ByteMemory -----------------------------
(* What the memory promises: an array of bytes, read and written one, two or *)
(* four at a time at aligned addresses, most significant byte first when it  *)
(* is big endian.  An access out of range or not aligned fails and leaves    *)
(* the memory and the caller's variable as they were.                        *)
EXTENDS Integers

CONSTANTS Size,         \* the number of bytes asked for
          Capacity,     \* the number of bytes there are
          Byte,
          Addresses,    \* the addresses clients use
          Written       \* the values they write

VARIABLES bytes, big_endian, value, ret

avars == <<bytes, big_endian, value, ret>>

Widths == {1, 2, 4}

\* A value of n bytes: byte 0 is the least significant one.
Values(n) == [0..(n - 1) -> Byte]

Allowed(a, n) == a < Size /\ a % n = 0

\* The address of byte i of an n-byte value that starts at address a.
AddressOf(a, n, i) == IF big_endian THEN a + (n - 1) - i ELSE a + i

\* The byte of value v, written at a, that goes to address x.
ByteFor(v, a, n, x) == IF big_endian THEN v[a + (n - 1) - x] ELSE v[x - a]

AInit == /\ bytes \in [0..(Capacity - 1) -> Byte]
         /\ big_endian \in BOOLEAN
         /\ value \in Values(1)
         /\ ret = 0

ARead(a, n) == /\ IF Allowed(a, n)
                  THEN /\ value' = [i \in 0..(n - 1) |-> bytes[AddressOf(a, n, i)]]
                       /\ ret' = 0
                  ELSE value' = value /\ ret' = -1
               /\ UNCHANGED <<bytes, big_endian>>

AWrite(a, n, v) == /\ IF Allowed(a, n)
                      THEN /\ bytes' = [x \in 0..(Capacity - 1) |->
                                          IF x \in a..(a + n - 1)
                                          THEN ByteFor(v, a, n, x)
                                          ELSE bytes[x]]
                           /\ ret' = 0
                      ELSE bytes' = bytes /\ ret' = -1
                   /\ UNCHANGED <<big_endian, value>>

ANext == \E a \in Addresses, n \in Widths :
           \/ ARead(a, n)
           \/ \E v \in Written \cap Values(n) : AWrite(a, n, v)

ASpec == AInit /\ [][ANext]_avars
=============================================================================
