------------------------------ MODULE MCMemory ------------------------------
(* Six bytes, so that the last word is half used, and addresses up to two    *)
(* beyond the last allocated byte.  For a pointer's size malloc gives that,   *)
(* by C's promise, or room for three, as the smallest block of the GNU        *)
(* library has.                                                              *)
EXTENDS Memory

CONSTANTS b0, b1

MCByte == {b0, b1}

MCAddresses == {0, 1, 2, 3, 4, 5, 6, 8}

\* Every byte, and values whose bytes differ.  The other contents come from the
\* initial states, which have any.
MCWritten == [{0} -> MCByte]
             \union {[i \in 0..1 |-> IF i = 0 THEN b0 ELSE b1]}
             \union {[i \in 0..3 |-> IF i = 0 THEN b0 ELSE b1],
                     [i \in 0..3 |-> IF i > 1 THEN b0 ELSE b1]}
=============================================================================
