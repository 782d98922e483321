-------------------------------- MODULE Words --------------------------------
(* The integers of C that stand for bits: powers of two, the bits of a number, *)
(* and the operators &, | and ^ on words of w bits.  They are functions that   *)
(* recur on the bits, which proofs can follow.                                 *)
EXTENDS Integers

\* 2^n.
Power[n \in Nat] == IF n = 0 THEN 1 ELSE 2 * Power[n - 1]

Bit(x, i) == (x \div Power[i]) % 2

\* The word whose w bits are bits[0], bits[1], ...
Number(bits, w) ==
  LET Low[n \in 0..w] == IF n = 0 THEN 0 ELSE Low[n - 1] + bits[n - 1] * Power[n - 1]
  IN  Low[w]

And(x, y, w) == Number([i \in 0..(w - 1) |-> Bit(x, i) * Bit(y, i)], w)

Or(x, y, w) == Number([i \in 0..(w - 1) |-> IF Bit(x, i) + Bit(y, i) > 0 THEN 1 ELSE 0], w)

Xor(x, y, w) == Number([i \in 0..(w - 1) |-> (Bit(x, i) + Bit(y, i)) % 2], w)
=============================================================================
