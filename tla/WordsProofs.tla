----------------------------- MODULE WordsProofs -----------------------------
(* Induction and recursion on the naturals, as facts about sets and functions, *)
(* and the arithmetic of the operators of Words, for words of any width.       *)
EXTENDS Words, WellFoundedInduction, TLAPS

\* A set of naturals that is not empty has a least element.
LEMMA Least ==
  ASSUME NEW T \in SUBSET Nat, T # {}
  PROVE  \E x \in T : \A y \in T : x <= y
<1>1. \A x, y \in Nat : y < x => <<y, x>> \in OpToRel(<,Nat)
  BY DEF OpToRel
<1>2. \E R : IsWellFoundedOn(R, Nat) /\ \A x, y \in Nat : y < x => <<y, x>> \in R
  <2>. WITNESS OpToRel(<,Nat)
  <2>. QED
    BY <1>1, NatLessThanWellFounded, Zenon
<1>3. PICK R : IsWellFoundedOn(R, Nat) /\ \A x, y \in Nat : y < x => <<y, x>> \in R
  BY <1>2
<1>4. PICK x \in T : \A y \in T : ~(<<y, x>> \in R)
  BY <1>3, WFMin
<1>5. \A y \in T : ~(y < x)
  BY <1>3, <1>4, Zenon
<1>6. \A y \in T : x <= y
  BY <1>5
<1>. QED
  BY <1>6

\* Induction, as a fact about sets.
LEMMA Induction ==
  ASSUME NEW T \in SUBSET Nat, 0 \in T, \A n \in T : n + 1 \in T
  PROVE  \A n \in Nat : n \in T
<1>. SUFFICES ASSUME Nat \ T # {} PROVE FALSE
  OBVIOUS
<1>1. PICK x \in Nat \ T : \A y \in Nat \ T : x <= y
  BY Least
<1>2. x - 1 \in Nat /\ x - 1 + 1 = x
  BY <1>1
<1>. QED
  BY <1>1, <1>2

\* A function given by its first value and the step from each to the next.
Iterates(g, n, a, G) == \A i \in 1 .. n : g[i] = IF i = 1 THEN a ELSE G[i][g[i - 1]]

\* Such a function exists, for any first value and steps.
LEMMA Recursion ==
  ASSUME NEW S, NEW n \in Nat, NEW a \in S, NEW G \in [1 .. n -> [S -> S]]
  PROVE  \E g \in [1 .. n -> S] : Iterates(g, n, a, G)
<1>. DEFINE Upto(k) == \E g \in [1 .. k -> S] :
                         \A i \in 1 .. k : g[i] = IF i = 1 THEN a ELSE G[i][g[i - 1]]
            T == {k \in Nat : k <= n => Upto(k)}
<1>1. 0 \in T
  <2>. DEFINE g == [i \in 1 .. 0 |-> a]
  <2>1. g \in [1 .. 0 -> S] /\ \A i \in 1 .. 0 : g[i] = IF i = 1 THEN a ELSE G[i][g[i - 1]]
    OBVIOUS
  <2>2. Upto(0)
    BY <2>1
  <2>. QED
    BY <2>2
<1>2. ASSUME NEW k \in T PROVE k + 1 \in T
  <2>. SUFFICES ASSUME k + 1 <= n PROVE Upto(k + 1)
    OBVIOUS
  <2>1. PICK g \in [1 .. k -> S] : \A i \in 1 .. k : g[i] = IF i = 1 THEN a ELSE G[i][g[i - 1]]
    OBVIOUS
  <2>2. PICK x \in S : x = IF k = 0 THEN a ELSE G[k + 1][g[k]]
    <3>1. k # 0 => g[k] \in S /\ k + 1 \in 1 .. n
      OBVIOUS
    <3>. QED
      BY <3>1
  <2>. DEFINE h == [i \in 1 .. k + 1 |-> IF i = k + 1 THEN x ELSE g[i]]
  <2>3. h \in [1 .. k + 1 -> S]
    OBVIOUS
  <2>4. ASSUME NEW i \in 1 .. k + 1 PROVE h[i] = IF i = 1 THEN a ELSE G[i][h[i - 1]]
    <3>1. CASE i = k + 1
      BY <2>2, <3>1
    <3>2. CASE i \in 1 .. k
      BY <2>1, <3>2
    <3>. QED
      BY <3>1, <3>2
  <2>. QED
    BY <2>3, <2>4
<1>. HIDE DEF Upto
<1>3. n \in T
  <2>. HIDE DEF T
  <2>1. T \in SUBSET Nat
    BY DEF T
  <2>. QED
    BY <1>1, <1>2, <2>1, Induction
<1>4. Upto(n)
  BY <1>3
<1>. QED
  BY <1>4 DEF Upto, Iterates

\* Induction in an interval.
LEMMA UpTo ==
  ASSUME NEW m \in Int, NEW n \in Int, NEW T, m \in T,
         \A k \in m .. (n - 1) : k \in T => k + 1 \in T
  PROVE  \A k \in m .. n : k \in T
<1>. DEFINE D == {d \in Nat : m + d <= n => m + d \in T}
<1>1. 0 \in D
  BY m + 0 = m
<1>2. ASSUME NEW d \in D PROVE d + 1 \in D
  <2>1. PICK k \in Int : k = m + d /\ k + 1 = m + (d + 1)
    OBVIOUS
  <2>. QED
    BY <2>1
<1>3. \A d \in Nat : d \in D
  <2>. HIDE DEF D
  <2>1. D \in SUBSET Nat
    BY DEF D
  <2>. QED
    BY <1>1, <1>2, <2>1, Induction
<1>. SUFFICES ASSUME NEW k \in m .. n PROVE k \in T
  OBVIOUS
<1>4. k - m \in Nat /\ m + (k - m) = k /\ k <= n
  OBVIOUS
<1>5. k - m \in D
  BY <1>3, <1>4
<1>. QED
  BY <1>4, <1>5

-----------------------------------------------------------------------------

\* A function on the naturals that doubles at each step exists.
LEMMA PowersExist == \E f : f = [n \in Nat |-> IF n = 0 THEN 1 ELSE 2 * f[n - 1]]
<1>. DEFINE G(n) == [i \in 1 .. n |-> [x \in Nat |-> 2 * x]]
            Steps(g, n) == \A i \in 1 .. n : g[i] = IF i = 1 THEN 1 ELSE 2 * g[i - 1]
            g(n) == CHOOSE g \in [1 .. n -> Nat] : Steps(g, n)
            f == [n \in Nat |-> g(n + 1)[n + 1]]
<1>1. ASSUME NEW n \in Nat PROVE \E h \in [1 .. n -> Nat] : Steps(h, n)
  <2>1. G(n) \in [1 .. n -> [Nat -> Nat]]
    OBVIOUS
  <2>2. PICK h \in [1 .. n -> Nat] : Iterates(h, n, 1, G(n))
    <3>. HIDE DEF G
    <3>. QED
      BY <2>1, Recursion
  <2>3. ASSUME NEW i \in 1 .. n PROVE h[i] = IF i = 1 THEN 1 ELSE 2 * h[i - 1]
    <3>1. h[i] = IF i = 1 THEN 1 ELSE G(n)[i][h[i - 1]]
      BY <2>2 DEF Iterates
    <3>2. i # 1 => h[i - 1] \in Nat
      OBVIOUS
    <3>. QED
      BY <3>1, <3>2
  <2>. QED
    BY <2>3
<1>2. ASSUME NEW n \in Nat PROVE g(n) \in [1 .. n -> Nat] /\ Steps(g(n), n)
  <2>. HIDE DEF Steps
  <2>. QED
    BY <1>1
<1>3. ASSUME NEW n \in Nat PROVE g(n + 1)[n + 1] = IF n = 0 THEN 1 ELSE 2 * g(n)[n]
  <2>. HIDE DEF g
  <2>1. PICK h \in [1 .. n + 1 -> Nat] : h = g(n + 1) /\ Steps(h, n + 1)
    BY <1>2
  <2>2. PICK k \in [1 .. n -> Nat] : k = g(n) /\ Steps(k, n)
    BY <1>2
  <2>3. CASE n = 0
    BY <2>1, <2>3
  <2>4. CASE n # 0
    <3>. DEFINE T == {i \in Nat : i \in 1 .. n => h[i] = k[i]}
    <3>1. 0 \in T
      OBVIOUS
    <3>2. ASSUME NEW i \in T PROVE i + 1 \in T
      <4>. SUFFICES ASSUME i + 1 \in 1 .. n PROVE h[i + 1] = k[i + 1]
        OBVIOUS
      <4>1. i + 1 \in 1 .. n + 1 /\ (i + 1) - 1 = i /\ (i # 0 => i \in 1 .. n) /\ (i + 1 = 1 <=> i = 0)
        OBVIOUS
      <4>2. h[i + 1] = (IF i + 1 = 1 THEN 1 ELSE 2 * h[i]) /\ k[i + 1] = (IF i + 1 = 1 THEN 1 ELSE 2 * k[i])
        BY <2>1, <2>2, <4>1
      <4>3. i # 0 => h[i] = k[i]
        BY <4>1
      <4>. QED
        BY <4>1, <4>2, <4>3
    <3>3. \A i \in Nat : i \in T
      <4>. HIDE DEF T
      <4>1. T \in SUBSET Nat
        BY DEF T
      <4>. QED
        BY <3>1, <3>2, <4>1, Induction
    <3>4. h[n] = k[n]
      BY <2>4, <3>3
    <3>5. h[n + 1] = 2 * h[n]
      BY <2>1, <2>4
    <3>. QED
      BY <2>1, <2>2, <2>4, <3>4, <3>5
  <2>. QED
    BY <2>3, <2>4
<1>4. ASSUME NEW n \in Nat PROVE f[n] = IF n = 0 THEN 1 ELSE 2 * f[n - 1]
  <2>. HIDE DEF g
  <2>1. f[n] = g(n + 1)[n + 1]
    OBVIOUS
  <2>2. n # 0 => f[n - 1] = g(n)[n]
    OBVIOUS
  <2>. QED
    BY <1>3, <2>1, <2>2
<1>5. f = [n \in Nat |-> IF n = 0 THEN 1 ELSE 2 * f[n - 1]]
  <2>. HIDE DEF g
  <2>. QED
    BY <1>4
<1>. HIDE DEF f
<1>. QED
  BY <1>5

\* Powers of two.
LEMMA Powers ==
  /\ Power[0] = 1
  /\ \A n \in Nat : Power[n] \in Nat \ {0} /\ Power[n + 1] = 2 * Power[n]
<1>1. Power = [n \in Nat |-> IF n = 0 THEN 1 ELSE 2 * Power[n - 1]]
  BY PowersExist DEF Power
<1>2. Power[0] = 1
  BY <1>1
<1>3. ASSUME NEW n \in Nat PROVE Power[n + 1] = 2 * Power[n]
  <2>1. n + 1 \in Nat /\ n + 1 # 0 /\ (n + 1) - 1 = n
    OBVIOUS
  <2>. QED
    BY <1>1, <2>1, Zenon
<1>. DEFINE T == {n \in Nat : Power[n] \in Nat \ {0}}
<1>4. \A n \in Nat : n \in T
  <2>1. 0 \in T
    BY <1>2
  <2>2. ASSUME NEW n \in T PROVE n + 1 \in T
    BY <1>3
  <2>. HIDE DEF T
  <2>3. T \in SUBSET Nat
    BY DEF T
  <2>. QED
    BY <2>1, <2>2, <2>3, Induction
<1>. QED
  BY <1>2, <1>3, <1>4

-----------------------------------------------------------------------------
\* Division: what is divided is the quotient times the divisor and the rest.
LEMMA Division ==
  ASSUME NEW x \in Int, NEW d \in Nat \ {0}
  PROVE  /\ x \div d \in Int /\ x % d \in 0 .. d - 1
         /\ x = (x \div d) * d + (x % d)
<1>1. PICK q \in Int : q = x \div d
  OBVIOUS
<1>2. PICK r \in Int : r = x % d
  OBVIOUS
<1>3. x = q * d + r
  BY <1>1, <1>2
<1>4. r \in 0 .. d - 1
  BY <1>2
<1>. QED
  BY <1>1, <1>2, <1>3, <1>4, Zenon

\* And there is one such quotient and rest.
LEMMA Quotient ==
  ASSUME NEW x \in Int, NEW d \in Nat \ {0}, NEW q \in Int, NEW r \in 0 .. d - 1, x = q * d + r
  PROVE  x \div d = q /\ x % d = r
OBVIOUS

\* A number from 0 on has such a quotient.
LEMMA QuotientNat ==
  ASSUME NEW x \in Nat, NEW d \in Nat \ {0}
  PROVE  x \div d \in Nat /\ x \div d <= x
<1>1. PICK q \in Int, r \in 0 .. d - 1 : q = x \div d /\ x = q * d + r
  BY Division
<1>2. q >= 0
  <2>. SUFFICES ASSUME q <= -1 PROVE FALSE
    BY <1>1
  <2>1. q * d <= -d
    OBVIOUS
  <2>. QED
    BY <1>1, <2>1
<1>3. q * d >= q
  BY <1>2
<1>. QED
  BY <1>1, <1>2, <1>3

\* A number below a product has a quotient below the other factor.
LEMMA QuotientBelow ==
  ASSUME NEW d \in Nat \ {0}, NEW e \in Nat, NEW x \in Nat, x < e * d
  PROVE  x \div d \in 0 .. e - 1
<1>1. PICK q \in Int, r \in 0 .. d - 1 : q = x \div d /\ x = q * d + r
  BY Division
<1>2. q \in Nat
  BY <1>1, QuotientNat
<1>3. q < e
  <2>. SUFFICES ASSUME q >= e PROVE FALSE
    BY <1>2
  <2>1. PICK k \in Nat : q = e + k
    <3>1. q - e \in Nat /\ q = e + (q - e)
      BY <1>2
    <3>. QED
      BY <3>1
  <2>2. q * d = e * d + k * d /\ k * d \in Nat
    BY <2>1
  <2>. QED
    BY <1>1, <2>2
<1>. QED
  BY <1>1, <1>2, <1>3

\* Adding multiples of the divisor changes the quotient alone.
LEMMA Multiples ==
  ASSUME NEW x \in Int, NEW d \in Nat \ {0}, NEW k \in Int
  PROVE  (x + k * d) % d = x % d /\ (x + k * d) \div d = x \div d + k
<1>1. PICK q \in Int, r \in 0 .. d - 1 : q = x \div d /\ r = x % d /\ x = q * d + r
  BY Division
<1>2. PICK y \in Int : y = x + k * d
  OBVIOUS
<1>3. y = (q + k) * d + r
  BY <1>1, <1>2
<1>4. y \div d = q + k /\ y % d = r
  BY <1>3, Quotient
<1>. QED
  BY <1>1, <1>2, <1>4

\* To divide by d and by e is to divide by c: q is the first quotient, t the rest for
\* c.  (A predicate, so that the facts about it can be instantiated by the provers.)
DividesTwice(x, d, e, c) ==
  \E q, t \in Int : /\ q = x \div d /\ t = x % c
                    /\ x \div c = q \div e
                    /\ t % d = x % d
                    /\ t \div d = q % e

\* The quotient and the rest for a product, from those for its factors.
LEMMA TwoDivisions ==
  ASSUME NEW x \in Int, NEW d \in Nat \ {0}, NEW e \in Nat \ {0}, NEW c \in Nat \ {0}, c = d * e
  PROVE  DividesTwice(x, d, e, c)
<1>1. PICK q \in Int, r \in 0 .. d - 1 : q = x \div d /\ r = x % d /\ x = q * d + r
  BY Division
<1>2. PICK p \in Int, s \in 0 .. e - 1 : p = q \div e /\ s = q % e /\ q = p * e + s
  BY Division
<1>3. PICK t \in Nat : t = s * d + r
  <2>1. s * d \in Nat
    OBVIOUS
  <2>. QED
    BY <2>1
<1>4. x = p * c + t
  <2>1. q * d = (p * e) * d + s * d
    BY <1>2
  <2>2. (p * e) * d = p * c
    OBVIOUS
  <2>. QED
    BY <1>1, <1>3, <2>1, <2>2
<1>5. t \in 0 .. c - 1
  <2>1. PICK k \in Nat : e = s + 1 + k
    <3>1. e - s - 1 \in Nat /\ e = s + 1 + (e - s - 1)
      OBVIOUS
    <3>. QED
      BY <3>1
  <2>2. d * e = s * d + d + k * d /\ k * d \in Nat
    BY <2>1
  <2>. QED
    BY <1>3, <2>2
<1>6. x \div c = p /\ x % c = t
  BY <1>4, <1>5, Quotient
<1>7. t \div d = s /\ t % d = r
  BY <1>3, Quotient
<1>8. q \div e = p /\ q % e = s
  BY <1>2
<1>. QED
  BY ONLY <1>1, <1>3, <1>6, <1>7, <1>8, q \in Int, t \in Int, Zenon DEF DividesTwice

\* The power of a sum is the product of the powers.
LEMMA PowerOfSum == \A m, n \in Nat : Power[m + n] = Power[m] * Power[n]
<1>. SUFFICES ASSUME NEW m \in Nat PROVE \A n \in Nat : Power[m + n] = Power[m] * Power[n]
  OBVIOUS
<1>. DEFINE T == {n \in Nat : Power[m + n] = Power[m] * Power[n]}
<1>1. 0 \in T
  BY Powers
<1>2. ASSUME NEW n \in T PROVE n + 1 \in T
  <2>1. Power[m + (n + 1)] = 2 * Power[m + n]
    <3>1. m + n \in Nat /\ m + (n + 1) = (m + n) + 1
      OBVIOUS
    <3>. QED
      BY <3>1, Powers
  <2>2. Power[n + 1] = 2 * Power[n]
    BY Powers
  <2>3. PICK p \in Nat, q \in Nat : p = Power[m] /\ q = Power[n]
    BY Powers
  <2>4. Power[m + n] = p * q
    BY <2>3
  <2>. QED
    BY <2>1, <2>2, <2>3, <2>4
<1>3. \A n \in Nat : n \in T
  <2>. HIDE DEF T
  <2>1. T \in SUBSET Nat
    BY DEF T
  <2>. QED
    BY <1>1, <1>2, <2>1, Induction
<1>. QED
  BY <1>3

\* A bit is 0 or 1.
LEMMA BitType == \A x \in Int, i \in Nat : Bit(x, i) \in {0, 1}
<1>. SUFFICES ASSUME NEW x \in Int, NEW i \in Nat PROVE Bit(x, i) \in {0, 1}
  OBVIOUS
<1>1. Power[i] \in Nat \ {0}
  BY Powers
<1>2. x \div Power[i] \in Int
  BY <1>1, Division
<1>. QED
  BY <1>2 DEF Bit

\* The lowest n + 1 bits are the lowest n and bit n.
LEMMA OneMoreBit ==
  ASSUME NEW x \in Int, NEW n \in Nat
  PROVE  x % Power[n + 1] = (x % Power[n]) + Bit(x, n) * Power[n]
<1>1. PICK p \in Nat \ {0}, e \in Nat \ {0} : e = 2 /\ p = Power[n] /\ Power[n + 1] = p * e
  BY Powers
<1>2. PICK c \in Nat \ {0} : c = p * e
  OBVIOUS
<1>3. DividesTwice(x, p, e, c)
  BY <1>2, TwoDivisions, Zenon
<1>4. PICK q, y \in Int : q = x \div p /\ y = x % c /\ y % p = x % p /\ y \div p = q % e
  BY <1>3, Zenon DEF DividesTwice
<1>5. y = (y \div p) * p + (y % p)
  BY Division
<1>6. y = (q % e) * p + (x % p)
  BY ONLY <1>4, <1>5, Zenon
<1>7. Bit(x, n) = q % e
  BY <1>1, <1>4 DEF Bit
<1>. QED
  BY <1>1, <1>2, <1>4, <1>6, <1>7

-----------------------------------------------------------------------------
\* The partial sums of Number, for the numbers given by bits.
Sums(f, bits, w) == /\ f \in [0 .. w -> Nat]
                    /\ f[0] = 0
                    /\ \A n \in 0 .. w - 1 : f[n + 1] = f[n] + bits[n] * Power[n]

\* Number is the last of them.
LEMMA NumberSums ==
  ASSUME NEW w \in Nat, NEW bits \in [0 .. w - 1 -> {0, 1}]
  PROVE  \E f : Sums(f, bits, w) /\ Number(bits, w) = f[w]
<1>. DEFINE G == [i \in 1 .. w + 1 |-> [y \in Nat |-> IF i = 1 THEN y ELSE y + bits[i - 2] * Power[i - 2]]]
            Step(f) == [n \in 0 .. w |-> IF n = 0 THEN 0 ELSE f[n - 1] + bits[n - 1] * Power[n - 1]]
            Low == CHOOSE f : f = Step(f)
<1>1. ASSUME NEW n \in 0 .. w - 1 PROVE bits[n] * Power[n] \in Nat
  <2>. HIDE DEF G, Step, Low
  <2>1. bits[n] \in Nat /\ n \in Nat
    OBVIOUS
  <2>2. Power[n] \in Nat
    BY <2>1, Powers
  <2>. QED
    BY <2>1, <2>2
<1>2. G \in [1 .. w + 1 -> [Nat -> Nat]]
  <2>1. ASSUME NEW i \in 1 .. w + 1, NEW y \in Nat
        PROVE (IF i = 1 THEN y ELSE y + bits[i - 2] * Power[i - 2]) \in Nat
    <3>1. CASE i = 1
      BY <3>1
    <3>2. CASE i # 1
      <4>1. i - 2 \in 0 .. w - 1
        BY <3>2
      <4>2. bits[i - 2] * Power[i - 2] \in Nat
        BY <1>1, <4>1
      <4>. QED
        BY <3>2, <4>2
    <3>. QED
      BY <3>1, <3>2
  <2>. QED
    BY <2>1
<1>3. PICK g \in [1 .. w + 1 -> Nat] : Iterates(g, w + 1, 0, G)
  <2>. HIDE DEF G
  <2>1. w + 1 \in Nat /\ 0 \in Nat
    OBVIOUS
  <2>. QED
    BY <1>2, <2>1, Recursion
<1>. DEFINE h == [n \in 0 .. w |-> g[n + 1]]
<1>4. h = Step(h)
  <2>1. ASSUME NEW n \in 0 .. w
        PROVE  h[n] = IF n = 0 THEN 0 ELSE h[n - 1] + bits[n - 1] * Power[n - 1]
    <3>1. n + 1 \in 1 .. w + 1 /\ (n + 1 = 1 <=> n = 0) /\ (n + 1) - 1 = n
          /\ (n + 1) - 2 = n - 1 /\ (n # 0 => n - 1 \in 0 .. w /\ (n - 1) + 1 = n)
      OBVIOUS
    <3>2. g[n + 1] = IF n + 1 = 1 THEN 0 ELSE G[n + 1][g[n]]
      BY ONLY <1>3, <3>1, Zenon DEF Iterates
    <3>3. n # 0 => g[n] \in Nat
      OBVIOUS
    <3>4. h[n] = g[n + 1] /\ (n # 0 => h[n - 1] = g[n])
      BY <3>1
    <3>5. n # 0 => G[n + 1][g[n]] = g[n] + bits[n - 1] * Power[n - 1]
      BY <3>1, <3>3
    <3>. QED
      BY ONLY <3>1, <3>2, <3>4, <3>5
  <2>. QED
    BY <2>1
<1>5. Low = Step(Low)
  <2>. HIDE DEF Step, h
  <2>. QED
    BY <1>4
<1>6. Number(bits, w) = Low[w]
  BY DEF Number
<1>. HIDE DEF Low
<1>7. Low[0] = 0
  BY <1>5
<1>8. ASSUME NEW n \in 0 .. w - 1 PROVE Low[n + 1] = Low[n] + bits[n] * Power[n]
  <2>1. n + 1 \in 0 .. w /\ n + 1 # 0 /\ (n + 1) - 1 = n
    OBVIOUS
  <2>. QED
    BY <1>5, <2>1, Zenon
<1>9. \A n \in 0 .. w : n \in {k \in 0 .. w : Low[k] \in Nat}
  <2>. DEFINE T == {k \in 0 .. w : Low[k] \in Nat}
  <2>1. 0 \in T
    BY <1>7
  <2>2. ASSUME NEW k \in 0 .. (w - 1), k \in T PROVE k + 1 \in T
    <3>1. PICK x \in Nat, y \in Nat : x = Low[k] /\ y = bits[k] * Power[k]
      BY <1>1, <2>2
    <3>2. Low[k + 1] = x + y
      BY <1>8, <3>1
    <3>. QED
      BY <3>2
  <2>. HIDE DEF T
  <2>3. \A n \in 0 .. w : n \in T
    BY ONLY <2>1, <2>2, UpTo, 0 \in Int, w \in Int, Zenon
  <2>. QED
    BY <2>3 DEF T
<1>10. Low = [n \in 0 .. w |-> Low[n]]
  BY <1>5, Zenon
<1>11. Low \in [0 .. w -> Nat]
  BY <1>9, <1>10
<1>12. Sums(Low, bits, w)
  BY <1>7, <1>8, <1>11 DEF Sums
<1>. QED
  BY <1>6, <1>12

\* A bit of a sum of numbers below and above bit k.
LEMMA BitOfSum ==
  ASSUME NEW k \in Nat, NEW a \in 0 .. Power[k] - 1, NEW b \in Int, NEW i \in Nat
  PROVE  Bit(a + b * Power[k], i) = IF i < k THEN Bit(a, i) ELSE Bit(b, i - k)
<1>1. PICK d \in Nat \ {0} : d = Power[k]
  BY Powers
<1>2. PICK y \in Int : y = a + b * d
  <2>1. b * d \in Int
    OBVIOUS
  <2>. QED
    BY <1>1, <2>1
<1>3. CASE i < k
  <2>1. PICK j \in Nat : k = i + (j + 1)
    <3>1. k - i - 1 \in Nat /\ k = i + ((k - i - 1) + 1)
      BY <1>3
    <3>. QED
      BY <3>1
  <2>2. PICK p \in Nat \ {0}, e \in Nat \ {0} : p = Power[i] /\ e = Power[j]
    BY Powers
  <2>3. d = p * (2 * e)
    <3>1. Power[j + 1] = 2 * e
      BY <2>2, Powers
    <3>2. Power[k] = Power[i] * Power[j + 1]
      BY <2>1, PowerOfSum
    <3>. QED
      BY <1>1, <2>2, <3>1, <3>2
  <2>4. PICK m \in Int : m = b * e
    OBVIOUS
  <2>5. y = a + (2 * m) * p
    <3>1. b * d = (2 * m) * p
      BY <2>3, <2>4
    <3>. QED
      BY <1>2, <3>1
  <2>6. PICK q \in Int : q = a \div p
    BY Division, a \in Int
  <2>7. PICK l \in Int : l = 2 * m
    OBVIOUS
  <2>8. y \div p = q + l
    <3>1. a \in Int
      OBVIOUS
    <3>. QED
      BY <2>5, <2>6, <2>7, <3>1, Multiples
  <2>9. (q + l) % 2 = q % 2
    BY <2>7
  <2>. QED
    BY <1>1, <1>2, <1>3, <2>2, <2>6, <2>8, <2>9 DEF Bit
<1>4. CASE ~(i < k)
  <2>1. PICK j \in Nat : i = k + j /\ j = i - k
    BY <1>4
  <2>2. PICK e \in Nat \ {0}, c \in Nat \ {0} : e = Power[j] /\ c = Power[i]
    BY Powers
  <2>3. c = d * e
    BY <1>1, <2>1, <2>2, PowerOfSum
  <2>4. DividesTwice(y, d, e, c)
    BY <2>3, TwoDivisions, Zenon
  <2>5. y \div d = b
    BY <1>1, <1>2, Quotient
  <2>6. y \div c = b \div e
    BY <2>4, <2>5 DEF DividesTwice
  <2>. QED
    BY <1>1, <1>2, <1>4, <2>1, <2>2, <2>6 DEF Bit
<1>. QED
  BY <1>3, <1>4

\* The bits of 0, and those of a word beyond its width.
LEMMA BitZero == \A i \in Nat : Bit(0, i) = 0
<1>. SUFFICES ASSUME NEW i \in Nat PROVE Bit(0, i) = 0
  OBVIOUS
<1>1. PICK p \in Nat \ {0} : p = Power[i]
  BY Powers
<1>2. 0 \div p = 0
  OBVIOUS
<1>. QED
  BY <1>1, <1>2 DEF Bit

LEMMA BitBeyond ==
  ASSUME NEW w \in Nat, NEW x \in 0 .. Power[w] - 1, NEW i \in Nat, i >= w
  PROVE  Bit(x, i) = 0
<1>1. PICK p \in Nat : p = Power[w]
  BY Powers
<1>2. x + 0 * p = x /\ i - w \in Nat /\ ~(i < w)
  OBVIOUS
<1>3. Bit(x + 0 * p, i) = Bit(0, i - w)
  BY ONLY <1>1, <1>2, BitOfSum, w \in Nat, i \in Nat, x \in 0 .. Power[w] - 1, 0 \in Int
<1>. QED
  BY <1>2, <1>3, BitZero

\* The bits of a number divided by a power of two, and of the rest.
LEMMA BitOfQuotient ==
  ASSUME NEW x \in Int, NEW k \in Nat, NEW i \in Nat
  PROVE  /\ Bit(x \div Power[k], i) = Bit(x, i + k)
         /\ Bit(x % Power[k], i) = IF i < k THEN Bit(x, i) ELSE 0
<1>1. PICK p \in Nat \ {0} : p = Power[k]
  BY Powers
<1>2. PICK q \in Int, r \in 0 .. p - 1 : q = x \div p /\ r = x % p /\ x = q * p + r
  BY Division, Zenon
<1>3. x = r + q * p
  <2>1. q * p \in Int
    OBVIOUS
  <2>. QED
    BY <1>2, <2>1
<1>4. \A j \in Nat : Bit(x, j) = IF j < k THEN Bit(r, j) ELSE Bit(q, j - k)
  BY <1>1, <1>3, BitOfSum
<1>5. i + k \in Nat /\ ~(i + k < k) /\ (i + k) - k = i
  OBVIOUS
<1>6. Bit(q, i) = Bit(x, i + k)
  BY <1>4, <1>5
<1>7. Bit(r, i) = IF i < k THEN Bit(x, i) ELSE 0
  <2>1. CASE i < k
    BY <1>4, <2>1
  <2>2. CASE ~(i < k)
    BY <1>1, <2>2, BitBeyond
  <2>. QED
    BY <2>1, <2>2
<1>. QED
  BY <1>1, <1>2, <1>6, <1>7

\* Two words of the same bits are the same.
SameBits(x, y, w) == \A i \in 0 .. w - 1 : Bit(x, i) = Bit(y, i)

LEMMA SameWord ==
  ASSUME NEW w \in Nat, NEW x \in 0 .. Power[w] - 1, NEW y \in 0 .. Power[w] - 1, SameBits(x, y, w)
  PROVE  x = y
<1>. DEFINE T == {n \in 0 .. w : x % Power[n] = y % Power[n]}
<1>1. 0 \in T
  <2>1. x % 1 = 0 /\ y % 1 = 0
    OBVIOUS
  <2>. QED
    BY <2>1, Powers
<1>2. ASSUME NEW n \in 0 .. (w - 1), n \in T PROVE n + 1 \in T
  <2>1. x % Power[n + 1] = (x % Power[n]) + Bit(x, n) * Power[n]
    BY OneMoreBit
  <2>2. y % Power[n + 1] = (y % Power[n]) + Bit(y, n) * Power[n]
    BY OneMoreBit
  <2>3. Bit(x, n) = Bit(y, n)
    BY DEF SameBits
  <2>. QED
    BY <1>2, <2>1, <2>2, <2>3
<1>. HIDE DEF T
<1>3. \A n \in 0 .. w : n \in T
  BY ONLY <1>1, <1>2, UpTo, 0 \in Int, w \in Int, Zenon
<1>4. w \in 0 .. w
  OBVIOUS
<1>5. x % Power[w] = y % Power[w]
  BY <1>3, <1>4 DEF T
<1>6. PICK p \in Nat \ {0} : p = Power[w]
  BY Powers
<1>7. x % p = x /\ y % p = y
  BY <1>6
<1>. QED
  BY <1>5, <1>6, <1>7

\* Number gives the word of its bits.
LEMMA NumberOfBits ==
  ASSUME NEW w \in Nat, NEW bits \in [0 .. w - 1 -> {0, 1}]
  PROVE  /\ Number(bits, w) \in 0 .. Power[w] - 1
         /\ \A i \in 0 .. w - 1 : Bit(Number(bits, w), i) = bits[i]
<1>1. PICK f : Sums(f, bits, w) /\ Number(bits, w) = f[w]
  BY NumberSums
<1>2. f \in [0 .. w -> Nat] /\ f[0] = 0 /\ \A n \in 0 .. w - 1 : f[n + 1] = f[n] + bits[n] * Power[n]
  BY <1>1 DEF Sums
<1>. DEFINE T == {n \in 0 .. w : /\ f[n] \in 0 .. Power[n] - 1
                                 /\ \A i \in 0 .. n - 1 : Bit(f[n], i) = bits[i]}
<1>3. 0 \in T
  <2>1. f[0] \in 0 .. Power[0] - 1
    BY <1>2, Powers
  <2>. QED
    BY <2>1
<1>4. ASSUME NEW n \in 0 .. (w - 1), n \in T PROVE n + 1 \in T
  <2>0. n \in Nat
    OBVIOUS
  <2>1. PICK p \in Nat \ {0} : p = Power[n]
    BY ONLY <2>0, Powers
  <2>2. PICK a \in 0 .. p - 1 : a = f[n] /\ \A i \in 0 .. n - 1 : Bit(a, i) = bits[i]
    BY <1>4, <2>1
  <2>3. PICK b \in {0, 1} : b = bits[n]
    OBVIOUS
  <2>4. PICK y \in 0 .. 2 * p - 1 : y = a + b * p
    <3>1. b * p = IF b = 0 THEN 0 ELSE p
      OBVIOUS
    <3>. QED
      BY <3>1
  <2>5. f[n + 1] = y
    BY <1>2, <2>1, <2>2, <2>3, <2>4
  <2>6. Power[n + 1] = 2 * p
    BY <2>1, Powers
  <2>7. ASSUME NEW i \in 0 .. n PROVE Bit(y, i) = bits[i]
    <3>1. n \in Nat /\ i \in Nat /\ b \in Int /\ a \in 0 .. Power[n] - 1
      BY <2>1
    <3>2. Bit(y, i) = IF i < n THEN Bit(a, i) ELSE Bit(b, i - n)
      BY ONLY <2>1, <2>4, <3>1, BitOfSum
    <3>3. CASE i < n
      BY <2>2, <3>2, <3>3
    <3>4. CASE i = n
      <4>1. Bit(b, 0) = (b \div 1) % 2
        BY Powers DEF Bit
      <4>2. (b \div 1) % 2 = b
        OBVIOUS
      <4>3. i - n = 0 /\ ~(i < n)
        BY <3>4
      <4>. QED
        BY <2>3, <3>2, <3>4, <4>1, <4>2, <4>3
    <3>. QED
      BY <3>3, <3>4
  <2>8. n + 1 \in 0 .. w /\ (n + 1) - 1 = n
    OBVIOUS
  <2>. QED
    BY <2>4, <2>5, <2>6, <2>7, <2>8
<1>. HIDE DEF T
<1>5. \A n \in 0 .. w : n \in T
  BY ONLY <1>3, <1>4, UpTo, 0 \in Int, w \in Int, Zenon
<1>6. w \in 0 .. w
  OBVIOUS
<1>. QED
  BY <1>1, <1>5, <1>6 DEF T

\* The operators of words give words, bit by bit.
LEMMA OperatorBits ==
  ASSUME NEW w \in Nat, NEW x \in Int, NEW y \in Int
  PROVE  /\ And(x, y, w) \in 0 .. Power[w] - 1
         /\ Or(x, y, w) \in 0 .. Power[w] - 1
         /\ Xor(x, y, w) \in 0 .. Power[w] - 1
         /\ \A i \in 0 .. w - 1 :
              /\ Bit(And(x, y, w), i) = Bit(x, i) * Bit(y, i)
              /\ Bit(Or(x, y, w), i) = IF Bit(x, i) + Bit(y, i) > 0 THEN 1 ELSE 0
<1>. DEFINE a == [i \in 0 .. (w - 1) |-> Bit(x, i) * Bit(y, i)]
            o == [i \in 0 .. (w - 1) |-> IF Bit(x, i) + Bit(y, i) > 0 THEN 1 ELSE 0]
            e == [i \in 0 .. (w - 1) |-> (Bit(x, i) + Bit(y, i)) % 2]
<1>1. ASSUME NEW i \in 0 .. w - 1
      PROVE  Bit(x, i) * Bit(y, i) \in {0, 1} /\ (Bit(x, i) + Bit(y, i)) % 2 \in {0, 1}
  <2>1. PICK b \in {0, 1}, c \in {0, 1} : b = Bit(x, i) /\ c = Bit(y, i)
    BY BitType
  <2>. QED
    BY <2>1
<1>2. a \in [0 .. w - 1 -> {0, 1}] /\ o \in [0 .. w - 1 -> {0, 1}] /\ e \in [0 .. w - 1 -> {0, 1}]
  BY <1>1
<1>3. \A i \in 0 .. w - 1 : a[i] = Bit(x, i) * Bit(y, i)
                            /\ o[i] = IF Bit(x, i) + Bit(y, i) > 0 THEN 1 ELSE 0
  OBVIOUS
<1>4. And(x, y, w) = Number(a, w) /\ Or(x, y, w) = Number(o, w) /\ Xor(x, y, w) = Number(e, w)
  BY DEF And, Or, Xor
<1>. HIDE DEF a, o, e
<1>5. Number(a, w) \in 0 .. Power[w] - 1 /\ \A i \in 0 .. w - 1 : Bit(Number(a, w), i) = a[i]
  BY ONLY <1>2, NumberOfBits, w \in Nat, Zenon
<1>6. Number(o, w) \in 0 .. Power[w] - 1 /\ \A i \in 0 .. w - 1 : Bit(Number(o, w), i) = o[i]
  BY ONLY <1>2, NumberOfBits, w \in Nat, Zenon
<1>7. Number(e, w) \in 0 .. Power[w] - 1
  BY ONLY <1>2, NumberOfBits, w \in Nat, Zenon
<1>. QED
  BY ONLY <1>3, <1>4, <1>5, <1>6, <1>7, Zenon

\* What there is to know of Or, as a predicate.
OrOf(z, x, y, w) == /\ z \in 0 .. Power[w] - 1
                    /\ \A i \in 0 .. w - 1 : Bit(z, i) = IF Bit(x, i) + Bit(y, i) > 0 THEN 1 ELSE 0

LEMMA OrBits ==
  ASSUME NEW w \in Nat, NEW x \in Int, NEW y \in Int
  PROVE  OrOf(Or(x, y, w), x, y, w)
<1>1. Or(x, y, w) \in 0 .. Power[w] - 1
  BY OperatorBits, Zenon
<1>2. \A i \in 0 .. w - 1 : Bit(Or(x, y, w), i) = IF Bit(x, i) + Bit(y, i) > 0 THEN 1 ELSE 0
  BY OperatorBits, Zenon
<1>. QED
  BY <1>1, <1>2, Zenon DEF OrOf

\* The sum of a number below bit k and one from there on is their Or.
LEMMA OrOfParts ==
  ASSUME NEW w \in Nat, NEW k \in Nat, NEW a \in 0 .. Power[k] - 1, NEW b \in Int,
         a + b * Power[k] \in 0 .. Power[w] - 1
  PROVE  /\ Or(a, b * Power[k], w) = a + b * Power[k]
         /\ Or(b * Power[k], a, w) = a + b * Power[k]
<1>1. PICK p \in Nat \ {0} : p = Power[k]
  BY Powers
<1>2. PICK h \in Int : h = b * p
  OBVIOUS
<1>3. PICK y \in Int : y = a + h
  BY <1>1
<1>4. a \in Int /\ y \in 0 .. Power[w] - 1
  BY <1>1, <1>2, <1>3
<1>5. ASSUME NEW i \in 0 .. w - 1
      PROVE  /\ Bit(y, i) = (IF Bit(a, i) + Bit(h, i) > 0 THEN 1 ELSE 0)
             /\ Bit(y, i) = (IF Bit(h, i) + Bit(a, i) > 0 THEN 1 ELSE 0)
  <2>1. i \in Nat
    OBVIOUS
  <2>2. Bit(y, i) = IF i < k THEN Bit(a, i) ELSE Bit(b, i - k)
    BY ONLY <1>1, <1>2, <1>3, <2>1, BitOfSum, k \in Nat, a \in 0 .. Power[k] - 1, b \in Int
  <2>3. Bit(0 + h, i) = IF i < k THEN Bit(0, i) ELSE Bit(b, i - k)
    <3>1. 0 \in 0 .. Power[k] - 1
      BY <1>1
    <3>. QED
      BY ONLY <1>1, <1>2, <2>1, <3>1, BitOfSum, k \in Nat, b \in Int
  <2>4. 0 + h = h
    OBVIOUS
  <2>5. CASE i < k
    <3>1. Bit(h, i) = 0 /\ Bit(y, i) = Bit(a, i)
      BY ONLY <2>1, <2>2, <2>3, <2>4, <2>5, BitZero
    <3>2. Bit(a, i) \in {0, 1}
      BY <1>4, <2>1, BitType
    <3>. QED
      BY <3>1, <3>2
  <2>6. CASE ~(i < k)
    <3>1. Bit(a, i) = 0
      BY <2>1, <2>6, BitBeyond
    <3>2. Bit(h, i) = Bit(b, i - k) /\ Bit(y, i) = Bit(b, i - k)
      BY ONLY <2>2, <2>3, <2>4, <2>6
    <3>3. Bit(b, i - k) \in {0, 1}
      BY <2>6, BitType
    <3>. QED
      BY <3>1, <3>2, <3>3
  <2>. QED
    BY <2>5, <2>6
<1>6. Or(a, h, w) = y
  <2>1. OrOf(Or(a, h, w), a, h, w)
    BY ONLY <1>4, OrBits, w \in Nat, h \in Int, Zenon
  <2>2. PICK z \in 0 .. Power[w] - 1 : z = Or(a, h, w) /\ SameBits(z, y, w)
    BY ONLY <1>5, <2>1, Zenon DEF OrOf, SameBits
  <2>. QED
    BY ONLY <1>4, <2>2, SameWord, w \in Nat, Zenon
<1>7. Or(h, a, w) = y
  <2>1. OrOf(Or(h, a, w), h, a, w)
    BY ONLY <1>4, OrBits, w \in Nat, h \in Int, Zenon
  <2>2. PICK z \in 0 .. Power[w] - 1 : z = Or(h, a, w) /\ SameBits(z, y, w)
    BY ONLY <1>5, <2>1, Zenon DEF OrOf, SameBits
  <2>. QED
    BY ONLY <1>4, <2>2, SameWord, w \in Nat, Zenon
<1>. QED
  BY <1>1, <1>2, <1>3, <1>6, <1>7

\* Or of a word with itself, and with 0.
LEMMA OrSame ==
  ASSUME NEW w \in Nat, NEW x \in 0 .. Power[w] - 1
  PROVE  Or(x, x, w) = x /\ Or(x, 0, w) = x
<1>1. x \in Int /\ 0 \in Int
  OBVIOUS
<1>2. ASSUME NEW i \in 0 .. w - 1
      PROVE  /\ Bit(x, i) = (IF Bit(x, i) + Bit(x, i) > 0 THEN 1 ELSE 0)
             /\ Bit(x, i) = (IF Bit(x, i) + Bit(0, i) > 0 THEN 1 ELSE 0)
  <2>1. Bit(x, i) \in {0, 1} /\ Bit(0, i) = 0
    BY <1>1, BitType, BitZero
  <2>. QED
    BY <2>1
<1>3. Or(x, x, w) \in 0 .. Power[w] - 1 /\ SameBits(Or(x, x, w), x, w)
  BY <1>1, <1>2, OperatorBits DEF SameBits
<1>4. Or(x, 0, w) \in 0 .. Power[w] - 1 /\ SameBits(Or(x, 0, w), x, w)
  BY <1>1, <1>2, OperatorBits DEF SameBits
<1>. QED
  BY ONLY <1>3, <1>4, SameWord, w \in Nat, x \in 0 .. Power[w] - 1, Zenon

\* Powers grow, each a multiple of those below.
LEMMA PowerSplit ==
  ASSUME NEW m \in Nat, NEW n \in 0 .. m
  PROVE  Power[m] = Power[m - n] * Power[n] /\ Power[n] <= Power[m]
<1>1. m - n \in Nat /\ n \in Nat /\ (m - n) + n = m
  OBVIOUS
<1>2. PICK p \in Nat \ {0}, q \in Nat \ {0} : p = Power[n] /\ q = Power[m - n]
  BY <1>1, Powers
<1>3. Power[m] = q * p
  BY <1>1, <1>2, PowerOfSum
<1>4. q * p >= p
  OBVIOUS
<1>. QED
  BY <1>2, <1>3, <1>4

\* The bits of the mask of the bits from n up.
LEMMA BitsOfMask ==
  ASSUME NEW w \in Nat, NEW n \in 0 .. w, NEW i \in 0 .. w - 1
  PROVE  Bit(Power[w] - Power[n], i) = IF i < n THEN 0 ELSE 1
<1>1. PICK p \in Nat \ {0}, q \in Nat \ {0} : p = Power[n] /\ q = Power[w - n] /\ Power[w] = q * p
  <2>1. n \in Nat /\ w - n \in Nat
    OBVIOUS
  <2>. QED
    BY <2>1, Powers, PowerSplit
<1>2. PICK b \in Nat : b = q - 1
  OBVIOUS
<1>3. Power[w] - Power[n] = 0 + b * p
  BY <1>1, <1>2
<1>4. i \in Nat /\ n \in Nat /\ 0 \in 0 .. Power[n] - 1 /\ b \in Int
  BY <1>1
<1>5. Bit(0 + b * p, i) = IF i < n THEN Bit(0, i) ELSE Bit(b, i - n)
  BY ONLY <1>1, <1>4, BitOfSum
<1>6. CASE i < n
  BY <1>3, <1>4, <1>5, <1>6, BitZero
<1>7. CASE ~(i < n)
  <2>1. PICK j \in Nat : j = i - n
    BY <1>7
  <2>2. PICK d \in Nat \ {0}, e \in Nat \ {0} : d = Power[j] /\ q = (2 * e) * d
    <3>1. w - n \in Nat /\ j \in 0 .. w - n /\ (w - n) - j - 1 \in Nat
          /\ (w - n) - j = ((w - n) - j - 1) + 1
      BY <2>1
    <3>2. Power[(w - n) - j] = 2 * Power[(w - n) - j - 1]
      BY <3>1, Powers
    <3>3. Power[w - n] = Power[(w - n) - j] * Power[j]
      BY ONLY <3>1, PowerSplit
    <3>4. Power[j] \in Nat \ {0} /\ Power[(w - n) - j - 1] \in Nat \ {0}
      BY <3>1, Powers
    <3>. QED
      BY <1>1, <3>2, <3>3, <3>4
  <2>3. PICK c \in Int : c = 2 * e - 1
    OBVIOUS
  <2>4. b = c * d + (d - 1)
    <3>1. q = c * d + d
      BY <2>2, <2>3
    <3>. QED
      BY <1>2, <3>1
  <2>5. b \div d = c
    BY <2>4, Quotient
  <2>6. c % 2 = 1
    BY <2>3
  <2>7. Bit(b, i - n) = 1
    BY <2>1, <2>2, <2>5, <2>6 DEF Bit
  <2>. QED
    BY <1>3, <1>5, <1>7, <2>7
<1>. QED
  BY <1>6, <1>7
=============================================================================
