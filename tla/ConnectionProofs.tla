--------------------------- MODULE ConnectionProofs --------------------------
(* What the parts of the connection promise, proved for every value of the   *)
(* constants: the packets (GdbPackets), the scanner (Scanner) and the          *)
(* connections of send_irq (Connections).                                      *)
EXTENDS Connection, WordsProofs, SequenceTheorems

\* An array from 1 to n is a sequence.
LEMMA ArrayIsSeq ==
  ASSUME NEW S, NEW n \in Nat, NEW s \in [1 .. n -> S]
  PROVE  s \in Seq(S) /\ Len(s) = n
<1>1. s \in UNION {[1 .. k -> S] : k \in Nat}
  OBVIOUS
<1>2. s \in Seq(S)
  BY ONLY <1>1, SeqDef, Zenon
<1>. QED
  BY <1>2

\* A sequence is the array of its elements.
LEMMA SeqIsArray ==
  ASSUME NEW S, NEW s \in Seq(S), NEW n, Len(s) = n
  PROVE  s = [p \in 1 .. n |-> s[p]]
<1>1. s \in [1 .. Len(s) -> S]
  BY ONLY LenProperties, s \in Seq(S), Zenon
<1>. QED
  BY ONLY <1>1, Len(s) = n, Zenon

-----------------------------------------------------------------------------
\* The concatenation of sequences, one after the other.
Joins(f, s, n) == f[1] = s[1] /\ \A i \in 1 .. n - 1 : f[i + 1] = f[i] \o s[i + 1]

\* FlattenSeq is the last of the concatenations.
LEMMA FlattenParts ==
  ASSUME NEW S, NEW n \in Nat \ {0}, NEW s \in [1 .. n -> Seq(S)]
  PROVE  \E f \in [1 .. n -> Seq(S)] : Packets!FlattenSeq(s) = f[n] /\ Joins(f, s, n)
<1>. DEFINE G == [i \in 1 .. n |-> [x \in Seq(S) |-> x \o s[i]]]
            f == CHOOSE g : g = [i \in 1 .. n |-> IF i = 1 THEN s[i] ELSE g[i - 1] \o s[i]]
<1>1. s \in Seq(Seq(S)) /\ Len(s) = n
  BY SeqDef
<1>2. G \in [1 .. n -> [Seq(S) -> Seq(S)]] /\ s[1] \in Seq(S)
  BY ConcatProperties
<1>3. PICK g \in [1 .. n -> Seq(S)] : Iterates(g, n, s[1], G)
  <2>. HIDE DEF G
  <2>1. n \in Nat
    OBVIOUS
  <2>. QED
    BY ONLY <1>2, <2>1, Recursion, Zenon
<1>4. \A i \in 1 .. n : g[i] = IF i = 1 THEN s[i] ELSE g[i - 1] \o s[i]
  <2>1. \A i \in 1 .. n : i # 1 => g[i - 1] \in Seq(S)
    OBVIOUS
  <2>. QED
    BY <1>3, <2>1 DEF Iterates
<1>5. g = [i \in 1 .. n |-> IF i = 1 THEN s[i] ELSE g[i - 1] \o s[i]]
  BY <1>4
<1>6. f = [i \in 1 .. n |-> IF i = 1 THEN s[i] ELSE f[i - 1] \o s[i]]
  BY <1>5, Zenon
<1>7. Packets!FlattenSeq(s) = f[n]
  BY <1>1 DEF Packets!FlattenSeq
<1>. HIDE DEF f, G
<1>8. f[1] = s[1] /\ \A i \in 1 .. n - 1 : f[i + 1] = f[i] \o s[i + 1]
  <2>1. \A i \in 1 .. n : f[i] = IF i = 1 THEN s[i] ELSE f[i - 1] \o s[i]
    BY ONLY <1>6, Zenon
  <2>2. 1 \in 1 .. n
    OBVIOUS
  <2>3. ASSUME NEW i \in 1 .. n - 1 PROVE f[i + 1] = f[i] \o s[i + 1]
    <3>1. PICK m \in 1 .. n : m = i + 1 /\ m # 1 /\ m - 1 = i
      OBVIOUS
    <3>2. f[m] = f[m - 1] \o s[m]
      BY ONLY <2>1, <3>1, Zenon
    <3>. QED
      BY ONLY <3>1, <3>2, Zenon
  <2>. QED
    BY ONLY <2>1, <2>2, <2>3, Zenon
<1>9. \A i \in 1 .. n : f[i] \in Seq(S)
  <2>. DEFINE T == {k \in 1 .. n : f[k] \in Seq(S)}
  <2>1. 1 \in T
    BY <1>2, <1>8
  <2>2. ASSUME NEW k \in 1 .. n - 1, k \in T PROVE k + 1 \in T
    <3>1. k + 1 \in 1 .. n
      OBVIOUS
    <3>2. f[k] \in Seq(S) /\ s[k + 1] \in Seq(S) /\ f[k + 1] = f[k] \o s[k + 1]
      BY <1>8, <2>2, <3>1
    <3>3. f[k + 1] \in Seq(S)
      BY ONLY <3>2, ConcatProperties
    <3>. QED
      BY <3>1, <3>3
  <2>3. \A k \in 1 .. n : k \in T
    <3>. HIDE DEF T
    <3>1. 1 \in Int /\ n \in Int /\ \A k \in 1 .. (n - 1) : k \in T => k + 1 \in T
      BY <2>2
    <3>. QED
      BY ONLY <2>1, <3>1, UpTo, Zenon
  <2>. QED
    BY <2>3
<1>. QED
  BY <1>6, <1>7, <1>8, <1>9 DEF Joins

\* A sequence that starts with another.
StartsWith(p, q) == Len(q) <= Len(p) /\ \A k \in 1 .. Len(q) : p[k] = q[k]

\* Each concatenation starts with the ones before it.
LEMMA Prefixes ==
  ASSUME NEW S, NEW n \in Nat, NEW s \in [1 .. n -> Seq(S)], NEW f \in [1 .. n -> Seq(S)],
         Joins(f, s, n),
         NEW i \in 1 .. n
  PROVE  \A j \in i .. n : StartsWith(f[j], f[i])
<1>. DEFINE T == {j \in i .. n : StartsWith(f[j], f[i])}
<1>1. i \in T
  <2>1. f[i] \in Seq(S)
    OBVIOUS
  <2>2. Len(f[i]) \in Nat
    BY <2>1, LenProperties
  <2>. QED
    BY <2>1, <2>2 DEF StartsWith
<1>2. ASSUME NEW j \in i .. n - 1, j \in T PROVE j + 1 \in T
  <2>1. j \in 1 .. n - 1 /\ j \in 1 .. n /\ j + 1 \in 1 .. n /\ j + 1 \in i .. n
    OBVIOUS
  <2>2. f[j + 1] = f[j] \o s[j + 1] /\ f[j] \in Seq(S) /\ s[j + 1] \in Seq(S) /\ f[i] \in Seq(S)
    BY <2>1 DEF Joins
  <2>3. PICK p \in Seq(S), q \in Seq(S), b \in Seq(S) : p = f[j] /\ q = s[j + 1] /\ b = f[i]
    BY <2>2
  <2>4. Len(p) \in Nat /\ Len(q) \in Nat /\ Len(b) \in Nat
    BY ONLY LenProperties, p \in Seq(S), q \in Seq(S), b \in Seq(S)
  <2>5. Len(p \o q) = Len(p) + Len(q) /\ \A k \in 1 .. Len(p) : (p \o q)[k] = p[k]
    BY ONLY ConcatProperties, <2>4, p \in Seq(S), q \in Seq(S)
  <2>6. Len(b) <= Len(p) /\ \A k \in 1 .. Len(b) : p[k] = b[k]
    BY <1>2, <2>3 DEF StartsWith
  <2>7. Len(b) <= Len(p \o q) /\ \A k \in 1 .. Len(b) : (p \o q)[k] = b[k]
    <3>1. PICK x \in Nat, y \in Nat, z \in Nat : x = Len(p) /\ y = Len(q) /\ z = Len(b)
      BY ONLY <2>4, Zenon
    <3>2. z <= x => z <= x + y /\ \A k \in 1 .. z : k \in 1 .. x
      BY ONLY x \in Nat, y \in Nat, z \in Nat
    <3>. QED
      BY ONLY <2>5, <2>6, <3>1, <3>2, Zenon
  <2>8. StartsWith(f[j + 1], f[i])
    BY ONLY <2>2, <2>3, <2>7 DEF StartsWith
  <2>. QED
    BY <2>1, <2>8
<1>3. \A j \in i .. n : j \in T
  <2>. HIDE DEF T
  <2>1. i \in Int /\ n \in Int /\ \A k \in i .. (n - 1) : k \in T => k + 1 \in T
    BY <1>2
  <2>. QED
    BY ONLY <1>1, <2>1, UpTo, Zenon
<1>. QED
  BY <1>3

\* Where each part of a concatenation is found in the whole.
Follows(f, s, n, j, before) ==
    /\ Len(f[j]) = before + Len(s[j]) /\ (j = 1 => before = 0)
    /\ \A i \in 1 .. n - 1 : j = i + 1 => before = Len(f[i])
    /\ \A r \in 1 .. Len(s[j]) : f[n][before + r] = s[j][r]

\* Each part is found in the whole, after the parts before it.
LEMMA Tails ==
  ASSUME NEW S, NEW n \in Nat \ {0}, NEW s \in [1 .. n -> Seq(S)], NEW f \in [1 .. n -> Seq(S)],
         Joins(f, s, n), NEW j \in 1 .. n
  PROVE  \E before \in Nat : Follows(f, s, n, j, before)
<1>1. f[j] \in Seq(S) /\ s[j] \in Seq(S) /\ Len(f[j]) \in Nat /\ Len(s[j]) \in Nat
  <2>1. f[j] \in Seq(S) /\ s[j] \in Seq(S)
    OBVIOUS
  <2>. QED
    BY <2>1, LenProperties
<1>2. \A k \in 1 .. Len(f[j]) : f[n][k] = f[j][k]
  <2>1. n \in Nat /\ n \in j .. n
    OBVIOUS
  <2>2. \A k \in j .. n : StartsWith(f[k], f[j])
    BY ONLY <2>1, s \in [1 .. n -> Seq(S)], f \in [1 .. n -> Seq(S)], j \in 1 .. n, Joins(f, s, n),
       Prefixes, Zenon
  <2>. QED
    BY <2>1, <2>2 DEF StartsWith
<1>3. CASE j = 1
  <2>1. \A i \in 1 .. n - 1 : j # i + 1
    BY <1>3
  <2>2. \A r \in 1 .. Len(s[j]) : 0 + r = r
    BY <1>1
  <2>3. f[j] = s[j]
    BY <1>3 DEF Joins
  <2>. WITNESS 0 \in Nat
  <2>. QED
    BY <1>1, <1>2, <1>3, <2>1, <2>2, <2>3 DEF Follows
<1>4. CASE j # 1
  <2>1. PICK i \in 1 .. n - 1 : j = i + 1
    <3>1. j - 1 \in 1 .. n - 1 /\ j = (j - 1) + 1
      BY <1>4
    <3>. QED
      BY <3>1
  <2>2. f[i] \in Seq(S) /\ f[j] = f[i] \o s[j]
    <3>1. i \in 1 .. n
      OBVIOUS
    <3>2. f[i + 1] = f[i] \o s[i + 1]
      BY DEF Joins
    <3>. QED
      BY ONLY <2>1, <3>1, <3>2, f \in [1 .. n -> Seq(S)], Zenon
  <2>3. PICK p \in Seq(S), q \in Seq(S), b \in Nat : p = f[i] /\ q = s[j] /\ b = Len(p)
    BY <1>1, <2>2, LenProperties
  <2>4. Len(q) \in Nat
    BY ONLY LenProperties, q \in Seq(S)
  <2>5. /\ Len(p \o q) = b + Len(q)
        /\ \A k \in b + 1 .. b + Len(q) : (p \o q)[k] = q[k - b]
    BY ONLY <2>3, <2>4, ConcatProperties, p \in Seq(S), q \in Seq(S), b \in Nat
  <2>6. \A r \in 1 .. Len(q) : (p \o q)[b + r] = q[r] /\ b + r \in 1 .. Len(p \o q)
    <3>. SUFFICES ASSUME NEW r \in 1 .. Len(q)
                  PROVE  (p \o q)[b + r] = q[r] /\ b + r \in 1 .. Len(p \o q)
      OBVIOUS
    <3>1. PICK k \in b + 1 .. b + Len(q) : k = b + r /\ k - b = r
      BY <2>4
    <3>2. (p \o q)[k] = q[r]
      BY ONLY <2>5, <3>1, Zenon
    <3>3. k \in 1 .. Len(p \o q)
      BY ONLY <2>3, <2>4, <2>5, <3>1, b \in Nat
    <3>. QED
      BY ONLY <3>1, <3>2, <3>3
  <2>7. p \o q = f[j]
    BY ONLY <2>2, <2>3
  <2>8. Len(f[j]) = b + Len(s[j]) /\ \A r \in 1 .. Len(s[j]) : f[n][b + r] = s[j][r]
    <3>1. Len(f[j]) = b + Len(s[j]) /\ \A r \in 1 .. Len(s[j]) : f[j][b + r] = s[j][r] /\ b + r \in 1 .. Len(f[j])
      BY ONLY <2>3, <2>5, <2>6, <2>7
    <3>. QED
      BY ONLY <1>2, <3>1
  <2>9. \A m \in 1 .. n - 1 : j = m + 1 => m = i
    <3>. SUFFICES ASSUME NEW m \in 1 .. n - 1, j = m + 1 PROVE m = i
      OBVIOUS
    <3>1. i \in Int /\ m \in Int
      OBVIOUS
    <3>2. i + 1 = m + 1
      BY ONLY <2>1, j = m + 1, Zenon
    <3>. QED
      BY ONLY <3>1, <3>2
  <2>. WITNESS b \in Nat
  <2>. QED
    BY ONLY <1>4, <2>3, <2>8, <2>9 DEF Follows
<1>. QED
  BY <1>3, <1>4

\* The characters of an escaped byte.
EscapedByte(b) == IF b \in {Packets!Dollar, Packets!Sharp, Packets!Escape}
                  THEN <<Packets!Escape, Packets!Xor20(b)>> ELSE <<b>>

\* A byte is found again behind its escape, which no other byte is.
LEMMA OneEscape ==
  ASSUME NEW b \in 0 .. 255
  PROVE  /\ EscapedByte(b) \in Seq(Int) /\ Len(EscapedByte(b)) \in {1, 2}
         /\ EscapedByte(b)[1] = Packets!Escape <=> Len(EscapedByte(b)) = 2
         /\ Len(EscapedByte(b)) = 1 => EscapedByte(b)[1] = b
         /\ Len(EscapedByte(b)) = 2 => Packets!Xor20(EscapedByte(b)[2]) = b
<1>1. Packets!Xor20(b) \in Int
  BY DEF Packets!Xor20
<1>2. CASE b \in {Packets!Dollar, Packets!Sharp, Packets!Escape}
  <2>1. Packets!Xor20(Packets!Xor20(b)) = b
    <3>1. Packets!Xor20(36) = 4 /\ Packets!Xor20(4) = 36 /\ Packets!Xor20(35) = 3
          /\ Packets!Xor20(3) = 35 /\ Packets!Xor20(125) = 93 /\ Packets!Xor20(93) = 125
      BY DEF Packets!Xor20
    <3>. QED
      BY <1>2, <3>1 DEF Packets!Dollar, Packets!Sharp, Packets!Escape
  <2>2. EscapedByte(b) = <<Packets!Escape, Packets!Xor20(b)>>
    BY <1>2 DEF EscapedByte
  <2>. QED
    BY <1>1, <2>1, <2>2 DEF Packets!Escape
<1>3. CASE b \notin {Packets!Dollar, Packets!Sharp, Packets!Escape}
  BY <1>3 DEF EscapedByte
<1>. QED
  BY <1>2, <1>3

\* Where a content has the byte b, or its escape.
Holds(content, at, b) ==
    /\ at \in Nat /\ content[at] = EscapedByte(b)[1]
    /\ Len(EscapedByte(b)) = 2 => content[at + 1] = EscapedByte(b)[2]

\* The walk over a content finds each byte where it was put.
LEMMA Unescaped ==
  ASSUME NEW n \in Nat, NEW bytes \in [1 .. n -> 0 .. 255], NEW i \in 1 .. n
  PROVE  LET content == Packets!Escaped(bytes)
         IN  Packets!ContentValue(content, Packets!Start(content, n)[i]) = bytes[i]
<1>. DEFINE content == Packets!Escaped(bytes)
            s == [j \in 1 .. n |-> EscapedByte(bytes[j])]
            Step(x) == x + (IF content[x] = Packets!Escape THEN 2 ELSE 1)
            G == [j \in 1 .. n |-> [x \in Nat |-> Step(x)]]
            at == Packets!Start(content, n)
<1>1. n \in Nat \ {0} /\ bytes \in Seq(0 .. 255) /\ Len(bytes) = n
  BY SeqDef
<1>2. content = Packets!FlattenSeq(s)
  BY <1>1 DEF Packets!Escaped, EscapedByte
<1>3. s \in [1 .. n -> Seq(Int)]
  BY OneEscape
<1>. HIDE DEF content
<1>4. PICK f \in [1 .. n -> Seq(Int)] : content = f[n] /\ Joins(f, s, n)
  <2>. HIDE DEF s
  <2>. QED
    BY ONLY <1>1, <1>2, <1>3, FlattenParts, Zenon
<1>5. /\ at[1] = 1
      /\ \A j \in 1 .. n - 1 : at[j + 1] = Step(at[j])
  <2>. DEFINE a == CHOOSE g : g = [j \in 1 .. n |-> IF j = 1 THEN 1 ELSE g[j - 1] + (IF content[g[j - 1]] = Packets!Escape THEN 2 ELSE 1)]
  <2>1. at = a
    BY DEF Packets!Start
  <2>2. G \in [1 .. n -> [Nat -> Nat]]
    OBVIOUS
  <2>3. PICK g \in [1 .. n -> Nat] : Iterates(g, n, 1, G)
    <3>. HIDE DEF G
    <3>1. 1 \in Nat
      OBVIOUS
    <3>. QED
      BY ONLY <2>2, <3>1, n \in Nat, Recursion, Zenon
  <2>4. g = [j \in 1 .. n |-> IF j = 1 THEN 1 ELSE g[j - 1] + (IF content[g[j - 1]] = Packets!Escape THEN 2 ELSE 1)]
    <3>1. \A j \in 1 .. n : j # 1 => g[j - 1] \in Nat
      OBVIOUS
    <3>. QED
      BY <2>3, <3>1 DEF Iterates
  <2>5. a = [j \in 1 .. n |-> IF j = 1 THEN 1 ELSE a[j - 1] + (IF content[a[j - 1]] = Packets!Escape THEN 2 ELSE 1)]
    BY ONLY <2>4, Zenon
  <2>. HIDE DEF a
  <2>6. \A j \in 1 .. n : a[j] = IF j = 1 THEN 1 ELSE a[j - 1] + (IF content[a[j - 1]] = Packets!Escape THEN 2 ELSE 1)
    BY ONLY <2>5, Zenon
  <2>7. 1 \in 1 .. n
    BY <1>1
  <2>8. ASSUME NEW j \in 1 .. n - 1 PROVE a[j + 1] = Step(a[j])
    <3>1. PICK m \in 1 .. n : m = j + 1 /\ m # 1 /\ m - 1 = j
      OBVIOUS
    <3>2. a[m] = a[m - 1] + (IF content[a[m - 1]] = Packets!Escape THEN 2 ELSE 1)
      BY ONLY <2>6, <3>1, Zenon
    <3>. QED
      BY ONLY <3>1, <3>2, Zenon
  <2>. HIDE DEF Step
  <2>. QED
    BY ONLY <2>1, <2>6, <2>7, <2>8, Zenon
<1>. HIDE DEF at, G
<1>6. ASSUME NEW j \in 1 .. n
      PROVE  \E before \in Nat :
               /\ Len(f[j]) = before + Len(s[j]) /\ (j = 1 => before = 0)
               /\ \A m \in 1 .. n - 1 : j = m + 1 => before = Len(f[m])
               /\ Holds(content, before + 1, bytes[j])
  <2>1. PICK before \in Nat :
           /\ Len(f[j]) = before + Len(s[j]) /\ (j = 1 => before = 0)
           /\ \A m \in 1 .. n - 1 : j = m + 1 => before = Len(f[m])
           /\ \A r \in 1 .. Len(s[j]) : content[before + r] = s[j][r]
    <3>. HIDE DEF s
    <3>1. \E before \in Nat : Follows(f, s, n, j, before)
      BY ONLY <1>1, <1>3, <1>4, f \in [1 .. n -> Seq(Int)], j \in 1 .. n, Tails, Zenon
    <3>. QED
      BY ONLY <1>4, <3>1, Zenon DEF Follows
  <2>2. bytes[j] \in 0 .. 255 /\ s[j] = EscapedByte(bytes[j])
    OBVIOUS
  <2>3. Len(s[j]) \in {1, 2}
    BY <2>2, OneEscape
  <2>4. before + 1 \in Nat /\ before + 1 + 1 = before + 2
    OBVIOUS
  <2>. HIDE DEF s
  <2>5. Holds(content, before + 1, bytes[j])
    <3>0. PICK l \in {1, 2} : l = Len(s[j])
      BY ONLY <2>3, Zenon
    <3>1. 1 \in 1 .. Len(s[j]) /\ (Len(s[j]) = 2 => 2 \in 1 .. Len(s[j]))
      <4>1. 1 \in 1 .. l /\ (l = 2 => 2 \in 1 .. l)
        BY ONLY l \in {1, 2}
      <4>. QED
        BY ONLY <3>0, <4>1, Zenon
    <3>2. content[before + 1] = s[j][1] /\ (Len(s[j]) = 2 => content[before + 2] = s[j][2])
      BY ONLY <2>1, <3>1, Zenon
    <3>. QED
      BY ONLY <2>2, <2>4, <3>2, Zenon DEF Holds
  <2>. QED
    BY <2>1, <2>5
<1>7. ASSUME NEW j \in 1 .. n, Holds(content, at[j], bytes[j])
      PROVE  Step(at[j]) = at[j] + Len(s[j]) /\ Len(s[j]) \in {1, 2}
  <2>1. bytes[j] \in 0 .. 255 /\ s[j] = EscapedByte(bytes[j])
    OBVIOUS
  <2>. HIDE DEF s
  <2>. QED
    BY <1>7, <2>1, OneEscape DEF Holds
<1>8. \A j \in 1 .. n : Holds(content, at[j], bytes[j]) /\ at[j] + Len(s[j]) = Len(f[j]) + 1
  <2>. DEFINE T == {j \in 1 .. n : Holds(content, at[j], bytes[j])
                                      /\ at[j] + Len(s[j]) = Len(f[j]) + 1}
  <2>. HIDE DEF s, Step
  <2>1. 1 \in T
    <3>1. 1 \in 1 .. n /\ 0 + 1 = 1
      BY <1>1
    <3>2. Len(f[1]) = 0 + Len(s[1]) /\ Holds(content, 0 + 1, bytes[1])
      BY <1>6, <3>1
    <3>3. Len(s[1]) \in {1, 2}
      BY <1>5, <1>7, <3>1, <3>2
    <3>. QED
      BY <1>5, <3>1, <3>2, <3>3
  <2>2. ASSUME NEW j \in 1 .. n - 1, j \in T PROVE j + 1 \in T
    <3>1. j \in 1 .. n /\ j + 1 \in 1 .. n
      OBVIOUS
    <3>2. at[j + 1] = at[j] + Len(s[j])
      BY <1>5, <1>7, <2>2, <3>1
    <3>3. at[j + 1] = Len(f[j]) + 1
      BY <2>2, <3>2
    <3>4. Len(f[j + 1]) = Len(f[j]) + Len(s[j + 1]) /\ Holds(content, Len(f[j]) + 1, bytes[j + 1])
      BY <1>6, <3>1
    <3>5. Len(s[j + 1]) \in {1, 2} /\ at[j] \in Nat /\ Len(s[j]) \in {1, 2}
      BY <1>7, <2>2, <3>1, <3>3, <3>4 DEF Holds
    <3>6. Len(f[j]) \in Nat
      <4>1. f[j] \in Seq(Int)
        BY <3>1
      <4>. QED
        BY <4>1, LenProperties
    <3>7. PICK x \in Nat, y \in Nat, z \in Nat :
             x = at[j + 1] /\ y = Len(f[j]) /\ z = Len(s[j + 1])
      <4>1. at[j + 1] \in Nat
        BY ONLY <3>3, <3>6
      <4>2. Len(s[j + 1]) \in Nat
        BY ONLY <3>5
      <4>. QED
        BY ONLY <3>6, <4>1, <4>2, Zenon
    <3>8. x = y + 1 /\ Len(f[j + 1]) = y + z /\ Holds(content, x, bytes[j + 1])
      BY ONLY <3>3, <3>4, <3>7, Zenon
    <3>9. at[j + 1] + Len(s[j + 1]) = Len(f[j + 1]) + 1
      <4>1. x + z = (y + z) + 1
        BY ONLY <3>8, y \in Nat, z \in Nat
      <4>. QED
        BY ONLY <3>7, <3>8, <4>1, Zenon
    <3>. QED
      BY ONLY <3>1, <3>7, <3>8, <3>9
  <2>3. \A j \in 1 .. n : j \in T
    <3>. HIDE DEF T
    <3>1. 1 \in Int /\ n \in Int /\ \A k \in 1 .. (n - 1) : k \in T => k + 1 \in T
      BY <2>2
    <3>. QED
      BY ONLY <2>1, <3>1, UpTo, Zenon
  <2>. QED
    BY <2>3
<1>9. Packets!ContentValue(content, at[i]) = bytes[i]
  <2>1. Holds(content, at[i], bytes[i]) /\ bytes[i] \in 0 .. 255
    BY <1>8
  <2>. QED
    BY ONLY <2>1, OneEscape DEF Holds, Packets!ContentValue
<1>. QED
  BY <1>9 DEF at, content

\* The two digits of a byte are characters, and read as the byte again.
LEMMA HexDigits ==
  ASSUME NEW b \in 0 .. 255
  PROVE  /\ Packets!Hex2(b) \in Seq(1 .. 255) /\ Len(Packets!Hex2(b)) = 2
         /\ Packets!Byte(Packets!Hex2(b)) = b
<1>1. PICK h \in 0 .. 15, l \in 0 .. 15 : h = b \div 16 /\ l = b % 16 /\ b = 16 * h + l
  OBVIOUS
<1>2. \A d \in 0 .. 15 : /\ Packets!Digit(d) \in 1 .. 255
                         /\ Packets!DigitValue(Packets!Digit(d)) = d
  BY DEF Packets!Digit, Packets!DigitValue
<1>3. Packets!Hex2(b) = <<Packets!Digit(h), Packets!Digit(l)>>
  BY ONLY <1>1, Zenon DEF Packets!Hex2
<1>4. Packets!Digit(h) \in 1 .. 255 /\ Packets!Digit(l) \in 1 .. 255
  BY <1>2
<1>5. Packets!Byte(Packets!Hex2(b)) = 16 * h + l
  BY <1>2, <1>3 DEF Packets!Byte
<1>6. \A x, y \in 1 .. 255 : <<x, y>> \in Seq(1 .. 255) /\ Len(<<x, y>>) = 2
  OBVIOUS
<1>7. Packets!Hex2(b) \in Seq(1 .. 255) /\ Len(Packets!Hex2(b)) = 2
  BY ONLY <1>3, <1>4, <1>6, Zenon
<1>. QED
  BY ONLY <1>1, <1>5, <1>7

\* The characters of an hexadecimal text.
\* An hexadecimal text has two characters a byte, those of its digits.
LEMMA HexChars ==
  ASSUME NEW w \in Seq(0 .. 255)
  PROVE  /\ Packets!HexText(w) \in Seq(1 .. 255) /\ Len(Packets!HexText(w)) = 2 * Len(w)
         /\ \A i \in 1 .. Len(w) : /\ Packets!HexText(w)[2 * i - 1] = Packets!Hex2(w[i])[1]
                                   /\ Packets!HexText(w)[2 * i] = Packets!Hex2(w[i])[2]
<1>. DEFINE C(k) == Packets!Hex2(w[(k + 1) \div 2])[IF k % 2 = 1 THEN 1 ELSE 2]
<1>1. PICK n \in Nat : n = Len(w)
  BY LenProperties
<1>2. ASSUME NEW k \in 1 .. 2 * n PROVE C(k) \in 1 .. 255
  <2>1. PICK i \in 1 .. n, j \in {1, 2} : i = (k + 1) \div 2 /\ j = IF k % 2 = 1 THEN 1 ELSE 2
    <3>1. (k + 1) \div 2 \in 1 .. n
      OBVIOUS
    <3>. QED
      BY <3>1
  <2>2. w[i] \in 0 .. 255
    BY <1>1, ElementOfSeq
  <2>3. PICK t \in Seq(1 .. 255) : t = Packets!Hex2(w[i]) /\ Len(t) = 2
    BY <2>2, HexDigits
  <2>4. t[j] \in 1 .. 255
    <3>1. j \in 1 .. Len(t)
      BY <2>3
    <3>. QED
      BY <3>1, ElementOfSeq
  <2>. QED
    BY <2>1, <2>3, <2>4
<1>3. Packets!HexText(w) = [k \in 1 .. 2 * n |-> C(k)]
  BY <1>1 DEF Packets!HexText
<1>. HIDE DEF C
<1>4. [k \in 1 .. 2 * n |-> C(k)] \in Seq(1 .. 255) /\ Len([k \in 1 .. 2 * n |-> C(k)]) = 2 * n
  <2>1. 2 * n \in Nat
    OBVIOUS
  <2>. QED
    BY <1>2, <2>1
<1>5. ASSUME NEW i \in 1 .. n
      PROVE  C(2 * i - 1) = Packets!Hex2(w[i])[1] /\ C(2 * i) = Packets!Hex2(w[i])[2]
  <2>1. /\ (2 * i - 1 + 1) \div 2 = i /\ (2 * i + 1) \div 2 = i
        /\ (2 * i - 1) % 2 = 1 /\ (2 * i) % 2 = 0
    OBVIOUS
  <2>. QED
    BY ONLY <2>1 DEF C
<1>6. \A i \in 1 .. n : 2 * i - 1 \in 1 .. 2 * n /\ 2 * i \in 1 .. 2 * n
  OBVIOUS
<1>. QED
  BY <1>1, <1>3, <1>4, <1>5, <1>6

\* The words of four bytes, and their reversal.
Word4 == [1 .. 4 -> 0 .. 255]

\* A word is a sequence of its bytes.
LEMMA WordIsSeq == \A w \in Word4 : w \in Seq(0 .. 255) /\ Len(w) = 4
<1>. SUFFICES ASSUME NEW w \in Word4 PROVE w \in Seq(0 .. 255) /\ Len(w) = 4
  OBVIOUS
<1>1. w \in [1 .. 4 -> 0 .. 255] /\ 4 \in Nat
  BY DEF Word4
<1>2. w \in Seq(0 .. 255)
  BY ONLY <1>1, ArrayIsSeq, Zenon
<1>3. Len(w) = 4
  BY ONLY <1>1, <1>2
<1>. QED
  BY ONLY <1>2, <1>3

\* A word reversed twice is the word.
LEMMA Reversal ==
  ASSUME NEW w \in Word4
  PROVE  /\ Packets!Reverse(w) \in Word4 /\ Packets!Reverse(Packets!Reverse(w)) = w
         /\ w \in Seq(0 .. 255) /\ Len(w) = 4
<1>1. w \in Seq(0 .. 255) /\ Len(w) = 4
  BY WordIsSeq
<1>2. Packets!Reverse(w) = [i \in 1 .. 4 |-> w[5 - i]]
  BY <1>1 DEF Packets!Reverse
<1>3. Packets!Reverse(w) \in Word4
  BY <1>2 DEF Word4
<1>4. Packets!Reverse(w) \in Seq(0 .. 255) /\ Len(Packets!Reverse(w)) = 4
  BY <1>3, WordIsSeq
<1>5. Packets!Reverse(Packets!Reverse(w)) = [i \in 1 .. 4 |-> Packets!Reverse(w)[5 - i]]
  <2>. DEFINE v == Packets!Reverse(w)
  <2>1. v \in Seq(0 .. 255) /\ Len(v) = 4
    BY <1>4
  <2>. HIDE DEF v
  <2>2. Packets!Reverse(v) = [i \in 1 .. 4 |-> v[5 - i]]
    BY <2>1 DEF Packets!Reverse
  <2>. QED
    BY ONLY <2>2 DEF v
<1>6. \A i \in 1 .. 4 : 5 - i \in 1 .. 4 /\ 5 - (5 - i) = i
  OBVIOUS
<1>7. Packets!Reverse(Packets!Reverse(w)) = [i \in 1 .. 4 |-> w[i]]
  BY <1>2, <1>5, <1>6
<1>. QED
  BY <1>1, <1>3, <1>7 DEF Word4

\* The bytes of a text, read two digits at a time.
LEMMA ReadBack ==
  ASSUME NEW w \in Word4
  PROVE  [i \in 1 .. 4 |-> Packets!Byte(SubSeq(Packets!HexText(w), 2 * i - 1, 2 * i))] = w
<1>. DEFINE t == Packets!HexText(w)
<1>1. w \in Seq(0 .. 255) /\ Len(w) = 4
  BY Reversal
<1>2. t \in Seq(1 .. 255) /\ Len(t) = 8
      /\ \A i \in 1 .. 4 : t[2 * i - 1] = Packets!Hex2(w[i])[1] /\ t[2 * i] = Packets!Hex2(w[i])[2]
  <2>1. /\ t \in Seq(1 .. 255) /\ Len(t) = 2 * Len(w)
        /\ \A i \in 1 .. Len(w) : /\ t[2 * i - 1] = Packets!Hex2(w[i])[1]
                                   /\ t[2 * i] = Packets!Hex2(w[i])[2]
    BY <1>1, HexChars
  <2>. HIDE DEF t
  <2>. QED
    BY ONLY <1>1, <2>1
<1>. HIDE DEF t
<1>3. ASSUME NEW i \in 1 .. 4 PROVE Packets!Byte(SubSeq(t, 2 * i - 1, 2 * i)) = w[i]
  <2>1. /\ 2 * i - 1 \in 1 .. Len(t) + 1 /\ 2 * i \in 2 * i - 1 - 1 .. Len(t)
        /\ (2 * i) - (2 * i - 1) + 1 = 2
        /\ 2 * i - 1 + 1 - 1 = 2 * i - 1 /\ 2 * i - 1 + 2 - 1 = 2 * i
    BY <1>2
  <2>2. SubSeq(t, 2 * i - 1, 2 * i)[1] = t[2 * i - 1] /\ SubSeq(t, 2 * i - 1, 2 * i)[2] = t[2 * i]
    BY ONLY <1>2, <2>1, SubSeqProperties
  <2>3. w[i] \in 0 .. 255 /\ Packets!Byte(Packets!Hex2(w[i])) = w[i]
    BY HexDigits DEF Word4
  <2>. QED
    BY ONLY <1>2, <2>2, <2>3, i \in 1 .. 4 DEF Packets!Byte
<1>4. w = [i \in 1 .. 4 |-> w[i]]
  BY DEF Word4
<1>. QED
  BY ONLY <1>3, <1>4 DEF t

\* What is written in one order and read in the other is the same word.
LEMMA WordsCross ==
  ASSUME host \in {"little", "big"}, target \in {"little", "big"}, NEW w \in Word4
  PROVE  /\ Packets!read_uint32(Packets!TargetText(w)) = w
         /\ Packets!write_uint32(w) = Packets!TargetText(w)
<1>1. Packets!Reverse(w) \in Word4 /\ Packets!Reverse(Packets!Reverse(w)) = w
  BY Reversal
<1>2. PICK v \in Word4 : v = IF target = "little" THEN w ELSE Packets!Reverse(w)
  BY <1>1
<1>3. Packets!TargetText(w) = Packets!HexText(v)
  BY <1>2 DEF Packets!TargetText
<1>4. Packets!read_uint32(Packets!TargetText(w)) = Packets!InHost(Packets!Walked(v))
  BY ONLY <1>2, <1>3, ReadBack, Zenon DEF Packets!read_uint32
<1>5. Packets!InHost(Packets!Walked(v)) = w
  BY <1>1, <1>2, Zenon DEF Packets!InHost, Packets!Walked
<1>6. Packets!Walked(Packets!InHost(w)) = v
  BY <1>1, <1>2, Zenon DEF Packets!InHost, Packets!Walked
<1>. QED
  BY <1>3, <1>4, <1>5, <1>6 DEF Packets!write_uint32

\* The text between its frame, and the array it is sent from.
FrameOf(payload) == <<Packets!Dollar>> \o payload \o <<Packets!Sharp>> \o Packets!Hex2(Packets!Sum(payload))
Array(a, m) == a = [p \in 0 .. m |-> a[p]]
AreaTyped(a) == Array(a, MAX_PACKET_SIZE + 7)

\* What is put in the array is there, and nothing else changes.
IsPut(e, a, m, at, text, n) ==
    /\ \A i \in 1 .. n : at + i - 1 \in 0 .. m => e[at + i - 1] = text[i]
    /\ \A p \in 0 .. m : p < at \/ p >= at + n => e[p] = a[p]

\* Put puts its text in the array.
LEMMA PutIn ==
  ASSUME NEW a, NEW m \in Nat, Array(a, m), NEW at \in Nat, NEW n \in Nat,
         NEW text, Len(text) = n
  PROVE  IsPut(Packets!Put(a, at, text), a, m, at, text, n)
<1>. DEFINE b == [p \in 0 .. m |-> IF p \in at .. at + n - 1 THEN text[p - at + 1] ELSE a[p]]
<1>1. DOMAIN a = 0 .. m
  BY DEF Array
<1>2. Packets!Put(a, at, text) = b
  BY ONLY <1>1, Len(text) = n, Zenon DEF Packets!Put
<1>3. ASSUME NEW i \in 1 .. n, at + i - 1 \in 0 .. m PROVE b[at + i - 1] = text[i]
  <2>1. PICK p \in 0 .. m : p = at + i - 1 /\ p \in at .. at + n - 1 /\ p - at + 1 = i
    BY <1>3
  <2>2. b[p] = text[p - at + 1]
    BY <2>1
  <2>. QED
    BY ONLY <2>1, <2>2, Zenon
<1>4. \A p \in 0 .. m : p < at \/ p >= at + n => b[p] = a[p]
  OBVIOUS
<1>. HIDE DEF b
<1>. QED
  BY ONLY <1>2, <1>3, <1>4, Zenon DEF IsPut

\* Putting keeps the array an array.
LEMMA PutTyped == \A a, m, at, text : Array(a, m) => Array(Packets!Put(a, at, text), m)
<1>. SUFFICES ASSUME NEW a, NEW m, NEW at, NEW text, Array(a, m)
              PROVE  Array(Packets!Put(a, at, text), m)
  OBVIOUS
<1>1. DOMAIN a = 0 .. m
  BY DEF Array
<1>. QED
  BY ONLY <1>1 DEF Array, Packets!Put

\* What gdb_send_buffer finds: the end of the string is the end of the payload.
LEMMA EndFound ==
  ASSUME NEW m \in Nat, NEW b, NEW n \in Nat, Array(b, m), n + 1 <= m,
         \A i \in 1 .. n : b[i] # 0, b[n + 1] = 0
  PROVE  (CHOOSE p \in DOMAIN b : p >= 1 /\ b[p] = 0 /\ \A q \in 1 .. p - 1 : b[q] # 0) = n + 1
<1>. DEFINE Ends(p) == p >= 1 /\ b[p] = 0 /\ \A q \in 1 .. p - 1 : b[q] # 0
<1>1. DOMAIN b = 0 .. m /\ n + 1 \in 0 .. m
  BY DEF Array
<1>2. Ends(n + 1)
  <2>1. \A q \in 1 .. n + 1 - 1 : b[q] # 0
    <3>. SUFFICES ASSUME NEW q \in 1 .. n + 1 - 1 PROVE q \in 1 .. n
      OBVIOUS
    <3>. QED
      OBVIOUS
  <2>2. n + 1 >= 1 /\ b[n + 1] = 0
    OBVIOUS
  <2>. QED
    BY ONLY <2>1, <2>2
<1>3. ASSUME NEW p \in 0 .. m, Ends(p) PROVE p = n + 1
  <2>1. p >= 1 /\ b[p] = 0 /\ \A q \in 1 .. p - 1 : b[q] # 0
    BY <1>3
  <2>2. ~(p \in 1 .. n)
    BY <2>1
  <2>3. ~(n + 1 \in 1 .. p - 1)
    BY <2>1
  <2>. QED
    BY <2>1, <2>2, <2>3
<1>. HIDE DEF Ends
<1>4. (CHOOSE p \in 0 .. m : Ends(p)) = n + 1
  BY ONLY <1>1, <1>2, <1>3, Zenon
<1>. QED
  BY ONLY <1>1, <1>4, Zenon DEF Ends

\* Where the elements of two sequences are in their concatenation.
Joined(p, q, m, n) ==
    /\ Len(p \o q) = m + n
    /\ \A i \in 1 .. m : (p \o q)[i] = p[i]
    /\ \A i \in 1 .. n : (p \o q)[m + i] = q[i]

\* A concatenation is one of sequences of the same elements.
LEMMA JoinedSeq ==
  ASSUME NEW S, NEW p \in Seq(S), NEW q \in Seq(S), NEW m \in Nat, NEW n \in Nat, Len(p) = m, Len(q) = n
  PROVE  p \o q \in Seq(S) /\ Joined(p, q, m, n)
<1>1. /\ p \o q \in Seq(S) /\ Len(p \o q) = m + n
      /\ \A i \in 1 .. m : (p \o q)[i] = p[i]
      /\ \A k \in m + 1 .. m + n : (p \o q)[k] = q[k - m]
  <2>1. /\ p \o q \in Seq(S) /\ Len(p \o q) = Len(p) + Len(q)
        /\ \A i \in 1 .. Len(p) + Len(q) :
             (p \o q)[i] = IF i <= Len(p) THEN p[i] ELSE q[i - Len(p)]
    BY ONLY ConcatProperties, p \in Seq(S), q \in Seq(S), Zenon
  <2>2. /\ p \o q \in Seq(S) /\ Len(p \o q) = m + n
        /\ \A i \in 1 .. m + n : (p \o q)[i] = IF i <= m THEN p[i] ELSE q[i - m]
    BY ONLY <2>1, Len(p) = m, Len(q) = n, Zenon
  <2>3. PICK r : r = p \o q
    OBVIOUS
  <2>4. /\ \A i \in 1 .. m : r[i] = p[i]
        /\ \A k \in m + 1 .. m + n : r[k] = q[k - m]
    <3>1. \A i \in 1 .. m + n : r[i] = IF i <= m THEN p[i] ELSE q[i - m]
      BY ONLY <2>2, <2>3, Zenon
    <3>. QED
      BY ONLY <3>1, m \in Nat, n \in Nat
  <2>. QED
    BY ONLY <2>2, <2>3, <2>4, Zenon
<1>2. ASSUME NEW i \in 1 .. n PROVE (p \o q)[m + i] = q[i]
  <2>1. PICK k \in m + 1 .. m + n : k = m + i /\ k - m = i
    OBVIOUS
  <2>2. (p \o q)[k] = q[k - m]
    BY ONLY <1>1, <2>1, Zenon
  <2>. QED
    BY ONLY <2>1, <2>2, Zenon
<1>. QED
  BY ONLY <1>1, <1>2, Zenon DEF Joined

\* The parts of a frame.
LEMMA FrameShape ==
  ASSUME NEW S, NEW w \in Seq(S), NEW n \in Nat, Len(w) = n,
         NEW x \in S, NEW y \in S, NEW h1 \in S, NEW h2 \in S
  PROVE  LET f == <<x>> \o w \o <<y>> \o <<h1, h2>>
         IN  /\ f \in Seq(S) /\ Len(f) = n + 4
             /\ f[1] = x /\ \A i \in 1 .. n : f[1 + i] = w[i]
             /\ f[n + 2] = y /\ f[n + 3] = h1 /\ f[n + 4] = h2
<1>. DEFINE f == <<x>> \o w \o <<y>> \o <<h1, h2>>
<1>1. /\ <<x>> \in Seq(S) /\ Len(<<x>>) = 1 /\ <<y>> \in Seq(S) /\ Len(<<y>>) = 1
      /\ <<h1, h2>> \in Seq(S) /\ Len(<<h1, h2>>) = 2
      /\ <<x>>[1] = x /\ <<y>>[1] = y /\ <<h1, h2>>[1] = h1 /\ <<h1, h2>>[2] = h2
  OBVIOUS
<1>2. 1 \in Nat /\ 2 \in Nat /\ 1 + n \in Nat /\ 1 + n + 1 \in Nat
  OBVIOUS
<1>3. PICK a \in Seq(S) : a = <<x>> \o w /\ Joined(<<x>>, w, 1, n) /\ Len(a) = 1 + n
  <2>1. <<x>> \o w \in Seq(S) /\ Joined(<<x>>, w, 1, n)
    BY ONLY <1>1, <1>2, n \in Nat, w \in Seq(S), Len(w) = n, JoinedSeq, Zenon
  <2>. QED
    BY ONLY <2>1, Zenon DEF Joined
<1>4. PICK b \in Seq(S) : b = a \o <<y>> /\ Joined(a, <<y>>, 1 + n, 1) /\ Len(b) = 1 + n + 1
  <2>1. a \o <<y>> \in Seq(S) /\ Joined(a, <<y>>, 1 + n, 1)
    BY ONLY <1>1, <1>2, <1>3, a \in Seq(S), JoinedSeq, Zenon
  <2>. QED
    BY ONLY <2>1, Zenon DEF Joined
<1>5. PICK c \in Seq(S) : /\ c = b \o <<h1, h2>> /\ Joined(b, <<h1, h2>>, 1 + n + 1, 2)
                          /\ Len(c) = 1 + n + 1 + 2
  <2>1. b \o <<h1, h2>> \in Seq(S) /\ Joined(b, <<h1, h2>>, 1 + n + 1, 2)
    BY ONLY <1>1, <1>2, <1>4, b \in Seq(S), JoinedSeq, Zenon
  <2>. QED
    BY ONLY <2>1, Zenon DEF Joined
<1>6. /\ \A i \in 1 .. 1 : a[i] = <<x>>[i]
      /\ \A i \in 1 .. n : a[1 + i] = w[i]
  BY ONLY <1>3, Zenon DEF Joined
<1>7. /\ \A i \in 1 .. 1 + n : b[i] = a[i]
      /\ \A i \in 1 .. 1 : b[1 + n + i] = <<y>>[i]
  BY ONLY <1>4, Zenon DEF Joined
<1>8. /\ \A i \in 1 .. 1 + n + 1 : c[i] = b[i]
      /\ \A i \in 1 .. 2 : c[1 + n + 1 + i] = <<h1, h2>>[i]
  BY ONLY <1>5, Zenon DEF Joined
<1>9. c[1] = x /\ \A i \in 1 .. n : c[1 + i] = w[i]
  <2>1. /\ 1 \in 1 .. 1 /\ 1 \in 1 .. 1 + n /\ 1 \in 1 .. 1 + n + 1
        /\ \A i \in 1 .. n : 1 + i \in 1 .. 1 + n /\ 1 + i \in 1 .. 1 + n + 1
    OBVIOUS
  <2>. QED
    BY ONLY <1>1, <1>6, <1>7, <1>8, <2>1, Zenon
<1>10. c[n + 2] = y /\ c[n + 3] = h1 /\ c[n + 4] = h2
  <2>1. /\ 1 \in 1 .. 1 /\ 1 \in 1 .. 2 /\ 2 \in 1 .. 2 /\ 1 + n + 1 \in 1 .. 1 + n + 1
        /\ 1 + n + 1 = n + 2 /\ 1 + n + 1 + 1 = n + 3 /\ 1 + n + 1 + 2 = n + 4
    OBVIOUS
  <2>2. c[1 + n + 1] = y /\ c[1 + n + 1 + 1] = h1 /\ c[1 + n + 1 + 2] = h2
    <3>1. b[1 + n + 1] = <<y>>[1] /\ c[1 + n + 1] = b[1 + n + 1]
      BY ONLY <1>7, <1>8, <2>1
    <3>2. c[1 + n + 1 + 1] = <<h1, h2>>[1] /\ c[1 + n + 1 + 2] = <<h1, h2>>[2]
      BY ONLY <1>8, <2>1
    <3>. QED
      BY ONLY <1>1, <3>1, <3>2, Zenon
  <2>. QED
    BY ONLY <2>1, <2>2, Zenon
<1>11. f = c /\ Len(c) = n + 4
  <2>1. f = c
    BY ONLY <1>3, <1>4, <1>5, Zenon
  <2>2. 1 + n + 1 + 2 = n + 4
    OBVIOUS
  <2>. QED
    BY ONLY <1>5, <2>1, <2>2, Zenon
<1>. HIDE DEF f
<1>12. /\ f \in Seq(S) /\ Len(f) = n + 4
       /\ f[1] = x /\ \A i \in 1 .. n : f[1 + i] = w[i]
       /\ f[n + 2] = y /\ f[n + 3] = h1 /\ f[n + 4] = h2
  BY ONLY <1>9, <1>10, <1>11, c \in Seq(S), Zenon
<1>. QED
  BY <1>12 DEF f

\* A payload that leaves room for its frame is transmitted in it.
LEMMA Framed ==
  ASSUME Packets!PacketsAssumption, AreaTyped(area), NEW payload \in Seq(1 .. 255),
         Packets!Answer(payload)
  PROVE  /\ AreaTyped(area')
         /\ Len(payload) <= MAX_PACKET_SIZE - 4 => sent' = FrameOf(payload)
<1>. DEFINE m == MAX_PACKET_SIZE + 7
            string == payload \o <<0>>
            b == Packets!Put(area, 1, string)
            end == CHOOSE p \in DOMAIN b : p >= 1 /\ b[p] = 0 /\ \A q \in 1 .. p - 1 : b[q] # 0
            check == Packets!Sum([p \in 1 .. end - 1 |-> b[p]])
            tail == <<Packets!Sharp>> \o Packets!Hex2(check) \o <<0>>
            c == Packets!Put(b, 0, <<Packets!Dollar>>)
            d == Packets!Put(c, end, tail)
            size4 == <<(end + 3) % 256, (end + 3) \div 256, 0, 0>>
<1>1. PICK n \in Nat : n = Len(payload)
  BY LenProperties
<1>2. MAX_PACKET_SIZE \in Nat /\ MAX_PACKET_SIZE >= 8 /\ m \in Nat
  BY DEF Packets!PacketsAssumption
<1>3. Array(area, m)
  BY DEF AreaTyped
<1>4. /\ Len(string) = n + 1 /\ \A i \in 1 .. n : string[i] = payload[i]
      /\ string[n + 1] = 0
  <2>1. payload \in Seq(0 .. 255) /\ <<0>> \in Seq(0 .. 255)
    <3>1. payload \in [1 .. n -> 1 .. 255]
      BY <1>1, LenProperties
    <3>2. payload \in [1 .. n -> 0 .. 255]
      BY <3>1
    <3>. QED
      BY <3>2, SeqDef
  <2>2. Len(<<0>>) = 1 /\ <<0>>[1] = 0
    OBVIOUS
  <2>3. /\ Len(string) = n + 1 /\ \A i \in 1 .. n : string[i] = payload[i]
        /\ \A i \in n + 1 .. n + 1 : string[i] = <<0>>[i - n]
    BY ONLY <1>1, <2>1, <2>2, ConcatProperties, n \in Nat
  <2>4. n + 1 \in n + 1 .. n + 1 /\ n + 1 - n = 1
    OBVIOUS
  <2>5. string[n + 1] = <<0>>[1]
    <3>1. string[n + 1] = <<0>>[n + 1 - n]
      BY ONLY <2>3, <2>4
    <3>. QED
      BY ONLY <2>4, <3>1
  <2>. QED
    BY ONLY <2>2, <2>3, <2>5, Zenon
<1>5. area' = Packets!Put(d, MAX_PACKET_SIZE, size4)
  BY Zenon DEF Packets!Answer, Packets!send_buffer
<1>6. Array(b, m) /\ Array(c, m) /\ Array(d, m) /\ Array(area', m)
  <2>. HIDE DEF string, end, tail, size4, m
  <2>1. Array(b, m) /\ Array(c, m) /\ Array(d, m)
    BY ONLY <1>3, PutTyped, Zenon
  <2>. HIDE DEF d
  <2>. QED
    BY ONLY <1>5, <2>1, PutTyped, Zenon
<1>. HIDE DEF string
<1>7. ASSUME n <= MAX_PACKET_SIZE - 4
      PROVE  sent' = FrameOf(payload)
  <2>1. n + 1 <= m /\ n + 4 <= MAX_PACKET_SIZE /\ n + 1 \in Nat
    BY <1>2, <1>7
  <2>2. b[n + 1] = 0 /\ \A i \in 1 .. n : b[i] = payload[i]
    <3>1. \A i \in 1 .. n + 1 : 1 + i - 1 \in 0 .. m => b[1 + i - 1] = string[i]
      <4>1. IsPut(b, area, m, 1, string, n + 1)
        <5>. HIDE DEF m
        <5>. QED
          BY ONLY <1>2, <1>3, <1>4, <2>1, PutIn, 1 \in Nat, Zenon
      <4>. QED
        BY ONLY <4>1, Zenon DEF IsPut
    <3>2. \A i \in 1 .. n + 1 : 1 + i - 1 = i /\ i \in 0 .. m
      BY ONLY <1>2, <2>1, n \in Nat
    <3>. HIDE DEF b
    <3>3. \A i \in 1 .. n + 1 : b[i] = string[i]
      BY ONLY <3>1, <3>2
    <3>4. n + 1 \in 1 .. n + 1 /\ \A i \in 1 .. n : i \in 1 .. n + 1
      OBVIOUS
    <3>. QED
      BY ONLY <1>4, <3>3, <3>4, Zenon
  <2>3. end = n + 1
    <3>1. \A i \in 1 .. n : payload[i] # 0
      <4>1. \A i \in 1 .. n : payload[i] \in 1 .. 255
        BY <1>1, ElementOfSeq
      <4>. SUFFICES ASSUME NEW i \in 1 .. n PROVE payload[i] # 0
        OBVIOUS
      <4>2. PICK x \in 1 .. 255 : x = payload[i]
        BY ONLY <4>1, i \in 1 .. n, Zenon
      <4>3. x # 0
        BY ONLY x \in 1 .. 255
      <4>. QED
        BY ONLY <4>2, <4>3, Zenon
    <3>. HIDE DEF b, m
    <3>2. \A i \in 1 .. n : b[i] # 0
      BY ONLY <2>2, <3>1, Zenon
    <3>. QED
      BY ONLY <1>2, <1>6, <2>1, <2>2, <3>2, n \in Nat, EndFound, Zenon
  <2>4. check = Packets!Sum(payload)
    <3>1. payload = [i \in 1 .. n |-> payload[i]]
      BY <1>1
    <3>2. n + 1 - 1 = n
      OBVIOUS
    <3>. HIDE DEF b, end
    <3>3. [i \in 1 .. end - 1 |-> b[i]] = [i \in 1 .. n |-> payload[i]]
      BY ONLY <2>2, <2>3, <3>2
    <3>. QED
      BY ONLY <3>1, <3>3, Zenon
  <2>. HIDE DEF b, end, m
  <2>5. PICK h1, h2 : Packets!Hex2(check) = <<h1, h2>>
    BY ONLY Zenon DEF Packets!Hex2
  <2>. DEFINE S == {h1, h2, Packets!Sharp, Packets!Dollar} \cup 0 .. 255
  <2>6. /\ h1 \in S /\ h2 \in S /\ Packets!Sharp \in S /\ Packets!Dollar \in S /\ 0 \in S
        /\ payload \in Seq(S)
    <3>1. payload \in [1 .. n -> 1 .. 255]
      BY <1>1, LenProperties
    <3>2. 1 .. 255 \subseteq S
      OBVIOUS
    <3>. HIDE DEF S
    <3>3. payload \in [1 .. n -> S]
      BY ONLY <3>1, <3>2
    <3>4. payload \in Seq(S)
      BY ONLY <3>3, n \in Nat, SeqDef
    <3>. QED
      BY <3>4 DEF S
  <2>. HIDE DEF S, check
  <2>7. tail[1] = Packets!Sharp /\ tail[2] = h1 /\ tail[3] = h2 /\ Len(tail) = 4
    BY ONLY <2>5
  <2>. HIDE DEF tail
  <2>8. c[0] = Packets!Dollar /\ \A p \in 1 .. m : c[p] = b[p]
    <3>1. Len(<<Packets!Dollar>>) = 1 /\ <<Packets!Dollar>>[1] = Packets!Dollar
      OBVIOUS
    <3>2. /\ \A i \in 1 .. 1 : 0 + i - 1 \in 0 .. m => c[0 + i - 1] = <<Packets!Dollar>>[i]
          /\ \A p \in 0 .. m : p < 0 \/ p >= 0 + 1 => c[p] = b[p]
      <4>1. IsPut(c, b, m, 0, <<Packets!Dollar>>, 1)
        BY ONLY <1>2, <1>6, <3>1, 0 \in Nat, 1 \in Nat, PutIn, Zenon
      <4>. QED
        BY ONLY <4>1, Zenon DEF IsPut
    <3>. HIDE DEF c
    <3>3. 1 \in 1 .. 1 /\ 0 + 1 - 1 = 0 /\ 0 \in 0 .. m /\ \A p \in 1 .. m : p \in 0 .. m /\ p >= 0 + 1
      BY <1>2
    <3>. QED
      BY ONLY <3>1, <3>2, <3>3
  <2>. HIDE DEF c, d
  <2>9. /\ \A i \in 1 .. 4 : end + i - 1 \in 0 .. m => d[end + i - 1] = tail[i]
        /\ \A p \in 0 .. m : p < end \/ p >= end + 4 => d[p] = c[p]
    <3>1. end \in Nat /\ 4 \in Nat
      BY <2>1, <2>3
    <3>. QED
      <4>1. IsPut(d, c, m, end, tail, 4)
        BY ONLY <1>2, <1>6, <2>7, <3>1, PutIn, Zenon DEF d
      <4>. QED
        BY ONLY <4>1, Zenon DEF IsPut
  <2>10. /\ \A p \in 0 .. n : d[p] = c[p]
         /\ d[n + 1] = Packets!Sharp /\ d[n + 2] = h1 /\ d[n + 3] = h2
    <3>1. /\ end + 1 - 1 = n + 1 /\ end + 2 - 1 = n + 2 /\ end + 3 - 1 = n + 3
          /\ n + 1 \in 0 .. m /\ n + 2 \in 0 .. m /\ n + 3 \in 0 .. m
          /\ \A p \in 0 .. n : p \in 0 .. m /\ p < end
      BY ONLY <1>2, <2>1, <2>3, n \in Nat DEF m
    <3>2. d[end + 1 - 1] = tail[1] /\ d[end + 2 - 1] = tail[2] /\ d[end + 3 - 1] = tail[3]
      <4>1. 1 \in 1 .. 4 /\ 2 \in 1 .. 4 /\ 3 \in 1 .. 4
        OBVIOUS
      <4>. QED
        BY ONLY <2>9, <3>1, <4>1, Zenon
    <3>. QED
      BY ONLY <2>7, <2>9, <3>1, <3>2, Zenon
  <2>11. /\ \A p \in 0 .. n + 3 : area'[p] = d[p]
         /\ area'[MAX_PACKET_SIZE] = (n + 4) % 256 /\ area'[MAX_PACKET_SIZE + 1] = (n + 4) \div 256
    <3>1. Len(size4) = 4 /\ size4[1] = (n + 4) % 256 /\ size4[2] = (n + 4) \div 256
      <4>1. end + 3 = n + 4
        BY <2>3
      <4>2. Len(size4) = 4 /\ size4[1] = (end + 3) % 256 /\ size4[2] = (end + 3) \div 256
        OBVIOUS
      <4>. QED
        BY ONLY <4>1, <4>2, Zenon
    <3>. HIDE DEF size4
    <3>2. /\ \A i \in 1 .. 4 : MAX_PACKET_SIZE + i - 1 \in 0 .. m => area'[MAX_PACKET_SIZE + i - 1] = size4[i]
          /\ \A p \in 0 .. m : p < MAX_PACKET_SIZE \/ p >= MAX_PACKET_SIZE + 4 => area'[p] = d[p]
      <4>1. IsPut(area', d, m, MAX_PACKET_SIZE, size4, 4)
        BY ONLY <1>2, <1>5, <1>6, <3>1, 4 \in Nat, PutIn, Zenon
      <4>. QED
        BY ONLY <4>1, Zenon DEF IsPut
    <3>3. /\ MAX_PACKET_SIZE + 1 - 1 = MAX_PACKET_SIZE /\ MAX_PACKET_SIZE + 2 - 1 = MAX_PACKET_SIZE + 1
          /\ MAX_PACKET_SIZE \in 0 .. m /\ MAX_PACKET_SIZE + 1 \in 0 .. m
          /\ \A p \in 0 .. n + 3 : p \in 0 .. m /\ p < MAX_PACKET_SIZE
      BY ONLY <1>2, <2>1, n \in Nat DEF m
    <3>4. /\ area'[MAX_PACKET_SIZE + 1 - 1] = size4[1] /\ area'[MAX_PACKET_SIZE + 2 - 1] = size4[2]
      <4>1. 1 \in 1 .. 4 /\ 2 \in 1 .. 4
        OBVIOUS
      <4>. QED
        BY ONLY <3>2, <3>3, <4>1, Zenon
    <3>. QED
      BY ONLY <3>1, <3>2, <3>3, <3>4, Zenon
  <2>12. sent' = [p \in 1 .. n + 4 |-> area'[p - 1]]
    <3>1. ((n + 4) % 256) + 256 * ((n + 4) \div 256) = n + 4
      BY n + 4 \in Nat
    <3>2. Packets!Length(area') = n + 4
      BY ONLY <2>11, <3>1 DEF Packets!Length
    <3>3. sent' = [p \in 1 .. Packets!Length(area') |-> area'[p - 1]]
      BY DEF Packets!Answer
    <3>. QED
      BY ONLY <3>2, <3>3, Zenon
  <2>13. PICK f \in Seq(S) :
           /\ f = FrameOf(payload) /\ Len(f) = n + 4
           /\ f[1] = Packets!Dollar /\ \A i \in 1 .. n : f[1 + i] = payload[i]
           /\ f[n + 2] = Packets!Sharp /\ f[n + 3] = h1 /\ f[n + 4] = h2
    <3>1. FrameOf(payload) = <<Packets!Dollar>> \o payload \o <<Packets!Sharp>> \o <<h1, h2>>
      BY ONLY <2>4, <2>5, Zenon DEF FrameOf
    <3>2. LET f == <<Packets!Dollar>> \o payload \o <<Packets!Sharp>> \o <<h1, h2>>
          IN  /\ f \in Seq(S) /\ Len(f) = n + 4
              /\ f[1] = Packets!Dollar /\ \A i \in 1 .. n : f[1 + i] = payload[i]
              /\ f[n + 2] = Packets!Sharp /\ f[n + 3] = h1 /\ f[n + 4] = h2
      BY ONLY <1>1, <2>6, n \in Nat, FrameShape
    <3>. QED
      BY ONLY <3>1, <3>2, Zenon
  <2>14. ASSUME NEW p \in 1 .. n + 4 PROVE area'[p - 1] = f[p]
    <3>1. CASE p = 1
      <4>1. p - 1 = 0 /\ 0 \in 0 .. n + 3 /\ 0 \in 0 .. n
        BY <3>1
      <4>. QED
        BY ONLY <2>8, <2>10, <2>11, <2>13, <3>1, <4>1, Zenon
    <3>2. CASE p \in 2 .. n + 1
      <4>1. PICK i \in 1 .. n : /\ p = 1 + i /\ p - 1 = i /\ i \in 0 .. n + 3 /\ i \in 0 .. n
                                /\ i \in 1 .. m
        <5>1. p - 1 \in 1 .. n
          BY <3>2
        <5>. QED
          BY ONLY <1>2, <2>1, <5>1, p \in 1 .. n + 4, n \in Nat
      <4>2. area'[i] = d[i] /\ d[i] = c[i] /\ c[i] = b[i] /\ b[i] = payload[i] /\ f[1 + i] = payload[i]
        BY ONLY <2>2, <2>8, <2>10, <2>11, <2>13, <4>1, i \in 1 .. n, Zenon
      <4>. QED
        BY ONLY <4>1, <4>2, Zenon
    <3>3. CASE p \in n + 2 .. n + 4
      <4>1. /\ (p = n + 2 /\ p - 1 = n + 1) \/ (p = n + 3 /\ p - 1 = n + 2) \/ (p = n + 4 /\ p - 1 = n + 3)
            /\ n + 1 \in 0 .. n + 3 /\ n + 2 \in 0 .. n + 3 /\ n + 3 \in 0 .. n + 3
        BY <3>3
      <4>2. area'[n + 1] = f[n + 2]
        BY ONLY <2>10, <2>11, <2>13, <4>1, Zenon
      <4>3. area'[n + 2] = f[n + 3]
        BY ONLY <2>10, <2>11, <2>13, <4>1, Zenon
      <4>4. area'[n + 3] = f[n + 4]
        BY ONLY <2>10, <2>11, <2>13, <4>1, Zenon
      <4>. QED
        BY ONLY <4>1, <4>2, <4>3, <4>4, Zenon
    <3>. QED
      BY <3>1, <3>2, <3>3
  <2>15. f = [p \in 1 .. n + 4 |-> f[p]]
    BY ONLY <2>13, f \in Seq(S), SeqIsArray, Zenon
  <2>16. [p \in 1 .. n + 4 |-> area'[p - 1]] = [p \in 1 .. n + 4 |-> f[p]]
    BY ONLY <2>14, Zenon
  <2>. QED
    BY ONLY <2>12, <2>13, <2>15, <2>16, Zenon
<1>8. AreaTyped(area')
  BY <1>6 DEF AreaTyped
<1>. QED
  BY <1>1, <1>7, <1>8

\* What the variables hold.
PacketsTyped ==
    /\ host \in {"little", "big"} /\ target \in {"little", "big"}
    /\ memory \in [0 .. MemorySize - 1 -> 0 .. 255]
    /\ registers \in [0 .. 15 -> Word4]
    /\ AreaTyped(area)
    /\ aborted \in BOOLEAN

PacketsInv == PacketsTyped /\ AnswersAreDue

\* At the start nothing has been asked.
LEMMA PacketsInit ==
  ASSUME Packets!PacketsAssumption, Packets!Init
  PROVE  PacketsInv
<1>1. PacketsTyped
  <2>1. host \in {"little", "big"} /\ target \in {"little", "big"}
    BY DEF Packets!PacketsAssumption, Packets!Init
  <2>2. memory \in [0 .. MemorySize - 1 -> 0 .. 255]
    BY DEF Packets!Init
  <2>3. registers \in [0 .. 15 -> Word4]
    <3>1. PICK word \in Words : registers = [r \in 0 .. 15 |-> word]
      BY DEF Packets!Init
    <3>2. word \in Word4
      BY DEF Packets!PacketsAssumption, Word4
    <3>. QED
      BY ONLY <3>1, <3>2
  <2>4. AreaTyped(area)
    BY DEF Packets!Init, AreaTyped, Array
  <2>5. aborted \in BOOLEAN
    BY DEF Packets!Init
  <2>. QED
    BY <2>1, <2>2, <2>3, <2>4, <2>5 DEF PacketsTyped
<1>2. AnswersAreDue
  BY DEF Packets!Init, Packets!NoRequest, Packets!Request, AnswersAreDue, Packets!AnswersAreDue,
         Packets!WithoutRegister
<1>. QED
  BY <1>1, <1>2 DEF PacketsInv

\* An answer that is the one due is the one transmitted.
LEMMA Answered ==
  ASSUME Packets!PacketsAssumption, PacketsTyped, NEW payload \in Seq(1 .. 255),
         Packets!Answer(payload), Packets!Due' = payload, aborted' = FALSE, ~ Packets!WithoutRegister',
         request'.command = "P" =>
            registers'[Packets!Hexadecimal(request'.name)] = request'.bytes
  PROVE  AreaTyped(area') /\ AnswersAreDue'
<1>1. AreaTyped(area') /\ (Len(payload) <= MAX_PACKET_SIZE - 4 => sent' = FrameOf(payload))
  BY Framed DEF PacketsTyped
<1>2. Len(Packets!Due') <= MAX_PACKET_SIZE - 4 => Packets!WellFormed'
  BY <1>1, Zenon DEF Packets!WellFormed, FrameOf
<1>3. Packets!Hexadecimal(request.name)' = Packets!Hexadecimal(request'.name)
  BY DEF Packets!Hexadecimal
<1>. QED
  BY <1>1, <1>2, <1>3, Zenon DEF AnswersAreDue, Packets!AnswersAreDue

\* The answer to a read is the text of the bytes read.
LEMMA ReadMemoryStep ==
  ASSUME Packets!PacketsAssumption, PacketsInv, ~ aborted, Packets!read_memory
  PROVE  PacketsInv'
<1>1. PICK address \in Addresses, n \in 0 .. PacketSize \div 2 :
        /\ request' = Packets!Request("m", address, Packets!BytesFrom(address, n))
        /\ Packets!Answer(Packets!HexText(Packets!BytesFrom(address, n)))
  BY DEF Packets!read_memory
<1>2. UNCHANGED <<host, target, memory, registers>> /\ aborted' = FALSE
  BY DEF Packets!read_memory, PacketsInv, PacketsTyped
<1>3. Packets!BytesFrom(address, n) \in Seq(0 .. 255)
  <2>1. address \in Nat /\ n \in Nat /\ MemorySize \in Nat
    BY DEF Packets!PacketsAssumption
  <2>2. PICK k \in Nat : /\ k = IF address >= MemorySize THEN 0
                                ELSE IF address + n > MemorySize THEN MemorySize - address ELSE n
                         /\ k > 0 => address + k <= MemorySize
    <3>1. CASE address >= MemorySize
      BY <2>1, <3>1
    <3>2. CASE address < MemorySize /\ address + n > MemorySize
      <4>1. MemorySize - address \in Nat /\ address + (MemorySize - address) <= MemorySize
        BY ONLY <2>1, <3>2
      <4>. QED
        BY <2>1, <3>2, <4>1
    <3>3. CASE address < MemorySize /\ address + n <= MemorySize
      BY <2>1, <3>3
    <3>. QED
      BY <2>1, <3>1, <3>2, <3>3
  <2>3. Packets!BytesFrom(address, n) = [i \in 1 .. k |-> memory[address + i - 1]]
    BY ONLY <2>2, Zenon DEF Packets!BytesFrom
  <2>4. \A i \in 1 .. k : memory[address + i - 1] \in 0 .. 255
    <3>1. \A i \in 1 .. k : address + i - 1 \in 0 .. MemorySize - 1
      BY ONLY <2>1, <2>2, k \in Nat
    <3>2. memory \in [0 .. MemorySize - 1 -> 0 .. 255]
      BY DEF PacketsInv, PacketsTyped
    <3>. QED
      BY ONLY <3>1, <3>2
  <2>. QED
    BY ONLY <2>3, <2>4, k \in Nat
<1>4. Packets!HexText(Packets!BytesFrom(address, n)) \in Seq(1 .. 255)
  BY <1>3, HexChars
<1>5. Packets!Due' = Packets!HexText(Packets!BytesFrom(address, n)) /\ request'.command = "m"
  BY ONLY <1>1 DEF Packets!Due, Packets!Request
<1>6. AreaTyped(area') /\ AnswersAreDue'
  <2>1. ~ Packets!WithoutRegister'
    BY ONLY <1>5 DEF Packets!WithoutRegister
  <2>. QED
    BY <1>1, <1>2, <1>4, <1>5, <2>1, Answered DEF PacketsInv
<1>. QED
  BY <1>2, <1>6, Zenon DEF PacketsInv, PacketsTyped

\* The two readings of a number: where it has one decimal digit they are alike.
LEMMA Numbers ==
  ASSUME Packets!PacketsAssumption, NEW name \in Names
  PROVE  /\ Packets!Decimal(name) \in Nat /\ Packets!Hexadecimal(name) \in Nat
         /\ Packets!Shown(name) = Packets!Decimal(name)
<1>1. CASE name \in [1 .. 1 -> 0 .. 15]
  <2>1. Len(name) = 1 /\ name[1] \in 0 .. 15
    <3>1. Len(name) = 1
      <4>1. 1 \in Nat
        OBVIOUS
      <4>. QED
        BY ONLY <1>1, <4>1, ArrayIsSeq, Zenon
    <3>. QED
      BY ONLY <1>1, <3>1
  <2>. QED
    BY ONLY <2>1 DEF Packets!Decimal, Packets!Hexadecimal, Packets!Shown
<1>2. CASE name \in [1 .. 2 -> 0 .. 15]
  <2>1. Len(name) = 2 /\ name[1] \in 0 .. 15 /\ name[2] \in 0 .. 15
    <3>1. Len(name) = 2
      <4>1. 2 \in Nat
        OBVIOUS
      <4>. QED
        BY ONLY <1>2, <4>1, ArrayIsSeq, Zenon
    <3>. QED
      BY ONLY <1>2, <3>1
  <2>. QED
    BY ONLY <2>1 DEF Packets!Decimal, Packets!Hexadecimal, Packets!Shown
<1>. QED
  BY <1>1, <1>2 DEF Packets!PacketsAssumption

\* The 4 that arm_read_register adds to r15 is taken off again, bit 1 apart.
LEMMA FourTakenOff ==
  ASSUME NEW w \in Word4
  PROVE  /\ Packets!Plus(w, 0) = w
         /\ Packets!Plus(Packets!WithoutBit1(Packets!Plus(w, 4)), -4) = Packets!WithoutBit1(w)
         /\ Packets!WithoutBit1(w) \in Word4
<1>1. PICK a \in 0 .. 255, b \in 0 .. 255, c \in 0 .. 255, d \in 0 .. 255 :
         w[1] = a /\ w[2] = b /\ w[3] = c /\ w[4] = d
  <2>1. w[1] \in 0 .. 255 /\ w[2] \in 0 .. 255 /\ w[3] \in 0 .. 255 /\ w[4] \in 0 .. 255
    BY DEF Word4
  <2>. QED
    BY ONLY <2>1, Zenon
<1>2. w = <<a, b, c, d>>
  <2>1. w = [i \in 1 .. 4 |-> w[i]]
    BY DEF Word4
  <2>2. <<a, b, c, d>> = [i \in 1 .. 4 |-> w[i]]
    BY ONLY <1>1
  <2>. QED
    BY ONLY <2>1, <2>2
<1>3. Packets!Plus(w, 0) = <<a, b, c, d>>
  BY ONLY <1>1 DEF Packets!Plus
<1>. DEFINE Kept(e) == IF (e \div 2) % 2 = 1 THEN e - 2 ELSE e
<1>4. \A e \in 0 .. 255 : \A f, g, h : Packets!WithoutBit1(<<e, f, g, h>>) = <<Kept(e), f, g, h>>
  BY ONLY TRUE DEF Packets!WithoutBit1
<1>5. Packets!WithoutBit1(w) = <<Kept(a), b, c, d>>
  BY ONLY <1>2, <1>4
<1>6. PICK s1 \in Nat, s2 \in Nat, s3 \in Nat, s4 \in Nat :
         /\ s1 = a + 4 /\ s2 = b + s1 \div 256 /\ s3 = c + s2 \div 256 /\ s4 = d + s3 \div 256
         /\ s1 % 256 \in 0 .. 255
  OBVIOUS
<1>7. Packets!Plus(w, 4) = <<s1 % 256, s2 % 256, s3 % 256, s4 % 256>>
  BY ONLY <1>1, <1>6 DEF Packets!Plus
<1>8. Packets!WithoutBit1(Packets!Plus(w, 4)) = <<Kept(s1 % 256), s2 % 256, s3 % 256, s4 % 256>>
  <2>1. PICK e \in 0 .. 255 : e = s1 % 256
    BY ONLY <1>6
  <2>2. PICK f, g, h : f = s2 % 256 /\ g = s3 % 256 /\ h = s4 % 256
    OBVIOUS
  <2>3. Packets!WithoutBit1(<<e, f, g, h>>) = <<Kept(e), f, g, h>>
    BY ONLY <1>4, e \in 0 .. 255, Zenon
  <2>4. Packets!Plus(w, 4) = <<e, f, g, h>>
    BY ONLY <1>7, <2>1, <2>2, Zenon
  <2>. HIDE DEF Kept
  <2>. QED
    BY ONLY <2>1, <2>2, <2>3, <2>4, Zenon
<1>9. PICK t1 \in Int, t2 \in Int, t3 \in Int, t4 \in Int :
         /\ t1 = Kept(s1 % 256) - 4 /\ t2 = (s2 % 256) + t1 \div 256
         /\ t3 = (s3 % 256) + t2 \div 256 /\ t4 = (s4 % 256) + t3 \div 256
  OBVIOUS
<1>10. Packets!Plus(Packets!WithoutBit1(Packets!Plus(w, 4)), -4)
         = <<t1 % 256, t2 % 256, t3 % 256, t4 % 256>>
  <2>0. PICK v : v = Packets!WithoutBit1(Packets!Plus(w, 4))
    OBVIOUS
  <2>1. PICK e \in Int, f \in Int, g \in Int, h \in Int, m \in Int :
           e = Kept(s1 % 256) /\ f = s2 % 256 /\ g = s3 % 256 /\ h = s4 % 256 /\ m = -4
    <3>1. s2 % 256 \in Int /\ s3 % 256 \in Int /\ s4 % 256 \in Int /\ -4 \in Int
      BY ONLY <1>6
    <3>2. Kept(s1 % 256) \in Int
      BY ONLY <1>6
    <3>. HIDE DEF Kept
    <3>. QED
      BY ONLY <3>1, <3>2, Zenon
  <2>2. v[1] = e /\ v[2] = f /\ v[3] = g /\ v[4] = h
    <3>1. v = <<e, f, g, h>>
      BY ONLY <1>8, <2>0, <2>1, Zenon
    <3>. QED
      BY ONLY <3>1
  <2>3. t1 = e + m /\ t2 = f + t1 \div 256 /\ t3 = g + t2 \div 256 /\ t4 = h + t3 \div 256
    BY ONLY <1>9, <2>1
  <2>4. Packets!Plus(v, m) = <<t1 % 256, t2 % 256, t3 % 256, t4 % 256>>
    BY ONLY <2>2, <2>3 DEF Packets!Plus
  <2>. QED
    BY ONLY <2>0, <2>1, <2>4, Zenon
<1>11. t1 % 256 = Kept(a) /\ t2 % 256 = b /\ t3 % 256 = c /\ t4 % 256 = d
  BY ONLY <1>6, <1>9
<1>12. Kept(a) \in 0 .. 255
  OBVIOUS
<1>. QED
  BY ONLY <1>2, <1>3, <1>5, <1>10, <1>11, <1>12 DEF Word4

\* The answer to the read of a register is its word, in the order of the target.
LEMMA ReadRegisterStep ==
  ASSUME Packets!PacketsAssumption, PacketsInv, ~ aborted, Packets!read_register
  PROVE  PacketsInv'
<1>1. PICK name \in Names :
        /\ request' = Packets!RegisterRequest("p", name, <<>>)
        /\ \/ /\ Packets!Decimal(name) < 16
              /\ Packets!Answer(Packets!write_uint32(
                   Packets!Plus(Packets!arm_read_register(Packets!Decimal(name)),
                                IF Packets!Decimal(name) = 15 THEN -4 ELSE 0)))
              /\ UNCHANGED aborted
           \/ Packets!Decimal(name) >= 16 /\ Packets!AssertFails
  BY DEF Packets!read_register
<1>2. UNCHANGED <<host, target, memory, registers>>
  BY DEF Packets!read_register
<1>3. /\ host \in {"little", "big"} /\ target \in {"little", "big"}
      /\ registers \in [0 .. 15 -> Word4]
  BY DEF PacketsInv, PacketsTyped
<1>4. request'.command = "p" /\ request'.name = name
  BY <1>1 DEF Packets!RegisterRequest
<1>5. PICK reg \in Nat : reg = Packets!Decimal(name) /\ Packets!Shown(name) = reg
  BY Numbers
<1>6. CASE reg < 16
  <2>1. PICK w \in Word4 : w = IF reg = 15 THEN Packets!WithoutBit1(registers[15]) ELSE registers[reg]
    BY <1>3, <1>6, FourTakenOff
  <2>2. Packets!Plus(Packets!arm_read_register(reg), IF reg = 15 THEN -4 ELSE 0) = w
    <3>1. CASE reg = 15
      BY <1>3, <2>1, <3>1, FourTakenOff DEF Packets!arm_read_register
    <3>2. CASE reg # 15
      <4>1. w = registers[reg] /\ Packets!Plus(w, 0) = w
        BY <2>1, <3>2, FourTakenOff
      <4>. QED
        BY ONLY <3>2, <4>1, Zenon DEF Packets!arm_read_register
    <3>. QED
      BY ONLY <3>1, <3>2
  <2>3. Packets!Answer(Packets!write_uint32(w)) /\ UNCHANGED aborted
    <3>1. ~(Packets!Decimal(name) >= 16)
      BY ONLY <1>5, <1>6
    <3>. QED
      BY ONLY <1>1, <1>5, <2>2, <3>1, Zenon
  <2>4. Packets!write_uint32(w) = Packets!TargetText(w)
    BY <1>3, WordsCross
  <2>5. PICK payload \in Seq(1 .. 255) : payload = Packets!TargetText(w)
    <3>1. Packets!Reverse(w) \in Seq(0 .. 255) /\ w \in Seq(0 .. 255)
      BY Reversal, WordIsSeq
    <3>. QED
      BY <3>1, HexChars DEF Packets!TargetText
  <2>6. Packets!Due' = payload
    <3>1. Packets!Shown(request.name)' = reg
      BY ONLY <1>4, <1>5 DEF Packets!Shown, Packets!Hexadecimal, Packets!Decimal
    <3>2. Packets!Due' = Packets!TargetText(IF reg = 15 THEN Packets!WithoutBit1(registers[15])
                                            ELSE registers[reg])'
      BY ONLY <1>4, <3>1 DEF Packets!Due
    <3>. QED
      BY ONLY <1>2, <2>1, <2>5, <3>2, Zenon DEF Packets!TargetText, Packets!WithoutBit1
  <2>7. aborted' = FALSE
    BY <2>3 DEF PacketsInv, PacketsTyped
  <2>8. Packets!Answer(payload)
    BY ONLY <2>3, <2>4, <2>5, Zenon
  <2>9. AreaTyped(area') /\ AnswersAreDue'
    <3>1. Packets!Shown(request.name)' = reg
      BY ONLY <1>4, <1>5 DEF Packets!Shown, Packets!Hexadecimal, Packets!Decimal
    <3>2. ~ Packets!WithoutRegister'
      BY ONLY <1>4, <1>5, <1>6, <3>1 DEF Packets!WithoutRegister
    <3>. QED
      BY <1>4, <2>6, <2>7, <2>8, <3>2, Answered DEF PacketsInv
  <2>. QED
    BY <1>2, <2>7, <2>9, Zenon DEF PacketsInv, PacketsTyped
<1>7. CASE reg >= 16
  <2>1. aborted' = TRUE /\ UNCHANGED <<area, sent>>
    <3>1. ~(Packets!Decimal(name) < 16)
      BY ONLY <1>5, <1>7
    <3>. QED
      BY ONLY <1>1, <3>1, Zenon DEF Packets!AssertFails
  <2>2. Packets!Shown(request.name)' = reg
    BY ONLY <1>4, <1>5 DEF Packets!Shown, Packets!Hexadecimal, Packets!Decimal
  <2>3. AnswersAreDue'
    <3>1. reg > 15
      BY ONLY <1>5, <1>7
    <3>. QED
      BY ONLY <1>4, <2>1, <2>2, <3>1 DEF AnswersAreDue, Packets!AnswersAreDue, Packets!WithoutRegister
  <2>. QED
    BY <1>2, <2>1, <2>3, Zenon DEF PacketsInv, PacketsTyped
<1>. QED
  BY <1>6, <1>7

\* The answers without data are characters.
LEMMA FixedAnswers == Packets!Ok \in Seq(1 .. 255) /\ Packets!E02 \in Seq(1 .. 255)
BY DEF Packets!Ok, Packets!E02

\* A register takes the word that is written to it.
LEMMA WriteRegisterStep ==
  ASSUME Packets!PacketsAssumption, PacketsInv, ~ aborted, Packets!write_register
  PROVE  PacketsInv'
<1>1. PICK name \in Names, word \in Words :
        /\ request' = Packets!RegisterRequest("P", name, word)
        /\ \/ /\ Packets!Hexadecimal(name) < 16
              /\ registers' = [registers EXCEPT ![Packets!Hexadecimal(name)] =
                                 Packets!read_uint32(Packets!TargetText(word))]
              /\ Packets!Answer(Packets!Ok)
              /\ UNCHANGED aborted
           \/ Packets!Hexadecimal(name) >= 16 /\ Packets!AssertFails /\ UNCHANGED registers
  BY DEF Packets!write_register
<1>2. UNCHANGED <<host, target, memory>>
  BY DEF Packets!write_register
<1>3. /\ host \in {"little", "big"} /\ target \in {"little", "big"} /\ word \in Word4
      /\ registers \in [0 .. 15 -> Word4]
  BY DEF PacketsInv, PacketsTyped, Packets!PacketsAssumption, Word4
<1>4. request'.command = "P" /\ request'.name = name /\ request'.bytes = word
  BY <1>1 DEF Packets!RegisterRequest
<1>5. PICK reg \in Nat : reg = Packets!Hexadecimal(name)
  BY Numbers
<1>6. Packets!Hexadecimal(request.name)' = reg /\ Packets!Hexadecimal(request'.name) = reg
  BY ONLY <1>4, <1>5, Zenon DEF Packets!Hexadecimal
<1>7. CASE reg < 16
  <2>1. /\ registers' = [registers EXCEPT ![reg] = Packets!read_uint32(Packets!TargetText(word))]
        /\ Packets!Answer(Packets!Ok) /\ UNCHANGED aborted
    <3>1. ~(Packets!Hexadecimal(name) >= 16)
      BY ONLY <1>5, <1>7
    <3>. QED
      BY ONLY <1>1, <1>5, <3>1, Zenon
  <2>2. registers' = [registers EXCEPT ![reg] = word]
    BY <1>3, <2>1, WordsCross
  <2>3. registers' \in [0 .. 15 -> Word4] /\ registers'[reg] = word
    BY ONLY <1>3, <1>5, <1>7, <2>2
  <2>4. Packets!Due' = Packets!Ok
    BY ONLY <1>4 DEF Packets!Due
  <2>5. aborted' = FALSE
    BY <2>1 DEF PacketsInv, PacketsTyped
  <2>6. registers'[Packets!Hexadecimal(request'.name)] = request'.bytes
    BY ONLY <1>4, <1>6, <2>3, Zenon
  <2>7. AreaTyped(area') /\ AnswersAreDue'
    <3>1. ~ Packets!WithoutRegister'
      BY ONLY <1>4, <1>5, <1>6, <1>7 DEF Packets!WithoutRegister
    <3>. QED
      BY <2>1, <2>4, <2>5, <2>6, <3>1, FixedAnswers, Answered DEF PacketsInv
  <2>. QED
    BY <1>2, <1>3, <2>3, <2>5, <2>7, Zenon DEF PacketsInv, PacketsTyped
<1>8. CASE reg >= 16
  <2>1. aborted' = TRUE /\ UNCHANGED <<area, sent, registers>>
    <3>1. ~(Packets!Hexadecimal(name) < 16)
      BY ONLY <1>5, <1>8
    <3>. QED
      BY ONLY <1>1, <3>1, Zenon DEF Packets!AssertFails
  <2>2. AnswersAreDue'
    <3>1. reg > 15
      BY ONLY <1>5, <1>8
    <3>. QED
      BY ONLY <1>4, <1>6, <2>1, <3>1 DEF AnswersAreDue, Packets!AnswersAreDue, Packets!WithoutRegister
  <2>. QED
    BY <1>2, <2>1, <2>2, Zenon DEF PacketsInv, PacketsTyped
<1>. QED
  BY <1>7, <1>8

\* A content is written as the bytes it stands for.
Writes(address, n, bytes) ==
    /\ request' = Packets!Request("X", address, bytes)
    /\ memory' = [a \in 0 .. MemorySize - 1 |->
                    IF a - address + 1 \in 1 .. n THEN bytes[a - address + 1] ELSE memory[a]]
    /\ Packets!Answer(IF address < MemorySize /\ address + n <= MemorySize
                      THEN Packets!Ok ELSE Packets!E02)

\* write_memory_binary writes the bytes before their escape.
LEMMA WriteMemoryEffect ==
  ASSUME Packets!PacketsAssumption, PacketsTyped, Packets!write_memory_binary
  PROVE  \E address, n \in Nat : \E bytes \in [1 .. n -> 0 .. 255] : Writes(address, n, bytes)
<1>1. PICK address \in Addresses, n \in 0 .. MaxWrite : \E bytes \in [1 .. n -> Values] :
         LET content == Packets!Escaped(bytes)
             start == Packets!Start(content, n)
             fits == {i \in 1 .. n : address + i - 1 < MemorySize}
         IN  /\ memory' = [a \in DOMAIN memory |->
                    IF a - address + 1 \in fits
                    THEN Packets!ContentValue(content, start[a - address + 1]) ELSE memory[a]]
             /\ request' = Packets!Request("X", address, bytes)
             /\ Packets!Answer(IF address < MemorySize /\ fits = 1 .. n THEN Packets!Ok ELSE Packets!E02)
  BY DEF Packets!write_memory_binary
<1>2. PICK bytes \in [1 .. n -> Values] :
         LET content == Packets!Escaped(bytes)
             start == Packets!Start(content, n)
             fits == {i \in 1 .. n : address + i - 1 < MemorySize}
         IN  /\ memory' = [a \in DOMAIN memory |->
                    IF a - address + 1 \in fits
                    THEN Packets!ContentValue(content, start[a - address + 1]) ELSE memory[a]]
             /\ request' = Packets!Request("X", address, bytes)
             /\ Packets!Answer(IF address < MemorySize /\ fits = 1 .. n THEN Packets!Ok ELSE Packets!E02)
  BY ONLY <1>1, Zenon
<1>. DEFINE fits == {i \in 1 .. n : address + i - 1 < MemorySize}
            value(i) == Packets!ContentValue(Packets!Escaped(bytes), Packets!Start(Packets!Escaped(bytes), n)[i])
<1>3. /\ memory' = [a \in DOMAIN memory |-> IF a - address + 1 \in fits THEN value(a - address + 1) ELSE memory[a]]
      /\ request' = Packets!Request("X", address, bytes)
      /\ Packets!Answer(IF address < MemorySize /\ fits = 1 .. n THEN Packets!Ok ELSE Packets!E02)
  BY ONLY <1>2, Zenon
<1>4. /\ address \in Nat /\ n \in Nat /\ MemorySize \in Nat /\ bytes \in [1 .. n -> 0 .. 255]
      /\ DOMAIN memory = 0 .. MemorySize - 1
  <2>1. /\ address \in Nat /\ MaxWrite \in Nat /\ MemorySize \in Nat /\ Values \subseteq 0 .. 255
    BY DEF Packets!PacketsAssumption
  <2>2. n \in Nat
    BY <2>1
  <2>3. bytes \in [1 .. n -> 0 .. 255]
    BY ONLY <2>1, bytes \in [1 .. n -> Values]
  <2>4. DOMAIN memory = 0 .. MemorySize - 1
    BY DEF PacketsTyped
  <2>. QED
    BY ONLY <2>1, <2>2, <2>3, <2>4
<1>5. \A i \in 1 .. n : value(i) = bytes[i]
  BY ONLY <1>4, Unescaped, Zenon
<1>. HIDE DEF value
<1>6. \A a \in 0 .. MemorySize - 1 : a - address + 1 \in fits <=> a - address + 1 \in 1 .. n
  BY ONLY <1>4
<1>7. address < MemorySize /\ fits = 1 .. n <=> address < MemorySize /\ address + n <= MemorySize
  <2>1. ASSUME address < MemorySize, fits = 1 .. n PROVE address + n <= MemorySize
    <3>1. CASE n = 0
      BY <1>4, <2>1, <3>1
    <3>2. CASE n # 0
      <4>1. n \in fits
        <5>1. n \in 1 .. n
          BY ONLY <1>4, <3>2
        <5>. HIDE DEF fits
        <5>. QED
          BY ONLY <2>1, <5>1, Zenon
      <4>2. address + n - 1 < MemorySize
        BY ONLY <4>1
      <4>. QED
        BY ONLY <1>4, <4>2
    <3>. QED
      BY <3>1, <3>2
  <2>2. ASSUME address + n <= MemorySize PROVE fits = 1 .. n
    <3>1. \A i \in 1 .. n : address + i - 1 < MemorySize
      BY ONLY <1>4, <2>2
    <3>. QED
      BY ONLY <3>1
  <2>. QED
    BY <2>1, <2>2
<1>. HIDE DEF fits
<1>8. memory' = [a \in 0 .. MemorySize - 1 |->
                   IF a - address + 1 \in 1 .. n THEN bytes[a - address + 1] ELSE memory[a]]
  <2>1. ASSUME NEW a \in 0 .. MemorySize - 1
        PROVE  (IF a - address + 1 \in fits THEN value(a - address + 1) ELSE memory[a])
                 = IF a - address + 1 \in 1 .. n THEN bytes[a - address + 1] ELSE memory[a]
    BY ONLY <1>5, <1>6, a \in 0 .. MemorySize - 1, Zenon
  <2>. QED
    BY ONLY <1>3, <1>4, <2>1, Zenon
<1>9. Packets!Answer(IF address < MemorySize /\ address + n <= MemorySize THEN Packets!Ok ELSE Packets!E02)
  BY ONLY <1>3, <1>7, Zenon
<1>. QED
  BY ONLY <1>3, <1>4, <1>8, <1>9, Zenon DEF Writes

\* A binary write keeps bytes in memory and gets the answer it is due.
LEMMA WriteMemoryStep ==
  ASSUME Packets!PacketsAssumption, PacketsInv, ~ aborted, Packets!write_memory_binary
  PROVE  PacketsInv'
<1>0. PICK address \in Nat, n \in Nat : \E b \in [1 .. n -> 0 .. 255] : Writes(address, n, b)
  BY WriteMemoryEffect DEF PacketsInv
<1>1. PICK bytes \in [1 .. n -> 0 .. 255] :
           /\ request' = Packets!Request("X", address, bytes)
           /\ memory' = [a \in 0 .. MemorySize - 1 |->
                IF a - address + 1 \in 1 .. n THEN bytes[a - address + 1] ELSE memory[a]]
           /\ Packets!Answer(IF address < MemorySize /\ address + n <= MemorySize
                             THEN Packets!Ok ELSE Packets!E02)
  BY ONLY <1>0, Zenon DEF Writes
<1>2. UNCHANGED <<host, target, registers>> /\ aborted' = FALSE
  BY DEF Packets!write_memory_binary, PacketsInv, PacketsTyped
<1>3. memory' \in [0 .. MemorySize - 1 -> 0 .. 255]
  <2>1. memory \in [0 .. MemorySize - 1 -> 0 .. 255]
    BY DEF PacketsInv, PacketsTyped
  <2>. QED
    BY ONLY <1>1, <2>1, bytes \in [1 .. n -> 0 .. 255]
<1>4. PICK payload \in Seq(1 .. 255) :
         payload = IF address < MemorySize /\ address + n <= MemorySize
                   THEN Packets!Ok ELSE Packets!E02
  BY FixedAnswers
<1>5. request'.command = "X" /\ request'.address = address /\ request'.bytes = bytes /\ Len(bytes) = n
  BY <1>1, SeqDef DEF Packets!Request
<1>6. Packets!Due' = payload
  BY ONLY <1>4, <1>5 DEF Packets!Due
<1>7. AreaTyped(area') /\ AnswersAreDue'
  <2>1. ~ Packets!WithoutRegister'
    BY ONLY <1>5 DEF Packets!WithoutRegister
  <2>. QED
    BY <1>1, <1>2, <1>4, <1>5, <1>6, <2>1, Answered DEF PacketsInv
<1>. QED
  BY <1>2, <1>3, <1>7, Zenon DEF PacketsInv, PacketsTyped

\* Every request keeps the invariant.
LEMMA PacketsStep ==
  ASSUME Packets!PacketsAssumption, PacketsInv, [Packets!Next]_(Packets!vars)
  PROVE  PacketsInv'
<1>1. CASE Packets!Next
  BY <1>1, ReadMemoryStep, WriteMemoryStep, ReadRegisterStep, WriteRegisterStep DEF Packets!Next
<1>2. CASE UNCHANGED Packets!vars
  <2>1. /\ host' = host /\ target' = target /\ memory' = memory /\ registers' = registers
        /\ area' = area /\ request' = request /\ sent' = sent /\ aborted' = aborted
    BY <1>2 DEF Packets!vars
  <2>2. Packets!Due' = Packets!Due
    BY ONLY <2>1, Zenon DEF Packets!Due, Packets!TargetText, Packets!WithoutBit1, Packets!Shown,
       Packets!Hexadecimal, Packets!Decimal
  <2>3. AnswersAreDue'
    BY ONLY <2>1, <2>2, PacketsInv, Zenon
       DEF PacketsInv, AnswersAreDue, Packets!AnswersAreDue, Packets!WellFormed, Packets!WithoutRegister, Packets!Shown,
           Packets!Hexadecimal, Packets!Decimal
  <2>. QED
    BY <2>1, <2>3, Zenon DEF PacketsInv, PacketsTyped
<1>. QED
  BY <1>1, <1>2

\* A binary write changes the bytes it names and no other.
LEMMA WritesMeant ==
  ASSUME Packets!PacketsAssumption, PacketsInv, [Packets!Next]_(Packets!vars)
  PROVE  [request'.command = "X" =>
           \A a \in DOMAIN memory :
              memory'[a] = LET i == a - request'.address + 1
                           IN  IF i \in 1 .. Len(request'.bytes) THEN request'.bytes[i]
                               ELSE memory[a]]_(Packets!vars)
<1>. SUFFICES ASSUME Packets!Next, request'.command = "X", NEW a \in DOMAIN memory
              PROVE  memory'[a] = LET i == a - request'.address + 1
                                  IN  IF i \in 1 .. Len(request'.bytes) THEN request'.bytes[i]
                                      ELSE memory[a]
  OBVIOUS
<1>1. Packets!write_memory_binary
  BY DEF Packets!Next, Packets!read_memory, Packets!read_register, Packets!write_register,
         Packets!Request, Packets!RegisterRequest
<1>0. PICK address \in Nat, n \in Nat : \E b \in [1 .. n -> 0 .. 255] : Writes(address, n, b)
  BY <1>1, WriteMemoryEffect DEF PacketsInv
<1>2. PICK bytes \in [1 .. n -> 0 .. 255] :
           /\ request' = Packets!Request("X", address, bytes)
           /\ memory' = [b \in 0 .. MemorySize - 1 |->
                IF b - address + 1 \in 1 .. n THEN bytes[b - address + 1] ELSE memory[b]]
  BY ONLY <1>0, Zenon DEF Writes
<1>3. request'.address = address /\ request'.bytes = bytes /\ Len(bytes) = n
  BY <1>2, SeqDef DEF Packets!Request
<1>4. a \in 0 .. MemorySize - 1
  BY DEF PacketsInv, PacketsTyped
<1>5. memory'[a] = IF a - address + 1 \in 1 .. n THEN bytes[a - address + 1] ELSE memory[a]
  BY ONLY <1>2, <1>4
<1>. QED
  BY ONLY <1>3, <1>5, Zenon

(* A register holds the word the debugger wrote and an answer that leaves room *)
(* for its frame is transmitted as it is due, for every size of the array, of  *)
(* memory and of the words, and every pair of byte orders (gdb_protocol.c:     *)
(* read_uint32, write_uint32, gdb_send_buffer).                               *)
THEOREM AnswersFollowRequests == Packets!PacketsAssumption => (Packets!Spec => []AnswersAreDue)
<1>. SUFFICES ASSUME Packets!PacketsAssumption PROVE Packets!Spec => []AnswersAreDue
  OBVIOUS
<1>1. Packets!Init => PacketsInv
  BY PacketsInit
<1>2. PacketsInv /\ [Packets!Next]_(Packets!vars) => PacketsInv'
  BY PacketsStep
<1>3. PacketsInv => AnswersAreDue
  BY DEF PacketsInv
<1>. QED
  BY <1>1, <1>2, <1>3, PTL DEF Packets!Spec

(* A binary write leaves in memory the bytes the debugger escaped, at their    *)
(* addresses and up to the end of memory, and no other byte changes            *)
(* (gdb_protocol.c: write_memory_binary).                                     *)
THEOREM WritesArrive == Packets!PacketsAssumption => (Packets!Spec => WritesWhatIsMeant)
<1>. SUFFICES ASSUME Packets!PacketsAssumption PROVE Packets!Spec => WritesWhatIsMeant
  OBVIOUS
<1>1. Packets!Init => PacketsInv
  BY PacketsInit
<1>2. PacketsInv /\ [Packets!Next]_(Packets!vars) => PacketsInv'
  BY PacketsStep
<1>3. PacketsInv /\ [Packets!Next]_(Packets!vars) =>
         [request'.command = "X" =>
           \A a \in DOMAIN memory :
              memory'[a] = LET i == a - request'.address + 1
                           IN  IF i \in 1 .. Len(request'.bytes) THEN request'.bytes[i]
                               ELSE memory[a]]_(Packets!vars)
  BY WritesMeant
<1>. QED
  BY <1>1, <1>2, <1>3, PTL DEF Packets!Spec, WritesWhatIsMeant, Packets!WritesWhatIsMeant

-----------------------------------------------------------------------------
(* The scanner. *)

\* The states the matching loop goes to, from a state on a class of characters.
Goes(s, c) ==
    IF s = 3 THEN 13
    ELSE IF s \in {1, 2} /\ c # 0 THEN IF c \in {1, 3} THEN 4 ELSE IF c = 2 THEN 5 ELSE IF c = 7 THEN 4 ELSE c + 2
    ELSE IF c = 0 THEN 3
    ELSE IF s \in {6, 9} THEN IF c = 3 THEN 10 ELSE IF c = 4 THEN 13 ELSE 9
    ELSE IF s = 10 /\ c = 7 THEN 11
    ELSE IF s = 11 /\ c = 7 THEN 12
    ELSE IF s = 14 /\ c = 1 THEN 9 ELSE 13

\* yy_base: where the row of a state starts; the states with the empty row share one.
LEMMA Bases ==
    /\ \A s \in {1, 2} : Scan!yy_base[s] = 0
    /\ \A s \in {4, 5, 7, 8, 12, 13} : Scan!yy_base[s] = 14
    /\ Scan!yy_base[3] = 13 /\ Scan!yy_base[6] = 9 /\ Scan!yy_base[9] = 8 /\ Scan!yy_base[10] = 3
    /\ Scan!yy_base[11] = 2 /\ Scan!yy_base[14] = 7
  BY DEF Scan!yy_base, Scan!FromZero

\* yy_def: the state whose row a state shares.
LEMMA Defaults ==
    /\ \A s \in {1, 3, 4, 5, 7, 8, 10, 11, 12, 14} : Scan!yy_def[s] = 13
    /\ Scan!yy_def[2] = 1 /\ Scan!yy_def[6] = 14 /\ Scan!yy_def[9] = 14
  BY DEF Scan!yy_def, Scan!FromZero

\* yy_chk: the state an entry of yy_nxt belongs to.
LEMMA Checks ==
    /\ Scan!yy_chk[0] = 0 /\ \A i \in 1 .. 7 : Scan!yy_chk[i] = 1
    /\ Scan!yy_chk[8] = 14 /\ Scan!yy_chk[9] = 11 /\ Scan!yy_chk[10] = 10 /\ Scan!yy_chk[11] = 9
    /\ Scan!yy_chk[12] = 6 /\ Scan!yy_chk[13] = 3 /\ \A i \in 14 .. 21 : Scan!yy_chk[i] = 13
  BY DEF Scan!yy_chk, Scan!FromZero

\* yy_nxt: the states the entries lead to.
LEMMA Nexts ==
    /\ Scan!yy_nxt[1] = 4 /\ Scan!yy_nxt[2] = 5 /\ Scan!yy_nxt[3] = 4 /\ Scan!yy_nxt[4] = 6
    /\ Scan!yy_nxt[5] = 7 /\ Scan!yy_nxt[6] = 8 /\ Scan!yy_nxt[7] = 4 /\ Scan!yy_nxt[8] = 9
    /\ Scan!yy_nxt[9] = 12 /\ Scan!yy_nxt[10] = 11 /\ Scan!yy_nxt[11] = 10 /\ Scan!yy_nxt[12] = 10
    /\ Scan!yy_nxt[13] = 13 /\ Scan!yy_nxt[14] = 3 /\ \A i \in 15 .. 21 : Scan!yy_nxt[i] = 13
  BY DEF Scan!yy_nxt, Scan!FromZero

\* yy_meta: the class that a default row of the template is asked for.
LEMMA Metas ==
    Scan!yy_meta[0] = 0 /\ Scan!yy_meta[4] = 2 /\ \A c \in {1, 2, 3, 5, 6, 7} : Scan!yy_meta[c] = 1
  BY DEF Scan!yy_meta, Scan!FromZero

\* yy_accept: the rule of each state that ends a token.
LEMMA Accepts ==
    /\ \A s \in {1, 2, 9, 10, 11, 13} : Scan!yy_accept[s] = 0
    /\ \A s \in {4, 6} : Scan!yy_accept[s] = 4
    /\ Scan!yy_accept[3] = 6 /\ Scan!yy_accept[5] = 5 /\ Scan!yy_accept[7] = 1 /\ Scan!yy_accept[8] = 2
    /\ Scan!yy_accept[12] = 3
  BY DEF Scan!yy_accept, Scan!FromZero

\* The row of a state through its own entries and those of its default.
Looks(f) == [s \in 1 .. 14 |-> [c \in 0 .. 7 |->
               IF Scan!yy_chk[Scan!yy_base[s] + c] = s
               THEN Scan!yy_nxt[Scan!yy_base[s] + c]
               ELSE f[Scan!yy_def[s]][IF Scan!yy_def[s] >= 14 THEN Scan!yy_meta[c] ELSE c]]]

\* The transitions asked for, as a table.
Rows == [s \in 1 .. 14 |-> [c \in 0 .. 7 |-> Goes(s, c)]]

\* The transitions asked for satisfy the equation that the compressed tables give.
LEMMA RowsFit == Rows = Looks(Rows)
<1>. SUFFICES ASSUME NEW s \in 1 .. 14, NEW c \in 0 .. 7
              PROVE  Goes(s, c) = IF Scan!yy_chk[Scan!yy_base[s] + c] = s
                                  THEN Scan!yy_nxt[Scan!yy_base[s] + c]
                                  ELSE Rows[Scan!yy_def[s]][IF Scan!yy_def[s] >= 14 THEN Scan!yy_meta[c] ELSE c]
  BY Zenon DEF Rows, Looks
<1>0. \A t \in 1 .. 14, d \in 0 .. 7 : Rows[t][d] = Goes(t, d)
  BY DEF Rows
<1>1. CASE s = 13
  BY <1>1, Bases, Checks, Nexts DEF Goes
<1>2. CASE s \in {4, 5, 7, 8, 12}
  BY <1>0, <1>2, Bases, Checks, Nexts, Defaults DEF Goes
<1>3. CASE s = 3
  BY <1>0, <1>3, Bases, Checks, Nexts, Defaults DEF Goes
<1>4. CASE s = 1
  BY <1>0, <1>4, Bases, Checks, Nexts, Defaults DEF Goes
<1>5. CASE s = 2
  BY <1>0, <1>5, Bases, Checks, Nexts, Defaults DEF Goes
<1>6. CASE s = 14
  BY <1>0, <1>6, Bases, Checks, Nexts, Defaults DEF Goes
<1>7. CASE s = 6
  BY <1>0, <1>7, Bases, Checks, Nexts, Defaults, Metas DEF Goes
<1>8. CASE s = 9
  BY <1>0, <1>8, Bases, Checks, Nexts, Defaults, Metas DEF Goes
<1>9. CASE s = 10
  BY <1>0, <1>9, Bases, Checks, Nexts, Defaults DEF Goes
<1>10. CASE s = 11
  BY <1>0, <1>10, Bases, Checks, Nexts, Defaults DEF Goes
<1>. QED
  BY <1>1, <1>2, <1>3, <1>4, <1>5, <1>6, <1>7, <1>8, <1>9, <1>10

\* One entry of the equation.
Row(f, g, s, c) ==
    f[s][c] = IF Scan!yy_chk[Scan!yy_base[s] + c] = s
              THEN Scan!yy_nxt[Scan!yy_base[s] + c]
              ELSE g[Scan!yy_def[s]][IF Scan!yy_def[s] >= 14 THEN Scan!yy_meta[c] ELSE c]

\* What a table made of the rows of another holds.
LEMMA LooksAt ==
  ASSUME NEW f, NEW g, f = Looks(g), NEW s \in 1 .. 14, NEW c \in 0 .. 7
  PROVE  Row(f, g, s, c)
  BY DEF Looks, Row

\* What the compressed tables say, row by row.
LEMMA Transitions ==
  \A s \in {1, 3, 4, 6, 9, 10, 11}, c \in 0 .. 7 : Scan!Transition[s][c] = Goes(s, c)
<1>1. Scan!Transition = Looks(Scan!Transition)
  BY RowsFit, Zenon DEF Scan!Transition, Looks
<1>0. \A s \in 1 .. 14, c \in 0 .. 7 : Row(Scan!Transition, Scan!Transition, s, c)
  BY ONLY <1>1, LooksAt, Zenon
<1>2. \A s \in 1 .. 14, c \in 0 .. 7 :
        Scan!Transition[s][c] = IF Scan!yy_chk[Scan!yy_base[s] + c] = s
               THEN Scan!yy_nxt[Scan!yy_base[s] + c]
               ELSE Scan!Transition[Scan!yy_def[s]][IF Scan!yy_def[s] >= 14 THEN Scan!yy_meta[c] ELSE c]
  BY ONLY <1>0, Zenon DEF Row
<1>. DEFINE T(s, c) == Scan!Transition[s][c]
<1>3. ASSUME NEW s \in 1 .. 14, NEW c \in 0 .. 7
      PROVE  T(s, c) = IF Scan!yy_chk[Scan!yy_base[s] + c] = s
                       THEN Scan!yy_nxt[Scan!yy_base[s] + c]
                       ELSE T(Scan!yy_def[s], IF Scan!yy_def[s] >= 14 THEN Scan!yy_meta[c] ELSE c)
  BY ONLY <1>2, <1>3, Zenon
<1>. HIDE DEF T
<1>4. \A c \in 0 .. 7 : T(13, c) = Goes(13, c)
  BY ONLY <1>3, Bases, Checks, Nexts DEF Goes
<1>5. \A c \in 0 .. 7 : T(14, c) = Goes(14, c)
  BY ONLY <1>3, <1>4, Bases, Checks, Nexts, Defaults DEF Goes
<1>6. \A c \in 0 .. 7 : T(1, c) = Goes(1, c)
  BY ONLY <1>3, <1>4, Bases, Checks, Nexts, Defaults DEF Goes
<1>7. \A c \in 0 .. 7 : T(3, c) = Goes(3, c)
  BY ONLY <1>3, <1>4, Bases, Checks, Nexts, Defaults DEF Goes
<1>8. \A c \in 0 .. 7 : T(4, c) = Goes(4, c)
  BY ONLY <1>3, <1>4, Bases, Checks, Nexts, Defaults DEF Goes
<1>9. \A c \in 0 .. 7 : T(6, c) = Goes(6, c)
  BY ONLY <1>3, <1>5, Bases, Checks, Nexts, Defaults, Metas DEF Goes
<1>10. \A c \in 0 .. 7 : T(9, c) = Goes(9, c)
  BY ONLY <1>3, <1>5, Bases, Checks, Nexts, Defaults, Metas DEF Goes
<1>11. \A c \in 0 .. 7 : T(10, c) = Goes(10, c)
  BY ONLY <1>3, <1>4, Bases, Checks, Nexts, Defaults DEF Goes
<1>12. \A c \in 0 .. 7 : T(11, c) = Goes(11, c)
  BY ONLY <1>3, <1>4, Bases, Checks, Nexts, Defaults DEF Goes
<1>13. \A s \in {1, 3, 4, 6, 9, 10, 11}, c \in 0 .. 7 : T(s, c) = Goes(s, c)
  BY ONLY <1>6, <1>7, <1>8, <1>9, <1>10, <1>11, <1>12
<1>. QED
  BY ONLY <1>13, Zenon DEF T

\* What Packet says of the n first characters of a word.
PacketAt(w, n) ==
    /\ n >= 4 /\ w[1] = 4
    /\ \A i \in 2 .. n - 3 : w[i] \notin {3, 4}
    /\ w[n - 2] = 3 /\ w[n - 1] = 7 /\ w[n] = 7

\* A word continues another.
Continues(v, w) == Len(w) <= Len(v) /\ \A i \in 1 .. Len(w) : v[i] = w[i]

\* A packet, seen as the beginning of a word that is the whole word.
LEMMA PacketIs ==
  ASSUME NEW w \in Seq(0 .. 7)
  PROVE  Scan!Tokens!Packet(w) <=> PacketAt(w, Len(w))
<1>1. Len(w) \in Nat
  OBVIOUS
<1>. QED
  BY <1>1 DEF Scan!Tokens!Packet, PacketAt, Scan!Tokens!Dollar, Scan!Tokens!Hash, Scan!Tokens!Hex

\* The beginning of a word, and when it is a packet.
LEMMA SubPacket ==
  ASSUME NEW w \in Seq(0 .. 7), NEW n \in 1 .. Len(w)
  PROVE  /\ SubSeq(w, 1, n) \in Seq(0 .. 7) /\ Len(SubSeq(w, 1, n)) = n
         /\ \A i \in 1 .. n : SubSeq(w, 1, n)[i] = w[i]
         /\ Scan!Tokens!Packet(SubSeq(w, 1, n)) <=> PacketAt(w, n)
<1>1. n \in Nat /\ Len(w) \in Nat /\ \A i \in 1 .. n : w[i] \in 0 .. 7
  BY ElementOfSeq
<1>. DEFINE v == SubSeq(w, 1, n)
<1>2. v \in Seq(0 .. 7) /\ Len(v) = n /\ \A i \in 1 .. n : v[i] = w[i]
  BY <1>1, SubSeqProperties
<1>. HIDE DEF v
<1>3. Scan!Tokens!Packet(v) <=> PacketAt(v, n)
  BY <1>2, PacketIs
<1>4. PacketAt(v, n) <=> PacketAt(w, n)
  <2>1. n >= 4 => /\ \A i \in 2 .. n - 3 : i \in 1 .. n
                  /\ 1 \in 1 .. n /\ n - 2 \in 1 .. n /\ n - 1 \in 1 .. n /\ n \in 1 .. n
    BY <1>1
  <2>. QED
    BY ONLY <2>1, <1>2, Zenon DEF PacketAt
<1>. QED
  BY <1>2, <1>3, <1>4 DEF v

\* The first # or $ after a $ is the # of the packet, if there is one.
LEMMA HashPlace ==
  ASSUME NEW w \in Seq(0 .. 7), NEW v \in Seq(0 .. 7), Continues(v, w), NEW n \in 1 .. Len(v),
         NEW h \in 2 .. Len(w), \A i \in 2 .. h - 1 : w[i] \notin {3, 4}, w[h] \in {3, 4},
         PacketAt(v, n)
  PROVE  h = n - 2 /\ h + 1 = n - 1 /\ h + 2 = n
<1>1. Len(w) \in Nat /\ Len(v) \in Nat /\ h \in Nat /\ n \in Nat /\ h <= Len(w) /\ Len(w) <= Len(v)
  BY DEF Continues
<1>2. n >= 4 /\ v[n - 2] = 3 /\ v[n - 1] = 7 /\ v[n] = 7 /\ \A i \in 2 .. n - 3 : v[i] \notin {3, 4}
  BY DEF PacketAt
<1>3. \A i \in 1 .. Len(w) : v[i] = w[i]
  BY DEF Continues
<1>4. ~(h < n - 2)
  BY ONLY <1>1, <1>2, <1>3, w[h] \in {3, 4}, h \in 2 .. Len(w)
<1>5. ~(h > n - 2)
  <2>. SUFFICES ASSUME h > n - 2 PROVE FALSE
    OBVIOUS
  <2>1. n - 2 \in 2 .. h - 1 /\ n - 2 \in 1 .. Len(w)
    BY ONLY <1>1, <1>2, h > n - 2
  <2>. QED
    BY ONLY <2>1, <1>2, <1>3, \A i \in 2 .. h - 1 : w[i] \notin {3, 4}
<1>. QED
  BY ONLY <1>1, <1>4, <1>5

\* A $ whose next # or $ begins no end of a packet begins no packet.
LEMMA Dead ==
  ASSUME NEW w \in Seq(0 .. 7), NEW v \in Seq(0 .. 7), Continues(v, w), NEW n \in 1 .. Len(v),
         NEW h \in 2 .. Len(w), \A i \in 2 .. h - 1 : w[i] \notin {3, 4}, w[h] \in {3, 4},
         \/ w[h] = 4
         \/ h + 1 <= Len(w) /\ w[h + 1] # 7
         \/ h + 2 <= Len(w) /\ w[h + 2] # 7
  PROVE  ~PacketAt(v, n)
<1>. SUFFICES ASSUME PacketAt(v, n) PROVE FALSE
  OBVIOUS
<1>1. Len(w) \in Nat /\ Len(v) \in Nat /\ h \in Nat /\ n \in Nat /\ h <= Len(w) /\ Len(w) <= Len(v)
  BY DEF Continues
<1>2. n >= 4 /\ v[n - 2] = 3 /\ v[n - 1] = 7 /\ v[n] = 7
  BY DEF PacketAt
<1>3. \A i \in 1 .. Len(w) : v[i] = w[i]
  BY DEF Continues
<1>6. h = n - 2 /\ h + 1 = n - 1 /\ h + 2 = n
  BY HashPlace
<1>7. w[h] = 3 /\ (h + 1 <= Len(w) => w[h + 1] = 7) /\ (h + 2 <= Len(w) => w[h + 2] = 7)
  <2>1. h \in 1 .. Len(w) /\ (h + 1 <= Len(w) => h + 1 \in 1 .. Len(w)) /\ (h + 2 <= Len(w) => h + 2 \in 1 .. Len(w))
    BY ONLY <1>1
  <2>. QED
    BY ONLY <2>1, <1>2, <1>3, <1>6, Zenon
<1>. QED
  BY ONLY <1>7,
          \/ w[h] = 4
          \/ h + 1 <= Len(w) /\ w[h + 1] # 7
          \/ h + 2 <= Len(w) /\ w[h + 2] # 7

\* The first token of a word none of whose beginnings is a packet.
LEMMA NoPacket ==
  ASSUME NEW w \in Seq(0 .. 7), \A n \in 4 .. Len(w) : ~PacketAt(w, n)
  PROVE  Scan!Tokens!FirstLength(w) = 1
<1>1. \A n \in 4 .. Len(w) : n \in 1 .. Len(w)
  OBVIOUS
<1>2. {n \in 4 .. Len(w) : Scan!Tokens!Packet(SubSeq(w, 1, n))} = {}
  BY ONLY <1>1, SubPacket, w \in Seq(0 .. 7), \A n \in 4 .. Len(w) : ~PacketAt(w, n), Zenon
<1>. QED
  BY ONLY <1>2, Zenon DEF Scan!Tokens!FirstLength

\* The rests that make a packet.
Rests == {<<Scan!Tokens!Hash, Scan!Tokens!Hex, Scan!Tokens!Hex>>,
          <<Scan!Tokens!Hex, Scan!Tokens!Hex>>, <<Scan!Tokens!Hex>>}

\* A word that no rest makes a packet.
LEMMA Complete ==
  ASSUME NEW w \in Seq(0 .. 7),
         \A v \in Seq(0 .. 7) : Continues(v, w) /\ Len(v) > Len(w) => ~PacketAt(v, Len(v))
  PROVE  ~Scan!Tokens!Incomplete(w)
<1>. SUFFICES ASSUME NEW rest \in Rests, Scan!Tokens!Packet(w \o rest) PROVE FALSE
  <2>1. Scan!Tokens!Incomplete(w) => \E rest \in Rests : Scan!Tokens!Packet(w \o rest)
    BY Zenon DEF Rests, Scan!Tokens!Incomplete
  <2>. QED
    BY <2>1, Zenon
<1>1. rest \in Seq(0 .. 7) /\ Len(rest) \in {1, 2, 3}
  <2>1. rest = <<3, 7, 7>> \/ rest = <<7, 7>> \/ rest = <<7>>
    BY Zenon DEF Rests, Scan!Tokens!Hash, Scan!Tokens!Hex
  <2>3. <<3, 7, 7>> \in Seq(0 .. 7) /\ Len(<<3, 7, 7>>) = 3
    OBVIOUS
  <2>4. <<7, 7>> \in Seq(0 .. 7) /\ Len(<<7, 7>>) = 2
    OBVIOUS
  <2>5. <<7>> \in Seq(0 .. 7) /\ Len(<<7>>) = 1
    OBVIOUS
  <2>. QED
    BY ONLY <2>1, <2>3, <2>4, <2>5, Zenon
<1>. HIDE DEF Rests
<1>2. PICK v : v = w \o rest
  OBVIOUS
<1>3. v \in Seq(0 .. 7)
  BY ONLY <1>1, <1>2, w \in Seq(0 .. 7), ConcatProperties, Zenon
<1>4. Len(v) = Len(w) + Len(rest)
  BY ONLY <1>1, <1>2, w \in Seq(0 .. 7), ConcatProperties, Zenon
<1>5. \A i \in 1 .. Len(w) + Len(rest) : v[i] = IF i <= Len(w) THEN w[i] ELSE rest[i - Len(w)]
  BY ONLY <1>1, <1>2, w \in Seq(0 .. 7), ConcatProperties, Zenon
<1>6. Continues(v, w) /\ Len(v) > Len(w)
  <2>1. Len(w) \in Nat /\ Len(rest) \in Nat \ {0}
    <3>1. Len(w) \in Nat
      OBVIOUS
    <3>2. PICK r : r = Len(rest) /\ r \in {1, 2, 3}
      BY ONLY <1>1, Zenon
    <3>3. r \in Nat \ {0}
      BY ONLY <3>2
    <3>. QED
      BY ONLY <3>1, <3>2, <3>3, Zenon
  <2>2. PICK a \in Nat, b \in Nat \ {0} : a = Len(w) /\ b = Len(rest)
    BY ONLY <2>1
  <2>3. Len(v) = a + b /\ \A i \in 1 .. a + b : v[i] = IF i <= a THEN w[i] ELSE rest[i - a]
    BY ONLY <1>4, <1>5, <2>2, Zenon
  <2>4. a <= a + b /\ a + b > a /\ \A i \in 1 .. a : i \in 1 .. a + b /\ i <= a
    BY ONLY a \in Nat, b \in Nat \ {0}
  <2>5. a <= Len(v) /\ Len(v) > a /\ \A i \in 1 .. a : v[i] = w[i]
    BY ONLY <2>3, <2>4, Zenon
  <2>. QED
    BY ONLY <2>2, <2>5, Zenon DEF Continues
<1>7. PacketAt(v, Len(v))
  BY ONLY <1>2, <1>3, PacketIs, Scan!Tokens!Packet(w \o rest), Zenon
<1>. QED
  BY <1>3, <1>6, <1>7

\* No # and no $ between two places.
Clean(w, a, b) == \A i \in a .. b : w[i] \notin {3, 4}

\* The automaton has read the k first characters of a word, without an end to it.
Read(w, k) ==
    \/ k = 0
    \/ k = 1 /\ w[1] \in {0, 4}
    \/ k >= 2 /\ w[1] = 4 /\ Clean(w, 2, k)
    \/ k >= 2 /\ w[1] = 4 /\ Clean(w, 2, k - 1) /\ w[k] = 3
    \/ k >= 3 /\ w[1] = 4 /\ Clean(w, 2, k - 2) /\ w[k - 1] = 3 /\ w[k] = 7

\* The state it is in.
StateOf(w, k) ==
    IF k = 0 THEN 1
    ELSE IF k = 1 THEN IF w[1] = 0 THEN 4 ELSE 6
    ELSE IF w[k] = 3 THEN 10
    ELSE IF w[k - 1] = 3 THEN 11 ELSE 9

\* The class a character of a text is read as.
Class(c) == IF c = 0 THEN 1 ELSE c

\* The rows of the states that a text is read in.
LEMMA RowsGo ==
  /\ Goes(1, 4) = 6 /\ Goes(1, 1) = 4
  /\ \A c \in 1 .. 7 :
       /\ Goes(4, c) = 13
       /\ Goes(6, c) = IF c = 3 THEN 10 ELSE IF c = 4 THEN 13 ELSE 9
       /\ Goes(9, c) = IF c = 3 THEN 10 ELSE IF c = 4 THEN 13 ELSE 9
       /\ Goes(10, c) = IF c = 7 THEN 11 ELSE 13
       /\ Goes(11, c) = IF c = 7 THEN 12 ELSE 13
  BY DEF Goes

\* What has been read of a word of two characters or more.
LEMMA ReadParts ==
  ASSUME NEW w \in Seq(0 .. 7), NEW k \in 2 .. Len(w), Read(w, k)
  PROVE  /\ w[1] = 4
         /\ \/ Clean(w, 2, k) /\ StateOf(w, k) = 9
            \/ Clean(w, 2, k - 1) /\ w[k] = 3 /\ StateOf(w, k) = 10
            \/ k >= 3 /\ Clean(w, 2, k - 2) /\ w[k - 1] = 3 /\ w[k] = 7 /\ StateOf(w, k) = 11
<1>1. k \in Nat /\ k >= 2
  OBVIOUS
<1>2. w[1] = 4
  BY <1>1 DEF Read
<1>3. CASE Clean(w, 2, k)
  <2>1. w[k] # 3 /\ w[k - 1] # 3
    <3>1. k \in 2 .. k /\ (k = 2 => k - 1 = 1) /\ (k # 2 => k - 1 \in 2 .. k)
      BY <1>1
    <3>. QED
      BY <1>2, <1>3, <3>1 DEF Clean
  <2>. QED
    BY <1>1, <1>2, <1>3, <2>1 DEF StateOf
<1>4. CASE Clean(w, 2, k - 1) /\ w[k] = 3
  BY <1>1, <1>2, <1>4 DEF StateOf
<1>5. CASE k >= 3 /\ Clean(w, 2, k - 2) /\ w[k - 1] = 3 /\ w[k] = 7
  BY <1>1, <1>2, <1>5 DEF StateOf
<1>. QED
  BY <1>1, <1>3, <1>4, <1>5 DEF Read

\* From the beginning of a text the automaton goes on, or a token ends.
LEMMA ReadOn ==
  ASSUME NEW w \in Seq(0 .. 7), NEW k \in 0 .. Len(w) - 1, Read(w, k), NEW t,
         t = Goes(StateOf(w, k), Class(w[k + 1])),
         t \in {6, 9, 10, 11} \/ (t = 4 /\ w[k + 1] = 0)
  PROVE  Read(w, k + 1) /\ StateOf(w, k + 1) = t
<1>0. k \in Nat /\ w[k + 1] \in 0 .. 7 /\ Class(w[k + 1]) \in 1 .. 7
  BY ElementOfSeq, Len(w) \in Nat DEF Class
<1>1. CASE k = 0
  BY <1>0, <1>1 DEF Read, StateOf, Goes, Class
<1>2. CASE k = 1
  <2>1. w[1] = 4 /\ StateOf(w, 1) = 6
    BY <1>0, <1>2 DEF Read, StateOf, Goes
  <2>2. t = IF w[2] = 3 THEN 10 ELSE 9
    BY <1>0, <1>2, <2>1 DEF Goes, Class
  <2>3. w[2] # 4
    BY <1>0, <1>2, <2>1 DEF Goes, Class
  <2>4. Clean(w, 2, 1) /\ (w[2] # 3 => Clean(w, 2, 2))
    BY <2>3 DEF Clean
  <2>. QED
    BY <1>2, <2>1, <2>2, <2>3, <2>4 DEF Read, StateOf
<1>3. CASE k >= 2
  <2>0. k \in 2 .. Len(w)
    BY <1>0, <1>3, Len(w) \in Nat
  <2>1. /\ w[1] = 4
        /\ \/ Clean(w, 2, k) /\ StateOf(w, k) = 9
           \/ Clean(w, 2, k - 1) /\ w[k] = 3 /\ StateOf(w, k) = 10
           \/ k >= 3 /\ Clean(w, 2, k - 2) /\ w[k - 1] = 3 /\ w[k] = 7 /\ StateOf(w, k) = 11
    BY <2>0, ReadParts
  <2>2. CASE Clean(w, 2, k) /\ StateOf(w, k) = 9
    <3>1. t = IF w[k + 1] = 3 THEN 10 ELSE 9
      BY <1>0, <2>2 DEF Goes, Class
    <3>2. w[k + 1] # 4
      BY <1>0, <2>2 DEF Goes, Class
    <3>3. w[k + 1] # 3 => Clean(w, 2, k + 1)
      BY <1>0, <2>2, <3>2 DEF Clean
    <3>4. w[k] # 3 /\ k + 1 - 1 = k /\ k + 1 >= 2
      BY <1>0, <1>3, <2>2 DEF Clean
    <3>5. Read(w, k + 1)
      BY ONLY <1>0, <2>1, <2>2, <3>3, <3>4 DEF Read
    <3>. QED
      BY ONLY <1>0, <1>3, <3>1, <3>4, <3>5 DEF StateOf
  <2>3. CASE Clean(w, 2, k - 1) /\ w[k] = 3 /\ StateOf(w, k) = 10
    <3>1. t = 11 /\ w[k + 1] = 7
      BY <1>0, <2>3 DEF Goes, Class
    <3>2. k + 1 - 1 = k /\ k + 1 - 2 = k - 1 /\ k + 1 >= 3
      BY <1>0, <1>3
    <3>3. Read(w, k + 1)
      BY ONLY <1>0, <2>1, <2>3, <3>1, <3>2 DEF Read
    <3>. QED
      BY ONLY <1>0, <1>3, <2>3, <3>1, <3>2, <3>3 DEF StateOf
  <2>4. CASE StateOf(w, k) = 11
    BY <1>0, <2>4 DEF Goes, Class
  <2>. QED
    BY <2>1, <2>2, <2>3, <2>4
<1>. QED
  BY <1>0, <1>1, <1>2, <1>3

\* What has been read was read from its beginnings, one character after the other.
LEMMA ReadBefore ==
  ASSUME NEW w \in Seq(0 .. 7), NEW n \in 0 .. Len(w), Read(w, n), NEW i \in 0 .. n - 1
  PROVE  /\ Read(w, i)
         /\ Goes(StateOf(w, i), Class(w[i + 1])) = StateOf(w, i + 1)
<1>0. /\ i \in Nat /\ n \in Nat /\ Len(w) \in Nat /\ i + 1 \in 1 .. Len(w) /\ n <= Len(w)
      /\ w[i + 1] \in 0 .. 7 /\ Class(w[i + 1]) \in 1 .. 7
  <2>1. Len(w) \in Nat
    OBVIOUS
  <2>2. i \in Nat /\ n \in Nat /\ i + 1 \in 1 .. Len(w) /\ n <= Len(w)
    BY <2>1
  <2>3. w[i + 1] \in 0 .. 7
    BY ONLY <2>2, ElementOfSeq, w \in Seq(0 .. 7), Zenon
  <2>. QED
    BY <2>1, <2>2, <2>3 DEF Class
<1>1. CASE n = 1
  <2>1. i = 0 /\ w[1] \in {0, 4}
    BY <1>0, <1>1 DEF Read
  <2>. QED
    BY <1>0, <2>1 DEF Read, StateOf, Goes, Class
<1>2. CASE n >= 2
  <2>1. n \in 2 .. Len(w)
    BY <1>0, <1>2
  <2>2. /\ w[1] = 4
        /\ \/ Clean(w, 2, n) /\ StateOf(w, n) = 9
           \/ Clean(w, 2, n - 1) /\ w[n] = 3 /\ StateOf(w, n) = 10
           \/ n >= 3 /\ Clean(w, 2, n - 2) /\ w[n - 1] = 3 /\ w[n] = 7 /\ StateOf(w, n) = 11
    BY <2>1, ReadParts
  <2>3. Read(w, i)
    <3>1. CASE i = 0
      BY <3>1 DEF Read
    <3>2. CASE i = 1
      BY <2>2, <3>2 DEF Read
    <3>3. CASE i >= 2
      <4>1. Clean(w, 2, n) \/ Clean(w, 2, n - 1) => Clean(w, 2, i)
        BY <1>0 DEF Clean
      <4>2. Clean(w, 2, n - 2) => i = n - 1 \/ Clean(w, 2, i)
        BY <1>0 DEF Clean
      <4>3. i = n - 1 => i - 1 = n - 2
        BY <1>0
      <4>. QED
        BY ONLY <2>2, <3>3, <4>1, <4>2, <4>3, Zenon DEF Read
    <3>. QED
      BY <1>0, <3>1, <3>2, <3>3
  <2>4. CASE i = 0
    <3>1. StateOf(w, i) = 1 /\ StateOf(w, i + 1) = 6 /\ Class(w[i + 1]) = 4
      BY <2>2, <2>4 DEF StateOf, Class
    <3>2. Goes(1, 4) = 6
      BY RowsGo
    <3>. QED
      BY ONLY <2>3, <3>1, <3>2, Zenon
  <2>5. CASE i = 1
    <3>1. w[2] # 4
      BY <1>0, <1>2, <2>2, <2>5 DEF Clean
    <3>. QED
      <4>1. StateOf(w, i) = 6 /\ StateOf(w, i + 1) = IF w[2] = 3 THEN 10 ELSE 9
        BY <2>2, <2>5 DEF StateOf
      <4>2. PICK c \in 1 .. 7 : c = Class(w[i + 1]) /\ (c = 3 <=> w[2] = 3) /\ c # 4
        BY <1>0, <2>5, <3>1 DEF Class
      <4>3. Goes(6, c) = IF w[2] = 3 THEN 10 ELSE 9
        BY ONLY <4>2, RowsGo
      <4>. QED
        BY ONLY <2>3, <4>1, <4>2, <4>3, Zenon
  <2>6. CASE i >= 2
    <3>1. w[i + 1] # 4 /\ (w[i] = 3 => i = n - 1 /\ w[i + 1] = 7) /\ w[i - 1] # 3
      <4>1. CASE Clean(w, 2, n)
        BY <1>0, <2>2, <2>6, <4>1 DEF Clean
      <4>2. CASE Clean(w, 2, n - 1) /\ w[n] = 3
        BY <1>0, <2>2, <2>6, <4>2 DEF Clean
      <4>3. CASE n >= 3 /\ Clean(w, 2, n - 2) /\ w[n - 1] = 3 /\ w[n] = 7
        BY <1>0, <2>2, <2>6, <4>3 DEF Clean
      <4>. QED
        BY <2>2, <4>1, <4>2, <4>3
    <3>2. StateOf(w, i) = IF w[i] = 3 THEN 10 ELSE 9
      BY <1>0, <2>6, <3>1 DEF StateOf
    <3>3. StateOf(w, i + 1) = IF w[i + 1] = 3 THEN 10 ELSE IF w[i] = 3 THEN 11 ELSE 9
      BY <1>0, <2>6 DEF StateOf
    <3>4. w[i] = 3 => w[i + 1] # 3
      BY <3>1
    <3>. QED
      <4>1. PICK c \in 1 .. 7 : c = Class(w[i + 1]) /\ (c = 3 <=> w[i + 1] = 3) /\ c # 4 /\ (w[i] = 3 => c = 7)
        BY <1>0, <3>1 DEF Class
      <4>2. Goes(10, 7) = 11 /\ Goes(9, c) = IF c = 3 THEN 10 ELSE 9
        BY ONLY <4>1, RowsGo
      <4>. QED
        BY ONLY <2>3, <4>1, <4>2, <3>2, <3>3, <3>4, Zenon
  <2>. QED
    BY <1>0, <2>3, <2>4, <2>5, <2>6
<1>. QED
  BY <1>0, <1>1, <1>2

\* What the automaton remembers, and its own state with it.
Matched == [state : 1 .. 13, cpos : Nat]
Automaton == [state : 1 .. 13, last : Matched]

\* One turn of the automaton in a state a text is read in.
LEMMA Turns ==
  ASSUME NEW d, d.state \in {1, 3, 4, 6, 9, 10, 11}, NEW p, NEW c \in 0 .. 7
  PROVE  Scan!Turn(d, p, c) = [state |-> Goes(d.state, c),
                               last |-> IF d.state \in {3, 4, 6} THEN [state |-> d.state, cpos |-> p] ELSE d.last]
<1>1. PICK s \in {1, 3, 4, 6, 9, 10, 11} : s = d.state
  OBVIOUS
<1>2. Scan!Transition[s][c] = Goes(s, c)
  BY Transitions
<1>3. Scan!yy_accept[s] # 0 <=> s \in {3, 4, 6}
  BY ONLY <1>1, Accepts
<1>. QED
  BY ONLY <1>1, <1>2, <1>3, Zenon DEF Scan!Turn

\* The automaton after the n first characters of a text that starts at a position.
After(w, from, n, d) ==
    [state |-> StateOf(w, n), last |-> IF n >= 2 THEN [state |-> 6, cpos |-> from + 1] ELSE d.last]

\* The states a text is read in.
LEMMA States ==
  ASSUME NEW w, NEW n \in Nat
  PROVE  /\ StateOf(w, n) \in {1, 4, 6, 9, 10, 11}
         /\ n >= 2 => StateOf(w, n) \in {9, 10, 11}
         /\ StateOf(w, 0) = 1
  BY DEF StateOf

\* yy_get_previous_state puts the automaton where the reading of the text left it.
LEMMA Previous ==
  ASSUME NEW w \in Seq(0 .. 7), NEW n \in 0 .. Len(w), Read(w, n), NEW from \in Nat, dfa \in Automaton
  PROVE  Scan!yy_get_previous_state(w, from, n) = After(w, from, n, dfa)
<1>. DEFINE start == [dfa EXCEPT !.state = 1]
            f == CHOOSE g : g = [i \in 0 .. n |->
                   IF i = 0 THEN start
                   ELSE Scan!Turn(g[i - 1], from + i - 1, IF w[i] = 0 THEN 1 ELSE w[i])]
            h == [i \in 0 .. n |-> After(w, from, i, dfa)]
<1>0. n \in Nat /\ Len(w) \in Nat /\ n <= Len(w)
  OBVIOUS
<1>1. start = After(w, from, 0, dfa)
  <2>1. start = [state |-> 1, last |-> dfa.last]
    BY DEF Automaton
  <2>. QED
    BY <2>1 DEF After, StateOf
<1>2. ASSUME NEW i \in 1 .. n
      PROVE  Scan!Turn(After(w, from, i - 1, dfa), from + i - 1, IF w[i] = 0 THEN 1 ELSE w[i])
               = After(w, from, i, dfa)
  <2>1. PICK j \in 0 .. n - 1 : i = j + 1 /\ i - 1 = j /\ j \in Nat /\ from + i - 1 = from + j
    BY <1>0
  <2>2. Goes(StateOf(w, j), Class(w[i])) = StateOf(w, i) /\ Read(w, j)
    BY <2>1, ReadBefore
  <2>3. w[i] \in 0 .. 7 /\ Class(w[i]) \in 0 .. 7
    <3>1. i \in 1 .. Len(w)
      BY <1>0
    <3>2. w[i] \in 0 .. 7
      BY ONLY <3>1, ElementOfSeq, w \in Seq(0 .. 7), Zenon
    <3>. QED
      BY <3>2 DEF Class
  <2>. DEFINE d == After(w, from, j, dfa)
  <2>4. d.state = StateOf(w, j) /\ d.last = IF j >= 2 THEN [state |-> 6, cpos |-> from + 1] ELSE dfa.last
    BY DEF After
  <2>. HIDE DEF d
  <2>5. StateOf(w, j) \in {1, 3, 4, 6, 9, 10, 11}
    BY <2>1, States
  <2>6. Scan!Turn(d, from + j, Class(w[i])) =
          [state |-> StateOf(w, i),
           last |-> IF StateOf(w, j) \in {3, 4, 6} THEN [state |-> StateOf(w, j), cpos |-> from + j] ELSE d.last]
    <3>1. Scan!Turn(d, from + j, Class(w[i])) =
            [state |-> Goes(d.state, Class(w[i])),
             last |-> IF d.state \in {3, 4, 6} THEN [state |-> d.state, cpos |-> from + j] ELSE d.last]
      <4>1. d.state \in {1, 3, 4, 6, 9, 10, 11}
        BY ONLY <2>4, <2>5, Zenon
      <4>2. Class(w[i]) \in 0 .. 7
        BY <2>3
      <4>. QED
        BY ONLY <4>1, <4>2, Turns
    <3>. QED
      BY ONLY <2>2, <2>4, <3>1, Zenon
  <2>7. (IF StateOf(w, j) \in {3, 4, 6} THEN [state |-> StateOf(w, j), cpos |-> from + j] ELSE d.last)
           = IF i >= 2 THEN [state |-> 6, cpos |-> from + 1] ELSE dfa.last
    <3>1. CASE j = 0
      <4>1. ~(j >= 2) /\ ~(i >= 2)
        BY <2>1, <3>1
      <4>. QED
        BY ONLY <2>4, <3>1, <4>1 DEF StateOf
    <3>2. CASE j = 1
      <4>1. i >= 2 /\ n >= 2
        BY <1>0, <2>1, <3>2
      <4>2. w[1] = 4
        BY <1>0, <4>1 DEF Read
      <4>3. StateOf(w, j) = 6
        BY <3>2, <4>2 DEF StateOf
      <4>. QED
        BY ONLY <3>2, <4>1, <4>3
    <3>3. CASE j >= 2
      <4>1. StateOf(w, j) \in {9, 10, 11} /\ i >= 2
        BY <2>1, <3>3, States
      <4>. QED
        BY ONLY <2>4, <3>3, <4>1
    <3>. QED
      BY <2>1, <3>1, <3>2, <3>3
  <2>8. Scan!Turn(d, from + i - 1, IF w[i] = 0 THEN 1 ELSE w[i]) = After(w, from, i, dfa)
    BY ONLY <2>1, <2>6, <2>7, Zenon DEF After, Class
  <2>. QED
    BY ONLY <2>1, <2>8, Zenon DEF d
<1>3. h = [i \in 0 .. n |->
             IF i = 0 THEN start
             ELSE Scan!Turn(h[i - 1], from + i - 1, IF w[i] = 0 THEN 1 ELSE w[i])]
  <2>. SUFFICES ASSUME NEW i \in 0 .. n
                PROVE  h[i] = IF i = 0 THEN start
                              ELSE Scan!Turn(h[i - 1], from + i - 1, IF w[i] = 0 THEN 1 ELSE w[i])
    BY Zenon
  <2>1. CASE i = 0
    BY ONLY <1>1, <2>1, i \in 0 .. n, Zenon
  <2>2. CASE i # 0
    <3>1. i \in 1 .. n /\ i - 1 \in 0 .. n
      BY <1>0, <2>2
    <3>2. h[i - 1] = After(w, from, i - 1, dfa) /\ h[i] = After(w, from, i, dfa)
      BY ONLY <3>1, i \in 0 .. n, Zenon
    <3>. QED
      BY ONLY <1>2, <2>2, <3>1, <3>2, Zenon
  <2>. QED
    BY <2>1, <2>2
<1>4. f = [i \in 0 .. n |->
             IF i = 0 THEN start
             ELSE Scan!Turn(f[i - 1], from + i - 1, IF w[i] = 0 THEN 1 ELSE w[i])]
  <2>. HIDE DEF start, h
  <2>. QED
    BY ONLY <1>3, Zenon DEF f
<1>5. Scan!yy_get_previous_state(w, from, n) = f[n]
  BY Zenon DEF Scan!yy_get_previous_state
<1>. DEFINE T == {i \in 0 .. n : f[i] = After(w, from, i, dfa)}
<1>6. \A i \in 0 .. n : f[i] = IF i = 0 THEN start
             ELSE Scan!Turn(f[i - 1], from + i - 1, IF w[i] = 0 THEN 1 ELSE w[i])
  <2>. HIDE DEF start, f
  <2>. QED
    BY ONLY <1>4, Zenon
<1>. HIDE DEF f, start, h
<1>7. 0 \in T
  <2>1. 0 \in 0 .. n
    BY <1>0
  <2>. QED
    BY ONLY <1>1, <1>6, <2>1, Zenon
<1>8. ASSUME NEW k \in 0 .. (n - 1), k \in T PROVE k + 1 \in T
  <2>1. PICK i \in 1 .. n : i = k + 1 /\ i - 1 = k /\ i \in 0 .. n /\ i # 0
    BY <1>0
  <2>2. f[i] = Scan!Turn(f[i - 1], from + i - 1, IF w[i] = 0 THEN 1 ELSE w[i])
    BY ONLY <1>6, <2>1, Zenon
  <2>3. f[i - 1] = After(w, from, i - 1, dfa)
    BY ONLY <2>1, k \in T, Zenon
  <2>4. f[i] = After(w, from, i, dfa)
    BY ONLY <1>2, <2>2, <2>3, i \in 1 .. n, Zenon
  <2>. QED
    BY ONLY <2>1, <2>4, Zenon
<1>9. n \in T
  <2>1. n \in 0 .. n /\ n \in Int /\ 0 \in Int
    BY <1>0
  <2>. HIDE DEF T
  <2>. QED
    BY ONLY <1>7, <1>8, <2>1, UpTo, Zenon
<1>. QED
  BY ONLY <1>5, <1>9, Zenon

\* A sequence of one element.
LEMMA OneElement ==
  ASSUME NEW w \in Seq(0 .. 7), NEW c \in 0 .. 7
  PROVE  w = <<c>> <=> Len(w) = 1 /\ w[1] = c
  OBVIOUS

\* The rule of a single character.
LEMMA RuleOne ==
  ASSUME NEW w \in Seq(0 .. 7), Len(w) >= 1
  PROVE  Scan!Tokens!Rule(SubSeq(w, 1, 1)) =
           IF w[1] = 5 THEN 1 ELSE IF w[1] = 6 THEN 2 ELSE IF w[1] = 2 THEN 5 ELSE 4
<1>1. 1 \in 1 .. Len(w)
  BY Len(w) \in Nat
<1>2. PICK v \in Seq(0 .. 7) : v = SubSeq(w, 1, 1) /\ Len(v) = 1 /\ v[1] = w[1]
  <2>1. 1 \in 1 .. 1
    OBVIOUS
  <2>. QED
    BY ONLY <1>1, <2>1, w \in Seq(0 .. 7), SubPacket, Zenon
<1>3. ~Scan!Tokens!Packet(v)
  <2>1. Scan!Tokens!Packet(v) <=> PacketAt(v, 1)
    BY ONLY <1>2, PacketIs, Zenon
  <2>. QED
    BY ONLY <2>1 DEF PacketAt
<1>6. (v = <<5>> <=> w[1] = 5) /\ (v = <<6>> <=> w[1] = 6) /\ (v = <<2>> <=> w[1] = 2)
  <2>1. v = <<5>> <=> Len(v) = 1 /\ v[1] = 5
    BY OneElement
  <2>2. v = <<6>> <=> Len(v) = 1 /\ v[1] = 6
    BY OneElement
  <2>3. v = <<2>> <=> Len(v) = 1 /\ v[1] = 2
    BY OneElement
  <2>. QED
    BY ONLY <1>2, <2>1, <2>2, <2>3
<1>5. Scan!Tokens!Rule(v) = IF w[1] = 5 THEN 1 ELSE IF w[1] = 6 THEN 2 ELSE IF w[1] = 2 THEN 5 ELSE 4
  BY ONLY <1>3, <1>6 DEF Scan!Tokens!Rule, Scan!Tokens!Plus, Scan!Tokens!Minus, Scan!Tokens!Newline
<1>. QED
  BY <1>2, <1>5

\* The rule of a packet.
LEMMA RulePacket ==
  ASSUME NEW w \in Seq(0 .. 7), NEW n \in 1 .. Len(w), PacketAt(w, n)
  PROVE  Scan!Tokens!Rule(SubSeq(w, 1, n)) = 3
<1>1. PICK v \in Seq(0 .. 7) : v = SubSeq(w, 1, n) /\ Len(v) = n /\ Scan!Tokens!Packet(v)
  BY SubPacket
<1>2. v # <<5>> /\ v # <<6>> /\ v # <<2>>
  <2>1. n >= 4
    BY DEF PacketAt
  <2>2. Len(<<5>>) = 1 /\ Len(<<6>>) = 1 /\ Len(<<2>>) = 1
    OBVIOUS
  <2>3. Len(v) # 1
    BY ONLY <1>1, <2>1
  <2>. QED
    BY ONLY <2>2, <2>3, Zenon
<1>3. Scan!Tokens!Rule(v) = 3
  BY ONLY <1>1, <1>2 DEF Scan!Tokens!Rule, Scan!Tokens!Plus, Scan!Tokens!Minus, Scan!Tokens!Newline
<1>. QED
  BY <1>1, <1>3

\* A word continues itself.
LEMMA Itself == ASSUME NEW w \in Seq(0 .. 7) PROVE Continues(w, w)
  BY DEF Continues

\* Single(w): the first token of a word is its first character, whatever follows.
Single(w) == Scan!Tokens!FirstLength(w) = 1 /\ ~Scan!Tokens!Incomplete(w)

\* A word that starts no packet, whatever follows.
LEMMA SingleIf ==
  ASSUME NEW w \in Seq(0 .. 7),
         \A v \in Seq(0 .. 7) : \A n \in 1 .. Len(v) : Continues(v, w) => ~PacketAt(v, n)
  PROVE  Single(w)
<1>1. \A n \in 4 .. Len(w) : ~PacketAt(w, n)
  BY Itself
<1>2. \A v \in Seq(0 .. 7) : Continues(v, w) /\ Len(v) > Len(w) => ~PacketAt(v, Len(v))
  <2>1. \A v \in Seq(0 .. 7) : Len(v) > Len(w) => Len(v) \in 1 .. Len(v)
    BY Len(w) \in Nat
  <2>. QED
    BY <2>1
<1>. QED
  BY ONLY <1>1, <1>2, w \in Seq(0 .. 7), NoPacket, Complete, Zenon DEF Single

\* Without a $ there is no packet.
LEMMA SingleOther ==
  ASSUME NEW w \in Seq(0 .. 7), Len(w) >= 1, w[1] # 4
  PROVE  Single(w)
<1>1. 1 \in 1 .. Len(w)
  BY Len(w) \in Nat
<1>2. ASSUME NEW v \in Seq(0 .. 7), NEW n \in 1 .. Len(v), Continues(v, w) PROVE ~PacketAt(v, n)
  BY ONLY <1>1, <1>2, w[1] # 4, Zenon DEF Continues, PacketAt
<1>. QED
  BY ONLY <1>2, w \in Seq(0 .. 7), SingleIf, Zenon

\* Where the automaton jams, the first token is a single character.
LEMMA SingleJam ==
  ASSUME NEW w \in Seq(0 .. 7), NEW k \in 1 .. Len(w) - 1, Read(w, k),
         Goes(StateOf(w, k), Class(w[k + 1])) = 13
  PROVE  Single(w)
<1>0. k \in Nat /\ k >= 1 /\ Len(w) \in Nat /\ k + 1 \in 1 .. Len(w) /\ k + 1 <= Len(w)
  BY Len(w) \in Nat
<1>1. w[k + 1] \in 0 .. 7
  BY ONLY <1>0, ElementOfSeq, w \in Seq(0 .. 7), Zenon
<1>2. PICK c \in 1 .. 7 : c = Class(w[k + 1]) /\ (c = 7 <=> w[k + 1] = 7) /\ (c = 4 <=> w[k + 1] = 4)
  BY <1>1 DEF Class
<1>3. CASE w[1] # 4
  BY <1>0, <1>3, SingleOther
<1>4. CASE w[1] = 4
  <2>1. \E h \in 2 .. Len(w) :
          /\ \A i \in 2 .. h - 1 : w[i] \notin {3, 4}
          /\ w[h] \in {3, 4}
          /\ \/ w[h] = 4
             \/ h + 1 <= Len(w) /\ w[h + 1] # 7
             \/ h + 2 <= Len(w) /\ w[h + 2] # 7
    <3>1. CASE k = 1
      <4>1. StateOf(w, k) = 6
        BY <1>4, <3>1 DEF StateOf
      <4>2. w[2] = 4
        BY ONLY <1>2, <3>1, <4>1, RowsGo, Goes(StateOf(w, k), Class(w[k + 1])) = 13
      <4>3. 2 \in 2 .. Len(w) /\ \A i \in 2 .. 2 - 1 : w[i] \notin {3, 4}
        BY <1>0, <3>1
      <4>. QED
        BY ONLY <4>2, <4>3
    <3>2. CASE k >= 2
      <4>0. k \in 2 .. Len(w) /\ k + 1 \in 2 .. Len(w) /\ k + 1 - 1 = k
        BY <1>0, <3>2
      <4>1. \/ Clean(w, 2, k) /\ StateOf(w, k) = 9
            \/ Clean(w, 2, k - 1) /\ w[k] = 3 /\ StateOf(w, k) = 10
            \/ k >= 3 /\ Clean(w, 2, k - 2) /\ w[k - 1] = 3 /\ w[k] = 7 /\ StateOf(w, k) = 11
        BY <4>0, ReadParts
      <4>2. CASE Clean(w, 2, k) /\ StateOf(w, k) = 9
        <5>1. w[k + 1] = 4
          BY ONLY <1>2, <4>2, RowsGo, Goes(StateOf(w, k), Class(w[k + 1])) = 13
        <5>. QED
          BY ONLY <4>0, <4>2, <5>1 DEF Clean
      <4>3. CASE Clean(w, 2, k - 1) /\ w[k] = 3 /\ StateOf(w, k) = 10
        <5>1. w[k + 1] # 7
          BY ONLY <1>2, <4>3, RowsGo, Goes(StateOf(w, k), Class(w[k + 1])) = 13
        <5>. QED
          BY ONLY <1>0, <4>0, <4>3, <5>1 DEF Clean
      <4>4. CASE k >= 3 /\ Clean(w, 2, k - 2) /\ w[k - 1] = 3 /\ StateOf(w, k) = 11
        <5>1. w[k + 1] # 7
          BY ONLY <1>2, <4>4, RowsGo, Goes(StateOf(w, k), Class(w[k + 1])) = 13
        <5>2. PICK h \in 2 .. Len(w) : h = k - 1 /\ h - 1 = k - 2 /\ h + 2 = k + 1
          BY <1>0, <4>4
        <5>. QED
          BY ONLY <1>0, <4>4, <5>1, <5>2, Zenon DEF Clean
      <4>. QED
        BY <4>1, <4>2, <4>3, <4>4
    <3>. QED
      BY <1>0, <3>1, <3>2
  <2>2. PICK h \in 2 .. Len(w) :
          /\ \A i \in 2 .. h - 1 : w[i] \notin {3, 4}
          /\ w[h] \in {3, 4}
          /\ \/ w[h] = 4
             \/ h + 1 <= Len(w) /\ w[h + 1] # 7
             \/ h + 2 <= Len(w) /\ w[h + 2] # 7
    BY <2>1
  <2>3. \A v \in Seq(0 .. 7) : \A n \in 1 .. Len(v) : Continues(v, w) => ~PacketAt(v, n)
    BY ONLY <2>2, w \in Seq(0 .. 7), Dead, Zenon
  <2>. QED
    BY ONLY <2>3, w \in Seq(0 .. 7), SingleIf, Zenon
<1>. QED
  BY <1>3, <1>4

\* A text read to its end holds no packet.
LEMMA ReadToEnd ==
  ASSUME NEW w \in Seq(0 .. 7), Len(w) >= 1, Read(w, Len(w))
  PROVE  Scan!Tokens!FirstLength(w) = 1
<1>0. PICK k \in Nat : k = Len(w) /\ k >= 1
  BY Len(w) \in Nat
<1>1. ASSUME NEW n \in 4 .. k, PacketAt(w, n) PROVE FALSE
  <2>1. /\ n >= 4 /\ w[n - 2] = 3 /\ w[n - 1] = 7 /\ w[n] = 7
        /\ n - 2 \in 2 .. k - 2 /\ k \in 2 .. Len(w) /\ n \in Nat
    BY <1>0, <1>1 DEF PacketAt
  <2>2. \/ Clean(w, 2, k)
        \/ Clean(w, 2, k - 1)
        \/ k >= 3 /\ Clean(w, 2, k - 2)
    BY ONLY <1>0, <2>1, Read(w, Len(w)), w \in Seq(0 .. 7), ReadParts, Zenon
  <2>3. n - 2 \in 2 .. k /\ n - 2 \in 2 .. k - 1
    BY ONLY <1>0, <2>1
  <2>. QED
    BY ONLY <2>1, <2>2, <2>3 DEF Clean
<1>. QED
  BY <1>0, <1>1, NoPacket

\* A text read to its end may become a packet, unless it is empty or a NUL.
LEMMA ReadWaits ==
  ASSUME NEW w \in Seq(0 .. 7), Read(w, Len(w))
  PROVE  w = <<>> \/ w = <<0>> \/ Scan!Tokens!Incomplete(w)
<1>0. PICK k \in Nat : k = Len(w)
  OBVIOUS
<1>1. CASE k = 0
  BY ONLY <1>0, <1>1, w \in Seq(0 .. 7), EmptySeq
<1>2. CASE k = 1 /\ w[1] = 0
  <2>1. \A c \in 0 .. 7 : Len(w) = 1 /\ w[1] = c => w = <<c>>
    OBVIOUS
  <2>. QED
    BY <1>0, <1>2, <2>1
<1>3. CASE k >= 1 /\ ~(k = 1 /\ w[1] = 0)
  <2>. DEFINE Ends(rest) == rest \in Seq(0 .. 7) => PacketAt(w \o rest, k + Len(rest))
  <2>1. \A rest \in Seq(0 .. 7) : w \o rest \in Seq(0 .. 7) /\ Len(w \o rest) = k + Len(rest)
           /\ \A i \in 1 .. k + Len(rest) : (w \o rest)[i] = IF i <= k THEN w[i] ELSE rest[i - k]
    BY ONLY <1>0, w \in Seq(0 .. 7), ConcatProperties, Zenon
  <2>2. <<3, 7, 7>> \in Seq(0 .. 7) /\ <<7, 7>> \in Seq(0 .. 7) /\ <<7>> \in Seq(0 .. 7)
    OBVIOUS
  <2>3. w[1] = 4
    BY ONLY <1>0, <1>3, Read(w, Len(w)) DEF Read
  <2>4. CASE k = 1 \/ Clean(w, 2, k)
    <3>1. PICK v \in Seq(0 .. 7) : v = w \o <<3, 7, 7>> /\ Len(v) = k + 3
             /\ \A i \in 1 .. k + 3 : v[i] = IF i <= k THEN w[i] ELSE <<3, 7, 7>>[i - k]
      BY <2>1, <2>2
    <3>2. v[k + 1] = 3 /\ v[k + 2] = 7 /\ v[k + 3] = 7 /\ v[1] = 4 /\ \A i \in 2 .. k : v[i] = w[i]
      BY <1>3, <2>3, <3>1
    <3>3. PacketAt(v, k + 3)
      BY <1>3, <2>4, <3>2 DEF PacketAt, Clean
    <3>. QED
      BY <3>1, <3>3, PacketIs DEF Scan!Tokens!Incomplete, Scan!Tokens!Hash, Scan!Tokens!Hex
  <2>5. CASE k >= 2 /\ Clean(w, 2, k - 1) /\ w[k] = 3
    <3>1. PICK v \in Seq(0 .. 7) : v = w \o <<7, 7>> /\ Len(v) = k + 2
             /\ \A i \in 1 .. k + 2 : v[i] = IF i <= k THEN w[i] ELSE <<7, 7>>[i - k]
      BY <2>1, <2>2
    <3>2. v[k + 1] = 7 /\ v[k + 2] = 7 /\ v[1] = 4 /\ \A i \in 2 .. k : v[i] = w[i]
      BY <1>3, <2>3, <3>1
    <3>3. PacketAt(v, k + 2)
      BY <1>3, <2>5, <3>2 DEF PacketAt, Clean
    <3>. QED
      BY <3>1, <3>3, PacketIs DEF Scan!Tokens!Incomplete, Scan!Tokens!Hash, Scan!Tokens!Hex
  <2>6. CASE k >= 3 /\ Clean(w, 2, k - 2) /\ w[k - 1] = 3 /\ w[k] = 7
    <3>1. PICK v \in Seq(0 .. 7) : v = w \o <<7>> /\ Len(v) = k + 1
             /\ \A i \in 1 .. k + 1 : v[i] = IF i <= k THEN w[i] ELSE <<7>>[i - k]
      BY <2>1, <2>2
    <3>2. v[k + 1] = 7 /\ v[1] = 4 /\ \A i \in 2 .. k : v[i] = w[i]
      BY <1>3, <2>3, <3>1
    <3>3. PacketAt(v, k + 1)
      <4>1. PICK n \in Nat : /\ n = k + 1 /\ n >= 4 /\ n - 1 = k /\ n - 2 = k - 1 /\ n - 3 = k - 2
                            /\ k - 1 \in 2 .. k /\ k \in 2 .. k /\ \A i \in 2 .. k - 2 : i \in 2 .. k
        BY ONLY <2>6, k \in Nat
      <4>2. v[1] = 4 /\ v[n - 2] = 3 /\ v[n - 1] = 7 /\ v[n] = 7 /\ \A i \in 2 .. n - 3 : v[i] \notin {3, 4}
        BY ONLY <2>6, <3>2, <4>1, Zenon DEF Clean
      <4>. QED
        BY ONLY <4>1, <4>2, Zenon DEF PacketAt
    <3>. QED
      BY <3>1, <3>3, PacketIs DEF Scan!Tokens!Incomplete, Scan!Tokens!Hash, Scan!Tokens!Hex
  <2>. QED
    BY ONLY <1>0, <1>3, <2>3, <2>4, <2>5, <2>6, Read(w, Len(w)), ReadParts, w \in Seq(0 .. 7)
<1>. QED
  BY <1>0, <1>1, <1>2, <1>3

\* Where the automaton reads the second digit, the first token is the packet.
LEMMA PacketEnds ==
  ASSUME NEW w \in Seq(0 .. 7), NEW k \in 1 .. Len(w) - 1, Read(w, k), StateOf(w, k) = 11, w[k + 1] = 7
  PROVE  /\ Scan!Tokens!FirstLength(w) = k + 1
         /\ Scan!Tokens!Rule(SubSeq(w, 1, k + 1)) = 3
         /\ ~Scan!Tokens!Incomplete(w)
<1>0. k \in Nat /\ Len(w) \in Nat /\ k + 1 \in 1 .. Len(w) /\ k <= Len(w)
  BY Len(w) \in Nat
<1>1. k >= 3 /\ w[1] = 4 /\ Clean(w, 2, k - 2) /\ w[k - 1] = 3 /\ w[k] = 7
  <2>1. k >= 2
    BY <1>0 DEF StateOf
  <2>2. k \in 2 .. Len(w)
    BY <1>0, <2>1
  <2>. QED
    BY <2>2, ReadParts
<1>2. PICK h \in 2 .. Len(w) : h = k - 1 /\ h - 1 = k - 2 /\ h + 2 = k + 1
  BY <1>0, <1>1
<1>3. (\A i \in 2 .. h - 1 : w[i] \notin {3, 4}) /\ w[h] \in {3, 4}
  BY ONLY <1>1, <1>2, Zenon DEF Clean
<1>4. \A v \in Seq(0 .. 7) : \A n \in 1 .. Len(v) : Continues(v, w) /\ PacketAt(v, n) => n = k + 1
  <2>. SUFFICES ASSUME NEW v \in Seq(0 .. 7), NEW n \in 1 .. Len(v), Continues(v, w), PacketAt(v, n)
                PROVE  n = k + 1
    OBVIOUS
  <2>1. h + 2 = n
    BY <1>3, HashPlace
  <2>. QED
    BY ONLY <1>2, <2>1, Zenon
<1>5. PacketAt(w, k + 1)
  BY ONLY <1>0, <1>1, w[k + 1] = 7 DEF PacketAt, Clean
<1>6. Scan!Tokens!FirstLength(w) = k + 1
  <2>1. ASSUME NEW n \in 4 .. Len(w) PROVE Scan!Tokens!Packet(SubSeq(w, 1, n)) <=> n = k + 1
    <3>1. n \in 1 .. Len(w)
      OBVIOUS
    <3>. QED
      BY ONLY <1>4, <1>5, <3>1, w \in Seq(0 .. 7), SubPacket, Itself, Zenon
  <2>2. k + 1 \in 4 .. Len(w)
    BY <1>0, <1>1
  <2>3. {n \in 4 .. Len(w) : Scan!Tokens!Packet(SubSeq(w, 1, n))} = {k + 1}
    BY ONLY <2>1, <2>2, Zenon
  <2>4. (CHOOSE n \in {k + 1} : \A m \in {k + 1} : m <= n) = k + 1
    BY <1>0
  <2>5. {k + 1} # {}
    OBVIOUS
  <2>. QED
    BY ONLY <2>3, <2>4, <2>5, Zenon DEF Scan!Tokens!FirstLength
<1>7. Scan!Tokens!Rule(SubSeq(w, 1, k + 1)) = 3
  BY <1>0, <1>5, RulePacket
<1>8. ~Scan!Tokens!Incomplete(w)
  <2>1. ASSUME NEW v \in Seq(0 .. 7), Continues(v, w), Len(v) > Len(w) PROVE ~PacketAt(v, Len(v))
    <3>1. Len(v) \in 1 .. Len(v) /\ Len(v) # k + 1
      BY <1>0, <2>1
    <3>. QED
      BY ONLY <1>4, <2>1, <3>1, Zenon
  <2>. QED
    BY ONLY <2>1, w \in Seq(0 .. 7), Complete, Zenon
<1>. QED
  BY <1>6, <1>7, <1>8

\* The values of a size doubled again and again.
Doubles(f, m) == \A k \in 0 .. m : f[k] = IF k = 0 THEN size ELSE 2 * f[k - 1]

\* The sizes the buffer is doubled through exist, as a function.
LEMMA Doubling ==
  ASSUME NEW m \in Nat, size \in Nat \ {0}
  PROVE  \E f \in [0 .. m -> Nat] : Doubles(f, m)
<1>. DEFINE G == [i \in 1 .. m + 1 |-> [x \in Nat |-> 2 * x]]
<1>1. G \in [1 .. m + 1 -> [Nat -> Nat]] /\ m + 1 \in Nat /\ size \in Nat
  OBVIOUS
<1>2. PICK g \in [1 .. m + 1 -> Nat] : Iterates(g, m + 1, size, G)
  <2>. HIDE DEF G
  <2>. QED
    BY ONLY <1>1, Recursion, Zenon
<1>. DEFINE f == [k \in 0 .. m |-> g[k + 1]]
<1>3. f \in [0 .. m -> Nat]
  <2>. SUFFICES ASSUME NEW k \in 0 .. m PROVE g[k + 1] \in Nat
    BY Zenon
  <2>1. k + 1 \in 1 .. m + 1
    OBVIOUS
  <2>. QED
    BY ONLY <2>1, g \in [1 .. m + 1 -> Nat], Zenon
<1>4. ASSUME NEW k \in 0 .. m PROVE f[k] = IF k = 0 THEN size ELSE 2 * f[k - 1]
  <2>1. k + 1 \in 1 .. m + 1 /\ f[k] = g[k + 1]
    OBVIOUS
  <2>2. CASE k = 0
    <3>1. 1 \in 1 .. m + 1 /\ k + 1 = 1
      BY <2>2
    <3>2. g[1] = size
      BY ONLY <1>2, <3>1, Zenon DEF Iterates
    <3>. QED
      BY ONLY <2>1, <2>2, <3>1, <3>2, Zenon
  <2>3. CASE k # 0
    <3>1. PICK i \in 2 .. m + 1 : i = k + 1 /\ i - 1 = k /\ i # 1 /\ i \in 1 .. m + 1
                                  /\ k - 1 \in 0 .. m /\ k - 1 + 1 = k /\ k \in 1 .. m + 1
      BY <2>3
    <3>2. g[i] = G[i][g[i - 1]]
      BY ONLY <1>2, <3>1, Zenon DEF Iterates
    <3>3. g[k] \in Nat
      BY ONLY <1>2, <3>1
    <3>4. G[i][g[k]] = 2 * g[k]
      BY ONLY <3>1, <3>3
    <3>5. f[k - 1] = g[k]
      BY ONLY <3>1, Zenon
    <3>. QED
      BY ONLY <2>1, <2>3, <3>1, <3>2, <3>4, <3>5, Zenon
  <2>. QED
    BY <2>2, <2>3
<1>. QED
  BY <1>3, <1>4, Zenon DEF Doubles

\* A doubled size grows at each step.
LEMMA DoublesGrow ==
  ASSUME NEW m \in Nat, size \in Nat \ {0}, NEW f, Doubles(f, m)
  PROVE  \A k \in 0 .. m : f[k] \in Nat /\ f[k] >= size + k
<1>. DEFINE T == {k \in 0 .. m : f[k] \in Nat /\ f[k] >= size + k}
<1>1. 0 \in T
  BY DEF Doubles
<1>2. ASSUME NEW k \in 0 .. (m - 1), k \in T PROVE k + 1 \in T
  <2>1. PICK j \in 1 .. m : j = k + 1 /\ j - 1 = k /\ j # 0 /\ j \in 0 .. m
    OBVIOUS
  <2>2. f[j] = 2 * f[k]
    BY ONLY <2>1, Doubles(f, m), Zenon DEF Doubles
  <2>3. f[k] \in Nat /\ f[k] >= size + k
    BY ONLY k \in T, Zenon
  <2>4. PICK x \in Nat : x = f[k] /\ x >= size + k
    BY ONLY <2>3, Zenon
  <2>5. 2 * x \in Nat /\ 2 * x >= size + j
    BY <2>1, <2>4
  <2>6. f[j] = 2 * x
    BY ONLY <2>2, <2>4, Zenon
  <2>7. j \in T
    BY ONLY <2>1, <2>5, <2>6, Zenon
  <2>. QED
    BY ONLY <2>1, <2>7, Zenon
<1>3. \A k \in 0 .. m : k \in T
  <2>1. m \in Int /\ 0 \in Int
    OBVIOUS
  <2>. HIDE DEF T
  <2>. QED
    BY ONLY <1>1, <1>2, <2>1, UpTo, Zenon
<1>. QED
  BY <1>3

\* The buffer grown has room for one character and its two ends.
LEMMA Growth ==
  ASSUME size \in Nat \ {0}, Scan!number_to_move \in Nat
  PROVE  /\ Scan!Grown \in Nat /\ Scan!Grown >= size
         /\ Scan!Grown > Scan!number_to_move + 1
<1>. DEFINE m == Scan!number_to_move + 1
            f == CHOOSE g : g = [k \in 0 .. m |-> IF k = 0 THEN size ELSE 2 * g[k - 1]]
            enough == {k \in 0 .. m : f[k] > m}
<1>1. m \in Nat
  OBVIOUS
<1>. HIDE DEF m
<1>2. Doubles(f, m)
  <2>1. PICK g \in [0 .. m -> Nat] : Doubles(g, m)
    BY <1>1, Doubling
  <2>2. g = [k \in 0 .. m |-> IF k = 0 THEN size ELSE 2 * g[k - 1]]
    <3>1. g = [k \in 0 .. m |-> g[k]]
      BY ONLY <2>1, Zenon
    <3>. QED
      BY ONLY <2>1, <3>1, Zenon DEF Doubles
  <2>3. f = [k \in 0 .. m |-> IF k = 0 THEN size ELSE 2 * f[k - 1]]
    BY ONLY <2>2, Zenon
  <2>. HIDE DEF f
  <2>. QED
    BY ONLY <2>3, Zenon DEF Doubles
<1>3. Scan!Grown = f[CHOOSE k \in enough : \A j \in enough : k <= j]
  BY Zenon DEF Scan!Grown, m
<1>. HIDE DEF f
<1>4. \A k \in 0 .. m : f[k] \in Nat /\ f[k] >= size + k
  BY ONLY <1>1, <1>2, size \in Nat \ {0}, DoublesGrow, Zenon
<1>5. enough \in SUBSET Nat /\ m \in enough
  <2>1. m \in 0 .. m /\ size + m > m
    BY <1>1
  <2>2. f[m] \in Nat /\ f[m] >= size + m
    BY <1>4, <2>1
  <2>. QED
    BY <1>1, <2>1, <2>2
<1>6. PICK k \in enough : Scan!Grown = f[k]
  <2>. HIDE DEF enough
  <2>1. \E k \in enough : \A j \in enough : k <= j
    BY <1>5, Least
  <2>. QED
    BY ONLY <1>3, <2>1, Zenon
<1>7. k \in 0 .. m /\ f[k] > m
  BY ONLY <1>6, Zenon
<1>8. f[k] \in Nat /\ f[k] >= size
  <2>1. f[k] \in Nat /\ f[k] >= size + k
    BY ONLY <1>4, <1>7, Zenon
  <2>. QED
    BY <1>7, <2>1
<1>. QED
  BY ONLY <1>6, <1>7, <1>8, Zenon DEF m

\* The first token of a text in hand, which may be delivered.
Cut(w, n, r) ==
    /\ n \in 1 .. Len(w) /\ n = Scan!Tokens!FirstLength(w)
    /\ r = Scan!Tokens!Rule(SubSeq(w, 1, n))
    /\ status = "EOF_PENDING" \/ ~Scan!Tokens!Incomplete(w)

\* A NUL, of the text or of the end of the buffer, ends at a position.
NulBefore(p) ==
    /\ p \in Nat /\ bp < p /\ p <= Len(buf) + 1
    /\ p <= Len(buf) => buf[p] = 0
    /\ Read(Scan!Text, p - bp - 1)

\* The automaton has read k characters of the text in hand, and remembers the first one.
Scanned(k) ==
    /\ k \in 0 .. Len(Scan!Text) /\ cp = bp + k
    /\ Read(Scan!Text, k) /\ dfa.state = StateOf(Scan!Text, k)
    /\ k >= 2 => dfa.last = [state |-> 6, cpos |-> bp + 1]

\* The matching loop: in the text, or just after a NUL.
Matching ==
    \/ \E k \in Nat : Scanned(k)
    \/ dfa.state = 3 /\ NulBefore(cp)

\* The action that is found: a NUL to look at, or the rule of the first token.
Finding ==
    \/ Scan!Found.state = 3 /\ NulBefore(Scan!Found.cpos)
    \/ /\ Scan!Found.state \in {4, 5, 6, 7, 8, 12}
       /\ \E n \in Nat : Scan!Found.cpos = bp + n /\ Cut(Scan!Text, n, Scan!yy_accept[Scan!Found.state])

\* A refill is asked for when the whole text in hand has been read and nothing cuts it.
Refilling == bp < cp /\ cp = Len(buf) + 1 /\ Read(Scan!Text, Len(Scan!Text))

\* The types of the scanner's variables.
ScanTyped ==
    /\ buf \in Seq(0 .. 7) /\ size \in Nat \ {0} /\ Len(buf) <= size
    /\ bp \in 0 .. Len(buf) /\ cp \in Nat
    /\ dfa \in Automaton
    /\ status \in {"NEW", "NORMAL", "EOF_PENDING"}
    /\ pc \in {"match", "find_action", "refill", "ended", "exited"}

(* The inductive invariant of the scanner: what each place of yylex knows of the text in hand. *)
ScanInv ==
    /\ ScanTyped
    /\ pc = "match" => Matching
    /\ pc = "find_action" => Finding
    /\ pc = "refill" => Refilling

\* The rest of a sequence from a position on, character by character.
LEMMA RestIs ==
  ASSUME NEW b \in Seq(0 .. 7), NEW p \in 0 .. Len(b)
  PROVE  LET rest == SubSeq(b, p + 1, Len(b))
         IN  /\ rest \in Seq(0 .. 7) /\ Len(rest) = Len(b) - p /\ Len(rest) \in Nat
             /\ \A i \in 1 .. Len(b) - p : rest[i] = b[p + i]
<1>1. PICK n \in Nat : n = Len(b) /\ p \in 0 .. n
  OBVIOUS
<1>2. \A i \in p + 1 .. n : b[i] \in 0 .. 7
  BY <1>1, ElementOfSeq
<1>3. PICK m \in Int : m = p + 1 /\ n \in Int
  BY <1>1
<1>4. /\ SubSeq(b, m, n) \in Seq(0 .. 7)
      /\ Len(SubSeq(b, m, n)) = IF m <= n THEN n - m + 1 ELSE 0
      /\ \A i \in 1 .. n - m + 1 : SubSeq(b, m, n)[i] = b[m + i - 1]
  BY ONLY <1>2, <1>3, SubSeqProperties
<1>5. n - m + 1 = n - p /\ (IF m <= n THEN n - m + 1 ELSE 0) = n - p /\ n - p \in Nat
      /\ \A i \in 1 .. n - p : m + i - 1 = p + i
  BY <1>1, <1>3
<1>. QED
  BY ONLY <1>1, <1>3, <1>4, <1>5, Zenon

\* The text in hand, character by character.
LEMMA TextIs ==
  ASSUME buf \in Seq(0 .. 7), bp \in 0 .. Len(buf)
  PROVE  /\ Scan!Text \in Seq(0 .. 7) /\ Len(Scan!Text) = Len(buf) - bp /\ Len(Scan!Text) \in Nat
         /\ \A i \in 1 .. Len(buf) - bp : Scan!Text[i] = buf[bp + i]
  BY RestIs, Zenon DEF Scan!Text

\* Parts of the text in hand are parts of the buffer.
LEMMA TextParts ==
  ASSUME buf \in Seq(0 .. 7), bp \in 0 .. Len(buf), NEW n \in 0 .. Len(Scan!Text)
  PROVE  /\ SubSeq(Scan!Text, 1, n) = SubSeq(buf, bp + 1, bp + n)
         /\ SubSeq(Scan!Text, n + 1, Len(Scan!Text)) = SubSeq(buf, bp + n + 1, Len(buf))
<1>1. PICK w \in Seq(0 .. 7), m \in Nat, b \in Nat : /\ w = Scan!Text /\ b = Len(buf) /\ Len(w) = m /\ m = b - bp
                                   /\ \A i \in 1 .. m : w[i] = buf[bp + i]
  BY TextIs
<1>2. (\A i \in 1 .. b : buf[i] \in 0 .. 7) /\ \A i \in 1 .. m : w[i] \in 0 .. 7
  BY <1>1, ElementOfSeq
<1>3. n \in Nat /\ n <= m /\ bp \in Nat /\ bp + m = b
  BY <1>1
<1>4. /\ SubSeq(w, 1, n) \in Seq(0 .. 7) /\ Len(SubSeq(w, 1, n)) = n
      /\ \A i \in 1 .. n : SubSeq(w, 1, n)[i] = buf[bp + i]
  <2>1. n \in 1 .. m \/ n = 0
    BY <1>3
  <2>2. CASE n = 0
    <3>1. SubSeq(w, 1, n) = <<>>
      BY ONLY <2>2, SubSeqEmpty
    <3>. QED
      BY ONLY <2>2, <3>1, EmptySeq
  <2>3. CASE n \in 1 .. m
    <3>1. n \in 1 .. Len(w)
      BY ONLY <1>1, <2>3, Zenon
    <3>2. /\ SubSeq(w, 1, n) \in Seq(0 .. 7) /\ Len(SubSeq(w, 1, n)) = n
          /\ \A i \in 1 .. n : SubSeq(w, 1, n)[i] = w[i]
      BY ONLY <3>1, w \in Seq(0 .. 7), SubPacket, Zenon
    <3>3. \A i \in 1 .. n : i \in 1 .. m
      BY <1>3
    <3>. QED
      BY ONLY <1>1, <3>2, <3>3, Zenon
  <2>. QED
    BY ONLY <2>1, <2>2, <2>3
<1>5. /\ SubSeq(buf, bp + 1, bp + n) \in Seq(0 .. 7) /\ Len(SubSeq(buf, bp + 1, bp + n)) = n
      /\ \A i \in 1 .. n : SubSeq(buf, bp + 1, bp + n)[i] = buf[bp + i]
  BY ONLY <1>1, <1>2, <1>3, SubSeqProperties
<1>6. /\ SubSeq(w, n + 1, m) \in Seq(0 .. 7) /\ Len(SubSeq(w, n + 1, m)) = m - n
      /\ \A i \in 1 .. m - n : SubSeq(w, n + 1, m)[i] = buf[bp + n + i]
  <2>1. PICK a \in Int : a = n + 1 /\ m \in Int
    BY <1>3
  <2>2. \A i \in a .. m : w[i] \in 0 .. 7
    BY <1>2, <1>3, <2>1
  <2>3. /\ SubSeq(w, a, m) \in Seq(0 .. 7)
        /\ Len(SubSeq(w, a, m)) = IF a <= m THEN m - a + 1 ELSE 0
        /\ \A i \in 1 .. m - a + 1 : SubSeq(w, a, m)[i] = w[a + i - 1]
    BY ONLY <2>1, <2>2, SubSeqProperties
  <2>4. /\ m - a + 1 = m - n /\ (IF a <= m THEN m - a + 1 ELSE 0) = m - n
        /\ \A i \in 1 .. m - n : a + i - 1 \in 1 .. m /\ a + i - 1 = n + i /\ bp + (a + i - 1) = bp + n + i
    BY <1>3, <2>1
  <2>. QED
    BY ONLY <1>1, <2>1, <2>3, <2>4, Zenon
<1>7. /\ SubSeq(buf, bp + n + 1, b) \in Seq(0 .. 7) /\ Len(SubSeq(buf, bp + n + 1, b)) = m - n
      /\ \A i \in 1 .. m - n : SubSeq(buf, bp + n + 1, b)[i] = buf[bp + n + i]
  BY ONLY <1>1, <1>2, <1>3, SubSeqProperties
<1>8. SubSeq(w, 1, n) = SubSeq(buf, bp + 1, bp + n)
  BY ONLY <1>4, <1>5, SeqEqual
<1>9. SubSeq(w, n + 1, m) = SubSeq(buf, bp + n + 1, b)
  BY ONLY <1>6, <1>7, SeqEqual
<1>. QED
  BY ONLY <1>1, <1>8, <1>9, Zenon

\* What stops the matching loop on a character that is not NUL.
LEMMA Stops ==
  ASSUME NEW w \in Seq(0 .. 7), NEW k \in 0 .. Len(w) - 1, Read(w, k), w[k + 1] # 0, NEW t,
         t = Goes(StateOf(w, k), w[k + 1]), t \notin {6, 9, 10, 11}
  PROVE  \/ /\ k = 0 /\ t \in {4, 5, 7, 8} /\ Single(w)
            /\ Scan!Tokens!Rule(SubSeq(w, 1, 1)) = Scan!yy_accept[t]
         \/ /\ t = 12 /\ Scan!Tokens!FirstLength(w) = k + 1 /\ ~Scan!Tokens!Incomplete(w)
            /\ Scan!Tokens!Rule(SubSeq(w, 1, k + 1)) = Scan!yy_accept[t]
         \/ /\ t = 13 /\ k >= 1 /\ Single(w)
            /\ Scan!Tokens!Rule(SubSeq(w, 1, 1)) = 4
<1>0. /\ k \in Nat /\ Len(w) \in Nat /\ Len(w) >= 1 /\ k + 1 \in 1 .. Len(w) /\ k <= Len(w)
      /\ (k # 0 => k \in 1 .. Len(w) - 1)
  BY Len(w) \in Nat
<1>1. w[k + 1] \in 1 .. 7
  <2>1. w[k + 1] \in 0 .. 7
    BY ONLY <1>0, ElementOfSeq, w \in Seq(0 .. 7), Zenon
  <2>. QED
    BY <2>1
<1>2. PICK c \in 1 .. 7 : c = w[k + 1] /\ c = Class(w[k + 1])
  BY <1>1 DEF Class
<1>3. CASE k = 0
  <2>1. t = Goes(1, c) /\ c = w[1]
    <3>1. k + 1 = 1 /\ StateOf(w, k) = 1
      BY ONLY <1>3 DEF StateOf
    <3>. QED
      BY ONLY <1>2, <3>1, t = Goes(StateOf(w, k), w[k + 1]), Zenon
  <2>2. t = IF c \in {1, 3, 7} THEN 4 ELSE IF c = 2 THEN 5 ELSE c + 2
    BY ONLY <2>1, c \in 1 .. 7 DEF Goes
  <2>3. w[1] # 4 /\ t \in {4, 5, 7, 8}
    BY ONLY <2>1, <2>2, c \in 1 .. 7, t \notin {6, 9, 10, 11}
  <2>4. Single(w)
    BY <1>0, <2>3, SingleOther
  <2>5. Scan!Tokens!Rule(SubSeq(w, 1, 1)) = IF c = 5 THEN 1 ELSE IF c = 6 THEN 2 ELSE IF c = 2 THEN 5 ELSE 4
    BY <1>0, <2>1, RuleOne
  <2>6. Scan!yy_accept[t] = IF c = 5 THEN 1 ELSE IF c = 6 THEN 2 ELSE IF c = 2 THEN 5 ELSE 4
    BY ONLY <2>1, <2>2, <2>3, Accepts, c \in 1 .. 7
  <2>. QED
    BY ONLY <1>3, <2>3, <2>4, <2>5, <2>6, Zenon
<1>4. CASE k # 0
  <2>1. StateOf(w, k) \in {4, 6, 9, 10, 11}
    BY <1>0, <1>4 DEF StateOf
  <2>2. t = 13 \/ (t = 12 /\ StateOf(w, k) = 11 /\ c = 7)
    <3>1. PICK s \in {4, 6, 9, 10, 11} : s = StateOf(w, k)
      BY ONLY <2>1, Zenon
    <3>2. t = Goes(s, c)
      BY ONLY <1>2, <3>1, t = Goes(StateOf(w, k), w[k + 1]), Zenon
    <3>3. Goes(s, c) \in {6, 9, 10, 11, 13} \/ (s = 11 /\ c = 7 /\ Goes(s, c) = 12)
      BY ONLY RowsGo, s \in {4, 6, 9, 10, 11}, c \in 1 .. 7
    <3>. QED
      BY ONLY <3>1, <3>2, <3>3, t \notin {6, 9, 10, 11}
  <2>3. CASE t = 13
    <3>1. Single(w)
      BY ONLY <1>0, <1>2, <1>4, <2>3, Read(w, k), w \in Seq(0 .. 7), t = Goes(StateOf(w, k), w[k + 1]),
              SingleJam, Zenon
    <3>2. w[1] \in {0, 4}
      BY <1>0, <1>4 DEF Read
    <3>3. Scan!Tokens!Rule(SubSeq(w, 1, 1)) = 4
      BY <1>0, <3>2, RuleOne
    <3>. QED
      BY <1>0, <1>4, <2>3, <3>1, <3>3
  <2>4. CASE t = 12 /\ StateOf(w, k) = 11 /\ c = 7
    <3>1. /\ Scan!Tokens!FirstLength(w) = k + 1
          /\ Scan!Tokens!Rule(SubSeq(w, 1, k + 1)) = 3
          /\ ~Scan!Tokens!Incomplete(w)
      BY <1>0, <1>2, <1>4, <2>4, PacketEnds
    <3>2. Scan!yy_accept[t] = 3
      BY ONLY <2>4, Accepts
    <3>. QED
      BY ONLY <2>4, <3>1, <3>2, Zenon
  <2>. QED
    BY <2>2, <2>3, <2>4
<1>. QED
  BY <1>3, <1>4

\* The states of the table.
LEMMA GoesTyped ==
  /\ \A s \in {1, 3, 4, 6, 9, 10, 11}, c \in 0 .. 7 : Goes(s, c) \in 1 .. 13
  /\ \A s \in {1, 4, 6, 9, 10, 11} : Goes(s, 0) = 3
  /\ \A c \in 0 .. 7 : Goes(3, c) = 13
  BY DEF Goes

\* The states the matching loop goes on in.
LEMMA BasesGo ==
  \A s \in 1 .. 13 : Scan!yy_base[s] = 14 <=> s \in {4, 5, 7, 8, 12, 13}
  BY Bases

\* The automaton after one turn has the type of an automaton.
LEMMA TurnTyped ==
  ASSUME dfa \in Automaton, dfa.state \in {1, 3, 4, 6, 9, 10, 11}, NEW p \in Nat, NEW c \in 0 .. 7
  PROVE  Scan!Turn(dfa, p, c) \in Automaton
<1>1. PICK s \in {1, 3, 4, 6, 9, 10, 11}, l \in Matched : s = dfa.state /\ l = dfa.last
  BY DEF Automaton
<1>2. Scan!Turn(dfa, p, c) = [state |-> Goes(s, c), last |-> IF s \in {3, 4, 6} THEN [state |-> s, cpos |-> p] ELSE l]
  BY ONLY <1>1, Turns, c \in 0 .. 7
<1>3. Goes(s, c) \in 1 .. 13
  BY GoesTyped
<1>4. (IF s \in {3, 4, 6} THEN [state |-> s, cpos |-> p] ELSE l) \in Matched
  BY DEF Matched
<1>. QED
  BY ONLY <1>2, <1>3, <1>4 DEF Automaton

\* What is found when the automaton stops.
LEMMA FoundIs ==
  ASSUME NEW d, NEW p, NEW f, d.state \in 1 .. 13,
         f = IF Scan!yy_accept[d.state] # 0 THEN [state |-> d.state, cpos |-> p] ELSE d.last
  PROVE  f = IF d.state \in {3, 4, 5, 6, 7, 8, 12} THEN [state |-> d.state, cpos |-> p] ELSE d.last
<1>1. PICK s \in 1 .. 13 : s = d.state
  OBVIOUS
<1>2. Scan!yy_accept[s] # 0 <=> s \in {3, 4, 5, 6, 7, 8, 12}
  BY Accepts
<1>. QED
  BY <1>1, <1>2

\* One turn of the matching loop.
LEMMA AdvanceStep ==
  ASSUME ScanInv, Scan!Advance
  PROVE  ScanInv'
<1>1. /\ buf \in Seq(0 .. 7) /\ size \in Nat \ {0} /\ Len(buf) <= size
      /\ bp \in 0 .. Len(buf) /\ bp \in Nat /\ Len(buf) \in Nat /\ cp \in Nat
      /\ dfa \in Automaton /\ status \in {"NEW", "NORMAL", "EOF_PENDING"}
  BY DEF ScanInv, ScanTyped
<1>2. /\ pc = "match" /\ Matching
      /\ buf' = buf /\ size' = size /\ bp' = bp /\ status' = status /\ cp' = cp + 1
  BY DEF ScanInv, Scan!Advance
<1>. DEFINE c == Scan!CharAt(cp)
<1>3. dfa' = Scan!Turn(dfa, cp, c) /\ pc' = IF Scan!yy_base[dfa'.state] = 14 THEN "find_action" ELSE "match"
  BY DEF Scan!Advance
<1>4. Scan!Text' = Scan!Text
  BY ONLY <1>2, Zenon DEF Scan!Text
<1>5. PICK w \in Seq(0 .. 7), m \in Nat : w = Scan!Text /\ m = Len(w) /\ m = Len(buf) - bp
                                          /\ \A i \in 1 .. m : w[i] = buf[bp + i]
  BY <1>1, TextIs
<1>6. c = IF cp < Len(buf) THEN buf[cp + 1] ELSE 0
  BY DEF Scan!CharAt, Scan!YY_END_OF_BUFFER_CHAR
<1>7. c \in 0 .. 7
  <2>1. cp < Len(buf) => cp + 1 \in 1 .. Len(buf)
    BY ONLY <1>1
  <2>2. cp < Len(buf) => buf[cp + 1] \in 0 .. 7
    BY ONLY <1>1, <2>1, ElementOfSeq, Zenon
  <2>. QED
    BY ONLY <1>6, <2>2
<1>8. ASSUME dfa' \in Automaton, dfa'.state \in {3, 6, 9, 10, 11}, Matching' PROVE ScanInv'
  <2>1. pc' = "match"
    BY ONLY <1>3, <1>8, BasesGo
  <2>2. ScanTyped'
    BY ONLY <1>1, <1>2, <1>8, <2>1 DEF ScanTyped
  <2>. QED
    BY ONLY <1>8, <2>1, <2>2 DEF ScanInv
<1>9. ASSUME dfa' \in Automaton, dfa'.state \in {4, 5, 7, 8, 12, 13}, Finding' PROVE ScanInv'
  <2>1. pc' = "find_action"
    BY ONLY <1>3, <1>9, BasesGo
  <2>2. ScanTyped'
    BY ONLY <1>1, <1>2, <1>9, <2>1 DEF ScanTyped
  <2>. QED
    BY ONLY <1>9, <2>1, <2>2 DEF ScanInv
<1>10. dfa'.state \in 1 .. 13 => Scan!Found' = IF dfa'.state \in {3, 4, 5, 6, 7, 8, 12}
                                              THEN [state |-> dfa'.state, cpos |-> cp'] ELSE dfa'.last
  <2>1. Scan!Found' = IF Scan!yy_accept[dfa'.state] # 0 THEN [state |-> dfa'.state, cpos |-> cp'] ELSE dfa'.last
    BY Zenon DEF Scan!Found
  <2>. QED
    BY ONLY <2>1, FoundIs, Zenon
<1>. HIDE DEF c
<1>11. CASE dfa.state = 3 /\ NulBefore(cp)
  <2>1. dfa' = [state |-> 13, last |-> [state |-> 3, cpos |-> cp]]
    BY ONLY <1>3, <1>7, <1>11, Turns, GoesTyped
  <2>2. dfa' \in Automaton /\ dfa'.state = 13 /\ dfa'.last = [state |-> 3, cpos |-> cp]
    BY ONLY <1>1, <2>1 DEF Automaton, Matched
  <2>3. Scan!Found'.state = 3 /\ Scan!Found'.cpos = cp
    BY ONLY <1>10, <2>2
  <2>4. NulBefore(cp) => Finding'
    BY ONLY <1>2, <1>4, <2>3, Zenon DEF NulBefore, Finding
  <2>. QED
    BY ONLY <1>9, <1>11, <2>2, <2>4
<1>12. ASSUME NEW k \in Nat, Scanned(k) PROVE ScanInv'
  <2>1. /\ k \in 0 .. m /\ cp = bp + k /\ Read(w, k) /\ dfa.state = StateOf(w, k)
        /\ (k >= 2 => dfa.last = [state |-> 6, cpos |-> bp + 1])
    BY ONLY <1>5, <1>12, Zenon DEF Scanned
  <2>2. PICK s \in {1, 4, 6, 9, 10, 11} : s = StateOf(w, k) /\ (k >= 2 => s \in {9, 10, 11})
                                           /\ (k = 0 => s = 1) /\ (k = 1 => s \in {4, 6})
    BY States DEF StateOf
  <2>3. PICK t \in 1 .. 13 : t = Goes(s, c) /\ dfa' = [state |-> t, last |-> IF s \in {4, 6} THEN [state |-> s, cpos |-> cp] ELSE dfa.last]
    <3>1. Goes(s, c) \in 1 .. 13
      BY ONLY <1>7, GoesTyped, s \in {1, 4, 6, 9, 10, 11}
    <3>2. dfa' = [state |-> Goes(s, c), last |-> IF s \in {3, 4, 6} THEN [state |-> s, cpos |-> cp] ELSE dfa.last]
      <4>1. dfa.state = s
        BY ONLY <2>1, <2>2, Zenon
      <4>2. dfa.state \in {1, 3, 4, 6, 9, 10, 11}
        BY ONLY <4>1, s \in {1, 4, 6, 9, 10, 11}
      <4>. QED
        <5>1. Scan!Turn(dfa, cp, c) =
                [state |-> Goes(dfa.state, c),
                 last |-> IF dfa.state \in {3, 4, 6} THEN [state |-> dfa.state, cpos |-> cp] ELSE dfa.last]
          BY ONLY <1>7, <4>2, Turns
        <5>. QED
          BY ONLY <1>3, <4>1, <5>1
    <3>. QED
      BY ONLY <3>1, <3>2, s \in {1, 4, 6, 9, 10, 11}
  <2>4. dfa' \in Automaton
    BY ONLY <1>1, <1>3, <1>7, <2>1, <2>2, TurnTyped
  <2>5. dfa'.state = t /\ dfa'.last = IF s \in {4, 6} THEN [state |-> s, cpos |-> cp] ELSE dfa.last
    BY ONLY <2>3
  <2>6. CASE c = 0
    <3>1. t = 3
      BY ONLY <2>3, <2>6, GoesTyped, s \in {1, 4, 6, 9, 10, 11}
    <3>2. /\ cp + 1 \in Nat /\ bp < cp + 1 /\ cp + 1 <= Len(buf) + 1 /\ (cp + 1) - bp - 1 = k
          /\ (cp + 1 <= Len(buf) => cp < Len(buf))
      BY ONLY <1>1, <1>5, <2>1
    <3>3. cp + 1 <= Len(buf) => buf[cp + 1] = 0
      BY ONLY <1>6, <2>6, <3>2
    <3>4. NulBefore(cp)'
      <4>1. /\ cp' \in Nat /\ bp' < cp' /\ cp' <= Len(buf') + 1 /\ cp' - bp' - 1 = k
            /\ (cp' <= Len(buf') => buf'[cp'] = 0)
        BY ONLY <1>2, <3>2, <3>3, Zenon
      <4>2. Read(Scan!Text', cp' - bp' - 1)
        BY ONLY <1>4, <1>5, <2>1, <4>1, Zenon
      <4>. QED
        BY ONLY <4>1, <4>2, Zenon DEF NulBefore
    <3>5. Matching'
      BY ONLY <2>5, <3>1, <3>4, Zenon DEF Matching
    <3>. QED
      BY ONLY <1>8, <2>4, <2>5, <3>1, <3>5
  <2>7. CASE c # 0
    <3>1. cp < Len(buf) /\ c = w[k + 1] /\ k \in 0 .. m - 1 /\ k + 1 \in 0 .. m /\ cp + 1 = bp + (k + 1) /\ k + 1 \in Nat
      <4>1. cp < Len(buf)
        BY ONLY <1>6, <2>7
      <4>2. k \in 0 .. m - 1 /\ k + 1 \in 1 .. m /\ k + 1 \in 0 .. m /\ cp + 1 = bp + (k + 1) /\ k + 1 \in Nat
        BY ONLY <1>1, <1>5, <2>1, <4>1
      <4>. QED
        BY ONLY <1>5, <1>6, <4>1, <4>2, Zenon
    <3>2. Class(w[k + 1]) = w[k + 1] /\ w[k + 1] # 0 /\ w[k + 1] \in 1 .. 7 /\ c \in 1 .. 7
      BY ONLY <1>7, <2>7, <3>1 DEF Class
    <3>5. t = Goes(StateOf(w, k), w[k + 1]) /\ t = Goes(StateOf(w, k), Class(w[k + 1])) /\ t = Goes(s, c)
      BY ONLY <2>2, <2>3, <3>1, <3>2, Zenon
    <3>6. k \in 0 .. Len(w) - 1
      BY ONLY <1>5, <3>1, Zenon
    <3>3. CASE t \in {6, 9, 10, 11}
      <4>1. Read(w, k + 1) /\ StateOf(w, k + 1) = t
        BY ONLY <2>1, <3>3, <3>5, <3>6, w \in Seq(0 .. 7), ReadOn, Zenon
      <4>2. k + 1 >= 2 => dfa'.last = [state |-> 6, cpos |-> bp + 1]
        <5>1. CASE k = 0
          BY <5>1
        <5>2. CASE k = 1
          <6>1. s = 6
            <7>1. Goes(4, c) = 13
              BY ONLY <3>2, RowsGo
            <7>. QED
              BY ONLY <2>2, <3>3, <3>5, <5>2, <7>1
          <6>. QED
            BY ONLY <2>1, <2>5, <5>2, <6>1
        <5>3. CASE k >= 2
          BY ONLY <2>1, <2>2, <2>5, <5>3
        <5>. QED
          BY <5>1, <5>2, <5>3
      <4>3. Scanned(k + 1)'
        BY ONLY <1>2, <1>4, <1>5, <2>5, <3>1, <4>1, <4>2, Zenon DEF Scanned
      <4>4. Matching'
        BY ONLY <3>1, <4>3, Zenon DEF Matching
      <4>. QED
        BY ONLY <1>8, <2>4, <2>5, <3>3, <4>4
    <3>4. CASE t \notin {6, 9, 10, 11}
      <4>1. \/ /\ k = 0 /\ t \in {4, 5, 7, 8} /\ Single(w)
               /\ Scan!Tokens!Rule(SubSeq(w, 1, 1)) = Scan!yy_accept[t]
            \/ /\ t = 12 /\ Scan!Tokens!FirstLength(w) = k + 1 /\ ~Scan!Tokens!Incomplete(w)
               /\ Scan!Tokens!Rule(SubSeq(w, 1, k + 1)) = Scan!yy_accept[t]
            \/ /\ t = 13 /\ k >= 1 /\ Single(w)
               /\ Scan!Tokens!Rule(SubSeq(w, 1, 1)) = 4
        BY ONLY <2>1, <3>2, <3>4, <3>5, <3>6, w \in Seq(0 .. 7), Stops, Zenon
      <4>2. 1 \in 1 .. m /\ k + 1 \in 1 .. m /\ 1 \in Nat
        BY ONLY <3>1
      <4>3. CASE /\ k = 0 /\ t \in {4, 5, 7, 8} /\ Single(w)
                 /\ Scan!Tokens!Rule(SubSeq(w, 1, 1)) = Scan!yy_accept[t]
        <5>1. Scan!Found'.state = t /\ Scan!Found'.cpos = bp + 1
          BY ONLY <1>2, <1>10, <2>5, <3>1, <4>3
        <5>2. Cut(w, 1, Scan!yy_accept[t])'
          BY ONLY <1>5, <4>2, <4>3, Zenon DEF Cut, Single
        <5>3. Finding'
          BY ONLY <1>2, <1>4, <1>5, <4>2, <4>3, <5>1, <5>2 DEF Finding
        <5>. QED
          BY ONLY <1>9, <2>4, <2>5, <4>3, <5>3
      <4>4. CASE /\ t = 12 /\ Scan!Tokens!FirstLength(w) = k + 1 /\ ~Scan!Tokens!Incomplete(w)
                 /\ Scan!Tokens!Rule(SubSeq(w, 1, k + 1)) = Scan!yy_accept[t]
        <5>1. Scan!Found'.state = t /\ Scan!Found'.cpos = bp + (k + 1)
          BY ONLY <1>2, <1>10, <2>5, <3>1, <4>4
        <5>2. Cut(w, k + 1, Scan!yy_accept[t])'
          BY ONLY <1>5, <4>2, <4>4, Zenon DEF Cut, Single
        <5>3. Finding'
          BY ONLY <1>2, <1>4, <1>5, <3>1, <4>4, <5>1, <5>2 DEF Finding
        <5>. QED
          BY ONLY <1>9, <2>4, <2>5, <4>4, <5>3
      <4>5. CASE t = 13 /\ k >= 1 /\ Single(w) /\ Scan!Tokens!Rule(SubSeq(w, 1, 1)) = 4
        <5>1. dfa'.last.state \in {4, 6} /\ dfa'.last.cpos = bp + 1
          <6>1. CASE k = 1
            <7>1. s \in {4, 6}
              BY ONLY <2>2, <6>1 DEF StateOf
            <7>. QED
              BY ONLY <2>1, <2>5, <6>1, <7>1
          <6>2. CASE k >= 2
            BY ONLY <2>1, <2>2, <2>5, <6>2
          <6>. QED
            BY <4>5, <6>1, <6>2
        <5>2. Scan!Found' = dfa'.last
          BY ONLY <1>10, <2>5, <4>5
        <5>3. Scan!Found'.state \in {4, 6} /\ Scan!Found'.cpos = bp' + 1
          BY ONLY <1>2, <5>1, <5>2
        <5>4. Scan!yy_accept[Scan!Found'.state] = 4
          BY ONLY <5>3, Accepts
        <5>5. Cut(w, 1, 4)'
          BY ONLY <1>5, <4>2, <4>5, Zenon DEF Cut, Single
        <5>6. Finding'
          BY ONLY <1>4, <1>5, <4>2, <5>3, <5>4, <5>5 DEF Finding
        <5>. QED
          BY ONLY <1>9, <2>4, <2>5, <4>5, <5>6
      <4>. QED
        BY <4>1, <4>3, <4>4, <4>5
    <3>. QED
      BY <3>3, <3>4
  <2>. QED
    BY <2>6, <2>7
<1>. QED
  BY <1>2, <1>11, <1>12 DEF Matching

\* The states of the rules, and that of a NUL.
LEMMA AcceptsRules ==
  /\ \A s \in {4, 5, 6, 7, 8, 12} : Scan!yy_accept[s] \in 1 .. 5
  /\ Scan!yy_accept[3] = 6 /\ Scan!YY_END_OF_BUFFER = 6
  BY Accepts DEF Scan!YY_END_OF_BUFFER

\* One step of the stream of tokens, or none.
Streams == [Scan!Tokens!Next]_(Scan!Tokens!vars)

\* What the variables hold, for the proofs of the steps.
LEMMA ScanFacts ==
  ASSUME ScanInv
  PROVE  /\ buf \in Seq(0 .. 7) /\ size \in Nat \ {0} /\ Len(buf) <= size
         /\ bp \in 0 .. Len(buf) /\ bp \in Nat /\ Len(buf) \in Nat /\ cp \in Nat
         /\ dfa \in Automaton /\ status \in {"NEW", "NORMAL", "EOF_PENDING"}
  BY DEF ScanInv, ScanTyped

\* A rule receives the first token of the text in hand.
LEMMA RunRuleStep ==
  ASSUME ScanInv, Scan!RunRule
  PROVE  ScanInv' /\ Streams
<1>1. /\ buf \in Seq(0 .. 7) /\ size \in Nat \ {0} /\ Len(buf) <= size
      /\ bp \in 0 .. Len(buf) /\ bp \in Nat /\ Len(buf) \in Nat /\ cp \in Nat
      /\ dfa \in Automaton /\ status \in {"NEW", "NORMAL", "EOF_PENDING"}
  BY ScanFacts
<1>2. /\ pc = "find_action" /\ Finding /\ Scan!yy_accept[Scan!Found.state] \in 1 .. 5
      /\ token' = [rule |-> Scan!yy_accept[Scan!Found.state], text |-> SubSeq(buf, bp + 1, Scan!Found.cpos)]
      /\ bp' = Scan!Found.cpos /\ cp' = Scan!Found.cpos /\ dfa' = [dfa EXCEPT !.state = 1]
      /\ pc' = "match" /\ buf' = buf /\ size' = size /\ status' = status
  BY DEF ScanInv, Scan!RunRule
<1>3. PICK n \in Nat : Scan!Found.cpos = bp + n /\ Cut(Scan!Text, n, Scan!yy_accept[Scan!Found.state])
  BY ONLY <1>2, AcceptsRules DEF Finding
<1>4. PICK w \in Seq(0 .. 7), m \in Nat : w = Scan!Text /\ m = Len(w) /\ m = Len(buf) - bp
  BY <1>1, TextIs
<1>5. n \in 1 .. m /\ n \in 0 .. Len(Scan!Text) /\ bp + n \in 0 .. Len(buf) /\ bp + n \in Nat
  BY ONLY <1>1, <1>3, <1>4 DEF Cut
<1>6. /\ SubSeq(w, 1, n) = SubSeq(buf, bp + 1, bp + n)
      /\ SubSeq(w, n + 1, m) = SubSeq(buf, bp + n + 1, Len(buf))
  BY ONLY <1>1, <1>4, <1>5, TextParts, Zenon
<1>7. Scan!Text' = SubSeq(buf, bp + n + 1, Len(buf))
  BY ONLY <1>2, <1>3, Zenon DEF Scan!Text
<1>8. Len(Scan!Text') \in Nat
  BY ONLY <1>1, <1>5, <1>7, RestIs, Zenon
<1>9. dfa' \in Automaton /\ dfa'.state = 1
  BY ONLY <1>1, <1>2 DEF Automaton
<1>10. Scanned(0)'
  <2>1. 0 \in 0 .. Len(Scan!Text') /\ cp' = bp' + 0 /\ ~(0 >= 2)
    BY ONLY <1>2, <1>3, <1>5, <1>8
  <2>2. Read(Scan!Text', 0) /\ StateOf(Scan!Text', 0) = 1
    BY DEF Read, StateOf
  <2>. QED
    BY ONLY <1>9, <2>1, <2>2, Zenon DEF Scanned
<1>11. ScanInv'
  <2>1. Matching'
    BY ONLY <1>10, 0 \in Nat, Zenon DEF Matching
  <2>2. ScanTyped'
    BY ONLY <1>1, <1>2, <1>3, <1>5, <1>9 DEF ScanTyped
  <2>. QED
    BY ONLY <1>2, <2>1, <2>2 DEF ScanInv
<1>12. Scan!Tokens!Deliver
  <2>1. w # <<>>
    <3>1. Len(w) # 0
      BY ONLY <1>4, <1>5
    <3>2. Len(<<>>) = 0
      OBVIOUS
    <3>. QED
      BY ONLY <3>1, <3>2, Zenon
  <2>2. n = Scan!Tokens!FirstLength(w) /\ Scan!yy_accept[Scan!Found.state] = Scan!Tokens!Rule(SubSeq(w, 1, n))
        /\ (status = "EOF_PENDING" \/ ~Scan!Tokens!Incomplete(w))
    BY ONLY <1>3, <1>4, Zenon DEF Cut
  <2>3. token' = [rule |-> Scan!Tokens!Rule(SubSeq(w, 1, n)), text |-> SubSeq(w, 1, n)]
    BY ONLY <1>2, <1>3, <1>6, <2>2, Zenon
  <2>4. Scan!Text' = SubSeq(w, n + 1, Len(w))
    BY ONLY <1>4, <1>6, <1>7, Zenon
  <2>5. (pc = "ended") = FALSE /\ (pc' = "ended") = FALSE
    BY ONLY <1>2
  <2>. QED
    BY ONLY <1>2, <1>4, <2>1, <2>2, <2>3, <2>4, <2>5 DEF Scan!Tokens!Deliver
<1>. QED
  BY ONLY <1>11, <1>12, Zenon DEF Streams, Scan!Tokens!Next

\* A step that leaves the text in hand, its end and the last token alone.
LEMMA Stutters ==
  ASSUME UNCHANGED <<buf, bp, token>>, pc # "ended", pc' # "ended",
         status' = "EOF_PENDING" <=> status = "EOF_PENDING"
  PROVE  Streams
<1>1. Scan!Text' = Scan!Text
  BY Zenon DEF Scan!Text
<1>2. (status' = "EOF_PENDING" \/ pc' = "ended") = (status = "EOF_PENDING" \/ pc = "ended")
      /\ (pc' = "ended") = (pc = "ended")
  OBVIOUS
<1>. QED
  BY <1>1, <1>2, Zenon DEF Streams, Scan!Tokens!vars

\* A NUL of the text is read as a character, or ends the token before it.
LEMMA NulCharacterStep ==
  ASSUME ScanInv, Scan!NulCharacter
  PROVE  ScanInv' /\ Streams
<1>1. /\ buf \in Seq(0 .. 7) /\ size \in Nat \ {0} /\ Len(buf) <= size
      /\ bp \in 0 .. Len(buf) /\ bp \in Nat /\ Len(buf) \in Nat /\ cp \in Nat
      /\ dfa \in Automaton /\ status \in {"NEW", "NORMAL", "EOF_PENDING"}
  BY ScanFacts
<1>. DEFINE at == Scan!Found.cpos - 1
            before == Scan!yy_get_previous_state(Scan!Text, bp, at - bp)
            turned == Scan!Turn(before, at, 1)
<1>2. /\ pc = "find_action" /\ Finding /\ Scan!yy_accept[Scan!Found.state] = 6 /\ Scan!Found.cpos <= Len(buf)
      /\ status' = IF status = "NEW" THEN "NORMAL" ELSE status
      /\ buf' = buf /\ size' = size /\ bp' = bp /\ token' = token
  BY AcceptsRules DEF ScanInv, Scan!NulCharacter, Scan!AtEndOfBuffer, Scan!Opened
<1>3. IF turned.state # 13
      THEN cp' = at + 1 /\ dfa' = turned /\ pc' = "match"
      ELSE cp' = at /\ dfa' = [turned EXCEPT !.state = before.state] /\ pc' = "find_action"
  BY Zenon DEF Scan!NulCharacter, Scan!Jam
<1>4. PICK p \in Nat : p = Scan!Found.cpos /\ NulBefore(p)
  <2>1. \A s \in {4, 5, 6, 7, 8, 12} : Scan!yy_accept[s] # 6
    BY AcceptsRules
  <2>2. NulBefore(Scan!Found.cpos)
    BY ONLY <1>2, <2>1, Zenon DEF Finding
  <2>. QED
    BY ONLY <2>2, Zenon DEF NulBefore
<1>5. PICK w \in Seq(0 .. 7), m \in Nat : w = Scan!Text /\ m = Len(w) /\ m = Len(buf) - bp
                                          /\ \A i \in 1 .. m : w[i] = buf[bp + i]
  BY <1>1, TextIs
<1>6. PICK k \in Nat : /\ k = at - bp /\ k = p - bp - 1 /\ at = bp + k /\ at \in Nat /\ p = bp + (k + 1)
                       /\ k \in 0 .. m - 1 /\ k \in 0 .. m /\ k + 1 \in 1 .. m
  <2>1. bp < p /\ p <= Len(buf) /\ at = p - 1
    BY ONLY <1>2, <1>4, Zenon DEF NulBefore
  <2>2. \A n \in Nat : bp < p /\ p <= n /\ m = n - bp =>
          /\ p - 1 - bp \in Nat /\ p - 1 - bp = p - bp - 1 /\ p - 1 = bp + (p - 1 - bp) /\ p - 1 \in Nat
          /\ p = bp + ((p - 1 - bp) + 1)
          /\ p - 1 - bp \in 0 .. m - 1 /\ p - 1 - bp \in 0 .. m /\ (p - 1 - bp) + 1 \in 1 .. m
    BY ONLY <1>1, p \in Nat, m \in Nat
  <2>3. bp < p /\ p <= Len(buf) /\ m = Len(buf) - bp /\ Len(buf) \in Nat
    BY ONLY <1>1, <1>5, <2>1, Zenon
  <2>. QED
    BY ONLY <2>1, <2>2, <2>3, Zenon
<1>7. Read(w, k) /\ w[k + 1] = 0
  <2>1. buf[p] = 0
    BY ONLY <1>2, <1>4 DEF NulBefore
  <2>2. Read(w, k)
    BY ONLY <1>4, <1>5, <1>6, Zenon DEF NulBefore
  <2>. QED
    BY ONLY <1>5, <1>6, <2>1, <2>2, Zenon
<1>8. before = After(w, bp, k, dfa)
  <2>1. k \in 0 .. Len(w)
    BY ONLY <1>5, <1>6, Zenon
  <2>2. Scan!yy_get_previous_state(w, bp, k) = After(w, bp, k, dfa)
    BY ONLY <1>1, <1>7, <2>1, w \in Seq(0 .. 7), Previous, Zenon
  <2>. QED
    BY ONLY <1>5, <1>6, <2>2, Zenon
<1>9. PICK s \in {1, 4, 6, 9, 10, 11} : s = StateOf(w, k) /\ (k >= 2 => s \in {9, 10, 11})
                                        /\ (k = 0 => s = 1) /\ (k = 1 => s \in {4, 6})
  BY States DEF StateOf
<1>10. PICK l \in Matched : /\ before = [state |-> s, last |-> l]
                            /\ (k >= 2 => l = [state |-> 6, cpos |-> bp + 1])
  <2>1. (IF k >= 2 THEN [state |-> 6, cpos |-> bp + 1] ELSE dfa.last) \in Matched
    BY ONLY <1>1 DEF Matched, Automaton
  <2>. QED
    BY ONLY <1>8, <1>9, <2>1 DEF After
<1>. HIDE DEF before
<1>11. PICK t \in {4, 9, 13} : /\ t = Goes(s, 1)
                               /\ turned = [state |-> t, last |-> IF s \in {4, 6} THEN [state |-> s, cpos |-> at] ELSE l]
  <2>1. Goes(s, 1) \in {4, 9, 13}
    BY RowsGo
  <2>2. before.state = s /\ before.last = l /\ s \in {1, 3, 4, 6, 9, 10, 11} /\ 1 \in 0 .. 7
    BY ONLY <1>10, s \in {1, 4, 6, 9, 10, 11}
  <2>3. turned = [state |-> Goes(s, 1), last |-> IF s \in {3, 4, 6} THEN [state |-> s, cpos |-> at] ELSE l]
    BY ONLY <2>2, Turns
  <2>. QED
    BY ONLY <2>1, <2>3, s \in {1, 4, 6, 9, 10, 11}
<1>. HIDE DEF turned
<1>12. Class(w[k + 1]) = 1 /\ t = Goes(StateOf(w, k), Class(w[k + 1]))
  BY ONLY <1>7, <1>9, <1>11 DEF Class
<1>13. Scan!Text' = w /\ pc' # "ended" /\ pc' \in {"match", "find_action"} /\ status' \in {"NEW", "NORMAL", "EOF_PENDING"}
       /\ (status' = "EOF_PENDING" <=> status = "EOF_PENDING") /\ pc # "ended"
  <2>1. Scan!Text' = w
    BY ONLY <1>2, <1>5, Zenon DEF Scan!Text
  <2>. QED
    BY ONLY <1>1, <1>2, <1>3, <2>1
<1>14. Streams
  BY ONLY <1>2, <1>13, Stutters
<1>15. CASE t # 13
  <2>1. turned.state # 13
    BY ONLY <1>11, <1>15
  <2>2. cp' = bp + (k + 1) /\ dfa' = turned /\ pc' = "match" /\ cp' \in Nat
    <3>1. cp' = at + 1 /\ dfa' = turned /\ pc' = "match"
      BY ONLY <1>3, <2>1, Zenon
    <3>2. at + 1 = bp + (k + 1) /\ at + 1 \in Nat
      <4>1. \A q \in Nat : q = bp + k => q + 1 = bp + (k + 1) /\ q + 1 \in Nat
        BY ONLY <1>1, k \in Nat
      <4>2. at \in Nat /\ at = bp + k
        BY ONLY <1>6, Zenon
      <4>. QED
        BY ONLY <4>1, <4>2, Zenon
    <3>. QED
      BY ONLY <3>1, <3>2, Zenon
  <2>3. Read(w, k + 1) /\ StateOf(w, k + 1) = t
    <3>1. t \in {6, 9, 10, 11} \/ (t = 4 /\ w[k + 1] = 0)
      BY ONLY <1>5, <1>6, <1>7, <1>15, t \in {4, 9, 13}
    <3>2. k \in 0 .. Len(w) - 1
      BY ONLY <1>5, <1>6, Zenon
    <3>. QED
      BY ONLY <1>7, <1>12, <3>1, <3>2, w \in Seq(0 .. 7), ReadOn, Zenon
  <2>4. k + 1 >= 2 => dfa'.last = [state |-> 6, cpos |-> bp + 1]
    <3>1. CASE k = 0
      BY <3>1
    <3>2. CASE k = 1
      <4>1. Goes(4, 1) = 13
        BY RowsGo
      <4>2. s = 6
        BY ONLY <1>9, <1>11, <1>15, <3>2, <4>1
      <4>. QED
        BY ONLY <1>6, <1>11, <2>2, <3>2, <4>2
    <3>3. CASE k >= 2
      BY ONLY <1>9, <1>10, <1>11, <2>2, <3>3
    <3>. QED
      BY <3>1, <3>2, <3>3
  <2>5. dfa' \in Automaton /\ dfa'.state = t
    <3>1. (IF s \in {4, 6} THEN [state |-> s, cpos |-> at] ELSE l) \in Matched
      BY ONLY <1>6, l \in Matched, s \in {1, 4, 6, 9, 10, 11} DEF Matched
    <3>. QED
      BY ONLY <1>11, <2>2, <3>1 DEF Automaton
  <2>6. Scanned(k + 1)'
    <3>1. k + 1 \in 0 .. Len(w)
      BY ONLY <1>5, <1>6
    <3>. QED
      BY ONLY <1>2, <1>13, <2>2, <2>3, <2>4, <2>5, <3>1, Zenon DEF Scanned
  <2>7. Matching'
    BY ONLY <1>6, <2>6, k + 1 \in Nat, Zenon DEF Matching
  <2>8. ScanTyped'
    BY ONLY <1>1, <1>2, <1>13, <2>2, <2>5 DEF ScanTyped
  <2>. QED
    BY ONLY <1>14, <2>2, <2>7, <2>8 DEF ScanInv
<1>16. CASE t = 13
  <2>1. turned.state = 13
    BY ONLY <1>11, <1>16
  <2>2. cp' = bp + k /\ pc' = "find_action" /\ cp' \in Nat /\ dfa' = [turned EXCEPT !.state = s]
    BY ONLY <1>1, <1>3, <1>6, <1>10, <2>1
  <2>3. dfa' = [state |-> s, last |-> IF s \in {4, 6} THEN [state |-> s, cpos |-> at] ELSE l]
    BY ONLY <1>11, <2>2
  <2>4. dfa' \in Automaton /\ dfa'.state = s
    <3>1. (IF s \in {4, 6} THEN [state |-> s, cpos |-> at] ELSE l) \in Matched
      BY ONLY <1>6, l \in Matched, s \in {1, 4, 6, 9, 10, 11} DEF Matched
    <3>. QED
      BY ONLY <2>3, <3>1, s \in {1, 4, 6, 9, 10, 11} DEF Automaton
  <2>5. (k = 1 /\ s = 4) \/ (k >= 2 /\ s \in {9, 10, 11})
    <3>1. Goes(1, 1) = 4 /\ Goes(6, 1) = 9
      BY RowsGo
    <3>. QED
      BY ONLY <1>9, <1>11, <1>16, <3>1
  <2>6. Scan!Found' = IF s \in {3, 4, 5, 6, 7, 8, 12} THEN [state |-> s, cpos |-> cp'] ELSE dfa'.last
    <3>1. Scan!Found' = IF Scan!yy_accept[dfa'.state] # 0 THEN [state |-> dfa'.state, cpos |-> cp'] ELSE dfa'.last
      BY Zenon DEF Scan!Found
    <3>2. dfa'.state \in 1 .. 13
      BY ONLY <2>4, s \in {1, 4, 6, 9, 10, 11}
    <3>3. Scan!Found' = IF dfa'.state \in {3, 4, 5, 6, 7, 8, 12} THEN [state |-> dfa'.state, cpos |-> cp'] ELSE dfa'.last
      BY ONLY <3>1, <3>2, FoundIs, Zenon
    <3>. QED
      BY ONLY <2>4, <3>3, Zenon
  <2>7. Scan!Found'.state \in {4, 6} /\ Scan!Found'.cpos = bp' + 1
    <3>1. CASE k = 1 /\ s = 4
      BY ONLY <1>2, <2>2, <2>6, <3>1
    <3>2. CASE k >= 2 /\ s \in {9, 10, 11}
      <4>1. dfa'.last = [state |-> 6, cpos |-> bp + 1]
        BY ONLY <1>10, <2>3, <3>2
      <4>. QED
        BY ONLY <1>2, <2>6, <3>2, <4>1
    <3>. QED
      BY <2>5, <3>1, <3>2
  <2>8. Scan!yy_accept[Scan!Found'.state] = 4
    BY ONLY <2>7, Accepts
  <2>9. Single(w) /\ Scan!Tokens!Rule(SubSeq(w, 1, 1)) = 4
    <3>1. k \in 1 .. Len(w) - 1
      BY ONLY <1>5, <1>6, <2>5
    <3>2. Len(w) >= 1 /\ w[1] \in {0, 4}
      BY ONLY <1>7, <3>1, <2>5, <1>5 DEF Read
    <3>3. Goes(StateOf(w, k), Class(w[k + 1])) = 13
      BY ONLY <1>12, <1>16, Zenon
    <3>4. Single(w)
      BY ONLY <1>7, <3>1, <3>3, w \in Seq(0 .. 7), SingleJam, Zenon
    <3>5. Scan!Tokens!Rule(SubSeq(w, 1, 1)) = 4
      BY ONLY <3>2, w \in Seq(0 .. 7), RuleOne
    <3>. QED
      BY ONLY <3>4, <3>5, Zenon
  <2>10. 1 \in 1 .. Len(w)
    BY ONLY <1>5, <1>6
  <2>11. Cut(w, 1, 4)'
    BY ONLY <2>9, <2>10, Zenon DEF Cut, Single
  <2>12. Finding'
    BY ONLY <1>13, <2>7, <2>8, <2>11 DEF Finding
  <2>13. ScanTyped'
    BY ONLY <1>1, <1>2, <1>13, <2>2, <2>4 DEF ScanTyped
  <2>. QED
    BY ONLY <1>14, <2>2, <2>12, <2>13 DEF ScanInv
<1>. QED
  BY <1>15, <1>16

\* The end of the buffer is met when the text has been read.
LEMMA EndOfBufferStep ==
  ASSUME ScanInv, Scan!EndOfBuffer
  PROVE  ScanInv' /\ Streams
<1>1. /\ buf \in Seq(0 .. 7) /\ size \in Nat \ {0} /\ Len(buf) <= size
      /\ bp \in 0 .. Len(buf) /\ bp \in Nat /\ Len(buf) \in Nat /\ cp \in Nat
      /\ dfa \in Automaton /\ status \in {"NEW", "NORMAL", "EOF_PENDING"}
  BY ScanFacts
<1>2. /\ pc = "find_action" /\ Finding /\ Scan!yy_accept[Scan!Found.state] = 6 /\ Scan!Found.cpos > Len(buf)
      /\ status' = IF status = "NEW" THEN "NORMAL" ELSE status
      /\ buf' = buf /\ size' = size /\ bp' = bp /\ token' = token /\ dfa' = dfa
      /\ cp' = Scan!Found.cpos /\ pc' = "refill"
  BY AcceptsRules DEF ScanInv, Scan!EndOfBuffer, Scan!AtEndOfBuffer, Scan!Opened
<1>3. NulBefore(Scan!Found.cpos)
  <2>1. \A s \in {4, 5, 6, 7, 8, 12} : Scan!yy_accept[s] # 6
    BY AcceptsRules
  <2>. QED
    BY ONLY <1>2, <2>1, Zenon DEF Finding
<1>4. PICK w \in Seq(0 .. 7), m \in Nat : w = Scan!Text /\ m = Len(w) /\ m = Len(buf) - bp
  BY <1>1, TextIs
<1>5. /\ cp' = Len(buf) + 1 /\ cp' \in Nat /\ bp' < cp' /\ Scan!Found.cpos - bp - 1 = m
  BY ONLY <1>1, <1>2, <1>3, <1>4 DEF NulBefore
<1>6. Scan!Text' = w /\ Read(w, m)
  <2>1. Scan!Text' = w
    BY ONLY <1>2, <1>4, Zenon DEF Scan!Text
  <2>. QED
    BY ONLY <1>3, <1>4, <1>5, <2>1, Zenon DEF NulBefore
<1>7. Refilling'
  BY ONLY <1>2, <1>4, <1>5, <1>6, Zenon DEF Refilling
<1>8. ScanTyped'
  BY ONLY <1>1, <1>2, <1>5 DEF ScanTyped
<1>9. Streams
  <2>1. pc # "ended" /\ pc' # "ended" /\ (status' = "EOF_PENDING" <=> status = "EOF_PENDING")
    BY ONLY <1>1, <1>2
  <2>. QED
    BY ONLY <1>2, <2>1, Stutters
<1>. QED
  BY ONLY <1>2, <1>7, <1>8, <1>9 DEF ScanInv

\* A word that begins as another one does is read as the other one is, as far as this one goes.
LEMMA ReadPrefix ==
  ASSUME NEW v \in Seq(0 .. 7), NEW w \in Seq(0 .. 7), Continues(v, w), NEW k \in 0 .. Len(w), Read(w, k)
  PROVE  Read(v, k) /\ StateOf(v, k) = StateOf(w, k)
<1>1. k \in Nat /\ Len(w) \in Nat /\ \A i \in 1 .. k : v[i] = w[i]
  BY DEF Continues
<1>2. /\ (k >= 1 => v[1] = w[1]) /\ (k >= 1 => v[k] = w[k]) /\ (k >= 2 => v[k - 1] = w[k - 1])
      /\ \A b \in 2 .. k : \A i \in 2 .. b : v[i] = w[i]
  BY ONLY <1>1
<1>3. StateOf(v, k) = StateOf(w, k)
  BY ONLY <1>1, <1>2 DEF StateOf
<1>4. \A b \in 0 .. k : Clean(w, 2, b) => Clean(v, 2, b)
  BY ONLY <1>1 DEF Clean
<1>5. k >= 2 => k \in 0 .. k /\ k - 1 \in 0 .. k /\ k - 2 \in 0 .. k
  BY ONLY <1>1
<1>6. Read(v, k)
  <2>1. CASE k = 0
    BY <2>1 DEF Read
  <2>2. CASE k = 1
    BY <1>2, <2>2 DEF Read
  <2>3. CASE k >= 2
    <3>1. /\ (Clean(w, 2, k) => Clean(v, 2, k)) /\ (Clean(w, 2, k - 1) => Clean(v, 2, k - 1))
          /\ (Clean(w, 2, k - 2) => Clean(v, 2, k - 2))
          /\ v[1] = w[1] /\ v[k] = w[k] /\ v[k - 1] = w[k - 1]
      BY ONLY <1>2, <1>4, <1>5, <2>3, k \in Nat
    <3>. HIDE DEF Clean
    <3>. QED
      BY ONLY <2>3, <3>1, Read(w, k), k \in Nat DEF Read
  <2>. QED
    BY <1>1, <2>1, <2>2, <2>3
<1>. QED
  BY <1>3, <1>6

\* A refill starts with the text in hand, all of which has been read.
LEMMA RefillFacts ==
  ASSUME ScanInv, pc = "refill"
  PROVE  /\ Scan!number_to_move = Len(Scan!Text) /\ Scan!Moved = Scan!Text
         /\ Scan!Text \in Seq(0 .. 7) /\ Len(Scan!Text) \in Nat /\ Len(Scan!Text) <= Len(buf)
         /\ Read(Scan!Text, Len(Scan!Text))
         /\ Scan!Grown \in Nat /\ Scan!Grown >= size /\ Scan!Grown > Len(Scan!Text) + 1
<1>1. /\ buf \in Seq(0 .. 7) /\ size \in Nat \ {0} /\ bp \in 0 .. Len(buf) /\ bp \in Nat /\ Len(buf) \in Nat
      /\ cp \in Nat
  BY ScanFacts
<1>2. bp < cp /\ cp = Len(buf) + 1 /\ Read(Scan!Text, Len(Scan!Text))
  BY DEF ScanInv, Refilling
<1>3. Scan!Text \in Seq(0 .. 7) /\ Len(Scan!Text) = Len(buf) - bp /\ Len(Scan!Text) \in Nat
  BY <1>1, TextIs
<1>4. Scan!number_to_move = Len(Scan!Text)
  BY ONLY <1>1, <1>2, <1>3 DEF Scan!number_to_move
<1>5. bp + Scan!number_to_move = Len(buf) /\ Len(Scan!Text) <= Len(buf)
  BY ONLY <1>1, <1>3, <1>4
<1>6. Scan!Moved = Scan!Text
  BY ONLY <1>5, Zenon DEF Scan!Moved, Scan!Text
<1>7. Scan!Grown \in Nat /\ Scan!Grown >= size /\ Scan!Grown > Scan!number_to_move + 1
  BY ONLY <1>1, <1>3, <1>4, Growth, Zenon
<1>8. Scan!Grown > Len(Scan!Text) + 1
  BY ONLY <1>4, <1>7, Zenon
<1>. QED
  BY ONLY <1>2, <1>3, <1>4, <1>5, <1>6, <1>7, <1>8, Zenon

\* After a refill the text in hand is the whole buffer.
LEMMA TextMoved ==
  ASSUME NEW b \in Seq(0 .. 7), buf' = b, bp' = 0
  PROVE  Scan!Text' = b
<1>1. 0 + 1 = 1
  OBVIOUS
<1>2. SubSeq(b, 1, Len(b)) = b
  BY ONLY b \in Seq(0 .. 7), SubSeqFull, Zenon
<1>. QED
  BY ONLY <1>1, <1>2, buf' = b, bp' = 0, Zenon DEF Scan!Text

\* The automaton after a refill, where the reading goes on.
LEMMA AfterTyped ==
  ASSUME dfa \in Automaton, NEW w, NEW n \in Nat
  PROVE  /\ After(w, 0, n, dfa) \in Automaton
         /\ After(w, 0, n, dfa).state = StateOf(w, n)
         /\ n >= 2 => After(w, 0, n, dfa).last = [state |-> 6, cpos |-> 1]
<1>1. PICK s \in {1, 4, 6, 9, 10, 11} : s = StateOf(w, n)
  BY States
<1>2. PICK l \in Matched : l = dfa.last
  BY DEF Automaton
<1>3. [state |-> 6, cpos |-> 0 + 1] \in Matched /\ 0 + 1 = 1
  BY DEF Matched
<1>. QED
  BY ONLY <1>1, <1>2, <1>3, n \in Nat DEF After, Automaton

\* Characters are appended to the text in hand, and the reading goes on where it was.
LEMMA ReadSomeStep ==
  ASSUME Scan!ScannerAssumption, ScanInv, Scan!ReadSome
  PROVE  ScanInv' /\ Streams
<1>1. /\ size \in Nat \ {0} /\ dfa \in Automaton /\ status \in {"NEW", "NORMAL", "EOF_PENDING"}
  BY ScanFacts
<1>2. pc = "refill" /\ status # "EOF_PENDING"
      /\ size' = Scan!Grown /\ bp' = 0 /\ pc' = "match" /\ status' = status /\ token' = token
  BY DEF Scan!ReadSome
<1>3. PICK w \in Seq(0 .. 7), m \in Nat, g \in Nat :
        /\ w = Scan!Text /\ m = Len(w) /\ Read(w, m) /\ m = Scan!number_to_move /\ w = Scan!Moved
        /\ g = Scan!Grown /\ g > m + 1 /\ g >= size
  BY <1>2, RefillFacts
<1>4. cp' = m /\ dfa' = Scan!yy_get_previous_state(w, 0, m)
  BY ONLY <1>3, Scan!ReadSome, Zenon DEF Scan!ReadSome
<1>5. PICK n \in 1 .. Scan!Room : \E chunk \in [1 .. n -> Chars] : buf' = w \o chunk
  BY ONLY <1>3, Scan!ReadSome, Zenon DEF Scan!ReadSome
<1>6. PICK chunk \in [1 .. n -> Chars] : buf' = w \o chunk
  BY <1>5
<1>7. n \in Nat /\ n >= 1 /\ m + n <= g /\ m \in 0 .. m
  <2>1. ReadSize \in Nat
    BY DEF Scan!ScannerAssumption
  <2>2. Scan!Room = IF g - m - 1 > ReadSize THEN ReadSize ELSE g - m - 1
    BY ONLY <1>3, Zenon DEF Scan!Room
  <2>. QED
    BY ONLY <1>3, <2>1, <2>2, n \in 1 .. Scan!Room
<1>8. chunk \in [1 .. n -> 0 .. 7]
  BY DEF Scan!ScannerAssumption
<1>9. chunk \in Seq(0 .. 7) /\ Len(chunk) = n
  BY ONLY <1>7, <1>8, ArrayIsSeq, Zenon
<1>10. PICK v \in Seq(0 .. 7) : v = buf' /\ v = w \o chunk /\ Len(v) = m + n /\ \A i \in 1 .. m : v[i] = w[i]
  <2>1. w \o chunk \in Seq(0 .. 7) /\ Joined(w, chunk, m, n)
    <3>1. Len(w) = m /\ Len(chunk) = n /\ n \in Nat
      BY ONLY <1>3, <1>7, <1>9, Zenon
    <3>. QED
      BY ONLY <1>9, <3>1, w \in Seq(0 .. 7), m \in Nat, JoinedSeq
  <2>. QED
    BY ONLY <1>6, <2>1, Zenon DEF Joined
<1>11. Scan!Text' = v
  <2>1. v \in Seq(0 .. 7) /\ buf' = v /\ bp' = 0
    BY ONLY <1>2, <1>10
  <2>. QED
    BY ONLY <2>1, TextMoved
<1>12. Continues(v, w) /\ m <= m + n /\ m \in 0 .. (m + n) /\ m \in 0 .. Len(w)
  BY ONLY <1>3, <1>7, <1>10 DEF Continues
<1>13. Read(v, m) /\ StateOf(v, m) = StateOf(w, m)
  BY ONLY <1>3, <1>10, <1>12, ReadPrefix, Zenon
<1>14. dfa' = After(w, 0, m, dfa)
  BY ONLY <1>1, <1>3, <1>4, <1>12, 0 \in Nat, Previous, Zenon
<1>15. /\ dfa' \in Automaton /\ dfa'.state = StateOf(v, m)
       /\ m >= 2 => dfa'.last = [state |-> 6, cpos |-> 1]
  BY ONLY <1>1, <1>3, <1>13, <1>14, AfterTyped, Zenon
<1>16. Scanned(m)'
  <2>1. bp' + m = m /\ bp' + 1 = 1
    BY ONLY <1>2, <1>3
  <2>. QED
    BY ONLY <1>4, <1>10, <1>11, <1>12, <1>13, <1>15, <2>1, Zenon DEF Scanned
<1>17. ScanInv'
  <2>1. Matching'
    BY ONLY <1>3, <1>16, Zenon DEF Matching
  <2>2. /\ buf' \in Seq(0 .. 7) /\ size' \in Nat \ {0} /\ Len(buf') <= size' /\ bp' \in 0 .. Len(buf') /\ cp' \in Nat
    BY ONLY <1>1, <1>2, <1>3, <1>4, <1>7, <1>10
  <2>3. ScanTyped'
    BY ONLY <1>1, <1>2, <1>15, <2>2 DEF ScanTyped
  <2>. QED
    BY ONLY <1>2, <2>1, <2>3 DEF ScanInv
<1>18. Scan!Tokens!Arrive
  <2>1. Scan!Tokens!Waits
    <3>1. w = <<>> \/ w = <<0>> \/ Scan!Tokens!Incomplete(w)
      BY ONLY <1>3, ReadWaits, Zenon
    <3>. QED
      BY ONLY <1>3, <3>1, Zenon DEF Scan!Tokens!Waits, Scan!Tokens!Nul
  <2>2. Scan!Tokens!IsStrictPrefix(w, v)
    <3>1. SubSeq(w, 1, m) = w
      BY ONLY <1>3, SubSeqFull, Zenon
    <3>2. SubSeq(v, 1, m) = w
      <4>1. \A i \in 1 .. m : v[i] \in 0 .. 7
        <5>1. \A i \in 1 .. m : i \in 1 .. Len(v)
          BY ONLY <1>7, <1>10, <1>3
        <5>. QED
          BY ONLY <5>1, ElementOfSeq, v \in Seq(0 .. 7), Zenon
      <4>2. /\ SubSeq(v, 1, m) \in Seq(0 .. 7) /\ Len(SubSeq(v, 1, m)) = m
            /\ \A i \in 1 .. m : SubSeq(v, 1, m)[i] = v[i]
        BY ONLY <1>3, <4>1, SubSeqProperties
      <4>. QED
        BY ONLY <1>3, <1>10, <4>2, SeqEqual
    <3>3. Len(w) <= Len(v) /\ Len(w) # Len(v)
      BY ONLY <1>3, <1>7, <1>10
    <3>4. w # v
      BY ONLY <3>3, Zenon
    <3>. QED
      BY ONLY <1>3, <3>1, <3>2, <3>3, <3>4, Zenon DEF Scan!Tokens!IsStrictPrefix, Scan!Tokens!IsPrefix
  <2>3. ~(status = "EOF_PENDING" \/ pc = "ended")
        /\ (status' = "EOF_PENDING" \/ pc' = "ended") = (status = "EOF_PENDING" \/ pc = "ended")
        /\ (pc' = "ended") = (pc = "ended")
    BY ONLY <1>2
  <2>. QED
    BY ONLY <1>2, <1>3, <1>11, <2>1, <2>2, <2>3, Zenon DEF Scan!Tokens!Arrive
<1>. QED
  BY ONLY <1>17, <1>18, Zenon DEF Streams, Scan!Tokens!Next

\* The text that is left at the end of the connection is cut as it is.
LEMMA LastMatchStep ==
  ASSUME ScanInv, Scan!LastMatch
  PROVE  ScanInv' /\ Streams
<1>1. /\ size \in Nat \ {0} /\ Len(buf) <= size /\ Len(buf) \in Nat
      /\ dfa \in Automaton /\ status \in {"NEW", "NORMAL", "EOF_PENDING"}
  BY ScanFacts
<1>2. pc = "refill" /\ pc' = "find_action" /\ status' = "EOF_PENDING" /\ bp' = 0 /\ token' = token
      /\ size' = IF status = "EOF_PENDING" THEN size ELSE Scan!Grown
  BY DEF Scan!LastMatch, Scan!NoMore
<1>3. PICK w \in Seq(0 .. 7), m \in Nat, g \in Nat :
        /\ w = Scan!Text /\ m = Len(w) /\ Read(w, m) /\ m = Scan!number_to_move /\ w = Scan!Moved
        /\ g = Scan!Grown /\ g > m + 1 /\ g >= size /\ m <= Len(buf)
  BY <1>2, RefillFacts
<1>4. /\ cp' = m /\ dfa' = Scan!yy_get_previous_state(w, 0, m) /\ buf' = w /\ m > 0
      /\ m \in 0 .. Len(w) /\ m \in 0 .. m /\ 1 \in 1 .. m /\ m >= 1
  <2>1. /\ cp' = m /\ dfa' = Scan!yy_get_previous_state(w, 0, m) /\ buf' = w /\ m > 0
    BY ONLY <1>3, Scan!LastMatch, Zenon DEF Scan!LastMatch, Scan!NoMore
  <2>. QED
    BY ONLY <1>3, <2>1
<1>5. Scan!Text' = w
  BY ONLY <1>2, <1>4, w \in Seq(0 .. 7), TextMoved
<1>6. dfa' = After(w, 0, m, dfa)
  BY ONLY <1>1, <1>3, <1>4, 0 \in Nat, Previous, Zenon
<1>7. /\ dfa' \in Automaton /\ dfa'.state = StateOf(w, m)
      /\ m >= 2 => dfa'.last = [state |-> 6, cpos |-> 1]
  BY ONLY <1>1, <1>3, <1>6, AfterTyped, Zenon
<1>8. Scan!Found' = IF dfa'.state \in {3, 4, 5, 6, 7, 8, 12} THEN [state |-> dfa'.state, cpos |-> m] ELSE dfa'.last
  <2>1. Scan!Found' = IF Scan!yy_accept[dfa'.state] # 0 THEN [state |-> dfa'.state, cpos |-> m] ELSE dfa'.last
    BY ONLY <1>4, Zenon DEF Scan!Found
  <2>2. dfa'.state \in 1 .. 13
    BY ONLY <1>7 DEF Automaton
  <2>. QED
    BY ONLY <2>1, <2>2, FoundIs, Zenon
<1>9. Scan!Found'.state \in {4, 6} /\ Scan!Found'.cpos = 0 + 1
  <2>1. CASE m = 1
    <3>1. StateOf(w, m) \in {4, 6}
      BY ONLY <2>1 DEF StateOf
    <3>. QED
      BY ONLY <1>7, <1>8, <2>1, <3>1
  <2>2. CASE m >= 2
    <3>1. StateOf(w, m) \in {9, 10, 11}
      BY ONLY <1>3, <2>2, States
    <3>. QED
      BY ONLY <1>7, <1>8, <2>2, <3>1
  <2>. QED
    BY <1>4, <2>1, <2>2
<1>10. Scan!Tokens!FirstLength(w) = 1 /\ Scan!Tokens!Rule(SubSeq(w, 1, 1)) = 4
  <2>1. Scan!Tokens!FirstLength(w) = 1
    BY ONLY <1>3, <1>4, ReadToEnd, Zenon
  <2>2. w[1] \in {0, 4}
    BY ONLY <1>3, <1>4 DEF Read
  <2>. QED
    <3>1. w[1] # 5 /\ w[1] # 6 /\ w[1] # 2
      BY ONLY <2>2
    <3>2. Len(w) >= 1
      BY ONLY <1>3, <1>4
    <3>3. Scan!Tokens!Rule(SubSeq(w, 1, 1)) =
            IF w[1] = 5 THEN 1 ELSE IF w[1] = 6 THEN 2 ELSE IF w[1] = 2 THEN 5 ELSE 4
      BY ONLY w \in Seq(0 .. 7), <3>2, RuleOne, Zenon
    <3>. QED
      BY ONLY <2>1, <3>1, <3>3, Zenon
<1>11. Scan!yy_accept[Scan!Found'.state] = 4
  BY ONLY <1>9, Accepts
<1>12. Cut(Scan!Text, 1, Scan!yy_accept[Scan!Found.state])'
  BY ONLY <1>2, <1>3, <1>4, <1>5, <1>10, <1>11, Zenon DEF Cut
<1>13. Finding'
  <2>1. Scan!Found'.state \in {4, 5, 6, 7, 8, 12} /\ 1 \in Nat
    BY ONLY <1>9
  <2>2. Scan!Found'.cpos = bp' + 1
    BY ONLY <1>2, <1>9
  <2>. QED
    BY ONLY <1>12, <2>1, <2>2, Zenon DEF Finding
<1>14. ScanInv'
  <2>1. buf' \in Seq(0 .. 7) /\ size' \in Nat \ {0} /\ Len(buf') <= size' /\ bp' \in 0 .. Len(buf') /\ cp' \in Nat
    <3>1. size' = size \/ size' = g
      BY ONLY <1>2, <1>3
    <3>2. m <= size /\ m <= g /\ g \in Nat \ {0} /\ g >= size /\ Len(w) = m
      BY ONLY <1>1, <1>3
    <3>3. size' \in Nat \ {0} /\ m <= size'
      BY ONLY <1>1, <3>1, <3>2
    <3>4. buf' \in Seq(0 .. 7) /\ Len(buf') = m
      BY ONLY <1>4, <3>2, w \in Seq(0 .. 7), Zenon
    <3>. QED
      BY ONLY <1>2, <1>4, <3>3, <3>4
  <2>2. ScanTyped'
    BY ONLY <1>2, <1>7, <2>1 DEF ScanTyped
  <2>. QED
    BY ONLY <1>2, <1>13, <2>2 DEF ScanInv
<1>15. CASE status = "EOF_PENDING"
  <2>1. (status' = "EOF_PENDING" \/ pc' = "ended") = (status = "EOF_PENDING" \/ pc = "ended")
        /\ (pc' = "ended") = (pc = "ended")
    BY ONLY <1>2, <1>15
  <2>. QED
    BY ONLY <1>2, <1>3, <1>5, <1>14, <2>1, Zenon DEF Streams, Scan!Tokens!vars
<1>16. CASE status # "EOF_PENDING"
  <2>1. Scan!Tokens!Waits
    <3>1. w = <<>> \/ w = <<0>> \/ Scan!Tokens!Incomplete(w)
      BY ONLY <1>3, ReadWaits, Zenon
    <3>. QED
      BY ONLY <1>3, <3>1, Zenon DEF Scan!Tokens!Waits, Scan!Tokens!Nul
  <2>2. ~(status = "EOF_PENDING" \/ pc = "ended")
        /\ (status' = "EOF_PENDING" \/ pc' = "ended") = TRUE
        /\ (pc' = "ended") = (pc = "ended")
    BY ONLY <1>2, <1>16
  <2>3. Scan!Tokens!Close
    BY ONLY <1>2, <1>3, <1>5, <2>1, <2>2, Zenon DEF Scan!Tokens!Close
  <2>. QED
    BY ONLY <1>14, <2>3, Zenon DEF Streams, Scan!Tokens!Next
<1>. QED
  BY <1>15, <1>16

\* Without a character left the scanner ends.
LEMMA EndOfFileStep ==
  ASSUME ScanInv, Scan!EndOfFile
  PROVE  ScanInv' /\ Streams
<1>1. /\ size \in Nat \ {0} /\ Len(buf) <= size /\ Len(buf) \in Nat /\ dfa \in Automaton
  BY ScanFacts
<1>2. pc = "refill" /\ pc' = "ended" /\ status' = "NEW" /\ bp' = 0 /\ token' = token /\ dfa' = dfa
      /\ size' = (IF status = "EOF_PENDING" THEN size ELSE Scan!Grown)
      /\ Scan!number_to_move = 0 /\ cp' = 0 /\ buf' = Scan!Moved
  BY DEF Scan!EndOfFile, Scan!NoMore
<1>3. PICK w \in Seq(0 .. 7), g \in Nat :
        w = Scan!Text /\ Len(w) = 0 /\ w = Scan!Moved /\ g = Scan!Grown /\ g >= size
  <2>1. /\ Scan!Text \in Seq(0 .. 7) /\ Scan!number_to_move = Len(Scan!Text) /\ Scan!Moved = Scan!Text
        /\ Scan!Grown \in Nat /\ Scan!Grown >= size
    BY ONLY <1>2, ScanInv, RefillFacts, Zenon
  <2>. QED
    BY ONLY <1>2, <2>1, Zenon
<1>4. w = <<>>
  BY ONLY <1>3, EmptySeq
<1>5. buf' = w /\ Scan!Text' = w
  <2>1. buf' = w
    BY ONLY <1>2, <1>3
  <2>. QED
    BY ONLY <1>2, <2>1, w \in Seq(0 .. 7), TextMoved
<1>6. ScanInv'
  <2>1. buf' \in Seq(0 .. 7) /\ size' \in Nat \ {0} /\ Len(buf') <= size' /\ bp' \in 0 .. Len(buf') /\ cp' \in Nat
    BY ONLY <1>1, <1>2, <1>3, <1>5
  <2>2. ScanTyped'
    BY ONLY <1>1, <1>2, <2>1 DEF ScanTyped
  <2>. QED
    BY ONLY <1>2, <2>2 DEF ScanInv
<1>7. Scan!Tokens!End
  <2>1. ~(pc = "ended") /\ (pc' = "ended") = TRUE /\ (status' = "EOF_PENDING" \/ pc' = "ended") = TRUE
    BY ONLY <1>2
  <2>. QED
    BY ONLY <1>2, <1>3, <1>4, <1>5, <2>1, Zenon DEF Scan!Tokens!End
<1>. QED
  BY ONLY <1>6, <1>7, Zenon DEF Streams, Scan!Tokens!Next

\* A read that fails ends the process.
LEMMA ReadFailsStep ==
  ASSUME ScanInv, Scan!ReadFails
  PROVE  ScanInv' /\ Streams
<1>1. /\ buf \in Seq(0 .. 7) /\ size \in Nat \ {0} /\ Len(buf) <= size /\ bp \in 0 .. Len(buf)
      /\ Len(buf) \in Nat /\ cp \in Nat /\ dfa \in Automaton /\ status \in {"NEW", "NORMAL", "EOF_PENDING"}
  BY ScanFacts
<1>2. pc = "refill" /\ pc' = "exited" /\ size' = Scan!Grown
      /\ buf' = buf /\ bp' = bp /\ cp' = cp /\ dfa' = dfa /\ status' = status /\ token' = token
  BY DEF Scan!ReadFails
<1>3. PICK g \in Nat : g = Scan!Grown /\ g >= size
  BY <1>2, RefillFacts
<1>4. size' \in Nat \ {0} /\ Len(buf) <= size'
  BY ONLY <1>1, <1>2, <1>3
<1>5. ScanTyped'
  BY ONLY <1>1, <1>2, <1>4 DEF ScanTyped
<1>6. ScanInv'
  BY ONLY <1>2, <1>5 DEF ScanInv
<1>7. Streams
  BY ONLY <1>2, Stutters
<1>. QED
  BY <1>6, <1>7

\* The scanner starts with an empty buffer.
LEMMA ScanInit ==
  ASSUME Scan!ScannerAssumption, Scan!Init
  PROVE  ScanInv /\ Scan!Tokens!Init
<1>1. /\ buf = <<>> /\ size = BufSize /\ status = "NEW" /\ bp = 0 /\ cp = 0 /\ pc = "match"
      /\ dfa = [state |-> 1, last |-> [state |-> 1, cpos |-> 0]] /\ token = [rule |-> 0, text |-> <<>>]
  BY DEF Scan!Init
<1>2. <<>> \in Seq(0 .. 7) /\ Len(<<>>) = 0 /\ 0 + 1 = 1
  OBVIOUS
<1>3. Scan!Text = <<>>
  BY ONLY <1>1, <1>2, SubSeqEmpty DEF Scan!Text
<1>4. dfa \in Automaton /\ dfa.state = 1
  BY ONLY <1>1 DEF Automaton, Matched
<1>5. Scanned(0)
  BY ONLY <1>1, <1>2, <1>3, <1>4 DEF Scanned, Read, StateOf
<1>6. ScanTyped
  <2>1. BufSize \in Nat \ {0}
    BY DEF Scan!ScannerAssumption
  <2>. QED
    BY ONLY <1>1, <1>2, <1>4, <2>1 DEF ScanTyped
<1>7. ScanInv
  <2>1. Matching
    BY ONLY <1>5, 0 \in Nat, Zenon DEF Matching
  <2>. QED
    BY ONLY <1>1, <1>6, <2>1 DEF ScanInv
<1>8. Scan!Tokens!Init
  <2>1. (status = "EOF_PENDING" \/ pc = "ended") = FALSE /\ (pc = "ended") = FALSE
    BY ONLY <1>1
  <2>. QED
    BY ONLY <1>1, <1>3, <2>1, Zenon DEF Scan!Tokens!Init
<1>. QED
  BY <1>7, <1>8

\* Every step of the engine keeps the invariant and is a step of the stream of tokens, or none.
LEMMA ScanStep ==
  ASSUME Scan!ScannerAssumption, ScanInv, [Scan!Next]_(Scan!vars)
  PROVE  ScanInv' /\ Streams
<1>1. CASE Scan!Advance
  <2>1. UNCHANGED <<buf, bp, token, status>> /\ pc = "match" /\ pc' \in {"match", "find_action"}
    BY <1>1 DEF Scan!Advance
  <2>2. Streams
    BY ONLY <2>1, Stutters
  <2>. QED
    BY ONLY <1>1, <2>2, ScanInv, AdvanceStep, Zenon
<1>2. CASE UNCHANGED Scan!vars
  <2>1. /\ buf' = buf /\ size' = size /\ status' = status /\ bp' = bp /\ cp' = cp
        /\ dfa' = dfa /\ pc' = pc /\ token' = token
    BY <1>2 DEF Scan!vars
  <2>2. Scan!Text' = Scan!Text /\ Scan!Found' = Scan!Found
    BY ONLY <2>1, Zenon DEF Scan!Text, Scan!Found
  <2>3. ScanTyped' /\ Matching' = Matching /\ Finding' = Finding /\ Refilling' = Refilling
    <3>1. ScanTyped'
      BY ONLY <2>1, ScanInv, Zenon DEF ScanInv, ScanTyped
    <3>2. \A p \in Nat : NulBefore(p)' = NulBefore(p)
      BY ONLY <2>1, <2>2, Zenon DEF NulBefore
    <3>3. \A k \in Nat : Scanned(k)' = Scanned(k)
      BY ONLY <2>1, <2>2, Zenon DEF Scanned
    <3>. QED
      BY ONLY <2>1, <2>2, <3>1, Zenon DEF Matching, Scanned, Finding, NulBefore, Cut, Refilling
  <2>4. ScanInv'
    BY ONLY <2>1, <2>3, ScanInv, Zenon DEF ScanInv
  <2>5. Streams
    BY ONLY <2>1, <2>2, Zenon DEF Streams, Scan!Tokens!vars
  <2>. QED
    BY <2>4, <2>5
<1>. QED
  BY <1>1, <1>2, RunRuleStep, NulCharacterStep, EndOfBufferStep, ReadSomeStep, EndOfFileStep,
     LastMatchStep, ReadFailsStep, Zenon DEF Scan!Next

\* The invariant keeps the engine inside its buffer.
LEMMA ScanInside == ASSUME ScanInv PROVE Scan!InsideBuffer
<1>1. /\ buf \in Seq(0 .. 7) /\ size \in Nat \ {0} /\ Len(buf) <= size
      /\ bp \in 0 .. Len(buf) /\ bp \in Nat /\ Len(buf) \in Nat /\ cp \in Nat
  BY ScanFacts
<1>2. Len(buf) + 1 <= size + 1 /\ bp <= Len(buf)
  BY ONLY <1>1
<1>3. pc = "match" => cp <= Len(buf) + 1
  <2>1. ASSUME NEW k \in Nat, Scanned(k) PROVE cp <= Len(buf) + 1
    <3>1. k \in 0 .. Len(Scan!Text) /\ cp = bp + k
      BY ONLY <2>1 DEF Scanned
    <3>2. Len(Scan!Text) = Len(buf) - bp
      BY ONLY <1>1, TextIs, Zenon
    <3>. QED
      BY ONLY <1>1, <3>1, <3>2
  <2>2. NulBefore(cp) => cp <= Len(buf) + 1
    BY DEF NulBefore
  <2>3. pc = "match" => Matching
    BY DEF ScanInv
  <2>. QED
    BY ONLY <2>1, <2>2, <2>3, Zenon DEF Matching
<1>4. pc = "refill" => bp < cp /\ cp = Len(buf) + 1
  BY DEF ScanInv, Refilling
<1>5. Scan!AtEndOfBuffer => bp < Scan!Found.cpos
  <2>. SUFFICES ASSUME Scan!AtEndOfBuffer PROVE bp < Scan!Found.cpos
    OBVIOUS
  <2>1. Finding
    BY DEF ScanInv, Scan!AtEndOfBuffer
  <2>2. CASE NulBefore(Scan!Found.cpos)
    BY ONLY <2>2 DEF NulBefore
  <2>3. ASSUME NEW n \in Nat, Scan!Found.cpos = bp + n, Cut(Scan!Text, n, Scan!yy_accept[Scan!Found.state])
        PROVE  bp < Scan!Found.cpos
    <3>1. n \in 1 .. Len(Scan!Text)
      BY ONLY <2>3 DEF Cut
    <3>. QED
      BY ONLY <1>1, <2>3, <3>1
  <2>. QED
    BY ONLY <2>1, <2>2, <2>3, Zenon DEF Finding
<1>. QED
  BY ONLY <1>2, <1>3, <1>4, <1>5 DEF Scan!InsideBuffer

\* The engine of the scanner reads and writes inside the buffer it has allocated, whatever the
\* pieces in which the input arrives.
THEOREM ScannerStaysInside == Scan!ScannerAssumption => (Scan!Spec => []InsideBuffer)
<1>. SUFFICES ASSUME Scan!ScannerAssumption PROVE Scan!Spec => []InsideBuffer
  OBVIOUS
<1>1. Scan!Init => ScanInv
  BY ScanInit
<1>2. ScanInv /\ [Scan!Next]_(Scan!vars) => ScanInv'
  BY ScanStep
<1>3. ScanInv => InsideBuffer
  BY ScanInside DEF InsideBuffer
<1>. QED
  BY <1>1, <1>2, <1>3, PTL DEF Scan!Spec

\* The engine implements the stream of tokens: it starts as the stream does, and each of its
\* steps is a step of the stream under the mapping of Scanner, or none.
THEOREM TokensFollowRules ==
  Scan!ScannerAssumption => (Scan!Spec => Scan!Tokens!Init /\ [][Scan!Tokens!Next]_(Scan!Tokens!vars))
<1>. SUFFICES ASSUME Scan!ScannerAssumption
              PROVE  Scan!Spec => Scan!Tokens!Init /\ [][Scan!Tokens!Next]_(Scan!Tokens!vars)
  OBVIOUS
<1>1. Scan!Init => ScanInv /\ Scan!Tokens!Init
  BY ScanInit
<1>2. ScanInv /\ [Scan!Next]_(Scan!vars) => ScanInv'
  BY ScanStep
<1>3. ScanInv /\ [Scan!Next]_(Scan!vars) => [Scan!Tokens!Next]_(Scan!Tokens!vars)
  BY ScanStep DEF Streams
<1>. QED
  BY <1>1, <1>2, <1>3, PTL DEF Scan!Spec

-----------------------------------------------------------------------------
(* The connections of send_irq (Connections). *)

\* Whether the connection that is served waits for its exception.
Waits == IF irq \in {"lock", "raise"} \/ (irq = "read" /\ ~byteRead) THEN 1 ELSE 0

SocketsType ==
  /\ raised \in Seq(Senders) /\ connected \in Seq(Senders) /\ queue \in Seq(Senders)
  /\ gdb \in {"create", "accept", "serve"} /\ irq \in {"create", "accept", "read", "lock", "raise"}
  /\ byteRead \in BOOLEAN /\ open \in Nat
  /\ sender \in [Senders -> {"idle", "connected", "sent", "closed"}]
  /\ irq \in {"read", "lock", "raise"} => serving \in Senders
  /\ irq \in {"lock", "raise"} => byteRead

\* The connections made are those raised, the one that waits and those of the queue, in
\* this order.
Lined ==
  /\ Len(connected) = Len(raised) + Waits + Len(queue)
  /\ \A i \in 1 .. Len(raised) : connected[i] = raised[i]
  /\ Waits = 1 => connected[Len(raised) + 1] = serving
  /\ \A i \in 1 .. Len(queue) : connected[(Len(raised) + Waits) + i] = queue[i]

\* A send_irq connects once.
ConnectsOnce ==
  /\ \A i \in 1 .. Len(connected) : sender[connected[i]] # "idle"
  /\ \A i, j \in 1 .. Len(connected) : i # j => connected[i] # connected[j]

\* The descriptors of the servers and of the debugger.
Servers == (IF gdb = "create" THEN 0 ELSE IF gdb = "accept" THEN 1 ELSE 2) + (IF irq = "create" THEN 0 ELSE 1)

\* A connection that was shut down keeps its descriptor.
DescriptorsKept ==
  /\ open <= Servers + Len(raised) + Waits
  /\ over => Len(raised) + 3 >= Limit

\* The inductive invariant of the connections.
SocketsInv == SocketsType /\ Lined /\ ConnectsOnce /\ DescriptorsKept

\* Every step keeps the invariant.
LEMMA SocketsStep ==
  ASSUME Sockets!ConnectionsAssumption, SocketsInv, [Sockets!Next]_(Sockets!vars)
  PROVE  SocketsInv'
<1>. Limit \in Nat
  BY DEF Sockets!ConnectionsAssumption
<1>. USE DEF SocketsInv, SocketsType
<1>12. Len(raised) \in Nat /\ Len(queue) \in Nat /\ Len(connected) \in Nat /\ Waits \in {0, 1} /\ Servers \in 0 .. 3
      /\ open \in Nat
  BY DEF Waits, Servers
<1>13. Lined /\ ConnectsOnce /\ DescriptorsKept
  OBVIOUS
<1>14. ASSUME UNCHANGED <<raised, connected, queue, sender>>, Waits' = Waits, Waits = 1 => serving' = serving
      PROVE  Lined' /\ ConnectsOnce'
  BY <1>13, <1>14 DEF Lined, ConnectsOnce
<1>1. CASE Sockets!CreateGdb
  <2>1. /\ UNCHANGED <<irq, queue, serving, byteRead, sender, connected, raised>>
        /\ gdb = "create"
        /\ \/ open' = open + 1 /\ gdb' = "accept" /\ over' = over
           \/ over' = TRUE /\ open' = open /\ gdb' = gdb /\ open >= Limit
    BY <1>1 DEF Sockets!CreateGdb, Sockets!Descriptor
  <2>2. Waits' = Waits
    BY <2>1 DEF Waits
  <2>3. \/ open' = open + 1 /\ Servers' = Servers + 1 /\ over' = over
        \/ over' = TRUE /\ open' = open /\ Servers' = Servers /\ open >= Limit /\ Servers + Waits <= 3
    BY <2>1, <1>12 DEF Servers, Waits
  <2>4. DescriptorsKept'
    BY ONLY <1>12, <1>13, <2>1, <2>2, <2>3, Limit \in Nat DEF DescriptorsKept
  <2>. QED
    BY <1>14, <2>1, <2>2, <2>4
<1>2. CASE Sockets!AcceptGdb
  <2>1. /\ UNCHANGED <<irq, queue, serving, byteRead, sender, connected, raised>>
        /\ gdb = "accept"
        /\ \/ open' = open + 1 /\ gdb' = "serve" /\ over' = over
           \/ over' = TRUE /\ open' = open /\ gdb' = gdb /\ open >= Limit
    BY <1>2 DEF Sockets!AcceptGdb, Sockets!Descriptor
  <2>2. Waits' = Waits
    BY <2>1 DEF Waits
  <2>3. \/ open' = open + 1 /\ Servers' = Servers + 1 /\ over' = over
        \/ over' = TRUE /\ open' = open /\ Servers' = Servers /\ open >= Limit /\ Servers + Waits <= 3
    BY <2>1, <1>12 DEF Servers, Waits
  <2>4. DescriptorsKept'
    BY ONLY <1>12, <1>13, <2>1, <2>2, <2>3, Limit \in Nat DEF DescriptorsKept
  <2>. QED
    BY <1>14, <2>1, <2>2, <2>4
<1>3. CASE Sockets!CreateIrq
  <2>1. /\ UNCHANGED <<gdb, queue, serving, byteRead, sender, connected, raised>>
        /\ irq = "create"
        /\ \/ open' = open + 1 /\ irq' = "accept" /\ over' = over
           \/ over' = TRUE /\ open' = open /\ irq' = irq /\ open >= Limit
    BY <1>3 DEF Sockets!CreateIrq, Sockets!Descriptor
  <2>2. Waits' = Waits
    BY <2>1 DEF Waits
  <2>3. \/ open' = open + 1 /\ Servers' = Servers + 1 /\ over' = over
        \/ over' = TRUE /\ open' = open /\ Servers' = Servers /\ open >= Limit /\ Servers + Waits <= 3
    BY <2>1, <1>12 DEF Servers, Waits
  <2>4. DescriptorsKept'
    BY ONLY <1>12, <1>13, <2>1, <2>2, <2>3, Limit \in Nat DEF DescriptorsKept
  <2>. QED
    BY <1>14, <2>1, <2>2, <2>4
<1>4. CASE Sockets!AcceptIrq
  <2>1. /\ UNCHANGED <<gdb, sender, connected, raised>>
        /\ irq = "accept" /\ queue # <<>>
    BY <1>4 DEF Sockets!AcceptIrq, Sockets!Descriptor
  <2>2. CASE open < Limit
    <3>1. /\ open' = open + 1 /\ over' = over /\ irq' = "read" /\ byteRead' = FALSE
          /\ serving' = Head(queue) /\ queue' = Tail(queue)
      BY <1>4, <2>2 DEF Sockets!AcceptIrq, Sockets!Descriptor
    <3>2. /\ serving' = queue[1] /\ queue[1] \in Senders /\ queue' \in Seq(Senders)
          /\ Len(queue') = Len(queue) - 1 /\ Len(queue) \in Nat /\ Len(queue) >= 1
          /\ \A i \in 1 .. Len(queue') : queue'[i] = queue[i + 1]
      BY <2>1, <3>1
    <3>3. Waits = 0 /\ Waits' = 1
      BY <2>1, <3>1 DEF Waits
    <3>4. SocketsType'
      <4>1. open' \in Nat /\ raised' = raised /\ connected' = connected /\ sender' = sender /\ gdb' = gdb
        BY <2>1, <3>1
      <4>. QED
        BY ONLY SocketsType, <3>1, <3>2, <4>1 DEF SocketsType
    <3>5. Lined'
      <4>1. Len(raised) \in Nat /\ Len(connected) = Len(raised) + Len(queue)
        BY <3>3 DEF Lined
      <4>2. connected[Len(raised) + 1] = serving'
        BY <3>2, <3>3, <4>1 DEF Lined
      <4>3. ASSUME NEW i \in 1 .. Len(queue')
            PROVE  connected[(Len(raised) + 1) + i] = queue'[i]
        <5>1. i + 1 \in 1 .. Len(queue) /\ (Len(raised) + 0) + (i + 1) = (Len(raised) + 1) + i
          BY <3>2, <4>1
        <5>2. connected[(Len(raised) + 0) + (i + 1)] = queue[i + 1]
          BY <3>3, <5>1 DEF Lined
        <5>. QED
          BY <3>2, <5>1, <5>2
      <4>4. \A i \in 1 .. Len(raised) : connected[i] = raised[i]
        BY <1>13 DEF Lined
      <4>5. raised' = raised /\ connected' = connected
        BY <2>1
      <4>6. Len(connected) = Len(raised) + 1 + Len(queue')
        BY ONLY <1>12, <3>2, <4>1
      <4>. QED
        BY ONLY <3>3, <4>2, <4>3, <4>4, <4>5, <4>6, Zenon DEF Lined
    <3>6. ConnectsOnce'
      BY <2>1 DEF ConnectsOnce
    <3>7. DescriptorsKept'
      BY <2>1, <3>1, <3>3 DEF DescriptorsKept, Servers
    <3>. QED
      BY <3>4, <3>5, <3>6, <3>7
  <2>3. CASE ~(open < Limit)
    <3>1. over' = TRUE /\ UNCHANGED <<open, irq, queue, serving, byteRead>>
      BY <1>4, <2>3 DEF Sockets!AcceptIrq, Sockets!Descriptor
    <3>2. Waits' = Waits /\ Waits = 0 /\ Servers' = Servers
      BY <2>1, <3>1 DEF Waits, Servers
    <3>3. DescriptorsKept'
      BY ONLY <1>12, <1>13, <2>1, <2>3, <3>1, <3>2, Limit \in Nat DEF DescriptorsKept
    <3>. QED
      BY <1>14, <2>1, <3>1, <3>2, <3>3
  <2>. QED
    BY <2>2, <2>3
<1>5. CASE Sockets!ReadByte
  <2>1. /\ UNCHANGED <<gdb, open, over, sender, queue, serving, connected, raised>>
        /\ irq = "read" /\ ~byteRead /\ byteRead' = TRUE /\ irq' = "lock"
    BY <1>5 DEF Sockets!ReadByte
  <2>2. Waits = 1 /\ Waits' = 1 /\ Servers' = Servers
    BY <2>1 DEF Waits, Servers
  <2>3. DescriptorsKept'
    BY ONLY <1>13, <2>1, <2>2 DEF DescriptorsKept
  <2>. QED
    BY <1>14, <2>1, <2>2, <2>3
<1>6. CASE Sockets!Raise
  <2>1. /\ UNCHANGED <<gdb, open, over, sender, queue, serving, byteRead, connected>>
        /\ irq = "raise" /\ irq' = "read" /\ raised' = Append(raised, serving) /\ ~over
    BY <1>6 DEF Sockets!Raise
  <2>2. Waits = 1 /\ Waits' = 0 /\ Servers' = Servers
    BY <2>1 DEF Waits, Servers
  <2>3. /\ raised' \in Seq(Senders) /\ Len(raised') = Len(raised) + 1 /\ serving \in Senders
        /\ \A i \in 1 .. Len(raised) : raised'[i] = raised[i]
        /\ raised'[Len(raised) + 1] = serving
    BY <2>1
  <2>4. SocketsType'
    BY ONLY SocketsType, <2>1, <2>3
  <2>5. Lined'
    <3>1. \A i \in 1 .. Len(raised') : i \in 1 .. Len(raised) \/ i = Len(raised) + 1
      BY ONLY <1>12, <2>3
    <3>2. \A i \in 1 .. Len(raised') : connected[i] = raised'[i]
      BY ONLY <1>13, <2>2, <2>3, <3>1, Zenon DEF Lined
    <3>3. Len(raised) + Waits = Len(raised') + Waits' /\ Waits' # 1
      BY ONLY <1>12, <2>2, <2>3
    <3>. QED
      BY ONLY <1>13, <2>1, <3>2, <3>3, Zenon DEF Lined
  <2>6. ConnectsOnce'
    BY ONLY <1>13, <2>1 DEF ConnectsOnce
  <2>7. DescriptorsKept'
    BY ONLY <1>12, <1>13, <2>1, <2>2, <2>3, Limit \in Nat DEF DescriptorsKept
  <2>. QED
    BY <2>4, <2>5, <2>6, <2>7
<1>7. CASE Sockets!EndIrq
  <2>1. /\ UNCHANGED <<gdb, open, over, sender, queue, connected, raised>>
        /\ irq = "read" /\ byteRead /\ irq' = "accept" /\ byteRead' = FALSE
    BY <1>7 DEF Sockets!EndIrq
  <2>2. Waits = 0 /\ Waits' = 0 /\ Servers' = Servers
    BY <2>1 DEF Waits, Servers
  <2>3. DescriptorsKept'
    BY ONLY <1>13, <2>1, <2>2 DEF DescriptorsKept
  <2>4. SocketsType'
    BY <2>1
  <2>5. Lined' /\ ConnectsOnce'
    BY <1>14, <2>1, <2>2
  <2>. QED
    BY <2>3, <2>4, <2>5
<1>8. ASSUME NEW s \in Senders, Sockets!Connect(s)
      PROVE  SocketsInv'
  <2>1. /\ UNCHANGED <<gdb, irq, open, over, serving, byteRead, raised>>
        /\ sender[s] = "idle" /\ sender' = [sender EXCEPT ![s] = "connected"]
        /\ queue' = Append(queue, s) /\ connected' = Append(connected, s)
    BY <1>8 DEF Sockets!Connect
  <2>2. Waits' = Waits /\ Servers' = Servers
    BY <2>1 DEF Waits, Servers
  <2>3. /\ connected' \in Seq(Senders) /\ Len(connected') = Len(connected) + 1
        /\ \A i \in 1 .. Len(connected) : connected'[i] = connected[i]
        /\ connected'[Len(connected) + 1] = s
        /\ queue' \in Seq(Senders) /\ Len(queue') = Len(queue) + 1
        /\ \A i \in 1 .. Len(queue) : queue'[i] = queue[i]
        /\ queue'[Len(queue) + 1] = s
    BY <2>1
  <2>4. SocketsType'
    BY ONLY SocketsType, <2>1, <2>3, s \in Senders
  <2>5. Lined'
    <3>0. Len(connected) = Len(raised) + Waits + Len(queue)
      BY <1>13 DEF Lined
    <3>1. /\ Len(connected') = Len(raised) + Waits + Len(queue')
          /\ \A i \in 1 .. Len(raised) : i \in 1 .. Len(connected)
          /\ Waits = 1 => Len(raised) + 1 \in 1 .. Len(connected)
          /\ \A i \in 1 .. Len(queue) : (Len(raised) + Waits) + i \in 1 .. Len(connected)
          /\ (Len(raised) + Waits) + (Len(queue) + 1) = Len(connected) + 1
          /\ \A i \in 1 .. Len(queue') : i \in 1 .. Len(queue) \/ i = Len(queue) + 1
      <4>1. Len(connected') = Len(connected) + 1 /\ Len(queue') = Len(queue) + 1
        BY ONLY <2>3
      <4>. QED
        BY ONLY <1>12, <3>0, <4>1
    <3>2. \A i \in 1 .. Len(queue') : connected'[(Len(raised) + Waits) + i] = queue'[i]
      BY ONLY <1>13, <2>3, <3>1, Zenon DEF Lined
    <3>3. \A i \in 1 .. Len(raised) : connected'[i] = raised[i]
      BY ONLY <1>13, <2>3, <3>1, Zenon DEF Lined
    <3>4. Waits = 1 => connected'[Len(raised) + 1] = serving
      BY ONLY <1>13, <2>3, <3>1, Zenon DEF Lined
    <3>5. raised' = raised /\ serving' = serving
      BY <2>1
    <3>. QED
      BY ONLY <2>2, <3>1, <3>2, <3>3, <3>4, <3>5, Zenon DEF Lined
  <2>6. ConnectsOnce'
    <3>1. \A i \in 1 .. Len(connected') : i \in 1 .. Len(connected) \/ i = Len(connected) + 1
      BY ONLY <1>12, <2>3
    <3>2. \A i \in 1 .. Len(connected) : connected[i] \in Senders /\ connected[i] # s
      BY <1>13, <2>1 DEF ConnectsOnce
    <3>3. sender'[s] = "connected" /\ \A r \in Senders : r # s => sender'[r] = sender[r]
      BY <2>1
    <3>4. \A i \in 1 .. Len(connected') : sender'[connected'[i]] # "idle"
      <4>1. "connected" # "idle"
        OBVIOUS
      <4>. QED
        BY ONLY <1>13, <2>3, <3>1, <3>2, <3>3, <4>1, Zenon DEF ConnectsOnce
    <3>5. \A i, j \in 1 .. Len(connected') : i # j => connected'[i] # connected'[j]
      BY ONLY <1>13, <2>3, <3>1, <3>2, Zenon DEF ConnectsOnce
    <3>. QED
      BY ONLY <3>4, <3>5, Zenon DEF ConnectsOnce
  <2>7. DescriptorsKept'
    BY ONLY <1>13, <2>1, <2>2 DEF DescriptorsKept
  <2>. QED
    BY <2>4, <2>5, <2>6, <2>7
<1>9. ASSUME NEW s \in Senders, Sockets!Write(s) \/ Sockets!Close(s)
      PROVE  SocketsInv'
  <2>1. /\ UNCHANGED <<gdb, irq, open, over, queue, serving, byteRead, connected, raised>>
        /\ sender[s] # "idle"
        /\ \E state \in {"sent", "closed"} : sender' = [sender EXCEPT ![s] = state]
    BY <1>9 DEF Sockets!Write, Sockets!Close
  <2>2. Waits' = Waits /\ Servers' = Servers
    BY <2>1 DEF Waits, Servers
  <2>3. SocketsType' /\ \A r \in Senders : sender[r] # "idle" => sender'[r] # "idle"
    BY <2>1
  <2>4. ConnectsOnce'
    <3>1. \A i \in 1 .. Len(connected) : connected[i] \in Senders
      OBVIOUS
    <3>. QED
      BY ONLY <1>13, <2>1, <2>3, <3>1 DEF ConnectsOnce
  <2>5. Lined'
    BY ONLY <1>13, <2>1, <2>2 DEF Lined
  <2>6. DescriptorsKept'
    BY ONLY <1>13, <2>1, <2>2 DEF DescriptorsKept
  <2>. QED
    BY <2>3, <2>4, <2>5, <2>6
<1>15. CASE Sockets!Lock \/ Sockets!Unlock
  <2>1. UNCHANGED <<gdb, irq, open, over, sender, queue, serving, byteRead, connected, raised>>
    BY <1>15 DEF Sockets!Lock, Sockets!Unlock
  <2>. QED
    BY <2>1 DEF Lined, ConnectsOnce, DescriptorsKept, Waits, Servers
<1>16. CASE Sockets!LockIrq
  <2>1. /\ UNCHANGED <<gdb, open, over, sender, queue, serving, byteRead, connected, raised>>
        /\ irq = "lock" /\ irq' = "raise"
    BY <1>16 DEF Sockets!LockIrq
  <2>2. Waits = 1 /\ Waits' = 1 /\ Servers' = Servers
    BY <2>1 DEF Waits, Servers
  <2>3. DescriptorsKept'
    BY ONLY <1>13, <2>1, <2>2 DEF DescriptorsKept
  <2>. QED
    BY <1>14, <2>1, <2>2, <2>3
<1>10. CASE UNCHANGED Sockets!vars
  BY <1>10 DEF Sockets!vars, Lined, ConnectsOnce, DescriptorsKept, Waits, Servers
<1>. QED
  BY <1>1, <1>2, <1>3, <1>4, <1>5, <1>6, <1>7, <1>8, <1>9, <1>10, <1>15, <1>16
     DEF Sockets!Next, Sockets!IrqThread, Sockets!Sender

\* The exceptions of the send_irq that connected are raised once each and in the order of
\* their connections, for any number of them; and the process ends for want of descriptors
\* only after as many exceptions as the limit leaves beside the two servers and the debugger
\* (irq_listener): what ConnectedIsRaised promises, without its liveness.
THEOREM RaisedInOrder ==
  Sockets!ConnectionsAssumption =>
    (Sockets!Spec => [](/\ Sockets!IsPrefix(raised, connected)
                        /\ \A i, j \in 1 .. Len(raised) : i # j => raised[i] # raised[j]
                        /\ over => Len(raised) + 3 >= Limit))
<1>. SUFFICES ASSUME Sockets!ConnectionsAssumption
              PROVE  Sockets!Spec => [](/\ Sockets!IsPrefix(raised, connected)
                                        /\ \A i, j \in 1 .. Len(raised) : i # j => raised[i] # raised[j]
                                        /\ over => Len(raised) + 3 >= Limit)
  OBVIOUS
<1>1. SocketsInv /\ [Sockets!Next]_(Sockets!vars) => SocketsInv'
  BY SocketsStep
<1>2. Sockets!Init => SocketsInv
  <2>. SUFFICES ASSUME Sockets!Init PROVE SocketsInv
    OBVIOUS
  <2>1. /\ raised = <<>> /\ connected = <<>> /\ queue = <<>> /\ gdb = "create" /\ irq = "create" /\ open = 0
        /\ over = FALSE /\ byteRead = FALSE /\ sender = [s \in Senders |-> "idle"]
    BY Zenon DEF Sockets!Init
  <2>2. raised \in Seq(Senders) /\ connected \in Seq(Senders) /\ queue \in Seq(Senders)
    BY <2>1
  <2>3. SocketsType
    BY <2>1, <2>2 DEF SocketsType
  <2>4. Waits = 0 /\ Len(raised) = 0 /\ Len(connected) = 0 /\ Len(queue) = 0 /\ Servers = 0
    BY <2>1 DEF Waits, Servers
  <2>5. Lined /\ ConnectsOnce /\ DescriptorsKept
    BY ONLY <2>1, <2>4 DEF Lined, ConnectsOnce, DescriptorsKept
  <2>. QED
    BY ONLY <2>3, <2>5, Zenon DEF SocketsInv
<1>3. SocketsInv => /\ Sockets!IsPrefix(raised, connected)
                    /\ \A i, j \in 1 .. Len(raised) : i # j => raised[i] # raised[j]
                    /\ over => Len(raised) + 3 >= Limit
  <2>. SUFFICES ASSUME SocketsInv
                PROVE  /\ Sockets!IsPrefix(raised, connected)
                       /\ \A i, j \in 1 .. Len(raised) : i # j => raised[i] # raised[j]
                       /\ over => Len(raised) + 3 >= Limit
    OBVIOUS
  <2>1. /\ raised \in Seq(Senders) /\ connected \in Seq(Senders) /\ Len(raised) <= Len(connected)
        /\ \A i \in 1 .. Len(raised) : connected[i] = raised[i] /\ i \in 1 .. Len(connected)
    <3>1. Len(raised) \in Nat /\ Len(queue) \in Nat /\ Waits \in {0, 1} /\ Len(connected) = Len(raised) + Waits + Len(queue)
      BY DEF SocketsInv, SocketsType, Lined, Waits
    <3>2. Len(raised) <= Len(connected) /\ \A i \in 1 .. Len(raised) : i \in 1 .. Len(connected)
      BY ONLY <3>1
    <3>. QED
      BY <3>2 DEF SocketsInv, SocketsType, Lined
  <2>2. SubSeq(raised, 1, Len(raised)) = SubSeq(connected, 1, Len(raised))
    BY <2>1
  <2>3. Sockets!IsPrefix(raised, connected)
    BY <2>1, <2>2 DEF Sockets!IsPrefix
  <2>4. \A i, j \in 1 .. Len(raised) : i # j => raised[i] # raised[j]
    BY ONLY SocketsInv, <2>1, Zenon DEF SocketsInv, ConnectsOnce
  <2>. QED
    BY <2>3, <2>4 DEF SocketsInv, DescriptorsKept
<1>. QED
  BY <1>1, <1>2, <1>3, PTL DEF Sockets!Spec
=============================================================================
