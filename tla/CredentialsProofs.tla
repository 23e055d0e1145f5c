-------------------------- MODULE CredentialsProofs --------------------------
(***************************************************************************)
(* Theorems about EncXOR and DecXOR, for any text of ASCII and any key,    *)
(* and about Credentials, for any handlers, identifiers and passwords.     *)
(* The folds of the community modules are functions defined by recursion:  *)
(* the first lemmas say what these compute.                                *)
(***************************************************************************)
EXTENDS Credentials, FiniteSetTheorems, SequenceTheorems, NaturalsInduction, TLAPS

-----------------------------------------------------------------------------
(* Induction, stated for sets of numbers.                                  *)
LEMMA Least ==
  ASSUME NEW T \in SUBSET Nat, T # {}
  PROVE  \E m \in T : \A n \in T : m <= n
<1> DEFINE R == {xy \in Nat \X Nat : xy[1] < xy[2]}
<1>1. IsWellFoundedOn(R, Nat)
  BY NatLessThanWellFounded DEF OpToRel
<1>2. \A x, y \in Nat : x < y => <<x, y>> \in R
  OBVIOUS
<1> HIDE DEF R
<1>3. PICK m \in T : \A n \in T : <<n, m>> \notin R
  BY <1>1, WFMin
<1>4. \A n \in T : ~(n < m)
  BY <1>2, <1>3
<1> QED
  BY <1>4

(* A sum over a set, as the folds of the community modules compute it.     *)
Some(u) == CHOOSE x \in u : TRUE
Sums(h, S, v) ==
  h = [u \in SUBSET S |-> IF u = {} THEN 0 ELSE v[Some(u)] + h[u \ {Some(u)}]]

(* Two functions that satisfy the recursion of a sum agree on the whole    *)
(* set.                                                                    *)
LEMMA SumsOnce ==
  ASSUME NEW S, IsFiniteSet(S), NEW v, NEW h, NEW g, Sums(h, S, v), Sums(g, S, v)
  PROVE  h[S] = g[S]
<1> DEFINE Wrong == {u \in SUBSET S : h[u] # g[u]}
           Sizes == {Cardinality(u) : u \in Wrong}
<1>1. \A u \in SUBSET S : IsFiniteSet(u) /\ Cardinality(u) \in Nat
  BY FS_Subset, FS_CardinalityType
<1>2. ASSUME NEW u \in Wrong
      PROVE  \E w \in Wrong : ~(Cardinality(u) <= Cardinality(w))
  <2>1. u \in SUBSET S /\ u # {}
    BY DEF Sums
  <2>2. Some(u) \in u
    BY <2>1 DEF Some
  <2> DEFINE w == u \ {Some(u)}
  <2>3. w \in SUBSET S
    BY <2>1
  <2>4. h[u] = v[Some(u)] + h[w] /\ g[u] = v[Some(u)] + g[w]
    BY <2>1 DEF Sums
  <2>5. w \in Wrong
    BY <2>3, <2>4
  <2>6. Cardinality(w) = Cardinality(u) - 1
    BY <1>1, <2>1, <2>2, FS_RemoveElement
  <2> QED
    BY <1>1, <2>1, <2>5, <2>6
<1>3. Wrong = {}
  <2> SUFFICES ASSUME Wrong # {}
               PROVE  FALSE
    OBVIOUS
  <2>1. Sizes \in SUBSET Nat /\ Sizes # {}
    BY <1>1
  <2>2. PICK m \in Sizes : \A n \in Sizes : m <= n
    BY <2>1, Least
  <2> QED
    BY <1>2, <2>2
<1> QED
  BY <1>3

(* Total is what satisfies that recursion.                                 *)
LEMMA TotalSums ==
  ASSUME NEW s, NEW g, IsFiniteSet(DOMAIN s), Sums(g, DOMAIN s, s)
  PROVE  Total(s) = g[DOMAIN s]
<1> DEFINE h == CHOOSE h : h = [u \in SUBSET DOMAIN s |->
                  IF u = {} THEN 0 ELSE s[CHOOSE x \in u : TRUE] + h[u \ {CHOOSE x \in u : TRUE}]]
<1>1. Total(s) = h[DOMAIN s]
  BY DEF Total, FoldSeq, FoldFunction, FoldFunctionOnSet, MapThenFoldSet
<1>2. g = [u \in SUBSET DOMAIN s |->
                  IF u = {} THEN 0 ELSE s[CHOOSE x \in u : TRUE] + g[u \ {CHOOSE x \in u : TRUE}]]
  BY DEF Sums, Some
<1>3. Sums(h, DOMAIN s, s)
  BY <1>2 DEF Sums, Some
<1> QED
  BY <1>1, <1>3, SumsOnce

(* A sequence of ones.                                                     *)
LEMMA TotalOfOnes ==
  ASSUME NEW n \in Nat
  PROVE  Total([i \in 1 .. n |-> 1]) = n
<1> DEFINE s == [i \in 1 .. n |-> 1]
           g == [u \in SUBSET (1 .. n) |-> Cardinality(u)]
<1>1. IsFiniteSet(1 .. n) /\ Cardinality(1 .. n) = n
  BY FS_Interval
<1>2. ASSUME NEW u \in SUBSET (1 .. n)
      PROVE  g[u] = IF u = {} THEN 0 ELSE s[Some(u)] + g[u \ {Some(u)}]
  <2>1. IsFiniteSet(u) /\ Cardinality(u) \in Nat
    BY <1>1, FS_Subset, FS_CardinalityType
  <2>2. CASE u = {}
    BY <2>2, FS_EmptySet
  <2>3. CASE u # {}
    <3>1. Some(u) \in u
      BY <2>3 DEF Some
    <3>2. Cardinality(u \ {Some(u)}) = Cardinality(u) - 1
      BY <2>1, <3>1, FS_RemoveElement
    <3>3. s[Some(u)] = 1 /\ g[u] = Cardinality(u) /\ g[u \ {Some(u)}] = Cardinality(u \ {Some(u)})
      BY <3>1
    <3> HIDE DEF s, g
    <3>4. Cardinality(u) = 1 + Cardinality(u \ {Some(u)})
      BY <2>1, <3>2
    <3> QED
      BY <2>3, <3>3, <3>4, Zenon
  <2> QED
    BY <2>2, <2>3
<1>3. Sums(g, 1 .. n, s)
  <2>1. \A u \in SUBSET (1 .. n) : Cardinality(u) = IF u = {} THEN 0 ELSE s[Some(u)] + g[u \ {Some(u)}]
    BY <1>2
  <2> DEFINE G(u) == IF u = {} THEN 0 ELSE s[Some(u)] + g[u \ {Some(u)}]
  <2>2. [u \in SUBSET (1 .. n) |-> Cardinality(u)] = [u \in SUBSET (1 .. n) |-> G(u)]
    <3>1. \A u \in SUBSET (1 .. n) : Cardinality(u) = G(u)
      BY <2>1
    <3> HIDE DEF G
    <3> QED
      BY <3>1, Zenon
  <2>3. g = [u \in SUBSET (1 .. n) |-> G(u)]
    BY <2>2, Zenon DEF g
  <2> HIDE DEF s, g
  <2> QED
    BY <2>3, Zenon DEF Sums
<1>4. DOMAIN s = 1 .. n /\ g[1 .. n] = n
  BY <1>1
<1> HIDE DEF s, g
<1>5. Total(s) = n
  BY <1>1, <1>3, <1>4, TotalSums
<1> QED
  BY <1>5 DEF s

Ascii == 0 .. 127

(* The size of a text of bytes below 128.                                  *)
LEMMA SizeOfAscii ==
  ASSUME NEW t \in Seq(Ascii)
  PROVE  Size(t) = Len(t)
<1>1. DOMAIN t = 1 .. Len(t) /\ Len(t) \in Nat
  OBVIOUS
<1>2. \A i \in DOMAIN t : Width(t[i]) = 1
  <2>1. \A i \in 1 .. Len(t) : t[i] \in Ascii
    BY ElementOfSeq
  <2>2. \A x \in Ascii : Width(x) = 1
    BY DEF Width, Ascii
  <2> QED
    BY <1>1, <2>1, <2>2, Zenon
<1>3. [i \in DOMAIN t |-> Width(t[i])] = [i \in 1 .. Len(t) |-> 1]
  <2> DEFINE W(i) == Width(t[i])
  <2>1. \A i \in DOMAIN t : W(i) = 1
    BY <1>2
  <2> HIDE DEF W
  <2>2. [i \in DOMAIN t |-> W(i)] = [i \in 1 .. Len(t) |-> 1]
    BY <1>1, <2>1
  <2> QED
    BY <2>2 DEF W
<1> QED
  BY <1>1, <1>3, TotalOfOnes DEF Size

-----------------------------------------------------------------------------
(* What a bit adds to a sum over some of them.                             *)
In(u, d, v) == IF v \in u THEN d[v] ELSE 0

(* Xor is the sum over the eight bits.                                     *)
LEMMA SumOfBits ==
  ASSUME NEW x, NEW y
  PROVE  Xor(x, y) = Differ(x, y, 1) + Differ(x, y, 2) + Differ(x, y, 4) + Differ(x, y, 8)
                     + Differ(x, y, 16) + Differ(x, y, 32) + Differ(x, y, 64) + Differ(x, y, 128)
<1> DEFINE d == [v \in Bits |-> Differ(x, y, v)]
           G(u) == In(u, d, 1) + In(u, d, 2) + In(u, d, 4) + In(u, d, 8)
                   + In(u, d, 16) + In(u, d, 32) + In(u, d, 64) + In(u, d, 128)
           g == [u \in SUBSET Bits |-> G(u)]
           h == CHOOSE h : h = [u \in SUBSET Bits |->
                  IF u = {} THEN 0
                  ELSE Differ(x, y, CHOOSE v \in u : TRUE) + h[u \ {CHOOSE v \in u : TRUE}]]
<1>1. Xor(x, y) = h[Bits]
  BY DEF Xor, MapThenSumSet, MapThenFoldSet
<1>2. \A v \in Bits : d[v] \in {0, v}
  BY DEF Differ
<1>3. ASSUME NEW u \in SUBSET Bits
      PROVE  G(u) = IF u = {} THEN 0 ELSE d[Some(u)] + G(u \ {Some(u)})
  <2>1. CASE u = {}
    BY <2>1 DEF In
  <2>2. CASE u # {}
    <3>1. Some(u) \in u /\ Some(u) \in Bits
      BY <2>2 DEF Some
    <3>2. \A v \in Bits : In(u, d, v) \in Int /\ In(u \ {Some(u)}, d, v) \in Int
      BY <1>2 DEF In, Bits
    <3>3. \A v \in Bits : v # Some(u) => In(u \ {Some(u)}, d, v) = In(u, d, v)
      BY DEF In
    <3>4. In(u \ {Some(u)}, d, Some(u)) = 0 /\ In(u, d, Some(u)) = d[Some(u)]
      BY <3>1 DEF In
    <3> HIDE DEF d
    <3>5. G(u) = d[Some(u)] + G(u \ {Some(u)})
      BY <3>1, <3>2, <3>3, <3>4 DEF Bits
    <3> QED
      BY <2>2, <3>5
  <2> QED
    BY <2>1, <2>2
<1>4. Sums(g, Bits, d)
  <2> DEFINE B(u) == IF u = {} THEN 0 ELSE d[Some(u)] + g[u \ {Some(u)}]
  <2>1. \A u \in SUBSET Bits : G(u) = B(u)
    <3> HIDE DEF d, G
    <3>1. \A u \in SUBSET Bits : g[u \ {Some(u)}] = G(u \ {Some(u)})
      OBVIOUS
    <3> QED
      BY <1>3, <3>1
  <2>2. g = [u \in SUBSET Bits |-> B(u)]
    <3> HIDE DEF d, G, B
    <3> QED
      BY <2>1, Zenon
  <2> HIDE DEF d, G, g
  <2> QED
    BY <2>2, Zenon DEF Sums
<1>5. Sums(h, Bits, d)
  <2> DEFINE H(f, u) == IF u = {} THEN 0 ELSE Differ(x, y, Some(u)) + f[u \ {Some(u)}]
             D(f, u) == IF u = {} THEN 0 ELSE d[Some(u)] + f[u \ {Some(u)}]
  <2>1. \A f : \A u \in SUBSET Bits : H(f, u) = D(f, u)
    <3>1. \A u \in SUBSET Bits : u # {} => Some(u) \in Bits
      BY DEF Some
    <3>2. \A u \in SUBSET Bits : u # {} => d[Some(u)] = Differ(x, y, Some(u))
      BY <3>1
    <3> HIDE DEF d
    <3> QED
      BY <3>2
  <2>2. \A f : [u \in SUBSET Bits |-> H(f, u)] = [u \in SUBSET Bits |-> D(f, u)]
    <3> HIDE DEF H, D
    <3> QED
      BY <2>1, Zenon
  <2>3. g = [u \in SUBSET Bits |-> H(g, u)]
    <3>1. g = [u \in SUBSET Bits |-> D(g, u)]
      <4> HIDE DEF g, d
      <4> QED
        BY <1>4, Zenon DEF Sums
    <3> HIDE DEF g, H, D
    <3> QED
      BY <2>2, <3>1, Zenon
  <2>4. h = [u \in SUBSET Bits |-> H(h, u)]
    <3> HIDE DEF g
    <3> QED
      BY <2>3, Zenon DEF Some
  <2>5. h = [u \in SUBSET Bits |-> D(h, u)]
    <3> HIDE DEF h, H, D
    <3> QED
      BY <2>2, <2>4, Zenon
  <2> HIDE DEF h, d
  <2> QED
    BY <2>5, Zenon DEF Sums
<1>6. IsFiniteSet(Bits) /\ Bits \in SUBSET Bits
  <2>0. 1 \in Int /\ 128 \in Int
    OBVIOUS
  <2>1. IsFiniteSet(1 .. 128)
    BY <2>0, FS_Interval, Zenon
  <2>2. Bits \in SUBSET (1 .. 128)
    BY DEF Bits
  <2> QED
    BY <2>1, <2>2, FS_Subset
<1>7. h[Bits] = g[Bits]
  <2> HIDE DEF h, g, d
  <2> QED
    BY <1>4, <1>5, <1>6, SumsOnce
<1>8. g[Bits] = G(Bits)
  <2> HIDE DEF G
  <2> QED
    BY <1>6
<1>9. \A v \in Bits : In(Bits, d, v) = Differ(x, y, v)
  BY DEF In
<1> HIDE DEF h, g
<1>10. Xor(x, y) = G(Bits)
  BY <1>1, <1>7, <1>8
<1>11. \A v \in {1, 2, 4, 8, 16, 32, 64, 128} : v \in Bits /\ In(Bits, d, v) = Differ(x, y, v)
  BY <1>9 DEF Bits
<1>12. /\ In(Bits, d, 1) = Differ(x, y, 1) /\ In(Bits, d, 2) = Differ(x, y, 2)
       /\ In(Bits, d, 4) = Differ(x, y, 4) /\ In(Bits, d, 8) = Differ(x, y, 8)
       /\ In(Bits, d, 16) = Differ(x, y, 16) /\ In(Bits, d, 32) = Differ(x, y, 32)
       /\ In(Bits, d, 64) = Differ(x, y, 64) /\ In(Bits, d, 128) = Differ(x, y, 128)
  <2> HIDE DEF d
  <2> QED
    BY <1>11
<1>13. Xor(x, y) = In(Bits, d, 1) + In(Bits, d, 2) + In(Bits, d, 4) + In(Bits, d, 8)
                   + In(Bits, d, 16) + In(Bits, d, 32) + In(Bits, d, 64) + In(Bits, d, 128)
  <2> HIDE DEF d
  <2> QED
    BY <1>10, Zenon
<1> HIDE DEF d, G
<1> QED
  BY <1>12, <1>13, Zenon

(* Xor of anything is a byte.                                              *)
LEMMA XorByte ==
  ASSUME NEW x, NEW y
  PROVE  Xor(x, y) \in 0 .. 255
<1>1. \A v \in Bits : Differ(x, y, v) \in {0, v}
  BY DEF Differ
<1> QED
  BY <1>1, SumOfBits DEF Bits

(* A byte is the sum of its bits.                                          *)
LEMMA BitsOfByte ==
  ASSUME NEW x \in 0 .. 255
  PROVE  /\ \A v \in Bits : Bit(x, v) \in {0, 1}
         /\ x = Bit(x, 1) + 2 * Bit(x, 2) + 4 * Bit(x, 4) + 8 * Bit(x, 8) + 16 * Bit(x, 16)
                + 32 * Bit(x, 32) + 64 * Bit(x, 64) + 128 * Bit(x, 128)
  BY DEF Bit, Bits

(* The bits of a sum of bits.                                              *)
LEMMA ByteOfBits ==
  ASSUME NEW a \in {0, 1}, NEW b \in {0, 1}, NEW c \in {0, 1}, NEW d \in {0, 1},
         NEW e \in {0, 1}, NEW f \in {0, 1}, NEW g \in {0, 1}, NEW h \in {0, 1}, NEW x,
         x = a + 2 * b + 4 * c + 8 * d + 16 * e + 32 * f + 64 * g + 128 * h
  PROVE  /\ Bit(x, 1) = a /\ Bit(x, 2) = b /\ Bit(x, 4) = c /\ Bit(x, 8) = d
         /\ Bit(x, 16) = e /\ Bit(x, 32) = f /\ Bit(x, 64) = g /\ Bit(x, 128) = h
  BY DEF Bit

(* Bit by bit: one if the two differ.                                      *)
Other(a, b) == IF a = b THEN 0 ELSE 1

(* A bit of Xor is one where the bits of the two differ.                   *)
LEMMA XorBits ==
  ASSUME NEW x, NEW y, NEW v \in Bits
  PROVE  Bit(Xor(x, y), v) = Other(Bit(x, v), Bit(y, v))
<1> DEFINE o == [w \in Bits |-> Other(Bit(x, w), Bit(y, w))]
<1>1. \A w \in Bits : o[w] \in {0, 1}
  BY DEF Other
<1>2. \A w \in Bits : Differ(x, y, w) = w * o[w]
  BY DEF Differ, Other, Bits
<1>3. o[v] = Other(Bit(x, v), Bit(y, v))
  OBVIOUS
<1>4. \A w \in {1, 2, 4, 8, 16, 32, 64, 128} : w \in Bits
  BY DEF Bits
<1> HIDE DEF o
<1>5. Xor(x, y) = o[1] + 2 * o[2] + 4 * o[4] + 8 * o[8] + 16 * o[16] + 32 * o[32] + 64 * o[64] + 128 * o[128]
  BY <1>1, <1>2, <1>4, SumOfBits
<1>6. /\ Bit(Xor(x, y), 1) = o[1] /\ Bit(Xor(x, y), 2) = o[2]
      /\ Bit(Xor(x, y), 4) = o[4] /\ Bit(Xor(x, y), 8) = o[8]
      /\ Bit(Xor(x, y), 16) = o[16] /\ Bit(Xor(x, y), 32) = o[32]
      /\ Bit(Xor(x, y), 64) = o[64] /\ Bit(Xor(x, y), 128) = o[128]
  BY <1>1, <1>4, <1>5, ByteOfBits
<1> QED
  BY <1>3, <1>6 DEF Bits

(* Encrypting a byte again with the same byte of the key gives it back.    *)
LEMMA XorBack ==
  ASSUME NEW x \in 0 .. 255, NEW y \in 0 .. 255
  PROVE  Xor(Xor(x, y), y) = x
<1> DEFINE z == Xor(Xor(x, y), y)
<1>1. \A v \in Bits : Bit(x, v) \in {0, 1} /\ Bit(y, v) \in {0, 1}
  BY BitsOfByte
<1>2. \A v \in Bits : Bit(z, v) = Other(Other(Bit(x, v), Bit(y, v)), Bit(y, v))
  BY XorBits
<1>3. \A v \in Bits : Bit(z, v) = Bit(x, v)
  <2> HIDE DEF z
  <2> QED
    BY <1>1, <1>2 DEF Other
<1>4. z \in 0 .. 255
  BY XorByte
<1>5. \A v \in {1, 2, 4, 8, 16, 32, 64, 128} : v \in Bits
  BY DEF Bits
<1> HIDE DEF z
<1>6. /\ Bit(z, 1) = Bit(x, 1) /\ Bit(z, 2) = Bit(x, 2) /\ Bit(z, 4) = Bit(x, 4) /\ Bit(z, 8) = Bit(x, 8)
      /\ Bit(z, 16) = Bit(x, 16) /\ Bit(z, 32) = Bit(x, 32) /\ Bit(z, 64) = Bit(x, 64)
      /\ Bit(z, 128) = Bit(x, 128)
  BY <1>3, <1>5
<1>7. z = x
  <2> DEFINE S(a) == Bit(a, 1) + 2 * Bit(a, 2) + 4 * Bit(a, 4) + 8 * Bit(a, 8) + 16 * Bit(a, 16)
                + 32 * Bit(a, 32) + 64 * Bit(a, 64) + 128 * Bit(a, 128)
  <2>1. z = S(z) /\ x = S(x)
    BY <1>4, BitsOfByte
  <2>2. S(z) = S(x)
    BY <1>6, Zenon
  <2> QED
    BY <2>1, <2>2
<1> QED
  BY <1>7 DEF z

(* Two bytes turn a 6 into a 39 only if they differ in the bits of 33.     *)
LEMMA XorLengths ==
  ASSUME NEW x \in 0 .. 255, NEW y \in 0 .. 255, Xor(Xor(6, x), y) = 39
  PROVE  Xor(x, y) = 33
<1> DEFINE u == Xor(x, y)
<1>1. \A v \in {1, 2, 4, 8, 16, 32, 64, 128} : v \in Bits
  BY DEF Bits
<1>2. \A v \in Bits : Bit(x, v) \in {0, 1} /\ Bit(y, v) \in {0, 1}
  BY BitsOfByte
<1>3. \A v \in Bits : Bit(39, v) = Other(Other(Bit(6, v), Bit(x, v)), Bit(y, v))
  BY XorBits
<1>4. \A v \in Bits : Bit(u, v) = Other(Bit(x, v), Bit(y, v))
  BY XorBits
<1>5. /\ Bit(39, 1) = 1 /\ Bit(39, 2) = 1 /\ Bit(39, 4) = 1 /\ Bit(39, 8) = 0
      /\ Bit(39, 16) = 0 /\ Bit(39, 32) = 1 /\ Bit(39, 64) = 0 /\ Bit(39, 128) = 0
      /\ Bit(6, 1) = 0 /\ Bit(6, 2) = 1 /\ Bit(6, 4) = 1 /\ Bit(6, 8) = 0
      /\ Bit(6, 16) = 0 /\ Bit(6, 32) = 0 /\ Bit(6, 64) = 0 /\ Bit(6, 128) = 0
  BY DEF Bit
<1>6. u \in 0 .. 255
  BY XorByte
<1> HIDE DEF u
<1>7. /\ Bit(u, 1) = 1 /\ Bit(u, 2) = 0 /\ Bit(u, 4) = 0 /\ Bit(u, 8) = 0
      /\ Bit(u, 16) = 0 /\ Bit(u, 32) = 1 /\ Bit(u, 64) = 0 /\ Bit(u, 128) = 0
  BY <1>1, <1>2, <1>3, <1>4, <1>5 DEF Other
<1>8. u = 33
  BY <1>6, <1>7, BitsOfByte
<1> QED
  BY <1>8 DEF u

-----------------------------------------------------------------------------
(* Induction up to a bound.                                                *)
LEMMA InductTo ==
  ASSUME NEW n \in Nat, NEW T, 0 \in T, \A k \in 1 .. n : k - 1 \in T => k \in T
  PROVE  \A k \in 0 .. n : k \in T
<1> SUFFICES ASSUME NEW k \in 0 .. n, k \notin T
             PROVE  FALSE
  OBVIOUS
<1>1. PICK m \in {l \in 0 .. n : l \notin T} : \A l \in {l \in 0 .. n : l \notin T} : m <= l
  <2>1. {l \in 0 .. n : l \notin T} \in SUBSET Nat /\ k \in {l \in 0 .. n : l \notin T}
    OBVIOUS
  <2> QED
    BY <2>1, Least
<1>2. m \in 1 .. n /\ m - 1 \in 0 .. n /\ ~(m <= m - 1)
  BY <1>1
<1> QED
  BY <1>1, <1>2

(* What FlattenSeq has put together of the first sequences.                *)
Flattens(f, q) ==
  f = [i \in 1 .. Len(q) |-> IF i = 1 THEN q[i] ELSE f[i - 1] \o q[i]]

FlattensTo(m, f, q) ==
  /\ f \in [1 .. m -> Seq(Nat)]
  /\ \A i \in 1 .. m : f[i] = IF i = 1 THEN q[i] ELSE f[i - 1] \o q[i]

(* The recursion of FlattenSeq has a solution, so it returns one.          *)
LEMMA FlattenExists ==
  ASSUME NEW q \in Seq(Seq(Nat)), q # <<>>
  PROVE  \E f : Flattens(f, q) /\ FlattenSeq(q) = f[Len(q)]
<1> DEFINE n == Len(q)
           T == {m \in 0 .. n : \E f : FlattensTo(m, f, q)}
<1>0. n \in Nat \ {0} /\ \A i \in 1 .. n : q[i] \in Seq(Nat)
  OBVIOUS
<1> HIDE DEF n
<1>1. 0 \in T
  <2>1. FlattensTo(0, [i \in 1 .. 0 |-> <<>>], q)
    BY DEF FlattensTo
  <2> QED
    BY <1>0, <2>1
<1>2. ASSUME NEW m \in 1 .. n, m - 1 \in T
      PROVE  m \in T
  <2>1. PICK f : FlattensTo(m - 1, f, q)
    BY <1>2
  <2>2. m \in Nat \ {0} /\ q[m] \in Seq(Nat)
    BY <1>0
  <2> DEFINE v == IF m = 1 THEN q[m] ELSE f[m - 1] \o q[m]
             g == [i \in 1 .. m |-> IF i = m THEN v ELSE f[i]]
  <2>3. v \in Seq(Nat)
    <3>1. m # 1 => f[m - 1] \in Seq(Nat)
      BY <2>1, <2>2 DEF FlattensTo
    <3> QED
      BY <2>2, <3>1
  <2> HIDE DEF v
  <2>4. \A i \in 1 .. m : i # m => i \in 1 .. m - 1 /\ g[i] = f[i]
    BY <2>2
  <2>5. g \in [1 .. m -> Seq(Nat)]
    BY <2>1, <2>3, <2>4 DEF FlattensTo
  <2>6. ASSUME NEW i \in 1 .. m
        PROVE  g[i] = IF i = 1 THEN q[i] ELSE g[i - 1] \o q[i]
    <3>1. i # 1 => i - 1 \in 1 .. m /\ i - 1 # m /\ g[i - 1] = f[i - 1]
      BY <2>2, <2>4
    <3>2. CASE i = m
      <4>1. g[m] = v
        BY <2>2
      <4> HIDE DEF g
      <4> QED
        BY <3>1, <3>2, <4>1 DEF v
    <3>3. CASE i # m
      <4>1. f[i] = IF i = 1 THEN q[i] ELSE f[i - 1] \o q[i]
        BY <2>1, <2>4, <3>3 DEF FlattensTo
      <4>2. g[i] = f[i]
        BY <2>4, <3>3
      <4> HIDE DEF g
      <4> QED
        BY <3>1, <4>1, <4>2
    <3> QED
      BY <3>2, <3>3
  <2>7. FlattensTo(m, g, q)
    BY <2>5, <2>6 DEF FlattensTo
  <2> QED
    BY <2>7
<1>3. n \in T
  <2> HIDE DEF T
  <2>1. \A k \in 0 .. n : k \in T
    BY <1>0, <1>1, <1>2, InductTo
  <2> QED
    BY <1>0, <2>1
<1>4. PICK f : FlattensTo(n, f, q)
  BY <1>3
<1> DEFINE B(h, i) == IF i = 1 THEN q[i] ELSE h[i - 1] \o q[i]
           w == CHOOSE h : h = [i \in 1 .. n |-> B(h, i)]
<1>5. f = [i \in 1 .. n |-> B(f, i)]
  <2>1. f = [i \in 1 .. n |-> f[i]] /\ \A i \in 1 .. n : f[i] = B(f, i)
    BY <1>4 DEF FlattensTo
  <2> HIDE DEF B
  <2> QED
    BY <2>1
<1>6. w = [i \in 1 .. n |-> B(w, i)]
  <2> HIDE DEF B
  <2> QED
    BY <1>5, Zenon
<1>7. Flattens(w, q)
  <2> HIDE DEF w
  <2> QED
    BY <1>6 DEF Flattens, n
<1>8. FlattenSeq(q) = w[n]
  BY <1>0 DEF FlattenSeq, n
<1> QED
  BY <1>7, <1>8 DEF n

(* What a sequence begins with.                                            *)
Begins(s, w, k) == s \in Seq(Nat) /\ k <= Len(s) /\ \A i \in 1 .. k : s[i] = w[i]

(* What a sequence begins with stays when another is appended.             *)
LEMMA BeginsMore ==
  ASSUME NEW s, NEW r \in Seq(Nat), NEW w, NEW k \in Nat, Begins(s, w, k)
  PROVE  Begins(s \o r, w, k)
<1>1. s \in Seq(Nat) /\ s \o r \in Seq(Nat) /\ Len(s \o r) = Len(s) + Len(r)
      /\ Len(s) \in Nat /\ Len(r) \in Nat
  BY ConcatProperties DEF Begins
<1>2. \A i \in 1 .. k : (s \o r)[i] = s[i]
  BY <1>1, ConcatProperties DEF Begins
<1> QED
  BY <1>1, <1>2 DEF Begins

(* One more element in place.                                              *)
LEMMA BeginsNext ==
  ASSUME NEW s, NEW w, NEW k \in Nat, NEW r,
         Begins(s, w, k), Len(s) = k, w[k + 1] \in Nat, r = <<w[k + 1]>>
  PROVE  Begins(s \o r, w, k + 1) /\ Len(s \o r) = k + 1
<1>1. s \in Seq(Nat) /\ r \in Seq(Nat) /\ Len(r) = 1 /\ r[1] = w[k + 1]
  BY DEF Begins
<1>2. s \o r \in Seq(Nat) /\ Len(s \o r) = k + 1
  BY <1>1, ConcatProperties
<1>3. \A i \in 1 .. k + 1 : (s \o r)[i] = IF i <= k THEN s[i] ELSE r[i - k]
  BY <1>1, ConcatProperties
<1>4. \A i \in 1 .. k + 1 : (i <= k => i \in 1 .. k) /\ (~(i <= k) => i = k + 1 /\ i - k = 1)
  OBVIOUS
<1>5. \A i \in 1 .. k + 1 : (s \o r)[i] = w[i]
  BY <1>1, <1>3, <1>4 DEF Begins
<1> QED
  BY <1>2, <1>5 DEF Begins

(* Where the first m sequences have one element each, these come first in  *)
(* what FlattenSeq returns.                                                *)
LEMMA FlattenOnes ==
  ASSUME NEW q \in Seq(Seq(Nat)), NEW m \in 1 .. Len(q), NEW w,
         \A i \in 1 .. m : w[i] \in Nat /\ q[i] = <<w[i]>>
  PROVE  /\ Begins(FlattenSeq(q), w, m)
         /\ m = Len(q) => Len(FlattenSeq(q)) = m
<1> DEFINE n == Len(q)
<1>1. n \in Nat \ {0} /\ q # <<>> /\ m \in Nat \ {0} /\ m <= n /\ \A i \in 1 .. n : q[i] \in Seq(Nat)
  OBVIOUS
<1>2. PICK f : Flattens(f, q) /\ FlattenSeq(q) = f[n]
  BY <1>1, FlattenExists
<1>3. \A i \in 1 .. n : f[i] = IF i = 1 THEN q[i] ELSE f[i - 1] \o q[i]
  BY <1>2 DEF Flattens
<1> HIDE DEF n
<1> DEFINE Good(j, s) == /\ j <= m => Begins(s, w, j) /\ Len(s) = j
                         /\ m <= j => Begins(s, w, m)
           T == {j \in 0 .. n : j # 0 => Good(j, f[j])}
<1>4. 0 \in T
  BY <1>1
<1>5. ASSUME NEW j \in 1 .. n, j - 1 \in T
      PROVE  j \in T
  <2>0. j \in Nat /\ (j # 1 => j - 1 \in 1 .. n /\ j - 1 \in Nat)
    BY <1>1
  <2>1. CASE j = 1
    <3>1. f[1] = <<w[1]>> /\ w[1] \in Nat
      BY <1>1, <1>3, <2>1
    <3>2. Begins(f[1], w, 1) /\ Len(f[1]) = 1
      BY <3>1 DEF Begins
    <3> HIDE DEF Begins
    <3>3. j <= m /\ (m <= j => m = 1)
      BY <1>1, <2>1
    <3>4. Good(j, f[j])
      BY <2>1, <3>2, <3>3
    <3> HIDE DEF Good
    <3> QED
      BY <1>1, <3>4
  <2>2. CASE j # 1
    <3>1. j - 1 \in 1 .. n /\ j - 1 \in Nat /\ j \in Nat /\ Good(j - 1, f[j - 1])
      <4> HIDE DEF Good
      <4> QED
        BY <1>1, <1>5, <2>0, <2>2
    <3>2. f[j] = f[j - 1] \o q[j] /\ q[j] \in Seq(Nat)
      BY <1>1, <1>3, <2>2
    <3>3. CASE j <= m
      <4>1. q[j] = <<w[j]>> /\ w[j] \in Nat /\ Begins(f[j - 1], w, j - 1) /\ Len(f[j - 1]) = j - 1
        BY <1>1, <3>1, <3>3
      <4>2. (j - 1) + 1 = j
        BY <3>1
      <4>3. Begins(f[j], w, j) /\ Len(f[j]) = j
        BY <3>1, <3>2, <4>1, <4>2, BeginsNext
      <4> QED
        BY <1>1, <3>1, <3>3, <4>3
    <3>4. CASE ~(j <= m)
      <4>1. Begins(f[j - 1], w, m)
        BY <1>1, <3>1, <3>4
      <4>2. Begins(f[j], w, m)
        BY <1>1, <3>2, <4>1, BeginsMore
      <4> QED
        BY <1>1, <3>1, <3>4, <4>2
    <3> QED
      BY <3>3, <3>4
  <2> QED
    BY <2>1, <2>2
<1>6. Good(n, f[n])
  <2> HIDE DEF T
  <2>1. \A j \in 0 .. n : j \in T
    BY <1>1, <1>4, <1>5, InductTo
  <2> QED
    BY <1>1, <2>1 DEF T
<1> QED
  BY <1>1, <1>2, <1>6 DEF n

(* What FlattenSeq returns begins as the first sequence does.              *)
LEMMA FlattenFirst ==
  ASSUME NEW q \in Seq(Seq(Nat)), q # <<>>, q[1] # <<>>
  PROVE  FlattenSeq(q)[1] = q[1][1]
<1> DEFINE n == Len(q)
           w == q[1]
<1>1. n \in Nat \ {0} /\ \A i \in 1 .. n : q[i] \in Seq(Nat)
  OBVIOUS
<1>2. PICK f : Flattens(f, q) /\ FlattenSeq(q) = f[n]
  BY FlattenExists
<1>3. \A i \in 1 .. n : f[i] = IF i = 1 THEN q[i] ELSE f[i - 1] \o q[i]
  BY <1>2 DEF Flattens
<1>4. w \in Seq(Nat) /\ 1 <= Len(w)
  <2>1. w \in Seq(Nat) /\ w # <<>>
    BY <1>1
  <2> HIDE DEF w
  <2> QED
    BY <2>1
<1> HIDE DEF n
<1> DEFINE T == {j \in 0 .. n : j # 0 => Begins(f[j], w, 1)}
<1>5. 0 \in T
  BY <1>1
<1>6. ASSUME NEW j \in 1 .. n, j - 1 \in T
      PROVE  j \in T
  <2>1. CASE j = 1
    <3>1. f[j] = w
      BY <1>1, <1>3, <2>1
    <3>2. Begins(w, w, 1)
      <4> HIDE DEF w
      <4> QED
        BY <1>4 DEF Begins
    <3> QED
      BY <1>1, <3>1, <3>2
  <2>2. CASE j # 1
    <3>1. j - 1 \in 1 .. n /\ Begins(f[j - 1], w, 1)
      BY <1>1, <1>6, <2>2
    <3>2. f[j] = f[j - 1] \o q[j] /\ q[j] \in Seq(Nat) /\ 1 \in Nat
      BY <1>1, <1>3, <2>2
    <3>3. Begins(f[j], w, 1)
      BY <3>1, <3>2, BeginsMore
    <3> QED
      BY <1>1, <3>3
  <2> QED
    BY <2>1, <2>2
<1>7. \A j \in 0 .. n : j \in T
  <2> HIDE DEF T
  <2> QED
    BY <1>1, <1>5, <1>6, InductTo
<1>8. Begins(f[n], w, 1)
  BY <1>1, <1>7
<1> QED
  BY <1>2, <1>8 DEF Begins

-----------------------------------------------------------------------------
(* Texts of ASCII short enough for their length to be one too, and keys.   *)
ShortTexts == {t \in Seq(Ascii) : Len(t) <= 127}
Keys == Seq(0 .. 255) \ {<<>>}
KeyAt(key, i) == key[((i - 1) % Len(key)) + 1]
Plain(t) == <<Len(t)>> \o t

(* The text with its length in front.                                      *)
LEMMA PlainIs ==
  ASSUME NEW t \in ShortTexts
  PROVE  /\ Plain(t) \in Seq(Ascii) /\ Len(Plain(t)) = Len(t) + 1 /\ Len(t) \in 0 .. 127
         /\ Plain(t)[1] = Len(t) /\ \A i \in 1 .. Len(t) : Plain(t)[i + 1] = t[i]
<1>1. t \in Seq(Ascii) /\ Len(t) \in 0 .. 127
  <2>1. t \in Seq(Ascii) /\ Len(t) <= 127
    BY DEF ShortTexts
  <2>2. Len(t) \in Nat
    BY <2>1, LenProperties, Zenon
  <2>3. \A x \in Nat : x <= 127 => x \in 0 .. 127
    OBVIOUS
  <2> QED
    BY <2>1, <2>2, <2>3, Zenon
<1> DEFINE l == <<Len(t)>>
<1>2. l \in Seq(Ascii) /\ Len(l) = 1 /\ l[1] = Len(t)
  <2>1. Len(t) \in Ascii
    BY <1>1 DEF Ascii
  <2> QED
    BY <2>1
<1> HIDE DEF l
<1>3. /\ l \o t \in Seq(Ascii) /\ Len(l \o t) = 1 + Len(t)
      /\ \A i \in 1 .. 1 + Len(t) : (l \o t)[i] = IF i <= 1 THEN l[i] ELSE t[i - 1]
  <2>1. /\ l \o t \in Seq(Ascii) /\ Len(l \o t) = Len(l) + Len(t)
        /\ \A i \in 1 .. Len(l) + Len(t) : (l \o t)[i] = IF i <= Len(l) THEN l[i] ELSE t[i - Len(l)]
    BY <1>1, <1>2, ConcatProperties, Zenon
  <2> QED
    BY <1>2, <2>1, Zenon
<1>4. 1 + Len(t) = Len(t) + 1
  BY <1>1
<1>5. (l \o t)[1] = Len(t)
  BY <1>1, <1>2, <1>3
<1>6. \A i \in 1 .. Len(t) : i + 1 \in 1 .. Len(t) + 1 /\ ~(i + 1 <= 1) /\ (i + 1) - 1 = i
  BY <1>1
<1>7. \A i \in 1 .. Len(t) : (l \o t)[i + 1] = t[i]
  BY <1>3, <1>4, <1>6
<1> QED
  BY <1>1, <1>3, <1>4, <1>5, <1>7 DEF Plain, l

(* The byte of the key for a place, and the one for the first place.       *)
LEMMA KeyByte ==
  ASSUME NEW key \in Keys, NEW i \in Nat \ {0}
  PROVE  KeyAt(key, i) \in 0 .. 255 /\ KeyAt(key, 1) = key[1]
<1>1. Len(key) \in Nat \ {0} /\ \A j \in 1 .. Len(key) : key[j] \in 0 .. 255
  BY ElementOfSeq, EmptySeq DEF Keys
<1>2. (i - 1) % Len(key) \in 0 .. Len(key) - 1 /\ (1 - 1) % Len(key) = 0
  BY <1>1
<1>3. ((i - 1) % Len(key)) + 1 \in 1 .. Len(key) /\ ((1 - 1) % Len(key)) + 1 = 1
  BY <1>1, <1>2
<1> QED
  BY <1>1, <1>3, Zenon DEF KeyAt

(* What EncXOR makes of such a text.                                       *)
LEMMA Encrypted ==
  ASSUME NEW t \in ShortTexts, NEW key \in Keys
  PROVE  /\ \E S : EncXOR(t, key) \in Seq(S)
         /\ Len(t) + 2 <= Len(EncXOR(t, key)) /\ (Len(t) = 6 => Len(EncXOR(t, key)) = 40)
         /\ \A i \in 1 .. Len(t) + 1 : EncXOR(t, key)[i] = Xor(Plain(t)[i], KeyAt(key, i))
         /\ EncXOR(t, key)[Len(t) + 2] = controlNum(t)
<1> DEFINE s == Plain(t)
           n == Len(t) + 1
           Index(i) == Size(SubSeq(s, 1, i - 1))
           body == [i \in DOMAIN s |-> Xor(s[i] % 256, key[(Index(i) % Len(key)) + 1])]
           full == Append(body, Control(t))
           missing == IF 2 * Len(full) < MaxEncPass THEN MaxEncPass - 2 * Len(full) ELSE 0
           salt == [i \in 1 .. missing |-> Salt]
<1>1. t \in Seq(Ascii) /\ Len(t) \in 0 .. 127 /\ s \in Seq(Ascii) /\ Len(s) = n /\ DOMAIN s = 1 .. n
      /\ \A i \in 1 .. n : s[i] \in Ascii
  <2>1. t \in Seq(Ascii) /\ Len(t) \in 0 .. 127 /\ s \in Seq(Ascii) /\ Len(s) = n
    BY PlainIs DEF ShortTexts
  <2>2. DOMAIN s = 1 .. Len(s) /\ \A i \in 1 .. Len(s) : s[i] \in Ascii
    BY <2>1, ElementOfSeq, LenProperties
  <2> QED
    BY <2>1, <2>2
<1>2. EncXOR(t, key) = full \o salt
  <2>1. <<Size(t)>> \o t = s
    BY <1>1, SizeOfAscii DEF Plain
  <2> QED
    BY <2>1, Zenon DEF EncXOR
<1>3. \A i \in 1 .. n : body[i] = Xor(s[i], KeyAt(key, i))
  <2> SUFFICES ASSUME NEW i \in 1 .. n
               PROVE  body[i] = Xor(s[i], KeyAt(key, i))
    OBVIOUS
  <2>1. SubSeq(s, 1, i - 1) \in Seq(Ascii) /\ Len(SubSeq(s, 1, i - 1)) = i - 1
    <3>1. 1 \in 1 .. Len(s) + 1 /\ i - 1 \in 0 .. Len(s) /\ Len(s) \in Nat
      BY <1>1
    <3> HIDE DEF s
    <3> QED
      BY <1>1, <3>1
  <2>2. Index(i) = i - 1
    BY <2>1, SizeOfAscii
  <2>3. s[i] % 256 = s[i]
    <3>1. s[i] \in Ascii
      BY <1>1
    <3>2. \A x \in Ascii : x % 256 = x
      BY DEF Ascii
    <3> QED
      BY <3>1, <3>2
  <2> QED
    BY <1>1, <2>2, <2>3, Zenon DEF KeyAt
<1> DEFINE S == {body[i] : i \in 1 .. n} \cup {controlNum(t), Salt}
<1>4. body \in Seq(S) /\ Len(body) = n
  <2>1. body \in [1 .. n -> S]
    BY <1>1
  <2>2. n \in Nat
    BY <1>1
  <2> HIDE DEF body, S
  <2> QED
    BY <2>1, <2>2
<1>5. full \in Seq(S) /\ Len(full) = n + 1 /\ full[n + 1] = controlNum(t)
      /\ \A i \in 1 .. n : full[i] = body[i]
  <2>1. Control(t) = controlNum(t) /\ controlNum(t) \in S
    BY DEF Control
  <2> HIDE DEF body, S
  <2> QED
    BY <1>4, <2>1, AppendProperties
<1> HIDE DEF full
<1>6. missing \in Nat /\ (n = 7 => (n + 1) + missing = 40)
  <2> HIDE DEF body, S
  <2>1. \A x \in 2 .. 129 : LET y == IF 2 * x < 48 THEN 48 - 2 * x ELSE 0
                           IN  y \in Nat /\ (x = 8 => x + y = 40)
    OBVIOUS
  <2>2. Len(full) = n + 1 /\ n + 1 \in 2 .. 129 /\ (n = 7 => n + 1 = 8)
    <3>2. n = 7 => n + 1 = 8
      OBVIOUS
    <3>1. \A x \in 0 .. 127 : (x + 1) + 1 \in 2 .. 129
      OBVIOUS
    <3> QED
      BY <1>1, <1>5, <3>1, <3>2, Zenon
  <2> QED
    BY <2>1, <2>2, Zenon DEF MaxEncPass
<1>7. salt \in Seq(S) /\ Len(salt) = missing
  <2> HIDE DEF missing
  <2>1. salt \in [1 .. missing -> S]
    OBVIOUS
  <2> HIDE DEF S, salt
  <2> QED
    BY <1>6, <2>1
<1> HIDE DEF S, salt, missing, s
<1>8. full \o salt \in Seq(S) /\ Len(full \o salt) = n + 1 + missing
      /\ \A i \in 1 .. n + 1 : (full \o salt)[i] = full[i]
  <2>1. full \o salt \in Seq(S) /\ Len(full \o salt) = Len(full) + Len(salt)
    BY <1>5, <1>7, ConcatProperties
  <2>2. \A i \in 1 .. Len(full) + Len(salt) : i <= Len(full) => (full \o salt)[i] = full[i]
    BY <1>5, <1>7, ConcatProperties
  <2> HIDE DEF S, body
  <2> QED
    BY <1>1, <1>5, <1>6, <1>7, <2>1, <2>2
<1>9. n + 1 = Len(t) + 2 /\ n + 1 \in 1 .. n + 1 /\ \A i \in 1 .. n : i \in 1 .. n + 1
  BY <1>1
<1> HIDE DEF body
<1> DEFINE c == EncXOR(t, key)
<1>10. c \in Seq(S) /\ Len(c) = (n + 1) + missing /\ \A i \in 1 .. n + 1 : c[i] = full[i]
  BY <1>2, <1>8
<1> HIDE DEF c
<1>11. \A i \in 1 .. n : c[i] = Xor(s[i], KeyAt(key, i))
  BY <1>3, <1>5, <1>9, <1>10
<1>12. c[Len(t) + 2] = controlNum(t)
  BY <1>5, <1>9, <1>10
<1>13. Len(t) + 2 <= Len(c) /\ (Len(t) = 6 => Len(c) = 40)
  <2>1. \A x \in 0 .. 127, y \in Nat :
          /\ x + 2 <= ((x + 1) + 1) + y
          /\ (x + 1 = 7 => ((x + 1) + 1) + y = 40) /\ x = 6 => ((x + 1) + 1) + y = 40
    OBVIOUS
  <2>2. Len(t) \in 0 .. 127 /\ missing \in Nat /\ Len(c) = ((Len(t) + 1) + 1) + missing
    BY <1>1, <1>6, <1>10, Zenon
  <2>3. Len(t) + 1 = 7 => ((Len(t) + 1) + 1) + missing = 40
    BY <1>6, Zenon
  <2> QED
    BY <2>1, <2>2, <2>3, Zenon
<1> QED
  BY <1>10, <1>11, <1>12, <1>13 DEF s, c

-----------------------------------------------------------------------------
(* What DecXOR makes of each byte of a cipher.                             *)
Chars(c, key) == [i \in DOMAIN c |-> Utf8(Xor(c[i], KeyAt(key, i)))]

(* A byte as a rune; one of ASCII is itself.                               *)
LEMMA Utf8Is ==
  ASSUME NEW b \in 0 .. 255
  PROVE  Utf8(b) \in Seq(Nat) /\ (b \in Ascii => Utf8(b) = <<b>>)
<1>1. CASE b < 128
  BY <1>1 DEF Utf8
<1>2. CASE ~(b < 128)
  <2>1. 192 + (b \div 64) \in Nat /\ 128 + (b % 64) \in Nat
    OBVIOUS
  <2>2. Utf8(b) = <<192 + (b \div 64), 128 + (b % 64)>>
    BY <1>2 DEF Utf8
  <2>3. b \notin Ascii
    BY <1>2 DEF Ascii
  <2> QED
    BY <2>1, <2>2, <2>3
<1> QED
  BY <1>1, <1>2

(* One rune to each byte of the cipher.                                    *)
LEMMA CharsTyped ==
  ASSUME NEW S, NEW c \in Seq(S), NEW key
  PROVE  Chars(c, key) \in Seq(Seq(Nat)) /\ Len(Chars(c, key)) = Len(c)
<1> DEFINE U(i) == Utf8(Xor(c[i], KeyAt(key, i)))
<1>1. DOMAIN c = 1 .. Len(c) /\ Len(c) \in Nat
  BY LenProperties, Zenon
<1>2. \A i : U(i) \in Seq(Nat)
  BY XorByte, Utf8Is, Zenon
<1> HIDE DEF U
<1>3. [i \in 1 .. Len(c) |-> U(i)] \in Seq(Seq(Nat)) /\ Len([i \in 1 .. Len(c) |-> U(i)]) = Len(c)
  <2> DEFINE u == [i \in 1 .. Len(c) |-> U(i)]
             n == Len(c)
  <2>1. u \in [1 .. n -> Seq(Nat)] /\ n \in Nat
    BY <1>1, <1>2
  <2> HIDE DEF u, n
  <2>2. u \in Seq(Seq(Nat)) /\ Len(u) = n
    BY <2>1
  <2> QED
    BY <2>2 DEF u, n
<1> QED
  BY <1>1, <1>3 DEF Chars, U

(* A sequence of runes of ASCII is what "range" reads in it.               *)
LEMMA RunesOfAscii ==
  ASSUME NEW t \in Seq(Ascii)
  PROVE  Runes(t) = t
<1> DEFINE q == [i \in DOMAIN t |-> RuneAt(t, i)]
<1>1. DOMAIN t = 1 .. Len(t) /\ Len(t) \in Nat /\ \A i \in 1 .. Len(t) : t[i] \in Ascii
  BY LenProperties, ElementOfSeq, Zenon
<1>2. \A i \in 1 .. Len(t) : t[i] \in Nat /\ RuneAt(t, i) = <<t[i]>>
  <2>1. \A x \in Ascii : x \in Nat /\ x < 128 /\ ~(x >= 192) /\ x \notin 128 .. 191
    BY DEF Ascii
  <2> SUFFICES ASSUME NEW i \in 1 .. Len(t)
               PROVE  t[i] \in Nat /\ RuneAt(t, i) = <<t[i]>>
    OBVIOUS
  <2>2. t[i] \in Nat /\ t[i] < 128 /\ ~Lead(t, i) /\ ~Rest(t, i)
    BY <1>1, <2>1, Zenon DEF Lead, Rest
  <2> QED
    BY <2>2, Zenon DEF RuneAt
<1>3. q \in Seq(Seq(Nat)) /\ Len(q) = Len(t) /\ \A i \in 1 .. Len(t) : q[i] = <<t[i]>>
  <2> DEFINE n == Len(t)
  <2>1. q \in [1 .. n -> Seq(Nat)] /\ n \in Nat /\ \A i \in 1 .. n : q[i] = <<t[i]>>
    <3>1. \A i \in 1 .. n : RuneAt(t, i) \in Seq(Nat)
      <4>1. \A x \in Nat : <<x>> \in Seq(Nat)
        OBVIOUS
      <4> QED
        BY <1>2, <4>1, Zenon
    <3> QED
      BY <1>1, <1>2, <3>1, Zenon
  <2> HIDE DEF q, n
  <2>2. q \in Seq(Seq(Nat)) /\ Len(q) = n
    BY <2>1
  <2> QED
    BY <2>1, <2>2 DEF n
<1> HIDE DEF q
<1>4. CASE t = <<>>
  <2>1. Len(q) = 0 /\ q = <<>>
    BY <1>3, <1>4
  <2> QED
    BY <1>4, <2>1, Zenon DEF Runes, FlattenSeq, q
<1>5. CASE t # <<>>
  <2>1. Len(t) \in 1 .. Len(q)
    BY <1>1, <1>3, <1>5
  <2>2. Begins(FlattenSeq(q), t, Len(t)) /\ Len(FlattenSeq(q)) = Len(t)
    BY <1>2, <1>3, <2>1, FlattenOnes
  <2>3. Runes(t) = FlattenSeq(q)
    BY DEF Runes, q
  <2> DEFINE r == FlattenSeq(q)
  <2> HIDE DEF r
  <2>4. r \in Seq(Nat) /\ t \in Seq(Nat) /\ Len(r) = Len(t) /\ \A i \in 1 .. Len(r) : r[i] = t[i]
    <3>1. Ascii \subseteq Nat
      BY DEF Ascii
    <3>2. t \in Seq(Nat)
      BY <3>1, SeqMonotonic, Zenon
    <3> QED
      BY <2>2, <3>2, Zenon DEF Begins, r
  <2>5. r = t
    BY <2>4, SeqEqual, Zenon
  <2> QED
    BY <2>3, <2>5 DEF r
<1> QED
  BY <1>4, <1>5

(* What DecXOR returns, by what its decrypted bytes begin with.            *)
LEMMA DecXORIs ==
  ASSUME NEW c, NEW key, NEW r, NEW n, NEW text,
         r = FlattenSeq(Chars(c, key)), n = r[1] + 1, text = Runes(SubSeq(r, 2, n)),
         n # Len(c)
  PROVE  /\ DecXOR(c, key).outcome # "panics"
         /\ HasControl(n, c) /\ controlNum(text) = c[n + 1] =>
              DecXOR(c, key) = [outcome |-> "opens", text |-> text]
<1>1. DecXOR(c, key) =
        CASE n = Len(c) -> [outcome |-> "panics", text |-> <<>>]
          [] HasControl(n, c) /\ controlNum(text) = c[n + 1] -> [outcome |-> "opens", text |-> text]
          [] OTHER -> [outcome |-> "fails", text |-> <<>>]
  BY Zenon DEF DecXOR, Chars, KeyAt
<1> QED
  BY <1>1

(* DecXOR gives back what EncXOR encrypted with the same key, for every    *)
(* text of ASCII of up to 127 bytes, whose length is itself one byte, and  *)
(* every key (utils.go:365-413).                                           *)
THEOREM DecUndoesEnc ==
  ASSUME NEW t \in ShortTexts, NEW key \in Keys
  PROVE  DecXOR(EncXOR(t, key), key) = [outcome |-> "opens", text |-> t]
<1> DEFINE c == EncXOR(t, key)
           q == Chars(c, key)
           m == Len(t) + 1
           s == Plain(t)
           r == FlattenSeq(q)
<1>1. PICK S : c \in Seq(S)
  BY Encrypted
<1>2. /\ Len(t) + 2 <= Len(c)
      /\ \A i \in 1 .. m : c[i] = Xor(s[i], KeyAt(key, i))
      /\ c[Len(t) + 2] = controlNum(t)
  BY Encrypted
<1>3. /\ s \in Seq(Ascii) /\ Len(s) = m /\ Len(t) \in 0 .. 127
      /\ s[1] = Len(t) /\ \A i \in 1 .. Len(t) : s[i + 1] = t[i]
  BY PlainIs
<1>4. \A i \in 1 .. m : s[i] \in Ascii
  BY <1>3, ElementOfSeq, Zenon
<1> HIDE DEF c, s
<1>5. Len(c) \in Nat /\ DOMAIN c = 1 .. Len(c) /\ q \in Seq(Seq(Nat)) /\ Len(q) = Len(c)
  BY <1>1, LenProperties, CharsTyped, Zenon
<1>6. m \in Nat \ {0} /\ m \in 1 .. Len(c) /\ m + 1 = Len(t) + 2 /\ m < Len(c) /\ m # Len(c)
  <2>1. \A x \in 0 .. 127, y \in Nat : x + 2 <= y =>
          x + 1 \in Nat \ {0} /\ x + 1 \in 1 .. y /\ (x + 1) + 1 = x + 2 /\ x + 1 < y /\ x + 1 # y
    OBVIOUS
  <2> QED
    BY <1>2, <1>3, <1>5, <2>1, Zenon
<1>7. \A i \in 1 .. m : s[i] \in Nat /\ q[i] = <<s[i]>>
  <2> SUFFICES ASSUME NEW i \in 1 .. m
               PROVE  s[i] \in Nat /\ q[i] = <<s[i]>>
    OBVIOUS
  <2>1. i \in 1 .. Len(c) /\ i \in Nat \ {0}
    <3>1. \A j, l \in Nat : \A a \in 1 .. j : j \in 1 .. l => a \in 1 .. l /\ a \in Nat \ {0}
      OBVIOUS
    <3> QED
      BY <1>5, <1>6, <3>1
  <2>2. q[i] = Utf8(Xor(Xor(s[i], KeyAt(key, i)), KeyAt(key, i)))
    BY <1>2, <1>5, <2>1, Zenon DEF Chars
  <2>3. s[i] \in 0 .. 255 /\ s[i] \in Nat
    <3>1. \A x \in Ascii : x \in 0 .. 255 /\ x \in Nat
      BY DEF Ascii
    <3> QED
      BY <1>4, <3>1, Zenon
  <2>4. KeyAt(key, i) \in 0 .. 255
    BY <2>1, KeyByte, Zenon
  <2>5. Xor(Xor(s[i], KeyAt(key, i)), KeyAt(key, i)) = s[i]
    BY <2>3, <2>4, XorBack, Zenon
  <2> QED
    BY <1>4, <2>2, <2>3, <2>5, Utf8Is, Zenon
<1> HIDE DEF q
<1>8. Begins(r, s, m)
  BY <1>5, <1>6, <1>7, FlattenOnes
<1> HIDE DEF r
<1>9. r[1] + 1 = m
  <2>1. 1 \in 1 .. m
    BY <1>6
  <2> QED
    BY <1>3, <1>8, <2>1, Zenon DEF Begins
<1> DEFINE u == SubSeq(r, 2, m)
<1>10. u = t
  <2>1. t \in Seq(Ascii)
    BY DEF ShortTexts
  <2>2. \A i \in 2 .. m : r[i] \in Ascii
    <3>1. \A i \in 2 .. m : i \in 1 .. m
      BY <1>6
    <3> QED
      BY <1>4, <1>8, <3>1, Zenon DEF Begins
  <2>3. 2 \in Int /\ m \in Int /\ (IF 2 <= m THEN m - 2 + 1 ELSE 0) = Len(t) /\ m - 2 + 1 = Len(t)
    <3>1. \A x \in 0 .. 127 : LET y == x + 1
                              IN 2 \in Int /\ y \in Int /\ (IF 2 <= y THEN y - 2 + 1 ELSE 0) = x /\ y - 2 + 1 = x
      OBVIOUS
    <3> QED
      BY <1>3, <3>1, Zenon
  <2> HIDE DEF m
  <2>4. u \in Seq(Ascii) /\ Len(u) = Len(t) /\ \A i \in 1 .. Len(t) : u[i] = r[2 + i - 1]
    BY <2>2, <2>3, SubSeqProperties
  <2>5. \A i \in 1 .. Len(t) : 2 + i - 1 = i + 1 /\ i + 1 \in 1 .. m
    <3>1. \A x \in 0 .. 127 : \A i \in 1 .. x : 2 + i - 1 = i + 1 /\ i + 1 \in 1 .. (x + 1)
      OBVIOUS
    <3> QED
      BY <1>3, <3>1, Zenon DEF m
  <2>6. \A i \in 1 .. Len(t) : u[i] = t[i]
    BY <1>3, <1>8, <2>4, <2>5, Zenon DEF Begins
  <2> HIDE DEF u
  <2> QED
    BY <2>1, <2>4, <2>6, SeqEqual, Zenon
<1>11. Runes(u) = t
  BY <1>10, RunesOfAscii, Zenon DEF ShortTexts
<1>12. HasControl(m, c) /\ controlNum(t) = c[m + 1]
  BY <1>2, <1>6, Zenon DEF HasControl
<1> HIDE DEF m
<1> QED
  BY <1>6, <1>9, <1>11, <1>12, DecXORIs, Zenon DEF r, q, c

(* The cipher of a text of six letters has 40 bytes.  It leads DecXOR past *)
(* its end only with an identifier that makes its first byte 39.           *)
LEMMA PastTheEnd ==
  ASSUME NEW t \in ShortTexts, Len(t) = 6, NEW key \in Keys, NEW other \in Keys,
         DecXOR(EncXOR(t, key), other).outcome = "panics"
  PROVE  Xor(key[1], other[1]) = 33
<1> DEFINE c == EncXOR(t, key)
           q == Chars(c, other)
           b == Xor(c[1], other[1])
           r == FlattenSeq(q)
<1>1. PICK S : c \in Seq(S)
  BY Encrypted
<1>2. Len(c) = 40 /\ \A i \in 1 .. Len(t) + 1 : c[i] = Xor(Plain(t)[i], KeyAt(key, i))
  BY Encrypted
<1>3. Plain(t)[1] = 6 /\ KeyAt(key, 1) = key[1] /\ KeyAt(other, 1) = other[1]
  <2>1. 1 \in Nat \ {0}
    OBVIOUS
  <2> QED
    BY <2>1, PlainIs, KeyByte, Zenon
<1> HIDE DEF c
<1>4. DOMAIN c = 1 .. 40 /\ q \in Seq(Seq(Nat)) /\ Len(q) = 40
  BY <1>1, <1>2, LenProperties, CharsTyped, Zenon
<1>5. b = Xor(Xor(6, key[1]), other[1])
  <2>1. 1 \in 1 .. Len(t) + 1
    BY <1>1
  <2> QED
    BY <1>2, <1>3, <2>1, Zenon
<1>6. b \in 0 .. 255
  BY XorByte
<1>7. q[1] = Utf8(b)
  <2>1. 1 \in 1 .. 40
    OBVIOUS
  <2> QED
    BY <1>3, <1>4, <2>1, Zenon DEF Chars, b
<1> HIDE DEF q, b
<1>8. q[1] # <<>> /\ q[1][1] = IF b < 128 THEN b ELSE 192 + (b \div 64)
  <2>1. \A x \in 0 .. 255 : Utf8(x) # <<>> /\ Utf8(x)[1] = IF x < 128 THEN x ELSE 192 + (x \div 64)
    BY DEF Utf8
  <2> QED
    BY <1>6, <1>7, <2>1, Zenon
<1>9. r[1] = q[1][1]
  <2>1. q # <<>>
    <3>1. Len(<<>>) # 40
      OBVIOUS
    <3> QED
      BY <1>4, <3>1, Zenon
  <2> QED
    BY <1>4, <1>8, <2>1, FlattenFirst
<1> HIDE DEF r
<1>10. r[1] + 1 = 40
  <2> DEFINE n == r[1] + 1
             text == Runes(SubSeq(r, 2, n))
  <2>1. r = FlattenSeq(Chars(c, other)) /\ n = r[1] + 1 /\ text = Runes(SubSeq(r, 2, n))
    BY Zenon DEF r, q
  <2>2. DecXOR(c, other).outcome = "panics"
    BY DEF c
  <2> HIDE DEF n, text
  <2>3. n = Len(c)
    BY <2>1, <2>2, DecXORIs, Zenon
  <2> QED
    BY <1>2, <2>3 DEF n
<1>11. b = 39
  <2>1. \A x \in 0 .. 255 : \A y : y = (IF x < 128 THEN x ELSE 192 + (x \div 64)) /\ y + 1 = 40 => x = 39
    OBVIOUS
  <2>2. b \in 0 .. 255 /\ r[1] = (IF b < 128 THEN b ELSE 192 + (b \div 64)) /\ r[1] + 1 = 40
    BY <1>6, <1>8, <1>9, <1>10
  <2> QED
    BY <2>1, <2>2
<1>12. key[1] \in 0 .. 255 /\ other[1] \in 0 .. 255
  <2>1. 1 \in Nat \ {0}
    OBVIOUS
  <2>2. KeyAt(key, 1) \in 0 .. 255 /\ KeyAt(other, 1) \in 0 .. 255
    BY <2>1, KeyByte
  <2> QED
    BY <1>3, <2>2, Zenon
<1> QED
  BY <1>5, <1>11, <1>12, XorLengths

-----------------------------------------------------------------------------
(* A handler encrypts with an identifier it was given, and a password.     *)
Prepared ==
  \A h \in Handlers :
    /\ pc[h] \in {"auth", "generate", "renew"} => pid \in Pids
    /\ pc[h] \in {"setClean", "setPass"} => given[h] \in Texts

TInv == TypeOK /\ Prepared

(* While handlers run one at a time, what the one that runs finds: where   *)
(* it has set a password and not saved it yet, options.cfg may differ.     *)
One == \A h, k \in Handlers : pc[h] # "idle" /\ pc[k] # "idle" => h = k

ClearKnown ==
  \/ clean = NoText
  \/ pass # None /\ (clean = pass.text \/ \E k \in Pids : clean \in OpenedAs(pass, k))

Agreed == unsaved \/ Loaded(file) = pass
Saved == (\A h \in Handlers : pc[h] \notin {"create", "write", "remove"}) => Agreed
Clear == (\A h \in Handlers : pc[h] # "setPass") => ClearKnown

Found(h) ==
  /\ pc[h] = "write" => file = Empty
  /\ pc[h] = "setPass" => clean = given[h]
  /\ pc[h] = "remove" => pass = None /\ clean = NoText
  /\ pc[h] = "generate" => pass = None /\ clean = NoText
  /\ pc[h] = "renew" => clean = NoText
  /\ pc[h] = "store" => pass # None /\ \E k \in Pids : decoded[h] \in OpenedAs(pass, k)

Apart == One /\ Saved /\ Clear /\ \A h \in Handlers : Found(h)

CInv == TInv /\ (life = "up" /\ ~overlap => Apart)

-----------------------------------------------------------------------------
(* What a cipher opens as is a password of the type, and no password opens *)
(* as nothing.                                                             *)
LEMMA OpenedTyped ==
  /\ \A c, k : OpenedAs(c, k) \subseteq Passwords
  /\ \A k : OpenedAs(None, k) = {}
<1>1. ASSUME NEW c, NEW k, NEW t \in OpenedAs(c, k)
      PROVE  t \in Passwords /\ c \in Ciphers
  <2>1. PICK r \in Readings : r.cipher = c /\ r.got.text = t
    BY <1>1 DEF OpenedAs, Got
  <2>2. r.cipher \in Ciphers
    BY DEF Readings
  <2> QED
    BY <2>1, <2>2 DEF Passwords
<1>2. None \notin Ciphers
  BY PidsAssumption DEF None, Ciphers, NoPid
<1> QED
  BY <1>1, <1>2

LEMMA LoadedTyped ==
  ASSUME TypeOK
  PROVE  Loaded(file) \in Ciphers \cup {None}
  BY DEF TypeOK, Loaded, Unreadable

LEMMA InitTInv == Init => TInv
<1> SUFFICES ASSUME Init
             PROVE  TInv
  OBVIOUS
<1>1. /\ pc = [h \in Handlers |-> "idle"] /\ after = [h \in Handlers |-> "idle"]
      /\ given = [h \in Handlers |-> NoText] /\ decoded = [h \in Handlers |-> NoText]
  BY DEF Init, Everybody
<1>2. TypeOK
  <2>1. /\ life = "down" /\ overlap = FALSE /\ pid = NoPid /\ pass = None /\ clean = NoText
        /\ file = Absent /\ unsaved = FALSE /\ messages = 0 /\ starts = 0
    BY DEF Init
  <2>2. messages \in 0 .. MaxMessages /\ starts \in 0 .. MaxStarts
    BY <2>1, BoundsAssumption
  <2> QED
    BY <1>1, <2>1, <2>2 DEF TypeOK, Labels
<1>3. Prepared
  BY <1>1 DEF Prepared
<1> QED
  BY <1>2, <1>3 DEF TInv

(* A message begins a handler's work and leaves the others' alone.         *)
LEMMA MessageTyped ==
  ASSUME TInv, NEW h \in Handlers, NEW l \in Labels, Message(h, l)
  PROVE  /\ life' = life /\ UNCHANGED <<file, unsaved>> /\ decoded' = decoded /\ overlap' \in BOOLEAN
         /\ pc' \in [Handlers -> Labels] /\ messages' \in 0 .. MaxMessages /\ starts' = starts
         /\ pc'[h] = l /\ \A k \in Handlers : k # h => pc'[k] = pc[k]
  BY BoundsAssumption DEF TInv, TypeOK, Message, Step, disk

LEMMA ArriveTInv ==
  ASSUME TInv, NEW h \in Handlers, Arrive(h)
  PROVE  TInv'
<1>1. CASE \E p \in Pids : processAuth(h, p)
  <2>1. PICK p \in Pids : processAuth(h, p)
    BY <1>1
  <2>2. Message(h, "auth") /\ pid' = p /\ UNCHANGED <<pass, clean, given, after>>
    BY <2>1 DEF processAuth
  <2> QED
    BY <2>2, MessageTyped DEF TInv, TypeOK, Prepared, Labels
<1>2. CASE \E t \in Texts : LocalInfoSet(h, t)
  <2>1. PICK t \in Texts : LocalInfoSet(h, t)
    BY <1>2
  <2>2. /\ Message(h, "setClean") /\ given' = [given EXCEPT ![h] = t]
        /\ UNCHANGED <<pid, pass, clean, after>>
    BY <2>1 DEF LocalInfoSet, memory
  <2> QED
    BY <2>2, MessageTyped DEF TInv, TypeOK, Prepared, Labels
<1>3. CASE LocalInfoGet(h)
  BY <1>3, MessageTyped DEF LocalInfoGet, memory, disk, TInv, TypeOK, Prepared, Labels
<1>4. CASE OtherSave(h)
  BY <1>4, MessageTyped DEF OtherSave, memory, disk, TInv, TypeOK, Prepared, Labels
<1>5. CASE OptionClear(h)
  BY <1>5, MessageTyped DEF OptionClear, TInv, TypeOK, Prepared, Labels
<1> QED
  BY <1>1, <1>2, <1>3, <1>4, <1>5 DEF Arrive

LEMMA StepTyped ==
  ASSUME TInv, NEW h \in Handlers, NEW l, NEW m \in Labels, Step(h, l, m)
  PROVE  /\ pc' \in [Handlers -> Labels] /\ pc[h] = l
         /\ pc'[h] = m /\ \A k \in Handlers : k # h => pc'[k] = pc[k]
  BY DEF TInv, TypeOK, Step

LEMMA PassTyped ==
  ASSUME NEW t \in Texts, pid \in Pids
  PROVE  [text |-> t, key |-> pid] \in Ciphers
  BY DEF Ciphers

LEMMA HandleTInv ==
  ASSUME TInv, NEW h \in Handlers, Handle(h)
  PROVE  TInv'
<1>0. \A t \in Random : t \in Texts
  BY TextsAssumption
<1>1. CASE AuthPass(h)
  <2>1. PICK m \in {"generate", "get"} : Step(h, "auth", m)
    BY <1>1 DEF AuthPass
  <2>2. m \in Labels
    BY DEF Labels
  <2> QED
    BY <1>1, <2>1, <2>2, StepTyped
       DEF AuthPass, process, memory, disk, locals, TInv, TypeOK, Prepared
<1>2. CASE SetClean(h)
  <2>1. Step(h, "setClean", "setPass") /\ "setPass" \in Labels
    BY <1>2 DEF SetClean, Labels
  <2>2. given[h] \in Texts /\ given[h] \in Passwords
    BY <2>1, StepTyped DEF TInv, Prepared, Passwords
  <2> QED
    BY <1>2, <2>1, <2>2, StepTyped DEF SetClean, process, disk, locals, TInv, TypeOK, Prepared
<1>3. CASE SetPass(h)
  <2>1. Step(h, "setPass", "create") /\ "create" \in Labels
    BY <1>3 DEF SetPass, Labels
  <2>2. given[h] \in Texts /\ pid \in Pids
    BY <1>3, <2>1, StepTyped DEF SetPass, TInv, TypeOK, Prepared
  <2>3. pass' \in Ciphers
    BY <1>3, <2>2, PassTyped DEF SetPass
  <2> QED
    BY <1>3, <2>1, <2>3, StepTyped DEF SetPass, process, disk, TInv, TypeOK, Prepared
<1>4. CASE EncPanics(h) \/ GetPanics(h)
  <2>1. /\ life' = "crashed"
        /\ UNCHANGED <<overlap, messages, starts, memory, disk, pc, locals>>
    BY <1>4 DEF EncPanics, GetPanics, Panic
  <2> QED
    BY <2>1 DEF memory, disk, locals, TInv, TypeOK, Prepared
<1>5. ASSUME NEW t \in Random, Generate(h, t) \/ Renew(h, t)
      PROVE  TInv'
  <2>1. PICK l \in {"generate", "renew"} : Step(h, l, "create")
    BY <1>5 DEF Generate, Renew
  <2>2. "create" \in Labels
    BY DEF Labels
  <2>3. pid \in Pids
    BY <2>1, <2>2, StepTyped DEF TInv, Prepared
  <2>4. /\ pass' = [text |-> t, key |-> pid] /\ after' = [after EXCEPT ![h] = "get"]
        /\ UNCHANGED <<process, pid, clean, disk, given, decoded>>
    BY <1>5 DEF Generate, Renew
  <2>5. pass' \in Ciphers
    BY <1>0, <2>3, <2>4, PassTyped
  <2> QED
    BY <2>1, <2>2, <2>4, <2>5, StepTyped DEF process, disk, TInv, TypeOK, Prepared
<1>6. CASE CreateFile(h)
  <2>1. Step(h, "create", "write") /\ "write" \in Labels
    BY <1>6 DEF CreateFile, Labels
  <2> QED
    BY <1>6, <2>1, StepTyped DEF CreateFile, process, memory, disk, locals, TInv, TypeOK, Prepared
<1>7. CASE WriteFile(h)
  <2>1. Step(h, "write", after[h]) /\ after[h] \in Labels /\ after[h] \in {"idle", "get"}
    BY <1>7 DEF WriteFile, Labels, TInv, TypeOK
  <2>2. file' \in {pass, Absent, Torn}
    BY <1>7 DEF WriteFile
  <2> QED
    BY <1>7, <2>1, <2>2, StepTyped DEF WriteFile, process, memory, TInv, TypeOK, Prepared
<1>13. ASSUME NEW l \in {"create", "write"}, SaveFails(h, l), file' \in {file, Absent, Torn}
       PROVE  TInv'
  <2>1. Step(h, l, after[h]) /\ after[h] \in Labels /\ after[h] \in {"idle", "get"}
    BY <1>13 DEF SaveFails, Labels, TInv, TypeOK
  <2> QED
    BY <1>13, <2>1, StepTyped DEF SaveFails, process, memory, TInv, TypeOK, Prepared
<1>8. CASE RemoveFile(h)
  <2>1. Step(h, "remove", "idle") /\ "idle" \in Labels
    BY <1>8 DEF RemoveFile, Labels
  <2>2. file' \in {Absent, file} /\ unsaved' \in BOOLEAN
    BY <1>8 DEF RemoveFile
  <2> QED
    BY <1>8, <2>1, <2>2, StepTyped DEF RemoveFile, process, memory, locals, TInv, TypeOK, Prepared
<1>9. CASE GetClean(h)
  <2>1. Step(h, "get", "idle") /\ "idle" \in Labels
    BY <1>9 DEF GetClean, Labels
  <2> QED
    BY <1>9, <2>1, StepTyped DEF GetClean, process, memory, disk, locals, TInv, TypeOK, Prepared
<1>10. CASE GetDecoded(h)
  <2>1. Step(h, "get", "store") /\ "store" \in Labels
    BY <1>10 DEF GetDecoded, Labels
  <2>2. PICK t \in Passwords : decoded' = [decoded EXCEPT ![h] = t]
    BY <1>10, OpenedTyped DEF GetDecoded
  <2> QED
    BY <1>10, <2>1, <2>2, StepTyped DEF GetDecoded, process, memory, disk, TInv, TypeOK, Prepared
<1>11. CASE Store(h)
  <2>1. Step(h, "store", "idle") /\ "idle" \in Labels
    BY <1>11 DEF Store, Labels
  <2> QED
    BY <1>11, <2>1, StepTyped DEF Store, process, disk, TInv, TypeOK, Prepared
<1>12. CASE GetFails(h)
  <2>1. Step(h, "get", "renew") /\ "renew" \in Labels
    BY <1>12 DEF GetFails, Labels
  <2>2. pid \in Pids
    BY <1>12 DEF GetFails, Unready, TInv, TypeOK
  <2> QED
    BY <1>12, <2>1, <2>2, StepTyped
       DEF GetFails, process, memory, disk, locals, TInv, TypeOK, Prepared
<1> QED
  BY <1>1, <1>2, <1>3, <1>4, <1>5, <1>6, <1>7, <1>8, <1>9, <1>10, <1>11, <1>12, <1>13
     DEF Handle, CreateFails, WriteFails

LEMMA NextTInv == TInv /\ [Next]_vars => TInv'
<1> SUFFICES ASSUME TInv, [Next]_vars
             PROVE  TInv'
  OBVIOUS
<1>1. ASSUME Fresh
      PROVE  Prepared' /\ /\ pc' \in [Handlers -> Labels]
                          /\ given' \in [Handlers -> Texts \cup {NoText}]
                          /\ decoded' \in [Handlers -> Passwords \cup {NoText}]
                          /\ after' \in [Handlers -> {"idle", "get"}]
  BY <1>1 DEF Fresh, Everybody, Prepared, Labels
<1>2. ASSUME NEW flag \in BOOLEAN, Start(flag)
      PROVE  TInv'
  <2>1. pass' \in Ciphers \cup {None}
    BY <1>2, LoadedTyped DEF Start, TInv
  <2>2. /\ file' \in {Absent, file} /\ unsaved' = FALSE /\ Fresh /\ overlap' = overlap
        /\ life' \in {"up", "crashed"} /\ pid' = NoPid /\ clean' = NoText
    BY <1>2 DEF Start
  <2>3. messages' \in 0 .. MaxMessages /\ starts' \in 0 .. MaxStarts
    BY <1>2, BoundsAssumption DEF Start, TInv, TypeOK
  <2> QED
    BY <1>1, <2>1, <2>2, <2>3 DEF TInv, TypeOK
<1>3. CASE Stop
  <2>1. /\ Fresh /\ life' = "down" /\ pid' = NoPid /\ pass' = None /\ clean' = NoText
        /\ UNCHANGED <<overlap, messages, starts, file, unsaved>>
    BY <1>3 DEF Stop, disk
  <2> QED
    BY <1>1, <2>1 DEF TInv, TypeOK
<1>4. CASE UNCHANGED vars
  BY <1>4 DEF vars, process, memory, disk, locals, TInv, TypeOK, Prepared
<1> QED
  BY <1>2, <1>3, <1>4, ArriveTInv, HandleTInv DEF Next

-----------------------------------------------------------------------------
(* A step of the one handler that runs: what it leaves at its new place is *)
(* all there is to see.                                                    *)
LEMMA ApartStep ==
  ASSUME TInv, NEW h \in Handlers, NEW m,
         \A k \in Handlers : k # h => pc[k] = "idle",
         pc' = [pc EXCEPT ![h] = m],
         m \notin {"create", "write", "remove"} => Agreed',
         m # "setPass" => ClearKnown',
         Found(h)'
  PROVE  Apart'
<1>1. pc'[h] = m /\ \A k \in Handlers : k # h => pc'[k] = "idle"
  BY DEF TInv, TypeOK
<1>2. One'
  BY <1>1 DEF One
<1>3. Saved' /\ Clear'
  BY <1>1 DEF Saved, Clear
<1>4. \A k \in Handlers : Found(k)'
  BY <1>1 DEF Found
<1> QED
  BY <1>2, <1>3, <1>4 DEF Apart

(* A handler that begins finds everything at rest.                         *)
LEMMA ArriveApart ==
  ASSUME CInv, NEW h \in Handlers, Arrive(h), ~overlap'
  PROVE  Apart'
<1>1. PICK m \in {"auth", "setClean", "get", "create", "remove"} :
        /\ Message(h, m)
        /\ m # "remove" => pass' = pass /\ clean' = clean
        /\ m = "remove" => pass' = None /\ clean' = NoText
  BY DEF Arrive, processAuth, LocalInfoSet, LocalInfoGet, OtherSave, OptionClear, memory, disk
<1>2. /\ life = "up" /\ ~overlap /\ UNCHANGED <<file, unsaved>> /\ pc' = [pc EXCEPT ![h] = m]
      /\ pc[h] = "idle" /\ \A k \in Handlers : k # h => pc[k] = "idle"
  BY <1>1 DEF Message, Step, disk
<1>3. TInv /\ Agreed /\ ClearKnown
  BY <1>2 DEF CInv, Apart, Saved, Clear
<1>4. m # "remove" => Agreed'
  BY <1>1, <1>2, <1>3 DEF Agreed, Loaded
<1>5. ClearKnown'
  BY <1>1, <1>3 DEF ClearKnown
<1>6. Found(h)'
  <2>1. pc'[h] = m
    BY <1>2, <1>3 DEF TInv, TypeOK
  <2> QED
    BY <1>1, <2>1 DEF Found
<1> QED
  BY <1>2, <1>3, <1>4, <1>5, <1>6, ApartStep

LEMMA HandleApart ==
  ASSUME CInv, TInv', NEW h \in Handlers, Handle(h), ~overlap', life' = "up"
  PROVE  Apart'
<1>1. life = "up" /\ overlap' = overlap /\ pc[h] # "idle"
  BY DEF Handle, AuthPass, SetClean, SetPass, EncPanics, Generate, Renew, CreateFile,
         WriteFile, CreateFails, WriteFails, SaveFails, RemoveFile, GetClean, GetDecoded, Store, GetFails, GetPanics, Panic,
         Step, process
<1>2. TInv /\ TypeOK /\ One /\ Saved /\ Clear /\ Found(h)
  BY <1>1 DEF CInv, TInv, Apart
<1>3. \A k \in Handlers : k # h => pc[k] = "idle"
  BY <1>1, <1>2 DEF One
<1>4. pc[h] \notin {"create", "write", "remove"} => Agreed
  BY <1>3, <1>2 DEF Saved
<1>5. pc[h] # "setPass" => ClearKnown
  BY <1>3, <1>2 DEF Clear
<1>6. ASSUME NEW l, NEW m, Step(h, l, m)
      PROVE  pc[h] = l /\ pc'[h] = m /\ pc' = [pc EXCEPT ![h] = m]
  BY <1>2, <1>6 DEF Step, TypeOK
<1>7. CASE AuthPass(h)
  <2>1. PICK m : Step(h, "auth", m) /\ m = IF pass = None THEN "generate" ELSE "get"
    BY <1>7 DEF AuthPass
  <2>2. UNCHANGED <<file, unsaved, pass, clean>>
    BY <1>7 DEF AuthPass, memory, disk
  <2>3. Agreed' /\ ClearKnown /\ ClearKnown'
    BY <1>4, <1>5, <1>6, <2>1, <2>2 DEF Agreed, Loaded, ClearKnown
  <2>4. Found(h)'
    BY <1>6, <2>1, <2>2, <2>3 DEF Found, ClearKnown
  <2> QED
    BY <1>2, <1>3, <1>6, <2>1, <2>3, <2>4, ApartStep
<1>8. CASE SetClean(h)
  <2>1. /\ Step(h, "setClean", "setPass") /\ clean' = given[h]
        /\ UNCHANGED <<file, unsaved, pass, given>>
    BY <1>8 DEF SetClean, disk, locals
  <2>2. Agreed'
    BY <1>4, <1>6, <2>1 DEF Agreed, Loaded
  <2>3. Found(h)'
    BY <1>6, <2>1 DEF Found
  <2> QED
    BY <1>2, <1>3, <1>6, <2>1, <2>2, <2>3, ApartStep
<1>9. CASE SetPass(h)
  <2>1. /\ Step(h, "setPass", "create") /\ pass' = [text |-> given[h], key |-> pid]
        /\ clean' = clean
    BY <1>9 DEF SetPass
  <2>2. clean = given[h] /\ given[h] \in Texts
    BY <1>2, <1>6, <2>1 DEF Found, TInv, Prepared
  <2>3. pass'.text = clean' /\ pass' # None
    BY <1>2, <1>9, <2>1, <2>2 DEF SetPass, None, TypeOK
  <2>4. ClearKnown'
    BY <2>3 DEF ClearKnown
  <2>5. Found(h)'
    BY <1>6, <2>1 DEF Found
  <2> QED
    BY <1>2, <1>3, <1>6, <2>1, <2>4, <2>5, ApartStep
<1>10. ASSUME NEW t \in Random, Generate(h, t) \/ Renew(h, t)
       PROVE  Apart'
  <2>1. PICK l \in {"generate", "renew"} : Step(h, l, "create") /\ clean' = clean
    BY <1>10 DEF Generate, Renew
  <2>2. clean = NoText
    BY <1>2, <1>6, <2>1 DEF Found
  <2>3. ClearKnown'
    BY <2>1, <2>2 DEF ClearKnown
  <2>4. Found(h)'
    BY <1>6, <2>1 DEF Found
  <2> QED
    BY <1>2, <1>3, <1>6, <2>1, <2>3, <2>4, ApartStep
<1>11. CASE CreateFile(h)
  <2>1. Step(h, "create", "write") /\ file' = Empty /\ UNCHANGED <<pass, clean>>
    BY <1>11 DEF CreateFile, memory, disk
  <2>2. ClearKnown'
    BY <1>5, <1>6, <2>1 DEF ClearKnown
  <2>3. Found(h)'
    BY <1>6, <2>1 DEF Found
  <2> QED
    BY <1>2, <1>3, <1>6, <2>1, <2>2, <2>3, ApartStep
<1>12. CASE WriteFile(h)
  <2>1. PICK m \in {"idle", "get"} : Step(h, "write", m) /\ UNCHANGED <<pass, clean>>
    BY <1>2, <1>12 DEF WriteFile, TypeOK, memory, disk
  <2>2. file = Empty
    BY <1>2, <1>6, <2>1 DEF Found
  <2>3. file' = pass /\ unsaved' = FALSE
    BY <1>12, <2>2, FilesAssumption DEF WriteFile
  <2>4. Agreed'
    BY <1>2, <2>1, <2>3, FilesAssumption DEF Agreed, Loaded, Unreadable, TypeOK
  <2>5. ClearKnown'
    BY <1>5, <1>6, <2>1 DEF ClearKnown
  <2>6. Found(h)'
    BY <1>6, <2>1 DEF Found
  <2> QED
    BY <1>2, <1>3, <1>6, <2>1, <2>4, <2>5, <2>6, ApartStep
<1>13. CASE RemoveFile(h)
  <2>1. /\ Step(h, "remove", "idle") /\ UNCHANGED <<pass, clean>>
        /\ file' \in {Absent, file} /\ unsaved' = (file' # Absent)
    BY <1>13 DEF RemoveFile, memory
  <2>2. pass = None
    BY <1>2, <1>6, <2>1 DEF Found
  <2>3. Agreed'
    BY <2>1, <2>2 DEF Agreed, Loaded, Unreadable
  <2>4. ClearKnown'
    BY <1>5, <1>6, <2>1 DEF ClearKnown
  <2>5. Found(h)'
    BY <1>6, <2>1 DEF Found
  <2> QED
    BY <1>2, <1>3, <1>6, <2>1, <2>3, <2>4, <2>5, ApartStep
<1>19. ASSUME NEW l \in {"create", "write"}, SaveFails(h, l)
       PROVE  Apart'
  <2>1. PICK m \in {"idle", "get"} : Step(h, l, m) /\ UNCHANGED <<pass, clean>> /\ unsaved' = TRUE
    BY <1>2, <1>19 DEF SaveFails, TypeOK, memory
  <2>2. Agreed'
    BY <2>1 DEF Agreed
  <2>3. ClearKnown'
    BY <1>5, <1>6, <2>1 DEF ClearKnown
  <2>4. Found(h)'
    BY <1>6, <2>1 DEF Found
  <2> QED
    BY <1>2, <1>3, <1>6, <2>1, <2>2, <2>3, <2>4, ApartStep
<1>14. CASE GetClean(h)
  <2>1. Step(h, "get", "idle") /\ UNCHANGED <<file, unsaved, pass, clean>>
    BY <1>14 DEF GetClean, memory, disk
  <2>2. Agreed' /\ ClearKnown'
    BY <1>4, <1>5, <1>6, <2>1 DEF Agreed, Loaded, ClearKnown
  <2>3. Found(h)'
    BY <1>6, <2>1 DEF Found
  <2> QED
    BY <1>2, <1>3, <1>6, <2>1, <2>2, <2>3, ApartStep
<1>15. CASE GetDecoded(h)
  <2>1. Step(h, "get", "store") /\ UNCHANGED <<file, unsaved, pass, clean>> /\ pid \in Pids
    BY <1>2, <1>15 DEF GetDecoded, memory, disk, Unready, TypeOK
  <2>2. PICK t \in OpenedAs(pass, pid) : decoded' = [decoded EXCEPT ![h] = t]
    BY <1>15 DEF GetDecoded
  <2>3. decoded'[h] = t /\ pass # None
    BY <1>2, <2>2, OpenedTyped DEF TypeOK
  <2>4. Agreed' /\ ClearKnown'
    BY <1>4, <1>5, <1>6, <2>1 DEF Agreed, Loaded, ClearKnown
  <2>5. Found(h)'
    BY <1>6, <2>1, <2>2, <2>3 DEF Found
  <2> QED
    BY <1>2, <1>3, <1>6, <2>1, <2>4, <2>5, ApartStep
<1>16. CASE Store(h)
  <2>1. Step(h, "store", "idle") /\ UNCHANGED <<file, unsaved, pass>> /\ clean' = decoded[h]
    BY <1>16 DEF Store, disk
  <2>2. pass # None /\ \E k \in Pids : decoded[h] \in OpenedAs(pass, k)
    BY <1>2, <1>6, <2>1 DEF Found
  <2>3. Agreed' /\ ClearKnown'
    BY <1>4, <1>6, <2>1, <2>2 DEF Agreed, Loaded, ClearKnown
  <2>4. Found(h)'
    BY <1>6, <2>1 DEF Found
  <2> QED
    BY <1>2, <1>3, <1>6, <2>1, <2>3, <2>4, ApartStep
<1>17. CASE GetFails(h)
  <2>1. Step(h, "get", "renew") /\ UNCHANGED <<file, unsaved, pass, clean>> /\ clean = NoText
    BY <1>17 DEF GetFails, memory, disk
  <2>2. Agreed' /\ ClearKnown'
    BY <1>4, <1>5, <1>6, <2>1 DEF Agreed, Loaded, ClearKnown
  <2>3. Found(h)'
    BY <1>6, <2>1 DEF Found
  <2> QED
    BY <1>2, <1>3, <1>6, <2>1, <2>2, <2>3, ApartStep
<1>18. CASE EncPanics(h) \/ GetPanics(h)
  BY <1>18 DEF EncPanics, GetPanics, Panic
<1> QED
  BY <1>7, <1>8, <1>9, <1>10, <1>11, <1>12, <1>13, <1>14, <1>15, <1>16, <1>17, <1>18, <1>19
     DEF Handle, CreateFails, WriteFails

LEMMA NextCInv == CInv /\ [Next]_vars => CInv'
<1> SUFFICES ASSUME CInv, [Next]_vars
             PROVE  CInv'
  OBVIOUS
<1>1. TInv'
  BY NextTInv DEF CInv
<1> SUFFICES ASSUME life' = "up", ~overlap'
             PROVE  Apart'
  BY <1>1 DEF CInv
<1>2. ASSUME NEW flag \in BOOLEAN, Start(flag)
      PROVE  Apart'
  <2>1. /\ \A h \in Handlers : pc'[h] = "idle"
        /\ pass' = Loaded(file) /\ Loaded(file)' = Loaded(file) /\ clean' = NoText /\ unsaved' = FALSE
    BY <1>2 DEF Start, Fresh, Everybody, Loaded, Unreadable
  <2>2. Agreed' /\ ClearKnown'
    BY <2>1 DEF Agreed, Loaded, ClearKnown
  <2> QED
    BY <2>1, <2>2 DEF Apart, One, Saved, Clear, Found
<1>3. CASE Stop
  BY <1>3 DEF Stop
<1>4. CASE UNCHANGED vars
  <2>1. UNCHANGED <<life, overlap, pass, clean, pid, file, unsaved, pc, given, decoded>>
    BY <1>4 DEF vars, process, memory, disk, locals
  <2>2. Loaded(file)' = Loaded(file) /\ (ClearKnown <=> ClearKnown')
    BY <2>1 DEF Agreed, Loaded, ClearKnown
  <2> QED
    BY <2>1, <2>2 DEF CInv, Apart, One, Saved, Agreed, Clear, Found
<1>5. ASSUME NEW h \in Handlers, Handle(h) \/ Arrive(h)
      PROVE  Apart'
  BY <1>1, <1>5, HandleApart, ArriveApart
<1> QED
  BY <1>2, <1>3, <1>4, <1>5 DEF Next

-----------------------------------------------------------------------------
(* Every variable keeps its type; what DecXOR returned stays a password.   *)
THEOREM TypeCorrect == Spec => []TypeOK
<1>1. TInv => TypeOK
  BY DEF TInv
<1> QED
  BY <1>1, InitTInv, NextTInv, PTL DEF Spec

(* As long as handlers ran one at a time the file, the encrypted and the   *)
(* clear password agree whenever none is at work, through every message,   *)
(* death of the process and restart (SaveOptions, SetPass, GetPass,        *)
(* processAuth), unless the last save failed.                              *)
THEOREM OnePassword == Spec => []CopiesAgree
<1>1. Init => CInv
  BY InitTInv DEF Init, CInv
<1>2. CInv => CopiesAgree
  BY DEF CInv, Apart, Saved, Agreed, Clear, ClearKnown, CopiesAgree, Idle
<1> QED
  BY <1>1, <1>2, NextCInv, PTL DEF Spec

(* A password the program generated is a short text.                       *)
LEMMA Generated ==
  ASSUME NEW t \in Random
  PROVE  t \in ShortTexts /\ Len(t) = 6
<1>1. t \in Seq(48 .. 89) /\ Len(t) = LengthPass
  BY RandomAssumption
<1>2. 48 .. 89 \subseteq Ascii
  BY DEF Ascii
<1>3. t \in Seq(Ascii)
  BY <1>1, <1>2, SeqMonotonic, Zenon
<1>4. LengthPass <= 127 /\ LengthPass = 6
  BY DEF LengthPass
<1> QED
  BY <1>1, <1>3, <1>4, Zenon DEF ShortTexts

(* An identifier is a key.                                                 *)
LEMMA PidsAreKeys == Pids \subseteq Keys
  BY PidsAssumption DEF Keys

(* GetPass encrypts with an identifier, whatever runs beside it; and of    *)
(* all the identifiers a server may assign, only one whose first byte      *)
(* differs from that of the one before in the bits of 33 makes it die of a *)
(* password the program generated: the cipher has 40 bytes, and its length *)
(* byte must decrypt to 39 (common.go:218, utils.go:381, 402).             *)
THEOREM GetPassStaysUp == Spec => []StaysUp
<1>1. TInv => StaysUp
  <2> SUFFICES ASSUME TInv
               PROVE  StaysUp
    OBVIOUS
  <2>1. \A h \in Handlers : pc[h] = "renew" => pid # NoPid
    BY PidsAssumption DEF TInv, Prepared, NoPid
  <2>2. ASSUME DecPanics(pass, pid), pass.text \in Random
        PROVE  Xor(pass.key[1], pid[1]) = 33
    <3>1. PICK r \in Readings : r.cipher = pass /\ r.key = pid /\ r.got.outcome = "panics"
      BY <2>2 DEF DecPanics, Got
    <3>2. PICK c \in Ciphers, k \in Pids :
            r = [cipher |-> c, key |-> k, got |-> DecXOR(EncXOR(c.text, c.key), k)]
      BY <3>1 DEF Readings
    <3>3. c = pass /\ k = pid /\ c.key \in Pids /\ DecXOR(EncXOR(c.text, c.key), k).outcome = "panics"
      BY <3>1, <3>2 DEF Ciphers
    <3>4. c.text \in ShortTexts /\ Len(c.text) = 6
      BY <2>2, <3>3, Generated
    <3>5. c.key \in Keys /\ k \in Keys
      BY <3>3, PidsAreKeys
    <3>6. Xor(c.key[1], k[1]) = 33
      BY <3>3, <3>4, <3>5, PastTheEnd, Zenon
    <3> QED
      BY <3>3, <3>6
  <2> QED
    BY <2>1, <2>2 DEF StaysUp
<1> QED
  BY <1>1, InitTInv, NextTInv, PTL DEF Spec

(* What the runs check on samples holds of every set of texts of ASCII and *)
(* every set of identifiers.                                               *)
THEOREM SamplesOpen == Spec => []RoundTrip
<1>1. RoundTrip
  <2> SUFFICES ASSUME NEW t \in Samples, NEW k \in Pids
               PROVE  DecXOR(EncXOR(t, k), k) = [outcome |-> "opens", text |-> t]
    BY DEF RoundTrip
  <2>1. t \in ShortTexts
    BY SamplesAssumption DEF ShortTexts, Ascii
  <2>2. k \in Keys
    BY PidsAreKeys
  <2> QED
    BY <2>1, <2>2, DecUndoesEnc
<1> QED
  BY <1>1, PTL
=============================================================================
