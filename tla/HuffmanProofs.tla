------------------------------ MODULE HuffmanProofs ------------------------------
(***************************************************************************)
(* Proofs about the Huffman codes, for any number of symbols and any width *)
(* of codewords.                                                           *)
(*                                                                         *)
(* The decoder's argument is one of room: Fills says how much of the code  *)
(* space the codewords up to each length take up.  As long as that does    *)
(* not exceed it, no first codeword wraps, the sentinel of a length is     *)
(* what is taken up to there, and the bits to be decoded fall between two  *)
(* neighbouring sentinels just when a codeword of the upper one's length   *)
(* begins them.                                                            *)
(*                                                                         *)
(* The compressor's is about the array that heap and links share: what is  *)
(* not yet a heap is a forest of links, whose roots are what the heap      *)
(* points to.  The links of the finished tree tell the depths, so the room *)
(* of its leaves is that of the root; and where all frequencies are 1 its  *)
(* levels are as even as can be, so that it is no deeper than it must be.  *)
(***************************************************************************)
EXTENDS Huffman, FiniteSetTheorems, SequenceTheorems, WellFoundedInduction, TLAPS

\* A set of naturals that has an element has a least one.
LEMMA LeastElement ==
    ASSUME NEW S, S \subseteq Nat, S # {}
    PROVE  \E m \in S : \A n \in S : m <= n
<1>1. PICK m \in S : \A n \in S : ~(<<n, m>> \in {ss \in Nat \X Nat : ss[1] < ss[2]})
  BY NatLessThanWellFounded, WFMin, Zenon DEF OpToRel
<1>2. \A n \in S : ~(n < m)
  BY <1>1
<1>. QED  BY <1>2

\* What holds of 0 and goes on from each number to the next holds up to n.
LEMMA Climb ==
    ASSUME NEW n \in Nat, NEW T, 0 \in T, \A j \in 0 .. n - 1 : j \in T => j + 1 \in T
    PROVE  \A i \in 0 .. n : i \in T
<1> DEFINE Bad == {i \in 0 .. n : i \notin T}
<1> SUFFICES ASSUME Bad # {} PROVE FALSE
  OBVIOUS
<1>1. Bad \subseteq Nat
  OBVIOUS
<1>2. PICK k \in Bad : \A j \in Bad : k <= j
  <2> HIDE DEF Bad
  <2>. QED  BY <1>1, LeastElement
<1>3. k - 1 \in 0 .. n - 1 /\ (k - 1) + 1 = k
  BY <1>2
<1>4. k - 1 \notin Bad
  <2> SUFFICES ASSUME k - 1 \in Bad PROVE FALSE
    OBVIOUS
  <2>1. k <= k - 1
    <3> HIDE DEF Bad
    <3>. QED  BY <1>2
  <2>. QED  BY <1>3, <2>1
<1>. QED  BY <1>2, <1>3, <1>4

LEMMA TimesNat == ASSUME NEW d \in Nat, NEW q \in Nat PROVE d * q \in Nat
  OBVIOUS

\* Division with remainder.
LEMMA DivMod ==
    ASSUME NEW a \in Nat, NEW d \in Nat \ {0}
    PROVE  /\ a \div d \in Nat /\ a % d \in 0 .. d - 1
           /\ a = d * (a \div d) + (a % d)
  BY SMTT(30)

LEMMA DivModUnique ==
    ASSUME NEW d \in Nat \ {0}, NEW q \in Nat, NEW r \in 0 .. d - 1
    PROVE  (d * q + r) \div d = q /\ (d * q + r) % d = r
<1> DEFINE a == d * q + r
           t == a \div d
           u == a % d
<1>0. d * q \in Nat
  BY TimesNat
<1>1. a \in Nat
  BY <1>0
<1>9. t \in Nat /\ u \in 0 .. d - 1 /\ a = d * t + u
  <2> HIDE DEF a
  <2>. QED  BY <1>1, DivMod, Zenon
<1> HIDE DEF t, u
<1>2. d * t \in Nat /\ d * (q - t) = d * q - d * t /\ d * (t - q) = d * t - d * q
  BY <1>9, SMTT(30)
<1>3. CASE q >= t + 1
  <2>1. d * (q - t) >= d
    BY <1>9, <1>3, SMTT(30)
  <2>. QED  BY <1>0, <1>9, <1>2, <2>1
<1>4. CASE t >= q + 1
  <2>1. d * (t - q) >= d
    BY <1>9, <1>4, SMTT(30)
  <2>. QED  BY <1>0, <1>9, <1>2, <2>1
<1>5. CASE q = t
  <2>1. r = u
    BY <1>0, <1>9, <1>2, <1>5
  <2>. QED  BY <1>5, <2>1 DEF t, u
<1>. QED  BY <1>9, <1>3, <1>4, <1>5

\* Powers of two are numbers of subsets.
LEMMA PowerStep ==
    ASSUME NEW n \in Nat
    PROVE  2 ^ n \in Nat /\ 2 ^ n >= 1 /\ 2 ^ (n + 1) = 2 * 2 ^ n
<1> DEFINE S == 1 .. n
           T == 1 .. n + 1
           A == SUBSET S
           B == {x \cup {n + 1} : x \in A}
           f == [x \in A |-> x \cup {n + 1}]
<1>1. IsFiniteSet(S) /\ Cardinality(S) = n /\ IsFiniteSet(T) /\ Cardinality(T) = n + 1
  BY FS_Interval
<1>2. IsFiniteSet(A) /\ Cardinality(A) = 2 ^ n /\ IsFiniteSet(SUBSET T) /\ Cardinality(SUBSET T) = 2 ^ (n + 1)
  BY <1>1, FS_SUBSET
<1>3. f \in Bijection(A, B)
  <2>1. \A x, y \in A : x \cup {n + 1} = y \cup {n + 1} => x = y
    OBVIOUS
  <2>2. \A x, y \in A : f[x] = f[y] => x = y
    BY <2>1
  <2>3. f \in [A -> B] /\ \A b \in B : \E x \in A : f[x] = b
    OBVIOUS
  <2>. QED  BY <2>2, <2>3, Zenon DEF Bijection, Injection, Surjection, IsInjective
<1>4. IsFiniteSet(B) /\ Cardinality(B) = 2 ^ n
  <2>1. ExistsBijection(A, B)
    BY <1>3 DEF ExistsBijection
  <2>. QED  BY <1>2, <2>1, FS_Bijection
<1>5. A \cap B = {}
  <2>1. n + 1 \notin S
    OBVIOUS
  <2>. QED  BY <2>1
<1>6. SUBSET T = A \cup B
  <2>1. T = S \cup {n + 1}
    OBVIOUS
  <2>2. ASSUME NEW x \in SUBSET T PROVE x \in A \cup B
    <3>1. CASE n + 1 \in x
      <4>1. x \ {n + 1} \in A /\ x = (x \ {n + 1}) \cup {n + 1}
        BY <2>1, <3>1
      <4>. QED  BY <4>1
    <3>2. CASE n + 1 \notin x
      BY <2>1, <3>2
    <3>. QED  BY <3>1, <3>2
  <2>3. ASSUME NEW x \in A \cup B PROVE x \in SUBSET T
    BY <2>1
  <2>. QED  BY <2>2, <2>3
<1> HIDE DEF A, B, S, T
<1>7. Cardinality(A) \in Nat /\ Cardinality(A \cup B) = Cardinality(A) + Cardinality(B) - 0
  <2>1. Cardinality(A) \in Nat
    BY <1>2, FS_CardinalityType
  <2>2. Cardinality(A \cup B) = Cardinality(A) + Cardinality(B) - Cardinality(A \cap B)
    BY <1>2, <1>4, FS_Union, Zenon
  <2>. QED  BY <1>5, <2>1, <2>2, FS_EmptySet
<1>8. Cardinality(A) # 0
  <2>1. {} \in A
    BY DEF A
  <2>. QED  BY <1>2, <2>1, FS_EmptySet
<1>9. 2 ^ (n + 1) = Cardinality(A \cup B)
  BY <1>2, <1>6, Zenon
<1>. QED  BY <1>2, <1>4, <1>7, <1>8, <1>9

LEMMA PowerSum ==
    ASSUME NEW m \in Nat, NEW n \in Nat PROVE 2 ^ (m + n) = 2 ^ m * 2 ^ n
<1> DEFINE Bad == {k \in Nat : 2 ^ (m + k) # 2 ^ m * 2 ^ k}
<1> SUFFICES ASSUME Bad # {} PROVE FALSE
  OBVIOUS
<1>1. PICK k \in Bad : \A j \in Bad : k <= j
  BY LeastElement
<1>2. k # 0
  <2>1. 2 ^ m \in Nat
    BY PowerStep
  <2>2. 2 ^ m * 1 = 2 ^ m /\ m + 0 = m
    BY <2>1
  <2>3. 2 ^ 0 = 1
    OBVIOUS
  <2>4. 0 \notin Bad
    BY <2>2, <2>3
  <2>. QED  BY <1>1, <2>4
<1>3. k - 1 \in Nat /\ k - 1 \notin Bad
  BY <1>1, <1>2
<1>4. PICK j \in Nat : k = j + 1 /\ 2 ^ (m + j) = 2 ^ m * 2 ^ j
  BY <1>3
<1>5. 2 ^ (m + j + 1) = 2 * 2 ^ (m + j) /\ 2 ^ (j + 1) = 2 * 2 ^ j /\ 2 ^ m \in Nat /\ 2 ^ j \in Nat
  BY PowerStep
<1>6. 2 * (2 ^ m * 2 ^ j) = 2 ^ m * (2 * 2 ^ j)
  <2>1. \A a, b \in Nat : 2 * (a * b) = a * (2 * b)
    BY SMTT(30)
  <2>. QED  BY <1>5, <2>1, Zenon
<1>7. m + (j + 1) = m + j + 1
  OBVIOUS
<1>. QED  BY <1>1, <1>4, <1>5, <1>6, <1>7

--------------------------------------------------------------------------------
(***************************************************************************)
(* Bits of numbers.                                                        *)
(***************************************************************************)
\* The partial sums of ValueOf.
Weighs(acc, bs, n) == acc = [i \in 0 .. n |-> IF i = 0 THEN 0 ELSE acc[i - 1] + bs[i] * 2 ^ (i - 1)]

LEMMA WeighsExists == ASSUME NEW bs, NEW n \in Nat PROVE \E acc : Weighs(acc, bs, n)
<1> DEFINE Bad == {k \in Nat : ~ \E acc : Weighs(acc, bs, k)}
<1> SUFFICES ASSUME Bad # {} PROVE FALSE
  OBVIOUS
<1>1. PICK k \in Bad : \A j \in Bad : k <= j
  BY LeastElement
<1>2. k # 0
  <2> DEFINE z == [i \in 0 .. 0 |-> 0]
  <2>1. Weighs(z, bs, 0)
    BY DEF Weighs
  <2> HIDE DEF z
  <2>2. 0 \notin Bad
    BY <2>1
  <2>. QED  BY <1>1, <2>2
<1>3. PICK j \in Nat : k = j + 1
  <2>1. k - 1 \in Nat /\ k = (k - 1) + 1
    BY <1>1, <1>2
  <2>. QED  BY <2>1
<1>4. PICK acc : Weighs(acc, bs, j)
  <2>1. j \notin Bad
    BY <1>1, <1>3
  <2>. QED  BY <2>1
<1> DEFINE u == [i \in 0 .. k |-> IF i = k THEN acc[j] + bs[k] * 2 ^ j ELSE acc[i]]
           e(i) == IF i = 0 THEN 0 ELSE acc[i - 1] + bs[i] * 2 ^ (i - 1)
           w(i) == IF i = 0 THEN 0 ELSE u[i - 1] + bs[i] * 2 ^ (i - 1)
<1>5. \A i \in 0 .. j : acc[i] = e(i)
  <2>1. acc = [i \in 0 .. j |-> e(i)]
    BY <1>4 DEF Weighs
  <2> HIDE DEF e
  <2>. QED  BY <2>1
<1>6. \A i \in 0 .. j : u[i] = acc[i]
  BY <1>3
<1>7. \A i \in 0 .. k : u[i] = w(i)
  <2> TAKE i \in 0 .. k
  <2>1. CASE i = k
    <3>1. k - 1 = j /\ k # 0 /\ u[k] = acc[j] + bs[k] * 2 ^ j /\ u[j] = acc[j]
      BY <1>3, <1>6
    <3> HIDE DEF u
    <3>. QED  BY <2>1, <3>1
  <2>2. CASE i = 0
    <3>1. 0 \in 0 .. j
      OBVIOUS
    <3>2. u[0] = acc[0] /\ acc[0] = 0
      BY <1>5, <1>6, <3>1
    <3> HIDE DEF u
    <3>. QED  BY <2>2, <3>2
  <2>3. CASE i # 0 /\ i # k
    <3>1. i - 1 \in 0 .. j /\ i \in 0 .. j
      BY <1>3, <2>3
    <3>2. u[i] = acc[i] /\ u[i - 1] = acc[i - 1]
      BY <1>6, <3>1
    <3> HIDE DEF u
    <3>. QED  BY <1>5, <2>3, <3>1, <3>2
  <2>. QED  BY <2>1, <2>2, <2>3
<1>8. u = [i \in 0 .. k |-> w(i)]
  <2>1. u = [i \in 0 .. k |-> u[i]]
    OBVIOUS
  <2> HIDE DEF u, w
  <2>. QED  BY <1>7, <2>1
<1>9. Weighs(u, bs, k)
  <2> HIDE DEF u
  <2>. QED  BY <1>8 DEF Weighs
<1>. QED  BY <1>1, <1>9

\* The value of n bits, by its partial sums.
LEMMA ValueSums ==
    ASSUME NEW n \in Nat, NEW bs \in [1 .. n -> {0, 1}]
    PROVE  \E acc : /\ acc[0] = 0 /\ ValueOf(bs) = acc[n]
                    /\ \A i \in 0 .. n : acc[i] \in Nat /\ acc[i] < 2 ^ i
                    /\ \A i \in 1 .. n : acc[i] = acc[i - 1] + bs[i] * 2 ^ (i - 1)
<1> DEFINE acc == CHOOSE x : Weighs(x, bs, n)
           e(i) == IF i = 0 THEN 0 ELSE acc[i - 1] + bs[i] * 2 ^ (i - 1)
<1>1. Weighs(acc, bs, n)
  BY WeighsExists
<1>2. Len(bs) = n
  BY LenProperties, IsASeq
<1>3. ValueOf(bs) = acc[n]
  BY <1>2 DEF ValueOf, Weighs
<1> HIDE DEF acc
<1>4. \A i \in 0 .. n : acc[i] = e(i)
  <2>1. acc = [i \in 0 .. n |-> e(i)]
    BY <1>1 DEF Weighs
  <2> HIDE DEF e
  <2>. QED  BY <2>1
<1>5. \A i \in 0 .. n : acc[i] \in Nat /\ acc[i] < 2 ^ i
  <2> DEFINE T == {i \in 0 .. n : acc[i] \in Nat /\ acc[i] < 2 ^ i}
  <2>1. 0 \in T
    BY <1>4, 2 ^ 0 = 1
  <2>2. ASSUME NEW j \in 0 .. n - 1, j \in T PROVE j + 1 \in T
    <3>1. acc[j + 1] = acc[j] + bs[j + 1] * 2 ^ j /\ bs[j + 1] \in {0, 1}
      BY <1>4
    <3>2. 2 ^ j \in Nat /\ 2 ^ (j + 1) = 2 * 2 ^ j
      BY PowerStep
    <3>3. bs[j + 1] * 2 ^ j = 0 \/ bs[j + 1] * 2 ^ j = 2 ^ j
      BY <3>1, <3>2
    <3>. QED  BY <2>2, <3>1, <3>2, <3>3
  <2>3. \A i \in 0 .. n : i \in T
    <3> HIDE DEF T
    <3>. QED  BY <2>1, <2>2, Climb
  <2>. QED  BY <2>3
<1>6. acc[0] = 0 /\ \A i \in 1 .. n : acc[i] = acc[i - 1] + bs[i] * 2 ^ (i - 1)
  BY <1>4
<1>. QED  BY <1>3, <1>5, <1>6

LEMMA ValueBound ==
    ASSUME NEW n \in Nat, NEW bs \in [1 .. n -> {0, 1}]
    PROVE  ValueOf(bs) \in 0 .. 2 ^ n - 1
<1>1. PICK acc : ValueOf(bs) = acc[n] /\ acc[n] \in Nat /\ acc[n] < 2 ^ n
  BY ValueSums
<1>. QED  BY <1>1, PowerStep

LEMMA BitsType ==
    ASSUME NEW n \in Nat, NEW x \in Nat
    PROVE  Bits(x, n) \in [1 .. n -> {0, 1}] /\ Bits(x, n) \in Seq({0, 1}) /\ Len(Bits(x, n)) = n
<1>1. \A i \in 1 .. n : (x \div 2 ^ (i - 1)) % 2 \in {0, 1}
  <2> TAKE i \in 1 .. n
  <2>1. 2 ^ (i - 1) \in Nat \ {0}
    BY PowerStep
  <2>2. PICK d \in Nat \ {0} : d = 2 ^ (i - 1)
    BY <2>1
  <2>3. x \div d \in Nat
    BY DivMod
  <2>4. PICK q \in Nat : q = x \div d
    BY <2>3
  <2>5. q % 2 \in 0 .. 2 - 1
    BY DivMod
  <2>. QED  BY <2>2, <2>4, <2>5
<1>2. Bits(x, n) \in [1 .. n -> {0, 1}]
  BY <1>1 DEF Bits
<1>. QED  BY <1>2, IsASeq, LenProperties

LEMMA HalfMod ==
    ASSUME NEW x \in Nat, NEW d \in Nat \ {0}
    PROVE  x % (2 * d) = (x % d) + ((x \div d) % 2) * d
<1> DEFINE q == x \div d
           r == x % d
           w == q \div 2
           c == q % 2
<1>1. q \in Nat /\ r \in 0 .. d - 1 /\ x = d * q + r
  BY DivMod
<1>2. w \in Nat /\ c \in 0 .. 2 - 1 /\ q = 2 * w + c
  <2> HIDE DEF q
  <2>. QED  BY <1>1, DivMod
<1> HIDE DEF q, r, w, c
<1>3. \A f \in Nat, g \in Nat, c1 \in 0 .. 1, r1 \in Nat :
            f * (2 * g + c1) + r1 = (2 * f) * g + (r1 + c1 * f)
  BY SMTT(30)
<1>4. x = (2 * d) * w + (r + c * d)
  <2>1. d * (2 * w + c) + r = (2 * d) * w + (r + c * d)
    BY <1>1, <1>2, <1>3
  <2>. QED  BY <1>1, <1>2, <2>1
<1>5. r + c * d \in 0 .. 2 * d - 1 /\ 2 * d \in Nat \ {0}
  <2>1. c * d = 0 \/ c * d = d
    BY <1>2
  <2>. QED  BY <1>1, <2>1
<1>6. ((2 * d) * w + (r + c * d)) % (2 * d) = r + c * d
  BY <1>2, <1>5, DivModUnique, Zenon
<1>. QED  BY <1>4, <1>6 DEF q, r, c

\* The value of the first l bits of a number is what it leaves modulo 2 ^ l.
LEMMA LowValue ==
    ASSUME NEW l \in Nat, NEW x \in Nat, NEW s \in [1 .. l -> {0, 1}],
           \A i \in 1 .. l : s[i] = (x \div 2 ^ (i - 1)) % 2
    PROVE  ValueOf(s) = x % 2 ^ l
<1>1. PICK acc : /\ acc[0] = 0 /\ ValueOf(s) = acc[l]
                 /\ \A i \in 0 .. l : acc[i] \in Nat /\ acc[i] < 2 ^ i
                 /\ \A i \in 1 .. l : acc[i] = acc[i - 1] + s[i] * 2 ^ (i - 1)
  BY ValueSums
<1>2. \A i \in 0 .. l : acc[i] = x % 2 ^ i
  <2> DEFINE T == {i \in 0 .. l : acc[i] = x % 2 ^ i}
  <2>1. 0 \in T
    <3>1. x % 1 \in 0 .. 1 - 1
      BY DivMod
    <3>2. x % 1 = 0
      BY <3>1
    <3>. QED  BY <1>1, <3>2, 2 ^ 0 = 1
  <2>2. ASSUME NEW j \in 0 .. l - 1, j \in T PROVE j + 1 \in T
    <3>1. acc[j] = x % 2 ^ j
      BY <2>2
    <3>2. PICK d \in Nat \ {0} : d = 2 ^ j /\ 2 ^ (j + 1) = 2 * d
      <4>1. 2 ^ j \in Nat /\ 2 ^ j >= 1 /\ 2 ^ (j + 1) = 2 * 2 ^ j
        BY PowerStep
      <4>. QED  BY <4>1
    <3>3. acc[j + 1] = x % (2 * d)
      <4>1. acc[j + 1] = (x % d) + ((x \div d) % 2) * d
        BY <1>1, <3>1, <3>2
      <4>2. x % (2 * d) = (x % d) + ((x \div d) % 2) * d
        BY HalfMod, Zenon
      <4>. QED  BY <4>1, <4>2
    <3>4. acc[j + 1] = x % 2 ^ (j + 1)
      BY <3>2, <3>3, Zenon
    <3>5. j + 1 \in 0 .. l
      OBVIOUS
    <3>. QED  BY <3>4, <3>5, Zenon
  <2>3. \A i \in 0 .. l : i \in T
    <3> HIDE DEF T
    <3>. QED  BY <2>1, <2>2, Climb
  <2>. QED  BY <2>3
<1>. QED  BY <1>1, <1>2

\* The low bits of a number are read back as that number.
LEMMA ValueOfBits ==
    ASSUME NEW n \in Nat, NEW x \in 0 .. 2 ^ n - 1
    PROVE  ValueOf(Bits(x, n)) = x
<1> DEFINE b == Bits(x, n)
<1>0. x \in Nat /\ x < 2 ^ n
  BY PowerStep
<1>1. b \in [1 .. n -> {0, 1}] /\ \A i \in 1 .. n : b[i] = (x \div 2 ^ (i - 1)) % 2
  BY <1>0, BitsType DEF Bits
<1> HIDE DEF b
<1>2. ValueOf(b) = x % 2 ^ n
  BY <1>0, <1>1, LowValue
<1>4. x % 2 ^ n = x
  <2>1. PICK d \in Nat \ {0} : d = 2 ^ n
    BY PowerStep
  <2>2. x \in 0 .. d - 1 /\ d * 0 + x = x
    BY <1>0, <2>1
  <2>3. (d * 0 + x) % d = x
    BY <2>2, DivModUnique
  <2>. QED  BY <2>1, <2>2, <2>3
<1>. QED  BY <1>2, <1>4 DEF b


\* A number grows by its lowest bit and doubles for every bit put below it.
LEMMA ValueShift ==
    ASSUME NEW k \in Nat, NEW s \in [1 .. k + 1 -> {0, 1}], NEW t \in [1 .. k -> {0, 1}],
           \A i \in 1 .. k : t[i] = s[i + 1]
    PROVE  ValueOf(s) = s[1] + 2 * ValueOf(t)
<1>0. k + 1 \in Nat
  OBVIOUS
<1>1. PICK a : /\ a[0] = 0 /\ ValueOf(s) = a[k + 1]
               /\ \A i \in 0 .. k + 1 : a[i] \in Nat /\ a[i] < 2 ^ i
               /\ \A i \in 1 .. k + 1 : a[i] = a[i - 1] + s[i] * 2 ^ (i - 1)
  BY <1>0, ValueSums
<1>2. PICK c : /\ c[0] = 0 /\ ValueOf(t) = c[k]
               /\ \A i \in 0 .. k : c[i] \in Nat /\ c[i] < 2 ^ i
               /\ \A i \in 1 .. k : c[i] = c[i - 1] + t[i] * 2 ^ (i - 1)
  BY ValueSums
<1> DEFINE T == {i \in 0 .. k : a[i + 1] = s[1] + 2 * c[i]}
<1>3. 0 \in T
  <2>1. 1 \in 1 .. k + 1 /\ 1 - 1 = 0 /\ 0 + 1 = 1 /\ s[1] \in {0, 1}
    OBVIOUS
  <2>2. a[1] = a[0] + s[1] * 2 ^ 0
    BY <1>1, <2>1
  <2>. QED  BY <1>1, <1>2, <2>1, <2>2, 2 ^ 0 = 1
<1>4. ASSUME NEW j \in 0 .. k - 1, j \in T PROVE j + 1 \in T
  <2>1. j + 1 \in 1 .. k /\ (j + 1) + 1 \in 1 .. k + 1 /\ (j + 1) - 1 = j /\ ((j + 1) + 1) - 1 = j + 1
        /\ j \in Nat /\ j \in 0 .. k /\ j + 1 \in 0 .. k
    OBVIOUS
  <2>2. a[(j + 1) + 1] = a[j + 1] + s[(j + 1) + 1] * 2 ^ (j + 1)
    BY <1>1, <2>1
  <2>3. c[j + 1] = c[j] + t[j + 1] * 2 ^ j /\ t[j + 1] = s[(j + 1) + 1]
    BY <1>2, <2>1
  <2>4. PICK p \in Nat : p = 2 ^ j /\ 2 ^ (j + 1) = 2 * p
    BY <2>1, PowerStep
  <2>5. PICK x \in {0, 1} : x = t[j + 1]
    BY <2>1
  <2>6. a[j + 1] = s[1] + 2 * c[j] /\ s[1] \in {0, 1} /\ c[j] \in Nat
    BY <1>2, <1>4, <2>1
  <2>7. x * (2 * p) = 2 * (x * p) /\ x * p \in Nat
    BY <2>5, SMTT(30)
  <2>8. a[(j + 1) + 1] = s[1] + 2 * c[j] + 2 * (x * p) /\ c[j + 1] = c[j] + x * p
    BY <2>2, <2>3, <2>4, <2>5, <2>6, <2>7
  <2>9. a[(j + 1) + 1] = s[1] + 2 * c[j + 1]
    BY <2>6, <2>7, <2>8
  <2>. QED  BY <2>1, <2>9
<1>5. k \in T
  <2> HIDE DEF T
  <2>1. \A i \in 0 .. k : i \in T
    BY <1>3, <1>4, Climb
  <2>. QED  BY <2>1
<1>. QED  BY <1>1, <1>2, <1>5

\* Bits are read back from their value.
LEMMA BitsOfValue ==
    ASSUME NEW n \in Nat, NEW s \in [1 .. n -> {0, 1}]
    PROVE  Bits(ValueOf(s), n) = s
<1>1. PICK a : /\ a[0] = 0 /\ ValueOf(s) = a[n]
               /\ \A i \in 0 .. n : a[i] \in Nat /\ a[i] < 2 ^ i
               /\ \A i \in 1 .. n : a[i] = a[i - 1] + s[i] * 2 ^ (i - 1)
  BY ValueSums
<1>2. ASSUME NEW i \in 1 .. n PROVE (ValueOf(s) \div 2 ^ (i - 1)) % 2 = s[i]
  <2> DEFINE T == {d \in 0 .. n - i : \E y \in Nat : a[i + d] = a[i] + y * 2 ^ i}
  <2>0. i \in Nat /\ i - 1 \in Nat /\ n - i \in Nat /\ (i - 1) + 1 = i
    OBVIOUS
  <2>1. 0 \in T
    <3>1. i + 0 = i /\ a[i] \in Nat /\ 2 ^ i \in Nat
      BY <1>1, PowerStep
    <3>2. a[i] = a[i] + 0 * 2 ^ i
      BY <3>1
    <3>. QED  BY <2>0, <3>1, <3>2
  <2>2. ASSUME NEW d \in 0 .. (n - i) - 1, d \in T PROVE d + 1 \in T
    <3>1. PICK y \in Nat : a[i + d] = a[i] + y * 2 ^ i
      BY <2>2
    <3>2. i + d + 1 \in 1 .. n /\ (i + d + 1) - 1 = i + d /\ d \in Nat /\ i + (d + 1) = i + d + 1
          /\ d + 1 \in 0 .. n - i
      OBVIOUS
    <3>3. a[i + d + 1] = a[i + d] + s[i + d + 1] * 2 ^ (i + d)
      BY <1>1, <3>2
    <3>4. PICK p \in Nat, q \in Nat : p = 2 ^ i /\ q = 2 ^ d /\ 2 ^ (i + d) = p * q
      BY <3>2, PowerStep, PowerSum
    <3>5. PICK x \in {0, 1} : x = s[i + d + 1]
      BY <3>2
    <3>6. x * (p * q) = (x * q) * p /\ (y + x * q) * p = y * p + (x * q) * p /\ y + x * q \in Nat
          /\ (x * q) * p \in Nat /\ y * p \in Nat
      BY <3>4, <3>5, SMTT(30)
    <3>7. a[i] \in Nat
      BY <1>1
    <3>8. a[i + d + 1] = a[i] + (y + x * q) * p
      <4>1. a[i + d + 1] = a[i + d] + x * (p * q) /\ a[i + d] = a[i] + y * p
        BY <3>1, <3>3, <3>4, <3>5, Zenon
      <4>. QED  BY <3>6, <3>7, <4>1
    <3>. QED  BY <3>2, <3>4, <3>6, <3>8
  <2>3. n - i \in T
    <3> HIDE DEF T
    <3>1. \A e \in 0 .. n - i : e \in T
      BY <2>0, <2>1, <2>2, Climb
    <3>. QED  BY <2>0, <3>1
  <2>4. PICK y \in Nat : a[n] = a[i] + y * 2 ^ i
    <3>1. i + (n - i) = n
      OBVIOUS
    <3>. QED  BY <2>3, <3>1
  <2>5. PICK p \in Nat \ {0} : p = 2 ^ (i - 1) /\ 2 ^ i = 2 * p
    BY <2>0, PowerStep
  <2>6. PICK r \in 0 .. p - 1 : r = a[i - 1]
    <3>1. i - 1 \in 0 .. n
      OBVIOUS
    <3>2. a[i - 1] \in Nat /\ a[i - 1] < p
      BY <1>1, <2>5, <3>1
    <3>. QED  BY <3>2
  <2>7. PICK x \in {0, 1} : x = s[i]
    OBVIOUS
  <2>8. a[n] = p * (2 * y + x) + r
    <3>1. a[i] = r + x * p
      BY <1>1, <2>5, <2>6, <2>7
    <3>2. y * (2 * p) = p * (2 * y) /\ p * (2 * y + x) = p * (2 * y) + x * p /\ p * (2 * y) \in Nat
          /\ x * p \in Nat
      BY <2>7, SMTT(30)
    <3>3. a[n] = a[i] + y * (2 * p)
      BY <2>4, <2>5, Zenon
    <3>. QED  BY <2>6, <3>1, <3>2, <3>3
  <2>9. a[n] \div p = 2 * y + x
    <3>1. 2 * y + x \in Nat
      OBVIOUS
    <3>2. (p * (2 * y + x) + r) \div p = 2 * y + x
      BY <3>1, DivModUnique
    <3>. QED  BY <2>8, <3>2, Zenon
  <2>10. (2 * y + x) % 2 = x
    BY <2>7, DivModUnique
  <2>. QED  BY <1>1, <2>5, <2>7, <2>9, <2>10
<1>3. Bits(ValueOf(s), n) = [i \in 1 .. n |-> s[i]]
  BY <1>2 DEF Bits
<1>. QED  BY <1>3

\* Flipping the order of bits twice gives them back.
LEMMA ReverseTwice ==
    ASSUME NEW n \in Nat, NEW c \in 0 .. 2 ^ n - 1
    PROVE  reverse16(c, n) \in 0 .. 2 ^ n - 1 /\ reverse16(reverse16(c, n), n) = c
<1> DEFINE b == Bits(c, n)
           r == [i \in 1 .. n |-> b[n + 1 - i]]
           q == [i \in 1 .. n |-> r[n + 1 - i]]
<1>0. c \in Nat
  BY PowerStep
<1>1. b \in [1 .. n -> {0, 1}]
  BY <1>0, BitsType
<1>2. \A i \in 1 .. n : n + 1 - i \in 1 .. n /\ n + 1 - (n + 1 - i) = i
  OBVIOUS
<1> HIDE DEF b
<1>3. r \in [1 .. n -> {0, 1}] /\ q = b
  BY <1>1, <1>2
<1>4. reverse16(c, n) = ValueOf(r)
  BY DEF reverse16, b
<1> HIDE DEF r
<1>5. Bits(ValueOf(r), n) = r
  BY <1>3, BitsOfValue
<1>6. reverse16(ValueOf(r), n) = ValueOf(q)
  BY <1>5 DEF reverse16
<1>7. ValueOf(b) = c
  BY ValueOfBits DEF b
<1>. QED  BY <1>3, <1>4, <1>6, <1>7, ValueBound

\* The first l of the bits given, the first on top, are the low l of them flipped.
LEMMA TopBits ==
    ASSUME NEW n \in Nat, NEW l \in 0 .. n, NEW x \in 0 .. 2 ^ n - 1
    PROVE  reverse16(x, n) \div 2 ^ (n - l) = reverse16(lsb(x, l), l)
<1> DEFINE b == Bits(x, n)
           r(k) == [i \in 1 .. k |-> b[k + 1 - i]]
           R(k) == ValueOf(r(k))
<1>0. x \in Nat /\ l \in Nat /\ n - l \in Nat
  BY PowerStep
<1>1. b \in [1 .. n -> {0, 1}] /\ \A i \in 1 .. n : b[i] = (x \div 2 ^ (i - 1)) % 2
  BY <1>0, BitsType DEF Bits
<1> HIDE DEF b
<1>2. \A k \in 0 .. n : r(k) \in [1 .. k -> {0, 1}] /\ R(k) \in Nat
  <2> TAKE k \in 0 .. n
  <2>1. \A i \in 1 .. k : k + 1 - i \in 1 .. n
    OBVIOUS
  <2>2. r(k) \in [1 .. k -> {0, 1}]
    BY <1>1, <2>1
  <2> HIDE DEF r
  <2>3. ValueOf(r(k)) \in 0 .. 2 ^ k - 1 /\ 2 ^ k \in Nat
    BY <2>2, ValueBound, PowerStep
  <2>. QED  BY <2>2, <2>3
<1>3. ASSUME NEW k \in 0 .. n - 1 PROVE R(k + 1) = b[k + 1] + 2 * R(k)
  <2>1. k \in Nat /\ k \in 0 .. n /\ k + 1 \in 0 .. n
    OBVIOUS
  <2>2. r(k + 1) \in [1 .. k + 1 -> {0, 1}] /\ r(k) \in [1 .. k -> {0, 1}]
    BY <1>2, <2>1
  <2>3. \A i \in 1 .. k : r(k)[i] = r(k + 1)[i + 1]
    <3>1. \A i \in 1 .. k : i + 1 \in 1 .. k + 1 /\ (k + 1) + 1 - (i + 1) = k + 1 - i
      OBVIOUS
    <3>. QED  BY <3>1
  <2>4. r(k + 1)[1] = b[k + 1]
    <3>1. 1 \in 1 .. k + 1 /\ (k + 1) + 1 - 1 = k + 1
      OBVIOUS
    <3>. QED  BY <3>1
  <2> HIDE DEF r
  <2>5. ValueOf(r(k + 1)) = r(k + 1)[1] + 2 * ValueOf(r(k))
    BY <2>1, <2>2, <2>3, ValueShift
  <2>. QED  BY <2>4, <2>5
<1> HIDE DEF R
<1>4. \E y \in 0 .. 2 ^ (n - l) - 1 : R(n) = 2 ^ (n - l) * R(l) + y
  <2> DEFINE T == {d \in 0 .. n - l : \E y \in 0 .. 2 ^ d - 1 : R(l + d) = 2 ^ d * R(l) + y}
  <2>1. 0 \in T
    <3>1. l + 0 = l /\ R(l) \in Nat /\ 0 \in 0 .. 2 ^ 0 - 1 /\ 0 \in 0 .. n - l
      BY <1>0, <1>2, 2 ^ 0 = 1
    <3>2. R(l) = 2 ^ 0 * R(l) + 0
      BY <3>1, 2 ^ 0 = 1
    <3>. QED  BY <3>1, <3>2
  <2>2. ASSUME NEW d \in 0 .. (n - l) - 1, d \in T PROVE d + 1 \in T
    <3>1. PICK y \in 0 .. 2 ^ d - 1 : R(l + d) = 2 ^ d * R(l) + y
      BY <2>2
    <3>2. l + d \in 0 .. n - 1 /\ l + (d + 1) = l + d + 1 /\ d \in Nat /\ l + d + 1 \in 1 .. n
          /\ d + 1 \in 0 .. n - l
      BY <1>0
    <3>3. R(l + d + 1) = b[l + d + 1] + 2 * R(l + d)
      BY <1>3, <3>2
    <3>4. PICK p \in Nat \ {0} : p = 2 ^ d /\ 2 ^ (d + 1) = 2 * p
      BY <3>2, PowerStep
    <3>5. PICK v \in {0, 1} : v = b[l + d + 1]
      BY <1>1, <3>2
    <3>6. PICK u \in Nat : u = R(l)
      BY <1>2
    <3>7. (2 * p) * u = 2 * (p * u) /\ p * u \in Nat
      BY SMTT(30)
    <3>8. R(l + d + 1) = 2 * (p * u) + (v + 2 * y) /\ v + 2 * y \in 0 .. 2 * p - 1
      BY <3>1, <3>3, <3>4, <3>5, <3>6, <3>7
    <3>9. R(l + (d + 1)) = 2 ^ (d + 1) * R(l) + (v + 2 * y) /\ v + 2 * y \in 0 .. 2 ^ (d + 1) - 1
      BY <3>2, <3>4, <3>6, <3>7, <3>8
    <3>. QED  BY <3>2, <3>9
  <2>3. n - l \in T
    <3> HIDE DEF T
    <3>1. \A e \in 0 .. n - l : e \in T
      BY <1>0, <2>1, <2>2, Climb
    <3>. QED  BY <1>0, <3>1
  <2>4. l + (n - l) = n
    OBVIOUS
  <2>. QED  BY <2>3, <2>4
<1>5. reverse16(x, n) = R(n)
  BY DEF reverse16, b, R, r
<1>6. R(n) \div 2 ^ (n - l) = R(l)
  <2>1. PICK p \in Nat \ {0} : p = 2 ^ (n - l)
    BY <1>0, PowerStep
  <2>2. PICK y \in 0 .. p - 1 : R(n) = p * R(l) + y
    BY <1>4, <2>1
  <2>3. R(l) \in Nat
    BY <1>2
  <2>4. (p * R(l) + y) \div p = R(l)
    BY <2>3, DivModUnique
  <2>. QED  BY <2>1, <2>2, <2>4
<1>7. Bits(lsb(x, l), l) = [i \in 1 .. l |-> b[i]]
  <2> DEFINE s == [i \in 1 .. l |-> b[i]]
  <2>1. s \in [1 .. l -> {0, 1}]
    BY <1>1
  <2>2. ValueOf(s) = lsb(x, l)
    <3>1. \A i \in 1 .. l : s[i] = (x \div 2 ^ (i - 1)) % 2
      BY <1>1
    <3> HIDE DEF s
    <3>2. ValueOf(s) = x % 2 ^ l
      BY <1>0, <2>1, <3>1, LowValue
    <3>. QED  BY <3>2 DEF lsb
  <2> HIDE DEF s
  <2>3. Bits(ValueOf(s), l) = s
    BY <1>0, <2>1, BitsOfValue
  <2>. QED  BY <2>2, <2>3 DEF s
<1>8. reverse16(lsb(x, l), l) = R(l)
  <2>1. \A i \in 1 .. l : [j \in 1 .. l |-> b[j]][l + 1 - i] = b[l + 1 - i]
    <3>1. \A i \in 1 .. l : l + 1 - i \in 1 .. l
      BY <1>0
    <3>. QED  BY <3>1
  <2>2. [i \in 1 .. l |-> [j \in 1 .. l |-> b[j]][l + 1 - i]] = [i \in 1 .. l |-> b[l + 1 - i]]
    BY <2>1
  <2>. QED  BY <1>7, <2>2 DEF reverse16, R, r
<1>. QED  BY <1>5, <1>6, <1>8

--------------------------------------------------------------------------------
(***************************************************************************)
(* Functions given by recursion on numbers.                                *)
(***************************************************************************)
\* The value at k is g's for the one before.
Steps(V, n) == [V \X (1 .. n) -> V]
Recurs(f, n, z, g) == f[0] = z /\ \A k \in 1 .. n : f[k] = g[f[k - 1], k]

LEMMA Recursion ==
    ASSUME NEW n \in Nat, NEW V, NEW z \in V, NEW g \in Steps(V, n)
    PROVE  \E f \in [0 .. n -> V] : Recurs(f, n, z, g)
<1>0. g \in [V \X (1 .. n) -> V]
  BY DEF Steps
<1> DEFINE Is(f, m) == f \in [0 .. m -> V] /\ f[0] = z /\ \A k \in 1 .. m : f[k] = g[f[k - 1], k]
           T == {m \in 0 .. n : \E f : Is(f, m)}
<1>1. 0 \in T
  <2> DEFINE f == [k \in 0 .. 0 |-> z]
  <2>1. f \in [0 .. 0 -> V] /\ f[0] = z
    OBVIOUS
  <2> HIDE DEF f
  <2>2. Is(f, 0)
    BY <2>1
  <2> HIDE DEF Is
  <2>. QED  BY <2>2
<1>2. ASSUME NEW j \in 0 .. n - 1, j \in T PROVE j + 1 \in T
  <2>1. PICK f : Is(f, j)
    BY <1>2
  <2> DEFINE u == [k \in 0 .. j + 1 |-> IF k = j + 1 THEN g[f[j], j + 1] ELSE f[k]]
  <2>0. /\ f \in [0 .. j -> V] /\ f[0] = z /\ j \in 0 .. j /\ 0 \in 0 .. j
        /\ \A k \in 1 .. j : f[k] = g[f[k - 1], k]
    <3>1. f \in [0 .. j -> V] /\ f[0] = z /\ \A k \in 1 .. j : f[k] = g[f[k - 1], k]
      BY <2>1, Zenon
    <3>2. j \in 0 .. j /\ 0 \in 0 .. j
      OBVIOUS
    <3>. QED  BY <3>1, <3>2, Zenon
  <2>2. f[j] \in V /\ j + 1 \in 1 .. n
    <3>1. f[j] \in V
      BY <2>0, Zenon
    <3>. QED  BY <3>1
  <2>3. g[f[j], j + 1] \in V
    BY <1>0, <2>2
  <2>4. u \in [0 .. j + 1 -> V] /\ u[j + 1] = g[f[j], j + 1] /\ \A k \in 0 .. j : u[k] = f[k]
    <3>1. \A k \in 0 .. j + 1 : k # j + 1 => k \in 0 .. j
      OBVIOUS
    <3>2. \A k \in 0 .. j + 1 : (IF k = j + 1 THEN g[f[j], j + 1] ELSE f[k]) \in V
      BY <2>0, <2>3, <3>1
    <3>3. u \in [0 .. j + 1 -> V]
      BY <3>2
    <3>4. j + 1 \in 0 .. j + 1 /\ \A k \in 0 .. j : k \in 0 .. j + 1 /\ k # j + 1
      OBVIOUS
    <3>. QED  BY <3>3, <3>4
  <2> HIDE DEF u
  <2>5. ASSUME NEW k \in 1 .. j + 1 PROVE u[k] = g[u[k - 1], k]
    <3>1. CASE k = j + 1
      <4>1. k - 1 = j /\ j \in 0 .. j
        BY <3>1
      <4>. QED  BY <2>4, <3>1, <4>1
    <3>2. CASE k # j + 1
      <4>1. k \in 1 .. j /\ k \in 0 .. j /\ k - 1 \in 0 .. j
        BY <3>2
      <4>. QED  BY <2>0, <2>4, <4>1
    <3>. QED  BY <3>1, <3>2
  <2>6. Is(u, j + 1)
    BY <2>0, <2>4, <2>5
  <2> HIDE DEF Is
  <2>. QED  BY <2>6
<1>3. n \in T
  <2> HIDE DEF T
  <2>1. \A i \in 0 .. n : i \in T
    BY <1>1, <1>2, Climb
  <2>. QED  BY <2>1
<1>4. PICK f : Is(f, n)
  BY <1>3
<1>. QED  BY <1>4, Zenon DEF Recurs

\* The same without an end: the functions up to each number agree.
Endless(V) == [V \X (Nat \ {0}) -> V]
Recurring(f, z, g) == f[0] = z /\ \A k \in Nat \ {0} : f[k] = g[f[k - 1], k]
LEMMA RecursionUnbounded ==
    ASSUME NEW V, NEW z \in V, NEW g \in Endless(V)
    PROVE  \E f \in [Nat -> V] : Recurring(f, z, g)
<1> DEFINE Is(f, m) == f \in [0 .. m -> V] /\ f[0] = z /\ \A k \in 1 .. m : f[k] = g[f[k - 1], k]
           upto(m) == CHOOSE f : Is(f, m)
           u == [m \in Nat |-> upto(m)[m]]
<1>1. ASSUME NEW m \in Nat PROVE Is(upto(m), m)
  <2> DEFINE gm == [p \in V \X (1 .. m) |-> g[p[1], p[2]]]
  <2>1. gm \in Steps(V, m)
    <3>1. \A p \in V \X (1 .. m) : p[1] \in V /\ p[2] \in Nat \ {0}
      OBVIOUS
    <3>2. \A p \in V \X (1 .. m) : g[p[1], p[2]] \in V
      BY <3>1 DEF Endless
    <3>. QED  BY <3>2, Zenon DEF Steps
  <2>2. \A x \in V, k \in 1 .. m : gm[x, k] = g[x, k]
    OBVIOUS
  <2> HIDE DEF gm
  <2>3. PICK f \in [0 .. m -> V] : Recurs(f, m, z, gm)
    BY <2>1, Recursion
  <2>4. \A k \in 1 .. m : f[k - 1] \in V
    OBVIOUS
  <2>5. f[0] = z /\ \A k \in 1 .. m : f[k] = gm[f[k - 1], k]
    BY <2>3, Zenon DEF Recurs
  <2>6. Is(f, m)
    BY <2>2, <2>4, <2>5, Zenon
  <2> HIDE DEF Is
  <2>. QED  BY <2>6
<1>2. ASSUME NEW m \in Nat PROVE upto(m + 1)[m] = upto(m)[m]
  <2> DEFINE a == upto(m)
             b == upto(m + 1)
             T == {i \in 0 .. m : b[i] = a[i]}
  <2>0. m + 1 \in Nat
    OBVIOUS
  <2>1. Is(a, m) /\ Is(b, m + 1)
    <3> HIDE DEF Is, upto
    <3>. QED  BY <1>1, <2>0
  <2> HIDE DEF a, b
  <2>2. /\ a[0] = z /\ b[0] = z /\ \A k \in 1 .. m : a[k] = g[a[k - 1], k]
        /\ \A k \in 1 .. m + 1 : b[k] = g[b[k - 1], k]
    BY <2>1, Zenon
  <2>3. 0 \in T
    <3>1. 0 \in 0 .. m
      OBVIOUS
    <3>. QED  BY <2>2, <3>1, Zenon
  <2>4. ASSUME NEW j \in 0 .. m - 1, j \in T PROVE j + 1 \in T
    <3>1. j + 1 \in 1 .. m /\ j + 1 \in 1 .. m + 1 /\ j + 1 \in 0 .. m /\ (j + 1) - 1 = j
      OBVIOUS
    <3>2. a[j + 1] = g[a[j], j + 1] /\ b[j + 1] = g[b[j], j + 1]
      BY <2>2, <3>1
    <3>. QED  BY <2>4, <3>1, <3>2
  <2> HIDE DEF T
  <2>5. m \in T
    <3>1. \A i \in 0 .. m : i \in T
      BY <2>3, <2>4, Climb
    <3>. QED  BY <3>1
  <2>. QED  BY <2>5 DEF T, a, b
<1>3. \A m \in Nat : upto(m) \in [0 .. m -> V] /\ upto(m)[m] \in V
  <2> SUFFICES ASSUME NEW m \in Nat PROVE upto(m) \in [0 .. m -> V] /\ upto(m)[m] \in V
    OBVIOUS
  <2> HIDE DEF upto
  <2>1. Is(upto(m), m)
    <3> HIDE DEF Is
    <3>. QED  BY <1>1
  <2>3. m \in 0 .. m
    OBVIOUS
  <2>2. upto(m) \in [0 .. m -> V]
    BY <2>1, Zenon
  <2>. QED  BY <2>2, <2>3, Zenon
<1>4. u[0] = z
  <2>1. Is(upto(0), 0) /\ u[0] = upto(0)[0]
    BY <1>1
  <2> HIDE DEF upto
  <2>. QED  BY <2>1
<1>5. ASSUME NEW k \in Nat \ {0} PROVE u[k] = g[u[k - 1], k]
  <2>1. k - 1 \in Nat /\ (k - 1) + 1 = k /\ k \in 1 .. k
    OBVIOUS
  <2>2. Is(upto(k), k) /\ u[k] = upto(k)[k] /\ u[k - 1] = upto(k - 1)[k - 1]
    BY <1>1, <2>1
  <2> HIDE DEF upto, u
  <2>3. upto(k)[k - 1] = upto(k - 1)[k - 1]
    <3>1. upto((k - 1) + 1)[k - 1] = upto(k - 1)[k - 1]
      BY <1>2, <2>1
    <3>. QED  BY <2>1, <3>1
  <2>4. upto(k)[k] = g[upto(k)[k - 1], k]
    BY <2>1, <2>2, Zenon
  <2>. QED  BY <2>2, <2>3, <2>4
<1>6. u \in [Nat -> V]
  <2> HIDE DEF upto
  <2>. QED  BY <1>3
<1> HIDE DEF u
<1>. QED  BY <1>4, <1>5, <1>6, Zenon DEF Recurring

--------------------------------------------------------------------------------
(***************************************************************************)
(* The room codewords take up.                                             *)
(***************************************************************************)
Lengths(n) == [0 .. n - 1 -> 0 .. MAX_HUFFMAN_BITS]

Room == 2 ^ MAX_HUFFMAN_BITS

\* T[l] is the room of the codewords of l bits and less.
Fills(T, ls) ==
    /\ T \in [0 .. MAX_HUFFMAN_BITS -> Nat] /\ T[0] = 0
    /\ \A l \in Width : T[l] = T[l - 1] + count(ls, l) * 2 ^ (MAX_HUFFMAN_BITS - l)

LEMMA MaxFacts ==
    /\ MAX_HUFFMAN_BITS \in Nat /\ HUFFMAN_LOOKUP_TABLE_BITS \in 1 .. MAX_HUFFMAN_BITS - 1
    /\ Width = 1 .. MAX_HUFFMAN_BITS /\ Room \in Nat \ {0}
<1>1. MAX_HUFFMAN_BITS \in Nat /\ HUFFMAN_LOOKUP_TABLE_BITS \in 1 .. MAX_HUFFMAN_BITS - 1
  BY HuffmanAssumption
<1>2. Room \in Nat /\ Room >= 1
  BY <1>1, PowerStep DEF Room
<1>. QED  BY <1>1, <1>2 DEF Width

\* A codeword of l bits takes up p, and there are q of them.
LEMMA RoomSplit ==
    ASSUME NEW l \in 0 .. MAX_HUFFMAN_BITS
    PROVE  \E p, q \in Nat \ {0} : p = 2 ^ (MAX_HUFFMAN_BITS - l) /\ q = 2 ^ l /\ p * q = Room
<1>1. l \in Nat /\ MAX_HUFFMAN_BITS - l \in Nat /\ (MAX_HUFFMAN_BITS - l) + l = MAX_HUFFMAN_BITS
  BY MaxFacts
<1>2. 2 ^ l \in Nat \ {0} /\ 2 ^ (MAX_HUFFMAN_BITS - l) \in Nat \ {0}
  BY <1>1, PowerStep
<1>3. 2 ^ ((MAX_HUFFMAN_BITS - l) + l) = 2 ^ (MAX_HUFFMAN_BITS - l) * 2 ^ l
  BY <1>1, PowerSum
<1>. QED  BY <1>1, <1>2, <1>3 DEF Room

LEMMA CountOf ==
    ASSUME NEW ls, IsFiniteSet(DOMAIN ls), NEW l
    PROVE  /\ IsFiniteSet(OfLength(ls, l)) /\ Cardinality(OfLength(ls, l)) \in Nat
           /\ count(ls, l) \in Nat
<1>1. OfLength(ls, l) \subseteq DOMAIN ls
  BY DEF OfLength
<1>2. IsFiniteSet(OfLength(ls, l)) /\ Cardinality(OfLength(ls, l)) \in Nat
  BY <1>1, FS_Subset, FS_CardinalityType
<1>. QED  BY <1>2 DEF count

LEMMA CountFacts ==
    ASSUME NEW n \in Nat, NEW ls \in Lengths(n), NEW l
    PROVE  /\ OfLength(ls, l) \subseteq 0 .. n - 1 /\ IsFiniteSet(OfLength(ls, l))
           /\ Cardinality(OfLength(ls, l)) \in Nat /\ count(ls, l) \in Nat
           /\ l # 0 => count(ls, l) = Cardinality(OfLength(ls, l))
<1>1. IsFiniteSet(0 .. n - 1)
  BY FS_Interval
<1>2. OfLength(ls, l) \subseteq 0 .. n - 1
  BY DEF OfLength, Lengths
<1>3. IsFiniteSet(OfLength(ls, l)) /\ Cardinality(OfLength(ls, l)) \in Nat
  BY <1>1, <1>2, FS_Subset, FS_CardinalityType
<1>. QED  BY <1>2, <1>3 DEF count

LEMMA FillsExist ==
    ASSUME NEW n \in Nat, NEW ls \in Lengths(n)
    PROVE  \E T : Fills(T, ls)
<1> DEFINE g == [p \in Nat \X (1 .. MAX_HUFFMAN_BITS) |->
                    p[1] + count(ls, p[2]) * 2 ^ (MAX_HUFFMAN_BITS - p[2])]
<1>1. ASSUME NEW l \in 1 .. MAX_HUFFMAN_BITS PROVE count(ls, l) * 2 ^ (MAX_HUFFMAN_BITS - l) \in Nat
  <2>1. PICK p \in Nat : p = 2 ^ (MAX_HUFFMAN_BITS - l)
    <3>1. l \in 0 .. MAX_HUFFMAN_BITS
      BY MaxFacts
    <3>. QED  BY <3>1, RoomSplit
  <2>2. PICK c \in Nat : c = count(ls, l)
    BY CountFacts
  <2>3. c * p \in Nat
    BY TimesNat
  <2>. QED  BY <2>1, <2>2, <2>3
<1>2. g \in [Nat \X (1 .. MAX_HUFFMAN_BITS) -> Nat]
  BY <1>1
<1>3. \A x \in Nat, l \in 1 .. MAX_HUFFMAN_BITS : g[x, l] = x + count(ls, l) * 2 ^ (MAX_HUFFMAN_BITS - l)
  OBVIOUS
<1> HIDE DEF g
<1>4. PICK T \in [0 .. MAX_HUFFMAN_BITS -> Nat] :
            T[0] = 0 /\ \A k \in 1 .. MAX_HUFFMAN_BITS : T[k] = g[T[k - 1], k]
  <2>1. MAX_HUFFMAN_BITS \in Nat /\ 0 \in Nat
    BY MaxFacts
  <2>2. \E f \in [0 .. MAX_HUFFMAN_BITS -> Nat] : Recurs(f, MAX_HUFFMAN_BITS, 0, g)
    BY <1>2, <2>1, Recursion, Zenon DEF Steps
  <2>. QED  BY <2>2, Zenon DEF Recurs
<1>5. \A k \in 1 .. MAX_HUFFMAN_BITS : T[k - 1] \in Nat
  <2>1. \A k \in 1 .. MAX_HUFFMAN_BITS : k - 1 \in 0 .. MAX_HUFFMAN_BITS
    BY MaxFacts
  <2>. QED  BY <1>4, <2>1
<1>6. \A k \in Width : T[k] = T[k - 1] + count(ls, k) * 2 ^ (MAX_HUFFMAN_BITS - k)
  <2> TAKE k \in Width
  <2>1. k \in 1 .. MAX_HUFFMAN_BITS
    BY DEF Width
  <2>. QED  BY <1>3, <1>4, <1>5, <2>1, Zenon
<1>. QED  BY <1>4, <1>6, Zenon DEF Fills

\* first_code, as its recursion says.
LEMMA FirstCodeOf ==
    ASSUME NEW ls, IsFiniteSet(DOMAIN ls)
    PROVE  /\ first_code(ls) \in [Nat -> 0 .. Room - 1] /\ first_code(ls)[0] = 0
           /\ \A l \in Nat \ {0} :
                first_code(ls)[l] = uint16((first_code(ls)[l - 1] + count(ls, l - 1)) * 2)
<1> DEFINE e(f, l) == IF l = 0 THEN 0 ELSE uint16((f[l - 1] + count(ls, l - 1)) * 2)
           Is(f) == f = [l \in Nat |-> e(f, l)]
           g == [p \in (0 .. Room - 1) \X (Nat \ {0}) |-> uint16((p[1] + count(ls, p[2] - 1)) * 2)]
<1>1. ASSUME NEW x \in Nat PROVE uint16(x) \in 0 .. Room - 1
  BY MaxFacts, DivMod DEF uint16, Room
<1>2. ASSUME NEW x \in Nat, NEW l PROVE uint16((x + count(ls, l)) * 2) \in 0 .. Room - 1
  <2>1. PICK c \in Nat : c = count(ls, l)
    BY CountOf
  <2>2. (x + c) * 2 \in Nat
    OBVIOUS
  <2>. QED  BY <1>1, <2>1, <2>2
<1>3. g \in [(0 .. Room - 1) \X (Nat \ {0}) -> 0 .. Room - 1]
  <2>1. \A p \in (0 .. Room - 1) \X (Nat \ {0}) : p[1] \in Nat
    BY MaxFacts
  <2>2. \A p \in (0 .. Room - 1) \X (Nat \ {0}) :
            uint16((p[1] + count(ls, p[2] - 1)) * 2) \in 0 .. Room - 1
    BY <1>2, <2>1, Zenon
  <2>. QED  BY <2>2, Zenon
<1>4. \A x \in 0 .. Room - 1, l \in Nat \ {0} : g[x, l] = uint16((x + count(ls, l - 1)) * 2)
  OBVIOUS
<1> HIDE DEF g
<1>5. PICK f \in [Nat -> 0 .. Room - 1] : f[0] = 0 /\ \A k \in Nat \ {0} : f[k] = g[f[k - 1], k]
  <2>1. 0 \in 0 .. Room - 1
    BY MaxFacts
  <2>2. \E f \in [Nat -> 0 .. Room - 1] : Recurring(f, 0, g)
    BY <1>3, <2>1, RecursionUnbounded, Zenon DEF Endless
  <2>. QED  BY <2>2, Zenon DEF Recurring
<1>6. Is(f)
  <2>1. ASSUME NEW k \in Nat PROVE f[k] = e(f, k)
    <3>1. CASE k = 0
      BY <1>5, <3>1
    <3>2. CASE k # 0
      <4>1. k \in Nat \ {0} /\ k - 1 \in Nat
        BY <3>2
      <4>2. f[k - 1] \in 0 .. Room - 1
        BY <4>1
      <4>. QED  BY <1>4, <1>5, <3>2, <4>1, <4>2
    <3>. QED  BY <3>1, <3>2
  <2>2. f = [k \in Nat |-> f[k]]
    OBVIOUS
  <2> HIDE DEF e
  <2>. QED  BY <2>1, <2>2
<1>7. PICK code : Is(code) /\ first_code(ls) = code
  <2>1. first_code(ls) = CHOOSE c : Is(c)
    BY DEF first_code
  <2> HIDE DEF Is
  <2>. QED  BY <1>6, <2>1
<1>8. \A l \in Nat : code[l] = e(code, l)
  <2> HIDE DEF e
  <2>. QED  BY <1>7
<1>9. ASSUME NEW n \in Nat PROVE code[n] \in 0 .. Room - 1
  <2> DEFINE T == {l \in Nat : code[l] \in 0 .. Room - 1}
  <2>1. 0 \in T
    <3>1. code[0] = 0
      BY <1>8
    <3>2. code[0] \in 0 .. Room - 1
      BY <3>1, MaxFacts
    <3>. QED  BY <3>2
  <2>2. ASSUME NEW j \in 0 .. n - 1, j \in T PROVE j + 1 \in T
    <3>1. j + 1 \in Nat /\ j + 1 # 0 /\ (j + 1) - 1 = j
      OBVIOUS
    <3>2. code[j + 1] = uint16((code[j] + count(ls, j)) * 2)
      BY <1>8, <3>1
    <3>3. code[j] \in Nat
      BY <2>2, MaxFacts
    <3>. QED  BY <1>2, <3>1, <3>2, <3>3
  <2> HIDE DEF T
  <2>3. n \in T
    <3>1. \A l \in 0 .. n : l \in T
      BY <2>1, <2>2, Climb
    <3>. QED  BY <3>1
  <2>. QED  BY <2>3 DEF T
<1>10. code \in [Nat -> 0 .. Room - 1]
  <2>1. code = [l \in Nat |-> code[l]]
    <3> HIDE DEF e
    <3>. QED  BY <1>7
  <2>. QED  BY <1>9, <2>1
<1>. QED  BY <1>7, <1>8, <1>10

LEMMA FirstCode ==
    ASSUME NEW n \in Nat, NEW ls \in Lengths(n)
    PROVE  /\ \A l \in 0 .. MAX_HUFFMAN_BITS : first_code(ls)[l] \in 0 .. Room - 1
           /\ first_code(ls)[0] = 0
           /\ \A l \in Width :
                first_code(ls)[l] = uint16((first_code(ls)[l - 1] + count(ls, l - 1)) * 2)
<1>1. DOMAIN ls = 0 .. n - 1 /\ IsFiniteSet(0 .. n - 1)
  BY FS_Interval DEF Lengths
<1>2. Width \subseteq Nat \ {0} /\ 0 .. MAX_HUFFMAN_BITS \subseteq Nat
  BY MaxFacts
<1>3. /\ first_code(ls) \in [Nat -> 0 .. Room - 1] /\ first_code(ls)[0] = 0
      /\ \A l \in Nat \ {0} :
            first_code(ls)[l] = uint16((first_code(ls)[l - 1] + count(ls, l - 1)) * 2)
  BY <1>1, FirstCodeOf
<1>. QED  BY <1>2, <1>3

LEMMA Cancel ==
    ASSUME NEW a \in Nat, NEW b \in Nat, NEW p \in Nat \ {0}
    PROVE  /\ a * p \in Nat /\ b * p \in Nat
           /\ a * p <= b * p => a <= b
           /\ a * p < b * p => a < b
           /\ a * p + b * p = (a + b) * p
<1>1. ASSUME NEW x \in Nat, NEW y \in Nat, x > y PROVE x * p >= y * p + p
  <2>1. PICK d \in Nat : x = y + d + 1
    <3>1. x - y - 1 \in Nat /\ x = y + (x - y - 1) + 1
      BY <1>1
    <3>. QED  BY <3>1
  <2>2. (y + d + 1) * p = y * p + d * p + p /\ d * p \in Nat
    BY SMTT(30)
  <2>. QED  BY <2>1, <2>2
<1>2. a * p \in Nat /\ b * p \in Nat /\ a * p + b * p = (a + b) * p
  BY SMTT(30)
<1>3. a > b => a * p >= b * p + p
  BY <1>1
<1>. QED  BY <1>2, <1>3

LEMMA ModFacts ==
    ASSUME NEW d \in Nat \ {0}
    PROVE  d % d = 0 /\ \A x \in 0 .. d - 1 : x % d = x
<1>1. (d * 1 + 0) % d = 0 /\ d * 1 + 0 = d
  BY DivModUnique
<1>2. ASSUME NEW x \in 0 .. d - 1 PROVE x % d = x
  <2>1. (d * 0 + x) % d = x /\ d * 0 + x = x
    BY DivModUnique
  <2>. QED  BY <2>1
<1>. QED  BY <1>1, <1>2

\* At length l, c codewords of p each are added to x.
Adds(T, ls, l, p, q, c, x) ==
    /\ p \in Nat \ {0} /\ q \in Nat \ {0} /\ p * q = Room
    /\ p = 2 ^ (MAX_HUFFMAN_BITS - l) /\ q = 2 ^ l
    /\ c \in Nat /\ c = count(ls, l) /\ c = Cardinality(OfLength(ls, l))
    /\ x \in Nat /\ x = T[l - 1] /\ T[l] = x + c * p /\ T[l] \in Nat

LEMMA FillsStep ==
    ASSUME NEW n \in Nat, NEW ls \in Lengths(n), NEW T, Fills(T, ls), NEW l \in Width
    PROVE  \E p, q, c, x : Adds(T, ls, l, p, q, c, x)
<1>1. l \in 0 .. MAX_HUFFMAN_BITS /\ l - 1 \in 0 .. MAX_HUFFMAN_BITS /\ l # 0 /\ l \in 1 .. MAX_HUFFMAN_BITS
  BY MaxFacts
<1>2. PICK p, q \in Nat \ {0} : p = 2 ^ (MAX_HUFFMAN_BITS - l) /\ q = 2 ^ l /\ p * q = Room
  BY <1>1, RoomSplit
<1>3. PICK c \in Nat : c = count(ls, l) /\ c = Cardinality(OfLength(ls, l))
  BY <1>1, CountFacts
<1>4. T[l - 1] \in Nat /\ T[l] \in Nat
  BY <1>1 DEF Fills
<1>5. T[l] = T[l - 1] + count(ls, l) * 2 ^ (MAX_HUFFMAN_BITS - l)
  BY DEF Fills
<1>6. PICK x \in Nat : x = T[l - 1]
  BY <1>4
<1>7. Adds(T, ls, l, p, q, c, x)
  BY <1>2, <1>3, <1>4, <1>5, <1>6, Zenon DEF Adds
<1>. QED  BY <1>7

LEMMA FillsGrow ==
    ASSUME NEW n \in Nat, NEW ls \in Lengths(n), NEW T, Fills(T, ls),
           NEW l \in 0 .. MAX_HUFFMAN_BITS, NEW k \in 0 .. l
    PROVE  T[k] \in Nat /\ T[l] \in Nat /\ T[k] <= T[l]
<1>0. l \in Nat /\ k \in Nat /\ l - k \in Nat /\ MAX_HUFFMAN_BITS \in Nat
  BY MaxFacts
<1> DEFINE A == {d \in 0 .. l - k : T[k + d] \in Nat /\ T[k] <= T[k + d]}
<1>1. \A j \in 0 .. l : T[j] \in Nat
  BY <1>0 DEF Fills
<1>2. 0 \in A
  <2>1. k + 0 = k /\ T[k] \in Nat
    BY <1>0, <1>1
  <2>. QED  BY <1>0, <2>1
<1>3. ASSUME NEW d \in 0 .. (l - k) - 1, d \in A PROVE d + 1 \in A
  <2>1. k + d + 1 \in Width /\ (k + d + 1) - 1 = k + d /\ k + (d + 1) = k + d + 1 /\ d + 1 \in 0 .. l - k
    BY <1>0, MaxFacts
  <2>2. PICK p \in Nat \ {0}, c \in Nat, x \in Nat : x = T[k + d] /\ T[k + d + 1] = x + c * p
    <3>1. PICK j \in Width : j = k + d + 1
      BY <2>1
    <3>2. PICK p, q, c, x : Adds(T, ls, j, p, q, c, x)
      BY FillsStep
    <3>. QED  BY <2>1, <3>1, <3>2 DEF Adds
  <2>3. c * p \in Nat
    BY TimesNat
  <2>4. T[k] \in Nat /\ T[k] <= x
    BY <1>1, <1>3, <2>2
  <2>5. T[k + (d + 1)] = x + c * p
    BY <2>1, <2>2
  <2>6. T[k + (d + 1)] \in Nat /\ T[k] <= T[k + (d + 1)]
    BY <2>3, <2>4, <2>5
  <2>. QED  BY <2>1, <2>6
<1>4. l - k \in A
  <2> HIDE DEF A
  <2>1. \A d \in 0 .. l - k : d \in A
    BY <1>0, <1>2, <1>3, Climb
  <2>. QED  BY <1>0, <2>1
<1>5. k + (l - k) = l
  BY <1>0
<1>. QED  BY <1>1, <1>4, <1>5

\* What the first codeword of a length leaves below it is what is taken up, unless
\* all is: then, at the full width, it wraps to zero.
LEMMA FirstFits ==
    ASSUME NEW n \in Nat, NEW ls \in Lengths(n), NEW T, Fills(T, ls),
           NEW l \in Width, \A k \in 0 .. l - 1 : T[k] <= Room
    PROVE  IF l = MAX_HUFFMAN_BITS /\ T[l - 1] = Room THEN first_code(ls)[l] = 0
           ELSE first_code(ls)[l] * 2 ^ (MAX_HUFFMAN_BITS - l) = T[l - 1]
<1> DEFINE F == first_code(ls)
           Good(j) == IF j = MAX_HUFFMAN_BITS /\ T[j - 1] = Room THEN F[j] = 0
                      ELSE F[j] * 2 ^ (MAX_HUFFMAN_BITS - j) = T[j - 1]
           A == {j \in 0 .. l : j = 0 \/ Good(j)}
<1>0. l \in Nat /\ l # 0 /\ MAX_HUFFMAN_BITS \in Nat /\ l <= MAX_HUFFMAN_BITS /\ Room \in Nat \ {0}
  BY MaxFacts
<1>1. (\A i \in 0 .. MAX_HUFFMAN_BITS : F[i] \in 0 .. Room - 1) /\ F[0] = 0
      /\ \A j \in Width : F[j] = uint16((F[j - 1] + count(ls, j - 1)) * 2)
  BY FirstCode
<1> HIDE DEF F
<1>2. 0 \in A
  BY <1>0
<1>3. ASSUME NEW j \in 0 .. l - 1, j \in A PROVE j + 1 \in A
  <2>0. j \in Nat /\ j < MAX_HUFFMAN_BITS /\ j + 1 \in Width /\ (j + 1) - 1 = j /\ j \in 0 .. MAX_HUFFMAN_BITS
        /\ j + 1 \in 0 .. MAX_HUFFMAN_BITS /\ MAX_HUFFMAN_BITS - (j + 1) \in Nat
        /\ (MAX_HUFFMAN_BITS - (j + 1)) + 1 = MAX_HUFFMAN_BITS - j /\ j + 1 \in 0 .. l
    BY <1>0, MaxFacts
  <2>1. PICK p, q \in Nat \ {0} : p = 2 ^ (MAX_HUFFMAN_BITS - (j + 1)) /\ q = 2 ^ (j + 1) /\ p * q = Room
    BY <2>0, RoomSplit
  <2>2. 2 ^ (MAX_HUFFMAN_BITS - j) = 2 * p
    BY <2>0, <2>1, PowerStep
  <2>3. PICK u \in Nat : u = F[j] + count(ls, j)
    <3>1. F[j] \in Nat /\ count(ls, j) \in Nat
      BY <1>0, <1>1, <2>0, CountFacts
    <3>. QED  BY <3>1
  <2>4. PICK t \in Nat : t = T[j] /\ t <= Room
    BY <2>0 DEF Fills
  <2>5. u * (2 * p) = t
    <3>1. CASE j = 0
      <4>1. count(ls, j) = 0 /\ T[j] = 0 /\ u = 0
        BY <1>1, <2>3, <3>1 DEF Fills, count
      <4>. QED  BY <2>4, <4>1
    <3>2. CASE j # 0
      <4>1. j \in Width
        BY <2>0, <3>2, MaxFacts
      <4>2. PICK pj, qj, c, x : Adds(T, ls, j, pj, qj, c, x)
        BY <4>1, FillsStep
      <4>3. F[j] * 2 ^ (MAX_HUFFMAN_BITS - j) = T[j - 1]
        BY <1>3, <2>0, <3>2
      <4>4. PICK f \in Nat : f = F[j]
        BY <1>0, <1>1, <2>0
      <4>5. pj = 2 * p /\ f * pj = x
        BY <2>2, <4>2, <4>3, <4>4, Zenon DEF Adds
      <4>6. u = f + c
        BY <2>3, <4>2, <4>4 DEF Adds
      <4>7. u * pj = f * pj + c * pj
        BY <4>2, <4>6, Cancel DEF Adds
      <4>. QED  BY <2>4, <4>2, <4>5, <4>7 DEF Adds
    <3>. QED  BY <3>1, <3>2
  <2>6. (u * 2) * p = t /\ u * 2 \in Nat
    <3>1. u * (2 * p) = (u * 2) * p
      BY SMTT(30)
    <3>. QED  BY <2>5, <3>1
  <2>7. u * 2 <= q
    <3>1. (u * 2) * p <= q * p
      <4>1. q * p = p * q
        BY SMTT(30)
      <4>. QED  BY <2>1, <2>4, <2>6, <4>1
    <3>2. PICK v \in Nat : v = u * 2
      BY <2>6
    <3>. QED  BY <3>1, <3>2, Cancel
  <2>8. F[j + 1] = (u * 2) % Room
    <3>1. F[j + 1] = uint16((F[j] + count(ls, j)) * 2)
      BY <1>1, <2>0
    <3>. QED  BY <2>3, <3>1 DEF uint16, Room
  <2>9. CASE j + 1 = MAX_HUFFMAN_BITS
    <3>1. p = 1
      <4>1. MAX_HUFFMAN_BITS - (j + 1) = 0
        BY <1>0, <2>9
      <4>. QED  BY <2>1, <4>1, 2 ^ 0 = 1
    <3>2. u * 2 = t
      BY <2>6, <3>1
    <3>3. CASE t = Room
      <4>1. F[j + 1] = 0
        BY <1>0, <2>8, <3>2, <3>3, ModFacts
      <4>. QED  BY <2>0, <2>4, <2>9, <3>3, <4>1
    <3>4. CASE t # Room
      <4>1. t \in 0 .. Room - 1
        BY <1>0, <2>4, <3>4
      <4>2. F[j + 1] = t
        BY <1>0, <2>8, <3>2, <4>1, ModFacts
      <4>3. F[j + 1] * p = T[j]
        BY <2>4, <3>1, <4>2
      <4>. QED  BY <2>0, <2>1, <2>4, <3>4, <4>3
    <3>. QED  BY <3>3, <3>4
  <2>10. CASE j + 1 # MAX_HUFFMAN_BITS
    <3>1. p >= 2
      <4>1. PICK e \in Nat : MAX_HUFFMAN_BITS - (j + 1) = e + 1
        <5>1. (MAX_HUFFMAN_BITS - (j + 1)) - 1 \in Nat
              /\ MAX_HUFFMAN_BITS - (j + 1) = ((MAX_HUFFMAN_BITS - (j + 1)) - 1) + 1
          BY <1>0, <2>0, <2>10
        <5>. QED  BY <5>1
      <4>2. 2 ^ (e + 1) = 2 * 2 ^ e /\ 2 ^ e >= 1 /\ 2 ^ e \in Nat
        BY PowerStep
      <4>. QED  BY <2>1, <4>1, <4>2
    <3>2. q < Room
      <4>1. p * q >= 2 * q
        <5>1. PICK d \in Nat : p = d + 2
          <6>1. p - 2 \in Nat /\ p = (p - 2) + 2
            BY <3>1
          <6>. QED  BY <6>1
        <5>2. (d + 2) * q = d * q + 2 * q /\ d * q \in Nat
          BY SMTT(30)
        <5>. QED  BY <5>1, <5>2
      <4>. QED  BY <2>1, <4>1
    <3>3. u * 2 \in 0 .. Room - 1
      BY <1>0, <2>6, <2>7, <3>2
    <3>4. F[j + 1] = u * 2
      BY <1>0, <2>8, <3>3, ModFacts
    <3>5. F[j + 1] * p = T[j]
      BY <2>4, <2>6, <3>4
    <3>6. F[j + 1] * 2 ^ (MAX_HUFFMAN_BITS - (j + 1)) = T[(j + 1) - 1]
      BY <2>0, <2>1, <3>5
    <3>. QED  BY <2>0, <2>10, <3>6
  <2>. QED  BY <2>9, <2>10
<1>4. l \in A
  <2> HIDE DEF A
  <2>1. \A j \in 0 .. l : j \in A
    BY <1>0, <1>2, <1>3, Climb
  <2>. QED  BY <1>0, <2>1
<1>. QED  BY <1>0, <1>4 DEF F

--------------------------------------------------------------------------------
(***************************************************************************)
(* What huffman_decoder_init accepts.                                      *)
(***************************************************************************)
\* One length again, with its first codeword, while there is room.
AtLength(T, ls, l, p, q, c, x, f) ==
    /\ Adds(T, ls, l, p, q, c, x) /\ x <= Room
    /\ f \in Nat /\ f = first_code(ls)[l] /\ f < Room
    /\ x < Room \/ l < MAX_HUFFMAN_BITS => f * p = x /\ T[l] = (f + c) * p
    /\ ~(x < Room \/ l < MAX_HUFFMAN_BITS) => f = 0

LEMMA LengthFacts ==
    ASSUME NEW n \in Nat, NEW ls \in Lengths(n), NEW T, Fills(T, ls),
           NEW l \in Width, \A k \in 0 .. l - 1 : T[k] <= Room
    PROVE  \E p, q, c, x, f : AtLength(T, ls, l, p, q, c, x, f)
<1>0. l \in 0 .. MAX_HUFFMAN_BITS /\ l - 1 \in 0 .. l - 1 /\ Room \in Nat
      /\ (l < MAX_HUFFMAN_BITS \/ l = MAX_HUFFMAN_BITS)
  BY MaxFacts
<1>1. PICK p, q, c, x : Adds(T, ls, l, p, q, c, x)
  BY FillsStep
<1>2. x \in Nat /\ x <= Room /\ x = T[l - 1]
  BY <1>0, <1>1 DEF Adds
<1>3. PICK f \in Nat : f = first_code(ls)[l] /\ f < Room
  <2>1. first_code(ls)[l] \in 0 .. Room - 1
    BY <1>0, FirstCode, Zenon
  <2>. QED  BY <1>0, <2>1
<1>4. IF l = MAX_HUFFMAN_BITS /\ x = Room THEN f = 0 ELSE f * p = x
  <2>1. IF l = MAX_HUFFMAN_BITS /\ T[l - 1] = Room THEN first_code(ls)[l] = 0
        ELSE first_code(ls)[l] * 2 ^ (MAX_HUFFMAN_BITS - l) = T[l - 1]
    BY FirstFits, Zenon
  <2>2. p = 2 ^ (MAX_HUFFMAN_BITS - l)
    BY <1>1 DEF Adds
  <2>. QED  BY <1>2, <1>3, <2>1, <2>2, Zenon
<1>5. f * p = x => T[l] = (f + c) * p
  <2>1. f * p + c * p = (f + c) * p
    BY <1>1, Cancel DEF Adds
  <2>. QED  BY <1>1, <2>1 DEF Adds
<1>6. (x < Room \/ l < MAX_HUFFMAN_BITS) <=> ~(l = MAX_HUFFMAN_BITS /\ x = Room)
  BY <1>0, <1>2
<1>7. AtLength(T, ls, l, p, q, c, x, f)
  BY <1>1, <1>2, <1>3, <1>4, <1>5, <1>6, Zenon DEF AtLength
<1>. QED  BY <1>7

\* A code that passes leaves room for its longest codewords, at least.
LEMMA InitLeavesRoom ==
    ASSUME NEW n \in Nat, NEW ls \in Lengths(n), NEW T, Fills(T, ls), huffman_decoder_init(ls)
    PROVE  \A k \in 0 .. MAX_HUFFMAN_BITS - 1 : T[k] <= Room
<1> DEFINE A == {j \in 0 .. MAX_HUFFMAN_BITS - 1 : \A k \in 0 .. j : T[k] <= Room}
<1>0. MAX_HUFFMAN_BITS \in Nat /\ MAX_HUFFMAN_BITS - 1 \in Nat /\ Room \in Nat
  BY MaxFacts
<1>1. 0 \in A
  <2>1. T[0] <= Room
    BY <1>0 DEF Fills
  <2>. QED  BY <1>0, <2>1
<1>2. ASSUME NEW j \in 0 .. (MAX_HUFFMAN_BITS - 1) - 1, j \in A PROVE j + 1 \in A
  <2>1. PICK l \in Width : l = j + 1
    BY <1>0, MaxFacts
  <2>2. l < MAX_HUFFMAN_BITS /\ l - 1 = j /\ l \in 0 .. MAX_HUFFMAN_BITS - 1
    BY <1>0, <2>1
  <2>3. \A k \in 0 .. l - 1 : T[k] <= Room
    BY <1>2, <2>2
  <2>4. PICK p, q, c, x, f : AtLength(T, ls, l, p, q, c, x, f)
    BY <2>3, LengthFacts, Zenon
  <2>. /\ p \in Nat \ {0} /\ q \in Nat \ {0} /\ p * q = Room /\ q = 2 ^ l
       /\ c \in Nat /\ c = count(ls, l) /\ x \in Nat /\ x <= Room /\ T[l] = x + c * p
       /\ f \in Nat /\ f = first_code(ls)[l] /\ T[l] = (f + c) * p
    BY <2>2, <2>4 DEF AtLength, Adds
  <2>5. T[l] <= Room
    <3>1. CASE c = 0
      BY <3>1
    <3>2. CASE c # 0
      <4>1. f + c - 1 <= q - 1
        BY <3>2 DEF huffman_decoder_init
      <4>2. PICK v \in Nat, d \in Nat : v = f + c /\ q = v + d
        <5>1. f + c \in Nat /\ q - (f + c) \in Nat /\ q = (f + c) + (q - (f + c))
          BY <4>1
        <5>. QED  BY <5>1
      <4>3. T[l] = v * p
        BY <4>2
      <4>4. p * (v + d) = v * p + d * p /\ v * p \in Nat /\ d * p \in Nat
        BY SMTT(30)
      <4>5. Room = v * p + d * p
        BY <4>2, <4>4, Zenon
      <4>. QED  BY <4>3, <4>4, <4>5
    <3>. QED  BY <3>1, <3>2
  <2>6. \A k \in 0 .. l : T[k] <= Room
    <3>1. \A k \in 0 .. l : k = l \/ k \in 0 .. l - 1
      BY <2>2
    <3>. QED  BY <2>3, <2>5, <3>1
  <2>. QED  BY <2>1, <2>2, <2>6
<1>3. MAX_HUFFMAN_BITS - 1 \in A
  <2> HIDE DEF A
  <2>1. \A j \in 0 .. MAX_HUFFMAN_BITS - 1 : j \in A
    BY <1>0, <1>1, <1>2, Climb
  <2>. QED  BY <1>0, <2>1
<1>. QED  BY <1>3

\* Every prefix code passes.
LEMMA PrefixCodePasses ==
    ASSUME NEW n \in Nat, NEW ls \in Lengths(n), NEW T, Fills(T, ls), T[MAX_HUFFMAN_BITS] <= Room
    PROVE  /\ huffman_decoder_init(ls)
           /\ \A l \in Width : count(ls, l) # 0 => T[l - 1] < Room
<1> SUFFICES ASSUME NEW l \in Width, count(ls, l) # 0
             PROVE  /\ T[l - 1] < Room
                    /\ first_code(ls)[l] + count(ls, l) - 1 <= 2 ^ l - 1
  BY DEF huffman_decoder_init
<1>0. MAX_HUFFMAN_BITS \in Nat /\ MAX_HUFFMAN_BITS \in 0 .. MAX_HUFFMAN_BITS /\ Room \in Nat
      /\ l \in 0 .. MAX_HUFFMAN_BITS /\ l \in Nat /\ l <= MAX_HUFFMAN_BITS
  BY MaxFacts
<1>1. \A k \in 0 .. MAX_HUFFMAN_BITS : T[k] \in Nat /\ T[k] <= Room
  <2>1. \A k \in 0 .. MAX_HUFFMAN_BITS :
            T[k] \in Nat /\ T[MAX_HUFFMAN_BITS] \in Nat /\ T[k] <= T[MAX_HUFFMAN_BITS]
    BY <1>0, FillsGrow
  <2>. QED  BY <1>0, <2>1
<1>2. \A k \in 0 .. l - 1 : T[k] <= Room
  BY <1>0, <1>1
<1>3. PICK p, q, c, x, f : AtLength(T, ls, l, p, q, c, x, f)
  BY <1>2, LengthFacts, Zenon
<1>. /\ p \in Nat \ {0} /\ q \in Nat \ {0} /\ p * q = Room /\ q = 2 ^ l
     /\ c \in Nat /\ c = count(ls, l) /\ x \in Nat /\ x <= Room /\ T[l] = x + c * p /\ x = T[l - 1]
     /\ f \in Nat /\ f = first_code(ls)[l] /\ (x < Room => f * p = x /\ T[l] = (f + c) * p)
  BY <1>3 DEF AtLength, Adds
<1>4. x < Room /\ T[l] <= Room
  <2>1. c * p >= 1 /\ c * p \in Nat
    <3>1. 0 < c
      OBVIOUS
    <3>2. PICK d \in Nat, e \in Nat : c = d + 1 /\ p = e + 1
      <4>1. c - 1 \in Nat /\ p - 1 \in Nat /\ c = (c - 1) + 1 /\ p = (p - 1) + 1
        BY <3>1
      <4>. QED  BY <4>1
    <3>3. (d + 1) * (e + 1) = d * e + d + e + 1 /\ d * e \in Nat
      BY SMTT(30)
    <3>. QED  BY <3>2, <3>3
  <2>2. x + c * p <= Room
    BY <1>0, <1>1
  <2>. QED  BY <1>0, <1>1, <2>1, <2>2
<1>5. f + c <= q
  <2>1. PICK v \in Nat : v = f + c
    OBVIOUS
  <2>2. v * p <= q * p
    <3>1. p * q = q * p
      BY SMTT(30)
    <3>. QED  BY <1>4, <2>1, <3>1
  <2>. QED  BY <2>1, <2>2, Cancel
<1>. QED  BY <1>4, <1>5

\* Without codewords of the full width, nothing else does.
LEMMA PassesPrefixCode ==
    ASSUME NEW n \in Nat, NEW ls \in Lengths(n), NEW T, Fills(T, ls), huffman_decoder_init(ls),
           OfLength(ls, MAX_HUFFMAN_BITS) = {}
    PROVE  T[MAX_HUFFMAN_BITS] <= Room
<1>1. PICK l \in Width : l = MAX_HUFFMAN_BITS
  BY MaxFacts
<1>2. PICK p, q, c, x : Adds(T, ls, l, p, q, c, x)
  BY FillsStep
<1>3. c = 0
  BY <1>1, <1>2, FS_EmptySet DEF Adds
<1>4. T[l] = T[l - 1]
  BY <1>2, <1>3 DEF Adds
<1>5. T[MAX_HUFFMAN_BITS - 1] <= Room
  BY InitLeavesRoom, MaxFacts
<1>. QED  BY <1>1, <1>4, <1>5

--------------------------------------------------------------------------------
(***************************************************************************)
(* Symbols and codewords.                                                  *)
(***************************************************************************)
Below(A, s) == {t \in A : t < s}

\* The elements of a finite set of numbers are told apart by how many are smaller,
\* and there is one for every such number.
LEMMA Ranks ==
    ASSUME NEW A, A \subseteq Nat, IsFiniteSet(A)
    PROVE  /\ \A s \in A : Cardinality(Below(A, s)) \in 0 .. Cardinality(A) - 1
           /\ \A s, t \in A : Cardinality(Below(A, s)) = Cardinality(Below(A, t)) => s = t
           /\ \A r \in 0 .. Cardinality(A) - 1 : \E s \in A : Cardinality(Below(A, s)) = r
<1> DEFINE c == Cardinality(A)
           rank(s) == Cardinality(Below(A, s))
           f == [s \in A |-> rank(s)]
<1>1. c \in Nat
  BY FS_CardinalityType
<1>2. ASSUME NEW s \in A, NEW B \in SUBSET A, Below(A, s) \subseteq B, s \in B
      PROVE  rank(s) \in Nat /\ Cardinality(B) \in Nat /\ rank(s) < Cardinality(B)
  <2>1. s \notin Below(A, s)
    BY DEF Below
  <2>2. IsFiniteSet(B) /\ IsFiniteSet(Below(A, s))
    BY <1>2, FS_Subset
  <2>3. rank(s) \in Nat /\ Cardinality(B) \in Nat
    BY <2>2, FS_CardinalityType
  <2>4. IsFiniteSet(B \ {s}) /\ Cardinality(B \ {s}) = Cardinality(B) - 1
    BY <1>2, <2>2, FS_RemoveElement
  <2>5. rank(s) <= Cardinality(B \ {s})
    <3>1. Below(A, s) \subseteq B \ {s}
      BY <1>2, <2>1
    <3>. QED  BY <2>4, <3>1, FS_Subset
  <2>. QED  BY <2>3, <2>4, <2>5
<1>3. ASSUME NEW s \in A PROVE rank(s) \in 0 .. c - 1
  <2>1. rank(s) \in Nat /\ rank(s) < c
    BY <1>2 DEF Below
  <2>. QED  BY <1>1, <2>1
<1>4. ASSUME NEW s \in A, NEW t \in A, s < t PROVE rank(s) < rank(t)
  <2>1. Below(A, s) \subseteq Below(A, t) /\ s \in Below(A, t) /\ Below(A, t) \in SUBSET A
    <3>1. \A x \in A : x < s => x < t
      BY <1>4
    <3>. QED  BY <1>4, <3>1 DEF Below
  <2>. QED  BY <1>2, <2>1
<1>5. ASSUME NEW s \in A, NEW t \in A, rank(s) = rank(t) PROVE s = t
  <2>1. rank(s) \in Nat /\ rank(t) \in Nat
    BY <1>1, <1>3
  <2>2. ~(s < t) /\ ~(t < s)
    <3> HIDE DEF rank
    <3>. QED  BY <1>4, <1>5, <2>1
  <2>. QED  BY <2>2
<1>6. ASSUME NEW r \in 0 .. c - 1 PROVE \E s \in A : rank(s) = r
  <2>1. IsFiniteSet(0 .. c - 1) /\ Cardinality(0 .. c - 1) = c
    BY <1>1, FS_Interval
  <2>2. f \in Injection(A, 0 .. c - 1)
    <3>1. f \in [A -> 0 .. c - 1]
      BY <1>3
    <3>2. \A s, t \in A : f[s] = f[t] => s = t
      BY <1>5
    <3> HIDE DEF f
    <3>. QED  BY <3>1, <3>2, Zenon DEF Injection, IsInjective
  <2> HIDE DEF f
  <2>3. f \in Surjection(A, 0 .. c - 1)
    BY <2>1, <2>2, FS_Injection
  <2>4. PICK s \in A : f[s] = r
    BY <2>3 DEF Surjection
  <2>. QED  BY <2>4 DEF f
<1>. QED  BY <1>3, <1>5, <1>6

\* The place of s among the symbols of its length.
Rank(ls, s) == Cardinality(Below(OfLength(ls, ls[s]), s))

\* The codewords of a length: one after the other from the first.
LEMMA Canonical ==
    ASSUME NEW n \in Nat, NEW ls \in Lengths(n), NEW T, Fills(T, ls), huffman_decoder_init(ls),
           NEW s \in 0 .. n - 1, ls[s] # 0
    PROVE  /\ ls[s] \in Width /\ count(ls, ls[s]) # 0
           /\ Rank(ls, s) \in 0 .. count(ls, ls[s]) - 1
           /\ CanonicalCode(ls, s) = first_code(ls)[ls[s]] + Rank(ls, s)
           /\ CanonicalCode(ls, s) \in 0 .. 2 ^ ls[s] - 1
<1> DEFINE l == ls[s]
<1>1. l \in Width /\ l \in 0 .. MAX_HUFFMAN_BITS /\ \A k \in 0 .. l - 1 : k \in 0 .. MAX_HUFFMAN_BITS - 1
  BY MaxFacts DEF Lengths
<1>2. \A k \in 0 .. l - 1 : T[k] <= Room
  BY <1>1, InitLeavesRoom
<1>3. PICK p, q, c, x, f : AtLength(T, ls, l, p, q, c, x, f)
  BY <1>1, <1>2, LengthFacts
<1>. /\ p \in Nat \ {0} /\ q \in Nat \ {0} /\ p * q = Room /\ q = 2 ^ l
     /\ c \in Nat /\ c = count(ls, l) /\ c = Cardinality(OfLength(ls, l))
     /\ f \in Nat /\ f = first_code(ls)[l]
  BY <1>3 DEF AtLength, Adds
<1>4. OfLength(ls, l) \subseteq Nat /\ IsFiniteSet(OfLength(ls, l)) /\ s \in OfLength(ls, l)
  <2>1. s \in OfLength(ls, l)
    BY DEF OfLength, Lengths
  <2>. QED  BY <2>1, CountFacts
<1>5. PICK r \in 0 .. c - 1 : r = Rank(ls, s)
  BY <1>4, Ranks DEF Rank
<1>6. f + r <= q - 1
  <2>1. c # 0
    BY <1>5
  <2>2. f + c - 1 <= q - 1
    BY <1>1, <2>1 DEF huffman_decoder_init
  <2>. QED  BY <1>5, <2>2
<1>7. q <= Room
  <2>1. PICK d \in Nat : p = d + 1
    <3>1. p - 1 \in Nat /\ p = (p - 1) + 1
      OBVIOUS
    <3>. QED  BY <3>1
  <2>2. (d + 1) * q = d * q + q /\ d * q \in Nat
    BY SMTT(30)
  <2>. QED  BY <2>1, <2>2
<1>8. CanonicalCode(ls, s) = (f + r) % Room
  <2>1. Below(OfLength(ls, l), s) = {t \in OfLength(ls, ls[s]) : t < s}
    BY DEF Below
  <2>. QED  BY <1>5, <2>1 DEF CanonicalCode, Rank, uint16, Room
<1>9. (f + r) % Room = f + r
  <2>1. Room \in Nat \ {0} /\ r \in Nat
    BY <1>5, MaxFacts
  <2>2. \A u, v, w \in Nat : u <= v - 1 /\ v <= w => u \in 0 .. w - 1
    OBVIOUS
  <2>3. f + r \in Nat
    BY <2>1
  <2>4. f + r \in 0 .. Room - 1
    BY <1>6, <1>7, <2>1, <2>2, <2>3
  <2>. QED  BY <2>1, <2>4, ModFacts
<1>. QED  BY <1>1, <1>5, <1>6, <1>8, <1>9

\* The bits m, first bit on top, begin with the codeword of s.
Begins(m, ls, s) == ls[s] # 0 /\ m \div 2 ^ (MAX_HUFFMAN_BITS - ls[s]) = CanonicalCode(ls, s)

\* Where they fall into the room of a length, a codeword of it begins them.
LEMMA SomeBegins ==
    ASSUME NEW n \in Nat, NEW ls \in Lengths(n), NEW T, Fills(T, ls), huffman_decoder_init(ls),
           NEW m \in 0 .. Room - 1, NEW l \in Width, T[l - 1] <= m, m < T[l]
    PROVE  /\ \E s \in 0 .. n - 1 : ls[s] = l /\ Begins(m, ls, s)
           /\ sentinel_bits(ls, l) = T[l]
<1>1. l \in 0 .. MAX_HUFFMAN_BITS /\ l # 0 /\ Room \in Nat
      /\ \A k \in 0 .. l - 1 : k \in 0 .. MAX_HUFFMAN_BITS - 1
  BY MaxFacts
<1>2. \A k \in 0 .. l - 1 : T[k] <= Room
  BY <1>1, InitLeavesRoom
<1>3. PICK p, q, c, x, f : AtLength(T, ls, l, p, q, c, x, f)
  BY <1>1, <1>2, LengthFacts
<1>. /\ p \in Nat \ {0} /\ p = 2 ^ (MAX_HUFFMAN_BITS - l)
     /\ c \in Nat /\ c = count(ls, l) /\ c = Cardinality(OfLength(ls, l))
     /\ x \in Nat /\ x <= m /\ m < x + c * p
     /\ f \in Nat /\ f = first_code(ls)[l] /\ f * p = x /\ T[l] = (f + c) * p
  <2>1. x <= m /\ x < Room /\ m < x + c * p
    BY <1>1, <1>3 DEF AtLength, Adds
  <2>. QED  BY <1>3, <2>1 DEF AtLength, Adds
<1>4. PICK t \in Nat, e \in 0 .. p - 1 : t = m \div p /\ m = p * t + e
  <2>1. m \in Nat
    BY <1>1
  <2>2. m \div p \in Nat /\ m % p \in 0 .. p - 1 /\ m = p * (m \div p) + (m % p)
    BY <2>1, DivMod
  <2>. QED  BY <2>2
<1>5. f <= t /\ t < f + c
  <2>1. p * t = t * p /\ p * (t + 1) = p * t + p /\ (t + 1) * p = p * (t + 1) /\ t * p \in Nat
        /\ (f + c) * p \in Nat /\ f * p \in Nat /\ (f + c) * p = f * p + c * p
    BY SMTT(30)
  <2>2. f * p < (t + 1) * p /\ t * p < (f + c) * p
    BY <1>4, <2>1
  <2>3. f < t + 1
    <3>1. PICK v \in Nat : v = t + 1
      OBVIOUS
    <3>. QED  BY <2>2, <3>1, Cancel
  <2>4. t < f + c
    <3>1. PICK v \in Nat : v = f + c
      OBVIOUS
    <3>. QED  BY <2>2, <3>1, Cancel
  <2>. QED  BY <2>3, <2>4
<1>6. PICK s \in OfLength(ls, l) : Cardinality(Below(OfLength(ls, l), s)) = t - f
  <2>1. OfLength(ls, l) \subseteq Nat /\ IsFiniteSet(OfLength(ls, l))
    BY CountFacts
  <2>2. t - f \in 0 .. c - 1
    BY <1>5
  <2>. QED  BY <2>1, <2>2, Ranks
<1>7. s \in 0 .. n - 1 /\ ls[s] = l
  BY DEF OfLength, Lengths
<1>8. CanonicalCode(ls, s) = f + Rank(ls, s) /\ Rank(ls, s) = t - f
  BY <1>1, <1>6, <1>7, Canonical DEF Rank
<1>9. CanonicalCode(ls, s) = t
  <2>1. \A u, v \in Nat : u + (v - u) = v
    OBVIOUS
  <2>2. f + (t - f) = t
    BY <2>1
  <2>. QED  BY <1>8, <2>2
<1>10. Begins(m, ls, s)
  BY <1>1, <1>4, <1>7, <1>9 DEF Begins
<1>11. sentinel_bits(ls, l) = T[l]
  BY DEF sentinel_bits
<1>. QED  BY <1>7, <1>10, <1>11

\* A product of sums, term by term.
Spreads(p, f, r, d, u, v, w) ==
    /\ u = f * p /\ v = r * p /\ w = d * p
    /\ p * (f + r) = u + v /\ (f + (r + 1 + d)) * p = u + v + p + w

LEMMA Spread ==
    ASSUME NEW p \in Nat, NEW f \in Nat, NEW r \in Nat, NEW d \in Nat
    PROVE  \E u \in Nat, v \in Nat, w \in Nat : Spreads(p, f, r, d, u, v, w)
<1>1. f * p \in Nat /\ r * p \in Nat /\ d * p \in Nat
  BY TimesNat
<1>2. p * (f + r) = f * p + r * p
  BY SMTT(30)
<1>3. (f + (r + 1 + d)) * p = f * p + r * p + p + d * p
  BY SMTT(30)
<1>. QED  BY <1>1, <1>2, <1>3 DEF Spreads

\* The other way round: bits that begin with a codeword fall into its length's room.
LEMMA BeginsWithin ==
    ASSUME NEW n \in Nat, NEW ls \in Lengths(n), NEW T, Fills(T, ls), huffman_decoder_init(ls),
           NEW m \in 0 .. Room - 1, NEW s \in 0 .. n - 1, Begins(m, ls, s),
           ls[s] < MAX_HUFFMAN_BITS \/ T[ls[s] - 1] < Room
    PROVE  T[ls[s] - 1] <= m /\ m < T[ls[s]]
<1> DEFINE l == ls[s]
<1>1. l \in Width /\ l # 0 /\ Room \in Nat /\ \A k \in 0 .. l - 1 : k \in 0 .. MAX_HUFFMAN_BITS - 1
  BY MaxFacts DEF Lengths, Begins
<1>2. \A k \in 0 .. l - 1 : T[k] <= Room
  BY <1>1, InitLeavesRoom
<1>3. PICK p, q, c, x, f : AtLength(T, ls, l, p, q, c, x, f)
  BY <1>1, <1>2, LengthFacts
<1>. /\ p \in Nat \ {0} /\ p = 2 ^ (MAX_HUFFMAN_BITS - l)
     /\ c \in Nat /\ c = count(ls, l) /\ x \in Nat /\ x = T[l - 1]
     /\ f \in Nat /\ f = first_code(ls)[l] /\ f * p = x /\ T[l] = (f + c) * p
  BY <1>3 DEF AtLength, Adds
<1>4. PICK r \in 0 .. c - 1 : CanonicalCode(ls, s) = f + r
  BY <1>1, Canonical
<1>5. PICK t \in Nat, e \in 0 .. p - 1 : t = m \div p /\ m = p * t + e
  <2>1. m \in Nat
    BY <1>1
  <2>2. m \div p \in Nat /\ m % p \in 0 .. p - 1 /\ m = p * (m \div p) + (m % p)
    BY <2>1, DivMod
  <2>. QED  BY <2>2
<1>6. t = f + r
  BY <1>4, <1>5 DEF Begins
<1>7. PICK d \in Nat : c = r + 1 + d
  <2>1. c - r - 1 \in Nat /\ c = r + 1 + (c - r - 1)
    BY <1>4
  <2>. QED  BY <2>1
<1>8. PICK u \in Nat, v \in Nat, w \in Nat :
            /\ u = f * p /\ v = r * p /\ w = d * p
            /\ p * (f + r) = u + v /\ (f + (r + 1 + d)) * p = u + v + p + w
  <2>1. r \in Nat /\ p \in Nat
    BY <1>4
  <2>2. f \in Nat /\ d \in Nat
    OBVIOUS
  <2>3. \E u \in Nat, v \in Nat, w \in Nat : Spreads(p, f, r, d, u, v, w)
    BY <2>1, <2>2, Spread
  <2>. QED  BY <2>3 DEF Spreads
<1>9. T[l - 1] = u /\ m = u + v + e /\ T[l] = u + v + p + w
  BY <1>5, <1>6, <1>7, <1>8, Zenon
<1>10. \A a, b, y, k \in Nat : \A z \in 0 .. k - 1 : a <= a + b + z /\ a + b + z < a + b + k + y
  OBVIOUS
<1>11. u <= u + v + e /\ u + v + e < u + v + p + w
  BY <1>10
<1>. QED  BY <1>9, <1>11, Zenon

\* No two codewords of the same length begin them.
LEMMA OneBegins ==
    ASSUME NEW n \in Nat, NEW ls \in Lengths(n), NEW T, Fills(T, ls), huffman_decoder_init(ls),
           NEW m, NEW s \in 0 .. n - 1, NEW t \in 0 .. n - 1, ls[s] = ls[t],
           Begins(m, ls, s), Begins(m, ls, t)
    PROVE  s = t
<1>1. CanonicalCode(ls, s) = CanonicalCode(ls, t)
  BY DEF Begins
<1>2. Rank(ls, s) \in Nat /\ Rank(ls, t) \in Nat /\ first_code(ls)[ls[s]] \in Nat
      /\ CanonicalCode(ls, s) = first_code(ls)[ls[s]] + Rank(ls, s)
      /\ CanonicalCode(ls, t) = first_code(ls)[ls[s]] + Rank(ls, t)
  <2>1. ls[s] \in 0 .. MAX_HUFFMAN_BITS
    BY DEF Lengths
  <2>2. first_code(ls)[ls[s]] \in Nat
    BY <2>1, FirstCode, MaxFacts
  <2>3. count(ls, ls[s]) \in Nat
    BY CountFacts
  <2>. QED  BY <2>2, <2>3, Canonical DEF Begins
<1>3. Rank(ls, s) = Rank(ls, t)
  <2>1. \A a, b, k \in Nat : k + a = k + b => a = b
    OBVIOUS
  <2>. QED  BY <1>1, <1>2, <2>1, Zenon
<1>4. s \in OfLength(ls, ls[s]) /\ t \in OfLength(ls, ls[s])
  BY DEF OfLength, Lengths
<1>5. OfLength(ls, ls[s]) \subseteq Nat /\ IsFiniteSet(OfLength(ls, ls[s]))
  BY CountFacts
<1>. QED  BY <1>3, <1>4, <1>5, Ranks DEF Rank

--------------------------------------------------------------------------------
(***************************************************************************)
(* The order of the symbols.                                               *)
(***************************************************************************)
Shorter(ls, l) == {t \in DOMAIN ls : ls[t] \in 1 .. l - 1}

\* Every codeword takes up room for one of the full width at least.
LEMMA ShortCount ==
    ASSUME NEW n \in Nat, NEW ls \in Lengths(n), NEW T, Fills(T, ls)
    PROVE  \A k \in 0 .. MAX_HUFFMAN_BITS :
              /\ IsFiniteSet(Shorter(ls, k + 1)) /\ Cardinality(Shorter(ls, k + 1)) \in Nat
              /\ Cardinality(Shorter(ls, k + 1)) <= T[k]
<1> DEFINE S(k) == Shorter(ls, k + 1)
           A == {k \in 0 .. MAX_HUFFMAN_BITS : Cardinality(S(k)) <= T[k]}
<1>0. MAX_HUFFMAN_BITS \in Nat
  BY MaxFacts
<1>1. \A k : IsFiniteSet(S(k)) /\ Cardinality(S(k)) \in Nat
  <2> TAKE k
  <2>1. S(k) \subseteq 0 .. n - 1
    BY DEF Shorter, Lengths
  <2>2. IsFiniteSet(0 .. n - 1)
    BY FS_Interval
  <2>. QED  BY <2>1, <2>2, FS_Subset, FS_CardinalityType
<1>2. 0 \in A
  <2>1. S(0) = {}
    BY DEF Shorter
  <2>2. T[0] = 0 /\ Cardinality({}) = 0
    BY FS_EmptySet DEF Fills
  <2>. QED  BY <1>0, <2>1, <2>2
<1>3. ASSUME NEW j \in 0 .. MAX_HUFFMAN_BITS - 1, j \in A PROVE j + 1 \in A
  <2>1. PICK l \in Width : l = j + 1
    BY <1>0, MaxFacts
  <2>2. PICK p, q, c, x : Adds(T, ls, l, p, q, c, x)
    BY FillsStep
  <2>3. x = T[j] /\ x \in Nat /\ c \in Nat /\ p \in Nat \ {0}
        /\ c = Cardinality(OfLength(ls, l)) /\ T[l] = x + c * p
    BY <1>0, <2>1, <2>2 DEF Adds
  <2>4. S(l) = S(j) \cup OfLength(ls, l) /\ S(j) \cap OfLength(ls, l) = {}
    <3>1. \A k \in 0 .. MAX_HUFFMAN_BITS :
              /\ k \in 1 .. (l + 1) - 1 <=> k \in 1 .. (j + 1) - 1 \/ k = l
              /\ ~(k \in 1 .. (j + 1) - 1 /\ k = l)
      BY <1>0, <2>1
    <3>2. \A t \in DOMAIN ls : ls[t] \in 0 .. MAX_HUFFMAN_BITS
      BY DEF Lengths
    <3>. QED  BY <3>1, <3>2, Zenon DEF Shorter, OfLength
  <2>5. IsFiniteSet(OfLength(ls, l))
    BY CountFacts
  <2>6. Cardinality(S(l)) = Cardinality(S(j)) + c - 0
    <3> HIDE DEF S
    <3>1. Cardinality(S(l)) = Cardinality(S(j)) + Cardinality(OfLength(ls, l))
                                - Cardinality(S(j) \cap OfLength(ls, l))
      BY <1>1, <2>4, <2>5, FS_Union
    <3>. QED  BY <2>3, <2>4, <3>1, FS_EmptySet
  <2>7. c <= c * p
    <3>1. PICK e \in Nat : p = e + 1
      <4>1. p - 1 \in Nat /\ p = (p - 1) + 1
        BY <2>3
      <4>. QED  BY <4>1
    <3>2. c * (e + 1) = c * e + c /\ c * e \in Nat
      BY <2>3, <3>1, SMTT(30)
    <3>. QED  BY <2>3, <3>1, <3>2
  <2>8. PICK y \in Nat, z \in Nat : y = Cardinality(S(j)) /\ z = c * p
    BY <1>1, <2>3, TimesNat
  <2>9. y <= x
    BY <1>3, <2>3, <2>8
  <2>10. Cardinality(S(l)) <= T[l]
    <3> HIDE DEF S
    <3>1. Cardinality(S(l)) = y + c /\ T[l] = x + z /\ c <= z
      BY <2>3, <2>6, <2>7, <2>8
    <3>. QED  BY <2>3, <2>8, <2>9, <3>1
  <2>. QED  BY <1>0, <2>1, <2>10
<1>4. \A k \in 0 .. MAX_HUFFMAN_BITS : k \in A
  <2> HIDE DEF A
  <2>. QED  BY <1>0, <1>2, <1>3, Climb
<1>. QED  BY <1>1, <1>4

\* The place of a coded symbol: behind all shorter ones, then by its rank.
LEMMA SymIdx ==
    ASSUME NEW n \in Nat, NEW ls \in Lengths(n), NEW s \in 0 .. n - 1, ls[s] # 0
    PROVE  sym_idx(ls, s) = Cardinality(Shorter(ls, ls[s])) + Rank(ls, s)
<1> DEFINE A == Shorter(ls, ls[s])
           B == Below(OfLength(ls, ls[s]), s)
<1>1. IsFiniteSet(A) /\ IsFiniteSet(B)
  <2>1. A \subseteq 0 .. n - 1 /\ B \subseteq 0 .. n - 1
    BY DEF Shorter, Below, OfLength, Lengths
  <2>2. IsFiniteSet(0 .. n - 1)
    BY FS_Interval
  <2>. QED  BY <2>1, <2>2, FS_Subset
<1>2. \A k \in 0 .. MAX_HUFFMAN_BITS : k \in 1 .. ls[s] - 1 <=> 0 < k /\ k < ls[s]
  BY MaxFacts DEF Lengths
<1>3. \A t \in DOMAIN ls : ls[t] \in 0 .. MAX_HUFFMAN_BITS
  BY DEF Lengths
<1>4. {t \in DOMAIN ls : \/ 0 < ls[t] /\ ls[t] < ls[s]
                         \/ ls[t] = ls[s] /\ t < s} = A \cup B
  BY <1>2, <1>3, Zenon DEF Shorter, Below, OfLength
<1>5. A \cap B = {}
  <2>1. ls[s] \notin 1 .. ls[s] - 1
    BY MaxFacts DEF Lengths
  <2>. QED  BY <2>1, Zenon DEF Shorter, Below, OfLength
<1> HIDE DEF A, B
<1>6. Cardinality(A \cup B) = Cardinality(A) + Cardinality(B) - Cardinality(A \cap B)
  BY <1>1, FS_Union
<1>7. Cardinality(A) \in Nat /\ Cardinality(B) \in Nat /\ Cardinality({}) = 0
  BY <1>1, FS_CardinalityType, FS_EmptySet
<1>8. Cardinality(A \cup B) = Cardinality(A) + Cardinality(B)
  <2>1. Cardinality(A \cap B) = 0
    BY <1>5, <1>7
  <2>2. \A i, j \in Nat : i + j - 0 = i + j
    OBVIOUS
  <2>. QED  BY <1>6, <1>7, <2>1, <2>2
<1>. QED  BY <1>4, <1>8 DEF sym_idx, Rank, A, B

\* No place holds two symbols.
LEMMA OneSymbol ==
    ASSUME NEW n \in Nat, NEW ls \in Lengths(n), NEW s \in 0 .. n - 1, NEW t \in 0 .. n - 1,
           ls[s] # 0, ls[t] # 0, sym_idx(ls, s) = sym_idx(ls, t)
    PROVE  s = t
<1> DEFINE Before(u) == {v \in DOMAIN ls : \/ 0 < ls[v] /\ ls[v] < ls[u]
                                           \/ ls[v] = ls[u] /\ v < u}
           Smaller(u, v) == ls[u] < ls[v] \/ (ls[u] = ls[v] /\ u < v)
<1>0. \A u \in 0 .. n - 1 : u \in DOMAIN ls /\ u \in Nat /\ ls[u] \in Nat
  BY MaxFacts DEF Lengths
<1>1. ASSUME NEW u \in 0 .. n - 1, NEW v \in 0 .. n - 1, ls[u] # 0, Smaller(u, v)
      PROVE  sym_idx(ls, u) # sym_idx(ls, v)
  <2>1. Before(u) \subseteq Before(v)
    <3>1. \A w \in DOMAIN ls : w \in Nat /\ ls[w] \in Nat
      BY MaxFacts DEF Lengths
    <3>. QED  BY <1>0, <1>1, <3>1
  <2>2. u \in Before(v)
    BY <1>0, <1>1
  <2>3. u \notin Before(u)
    BY <1>0
  <2>4. IsFiniteSet(Before(v))
    <3>1. Before(v) \subseteq 0 .. n - 1 /\ IsFiniteSet(0 .. n - 1)
      BY FS_Interval DEF Lengths
    <3>. QED  BY <3>1, FS_Subset
  <2>5. sym_idx(ls, u) = Cardinality(Before(u)) /\ sym_idx(ls, v) = Cardinality(Before(v))
    BY DEF sym_idx
  <2> HIDE DEF Before
  <2>6. IsFiniteSet(Before(v) \ {u}) /\ Cardinality(Before(v) \ {u}) = Cardinality(Before(v)) - 1
        /\ Cardinality(Before(v)) \in Nat
    BY <2>2, <2>4, FS_RemoveElement, FS_CardinalityType
  <2>7. Before(u) \subseteq Before(v) \ {u}
    BY <2>1, <2>3
  <2>8. Cardinality(Before(u)) <= Cardinality(Before(v) \ {u}) /\ Cardinality(Before(u)) \in Nat
    BY <2>6, <2>7, FS_Subset, FS_CardinalityType
  <2>. QED  BY <2>5, <2>6, <2>8
<1>2. ~Smaller(s, t) /\ ~Smaller(t, s)
  BY <1>1, Zenon
<1>. QED  BY <1>0, <1>2

--------------------------------------------------------------------------------
(***************************************************************************)
(* The decoder.                                                            *)
(***************************************************************************)
\* A stream's low bits are the codeword when the bits flipped begin with it.
LEMMA CodewordBits ==
    ASSUME NEW n \in Nat, NEW ls \in Lengths(n), NEW T, Fills(T, ls), huffman_decoder_init(ls),
           NEW bs \in 0 .. Room - 1, NEW s \in 0 .. n - 1, ls[s] # 0
    PROVE  lsb(bs, ls[s]) = Codeword(ls, s) <=> Begins(reverse16(bs, MAX_HUFFMAN_BITS), ls, s)
<1>1. PICK l \in 0 .. MAX_HUFFMAN_BITS : l = ls[s] /\ l \in Nat
  BY MaxFacts DEF Lengths
<1>2. PICK c \in 0 .. 2 ^ l - 1 : c = CanonicalCode(ls, s)
  BY <1>1, Canonical
<1>3. lsb(bs, l) \in 0 .. 2 ^ l - 1
  <2>1. 2 ^ l \in Nat \ {0} /\ bs \in Nat
    BY <1>1, PowerStep, MaxFacts
  <2>. QED  BY <2>1, DivMod DEF lsb
<1>4. reverse16(bs, MAX_HUFFMAN_BITS) \div 2 ^ (MAX_HUFFMAN_BITS - l) = reverse16(lsb(bs, l), l)
  BY MaxFacts, TopBits DEF Room
<1>5. reverse16(reverse16(c, l), l) = c
      /\ reverse16(reverse16(lsb(bs, l), l), l) = lsb(bs, l)
  BY <1>1, <1>2, <1>3, ReverseTwice
<1>6. Codeword(ls, s) = reverse16(c, l)
  BY <1>1, <1>2 DEF Codeword
<1>7. Begins(reverse16(bs, MAX_HUFFMAN_BITS), ls, s) <=> reverse16(lsb(bs, l), l) = c
  BY <1>1, <1>2, <1>4 DEF Begins
<1>. QED  BY <1>1, <1>5, <1>6, <1>7, Zenon

LEMMA LsbTwice ==
    ASSUME NEW x \in Nat, NEW k \in Nat, NEW l \in 0 .. k
    PROVE  lsb(lsb(x, k), l) = lsb(x, l)
<1>1. PICK a, b \in Nat \ {0} : a = 2 ^ l /\ b = 2 ^ (k - l) /\ 2 ^ k = a * b
  <2>1. k - l \in Nat /\ l \in Nat /\ l + (k - l) = k
    OBVIOUS
  <2>2. 2 ^ (l + (k - l)) = 2 ^ l * 2 ^ (k - l)
    BY <2>1, PowerSum
  <2>. QED  BY <2>1, <2>2, PowerStep
<1>2. a * b \in Nat \ {0}
  <2>1. k \in Nat
    OBVIOUS
  <2>. QED  BY <1>1, <2>1, PowerStep
<1>3. PICK u \in Nat, r \in Nat : x = (a * b) * u + r /\ r = x % (a * b)
  <2>1. PICK g \in Nat \ {0} : g = a * b
    BY <1>2
  <2>2. x \div g \in Nat /\ x % g \in 0 .. g - 1 /\ x = g * (x \div g) + (x % g)
    BY DivMod
  <2>3. x % g \in Nat
    BY <2>2
  <2>. QED  BY <2>1, <2>2, <2>3, Zenon
<1>4. PICK v \in Nat, e \in 0 .. a - 1 : r = a * v + e /\ e = r % a
  <2>1. r \div a \in Nat /\ r % a \in 0 .. a - 1 /\ r = a * (r \div a) + (r % a)
    BY <1>1, <1>3, DivMod
  <2>. QED  BY <2>1
<1>5. x = a * (b * u + v) + e
  <2>1. (a * b) * u = a * (b * u) /\ b * u \in Nat
    BY <1>1, <1>3, SMTT(30)
  <2>2. PICK w \in Nat : w = b * u
    BY <2>1
  <2>3. a * (w + v) = a * w + a * v
    BY <1>1, <1>4, <2>2, SMTT(30)
  <2>4. a * w \in Nat /\ a * v \in Nat /\ e \in Nat
    BY <1>1, <1>4, <2>2
  <2>5. PICK y \in Nat, z \in Nat : y = a * w /\ z = a * v
    BY <2>4
  <2>6. x = y + (z + e) /\ a * (w + v) = y + z
    BY <1>3, <1>4, <2>1, <2>2, <2>3, <2>5, Zenon
  <2>7. y + (z + e) = (y + z) + e
    BY <2>4
  <2>. QED  BY <2>2, <2>6, <2>7, Zenon
<1>6. x % a = e
  <2>1. b * u + v \in Nat
    BY <1>1, <1>3, <1>4
  <2>. QED  BY <1>1, <1>4, <1>5, <2>1, DivModUnique
<1>. QED  BY <1>1, <1>3, <1>4, <1>6 DEF lsb

\* The sentinel of a length is the room taken up to there, where one is left.
LEMMA Sentinel ==
    ASSUME NEW n \in Nat, NEW ls \in Lengths(n), NEW T, Fills(T, ls), huffman_decoder_init(ls),
           NEW l \in Width, l < MAX_HUFFMAN_BITS \/ T[l - 1] < Room
    PROVE  sentinel_bits(ls, l) = T[l]
<1>1. \A k \in 0 .. l - 1 : k \in 0 .. MAX_HUFFMAN_BITS - 1
  BY MaxFacts
<1>2. \A k \in 0 .. l - 1 : T[k] <= Room
  BY <1>1, InitLeavesRoom
<1>3. PICK p, q, c, x, f : AtLength(T, ls, l, p, q, c, x, f)
  BY <1>2, LengthFacts, Zenon
<1>. QED  BY <1>3, Zenon DEF AtLength, Adds, sentinel_bits

\* Bits fall into the room of one length.
Falls(T, m, l) == T[l - 1] <= m /\ m < T[l]

LEMMA OneLength ==
    ASSUME NEW n \in Nat, NEW ls \in Lengths(n), NEW T, Fills(T, ls), NEW m \in Nat,
           NEW k \in Width, NEW l \in Width, Falls(T, m, k), Falls(T, m, l)
    PROVE  k = l
<1>1. \A i \in Width : i \in Nat /\ i - 1 \in Nat /\ T[i] \in Nat /\ T[i - 1] \in Nat
  <2> TAKE i \in Width
  <2>1. i \in 0 .. MAX_HUFFMAN_BITS /\ i - 1 \in 0 .. MAX_HUFFMAN_BITS /\ i \in Nat /\ i - 1 \in Nat
    BY MaxFacts
  <2>. QED  BY <2>1 DEF Fills
<1>2. ASSUME NEW i \in Width, NEW j \in Width, i < j PROVE ~(Falls(T, m, i) /\ Falls(T, m, j))
  <2>1. i \in 0 .. j - 1 /\ j - 1 \in 0 .. MAX_HUFFMAN_BITS
    BY <1>2, MaxFacts
  <2>2. T[i] <= T[j - 1]
    BY <2>1, FillsGrow
  <2>. QED  BY <1>1, <2>2 DEF Falls
<1>3. k < l \/ l < k \/ k = l
  BY <1>1
<1>. QED  BY <1>2, <1>3, Zenon

\* Bits below some sentinel fall into the room of the first one they are below.
LEMMA SomeLength ==
    ASSUME NEW n \in Nat, NEW ls \in Lengths(n), NEW T, Fills(T, ls), NEW m \in Nat
    PROVE  \/ \E l \in Width : Falls(T, m, l)
           \/ \A l \in Width : T[l] <= m
<1> SUFFICES ASSUME NEW l \in Width, ~(T[l] <= m)
             PROVE  \E k \in Width : Falls(T, m, k)
  OBVIOUS
<1> DEFINE S == {k \in Width : m < T[k]}
<1>0. \A i \in Width : i \in Nat /\ T[i] \in Nat /\ T[i - 1] \in Nat
  <2> TAKE i \in Width
  <2>1. i \in 0 .. MAX_HUFFMAN_BITS /\ i - 1 \in 0 .. MAX_HUFFMAN_BITS /\ i \in Nat
    BY MaxFacts
  <2>. QED  BY <2>1 DEF Fills
<1>1. l \in S
  BY <1>0
<1>2. PICK k \in S : \A j \in S : k <= j
  <2>1. S \subseteq Nat /\ S # {}
    BY <1>0, <1>1
  <2> HIDE DEF S
  <2>. QED  BY <2>1, LeastElement
<1>3. T[k - 1] <= m
  <2>1. CASE k = 1
    BY <2>1 DEF Fills
  <2>2. CASE k # 1
    <3>1. k - 1 \in Width /\ ~(k <= k - 1)
      BY <2>2, MaxFacts
    <3>2. k - 1 \notin S
      BY <1>2, <3>1
    <3>. QED  BY <1>0, <3>1, <3>2
  <2>. QED  BY <2>1, <2>2
<1>. QED  BY <1>2, <1>3 DEF Falls

\* A codeword that fits begins just the bits in its room.
LEMMA BeginsFalls ==
    ASSUME NEW n \in Nat, NEW ls \in Lengths(n), NEW T, Fills(T, ls), huffman_decoder_init(ls),
           NEW m \in 0 .. Room - 1, NEW s \in 0 .. n - 1, Begins(m, ls, s),
           ls[s] < MAX_HUFFMAN_BITS \/ T[ls[s] - 1] < Room
    PROVE  ls[s] \in Width /\ Falls(T, m, ls[s])
<1>1. ls[s] \in Width
  BY MaxFacts DEF Lengths, Begins
<1>. QED  BY <1>1, BeginsWithin DEF Falls

LEMMA ReversedRange ==
    ASSUME NEW bs \in 0 .. Room - 1
    PROVE  bs \in Nat /\ reverse16(bs, MAX_HUFFMAN_BITS) \in 0 .. Room - 1
           /\ reverse16(bs, MAX_HUFFMAN_BITS) \in Nat
<1>1. reverse16(bs, MAX_HUFFMAN_BITS) \in 0 .. Room - 1
  BY MaxFacts, ReverseTwice DEF Room
<1>. QED  BY <1>1, MaxFacts

\* The entry of the table the bits lead to: the short codewords that begin them.
LEMMA TableHolds ==
    ASSUME NEW n \in Nat, NEW ls \in Lengths(n), NEW T, Fills(T, ls), huffman_decoder_init(ls),
           NEW bs \in 0 .. Room - 1
    PROVE  table(ls, lsb(bs, HUFFMAN_LOOKUP_TABLE_BITS)) =
             {s \in 0 .. n - 1 : /\ ls[s] \in 1 .. HUFFMAN_LOOKUP_TABLE_BITS
                                 /\ Begins(reverse16(bs, MAX_HUFFMAN_BITS), ls, s)}
<1>1. DOMAIN ls = 0 .. n - 1
  BY DEF Lengths
<1>2. ASSUME NEW s \in 0 .. n - 1, ls[s] \in 1 .. HUFFMAN_LOOKUP_TABLE_BITS
      PROVE  lsb(lsb(bs, HUFFMAN_LOOKUP_TABLE_BITS), ls[s]) = Codeword(ls, s)
               <=> Begins(reverse16(bs, MAX_HUFFMAN_BITS), ls, s)
  <2>1. ls[s] # 0 /\ ls[s] \in 0 .. HUFFMAN_LOOKUP_TABLE_BITS /\ HUFFMAN_LOOKUP_TABLE_BITS \in Nat
    BY <1>2, MaxFacts
  <2>2. lsb(lsb(bs, HUFFMAN_LOOKUP_TABLE_BITS), ls[s]) = lsb(bs, ls[s])
    BY <2>1, LsbTwice, ReversedRange
  <2>. QED  BY <2>1, <2>2, CodewordBits
<1>. QED  BY <1>1, <1>2, Zenon DEF table

\* In the room of a length, the table holds the symbol or nothing.
LEMMA TableEntry ==
    ASSUME NEW n \in Nat, NEW ls \in Lengths(n), NEW T, Fills(T, ls), huffman_decoder_init(ls),
           NEW bs \in 0 .. Room - 1, NEW m, m = reverse16(bs, MAX_HUFFMAN_BITS),
           NEW s \in 0 .. n - 1, ls[s] \in Width, Begins(m, ls, s), Falls(T, m, ls[s])
    PROVE  table(ls, lsb(bs, HUFFMAN_LOOKUP_TABLE_BITS)) =
             IF ls[s] \in 1 .. HUFFMAN_LOOKUP_TABLE_BITS THEN {s} ELSE {}
<1>1. m \in 0 .. Room - 1 /\ m \in Nat
  BY ReversedRange
<1>2. ASSUME NEW t \in 0 .. n - 1, ls[t] \in 1 .. HUFFMAN_LOOKUP_TABLE_BITS, Begins(m, ls, t)
      PROVE  t = s
  <2>1. ls[t] < MAX_HUFFMAN_BITS
    BY <1>2, MaxFacts
  <2>2. ls[t] \in Width /\ Falls(T, m, ls[t])
    BY <1>1, <1>2, <2>1, BeginsFalls
  <2>3. ls[t] = ls[s]
    BY <1>1, <2>2, OneLength
  <2>. QED  BY <1>2, <2>3, OneBegins
<1>3. \A t : t \in table(ls, lsb(bs, HUFFMAN_LOOKUP_TABLE_BITS)) <=>
               t \in 0 .. n - 1 /\ ls[t] \in 1 .. HUFFMAN_LOOKUP_TABLE_BITS /\ Begins(m, ls, t)
  BY TableHolds
<1>4. CASE ls[s] \in 1 .. HUFFMAN_LOOKUP_TABLE_BITS
  BY <1>2, <1>3, <1>4
<1>5. CASE ls[s] \notin 1 .. HUFFMAN_LOOKUP_TABLE_BITS
  BY <1>2, <1>3, <1>5
<1>. QED  BY <1>4, <1>5

\* An index less its first codeword may wrap; with the codeword added, it is whole again.
LEMMA Wraps ==
    ASSUME NEW d \in Nat \ {0}, NEW b \in Nat, NEW f \in 0 .. d - 1, NEW r \in Nat, b + r < d
    PROVE  (((b + d - f) % d) + (f + r)) % d = b + r
<1>1. b + d - f \in Nat
  OBVIOUS
<1>2. PICK k \in Nat, e \in 0 .. d - 1 : b + d - f = d * k + e /\ e = (b + d - f) % d
  BY <1>1, DivMod
<1>3. k = 0 \/ k = 1
  <2> SUFFICES ASSUME k >= 2 PROVE FALSE
    OBVIOUS
  <2>1. PICK g \in Nat : k = g + 2
    <3>1. k - 2 \in Nat /\ k = (k - 2) + 2
      OBVIOUS
    <3>. QED  BY <3>1
  <2>2. d * (g + 2) = d * g + d + d /\ d * g \in Nat
    BY SMTT(30)
  <2>. QED  BY <1>2, <2>1, <2>2
<1>4. b + r \in 0 .. d - 1
  OBVIOUS
<1>5. (d * 1 + (b + r)) % d = b + r /\ (d * 0 + (b + r)) % d = b + r
  BY <1>4, DivModUnique
<1>6. d * 1 = d /\ d * 0 = 0
  OBVIOUS
<1>7. CASE k = 0
  <2>1. e + (f + r) = d + (b + r)
    BY <1>2, <1>6, <1>7
  <2>. QED  BY <1>2, <1>5, <1>6, <2>1
<1>8. CASE k = 1
  <2>0. b + d - f = d + e
    BY <1>2, <1>6, <1>8, Zenon
  <2>1. e + (f + r) = b + r
    BY <2>0
  <2>2. b + r = 0 + (b + r)
    OBVIOUS
  <2>. QED  BY <1>2, <1>5, <1>6, <2>1, <2>2
<1>. QED  BY <1>3, <1>7, <1>8

\* What the offset of a length leads to is the place of the symbol.
LEMMA OffsetLeads ==
    ASSUME NEW n \in Nat, NEW ls \in Lengths(n), NEW T, Fills(T, ls), huffman_decoder_init(ls),
           NEW m \in 0 .. Room - 1, NEW s \in 0 .. n - 1, ls[s] \in Width,
           Begins(m, ls, s), Falls(T, m, ls[s])
    PROVE  uint16(offset_first_sym_idx(ls, ls[s]) + m \div 2 ^ (MAX_HUFFMAN_BITS - ls[s])) = sym_idx(ls, s)
<1> DEFINE l == ls[s]
<1>1. l # 0 /\ l - 1 \in 0 .. MAX_HUFFMAN_BITS /\ (l - 1) + 1 = l /\ Room \in Nat \ {0} /\ m \in Nat
      /\ \A k \in 0 .. l - 1 : k \in 0 .. MAX_HUFFMAN_BITS - 1
  BY MaxFacts
<1>2. \A k \in 0 .. l - 1 : T[k] <= Room
  BY <1>1, InitLeavesRoom
<1>3. PICK p, q, c, x, f : AtLength(T, ls, l, p, q, c, x, f)
  BY <1>2, LengthFacts, Zenon
<1>4. /\ p \in Nat \ {0} /\ p = 2 ^ (MAX_HUFFMAN_BITS - l) /\ x \in Nat /\ x = T[l - 1]
      /\ f \in Nat /\ f < Room /\ f = first_code(ls)[l] /\ f * p = x
  <2>1. x < Room
    BY <1>1, <1>3 DEF AtLength, Adds, Falls
  <2>. QED  BY <1>3, <2>1 DEF AtLength, Adds
<1>5. PICK b \in Nat : b = Cardinality(Shorter(ls, l)) /\ b <= x
  BY <1>1, <1>4, ShortCount
<1>6. PICK r \in Nat : r = Rank(ls, s) /\ CanonicalCode(ls, s) = f + r
  <2>1. count(ls, l) \in Nat
    BY CountFacts
  <2>. QED  BY <1>1, <1>4, <2>1, Canonical
<1>7. m \div p = f + r
  BY <1>4, <1>6 DEF Begins
<1>8. PICK e \in 0 .. p - 1 : m = p * (f + r) + e
  <2>1. m % p \in 0 .. p - 1 /\ m = p * (m \div p) + (m % p)
    BY <1>1, <1>4, DivMod
  <2>. QED  BY <1>7, <2>1
<1>9. x + r <= m
  <2>1. PICK u \in Nat, v \in Nat, w \in Nat : Spreads(p, f, r, 0, u, v, w)
    BY <1>4, Spread
  <2>2. u = x /\ v = r * p /\ p * (f + r) = u + v
    BY <1>4, <2>1 DEF Spreads
  <2>3. r <= v
    <3>1. PICK g \in Nat : p = g + 1
      <4>1. p - 1 \in Nat /\ p = (p - 1) + 1
        BY <1>4
      <4>. QED  BY <4>1
    <3>2. r * (g + 1) = r * g + r /\ r * g \in Nat
      BY SMTT(30)
    <3>. QED  BY <2>2, <3>1, <3>2
  <2>4. m = (u + v) + e
    BY <1>8, <2>2
  <2>. QED  BY <1>8, <2>2, <2>3, <2>4
<1>10. b + r < Room
  BY <1>1, <1>4, <1>5, <1>9
<1>11. f \in 0 .. Room - 1
  BY <1>1, <1>4
<1>12. (((b + Room - f) % Room) + (f + r)) % Room = b + r
  BY <1>1, <1>10, <1>11, Wraps
<1>13. offset_first_sym_idx(ls, l) = (b + Room - f) % Room
  BY <1>4, <1>5 DEF offset_first_sym_idx, uint16, Shorter, Room
<1>14. sym_idx(ls, s) = b + r
  BY <1>1, <1>5, <1>6, SymIdx
<1>. QED  BY <1>4, <1>7, <1>12, <1>13, <1>14 DEF uint16, Room

Hits(ls, m) == {k \in HUFFMAN_LOOKUP_TABLE_BITS + 1 .. MAX_HUFFMAN_BITS : m < sentinel_bits(ls, k)}

\* The comparison finds the first length whose sentinel is greater.
LEMMA LongHits ==
    ASSUME NEW n \in Nat, NEW ls \in Lengths(n), NEW T, Fills(T, ls), huffman_decoder_init(ls),
           NEW bs \in 0 .. Room - 1, NEW m, m = reverse16(bs, MAX_HUFFMAN_BITS),
           NEW l \in Width, l > HUFFMAN_LOOKUP_TABLE_BITS, Falls(T, m, l)
    PROVE  l \in Hits(ls, m) /\ l = CHOOSE x \in Hits(ls, m) : \A y \in Hits(ls, m) : x <= y
<1> DEFINE hits == {k \in HUFFMAN_LOOKUP_TABLE_BITS + 1 .. MAX_HUFFMAN_BITS : m < sentinel_bits(ls, k)}
<1>0. m \in Nat /\ m < Room /\ Room \in Nat
  BY ReversedRange, MaxFacts
<1>1. \A i \in Width : i \in Nat /\ T[i] \in Nat /\ T[i - 1] \in Nat
  <2> TAKE i \in Width
  <2>1. i \in 0 .. MAX_HUFFMAN_BITS /\ i - 1 \in 0 .. MAX_HUFFMAN_BITS /\ i \in Nat
    BY MaxFacts
  <2>. QED  BY <2>1 DEF Fills
<1>2. l \in hits
  <2>1. T[l - 1] < Room
    BY <1>0, <1>1 DEF Falls
  <2>2. sentinel_bits(ls, l) = T[l]
    BY <2>1, Sentinel
  <2>3. l \in HUFFMAN_LOOKUP_TABLE_BITS + 1 .. MAX_HUFFMAN_BITS
    BY MaxFacts
  <2>. QED  BY <2>2, <2>3 DEF Falls
<1>3. \A k \in hits : k \in Nat /\ l <= k
  <2> SUFFICES ASSUME NEW k \in hits, k < l PROVE FALSE
    BY <1>1, MaxFacts
  <2>1. k \in Width /\ k < MAX_HUFFMAN_BITS /\ k \in 0 .. l - 1 /\ l - 1 \in 0 .. MAX_HUFFMAN_BITS
    BY MaxFacts
  <2>2. sentinel_bits(ls, k) = T[k]
    BY <2>1, Sentinel
  <2>3. T[k] <= T[l - 1]
    BY <2>1, FillsGrow
  <2>4. m < T[k]
    BY <2>2
  <2>. QED  BY <1>0, <1>1, <2>1, <2>3, <2>4 DEF Falls
<1> HIDE DEF hits
<1>4. \A x \in hits : (\A y \in hits : x <= y) => x = l
  BY <1>1, <1>2, <1>3
<1>5. \A y \in hits : l <= y
  BY <1>3
<1>6. l = CHOOSE x \in hits : \A y \in hits : x <= y
  BY <1>2, <1>4, <1>5
<1>7. Hits(ls, m) = hits
  BY DEF Hits, hits
<1>. QED  BY <1>2, <1>6, <1>7, Zenon

\* Bits that fall into the room of a length decode to the symbol whose codeword
\* begins them.
LEMMA DecodesSome ==
    ASSUME NEW n \in Nat, NEW ls \in Lengths(n), NEW T, Fills(T, ls), huffman_decoder_init(ls),
           NEW bs \in 0 .. Room - 1, NEW m, m = reverse16(bs, MAX_HUFFMAN_BITS),
           NEW s \in 0 .. n - 1, ls[s] \in Width, Begins(m, ls, s), Falls(T, m, ls[s])
    PROVE  huffman_decode(ls, bs) = [sym |-> s, used |-> ls[s]]
<1> DEFINE index == lsb(bs, HUFFMAN_LOOKUP_TABLE_BITS)
           l == ls[s]
<1>0. m \in 0 .. Room - 1 /\ m \in Nat /\ s \in Nat
  BY ReversedRange
<1>1. table(ls, index) = IF l \in 1 .. HUFFMAN_LOOKUP_TABLE_BITS THEN {s} ELSE {}
  BY TableEntry
<1> HIDE DEF index
<1>2. CASE l \in 1 .. HUFFMAN_LOOKUP_TABLE_BITS
  <2>1. table(ls, index) = {s} /\ table(ls, index) # {}
    BY <1>1, <1>2
  <2>2. (CHOOSE x \in {s} : \A y \in {s} : y <= x) = s
    <3>1. \A x \in {s} : x = s
      OBVIOUS
    <3>2. s \in {s} /\ \A y \in {s} : y <= s
      BY <1>0
    <3>. QED  BY <3>1, <3>2
  <2>3. Lookup(ls, index) = [sym |-> s, used |-> l]
    BY <2>1, <2>2 DEF Lookup
  <2>. QED  BY <2>1, <2>3 DEF huffman_decode, index
<1>3. CASE l \notin 1 .. HUFFMAN_LOOKUP_TABLE_BITS
  <2>1. table(ls, index) = {}
    BY <1>1, <1>3
  <2>2. l > HUFFMAN_LOOKUP_TABLE_BITS
    BY <1>3, MaxFacts
  <2> DEFINE hits == Hits(ls, m)
             first == CHOOSE x \in hits : \A y \in hits : x <= y
             idx == uint16(offset_first_sym_idx(ls, l) + m \div 2 ^ (MAX_HUFFMAN_BITS - l))
             at == {t \in DOMAIN ls : ls[t] # 0 /\ sym_idx(ls, t) = idx}
  <2>3. first = l /\ hits # {}
    <3>1. l = first /\ l \in hits
      BY <2>2, LongHits
    <3>. QED  BY <3>1, Zenon
  <2>4. idx = sym_idx(ls, s)
    BY <1>0, OffsetLeads
  <2>5. at = {s}
    <3>1. DOMAIN ls = 0 .. n - 1 /\ ls[s] # 0
      BY MaxFacts DEF Lengths
    <3>2. \A t \in 0 .. n - 1 : ls[t] # 0 /\ sym_idx(ls, t) = sym_idx(ls, s) => t = s
      BY <3>1, OneSymbol
    <3> HIDE DEF idx
    <3>. QED  BY <2>4, <3>1, <3>2
  <2> HIDE DEF hits, idx, at
  <2>6. (CHOOSE t \in at : TRUE) = s /\ at # {}
    BY <2>5
  <2>7. DecodeLong(ls, bs) = [sym |-> s, used |-> l]
    <3>1. DecodeLong(ls, bs) =
            IF hits = {} THEN NoSymbol
            ELSE IF {t \in DOMAIN ls : ls[t] # 0 /\ sym_idx(ls, t) =
                       uint16(offset_first_sym_idx(ls, first) + m \div 2 ^ (MAX_HUFFMAN_BITS - first))} = {}
                 THEN [sym |-> -2, used |-> first]
            ELSE [sym |-> CHOOSE u \in {t \in DOMAIN ls : ls[t] # 0 /\ sym_idx(ls, t) =
                       uint16(offset_first_sym_idx(ls, first) + m \div 2 ^ (MAX_HUFFMAN_BITS - first))} : TRUE,
                  used |-> first]
      BY Zenon DEF DecodeLong, hits, Hits
    <3>2. {t \in DOMAIN ls : ls[t] # 0 /\ sym_idx(ls, t) =
                       uint16(offset_first_sym_idx(ls, first) + m \div 2 ^ (MAX_HUFFMAN_BITS - first))} = at
      BY <2>3, Zenon DEF at, idx
    <3> HIDE DEF first
    <3>. QED  BY <2>3, <2>6, <3>1, <3>2, Zenon
  <2>. QED  BY <2>1, <2>7 DEF huffman_decode, index
<1>. QED  BY <1>2, <1>3

\* Bits above all sentinels decode to nothing.
LEMMA DecodesNone ==
    ASSUME NEW n \in Nat, NEW ls \in Lengths(n), NEW T, Fills(T, ls), huffman_decoder_init(ls),
           NEW bs \in 0 .. Room - 1, NEW m, m = reverse16(bs, MAX_HUFFMAN_BITS),
           \A l \in Width : T[l] <= m
    PROVE  /\ huffman_decode(ls, bs) = NoSymbol
           /\ \A s \in 0 .. n - 1 : ls[s] < MAX_HUFFMAN_BITS \/ T[ls[s] - 1] < Room => ~Begins(m, ls, s)
<1>0. m \in 0 .. Room - 1 /\ m \in Nat /\ m < Room /\ Room \in Nat
  BY ReversedRange, MaxFacts
<1>1. \A i \in Width : T[i] \in Nat /\ T[i - 1] \in Nat
  <2> TAKE i \in Width
  <2>1. i \in 0 .. MAX_HUFFMAN_BITS /\ i - 1 \in 0 .. MAX_HUFFMAN_BITS
    BY MaxFacts
  <2>. QED  BY <2>1 DEF Fills
<1>2. ASSUME NEW s \in 0 .. n - 1, ls[s] < MAX_HUFFMAN_BITS \/ T[ls[s] - 1] < Room, Begins(m, ls, s)
      PROVE  FALSE
  <2>1. ls[s] \in Width /\ Falls(T, m, ls[s])
    BY <1>0, <1>2, BeginsFalls
  <2>. QED  BY <1>0, <1>1, <2>1 DEF Falls
<1>3. table(ls, lsb(bs, HUFFMAN_LOOKUP_TABLE_BITS)) = {}
  <2>1. \A s \in 0 .. n - 1 :
            ls[s] \in 1 .. HUFFMAN_LOOKUP_TABLE_BITS => ls[s] < MAX_HUFFMAN_BITS
    BY MaxFacts
  <2>. QED  BY <1>2, <2>1, TableHolds, Zenon
<1>4. \A k \in HUFFMAN_LOOKUP_TABLE_BITS + 1 .. MAX_HUFFMAN_BITS : ~(m < sentinel_bits(ls, k))
  <2> TAKE k \in HUFFMAN_LOOKUP_TABLE_BITS + 1 .. MAX_HUFFMAN_BITS
  <2>1. k \in Width /\ k - 1 \in 0 .. MAX_HUFFMAN_BITS /\ (k - 1 = 0 \/ k - 1 \in Width)
    BY MaxFacts
  <2>2. T[k - 1] <= m
    BY <1>0, <2>1 DEF Fills
  <2>3. T[k - 1] < Room
    BY <1>0, <1>1, <2>1, <2>2
  <2>4. sentinel_bits(ls, k) = T[k]
    BY <2>1, <2>3, Sentinel
  <2>. QED  BY <1>0, <1>1, <2>1, <2>4
<1>5. DecodeLong(ls, bs) = NoSymbol
  <2>1. {k \in HUFFMAN_LOOKUP_TABLE_BITS + 1 .. MAX_HUFFMAN_BITS :
            reverse16(bs, MAX_HUFFMAN_BITS) < sentinel_bits(ls, k)} = {}
    BY <1>4
  <2>. QED  BY <2>1, Zenon DEF DecodeLong
<1>. QED  BY <1>2, <1>3, <1>5, Zenon DEF huffman_decode

--------------------------------------------------------------------------------
(***************************************************************************)
(* What the decoder does, and the properties.                              *)
(***************************************************************************)
\* Whatever lengths pass, only symbols that exist are decoded.
LEMMA DecodesSymbols ==
    ASSUME NEW n \in Nat, NEW ls \in Lengths(n), huffman_decoder_init(ls), NEW bs \in 0 .. Room - 1
    PROVE  \/ huffman_decode(ls, bs).sym \in DOMAIN ls /\ huffman_decode(ls, bs).used \in Width
           \/ huffman_decode(ls, bs) = NoSymbol
<1>1. PICK T : Fills(T, ls)
  BY FillsExist
<1>2. PICK m \in 0 .. Room - 1 : m = reverse16(bs, MAX_HUFFMAN_BITS) /\ m \in Nat
  BY ReversedRange
<1>3. CASE \E l \in Width : Falls(T, m, l)
  <2>1. PICK l \in Width : Falls(T, m, l)
    BY <1>3
  <2>2. PICK s \in 0 .. n - 1 : ls[s] = l /\ Begins(m, ls, s)
    BY <1>1, <2>1, SomeBegins DEF Falls
  <2>3. huffman_decode(ls, bs) = [sym |-> s, used |-> l]
    BY <1>1, <1>2, <2>1, <2>2, DecodesSome
  <2>4. s \in DOMAIN ls
    BY DEF Lengths
  <2>. QED  BY <2>3, <2>4
<1>4. CASE \A l \in Width : T[l] <= m
  BY <1>1, <1>2, <1>4, DecodesNone
<1>. QED  BY <1>1, <1>2, <1>3, <1>4, SomeLength

\* Of a prefix code, the symbol is the one whose codeword the encoder writes.
LEMMA DecodesPrefixCode ==
    ASSUME NEW n \in Nat, NEW ls \in Lengths(n), NEW T, Fills(T, ls), T[MAX_HUFFMAN_BITS] <= Room,
           NEW bs \in 0 .. Room - 1, NEW s \in 0 .. n - 1
    PROVE  ls[s] # 0 /\ lsb(bs, ls[s]) = Codeword(ls, s)
             <=> huffman_decode(ls, bs) = [sym |-> s, used |-> ls[s]]
<1>1. huffman_decoder_init(ls)
  BY PrefixCodePasses
<1>2. PICK m \in 0 .. Room - 1 : m = reverse16(bs, MAX_HUFFMAN_BITS) /\ m \in Nat
  BY ReversedRange
<1>3. ASSUME NEW t \in 0 .. n - 1, Begins(m, ls, t)
      PROVE  ls[t] \in Width /\ T[ls[t] - 1] < Room /\ Falls(T, m, ls[t])
  <2>1. ls[t] \in Width /\ count(ls, ls[t]) # 0
    BY <1>1, <1>3, Canonical DEF Begins
  <2>2. T[ls[t] - 1] < Room
    BY <2>1, PrefixCodePasses
  <2>. QED  BY <1>1, <1>3, <2>1, <2>2, BeginsFalls
<1>4. ls[s] # 0 /\ lsb(bs, ls[s]) = Codeword(ls, s) <=> Begins(m, ls, s)
  <2>1. ls[s] # 0 => (lsb(bs, ls[s]) = Codeword(ls, s) <=> Begins(m, ls, s))
    BY <1>1, <1>2, CodewordBits
  <2>. QED  BY <2>1 DEF Begins
<1>5. ASSUME Begins(m, ls, s) PROVE huffman_decode(ls, bs) = [sym |-> s, used |-> ls[s]]
  BY <1>1, <1>2, <1>3, <1>5, DecodesSome
<1>6. ASSUME huffman_decode(ls, bs) = [sym |-> s, used |-> ls[s]] PROVE Begins(m, ls, s)
  <2>1. CASE \E l \in Width : Falls(T, m, l)
    <3>1. PICK l \in Width : Falls(T, m, l)
      BY <2>1
    <3>2. PICK t \in 0 .. n - 1 : ls[t] = l /\ Begins(m, ls, t)
      BY <1>1, <3>1, SomeBegins DEF Falls
    <3>3. huffman_decode(ls, bs) = [sym |-> t, used |-> l]
      BY <1>1, <1>2, <3>1, <3>2, DecodesSome
    <3>4. t = s
      BY <1>6, <3>3
    <3>. QED  BY <3>2, <3>4
  <2>2. CASE \A l \in Width : T[l] <= m
    <3>1. huffman_decode(ls, bs) = NoSymbol
      BY <1>1, <1>2, <2>2, DecodesNone
    <3>2. s = -1
      BY <1>6, <3>1 DEF NoSymbol
    <3>. QED  BY <3>2
  <2>. QED  BY <1>2, <2>1, <2>2, SomeLength
<1>. QED  BY <1>4, <1>5, <1>6, Zenon

\* The room taken up, as the model adds it up.
LEMMA TakenIsFilled ==
    ASSUME NEW n \in Nat, lengths \in Lengths(n), NEW T, Fills(T, lengths)
    PROVE  Taken(MAX_HUFFMAN_BITS) = T[MAX_HUFFMAN_BITS]
<1> DEFINE e(f, k) == IF k = 0 THEN 0 ELSE f[k - 1] + count(lengths, k) * 2 ^ (MAX_HUFFMAN_BITS - k)
           Is(f) == f = [k \in 0 .. MAX_HUFFMAN_BITS |-> e(f, k)]
<1>0. MAX_HUFFMAN_BITS \in Nat
  BY MaxFacts
<1>1. \A k \in 0 .. MAX_HUFFMAN_BITS : k = 0 \/ k \in Width
  BY MaxFacts
<1>2. Is(T)
  <2>1. ASSUME NEW k \in 0 .. MAX_HUFFMAN_BITS PROVE T[k] = e(T, k)
    BY <1>0, <1>1 DEF Fills
  <2>2. T = [k \in 0 .. MAX_HUFFMAN_BITS |-> T[k]]
    BY DEF Fills
  <2> HIDE DEF e
  <2>. QED  BY <2>1, <2>2
<1>3. PICK t : Is(t) /\ Taken(MAX_HUFFMAN_BITS) = t[MAX_HUFFMAN_BITS]
  <2>1. Taken(MAX_HUFFMAN_BITS) = (CHOOSE f : Is(f))[MAX_HUFFMAN_BITS]
    BY DEF Taken
  <2> HIDE DEF Is
  <2>. QED  BY <1>2, <2>1
<1>4. \A k \in 0 .. MAX_HUFFMAN_BITS : t[k] = e(t, k) /\ T[k] = e(T, k)
  <2> HIDE DEF e
  <2>. QED  BY <1>2, <1>3
<1> DEFINE A == {k \in 0 .. MAX_HUFFMAN_BITS : t[k] = T[k]}
<1>5. 0 \in A
  BY <1>0, <1>4
<1>6. ASSUME NEW j \in 0 .. MAX_HUFFMAN_BITS - 1, j \in A PROVE j + 1 \in A
  <2>1. j + 1 \in 0 .. MAX_HUFFMAN_BITS /\ j + 1 # 0 /\ (j + 1) - 1 = j
    BY <1>0
  <2>2. t[j + 1] = e(t, j + 1) /\ T[j + 1] = e(T, j + 1)
    BY <1>4, <2>1
  <2>3. e(t, j + 1) = e(T, j + 1)
    BY <1>6, <2>1
  <2>. QED  BY <2>1, <2>2, <2>3
<1>7. \A k \in 0 .. MAX_HUFFMAN_BITS : k \in A
  <2> HIDE DEF A
  <2>. QED  BY <1>0, <1>5, <1>6, Climb
<1>8. t[MAX_HUFFMAN_BITS] = T[MAX_HUFFMAN_BITS]
  <2>1. MAX_HUFFMAN_BITS \in 0 .. MAX_HUFFMAN_BITS
    BY <1>0
  <2> HIDE DEF e
  <2>. QED  BY <1>7, <2>1, Zenon
<1>. QED  BY <1>3, <1>8, Zenon

\* A decoder has been given lengths, and what it did is what the functions return.
IInv ==
    /\ pc \in {"given", "ready", "refused", "decoded"} => lengths \in Lengths(GIVEN_SYMS)
    /\ pc \in {"ready", "decoded"} => huffman_decoder_init(lengths)
    /\ pc = "refused" => ~huffman_decoder_init(lengths)
    /\ pc = "decoded" => bits \in 0 .. Room - 1 /\ result = huffman_decode(lengths, bits)

LEMMA InitInv == Init => IInv
  BY DEF Init, Compute, Given, IInv, Lengths

LEMMA NextInv == IInv /\ [Next]_vars => IInv'
<1> SUFFICES ASSUME IInv, [Next]_vars PROVE IInv'
  OBVIOUS
<1> USE DEF IInv
<1>1. CASE compute
  <2>1. pc \in {"try_again", "few", "build"} /\ pc' \in {"try_again", "few", "build", "done"}
    BY <1>1 DEF compute, InitHeap, FewSymbols, JoinLightest, ReadLengths, LowerCap
  <2>. QED  BY <2>1
<1>2. CASE InitDecoder
  BY <1>2 DEF InitDecoder, decoding
<1>3. CASE Decode
  BY <1>3 DEF Decode, Room
<1>4. CASE UNCHANGED vars
  BY <1>4 DEF vars, building, decoding
<1>. QED  BY <1>1, <1>2, <1>3, <1>4 DEF Next

\* Every state the decoder reaches satisfies the invariant its properties rest on.
THEOREM InvariantHolds == Spec => []IInv
<1>. QED  BY InitInv, NextInv, PTL DEF Spec

\* What IsPrefixCode says of given lengths, in terms of the room taken up.
LEMMA PrefixRoom ==
    ASSUME lengths \in Lengths(GIVEN_SYMS), GIVEN_SYMS \in Nat
    PROVE  \E T : Fills(T, lengths) /\ (IsPrefixCode <=> T[MAX_HUFFMAN_BITS] <= Room)
<1>1. PICK T : Fills(T, lengths)
  BY FillsExist
<1>2. Taken(MAX_HUFFMAN_BITS) = T[MAX_HUFFMAN_BITS]
  BY <1>1, TakenIsFilled
<1>. QED  BY <1>1, <1>2 DEF IsPrefixCode, Room

LEMMA InvDecodes == IInv => DecodesCanonically
<1> SUFFICES ASSUME IInv, pc = "decoded"
             PROVE  /\ result.sym \in DOMAIN lengths \/ result = NoSymbol
                    /\ IsPrefixCode => \A s \in DOMAIN lengths :
                          StartsWith(s) <=> result = [sym |-> s, used |-> lengths[s]]
  BY DEF DecodesCanonically
<1>1. /\ GIVEN_SYMS \in Nat /\ lengths \in Lengths(GIVEN_SYMS) /\ huffman_decoder_init(lengths)
      /\ bits \in 0 .. Room - 1 /\ result = huffman_decode(lengths, bits)
  BY LimitAssumption DEF IInv
<1>2. result.sym \in DOMAIN lengths \/ result = NoSymbol
  BY <1>1, DecodesSymbols
<1>3. ASSUME IsPrefixCode, NEW s \in DOMAIN lengths
      PROVE  StartsWith(s) <=> result = [sym |-> s, used |-> lengths[s]]
  <2>1. PICK T : Fills(T, lengths) /\ T[MAX_HUFFMAN_BITS] <= Room
    BY <1>1, <1>3, PrefixRoom
  <2>2. s \in 0 .. GIVEN_SYMS - 1
    BY <1>1 DEF Lengths
  <2>. QED  BY <1>1, <2>1, <2>2, DecodesPrefixCode DEF StartsWith
<1>. QED  BY <1>2, <1>3

\* Whatever prefix code the decoder was given, huffman_decode finds the symbol whose
\* codeword compute_canonical_code gives, and none where no codeword begins; with any
\* lengths that pass, it reads no entry that was never filled.
THEOREM DecodesCanonicallyHolds == Spec => []DecodesCanonically
<1>. QED  BY InvariantHolds, InvDecodes, PTL

LEMMA InvAccepts == IInv => AcceptsPrefixCodes
<1> SUFFICES ASSUME IInv PROVE AcceptsPrefixCodes
  OBVIOUS
<1>0. GIVEN_SYMS \in Nat
  BY LimitAssumption
<1>1. ASSUME pc = "refused", IsPrefixCode PROVE FALSE
  <2>1. lengths \in Lengths(GIVEN_SYMS) /\ ~huffman_decoder_init(lengths)
    BY <1>1 DEF IInv
  <2>2. PICK T : Fills(T, lengths) /\ T[MAX_HUFFMAN_BITS] <= Room
    BY <1>0, <1>1, <2>1, PrefixRoom
  <2>. QED  BY <1>0, <2>1, <2>2, PrefixCodePasses
<1>2. ASSUME pc = "ready", OfLength(lengths, MAX_HUFFMAN_BITS) = {} PROVE IsPrefixCode
  <2>1. lengths \in Lengths(GIVEN_SYMS) /\ huffman_decoder_init(lengths)
    BY <1>2 DEF IInv
  <2>2. PICK T : Fills(T, lengths) /\ (IsPrefixCode <=> T[MAX_HUFFMAN_BITS] <= Room)
    BY <1>0, <2>1, PrefixRoom
  <2>. QED  BY <1>0, <1>2, <2>1, <2>2, PassesPrefixCode
<1>. QED  BY <1>1, <1>2 DEF AcceptsPrefixCodes

\* huffman_decoder_init refuses no prefix code, and accepts nothing else unless a
\* codeword has the full width.
THEOREM AcceptsPrefixCodesHolds == Spec => []AcceptsPrefixCodes
<1>. QED  BY InvariantHolds, InvAccepts, PTL

--------------------------------------------------------------------------------
(***************************************************************************)
(* Codes that use up all the room: every value of the bits is decoded.     *)
(***************************************************************************)
\* The lengths of the symbols of C alone, and the room these take up.
Kept(ls, C) == [s \in DOMAIN ls |-> IF s \in C THEN ls[s] ELSE 0]
Held(ls, C) == (CHOOSE T : Fills(T, Kept(ls, C)))[MAX_HUFFMAN_BITS]

LEMMA KeptType ==
    ASSUME NEW n \in Nat, NEW ls \in Lengths(n), NEW C
    PROVE  /\ Kept(ls, C) \in Lengths(n) /\ DOMAIN ls = 0 .. n - 1
           /\ \A s \in 0 .. n - 1 : Kept(ls, C)[s] = IF s \in C THEN ls[s] ELSE 0
           /\ \E T : Fills(T, Kept(ls, C)) /\ Held(ls, C) = T[MAX_HUFFMAN_BITS]
           /\ Held(ls, C) \in Nat
<1>1. DOMAIN ls = 0 .. n - 1 /\ 0 \in 0 .. MAX_HUFFMAN_BITS /\ \A s \in 0 .. n - 1 : ls[s] \in 0 .. MAX_HUFFMAN_BITS
  BY MaxFacts DEF Lengths
<1>2. Kept(ls, C) \in Lengths(n) /\ \A s \in 0 .. n - 1 : Kept(ls, C)[s] = IF s \in C THEN ls[s] ELSE 0
  BY <1>1 DEF Kept, Lengths
<1>3. PICK T : Fills(T, Kept(ls, C)) /\ Held(ls, C) = T[MAX_HUFFMAN_BITS]
  <2>1. \E T : Fills(T, Kept(ls, C))
    BY <1>2, FillsExist
  <2>. QED  BY <2>1 DEF Held
<1>4. Held(ls, C) \in Nat
  BY <1>3, MaxFacts DEF Fills
<1>. QED  BY <1>1, <1>2, <1>3, <1>4

LEMMA HeldNone ==
    ASSUME NEW n \in Nat, NEW ls \in Lengths(n)
    PROVE  Held(ls, {}) = 0
<1>1. PICK T : Fills(T, Kept(ls, {})) /\ Held(ls, {}) = T[MAX_HUFFMAN_BITS]
  BY KeptType
<1>2. Kept(ls, {}) \in Lengths(n) /\ \A s \in 0 .. n - 1 : Kept(ls, {})[s] = 0
  BY KeptType
<1> DEFINE A == {l \in 0 .. MAX_HUFFMAN_BITS : T[l] = 0}
<1>3. 0 \in A
  BY <1>1, MaxFacts DEF Fills
<1>4. ASSUME NEW j \in 0 .. MAX_HUFFMAN_BITS - 1, j \in A PROVE j + 1 \in A
  <2>1. PICK l \in Width : l = j + 1 /\ l - 1 = j /\ l # 0 /\ l \in 0 .. MAX_HUFFMAN_BITS
    BY MaxFacts
  <2>2. OfLength(Kept(ls, {}), l) = {}
    BY <1>2, <2>1 DEF OfLength, Lengths
  <2>3. PICK p, q, c, x : Adds(T, Kept(ls, {}), l, p, q, c, x)
    BY <1>1, <1>2, FillsStep
  <2>4. c = 0
    BY <2>2, <2>3, FS_EmptySet DEF Adds
  <2>5. T[l] = 0
    BY <1>4, <2>1, <2>3, <2>4 DEF Adds
  <2>. QED  BY <2>1, <2>5
<1>5. MAX_HUFFMAN_BITS \in A
  <2> HIDE DEF A
  <2>1. \A i \in 0 .. MAX_HUFFMAN_BITS : i \in A
    BY <1>3, <1>4, Climb, MaxFacts
  <2>. QED  BY <2>1, MaxFacts
<1>. QED  BY <1>1, <1>5

\* One symbol more takes up the room of its codeword.
LEMMA HeldAdds ==
    ASSUME NEW n \in Nat, NEW ls \in Lengths(n), NEW C \in SUBSET (0 .. n - 1), NEW x \in C, ls[x] # 0
    PROVE  Held(ls, C) = 2 ^ (MAX_HUFFMAN_BITS - ls[x]) + Held(ls, C \ {x})
<1> DEFINE D == C \ {x}
           k == ls[x]
           a == Kept(ls, C)
           b == Kept(ls, D)
<1>1. k \in Width /\ k \in Nat /\ k # 0 /\ \A l \in Width : l \in Nat /\ l # 0
  BY MaxFacts DEF Lengths
<1>2. /\ a \in Lengths(n) /\ \A s \in 0 .. n - 1 : a[s] = IF s \in C THEN ls[s] ELSE 0
      /\ b \in Lengths(n) /\ \A s \in 0 .. n - 1 : b[s] = IF s \in D THEN ls[s] ELSE 0
  <2>1. \A E : Kept(ls, E) \in Lengths(n) /\ \A s \in 0 .. n - 1 : Kept(ls, E)[s] = IF s \in E THEN ls[s] ELSE 0
    BY <1>1, KeptType, Zenon
  <2>. QED  BY <2>1, Zenon
<1>3. PICK T : Fills(T, a) /\ Held(ls, C) = T[MAX_HUFFMAN_BITS]
  BY <1>1, KeptType
<1>4. PICK U : Fills(U, b) /\ Held(ls, D) = U[MAX_HUFFMAN_BITS]
  BY <1>1, KeptType
<1>5. PICK p \in Nat : p = 2 ^ (MAX_HUFFMAN_BITS - k)
  <2>1. k \in 0 .. MAX_HUFFMAN_BITS
    BY <1>1, MaxFacts
  <2>. QED  BY <2>1, RoomSplit
<1>6. ASSUME NEW l \in Width
      PROVE  Cardinality(OfLength(a, l)) = Cardinality(OfLength(b, l)) + IF l = k THEN 1 ELSE 0
  <2>1. DOMAIN a = 0 .. n - 1 /\ DOMAIN b = 0 .. n - 1
    BY <1>2 DEF Lengths
  <2>2. OfLength(a, l) = {s \in C : ls[s] = l} /\ OfLength(b, l) = {s \in D : ls[s] = l}
    BY <1>1, <1>2, <2>1 DEF OfLength
  <2>3. IsFiniteSet(OfLength(b, l)) /\ Cardinality(OfLength(b, l)) \in Nat
    BY <1>2, CountFacts
  <2>4. CASE l = k
    <3>1. OfLength(a, l) = OfLength(b, l) \cup {x} /\ x \notin OfLength(b, l)
      BY <2>2, <2>4
    <3>. QED  BY <2>3, <2>4, <3>1, FS_AddElement
  <2>5. CASE l # k
    <3>1. OfLength(a, l) = OfLength(b, l)
      BY <2>2, <2>5
    <3>. QED  BY <2>3, <2>5, <3>1
  <2>. QED  BY <2>4, <2>5
<1> DEFINE A == {l \in 0 .. MAX_HUFFMAN_BITS : T[l] = U[l] + IF l < k THEN 0 ELSE p}
<1> HIDE DEF a, b, k
<1>7. 0 \in A
  BY <1>1, <1>3, <1>4, MaxFacts DEF Fills
<1>8. ASSUME NEW j \in 0 .. MAX_HUFFMAN_BITS - 1, j \in A PROVE j + 1 \in A
  <2>1. PICK l \in Width : l = j + 1 /\ l - 1 = j /\ l # 0 /\ l \in 0 .. MAX_HUFFMAN_BITS
    BY MaxFacts
  <2>2. PICK q, r, c, y : Adds(T, a, l, q, r, c, y)
    BY <1>2, <1>3, FillsStep
  <2>3. PICK q2, r2, d, z : Adds(U, b, l, q2, r2, d, z)
    BY <1>2, <1>4, FillsStep
  <2>4. /\ q \in Nat /\ q2 = q /\ q = 2 ^ (MAX_HUFFMAN_BITS - l) /\ c \in Nat /\ d \in Nat /\ y \in Nat /\ z \in Nat
        /\ c = Cardinality(OfLength(a, l)) /\ d = Cardinality(OfLength(b, l))
        /\ y = T[l - 1] /\ T[l] = y + c * q /\ z = U[l - 1] /\ U[l] = z + d * q
    BY <2>2, <2>3 DEF Adds
  <2>5. c = d + IF l = k THEN 1 ELSE 0
    BY <1>6, <2>4
  <2>6. y = z + IF j < k THEN 0 ELSE p
    BY <1>8, <2>1, <2>4
  <2>7. c * q = d * q + IF l = k THEN q ELSE 0
    <3>1. \A u, v \in Nat : (u + 1) * v = u * v + v /\ u * v \in Nat
      OBVIOUS
    <3>2. (d + 1) * q = d * q + q /\ d * q \in Nat
      BY <2>4, <3>1
    <3>3. CASE l = k
      <4>1. c = d + 1
        BY <2>5, <3>3
      <4>. QED  BY <3>2, <3>3, <4>1
    <3>4. CASE l # k
      <4>1. c = d
        BY <2>4, <2>5, <3>4
      <4>. QED  BY <3>2, <3>4, <4>1
    <3>. QED  BY <3>3, <3>4
  <2>8. d * q \in Nat
    BY <2>4, TimesNat
  <2>9. l = k => q = p
    BY <1>5, <2>4
  <2>10. T[l] = U[l] + IF l < k THEN 0 ELSE p
    <3>1. PICK e \in Nat : e = d * q
      BY <2>8
    <3>2. T[l] = y + (e + IF l = k THEN q ELSE 0) /\ U[l] = z + e
      BY <2>4, <2>7, <3>1
    <3>3. l \in Nat /\ j \in Nat /\ k \in Nat /\ l = j + 1
      BY <1>1, <2>1
    <3>0. y \in Nat /\ z \in Nat /\ q \in Nat
      BY <2>4
    <3>4. CASE l < k
      <4>1. y = z /\ l # k
        BY <3>0, <2>6, <3>3, <3>4
      <4>. QED  BY <3>0, <3>2, <3>4, <4>1
    <3>5. CASE l = k
      <4>1. y = z /\ q = p
        BY <3>0, <2>6, <2>9, <3>3, <3>5
      <4>. QED  BY <1>5, <3>0, <3>2, <3>3, <3>5, <4>1
    <3>6. CASE l > k
      <4>1. y = z + p /\ l # k
        BY <3>0, <2>6, <3>3, <3>6
      <4>. QED  BY <1>5, <3>0, <3>2, <3>3, <3>6, <4>1
    <3>. QED  BY <3>3, <3>4, <3>5, <3>6
  <2>. QED  BY <2>1, <2>10
<1>9. MAX_HUFFMAN_BITS \in A
  <2> HIDE DEF A
  <2>1. \A i \in 0 .. MAX_HUFFMAN_BITS : i \in A
    BY <1>7, <1>8, Climb, MaxFacts
  <2>. QED  BY <2>1, MaxFacts
<1>10. Held(ls, C) = p + Held(ls, D)
  <2>1. T[MAX_HUFFMAN_BITS] = U[MAX_HUFFMAN_BITS] + p
    BY <1>1, <1>9, MaxFacts
  <2>2. U[MAX_HUFFMAN_BITS] \in Nat
    BY <1>4, MaxFacts DEF Fills
  <2>. QED  BY <1>3, <1>4, <1>5, <2>1, <2>2
<1>. QED  BY <1>5, <1>10 DEF k

\* The room of all symbols, summed as TreeFull (read_huffman_code) does.
RoomOf(ls) == MapThenSumSet(LAMBDA s : 2 ^ (MAX_HUFFMAN_BITS - ls[s]), DOMAIN ls)
\* g is the function by which MapThenSumSet adds them up.
Folded(g, ls, D) ==
    g = [S \in SUBSET D |->
            IF S = {} THEN 0
            ELSE 2 ^ (MAX_HUFFMAN_BITS - ls[CHOOSE x \in S : TRUE]) + g[S \ {CHOOSE x \in S : TRUE}]]

LEMMA FoldedHeld ==
    ASSUME NEW n \in Nat, NEW ls \in Lengths(n), NEW D \in SUBSET (0 .. n - 1), \A s \in D : ls[s] # 0
    PROVE  /\ \E g : Folded(g, ls, D)
           /\ \A g : Folded(g, ls, D) => g[D] = Held(ls, D)
<1> DEFINE w(x) == 2 ^ (MAX_HUFFMAN_BITS - ls[x])
           any(S) == CHOOSE x \in S : TRUE
           f == [S \in SUBSET D |-> Held(ls, S)]
<1>1. \A S \in SUBSET D : S # {} => any(S) \in S
  OBVIOUS
<1>2. \A S \in SUBSET D : S # {} => Held(ls, S) = w(any(S)) + Held(ls, S \ {any(S)})
  <2> SUFFICES ASSUME NEW S \in SUBSET D, S # {}
               PROVE  Held(ls, S) = w(any(S)) + Held(ls, S \ {any(S)})
    OBVIOUS
  <2>1. PICK x \in S : x = any(S)
    BY <1>1
  <2>2. Held(ls, S) = w(x) + Held(ls, S \ {x})
    <3>1. S \in SUBSET (0 .. n - 1) /\ ls[x] # 0
      OBVIOUS
    <3>. QED  BY <3>1, HeldAdds
  <2>. QED  BY <2>1, <2>2
<1>3. Held(ls, {}) = 0
  BY HeldNone
<1>4. Folded(f, ls, D)
  <2>1. ASSUME NEW S \in SUBSET D, S # {} PROVE f[S] = w(any(S)) + f[S \ {any(S)}]
    <3>1. S \ {any(S)} \in SUBSET D
      OBVIOUS
    <3> HIDE DEF w, any
    <3>. QED  BY <1>2, <2>1, <3>1
  <2>2. f[{}] = 0
    BY <1>3
  <2>3. f = [S \in SUBSET D |-> f[S]]
    OBVIOUS
  <2> HIDE DEF f
  <2>4. \A S \in SUBSET D : f[S] = IF S = {} THEN 0 ELSE w(any(S)) + f[S \ {any(S)}]
    <3> HIDE DEF w, any
    <3>. QED  BY <2>1, <2>2
  <2>. QED  BY <2>3, <2>4, Zenon DEF Folded
<1>5. ASSUME NEW g, Folded(g, ls, D) PROVE g[D] = Held(ls, D)
  <2> DEFINE A == {i \in 0 .. n : \A S \in SUBSET D : Cardinality(S) = i => g[S] = Held(ls, S)}
  <2>1. IsFiniteSet(D) /\ Cardinality(D) \in Nat /\ Cardinality(D) <= n
    <3>1. IsFiniteSet(0 .. n - 1) /\ Cardinality(0 .. n - 1) = n
      BY FS_Interval
    <3>. QED  BY <3>1, FS_Subset, FS_CardinalityType
  <2>2. \A S \in SUBSET D : IsFiniteSet(S) /\ Cardinality(S) \in Nat
    BY <2>1, FS_Subset, FS_CardinalityType
  <2>3. g[{}] = 0
    BY <1>5 DEF Folded
  <2>4. 0 \in A
    <3>1. \A S \in SUBSET D : Cardinality(S) = 0 => S = {}
      BY <2>2, FS_EmptySet
    <3>2. \A S \in SUBSET D : Cardinality(S) = 0 => g[S] = Held(ls, S)
      BY <1>3, <2>3, <3>1
    <3>. QED  BY <3>2
  <2>5. ASSUME NEW j \in 0 .. n - 1, j \in A PROVE j + 1 \in A
    <3> SUFFICES ASSUME NEW S \in SUBSET D, Cardinality(S) = j + 1 PROVE g[S] = Held(ls, S)
      OBVIOUS
    <3>1. S # {}
      BY FS_EmptySet
    <3>2. PICK x \in S : x = any(S)
      BY <1>1, <3>1
    <3>3. g[S] = w(x) + g[S \ {x}]
      <4>1. g[S] = w(any(S)) + g[S \ {any(S)}]
        BY <1>5, <3>1 DEF Folded
      <4>. QED  BY <3>2, <4>1
    <3>4. S \ {x} \in SUBSET D /\ Cardinality(S \ {x}) = j
      BY <2>2, FS_RemoveElement
    <3>5. g[S \ {x}] = Held(ls, S \ {x})
      BY <2>5, <3>4
    <3>. QED  BY <1>2, <3>1, <3>2, <3>3, <3>5
  <2>6. Cardinality(D) \in A
    <3> HIDE DEF A
    <3>1. \A i \in 0 .. n : i \in A
      BY <2>4, <2>5, Climb
    <3>. QED  BY <2>1, <3>1
  <2>. QED  BY <2>6
<1>. QED  BY <1>4, <1>5

LEMMA SumIsRoom ==
    ASSUME NEW n \in Nat, NEW ls \in [0 .. n - 1 -> Width]
    PROVE  \E T : Fills(T, ls) /\ T[MAX_HUFFMAN_BITS] = RoomOf(ls)
<1>1. ls \in Lengths(n) /\ DOMAIN ls = 0 .. n - 1 /\ \A s \in 0 .. n - 1 : ls[s] # 0
  BY MaxFacts DEF Lengths
<1>2. \E g : Folded(g, ls, DOMAIN ls)
  BY <1>1, FoldedHeld
<1>3. PICK g : Folded(g, ls, DOMAIN ls) /\ g[DOMAIN ls] = RoomOf(ls)
  BY <1>2 DEF RoomOf, MapThenSumSet, MapThenFoldSet, Folded
<1>4. g[DOMAIN ls] = Held(ls, DOMAIN ls)
  BY <1>1, <1>3, FoldedHeld
<1>5. PICK T : Fills(T, Kept(ls, DOMAIN ls)) /\ Held(ls, DOMAIN ls) = T[MAX_HUFFMAN_BITS]
  BY <1>1, KeptType
<1>6. Kept(ls, DOMAIN ls) = ls
  BY DEF Kept
<1>. QED  BY <1>3, <1>4, <1>5, <1>6

\* A code that uses up all the room passes, and decodes any bits.
LEMMA FullCodeDecodes ==
    ASSUME NEW n \in Nat, NEW ls \in [0 .. n - 1 -> Width], NEW bs \in 0 .. Room - 1,
           RoomOf(ls) = Room
    PROVE  /\ huffman_decoder_init(ls)
           /\ huffman_decode(ls, bs).sym \in 0 .. n - 1 /\ huffman_decode(ls, bs).used \in Width
<1>1. PICK T : Fills(T, ls) /\ T[MAX_HUFFMAN_BITS] = Room
  BY SumIsRoom
<1>2. ls \in Lengths(n) /\ Room \in Nat /\ MAX_HUFFMAN_BITS \in Width
  <2>1. ls \in Lengths(n)
    BY MaxFacts DEF Lengths
  <2>. QED  BY <2>1, MaxFacts
<1>3. huffman_decoder_init(ls)
  BY <1>1, <1>2, PrefixCodePasses
<1>4. PICK m \in 0 .. Room - 1 : m = reverse16(bs, MAX_HUFFMAN_BITS) /\ m \in Nat
  BY ReversedRange
<1>5. PICK l \in Width : Falls(T, m, l)
  <2>1. ~(T[MAX_HUFFMAN_BITS] <= m)
    BY <1>1, <1>2
  <2>. QED  BY <1>1, <1>2, <1>4, <2>1, SomeLength
<1>6. PICK s \in 0 .. n - 1 : ls[s] = l /\ Begins(m, ls, s)
  BY <1>1, <1>2, <1>3, <1>5, SomeBegins DEF Falls
<1>7. huffman_decode(ls, bs) = [sym |-> s, used |-> l]
  BY <1>1, <1>2, <1>3, <1>4, <1>5, <1>6, DecodesSome
<1>. QED  BY <1>3, <1>7

--------------------------------------------------------------------------------
(***************************************************************************)
(* Loops written as recursive functions: each value is that of the next    *)
(* argument, or the argument is one of the last.                           *)
(***************************************************************************)
IsLoop(S, More, nx, rank) ==
    /\ More \in SUBSET S /\ nx \in [More -> S] /\ rank \in [S -> Nat]
    /\ \A s \in More : rank[nx[s]] < rank[s]

Loops(f, S, More, nx, base) == \A s \in S : f[s] = IF s \in More THEN f[nx[s]] ELSE base[s]

LEMMA LoopExists ==
    ASSUME NEW S, NEW V, NEW More, NEW nx, NEW rank, IsLoop(S, More, nx, rank), NEW base \in [S -> V]
    PROVE  \E f \in [S -> V] : Loops(f, S, More, nx, base)
<1>0. /\ More \in SUBSET S /\ nx \in [More -> S] /\ rank \in [S -> Nat]
      /\ \A s \in More : rank[nx[s]] < rank[s]
  BY DEF IsLoop
<1> USE <1>0
<1> DEFINE Low(k) == {s \in S : rank[s] < k}
           Is(f, k) == f \in [Low(k) -> V] /\ Loops(f, Low(k), More, nx, base)
           upto(k) == CHOOSE f : Is(f, k)
           T == {k \in Nat : \E f : Is(f, k)}
<1>1. ASSUME NEW k \in Nat, NEW f, Is(f, k), NEW g, Is(g, k + 1)
      PROVE  \A s \in Low(k) : f[s] = g[s]
  <2> DEFINE Bad == {rank[s] : s \in {t \in Low(k) : f[t] # g[t]}}
  <2> SUFFICES ASSUME Bad # {} PROVE FALSE
    OBVIOUS
  <2>1. Bad \subseteq Nat
    OBVIOUS
  <2>2. PICK r \in Bad : \A x \in Bad : r <= x
    <3> HIDE DEF Bad
    <3>. QED  BY <2>1, LeastElement
  <2>3. PICK s \in Low(k) : r = rank[s] /\ f[s] # g[s]
    BY <2>2
  <2>4. s \in Low(k + 1) /\ s \in S
    OBVIOUS
  <2>5. f[s] = (IF s \in More THEN f[nx[s]] ELSE base[s]) /\ g[s] = IF s \in More THEN g[nx[s]] ELSE base[s]
    BY <1>1, <2>3, <2>4 DEF Loops
  <2>6. s \in More /\ f[nx[s]] # g[nx[s]]
    BY <2>3, <2>5
  <2>7. nx[s] \in S /\ rank[nx[s]] < rank[s] /\ rank[nx[s]] \in Nat /\ rank[s] \in Nat
    BY <2>4, <2>6
  <2>8. nx[s] \in Low(k)
    BY <2>3, <2>7
  <2>9. rank[nx[s]] \in Bad
    BY <2>6, <2>8
  <2> HIDE DEF Bad
  <2>. QED  BY <2>2, <2>3, <2>7, <2>9
<1>2. ASSUME NEW k \in Nat, NEW f, Is(f, k) PROVE \E g : Is(g, k + 1)
  <2> DEFINE g == [s \in Low(k + 1) |-> IF s \in More THEN f[nx[s]] ELSE base[s]]
  <2>1. ASSUME NEW s \in Low(k + 1), s \in More PROVE nx[s] \in Low(k)
    <3>1. nx[s] \in S /\ rank[nx[s]] < rank[s] /\ rank[s] < k + 1
      BY <2>1
    <3>2. rank[nx[s]] \in Nat /\ rank[s] \in Nat
      BY <3>1
    <3>3. rank[nx[s]] < k
      BY <3>1, <3>2
    <3>. QED  BY <3>1, <3>3
  <2>2. g \in [Low(k + 1) -> V]
    <3>1. \A s \in Low(k + 1) : (IF s \in More THEN f[nx[s]] ELSE base[s]) \in V
      BY <1>2, <2>1
    <3> HIDE DEF Low
    <3>. QED  BY <3>1
  <2>3. \A s \in Low(k) : s \in Low(k + 1) /\ s \in S
    OBVIOUS
  <2>4. \A s \in Low(k) : g[s] = f[s]
    <3>1. \A s \in Low(k) : f[s] = IF s \in More THEN f[nx[s]] ELSE base[s]
      BY <1>2 DEF Loops
    <3> HIDE DEF Low
    <3>. QED  BY <2>3, <3>1
  <2>5. \A s \in Low(k + 1) : g[s] = IF s \in More THEN g[nx[s]] ELSE base[s]
    <3> SUFFICES ASSUME NEW s \in Low(k + 1) PROVE g[s] = IF s \in More THEN g[nx[s]] ELSE base[s]
      OBVIOUS
    <3>1. s \in More => g[nx[s]] = f[nx[s]]
      BY <2>1, <2>4
    <3> HIDE DEF Low
    <3>. QED  BY <3>1
  <2> HIDE DEF g
  <2>6. Is(g, k + 1)
    BY <2>2, <2>5 DEF Loops
  <2> HIDE DEF Is
  <2>. QED  BY <2>6
<1>3. ASSUME NEW k \in Nat PROVE Is(upto(k), k)
  <2>1. \E f : Is(f, 0)
    <3>1. Low(0) = {}
      OBVIOUS
    <3>2. [s \in {} |-> s] \in [{} -> V] /\ Loops([s \in {} |-> s], {}, More, nx, base)
      BY DEF Loops
    <3>3. Is([s \in {} |-> s], 0)
      BY <3>1, <3>2
    <3> HIDE DEF Is
    <3>. QED  BY <3>3
  <2>2. 0 \in T
    <3> HIDE DEF Is
    <3>. QED  BY <2>1
  <2>3. \A j \in 0 .. k - 1 : j \in T => j + 1 \in T
    <3> HIDE DEF Is
    <3>. QED  BY <1>2
  <2>4. \E f : Is(f, k)
    <3> HIDE DEF T
    <3>1. \A i \in 0 .. k : i \in T
      BY <2>2, <2>3, Climb
    <3>2. k \in T
      BY <3>1
    <3>. QED  BY <3>2 DEF T
  <2> HIDE DEF Is
  <2>. QED  BY <2>4
<1> DEFINE F == [s \in S |-> upto(rank[s] + 1)[s]]
<1>4. ASSUME NEW s \in S, NEW k \in Nat, rank[s] < k PROVE upto(k)[s] = F[s]
  <2> DEFINE A == {i \in Nat : rank[s] < i /\ upto(i)[s] # F[s]}
  <2> SUFFICES ASSUME A # {} PROVE FALSE
    BY <1>4
  <2>1. PICK i \in A : \A j \in A : i <= j
    <3>1. A \subseteq Nat
      OBVIOUS
    <3> HIDE DEF A
    <3>. QED  BY <3>1, LeastElement
  <2>2. i \in Nat /\ rank[s] < i /\ upto(i)[s] # F[s]
    BY <2>1
  <2>3. rank[s] \in Nat /\ F[s] = upto(rank[s] + 1)[s]
    OBVIOUS
  <2> HIDE DEF F, upto
  <2>4. i # rank[s] + 1
    BY <2>2, <2>3
  <2>5. i - 1 \in Nat /\ rank[s] < i - 1 /\ (i - 1) + 1 = i
    BY <2>2, <2>3, <2>4
  <2>6. i - 1 \notin A
    <3>1. ~(i <= i - 1)
      BY <2>2
    <3> HIDE DEF A
    <3>. QED  BY <2>1, <3>1
  <2>7. upto(i - 1)[s] = F[s]
    BY <2>5, <2>6
  <2>8. Is(upto(i - 1), i - 1) /\ Is(upto(i), i)
    <3> HIDE DEF Is
    <3>. QED  BY <1>3, <2>2, <2>5
  <2>9. s \in Low(i - 1)
    BY <2>5
  <2> HIDE DEF Is, Low
  <2>10. upto(i - 1)[s] = upto(i)[s]
    BY <1>1, <2>5, <2>8, <2>9
  <2>. QED  BY <2>2, <2>7, <2>10
<1>5. ASSUME NEW s \in S
      PROVE  F[s] \in V /\ F[s] = IF s \in More THEN F[nx[s]] ELSE base[s]
  <2> DEFINE k == rank[s] + 1
  <2>1. k \in Nat /\ rank[s] < k /\ s \in Low(k)
    OBVIOUS
  <2>2. Is(upto(k), k) /\ F[s] = upto(k)[s]
    <3> HIDE DEF Is, upto
    <3>. QED  BY <1>3, <2>1
  <2> HIDE DEF upto, F, k
  <2>3. upto(k)[s] \in V /\ upto(k)[s] = IF s \in More THEN upto(k)[nx[s]] ELSE base[s]
    BY <2>1, <2>2 DEF Loops
  <2>4. s \in More => nx[s] \in S /\ rank[nx[s]] < k
    <3>1. s \in More => nx[s] \in S /\ rank[nx[s]] < rank[s] /\ rank[nx[s]] \in Nat
      OBVIOUS
    <3>. QED  BY <2>1, <3>1 DEF k
  <2>5. s \in More => upto(k)[nx[s]] = F[nx[s]]
    BY <1>4, <2>1, <2>4
  <2>. QED  BY <2>2, <2>3, <2>5
<1>6. F \in [S -> V]
  <2>1. \A s \in S : F[s] \in V
    BY <1>5
  <2>2. \A s \in S : upto(rank[s] + 1)[s] \in V
    <3> HIDE DEF upto
    <3>. QED  BY <2>1
  <2> HIDE DEF upto
  <2>. QED  BY <2>2
<1> HIDE DEF F
<1>7. Loops(F, S, More, nx, base)
  BY <1>5, Zenon DEF Loops
<1>. QED  BY <1>6, <1>7

\* What each round keeps leads to what the last arguments give.
Keeps(Good, S, More, nx) == Good \in SUBSET S /\ \A s \in Good : s \in More => nx[s] \in Good
Gives(Good, More, base, W) == \A s \in Good : s \notin More => base[s] \in W

LEMMA LoopKeeps ==
    ASSUME NEW S, NEW More, NEW nx, NEW rank, IsLoop(S, More, nx, rank),
           NEW f, NEW base, Loops(f, S, More, nx, base),
           NEW Good, Keeps(Good, S, More, nx), NEW W, Gives(Good, More, base, W)
    PROVE  \A s \in Good : f[s] \in W
<1> USE DEF Keeps, Gives, IsLoop
<1> DEFINE Bad == {rank[s] : s \in {t \in Good : f[t] \notin W}}
<1> SUFFICES ASSUME Bad # {} PROVE FALSE
  OBVIOUS
<1>1. Bad \subseteq Nat
  OBVIOUS
<1>2. PICK r \in Bad : \A x \in Bad : r <= x
  <2> HIDE DEF Bad
  <2>. QED  BY <1>1, LeastElement
<1>3. PICK s \in Good : r = rank[s] /\ f[s] \notin W
  BY <1>2
<1>4. s \in S /\ f[s] = IF s \in More THEN f[nx[s]] ELSE base[s]
  BY DEF Loops
<1>5. s \in More /\ f[nx[s]] \notin W /\ nx[s] \in Good
  BY <1>3, <1>4
<1>6. rank[nx[s]] < rank[s] /\ rank[nx[s]] \in Nat /\ rank[s] \in Nat /\ rank[nx[s]] \in Bad
  BY <1>4, <1>5
<1> HIDE DEF Bad
<1>. QED  BY <1>2, <1>3, <1>6

--------------------------------------------------------------------------------
(***************************************************************************)
(* The heap.                                                               *)
(***************************************************************************)
NodeArrays(N) == [1 .. N -> Nat]

\* c is a child of p.
Under(p, c) == c = 2 * p \/ c = 2 * p + 1

\* No child is smaller than its parent, from position i on.
Heap(a, hp, i) == \A p \in i .. hp, c \in 1 .. hp : Under(p, c) => a[p] <= a[c]

\* A heap but for the node at j, whose children are not smaller than its parent.
HeapButFor(a, hp, i, j) ==
    /\ \A p \in i .. hp, c \in 1 .. hp : Under(p, c) /\ p # j => a[p] <= a[c]
    /\ \A p \in i .. hp, c \in 1 .. hp : Under(p, j) /\ Under(j, c) => a[p] <= a[c]

Distinct(a, hp) == \A k, m \in 1 .. hp : a[k] = a[m] => k = m

\* b has the first hp entries of a in another order, and the others where they are.
Permutes(a, b, N, hp) ==
    /\ b \in NodeArrays(N)
    /\ \A k \in hp + 1 .. N : b[k] = a[k]
    /\ \A k \in 1 .. hp : \E m \in 1 .. hp : b[m] = a[k]
    /\ \A m \in 1 .. hp : \E k \in 1 .. hp : b[m] = a[k]
    /\ Distinct(a, hp) => Distinct(b, hp)

LEMMA PermutesTwice ==
    ASSUME NEW N \in Nat, NEW hp \in 0 .. N, NEW a, NEW b, NEW c, Permutes(a, b, N, hp), Permutes(b, c, N, hp)
    PROVE  Permutes(a, c, N, hp)
<1>1. \A k \in hp + 1 .. N : c[k] = a[k]
  BY DEF Permutes
<1>2. \A k \in 1 .. hp : \E m \in 1 .. hp : c[m] = a[k]
  BY DEF Permutes
<1>3. \A m \in 1 .. hp : \E k \in 1 .. hp : c[m] = a[k]
  BY DEF Permutes
<1>. QED  BY <1>1, <1>2, <1>3 DEF Permutes

LEMMA Swapped ==
    ASSUME NEW N \in Nat, NEW hp \in 0 .. N, NEW a \in NodeArrays(N), NEW i \in 1 .. hp, NEW j \in 1 .. hp
    PROVE  /\ swap32(a, i, j)[i] = a[j] /\ swap32(a, i, j)[j] = a[i]
           /\ \A k \in 1 .. N : k # i /\ k # j => swap32(a, i, j)[k] = a[k]
           /\ Permutes(a, swap32(a, i, j), N, hp)
<1> DEFINE b == swap32(a, i, j)
<1>1. /\ b \in NodeArrays(N) /\ b[i] = a[j] /\ b[j] = a[i]
      /\ \A k \in 1 .. N : k # i /\ k # j => b[k] = a[k]
  BY DEF swap32, NodeArrays
<1> HIDE DEF b
<1>2. \A k \in hp + 1 .. N : b[k] = a[k]
  <2>1. \A k \in hp + 1 .. N : k \in 1 .. N /\ k # i /\ k # j
    OBVIOUS
  <2>. QED  BY <1>1, <2>1
<1>0. \A k \in 1 .. hp : k \in 1 .. N
  OBVIOUS
<1>3. \A k \in 1 .. hp : \E m \in 1 .. hp : b[m] = a[k]
  BY <1>0, <1>1
<1>4. \A m \in 1 .. hp : \E k \in 1 .. hp : b[m] = a[k]
  BY <1>0, <1>1
<1>5. Distinct(a, hp) => Distinct(b, hp)
  BY <1>0, <1>1 DEF Distinct
<1>6. Permutes(a, b, N, hp)
  BY <1>1, <1>2, <1>3, <1>4, <1>5 DEF Permutes
<1>. QED  BY <1>1, <1>6 DEF b

\* The smaller child of j, if it has two; is it smaller than j?
Smaller(a, hp, j) == IF 2 * j + 1 <= hp /\ a[2 * j + 1] < a[2 * j] THEN 2 * j + 1 ELSE 2 * j
Sinks(a, hp, j) == 2 * j <= hp /\ a[Smaller(a, hp, j)] < a[j]

LEMMA SinkStep ==
    ASSUME NEW N \in Nat, NEW hp \in 0 .. N, NEW a \in NodeArrays(N), NEW i \in 1 .. hp, NEW j \in i .. hp,
           Sinks(a, hp, j), HeapButFor(a, hp, i, j), NEW c, c = Smaller(a, hp, j)
    PROVE  /\ c \in i .. hp /\ c > j
           /\ HeapButFor(swap32(a, c, j), hp, i, c)
<1> DEFINE b == swap32(a, c, j)
<1>1. c \in 1 .. hp /\ c \in i .. hp /\ c > j /\ Under(j, c) /\ a[c] < a[j]
  BY DEF Smaller, Sinks, Under
<1>2. /\ b[c] = a[j] /\ b[j] = a[c]
      /\ \A k \in 1 .. N : k # c /\ k # j => b[k] = a[k]
  BY <1>1, Swapped
<1>3. \A k \in 1 .. hp : k \in 1 .. N /\ a[k] \in Nat
  BY DEF NodeArrays
<1>4. \A d \in 1 .. hp : Under(j, d) => a[c] <= a[d]
  <2>1. 2 * j \in 1 .. hp /\ (2 * j + 1 <= hp => 2 * j + 1 \in 1 .. hp)
    BY DEF Sinks
  <2>2. a[2 * j] \in Nat /\ (2 * j + 1 <= hp => a[2 * j + 1] \in Nat)
    BY <1>3, <2>1
  <2>3. ASSUME NEW d \in 1 .. hp, Under(j, d) PROVE a[c] <= a[d]
    BY <2>2, <2>3 DEF Under, Smaller
  <2>. QED  BY <2>3
<1> HIDE DEF b
<1>5. ASSUME NEW p \in i .. hp, NEW d \in 1 .. hp, Under(p, d), p # c PROVE b[p] <= b[d]
  <2>0. p \in 1 .. hp /\ p # d
    BY <1>5 DEF Under
  <2>1. CASE p = j
    BY <1>1, <1>2, <1>3, <1>4, <1>5, <2>0, <2>1
  <2>2. CASE p # j /\ d = j
    <3>1. a[p] <= a[c]
      BY <1>1, <1>5, <2>2 DEF HeapButFor
    <3>. QED  BY <1>2, <1>3, <1>5, <2>0, <2>2, <3>1
  <2>3. CASE p # j /\ d # j
    <3>1. d # c
      BY <1>1, <1>5, <2>3 DEF Under
    <3>2. a[p] <= a[d]
      BY <1>5, <2>3 DEF HeapButFor
    <3>. QED  BY <1>2, <1>3, <1>5, <2>0, <2>3, <3>1, <3>2
  <2>. QED  BY <2>1, <2>2, <2>3
<1>6. ASSUME NEW p \in i .. hp, NEW d \in 1 .. hp, Under(p, c), Under(c, d) PROVE b[p] <= b[d]
  <2>1. p = j /\ d # c /\ d # j
    BY <1>1, <1>6 DEF Under
  <2>2. a[c] <= a[d]
    BY <1>1, <1>6 DEF HeapButFor
  <2>. QED  BY <1>2, <1>3, <2>1, <2>2
<1>7. HeapButFor(b, hp, i, c)
  BY <1>5, <1>6 DEF HeapButFor
<1>. QED  BY <1>1, <1>7 DEF b

LEMMA SinkEnds ==
    ASSUME NEW N \in Nat, NEW hp \in 0 .. N, NEW a \in NodeArrays(N), NEW i \in 1 .. hp, NEW j \in i .. hp,
           ~Sinks(a, hp, j), HeapButFor(a, hp, i, j)
    PROVE  Heap(a, hp, i)
<1> SUFFICES ASSUME NEW p \in i .. hp, NEW c \in 1 .. hp, Under(p, c) PROVE a[p] <= a[c]
  BY DEF Heap
<1>1. \A k \in 1 .. hp : a[k] \in Nat
  BY DEF NodeArrays
<1>2. CASE p # j
  BY <1>2 DEF HeapButFor
<1>3. CASE p = j
  <2>1. 2 * j <= hp /\ 2 * j \in 1 .. hp /\ (2 * j + 1 <= hp => 2 * j + 1 \in 1 .. hp)
    BY <1>3 DEF Under
  <2>2. a[2 * j] \in Nat /\ (2 * j + 1 <= hp => a[2 * j + 1] \in Nat) /\ a[j] \in Nat /\ a[c] \in Nat
    BY <1>1, <2>1
  <2>. QED  BY <1>3, <2>1, <2>2 DEF Under, Sinks, Smaller
<1>. QED  BY <1>2, <1>3

\* The loop of minheap_down, by array and position.
SiftState(N, hp) == NodeArrays(N) \X (1 .. hp)
SiftMore(N, hp) == {s \in SiftState(N, hp) : Sinks(s[1], hp, s[2])}
SiftNext(N, hp) ==
    [s \in SiftMore(N, hp) |->
        <<swap32(s[1], Smaller(s[1], hp, s[2]), s[2]), Smaller(s[1], hp, s[2])>>]

Sifts(f, N, hp) ==
    f = [s \in SiftState(N, hp) |->
          LET a == s[1]
              j == s[2]
              left == 2 * j
              min == IF left + 1 <= hp /\ a[left + 1] < a[left] THEN left + 1 ELSE left
          IN  IF left <= hp /\ a[min] < a[j] THEN f[<<swap32(a, min, j), min>>] ELSE a]

LEMMA SiftLoop ==
    ASSUME NEW N \in Nat, NEW hp \in 0 .. N
    PROVE  /\ SiftNext(N, hp) \in [SiftMore(N, hp) -> SiftState(N, hp)]
           /\ \A s \in SiftMore(N, hp) : hp - SiftNext(N, hp)[s][2] < hp - s[2]
           /\ \E f : Sifts(f, N, hp)
           /\ \A f : Sifts(f, N, hp) =>
                 Loops(f, SiftState(N, hp), SiftMore(N, hp), SiftNext(N, hp), [s \in SiftState(N, hp) |-> s[1]])
<1> DEFINE S == SiftState(N, hp)
           More == SiftMore(N, hp)
           nx == SiftNext(N, hp)
           base == [s \in S |-> s[1]]
           e(f, s) == IF Sinks(s[1], hp, s[2])
                      THEN f[<<swap32(s[1], Smaller(s[1], hp, s[2]), s[2]), Smaller(s[1], hp, s[2])>>] ELSE s[1]
<1>1. ASSUME NEW s \in More
      PROVE  nx[s] \in S /\ hp - nx[s][2] < hp - s[2]
  <2>1. s \in S /\ Sinks(s[1], hp, s[2])
    BY DEF SiftMore
  <2>2. PICK a \in NodeArrays(N), j \in 1 .. hp : s = <<a, j>>
    BY <2>1 DEF SiftState
  <2>3. PICK c : c = Smaller(a, hp, j)
    OBVIOUS
  <2>4. c \in 1 .. hp /\ c > j
    BY <2>1, <2>2, <2>3 DEF Sinks, Smaller
  <2>5. nx[s] = <<swap32(a, c, j), c>>
    BY <2>2, <2>3 DEF SiftNext
  <2>6. swap32(a, c, j) \in NodeArrays(N)
    BY <2>4, Swapped DEF Permutes
  <2>. QED  BY <2>2, <2>4, <2>5, <2>6 DEF SiftState
<1>2. nx \in [More -> S]
  <2>1. nx = [s \in More |-> nx[s]]
    BY DEF SiftNext
  <2> HIDE DEF nx, More, S
  <2>. QED  BY <1>1, <2>1
<1>3. ASSUME NEW f PROVE Sifts(f, N, hp) <=> f = [s \in S |-> e(f, s)]
  BY Zenon DEF Sifts, Smaller, Sinks
<1>4. ASSUME NEW f, NEW s \in S
      PROVE  e(f, s) = IF s \in More THEN f[nx[s]] ELSE base[s]
  BY DEF SiftMore, SiftNext
<1>5. \E f : Sifts(f, N, hp)
  <2> DEFINE rank == [s \in S |-> hp - s[2]]
  <2>1. rank \in [S -> Nat] /\ base \in [S -> NodeArrays(N)] /\ More \in SUBSET S
    BY DEF SiftState, SiftMore
  <2>2. \A s \in More : rank[nx[s]] < rank[s]
    BY <1>1, <2>1
  <2> HIDE DEF rank, base, More, nx, S
  <2>6. IsLoop(S, More, nx, rank)
    BY <1>2, <2>1, <2>2, Zenon DEF IsLoop
  <2>3. PICK f \in [S -> NodeArrays(N)] : Loops(f, S, More, nx, base)
    BY <2>1, <2>6, LoopExists
  <2> HIDE DEF e
  <2>4. \A s \in S : f[s] = e(f, s)
    BY <1>4, <2>3, Zenon DEF Loops
  <2>5. f = [s \in S |-> f[s]]
    OBVIOUS
  <2>7. f = [s \in S |-> e(f, s)]
    BY <2>4, <2>5
  <2>. QED  BY <1>3, <2>7
<1>6. ASSUME NEW f, Sifts(f, N, hp) PROVE Loops(f, S, More, nx, base)
  <2> HIDE DEF e, base, More, nx, S
  <2>1. f = [s \in S |-> e(f, s)]
    BY <1>3, <1>6
  <2>2. \A s \in S : f[s] = e(f, s)
    BY <2>1, Zenon
  <2>. QED  BY <1>4, <2>2, Zenon DEF Loops
<1>. QED  BY <1>1, <1>2, <1>5, <1>6, Zenon

\* minheap_down permutes the heap, and repairs it below i.
LEMMA MinheapDown ==
    ASSUME NEW N \in Nat, NEW hp \in 0 .. N, NEW a \in NodeArrays(N), NEW i \in 1 .. hp
    PROVE  /\ Permutes(a, minheap_down(a, hp, i), N, hp)
           /\ Heap(a, hp, i + 1) => Heap(minheap_down(a, hp, i), hp, i)
<1> DEFINE f == CHOOSE f : Sifts(f, N, hp)
           S == SiftState(N, hp)
           More == SiftMore(N, hp)
           nx == SiftNext(N, hp)
           base == [s \in S |-> s[1]]
           rank == [s \in S |-> hp - s[2]]
<1>0. DOMAIN a = 1 .. N
  BY DEF NodeArrays
<1>1. minheap_down(a, hp, i) = f[<<a, i>>]
  BY <1>0, Zenon DEF minheap_down, Sifts, Arrays, NodeArrays, SiftState
<1>2. Loops(f, S, More, nx, base) /\ nx \in [More -> S]
  <2> HIDE DEF S, More, nx, base
  <2>1. Sifts(f, N, hp)
    BY SiftLoop, Zenon
  <2> HIDE DEF f
  <2>. QED  BY <2>1, SiftLoop, Zenon DEF S, More, nx, base
<1>3. IsLoop(S, More, nx, rank)
  <2>3. rank \in [S -> Nat] /\ More \in SUBSET S
    BY DEF SiftState, SiftMore
  <2>1. \A s \in S : rank[s] = hp - s[2]
    OBVIOUS
  <2> HIDE DEF rank, More, nx, S
  <2>2. \A s \in More : hp - nx[s][2] < hp - s[2]
    BY SiftLoop DEF More, nx
  <2>4. \A s \in More : rank[nx[s]] < rank[s]
    BY <1>2, <2>1, <2>2, <2>3
  <2>. QED  BY <1>2, <2>3, <2>4 DEF IsLoop
<1> DEFINE G1 == {s \in S : Permutes(a, s[1], N, hp)}
           G2 == {s \in S : s[2] \in i .. hp /\ HeapButFor(s[1], hp, i, s[2])}
<1> HIDE DEF f, rank
<1>5. ASSUME NEW s \in S, s \in More
      PROVE  /\ s \in G1 => nx[s] \in G1
             /\ s \in G2 => nx[s] \in G2
  <2>1. PICK b \in NodeArrays(N), j \in 1 .. hp : s = <<b, j>> /\ Sinks(b, hp, j)
    BY <1>5 DEF SiftState, SiftMore
  <2>2. PICK c : c = Smaller(b, hp, j)
    OBVIOUS
  <2>3. c \in 1 .. hp
    BY <2>1, <2>2 DEF Sinks, Smaller
  <2>4. nx[s] = <<swap32(b, c, j), c>> /\ nx[s] \in S
    <3>1. nx[s] = <<swap32(b, c, j), c>>
      BY <1>5, <2>1, <2>2 DEF SiftNext
    <3> HIDE DEF nx, More, S
    <3>. QED  BY <1>2, <1>5, <3>1
  <2>5. Permutes(b, swap32(b, c, j), N, hp)
    BY <2>3, Swapped
  <2>6. s \in G1 => Permutes(a, swap32(b, c, j), N, hp)
    BY <2>1, <2>5, PermutesTwice
  <2>7. s \in G2 => c \in i .. hp /\ HeapButFor(swap32(b, c, j), hp, i, c)
    BY <2>1, <2>2, SinkStep
  <2> HIDE DEF S, nx, More
  <2>. QED  BY <2>4, <2>6, <2>7
<1>6. f[<<a, i>>] \in {b \in NodeArrays(N) : Permutes(a, b, N, hp)}
  <2> DEFINE W == {b \in NodeArrays(N) : Permutes(a, b, N, hp)}
  <2>1. Gives(G1, More, base, W)
    BY DEF SiftState, Gives
  <2>2. <<a, i>> \in G1
    BY DEF SiftState, Permutes
  <2> HIDE DEF W, base, S, More, nx
  <2>3. Keeps(G1, S, More, nx)
    BY <1>5 DEF Keeps
  <2> HIDE DEF G1
  <2>4. \A s \in G1 : f[s] \in W
    BY <1>2, <1>3, <2>1, <2>3, LoopKeeps
  <2>. QED  BY <2>2, <2>4 DEF W
<1>7. ASSUME Heap(a, hp, i + 1) PROVE f[<<a, i>>] \in {b \in NodeArrays(N) : Heap(b, hp, i)}
  <2> DEFINE W == {b \in NodeArrays(N) : Heap(b, hp, i)}
  <2>1. Gives(G2, More, base, W)
    <3> SUFFICES ASSUME NEW s \in G2, s \notin More PROVE base[s] \in W
      BY DEF Gives
    <3>1. PICK b \in NodeArrays(N), j \in 1 .. hp : s = <<b, j>> /\ j \in i .. hp /\ HeapButFor(b, hp, i, j)
      BY DEF SiftState
    <3>2. ~Sinks(b, hp, j)
      BY <3>1 DEF SiftMore
    <3>3. Heap(b, hp, i)
      BY <3>1, <3>2, SinkEnds
    <3>. QED  BY <3>1, <3>3
  <2>2. <<a, i>> \in G2
    <3>1. HeapButFor(a, hp, i, i)
      BY <1>7 DEF Heap, HeapButFor, Under
    <3>. QED  BY <3>1 DEF SiftState
  <2> HIDE DEF W, base, S, More, nx
  <2>3. Keeps(G2, S, More, nx)
    BY <1>5 DEF Keeps
  <2> HIDE DEF G2
  <2>4. \A s \in G2 : f[s] \in W
    BY <1>2, <1>3, <2>1, <2>3, LoopKeeps
  <2>. QED  BY <2>2, <2>4 DEF W
<1>. QED  BY <1>1, <1>6, <1>7

LEMMA PermutesItself ==
    ASSUME NEW N \in Nat, NEW hp \in 0 .. N, NEW a \in NodeArrays(N)
    PROVE  Permutes(a, a, N, hp)
  BY DEF Permutes

\* The loop of minheap_heapify, by array and position.
BuildState(N, hp) == NodeArrays(N) \X (0 .. hp \div 2)
BuildMore(N, hp) == {s \in BuildState(N, hp) : s[2] # 0}
BuildNext(N, hp) == [s \in BuildMore(N, hp) |-> <<minheap_down(s[1], hp, s[2]), s[2] - 1>>]
BuildRank(N, hp) == [s \in BuildState(N, hp) |-> s[2]]
Builds(f, N, hp) ==
    f = [s \in BuildState(N, hp) |->
          IF s[2] = 0 THEN s[1] ELSE f[<<minheap_down(s[1], hp, s[2]), s[2] - 1>>]]

LEMMA BuildLoop ==
    ASSUME NEW N \in Nat, NEW hp \in 0 .. N
    PROVE  /\ IsLoop(BuildState(N, hp), BuildMore(N, hp), BuildNext(N, hp), BuildRank(N, hp))
           /\ \E f : Builds(f, N, hp)
           /\ \A f : Builds(f, N, hp) =>
                 Loops(f, BuildState(N, hp), BuildMore(N, hp), BuildNext(N, hp), [s \in BuildState(N, hp) |-> s[1]])
<1> DEFINE S == BuildState(N, hp)
           More == BuildMore(N, hp)
           nx == BuildNext(N, hp)
           rank == BuildRank(N, hp)
           base == [s \in S |-> s[1]]
           e(f, s) == IF s[2] = 0 THEN s[1] ELSE f[<<minheap_down(s[1], hp, s[2]), s[2] - 1>>]
<1>1. ASSUME NEW s \in More
      PROVE  nx[s] \in S /\ rank[nx[s]] < rank[s]
  <2>1. PICK a \in NodeArrays(N), i \in 0 .. hp \div 2 : s = <<a, i>> /\ i # 0 /\ s \in S
    BY DEF BuildMore, BuildState
  <2>2. PICK b : b = minheap_down(a, hp, i)
    OBVIOUS
  <2>3. i \in 1 .. hp /\ i - 1 \in 0 .. hp \div 2
    BY <2>1
  <2>4. b \in NodeArrays(N)
    BY <2>2, <2>3, MinheapDown DEF Permutes
  <2>5. nx[s] = <<b, i - 1>>
    BY <2>1, <2>2 DEF BuildNext
  <2>6. nx[s] \in S
    BY <2>3, <2>4, <2>5 DEF BuildState
  <2>7. rank[nx[s]] = i - 1 /\ rank[s] = i
    BY <2>1, <2>5, <2>6 DEF BuildRank
  <2>. QED  BY <2>3, <2>6, <2>7
<1>2. IsLoop(S, More, nx, rank)
  <2>1. More \in SUBSET S /\ rank \in [S -> Nat]
    BY DEF BuildState, BuildMore, BuildRank
  <2>2. nx = [s \in More |-> nx[s]]
    BY DEF BuildNext
  <2> HIDE DEF nx, More, S, rank
  <2>3. nx \in [More -> S]
    BY <1>1, <2>2
  <2>. QED  BY <1>1, <2>1, <2>3 DEF IsLoop
<1>3. ASSUME NEW f PROVE Builds(f, N, hp) <=> f = [s \in S |-> e(f, s)]
  BY Zenon DEF Builds
<1>4. ASSUME NEW f, NEW s \in S
      PROVE  e(f, s) = IF s \in More THEN f[nx[s]] ELSE base[s]
  BY DEF BuildMore, BuildNext
<1>5. \E f : Builds(f, N, hp)
  <2>1. base \in [S -> NodeArrays(N)]
    BY DEF BuildState
  <2> HIDE DEF rank, base, More, nx, S
  <2>2. PICK f \in [S -> NodeArrays(N)] : Loops(f, S, More, nx, base)
    BY <1>2, <2>1, LoopExists
  <2> HIDE DEF e
  <2>3. \A s \in S : f[s] = e(f, s)
    BY <1>4, <2>2, Zenon DEF Loops
  <2>4. f = [s \in S |-> f[s]]
    OBVIOUS
  <2>5. f = [s \in S |-> e(f, s)]
    BY <2>3, <2>4
  <2>. QED  BY <1>3, <2>5
<1>6. ASSUME NEW f, Builds(f, N, hp) PROVE Loops(f, S, More, nx, base)
  <2> HIDE DEF e, base, More, nx, S
  <2>1. f = [s \in S |-> e(f, s)]
    BY <1>3, <1>6
  <2>2. \A s \in S : f[s] = e(f, s)
    BY <2>1, Zenon
  <2>. QED  BY <1>4, <2>2, Zenon DEF Loops
<1>. QED  BY <1>2, <1>5, <1>6, Zenon

\* minheap_heapify permutes what it makes a heap.
LEMMA MinheapHeapify ==
    ASSUME NEW N \in Nat, NEW hp \in 0 .. N, NEW a \in NodeArrays(N)
    PROVE  Permutes(a, minheap_heapify(a, hp), N, hp) /\ Heap(minheap_heapify(a, hp), hp, 1)
<1> DEFINE f == CHOOSE f : Builds(f, N, hp)
           S == BuildState(N, hp)
           More == BuildMore(N, hp)
           nx == BuildNext(N, hp)
           rank == BuildRank(N, hp)
           base == [s \in S |-> s[1]]
           Good == {s \in S : Permutes(a, s[1], N, hp) /\ Heap(s[1], hp, s[2] + 1)}
           W == {b \in NodeArrays(N) : Permutes(a, b, N, hp) /\ Heap(b, hp, 1)}
<1>0. DOMAIN a = 1 .. N
  BY DEF NodeArrays
<1>1. minheap_heapify(a, hp) = f[<<a, hp \div 2>>]
  BY <1>0, Zenon DEF minheap_heapify, Builds, Arrays, NodeArrays, BuildState
<1>2. Loops(f, S, More, nx, base) /\ IsLoop(S, More, nx, rank)
  <2> HIDE DEF S, More, nx, base, rank
  <2>1. Builds(f, N, hp)
    BY BuildLoop, Zenon
  <2> HIDE DEF f
  <2>. QED  BY <2>1, BuildLoop, Zenon DEF S, More, nx, base, rank
<1> HIDE DEF f
<1>3. ASSUME NEW s \in Good, s \in More PROVE nx[s] \in Good
  <2>1. PICK b \in NodeArrays(N), i \in 0 .. hp \div 2 : s = <<b, i>> /\ i # 0
    BY <1>3 DEF BuildMore, BuildState
  <2>2. PICK c : c = minheap_down(b, hp, i)
    OBVIOUS
  <2>3. i \in 1 .. hp /\ i - 1 \in 0 .. hp \div 2 /\ (i - 1) + 1 = i
    BY <2>1
  <2>4. Permutes(b, c, N, hp) /\ (Heap(b, hp, i + 1) => Heap(c, hp, i))
    BY <2>2, <2>3, MinheapDown
  <2>5. Permutes(a, b, N, hp) /\ Heap(b, hp, i + 1)
    BY <2>1
  <2>6. Permutes(a, c, N, hp) /\ c \in NodeArrays(N)
    <3>1. Permutes(a, c, N, hp)
      BY <2>4, <2>5, PermutesTwice
    <3>. QED  BY <3>1 DEF Permutes
  <2>7. nx[s] = <<c, i - 1>>
    BY <1>3, <2>1, <2>2 DEF BuildNext
  <2>8. <<c, i - 1>> \in S
    BY <2>3, <2>6 DEF BuildState
  <2>. QED  BY <2>3, <2>4, <2>5, <2>6, <2>7, <2>8
<1>4. Keeps(Good, S, More, nx)
  <2> HIDE DEF S, More, nx
  <2>1. Good \in SUBSET S
    OBVIOUS
  <2> HIDE DEF Good
  <2>. QED  BY <1>3, <2>1 DEF Keeps
<1>5. Gives(Good, More, base, W)
  BY DEF Gives, BuildMore, BuildState
<1>6. <<a, hp \div 2>> \in Good
  <2>1. Heap(a, hp, (hp \div 2) + 1)
    BY DEF Heap, Under
  <2>2. <<a, hp \div 2>> \in S
    BY DEF BuildState
  <2>. QED  BY <2>1, <2>2, PermutesItself
<1> HIDE DEF Good, W, S, More, nx, rank, base
<1>7. f[<<a, hp \div 2>>] \in W
  BY <1>2, <1>4, <1>5, <1>6, LoopKeeps
<1>. QED  BY <1>1, <1>7 DEF W

\* The first node of a heap is not greater than any.
LEMMA FirstIsLeast ==
    ASSUME NEW N \in Nat, NEW hp \in 0 .. N, NEW a \in NodeArrays(N), Heap(a, hp, 1), NEW k \in 1 .. hp
    PROVE  a[1] <= a[k]
<1> DEFINE Bad == {m \in 1 .. hp : ~(a[1] <= a[m])}
<1> SUFFICES ASSUME Bad # {} PROVE FALSE
  OBVIOUS
<1>1. Bad \subseteq Nat
  OBVIOUS
<1>2. PICK m \in Bad : \A x \in Bad : m <= x
  <2> HIDE DEF Bad
  <2>. QED  BY <1>1, LeastElement
<1>3. m \in 1 .. hp /\ ~(a[1] <= a[m])
  BY <1>2
<1>4. \A x \in 1 .. hp : a[x] \in Nat
  BY DEF NodeArrays
<1>5. m # 1
  <2>1. 1 \in 1 .. hp
    BY <1>3
  <2>2. a[1] <= a[1]
    BY <1>4, <2>1
  <2>. QED  BY <1>3, <2>2
<1>6. m \div 2 \in 1 .. hp /\ m \div 2 < m /\ Under(m \div 2, m)
  BY <1>3, <1>5 DEF Under
<1>7. a[m \div 2] <= a[m]
  BY <1>3, <1>6 DEF Heap
<1>8. m \div 2 \notin Bad
  <2>1. ~(m <= m \div 2)
    BY <1>3, <1>6
  <2> HIDE DEF Bad
  <2>. QED  BY <1>2, <2>1
<1>9. a[1] <= a[m \div 2]
  BY <1>6, <1>8
<1>10. 1 \in 1 .. hp
  BY <1>3
<1>. QED  BY <1>3, <1>4, <1>6, <1>7, <1>9, <1>10

--------------------------------------------------------------------------------
(***************************************************************************)
(* Joining the two lightest nodes.                                         *)
(***************************************************************************)
Entries(a, hp) == {a[k] : k \in 1 .. hp}

LEMMA SameEntries ==
    ASSUME NEW N, NEW hp, NEW a, NEW b, Permutes(a, b, N, hp)
    PROVE  Entries(b, hp) = Entries(a, hp)
<1>1. \A k \in 1 .. hp : a[k] \in Entries(b, hp)
  BY DEF Permutes, Entries
<1>2. \A k \in 1 .. hp : b[k] \in Entries(a, hp)
  BY DEF Permutes, Entries
<1>. QED  BY <1>1, <1>2 DEF Entries

\* What is left is a heap of the other nodes.
LEMMA Popped ==
    ASSUME NEW N \in Nat, NEW hp \in 2 .. N, NEW a \in NodeArrays(N), Heap(a, hp, 1), Distinct(a, hp),
           NEW b, b = PopFirst(a, hp)
    PROVE  /\ b \in NodeArrays(N) /\ Heap(b, hp - 1, 1) /\ Distinct(b, hp - 1)
           /\ Entries(b, hp - 1) = Entries(a, hp) \ {a[1]}
           /\ \A k \in hp .. N : b[k] = a[k]
<1> DEFINE m == hp - 1
           x == [a EXCEPT ![1] = a[hp]]
<1>1. m \in 0 .. N /\ m \in Nat /\ 1 \in 1 .. m /\ m + 1 = hp /\ 1 \in 1 .. N /\ hp \in 1 .. N /\ 1 \in 1 .. hp /\ hp \in 1 .. hp /\ hp # 1
  OBVIOUS
<1>2. x \in NodeArrays(N) /\ x[1] = a[hp] /\ \A k \in 1 .. N : k # 1 => x[k] = a[k]
  BY <1>1 DEF NodeArrays
<1>3. \A k \in 1 .. m : k \in 1 .. N /\ k \in 1 .. hp /\ k # hp
  OBVIOUS
<1> HIDE DEF x
<1>4. Heap(x, m, 2)
  <2> SUFFICES ASSUME NEW p \in 2 .. m, NEW d \in 1 .. m, Under(p, d) PROVE x[p] <= x[d]
    BY DEF Heap
  <2>1. p \in 1 .. m /\ p # 1 /\ d # 1
    BY DEF Under
  <2>2. a[p] <= a[d]
    BY <1>3, <2>1 DEF Heap
  <2>. QED  BY <1>2, <1>3, <2>1, <2>2
<1>5. Distinct(x, m)
  <2> SUFFICES ASSUME NEW i \in 1 .. m, NEW j \in 1 .. m, x[i] = x[j] PROVE i = j
    BY DEF Distinct
  <2>1. x[i] = (IF i = 1 THEN a[hp] ELSE a[i]) /\ x[j] = IF j = 1 THEN a[hp] ELSE a[j]
    BY <1>2, <1>3
  <2>2. \A u, w \in 1 .. hp : a[u] = a[w] => u = w
    BY DEF Distinct
  <2>. QED  BY <1>1, <1>3, <2>1, <2>2
<1>6. Entries(x, m) = Entries(a, hp) \ {a[1]}
  <2>1. ASSUME NEW k \in 1 .. m PROVE x[k] \in Entries(a, hp) \ {a[1]}
    <3>1. x[k] = IF k = 1 THEN a[hp] ELSE a[k]
      BY <1>2, <1>3
    <3>2. \A u, w \in 1 .. hp : a[u] = a[w] => u = w
      BY DEF Distinct
    <3>. QED  BY <1>1, <1>3, <3>1, <3>2 DEF Entries
  <2>2. ASSUME NEW k \in 1 .. hp, a[k] # a[1] PROVE a[k] \in Entries(x, m)
    <3>1. k # 1
      BY <2>2
    <3>2. CASE k = hp
      BY <1>1, <1>2, <3>2 DEF Entries
    <3>3. CASE k # hp
      <4>1. k \in 1 .. m
        BY <3>3
      <4>. QED  BY <1>2, <1>3, <3>1, <4>1 DEF Entries
    <3>. QED  BY <3>2, <3>3
  <2>. QED  BY <2>1, <2>2 DEF Entries
<1>7. b = minheap_down(x, m, 1)
  BY DEF PopFirst, x
<1>8. Permutes(x, b, N, m) /\ (Heap(x, m, 1 + 1) => Heap(b, m, 1))
  BY <1>1, <1>2, <1>7, MinheapDown
<1>9. 1 + 1 = 2
  OBVIOUS
<1>10. b \in NodeArrays(N) /\ Heap(b, m, 1) /\ Distinct(b, m) /\ Entries(b, m) = Entries(a, hp) \ {a[1]}
  <2>1. Entries(b, m) = Entries(x, m)
    BY <1>8, SameEntries
  <2>2. b \in NodeArrays(N) /\ Distinct(b, m)
    BY <1>5, <1>8 DEF Permutes
  <2> HIDE DEF m
  <2>3. Heap(b, m, 1)
    BY <1>4, <1>8, <1>9
  <2>. QED  BY <1>6, <2>1, <2>2, <2>3
<1>11. \A k \in hp .. N : b[k] = a[k]
  <2>1. \A k \in hp .. N : k \in m + 1 .. N /\ k \in 1 .. N /\ k # 1
    OBVIOUS
  <2>2. \A k \in m + 1 .. N : b[k] = x[k]
    BY <1>8 DEF Permutes
  <2> HIDE DEF m
  <2>. QED  BY <1>2, <2>1, <2>2
<1>. QED  BY <1>10, <1>11

\* The parts of a node: its frequency, its link.
LEMMA NodeParts ==
    ASSUME NEW e \in Nat, NEW d \in Nat, NEW x \in 0 .. UINT16_MAX
    PROVE  /\ Link(e) \in 0 .. UINT16_MAX /\ e \div LINK \in Nat
           /\ FreqPart(e) \in Nat /\ FreqPart(e) = LINK * (e \div LINK)
           /\ FreqPart(e) + FreqPart(d) + x \in Nat
           /\ Link(FreqPart(e) + FreqPart(d) + x) = x
           /\ (FreqPart(e) + FreqPart(d) + x) \div LINK = (e \div LINK) + (d \div LINK)
<1>1. PICK L \in Nat \ {0} : L = LINK /\ L = UINT16_MAX + 1 /\ UINT16_MAX \in Nat
  BY HuffmanAssumption DEF LINK
<1>2. x \in 0 .. L - 1 /\ 0 .. UINT16_MAX = 0 .. L - 1
  BY <1>1
<1>3. \A y \in Nat : y \div L \in Nat /\ y % L \in 0 .. L - 1 /\ y = L * (y \div L) + (y % L)
  BY DivMod
<1>4. PICK p \in Nat, q \in Nat, r \in 0 .. L - 1, s \in 0 .. L - 1 :
        p = e \div L /\ q = d \div L /\ r = e % L /\ s = d % L
  BY <1>3
<1>5. e = L * p + r /\ d = L * q + s /\ L * p \in Nat /\ L * q \in Nat
  BY <1>3, <1>4, TimesNat
<1>6. FreqPart(e) = L * p /\ FreqPart(d) = L * q
  <2>1. FreqPart(e) = e - r /\ FreqPart(d) = d - s
    BY <1>1, <1>4 DEF FreqPart, Link
  <2>. QED  BY <1>5, <2>1
<1>7. L * p + L * q = L * (p + q)
  <2>1. \A u, v, w \in Nat : u * v + u * w = u * (v + w)
    OBVIOUS
  <2>. QED  BY <2>1
<1>8. (L * (p + q) + x) % L = x /\ (L * (p + q) + x) \div L = p + q
  <2>1. PICK t \in Nat : t = p + q
    OBVIOUS
  <2>2. (L * t + x) % L = x /\ (L * t + x) \div L = t
    BY <1>2, DivModUnique
  <2>. QED  BY <2>1, <2>2
<1>9. FreqPart(e) + FreqPart(d) + x = L * (p + q) + x
  BY <1>6, <1>7
<1>10. FreqPart(e) + FreqPart(d) + x \in Nat
  BY <1>2, <1>5, <1>6
<1>. QED  BY <1>1, <1>2, <1>4, <1>5, <1>6, <1>8, <1>9, <1>10 DEF Link

\* The result of a round: p and q, the least nodes, are replaced by one node that
\* they are linked to.
Joins(a, r, N, hp, p, q, new) ==
    /\ r \in NodeArrays(N) /\ Heap(r, hp - 1, 1) /\ Distinct(r, hp - 1)
    /\ p \in Entries(a, hp) /\ q \in Entries(a, hp) /\ p # q
    /\ \A e \in Entries(a, hp) : p <= e /\ (e # p => q <= e)
    /\ new = FreqPart(p) + FreqPart(q) + hp
    /\ Entries(r, hp - 1) = (Entries(a, hp) \ {p, q}) \cup {new}
    /\ \A k \in hp + 1 .. N : r[k] = IF k \in {Link(p), Link(q)} THEN hp ELSE a[k]

LEMMA MergeJoins ==
    ASSUME NEW N \in 0 .. UINT16_MAX, NEW hp \in 2 .. N, NEW a \in NodeArrays(N), Heap(a, hp, 1), Distinct(a, hp),
           \A e \in Entries(a, hp) : Link(e) \in hp + 1 .. N
    PROVE  \E p, q, new : Joins(a, Merge(a, hp), N, hp, p, q, new)
<1> DEFINE m == hp - 1
           b == PopFirst(a, hp)
           p == a[1]
           q == b[1]
           new == FreqPart(p) + FreqPart(q) + hp
           x == Joined(b, p, hp)
           r == Merge(a, hp)
<1>0. N \in Nat /\ UINT16_MAX \in Nat
  BY HuffmanAssumption
<1>1. m \in 0 .. N /\ m \in Nat /\ 1 \in 1 .. m /\ m + 1 = hp /\ 1 \in 1 .. N /\ 1 \in 1 .. hp /\ hp \in 0 .. UINT16_MAX
  BY <1>0
<1>2. /\ b \in NodeArrays(N) /\ Heap(b, m, 1) /\ Distinct(b, m)
      /\ Entries(b, m) = Entries(a, hp) \ {p} /\ \A k \in hp .. N : b[k] = a[k]
  BY <1>0, Popped
<1>3. r = minheap_down(x, m, 1)
  BY DEF Merge
<1> HIDE DEF r, b
<1>4. p \in Entries(a, hp) /\ q \in Entries(a, hp) /\ p # q /\ p \in Nat /\ q \in Nat
  BY <1>1, <1>2 DEF Entries, NodeArrays
<1>5. Link(p) \in hp + 1 .. N /\ Link(q) \in hp + 1 .. N
  BY <1>4
<1>6. new \in Nat /\ Link(new) = hp
  <2> HIDE DEF p, q
  <2>. QED  BY <1>1, <1>4, NodeParts
<1>7. /\ x \in NodeArrays(N) /\ x[1] = new
      /\ \A k \in 2 .. N : x[k] = IF k \in {Link(p), Link(q)} THEN hp ELSE b[k]
  <2>1. b[1] = q /\ DOMAIN b = 1 .. N
    BY <1>2 DEF NodeArrays
  <2>2. Link(p) \in 1 .. N /\ Link(q) \in 1 .. N /\ Link(p) # 1 /\ Link(q) # 1
    BY <1>1, <1>5
  <2> HIDE DEF q
  <2>3. x = [b EXCEPT ![1] = new, ![Link(p)] = hp, ![Link(q)] = hp]
    BY <2>1 DEF Joined
  <2> HIDE DEF x, new, p
  <2>4. PICK u \in 1 .. N, v \in 1 .. N : u = Link(p) /\ v = Link(q) /\ u # 1 /\ v # 1
    BY <2>2
  <2>5. x = [b EXCEPT ![1] = new, ![u] = hp, ![v] = hp] /\ hp \in Nat /\ b \in [1 .. N -> Nat]
    BY <1>2, <2>3, <2>4 DEF NodeArrays
  <2>6. x \in [1 .. N -> Nat]
    BY <1>6, <2>5
  <2>7. x[1] = new
    BY <1>1, <2>4, <2>5
  <2>8. \A k \in 2 .. N : x[k] = IF k = u \/ k = v THEN hp ELSE b[k]
    <3>1. \A k \in 2 .. N : k \in 1 .. N /\ k # 1
      OBVIOUS
    <3>. QED  BY <2>4, <2>5, <3>1
  <2>. QED  BY <2>4, <2>6, <2>7, <2>8 DEF NodeArrays
<1> HIDE DEF x
<1>8. \A k \in 2 .. m : x[k] = b[k] /\ k \in 1 .. m /\ k \in 1 .. N
  <2>1. \A k \in 2 .. m : k \in 2 .. N /\ k # Link(p) /\ k # Link(q) /\ k \in 1 .. m /\ k \in 1 .. N
    BY <1>1, <1>5
  <2>. QED  BY <1>7, <2>1
<1>9. new \notin Entries(a, hp)
  <2>1. ~(hp \in hp + 1 .. N)
    OBVIOUS
  <2>. QED  BY <1>6, <2>1
<1> HIDE DEF new
<1>10. Heap(x, m, 2)
  <2> SUFFICES ASSUME NEW i \in 2 .. m, NEW d \in 1 .. m, Under(i, d) PROVE x[i] <= x[d]
    BY DEF Heap
  <2>1. d \in 2 .. m
    BY DEF Under
  <2>2. b[i] <= b[d]
    BY <1>2, <1>8 DEF Heap
  <2>. QED  BY <1>8, <2>1, <2>2
<1>11. Entries(x, m) = (Entries(b, m) \ {q}) \cup {new}
  <2>1. \A k \in 1 .. m : k = 1 \/ k \in 2 .. m
    OBVIOUS
  <2>2. \A k \in 2 .. m : b[k] # q /\ k # 1
    <3>1. \A k \in 2 .. m : k # 1
      OBVIOUS
    <3>. QED  BY <1>1, <1>2, <1>8, <3>1 DEF Distinct
  <2>3. \A k \in 2 .. m : x[k] \in Entries(b, m) \ {q}
    BY <1>8, <2>2 DEF Entries
  <2>4. \A k \in 1 .. m : b[k] # q => b[k] \in Entries(x, m)
    <3> SUFFICES ASSUME NEW k \in 1 .. m, b[k] # q PROVE b[k] \in Entries(x, m)
      OBVIOUS
    <3>1. k \in 2 .. m
      BY <2>1
    <3>. QED  BY <1>8, <3>1 DEF Entries
  <2>5. new \in Entries(x, m)
    BY <1>1, <1>7 DEF Entries
  <2> HIDE DEF q
  <2>. QED  BY <1>7, <2>1, <2>3, <2>4, <2>5 DEF Entries
<1>12. Distinct(x, m)
  <2> SUFFICES ASSUME NEW i \in 1 .. m, NEW j \in 1 .. m, x[i] = x[j] PROVE i = j
    BY DEF Distinct
  <2>1. \A k \in 1 .. m : k = 1 \/ k \in 2 .. m
    OBVIOUS
  <2>2. \A k \in 2 .. m : x[k] # new
    <3>1. \A k \in 2 .. m : b[k] \in Entries(b, m)
      BY <1>8 DEF Entries
    <3>. QED  BY <1>2, <1>8, <1>9, <3>1
  <2>3. CASE i \in 2 .. m /\ j \in 2 .. m
    BY <1>2, <1>8, <2>3 DEF Distinct
  <2>. QED  BY <1>7, <2>1, <2>2, <2>3
<1>13. Permutes(x, r, N, m) /\ (Heap(x, m, 1 + 1) => Heap(r, m, 1))
  BY <1>0, <1>1, <1>3, <1>7, MinheapDown
<1>14. 1 + 1 = 2
  OBVIOUS
<1>15. r \in NodeArrays(N) /\ Heap(r, m, 1) /\ Distinct(r, m) /\ Entries(r, m) = Entries(x, m)
  <2>1. Entries(r, m) = Entries(x, m)
    BY <1>13, SameEntries
  <2>2. r \in NodeArrays(N) /\ Distinct(r, m)
    BY <1>12, <1>13 DEF Permutes
  <2> HIDE DEF m
  <2>3. Heap(r, m, 1)
    BY <1>10, <1>13, <1>14
  <2>. QED  BY <2>1, <2>2, <2>3
<1>16. \A k \in hp + 1 .. N : r[k] = IF k \in {Link(p), Link(q)} THEN hp ELSE a[k]
  <2>1. \A k \in hp + 1 .. N : k \in m + 1 .. N /\ k \in 2 .. N /\ k \in hp .. N
    OBVIOUS
  <2>2. \A k \in m + 1 .. N : r[k] = x[k]
    BY <1>13 DEF Permutes
  <2> HIDE DEF m, p, q
  <2>. QED  BY <1>2, <1>7, <2>1, <2>2
<1>17. ASSUME NEW e \in Entries(a, hp) PROVE p <= e /\ (e # p => q <= e)
  <2>1. p <= e
    BY <1>0, FirstIsLeast DEF Entries
  <2>2. ASSUME e # p PROVE q <= e
    <3>1. e \in Entries(b, m)
      BY <1>2, <2>2
    <3>. QED  BY <1>0, <1>1, <1>2, <3>1, FirstIsLeast DEF Entries
  <2>. QED  BY <2>1, <2>2
<1>18. Entries(r, m) = (Entries(a, hp) \ {p, q}) \cup {new}
  BY <1>2, <1>11, <1>15
<1>19. new = FreqPart(p) + FreqPart(q) + hp
  BY DEF new
<1>20. Joins(a, r, N, hp, p, q, new)
  <2> HIDE DEF p, q, m
  <2>. QED  BY <1>4, <1>15, <1>16, <1>17, <1>18, <1>19 DEF Joins, m
<1> HIDE DEF p, q, new
<1>. QED  BY <1>20 DEF r

--------------------------------------------------------------------------------
(***************************************************************************)
(* The links.  With hp nodes in the heap and c symbols coded, the slots    *)
(* above hp are link elements of nodes, those above n of the symbols.      *)
(***************************************************************************)
Slots(hp, n, c) == (hp + 1 .. c) \cup (n + 1 .. n + c)

\* Is z the link element of a node in the heap?
Root(a, hp, z) == \E e \in Entries(a, hp) : Link(e) = z

\* Every node in the heap has a link element of its own; all others lead to a node made
\* later, and every node that was made has two children.
Forest(a, hp, n, c) ==
    /\ a \in NodeArrays(2 * n) /\ Heap(a, hp, 1) /\ Distinct(a, hp)
    /\ \A e \in Entries(a, hp) : Link(e) \in Slots(hp, n, c)
    /\ \A e, f \in Entries(a, hp) : Link(e) = Link(f) => e = f
    /\ \A z \in Slots(hp, n, c) : Root(a, hp, z) \/ (a[z] \in hp + 1 .. c /\ (z <= c => a[z] < z))
    /\ \A t \in hp + 1 .. c : \E x, y \in Slots(hp, n, c) :
          x # y /\ \A z \in Slots(hp, n, c) : (~Root(a, hp, z) /\ a[z] = t) <=> z \in {x, y}

\* What joining does to roots and links.
Effect(a, r, n, c, hp, p, q, new) ==
        /\ Slots(hp - 1, n, c) = Slots(hp, n, c) \cup {hp} /\ hp \notin Slots(hp, n, c)
        /\ Slots(hp, n, c) \subseteq hp + 1 .. 2 * n
        /\ Entries(a, hp) \subseteq Nat
        /\ new \in Nat /\ Link(new) = hp /\ new \div LINK = (p \div LINK) + (q \div LINK)
        /\ Link(p) \in Slots(hp, n, c) /\ Link(q) \in Slots(hp, n, c) /\ Link(p) # Link(q)
        /\ Root(a, hp, Link(p)) /\ Root(a, hp, Link(q))
        /\ Root(r, hp - 1, hp)
        /\ \A z \in Slots(hp, n, c) :
              /\ Root(r, hp - 1, z) <=> Root(a, hp, z) /\ z \notin {Link(p), Link(q)}
              /\ r[z] = IF z \in {Link(p), Link(q)} THEN hp ELSE a[z]

LEMMA JoinedRoots ==
    ASSUME NEW n \in Nat, NEW c \in 0 .. n, NEW hp \in 2 .. c, NEW a, Forest(a, hp, n, c),
           NEW r, NEW p, NEW q, NEW new, Joins(a, r, 2 * n, hp, p, q, new), 2 * n <= UINT16_MAX
    PROVE  Effect(a, r, n, c, hp, p, q, new)
<1>0. n \in Nat /\ c \in Nat /\ c <= n /\ hp \in Nat /\ 2 <= hp /\ hp <= c /\ UINT16_MAX \in Nat
  BY HuffmanAssumption
<1>1. Slots(hp - 1, n, c) = Slots(hp, n, c) \cup {hp} /\ hp \notin Slots(hp, n, c)
  BY <1>0 DEF Slots
<1>2. Slots(hp, n, c) \subseteq hp + 1 .. 2 * n
  BY <1>0 DEF Slots
<1>3. Entries(a, hp) \subseteq Nat
  BY <1>0 DEF Entries, Forest, NodeArrays
<1>4. /\ p \in Entries(a, hp) /\ q \in Entries(a, hp) /\ p # q /\ p \in Nat /\ q \in Nat
      /\ new = FreqPart(p) + FreqPart(q) + hp /\ hp \in 0 .. UINT16_MAX
  BY <1>0, <1>3 DEF Joins
<1>5. new \in Nat /\ Link(new) = hp /\ new \div LINK = (p \div LINK) + (q \div LINK)
  BY <1>4, NodeParts
<1>6. Link(p) \in Slots(hp, n, c) /\ Link(q) \in Slots(hp, n, c) /\ Link(p) # Link(q)
  BY <1>4 DEF Forest
<1>7. Root(a, hp, Link(p)) /\ Root(a, hp, Link(q))
  BY <1>4 DEF Root
<1>8. Entries(r, hp - 1) = (Entries(a, hp) \ {p, q}) \cup {new}
  BY DEF Joins
<1>9. Root(r, hp - 1, hp)
  BY <1>5, <1>8 DEF Root
<1>10. ASSUME NEW z \in Slots(hp, n, c)
       PROVE  /\ Root(r, hp - 1, z) <=> Root(a, hp, z) /\ z \notin {Link(p), Link(q)}
              /\ r[z] = IF z \in {Link(p), Link(q)} THEN hp ELSE a[z]
  <2>1. z # hp
    BY <1>1
  <2>2. \A e, f \in Entries(a, hp) : Link(e) = Link(f) => e = f
    BY DEF Forest
  <2>3. Root(r, hp - 1, z) <=> \E e \in Entries(a, hp) \ {p, q} : Link(e) = z
    BY <1>5, <1>8, <2>1 DEF Root
  <2>4. Root(r, hp - 1, z) <=> Root(a, hp, z) /\ z \notin {Link(p), Link(q)}
    BY <1>4, <2>2, <2>3 DEF Root
  <2>5. z \in hp + 1 .. 2 * n
    BY <1>2
  <2>. QED  BY <2>4, <2>5 DEF Joins
<1>. QED  BY <1>1, <1>2, <1>3, <1>5, <1>6, <1>7, <1>9, <1>10 DEF Effect

LEMMA JoinedForest ==
    ASSUME NEW n \in Nat, NEW c \in 0 .. n, NEW hp \in 2 .. c, NEW a, Forest(a, hp, n, c),
           NEW r, NEW p, NEW q, NEW new, Joins(a, r, 2 * n, hp, p, q, new), 2 * n <= UINT16_MAX
    PROVE  Forest(r, hp - 1, n, c)
<1> DEFINE S == Slots(hp, n, c)
           u == Link(p)
           v == Link(q)
<1>0. n \in Nat /\ c \in Nat /\ c <= n /\ hp \in Nat /\ 2 <= hp /\ hp <= c
  OBVIOUS
<1>a. Effect(a, r, n, c, hp, p, q, new)
  BY JoinedRoots
<1>1. /\ Slots(hp - 1, n, c) = S \cup {hp} /\ hp \notin S
      /\ S \subseteq hp + 1 .. 2 * n
      /\ Link(new) = hp /\ u \in S /\ v \in S /\ u # v
      /\ Root(a, hp, u) /\ Root(a, hp, v) /\ Root(r, hp - 1, hp)
      /\ \A z \in S : Root(r, hp - 1, z) <=> Root(a, hp, z) /\ z \notin {u, v}
      /\ \A z \in S : r[z] = IF z \in {u, v} THEN hp ELSE a[z]
  BY <1>a DEF Effect
<1> HIDE DEF S, u, v
<1>2. r \in NodeArrays(2 * n) /\ Heap(r, hp - 1, 1) /\ Distinct(r, hp - 1)
  BY DEF Joins
<1>3. Entries(r, hp - 1) = (Entries(a, hp) \ {p, q}) \cup {new}
  BY DEF Joins
<1>4. /\ \A e \in Entries(a, hp) : Link(e) \in S
      /\ \A e, f \in Entries(a, hp) : Link(e) = Link(f) => e = f
      /\ \A z \in S : Root(a, hp, z) \/ (a[z] \in hp + 1 .. c /\ (z <= c => a[z] < z))
      /\ \A t \in hp + 1 .. c : \E x, y \in S :
            x # y /\ \A z \in S : (~Root(a, hp, z) /\ a[z] = t) <=> z \in {x, y}
  BY DEF Forest, S
<1>5. \A e \in Entries(r, hp - 1) : Link(e) \in S \cup {hp}
  BY <1>1, <1>3, <1>4
<1>6. \A e, f \in Entries(r, hp - 1) : Link(e) = Link(f) => e = f
  BY <1>1, <1>3, <1>4
<1>7. ASSUME NEW z \in S \cup {hp}, ~Root(r, hp - 1, z)
      PROVE  r[z] \in (hp - 1) + 1 .. c /\ (z <= c => r[z] < z)
  <2>1. z \in S /\ z \in hp + 1 .. 2 * n
    BY <1>1, <1>7
  <2>2. CASE z \in {u, v}
    <3>1. r[z] = hp
      BY <1>1, <2>1, <2>2
    <3>. QED  BY <1>0, <2>1, <3>1
  <2>3. CASE z \notin {u, v}
    <3>1. r[z] = a[z] /\ ~Root(a, hp, z)
      BY <1>1, <1>7, <2>1, <2>3
    <3>2. a[z] \in hp + 1 .. c /\ (z <= c => a[z] < z)
      BY <1>4, <2>1, <3>1
    <3>. QED  BY <1>0, <3>1, <3>2
  <2>. QED  BY <2>2, <2>3
<1>8. ASSUME NEW t \in (hp - 1) + 1 .. c
      PROVE  \E x, y \in S \cup {hp} :
                x # y /\ \A z \in S \cup {hp} : (~Root(r, hp - 1, z) /\ r[z] = t) <=> z \in {x, y}
  <2>1. CASE t = hp
    <3>1. ASSUME NEW z \in S \cup {hp}
          PROVE  (~Root(r, hp - 1, z) /\ r[z] = t) <=> z \in {u, v}
      <4>1. CASE z = hp
        BY <1>1, <4>1
      <4>2. CASE z \in S /\ z \in {u, v}
        BY <1>1, <2>1, <4>2
      <4>3. CASE z \in S /\ z \notin {u, v}
        <5>1. r[z] = a[z] /\ (Root(r, hp - 1, z) <=> Root(a, hp, z))
          BY <1>1, <4>3
        <5>2. ~Root(a, hp, z) => a[z] # hp
          BY <1>0, <1>4, <4>3
        <5>. QED  BY <2>1, <4>3, <5>1, <5>2
      <4>. QED  BY <4>1, <4>2, <4>3
    <3>. QED  BY <1>1, <3>1
  <2>2. CASE t # hp
    <3>1. t \in hp + 1 .. c
      BY <1>0, <2>2
    <3>2. PICK x \in S, y \in S : x # y /\ \A z \in S : (~Root(a, hp, z) /\ a[z] = t) <=> z \in {x, y}
      BY <1>4, <3>1
    <3>3. ASSUME NEW z \in S \cup {hp}
          PROVE  (~Root(r, hp - 1, z) /\ r[z] = t) <=> z \in {x, y}
      <4>1. CASE z = hp
        BY <1>1, <4>1
      <4>2. CASE z \in S /\ z \in {u, v}
        <5>1. r[z] = hp /\ Root(a, hp, z)
          BY <1>1, <4>2
        <5>. QED  BY <2>2, <3>2, <4>2, <5>1
      <4>3. CASE z \in S /\ z \notin {u, v}
        <5>1. r[z] = a[z] /\ (Root(r, hp - 1, z) <=> Root(a, hp, z))
          BY <1>1, <4>3
        <5>. QED  BY <3>2, <4>3, <5>1
      <4>. QED  BY <4>1, <4>2, <4>3
    <3>. QED  BY <3>2, <3>3
  <2>. QED  BY <2>1, <2>2
<1>. QED  BY <1>1, <1>2, <1>5, <1>6, <1>7, <1>8 DEF Forest

LEMMA MergeForest ==
    ASSUME NEW n \in Nat, NEW c \in 0 .. n, NEW hp \in 2 .. c, NEW a, Forest(a, hp, n, c), 2 * n <= UINT16_MAX
    PROVE  /\ \E p, q, new : Joins(a, Merge(a, hp), 2 * n, hp, p, q, new)
           /\ Forest(Merge(a, hp), hp - 1, n, c)
<1>1. PICK N : N = 2 * n
  OBVIOUS
<1>2. N \in 0 .. UINT16_MAX /\ hp \in 2 .. N
  BY <1>1, HuffmanAssumption
<1>3. a \in NodeArrays(N) /\ Heap(a, hp, 1) /\ Distinct(a, hp)
  BY <1>1 DEF Forest
<1>4. Slots(hp, n, c) \subseteq hp + 1 .. N
  BY <1>1 DEF Slots
<1>5. \A e \in Entries(a, hp) : Link(e) \in hp + 1 .. N
  BY <1>4 DEF Forest
<1>6. \E p, q, new : Joins(a, Merge(a, hp), N, hp, p, q, new)
  BY <1>2, <1>3, <1>5, MergeJoins
<1>. QED  BY <1>1, <1>6, JoinedForest

--------------------------------------------------------------------------------
(***************************************************************************)
(* The finished tree.  Its root's link element is 2; every other slot in   *)
(* use links to the one of its parent, which stands below it.              *)
(***************************************************************************)
Linked(n, c) == (3 .. c) \cup (n + 1 .. n + c)

Tree(a, n, c) ==
    /\ a \in NodeArrays(2 * n)
    /\ \A z \in Linked(n, c) : a[z] \in 2 .. c /\ (z <= c => a[z] < z)
    /\ \A t \in 2 .. c : \E x, y \in Linked(n, c) :
          x # y /\ \A z \in Linked(n, c) : a[z] = t <=> z \in {x, y}

LEMMA OneRoot ==
    ASSUME NEW n \in Nat, NEW c \in 2 .. n, NEW a, Forest(a, 1, n, c), 2 * n <= UINT16_MAX
    PROVE  Tree(a, n, c) /\ Link(a[1]) = 2
<1> DEFINE S == Slots(1, n, c)
<1>1. S = Linked(n, c) \cup {2} /\ 2 \notin Linked(n, c) /\ 1 + 1 = 2
  BY DEF Slots, Linked
<1>2. Entries(a, 1) = {a[1]}
  BY DEF Entries
<1>3. /\ a \in NodeArrays(2 * n)
      /\ \A z \in S : Root(a, 1, z) \/ (a[z] \in 2 .. c /\ (z <= c => a[z] < z))
      /\ \A t \in 2 .. c : \E x, y \in S : x # y /\ \A z \in S : (~Root(a, 1, z) /\ a[z] = t) <=> z \in {x, y}
  BY <1>1 DEF Forest
<1>4. Root(a, 1, 2)
  <2>1. 2 <= c /\ 2 \in S
    BY <1>1
  <2>2. ~(a[2] \in 2 .. c /\ a[2] < 2)
    OBVIOUS
  <2>. QED  BY <1>3, <2>1, <2>2
<1>5. Link(a[1]) = 2 /\ \A z : Root(a, 1, z) <=> z = 2
  BY <1>2, <1>4 DEF Root
<1> HIDE DEF S
<1>6. \A z \in Linked(n, c) : a[z] \in 2 .. c /\ (z <= c => a[z] < z)
  BY <1>1, <1>3, <1>5
<1>7. ASSUME NEW t \in 2 .. c
      PROVE  \E x, y \in Linked(n, c) : x # y /\ \A z \in Linked(n, c) : a[z] = t <=> z \in {x, y}
  <2>1. PICK x \in S, y \in S : x # y /\ \A z \in S : (~Root(a, 1, z) /\ a[z] = t) <=> z \in {x, y}
    BY <1>3
  <2>2. x \in Linked(n, c) /\ y \in Linked(n, c)
    BY <1>1, <1>5, <2>1
  <2>3. \A z \in Linked(n, c) : a[z] = t <=> z \in {x, y}
    BY <1>1, <1>5, <2>1
  <2>. QED  BY <2>1, <2>2, <2>3
<1>. QED  BY <1>3, <1>5, <1>6, <1>7 DEF Tree

\* d[t] is the number of links from t to the root.
IsDepth(d, a, c) == d \in [2 .. c -> Nat] /\ d[2] = 0 /\ \A t \in 3 .. c : d[t] = d[a[t]] + 1

LEMMA DepthExists ==
    ASSUME NEW n \in Nat, NEW c \in 2 .. n, NEW a, Tree(a, n, c)
    PROVE  \E d : IsDepth(d, a, c)
<1> DEFINE T == {k \in 0 .. c - 2 : \E d : IsDepth(d, a, k + 2)}
<1>1. \A t \in 3 .. c : a[t] \in Nat /\ 2 <= a[t] /\ a[t] < t
  BY DEF Tree, Linked
<1>2. 0 \in T
  <2>1. IsDepth([t \in 2 .. 0 + 2 |-> 0], a, 0 + 2)
    BY DEF IsDepth
  <2>2. 0 \in 0 .. c - 2
    OBVIOUS
  <2>. QED  BY <2>1, <2>2
<1>3. ASSUME NEW k \in 0 .. (c - 2) - 1, k \in T PROVE k + 1 \in T
  <2>1. PICK d : IsDepth(d, a, k + 2)
    BY <1>3
  <2>2. PICK m \in 3 .. c : m = k + 3 /\ (k + 1) + 2 = m /\ k + 2 = m - 1
    OBVIOUS
  <2>3. PICK v \in 2 .. m - 1 : v = a[m]
    BY <1>1, <2>2
  <2>4. d \in [2 .. m - 1 -> Nat] /\ d[2] = 0 /\ \A t \in 3 .. m - 1 : d[t] = d[a[t]] + 1
    BY <2>1, <2>2 DEF IsDepth
  <2> DEFINE e == [t \in 2 .. m |-> IF t = m THEN d[v] + 1 ELSE d[t]]
  <2>5. e \in [2 .. m -> Nat] /\ e[m] = d[v] + 1 /\ \A t \in 2 .. m - 1 : e[t] = d[t]
    <3>1. d[v] + 1 \in Nat /\ \A t \in 2 .. m : t # m => t \in 2 .. m - 1
      BY <2>4
    <3>2. \A t \in 2 .. m : (IF t = m THEN d[v] + 1 ELSE d[t]) \in Nat
      BY <2>4, <3>1
    <3>3. m \in 2 .. m /\ \A t \in 2 .. m - 1 : t \in 2 .. m /\ t # m
      OBVIOUS
    <3>. QED  BY <3>2, <3>3
  <2> HIDE DEF e
  <2>6. 2 \in 2 .. m - 1
    OBVIOUS
  <2>7. ASSUME NEW t \in 3 .. m PROVE e[t] = e[a[t]] + 1
    <3>1. CASE t = m
      BY <2>3, <2>5, <3>1
    <3>2. CASE t # m
      <4>1. t \in 3 .. m - 1 /\ t \in 2 .. m - 1 /\ a[t] \in 2 .. m - 1
        BY <1>1, <3>2
      <4>. QED  BY <2>4, <2>5, <4>1
    <3>. QED  BY <3>1, <3>2
  <2>8. IsDepth(e, a, m)
    BY <2>4, <2>5, <2>6, <2>7 DEF IsDepth
  <2>. QED  BY <2>2, <2>8
<1>4. c - 2 \in T
  <2> HIDE DEF T
  <2>1. c - 2 \in Nat
    OBVIOUS
  <2>2. \A i \in 0 .. c - 2 : i \in T
    BY <1>2, <1>3, <2>1, Climb
  <2>. QED  BY <2>1, <2>2
<1>5. (c - 2) + 2 = c
  OBVIOUS
<1>. QED  BY <1>4, <1>5

LEMMA DepthBound ==
    ASSUME NEW n \in Nat, NEW c \in 2 .. n, NEW a, Tree(a, n, c), NEW d, IsDepth(d, a, c), NEW t \in 2 .. c
    PROVE  d[t] \in Nat /\ d[t] <= t - 2 /\ (d[t] = 0 <=> t = 2)
<1>1. \A u \in 3 .. c : a[u] \in Nat /\ 2 <= a[u] /\ a[u] < u
  BY DEF Tree, Linked
<1>2. d \in [2 .. c -> Nat] /\ d[2] = 0 /\ \A u \in 3 .. c : d[u] = d[a[u]] + 1
  BY DEF IsDepth
<1> DEFINE Bad == {u \in 2 .. c : ~(d[u] <= u - 2)}
<1>3. Bad = {}
  <2> SUFFICES ASSUME Bad # {} PROVE FALSE
    OBVIOUS
  <2>1. Bad \subseteq Nat
    OBVIOUS
  <2>2. PICK u \in Bad : \A x \in Bad : u <= x
    <3> HIDE DEF Bad
    <3>. QED  BY <2>1, LeastElement
  <2>3. u \in 2 .. c /\ ~(d[u] <= u - 2)
    BY <2>2
  <2>4. u \in 3 .. c
    BY <1>2, <2>3
  <2>5. a[u] \notin Bad
    <3>1. a[u] < u /\ a[u] \in Nat
      BY <1>1, <2>4
    <3>2. ~(u <= a[u])
      BY <2>4, <3>1
    <3> HIDE DEF Bad
    <3>. QED  BY <2>2, <3>2
  <2>6. a[u] \in 2 .. c
    BY <1>1, <2>4
  <2>7. d[a[u]] <= a[u] - 2 /\ d[a[u]] \in Nat
    BY <1>2, <2>5, <2>6
  <2>. QED  BY <1>1, <1>2, <2>3, <2>4, <2>7
<1>4. d[t] \in Nat /\ d[t] <= t - 2
  BY <1>2, <1>3
<1>5. t # 2 => d[t] # 0
  <2> SUFFICES ASSUME t # 2 PROVE d[t] # 0
    OBVIOUS
  <2>1. t \in 3 .. c /\ a[t] \in 2 .. c
    BY <1>1
  <2>. QED  BY <1>2, <2>1
<1>. QED  BY <1>2, <1>4, <1>5

\* What Depth reads off the links.
LEMMA DepthIs ==
    ASSUME NEW n \in Nat, NEW c \in 2 .. n, NEW a, Tree(a, n, c), NEW d, IsDepth(d, a, c), NEW k \in 1 .. c
    PROVE  n + k \in Linked(n, c) /\ a[n + k] \in 2 .. c /\ Depth(a, n, k) = d[a[n + k]] + 1
<1> DEFINE V == 2 .. c
           z == a[n + k]
           L == 2 * n
           Is(f) == f = [j \in 1 .. L |-> IF j = 1 THEN z ELSE IF f[j - 1] = 2 THEN 2 ELSE a[f[j - 1]]]
           p == CHOOSE f : Is(f)
<1>1. n + k \in Linked(n, c)
  BY DEF Linked
<1>2. z \in V /\ \A u \in 3 .. c : a[u] \in V
  BY <1>1 DEF Tree, Linked
<1>3. 2 \in V /\ L \in Nat /\ 1 <= L /\ c <= L
  OBVIOUS
<1> HIDE DEF z, L
<1>4. Is(p)
  <2> DEFINE g == [q \in V \X (1 .. L) |-> IF q[1] = 2 THEN 2 ELSE a[q[1]]]
  <2>1. g \in Steps(V, L)
    <3>1. \A u \in V : u = 2 \/ u \in 3 .. c
      OBVIOUS
    <3>2. \A q \in V \X (1 .. L) : (IF q[1] = 2 THEN 2 ELSE a[q[1]]) \in V
      <4> HIDE DEF V
      <4>. QED  BY <1>2, <1>3, <3>1
    <3>. QED  BY <3>2, Zenon DEF Steps
  <2>2. \A u \in V, j \in 1 .. L : g[u, j] = IF u = 2 THEN 2 ELSE a[u]
    OBVIOUS
  <2> HIDE DEF g, V
  <2>3. PICK f \in [0 .. L -> V] : Recurs(f, L, z, g)
    BY <1>2, <1>3, <2>1, Recursion
  <2>4. f[0] = z /\ \A j \in 1 .. L : f[j] = g[f[j - 1], j]
    BY <2>3 DEF Recurs
  <2> DEFINE h0 == [j \in 1 .. L |-> f[j - 1]]
  <2>5. ASSUME NEW j \in 1 .. L
        PROVE  h0[j] = IF j = 1 THEN z ELSE IF h0[j - 1] = 2 THEN 2 ELSE a[h0[j - 1]]
    <3>1. CASE j = 1
      <4>1. h0[j] = f[j - 1] /\ j - 1 = 0
        BY <3>1
      <4> HIDE DEF h0
      <4>. QED  BY <2>4, <3>1, <4>1
    <3>2. CASE j # 1
      <4>1. j - 1 \in 1 .. L /\ j \in 1 .. L /\ (j - 1) - 1 \in 0 .. L
        BY <1>3, <3>2
      <4>2. h0[j] = f[j - 1] /\ h0[j - 1] = f[(j - 1) - 1] /\ f[(j - 1) - 1] \in V
        BY <4>1
      <4>3. f[j - 1] = g[f[(j - 1) - 1], j - 1]
        BY <2>4, <4>1
      <4> HIDE DEF h0
      <4>4. g[f[(j - 1) - 1], j - 1] = IF f[(j - 1) - 1] = 2 THEN 2 ELSE a[f[(j - 1) - 1]]
        BY <2>2, <4>1, <4>2
      <4>. QED  BY <3>2, <4>2, <4>3, <4>4
    <3>. QED  BY <3>1, <3>2
  <2>6. h0 = [j \in 1 .. L |-> h0[j]]
    OBVIOUS
  <2> HIDE DEF h0
  <2>7. Is(h0)
    BY <2>5, <2>6, Zenon
  <2> HIDE DEF Is
  <2>. QED  BY <2>7
<1>5. Depth(a, n, k) = 1 + Cardinality({j \in 1 .. L : p[j] # 2})
  BY Zenon DEF Depth, L, z
<1>6. p[1] = z /\ \A j \in 1 .. L : j # 1 => p[j] = IF p[j - 1] = 2 THEN 2 ELSE a[p[j - 1]]
  <2> HIDE DEF p
  <2>1. \A j \in 1 .. L : p[j] = IF j = 1 THEN z ELSE IF p[j - 1] = 2 THEN 2 ELSE a[p[j - 1]]
    BY <1>4, Zenon
  <2>2. 1 \in 1 .. L
    BY <1>3
  <2>. QED  BY <2>1, <2>2
<1> HIDE DEF p, Is
<1>7. PICK b \in Nat : b = d[z] /\ b <= c - 2
  <2>1. d[z] \in Nat /\ d[z] <= z - 2
    BY <1>2, DepthBound
  <2>. QED  BY <1>2, <2>1
<1> DEFINE A == {i \in 0 .. L - 1 : p[i + 1] \in V /\ d[p[i + 1]] = IF i <= b THEN b - i ELSE 0}
<1>8. 0 \in A
  BY <1>2, <1>3, <1>6, <1>7
<1>9. \A u \in V : d[u] \in Nat /\ (d[u] = 0 <=> u = 2)
  BY DepthBound
<1>10. \A u \in V : u # 2 => d[a[u]] = d[u] - 1 /\ a[u] \in V
  <2> SUFFICES ASSUME NEW u \in V, u # 2 PROVE d[a[u]] = d[u] - 1 /\ a[u] \in V
    OBVIOUS
  <2>1. u \in 3 .. c
    OBVIOUS
  <2>2. a[u] \in V /\ d[u] = d[a[u]] + 1
    BY <1>2, <2>1 DEF IsDepth
  <2>3. d[a[u]] \in Nat
    BY <1>9, <2>2
  <2>. QED  BY <2>2, <2>3
<1>11. ASSUME NEW i \in 0 .. (L - 1) - 1, i \in A PROVE i + 1 \in A
  <2>1. PICK u \in V : u = p[i + 1] /\ d[u] = IF i <= b THEN b - i ELSE 0
    BY <1>11
  <2>2. (i + 1) + 1 \in 1 .. L /\ (i + 1) + 1 # 1 /\ ((i + 1) + 1) - 1 = i + 1 /\ i + 1 \in 0 .. L - 1
    BY <1>3
  <2>3. p[(i + 1) + 1] = IF u = 2 THEN 2 ELSE a[u]
    BY <1>6, <2>1, <2>2
  <2> HIDE DEF V
  <2>4. CASE u = 2
    <3>1. d[u] = 0 /\ p[(i + 1) + 1] = u
      BY <1>9, <2>1, <2>3, <2>4
    <3>2. d[u] = IF i + 1 <= b THEN b - (i + 1) ELSE 0
      BY <2>1, <3>1
    <3>. QED  BY <2>2, <3>1, <3>2
  <2>5. CASE u # 2
    <3>1. d[u] \in Nat /\ d[u] # 0 /\ p[(i + 1) + 1] = a[u] /\ d[a[u]] = d[u] - 1 /\ a[u] \in V
      BY <1>9, <1>10, <2>1, <2>3, <2>5
    <3>2. d[a[u]] = IF i + 1 <= b THEN b - (i + 1) ELSE 0
      BY <2>1, <3>1
    <3>. QED  BY <2>2, <3>1, <3>2
  <2>. QED  BY <2>4, <2>5
<1>12. \A i \in 0 .. L - 1 : i \in A
  <2> HIDE DEF A
  <2>1. L - 1 \in Nat
    BY <1>3
  <2>. QED  BY <1>8, <1>11, <2>1, Climb
<1>13. {j \in 1 .. L : p[j] # 2} = 1 .. b
  <2>1. ASSUME NEW j \in 1 .. L PROVE p[j] # 2 <=> j <= b
    <3>1. j - 1 \in 0 .. L - 1 /\ (j - 1) + 1 = j
      BY <1>3
    <3>2. p[j] \in V /\ d[p[j]] = IF j - 1 <= b THEN b - (j - 1) ELSE 0
      BY <1>12, <3>1
    <3>3. d[p[j]] = 0 <=> p[j] = 2
      BY <1>9, <3>2
    <3>4. d[p[j]] = 0 <=> ~(j <= b)
      BY <3>2
    <3>. QED  BY <3>3, <3>4
  <2>2. b <= L
    BY <1>3, <1>7
  <2>. QED  BY <1>3, <2>1, <2>2
<1>14. Cardinality(1 .. b) = b
  BY FS_Interval
<1>15. Depth(a, n, k) = d[z] + 1
  <2>1. Depth(a, n, k) = 1 + b
    BY <1>5, <1>13, <1>14, Zenon
  <2>. QED  BY <1>7, <2>1
<1>. QED  BY <1>1, <1>2, <1>15, Zenon DEF z

--------------------------------------------------------------------------------
(***************************************************************************)
(* The leaves of the tree use up all the room.                             *)
(***************************************************************************)
\* The links from z to the root, for slots that are nodes' or symbols'.
Deep(d, a, n, c) ==
    [z \in 0 .. 2 * n |-> IF z \in Linked(n, c) THEN d[a[z]] + 1 ELSE 0]

\* No leaf is deeper than M bits.
Shallow(d, a, n, c) == \A k \in 1 .. c : d[a[n + k]] + 1 <= MAX_HUFFMAN_BITS

\* The nodes that lead to node t or to one made later, but are themselves made earlier.
Front(a, n, c, t) == {z \in Linked(n, c) : a[z] <= t /\ z > t}

LEMMA DeepFacts ==
    ASSUME NEW n \in Nat, NEW c \in 2 .. n, NEW a, Tree(a, n, c), NEW d, IsDepth(d, a, c), Shallow(d, a, n, c)
    PROVE  /\ Deep(d, a, n, c) \in Lengths(2 * n + 1)
           /\ \A z \in Linked(n, c) : z \in 0 .. 2 * n /\ Deep(d, a, n, c)[z] = d[a[z]] + 1 /\ Deep(d, a, n, c)[z] \in Width
<1>1. \A z \in Linked(n, c) : z \in 0 .. 2 * n /\ z \in Nat /\ a[z] \in 2 .. c
  BY DEF Tree, Linked
<1>2. \A t \in 2 .. c : d[t] \in Nat
  BY DepthBound
<1> DEFINE Bad == {t \in 2 .. c : ~(d[t] + 1 <= MAX_HUFFMAN_BITS)}
           Up == {c - t : t \in Bad}
<1>3. Bad = {}
  <2> SUFFICES ASSUME Bad # {} PROVE FALSE
    OBVIOUS
  <2>1. Up \subseteq Nat /\ Up # {}
    OBVIOUS
  <2>2. PICK u \in Up : \A x \in Up : u <= x
    <3> HIDE DEF Up
    <3>. QED  BY <2>1, LeastElement
  <2>3. PICK t \in Bad : u = c - t
    BY <2>2
  <2>4. PICK x \in Linked(n, c) : a[x] = t
    BY DEF Tree
  <2>5. CASE x <= c
    <3>1. x \in 3 .. c /\ t < x
      BY <2>4, <2>5 DEF Linked, Tree
    <3>2. d[x] = d[t] + 1
      BY <2>4, <3>1 DEF IsDepth
    <3>3. x \in Bad
      BY <1>2, <2>3, <3>1, <3>2, MaxFacts
    <3>4. c - x \in Up
      BY <3>3
    <3>5. ~(u <= c - x)
      BY <2>3, <3>1
    <3> HIDE DEF Up
    <3>. QED  BY <2>2, <3>4, <3>5
  <2>6. CASE ~(x <= c)
    <3>1. PICK k \in 1 .. c : x = n + k
      <4>1. x \in n + 1 .. n + c
        BY <2>6 DEF Linked
      <4>2. x - n \in 1 .. c /\ x = n + (x - n)
        BY <4>1
      <4>. QED  BY <4>2
    <3>. QED  BY <2>3, <2>4, <3>1 DEF Shallow
  <2>. QED  BY <2>5, <2>6
<1>4. \A t \in 2 .. c : d[t] + 1 \in Width
  BY <1>2, <1>3, MaxFacts
<1>5. \A z \in Linked(n, c) : d[a[z]] + 1 \in Width
  BY <1>1, <1>4
<1>6. \A z \in 0 .. 2 * n : Deep(d, a, n, c)[z] = IF z \in Linked(n, c) THEN d[a[z]] + 1 ELSE 0
  BY DEF Deep
<1>7. Deep(d, a, n, c) \in Lengths(2 * n + 1)
  <2>1. (2 * n + 1) - 1 = 2 * n
    OBVIOUS
  <2>2. \A x \in Width : x \in 0 .. MAX_HUFFMAN_BITS
    BY MaxFacts
  <2>3. \A z \in 0 .. 2 * n : (IF z \in Linked(n, c) THEN d[a[z]] + 1 ELSE 0) \in 0 .. MAX_HUFFMAN_BITS
    BY <1>5, <2>2, MaxFacts
  <2>. QED  BY <2>1, <2>3 DEF Deep, Lengths
<1>. QED  BY <1>1, <1>5, <1>6, <1>7

\* A node's room is that of its two children.
LEMMA FrontKeeps ==
    ASSUME NEW n \in Nat, NEW c \in 2 .. n, NEW a, Tree(a, n, c), NEW d, IsDepth(d, a, c), Shallow(d, a, n, c),
           NEW t \in 3 .. c
    PROVE  Held(Deep(d, a, n, c), Front(a, n, c, t)) = Held(Deep(d, a, n, c), Front(a, n, c, t - 1))
<1> DEFINE ls == Deep(d, a, n, c)
           N == 2 * n + 1
           S == Linked(n, c)
           F == Front(a, n, c, t)
           E == Front(a, n, c, t - 1)
<1>1. ls \in Lengths(N) /\ \A z \in S : z \in 0 .. N - 1 /\ ls[z] = d[a[z]] + 1 /\ ls[z] \in Width
  <2>1. N - 1 = 2 * n
    OBVIOUS
  <2>. QED  BY <2>1, DeepFacts
<1>2. \A z \in S : z \in Nat /\ a[z] \in 2 .. c /\ (z <= c => a[z] < z)
  BY DEF Tree, Linked
<1>3. PICK x \in S, y \in S : x # y /\ \A z \in S : a[z] = t <=> z \in {x, y}
  BY DEF Tree
<1>4. F \subseteq S /\ E \subseteq S /\ t \in S /\ t \in Nat /\ a[t] < t /\ N \in Nat /\ t \in 2 .. c
  BY <1>2 DEF Front, Linked
<1>5. t \in E /\ t \notin F /\ x \in F /\ y \in F /\ x \notin E /\ y \notin E
  <2>1. t \in E /\ t \notin F
    BY <1>2, <1>4 DEF Front
  <2>2. x > t /\ y > t /\ a[x] = t /\ a[y] = t
    <3>1. a[x] = t /\ a[y] = t
      BY <1>3
    <3>2. ASSUME NEW z \in S, a[z] = t PROVE z > t
      <4>1. CASE z <= c
        BY <1>2, <1>4, <3>2, <4>1
      <4>2. CASE ~(z <= c)
        BY <1>2, <1>4, <4>2
      <4>. QED  BY <4>1, <4>2
    <3>. QED  BY <3>1, <3>2
  <2>3. x \in F /\ y \in F
    BY <1>4, <2>2 DEF Front
  <2>4. x \notin E /\ y \notin E
    BY <1>4, <2>2 DEF Front
  <2>. QED  BY <2>1, <2>3, <2>4
<1>6. (F \ {x}) \ {y} = E \ {t}
  <2>1. ASSUME NEW z \in S PROVE (z \in F /\ z # x /\ z # y) <=> (z \in E /\ z # t)
    <3>1. a[z] = t <=> z \in {x, y}
      BY <1>3
    <3>. QED  BY <1>2, <1>4, <3>1 DEF Front
  <2>2. F \subseteq S /\ E \subseteq S
    BY <1>4
  <2> HIDE DEF F, E, S
  <2>. QED  BY <2>1, <2>2
<1>7. d[t] = d[a[t]] + 1 /\ a[x] = t /\ a[y] = t /\ d[t] \in Nat
  <2>1. d[t] \in Nat
    BY <1>4, DepthBound
  <2>2. d[t] = d[a[t]] + 1
    BY DEF IsDepth
  <2>. QED  BY <1>3, <2>1, <2>2
<1>8. ls[t] = d[t] /\ ls[x] = d[t] + 1 /\ ls[y] = d[t] + 1
  BY <1>1, <1>4, <1>7
<1> HIDE DEF ls, F, E, S, N
<1>9. PICK k \in Nat : k = d[t] /\ k \in Width /\ k + 1 \in Width
  BY <1>1, <1>4, <1>7, <1>8
<1>10. PICK p \in Nat : p = 2 ^ (MAX_HUFFMAN_BITS - (k + 1)) /\ 2 ^ (MAX_HUFFMAN_BITS - k) = 2 * p
  <2>1. MAX_HUFFMAN_BITS - (k + 1) \in Nat /\ MAX_HUFFMAN_BITS - k = (MAX_HUFFMAN_BITS - (k + 1)) + 1
    BY <1>9, MaxFacts
  <2>. QED  BY <2>1, PowerStep
<1>11. F \in SUBSET (0 .. N - 1) /\ E \in SUBSET (0 .. N - 1)
  <2>1. \A z \in S : z \in 0 .. N - 1
    BY <1>1
  <2>. QED  BY <1>4, <2>1
<1>12. ls[t] # 0 /\ ls[x] # 0 /\ ls[y] # 0
  BY <1>1, <1>4, MaxFacts
<1>13. Held(ls, F) = p + Held(ls, F \ {x})
  BY <1>1, <1>4, <1>5, <1>8, <1>9, <1>10, <1>11, <1>12, HeldAdds
<1>14. Held(ls, F \ {x}) = p + Held(ls, (F \ {x}) \ {y})
  <2>1. F \ {x} \in SUBSET (0 .. N - 1) /\ y \in F \ {x}
    BY <1>3, <1>5, <1>11
  <2>. QED  BY <1>1, <1>4, <1>8, <1>9, <1>10, <1>12, <2>1, HeldAdds
<1>15. Held(ls, E) = 2 * p + Held(ls, E \ {t})
  BY <1>1, <1>4, <1>5, <1>8, <1>9, <1>10, <1>11, <1>12, HeldAdds
<1>16. Held(ls, E \ {t}) \in Nat
  BY <1>1, <1>4, KeptType
<1>17. Held(ls, F) = Held(ls, E)
  BY <1>6, <1>13, <1>14, <1>15, <1>16
<1>. QED  BY <1>17 DEF ls, F, E

LEMMA LeavesFill ==
    ASSUME NEW n \in Nat, NEW c \in 2 .. n, NEW a, Tree(a, n, c), NEW d, IsDepth(d, a, c), Shallow(d, a, n, c)
    PROVE  Held(Deep(d, a, n, c), n + 1 .. n + c) = Room
<1> DEFINE ls == Deep(d, a, n, c)
           N == 2 * n + 1
           S == Linked(n, c)
           F(t) == Front(a, n, c, t)
           A == {i \in 0 .. c - 2 : Held(ls, F(i + 2)) = Room}
<1>1. ls \in Lengths(N) /\ \A z \in S : z \in 0 .. N - 1 /\ ls[z] = d[a[z]] + 1 /\ ls[z] \in Width
  <2>1. N - 1 = 2 * n
    OBVIOUS
  <2>. QED  BY <2>1, DeepFacts
<1>2. \A z \in S : z \in Nat /\ a[z] \in 2 .. c /\ (z <= c => a[z] < z) /\ z > 2
  BY DEF Tree, Linked
<1>3. Held(ls, F(2)) = Room
  <2>1. PICK x \in S, y \in S : x # y /\ \A z \in S : a[z] = 2 <=> z \in {x, y}
    <3>1. 2 \in 2 .. c
      OBVIOUS
    <3>. QED  BY <3>1 DEF Tree
  <2>2. F(2) = {x, y}
    BY <1>2, <2>1 DEF Front
  <2>3. d[2] = 0 /\ a[x] = 2 /\ a[y] = 2
    BY <2>1 DEF IsDepth
  <2>4. ls[x] = 1 /\ ls[y] = 1
    BY <1>1, <2>3
  <2>5. PICK p \in Nat : p = 2 ^ (MAX_HUFFMAN_BITS - 1) /\ Room = 2 * p
    <3>1. MAX_HUFFMAN_BITS - 1 \in Nat /\ (MAX_HUFFMAN_BITS - 1) + 1 = MAX_HUFFMAN_BITS
      BY MaxFacts
    <3>. QED  BY <3>1, PowerStep DEF Room
  <2> HIDE DEF ls, N, S, F
  <2>6. {x, y} \in SUBSET (0 .. N - 1) /\ {x, y} \ {x} = {y} /\ {y} \ {y} = {} /\ {y} \in SUBSET (0 .. N - 1) /\ N \in Nat
    BY <1>1, <2>1 DEF N
  <2>7. Held(ls, {x, y}) = p + Held(ls, {y})
    BY <1>1, <2>4, <2>5, <2>6, HeldAdds
  <2>8. Held(ls, {y}) = p + Held(ls, {})
    BY <1>1, <2>4, <2>5, <2>6, HeldAdds
  <2>9. Held(ls, {}) = 0
    BY <1>1, <2>6, HeldNone
  <2>10. Held(ls, {x, y}) = Room
    BY <2>5, <2>7, <2>8, <2>9
  <2>. QED  BY <2>2, <2>10, Zenon
<1>4. 0 \in A
  BY <1>3
<1>5. ASSUME NEW j \in 0 .. (c - 2) - 1, j \in A PROVE j + 1 \in A
  <2>1. (j + 1) + 2 \in 3 .. c /\ ((j + 1) + 2) - 1 = j + 2
    OBVIOUS
  <2>2. Held(ls, F((j + 1) + 2)) = Held(ls, F(((j + 1) + 2) - 1))
    BY <2>1, FrontKeeps
  <2> HIDE DEF F, ls
  <2>. QED  BY <1>5, <2>1, <2>2
<1>6. c - 2 \in A
  <2> HIDE DEF A
  <2>1. c - 2 \in Nat
    OBVIOUS
  <2>2. \A i \in 0 .. c - 2 : i \in A
    BY <1>4, <1>5, <2>1, Climb
  <2>. QED  BY <2>1, <2>2
<1>7. F(c) = n + 1 .. n + c
  <2>1. \A z \in S : a[z] <= c
    BY <1>2
  <2>. QED  BY <2>1 DEF Front, Linked
<1>8. (c - 2) + 2 = c
  OBVIOUS
<1> HIDE DEF F, ls
<1>. QED  BY <1>6, <1>7, <1>8 DEF ls

--------------------------------------------------------------------------------
(***************************************************************************)
(* From the leaves to the symbols.                                         *)
(***************************************************************************)
LEMMA NthFacts ==
    ASSUME NEW n \in Nat, NEW f, DOMAIN f = 0 .. n - 1
    PROVE  /\ Cardinality(DOMAIN f) = n /\ IsFiniteSet(Coded(f)) /\ Cardinality(Coded(f)) \in 0 .. n
           /\ \A s \in Coded(f) : Nth(f, s) \in 1 .. Cardinality(Coded(f))
           /\ \A s, t \in Coded(f) : Nth(f, s) = Nth(f, t) => s = t
           /\ \A k \in 1 .. Cardinality(Coded(f)) : \E s \in Coded(f) : Nth(f, s) = k
<1> DEFINE C == Coded(f)
           c == Cardinality(C)
<1>1. C \subseteq 0 .. n - 1 /\ IsFiniteSet(0 .. n - 1) /\ Cardinality(0 .. n - 1) = n
  BY FS_Interval DEF Coded
<1>2. IsFiniteSet(C) /\ c \in 0 .. n /\ C \subseteq Nat /\ c \in Nat
  BY <1>1, FS_Subset, FS_CardinalityType
<1>3. \A s \in C : Nth(f, s) = Cardinality(Below(C, s)) + 1
  <2> SUFFICES ASSUME NEW s \in C PROVE Nth(f, s) = Cardinality(Below(C, s)) + 1
    OBVIOUS
  <2>1. {t \in C : t <= s} = Below(C, s) \cup {s} /\ s \notin Below(C, s) /\ Below(C, s) \in SUBSET C
    BY <1>2 DEF Below
  <2>2. IsFiniteSet(Below(C, s))
    BY <1>2, <2>1, FS_Subset
  <2>3. Cardinality(Below(C, s) \cup {s}) = Cardinality(Below(C, s)) + 1
    BY <2>1, <2>2, FS_AddElement
  <2> HIDE DEF C
  <2>. QED  BY <2>1, <2>3 DEF Nth, C
<1> HIDE DEF C
<1>4. /\ \A s \in C : Cardinality(Below(C, s)) \in 0 .. c - 1
      /\ \A s, t \in C : Cardinality(Below(C, s)) = Cardinality(Below(C, t)) => s = t
      /\ \A r \in 0 .. c - 1 : \E s \in C : Cardinality(Below(C, s)) = r
  BY <1>2, Ranks
<1>5. \A s \in C : Nth(f, s) \in 1 .. c
  BY <1>2, <1>3, <1>4
<1>6. \A s, t \in C : Nth(f, s) = Nth(f, t) => s = t
  <2> SUFFICES ASSUME NEW s \in C, NEW t \in C, Nth(f, s) = Nth(f, t) PROVE s = t
    OBVIOUS
  <2>1. Cardinality(Below(C, s)) \in Nat /\ Cardinality(Below(C, t)) \in Nat
    BY <1>2, <1>4
  <2>2. Cardinality(Below(C, s)) = Cardinality(Below(C, t))
    BY <1>3, <2>1
  <2>. QED  BY <1>4, <2>2
<1>7. \A k \in 1 .. c : \E s \in C : Nth(f, s) = k
  <2> SUFFICES ASSUME NEW k \in 1 .. c PROVE \E s \in C : Nth(f, s) = k
    OBVIOUS
  <2>1. k - 1 \in 0 .. c - 1 /\ (k - 1) + 1 = k
    BY <1>2
  <2>2. PICK s \in C : Cardinality(Below(C, s)) = k - 1
    BY <1>4, <2>1
  <2>. QED  BY <1>3, <2>1, <2>2
<1>. QED  BY <1>1, <1>2, <1>5, <1>6, <1>7 DEF C

\* Lengths that occur equally often take up the same room.
LEMMA SameCounts ==
    ASSUME NEW ls, NEW ms, NEW T, NEW U, Fills(T, ls), Fills(U, ms),
           \A l \in Width : count(ls, l) = count(ms, l)
    PROVE  T[MAX_HUFFMAN_BITS] = U[MAX_HUFFMAN_BITS]
<1> DEFINE A == {l \in 0 .. MAX_HUFFMAN_BITS : T[l] = U[l]}
<1>1. 0 \in A
  BY MaxFacts DEF Fills
<1>2. ASSUME NEW j \in 0 .. MAX_HUFFMAN_BITS - 1, j \in A PROVE j + 1 \in A
  <2>1. PICK l \in Width : l = j + 1 /\ l - 1 = j /\ l \in 0 .. MAX_HUFFMAN_BITS
    BY MaxFacts
  <2>2. T[l] = T[l - 1] + count(ls, l) * 2 ^ (MAX_HUFFMAN_BITS - l) /\ U[l] = U[l - 1] + count(ms, l) * 2 ^ (MAX_HUFFMAN_BITS - l)
    BY DEF Fills
  <2>. QED  BY <1>2, <2>1, <2>2
<1>3. MAX_HUFFMAN_BITS \in A
  <2> HIDE DEF A
  <2>1. \A i \in 0 .. MAX_HUFFMAN_BITS : i \in A
    BY <1>1, <1>2, Climb, MaxFacts
  <2>. QED  BY <2>1, MaxFacts
<1>. QED  BY <1>3

LEMMA KraftIs ==
    ASSUME NEW n \in Nat, NEW ls \in Lengths(n), NEW T, Fills(T, ls)
    PROVE  Kraft(ls) = T[MAX_HUFFMAN_BITS]
<1> DEFINE D == {s \in DOMAIN ls : ls[s] # 0}
<1>1. D \in SUBSET (0 .. n - 1) /\ \A s \in D : ls[s] # 0
  BY DEF Lengths
<1> HIDE DEF D
<1>2. \E g : Folded(g, ls, D)
  BY <1>1, FoldedHeld
<1>3. PICK g : Folded(g, ls, D) /\ g[D] = Kraft(ls)
  BY <1>2 DEF Kraft, MapThenSumSet, MapThenFoldSet, Folded, D
<1>4. g[D] = Held(ls, D)
  BY <1>1, <1>3, FoldedHeld
<1>5. PICK U : Fills(U, Kept(ls, D)) /\ Held(ls, D) = U[MAX_HUFFMAN_BITS]
  BY KeptType
<1>6. Kept(ls, D) = ls
  BY DEF Kept, D, Lengths
<1>7. U[MAX_HUFFMAN_BITS] = T[MAX_HUFFMAN_BITS]
  BY <1>5, <1>6, SameCounts
<1>. QED  BY <1>3, <1>4, <1>5, <1>7

LEMMA DepthsFacts ==
    ASSUME NEW n \in Nat, NEW f, DOMAIN f = 0 .. n - 1, NEW c \in 2 .. n, c = Cardinality(Coded(f)),
           NEW a, Tree(a, n, c), NEW d, IsDepth(d, a, c)
    PROVE  /\ DOMAIN Depths(f, a) = 0 .. n - 1
           /\ \A s \in 0 .. n - 1 :
                Depths(f, a)[s] = IF s \in Coded(f) THEN d[a[n + Nth(f, s)]] + 1 ELSE 0
           /\ \A s \in Coded(f) : a[n + Nth(f, s)] \in 2 .. c /\ d[a[n + Nth(f, s)]] \in Nat
<1>1. Cardinality(DOMAIN f) = n /\ \A s \in Coded(f) : Nth(f, s) \in 1 .. c
  BY NthFacts
<1>2. \A k \in 1 .. c : a[n + k] \in 2 .. c /\ Depth(a, n, k) = d[a[n + k]] + 1
  BY DepthIs
<1>3. \A t \in 2 .. c : d[t] \in Nat
  BY DepthBound
<1>4. \A s \in 0 .. n - 1 : s \in Coded(f) <=> f[s] # 0
  BY DEF Coded
<1>5. \A s \in Coded(f) : Depth(a, n, Nth(f, s)) = d[a[n + Nth(f, s)]] + 1
  BY <1>1, <1>2
<1>6. \A s \in 0 .. n - 1 : Depths(f, a)[s] = IF f[s] = 0 THEN 0 ELSE Depth(a, n, Nth(f, s))
  BY <1>1 DEF Depths
<1>7. DOMAIN Depths(f, a) = 0 .. n - 1
  BY DEF Depths
<1>. QED  BY <1>1, <1>2, <1>3, <1>4, <1>5, <1>6, <1>7

\* The lengths read off a tree are those of a complete code.
LEMMA DepthsFill ==
    ASSUME NEW n \in Nat, NEW f, DOMAIN f = 0 .. n - 1, NEW c \in 2 .. n, c = Cardinality(Coded(f)),
           NEW a, Tree(a, n, c), NEW m \in Width, ~TooLong(Depths(f, a), m)
    PROVE  /\ Depths(f, a) \in Lengths(n)
           /\ \A s \in 0 .. n - 1 : Depths(f, a)[s] <= m /\ (Depths(f, a)[s] # 0 <=> s \in Coded(f))
           /\ \E T : Fills(T, Depths(f, a)) /\ T[MAX_HUFFMAN_BITS] = Room
<1> DEFINE ls == Depths(f, a)
           C == Coded(f)
           L == n + 1 .. n + c
<1>1. PICK d : IsDepth(d, a, c)
  BY DepthExists
<1>2. /\ DOMAIN ls = 0 .. n - 1
      /\ \A s \in 0 .. n - 1 : ls[s] = IF s \in C THEN d[a[n + Nth(f, s)]] + 1 ELSE 0
      /\ \A s \in C : d[a[n + Nth(f, s)]] \in Nat
  BY <1>1, DepthsFacts
<1>3. C \subseteq 0 .. n - 1
  BY DEF Coded
<1>4. m \in Nat /\ m <= MAX_HUFFMAN_BITS
  BY MaxFacts
<1>5. \A s \in 0 .. n - 1 : ls[s] \in Nat /\ ls[s] <= m /\ (ls[s] # 0 <=> s \in C)
  <2> SUFFICES ASSUME NEW s \in 0 .. n - 1 PROVE ls[s] \in Nat /\ ls[s] <= m /\ (ls[s] # 0 <=> s \in C)
    OBVIOUS
  <2>1. ls[s] \in Nat /\ (ls[s] # 0 <=> s \in C)
    BY <1>2
  <2>2. ~(ls[s] > m)
    BY <1>2 DEF TooLong
  <2>. QED  BY <1>4, <2>1, <2>2
<1>6. ls \in Lengths(n)
  <2>1. \A s \in 0 .. n - 1 : ls[s] \in 0 .. MAX_HUFFMAN_BITS
    BY <1>4, <1>5, MaxFacts
  <2>2. ls = [s \in DOMAIN ls |-> ls[s]]
    BY DEF Depths
  <2> HIDE DEF ls
  <2>. QED  BY <1>2, <2>1, <2>2 DEF Lengths
<1>7. /\ \A s \in C : Nth(f, s) \in 1 .. c
      /\ \A s, t \in C : Nth(f, s) = Nth(f, t) => s = t
      /\ \A k \in 1 .. c : \E s \in C : Nth(f, s) = k
  BY NthFacts
<1> DEFINE ms == Deep(d, a, n, c)
           ks == Kept(ms, L)
           N == 2 * n + 1
<1>8. Shallow(d, a, n, c)
  <2> SUFFICES ASSUME NEW k \in 1 .. c PROVE d[a[n + k]] + 1 <= MAX_HUFFMAN_BITS
    BY DEF Shallow
  <2>1. PICK s \in C : Nth(f, s) = k
    BY <1>7
  <2>2. ls[s] = d[a[n + k]] + 1
    BY <1>2, <1>3, <2>1
  <2>3. ls[s] \in Nat /\ ls[s] <= m
    BY <1>3, <1>5
  <2> HIDE DEF ls
  <2>. QED  BY <1>4, <2>2, <2>3, MaxFacts
<1>9. ms \in Lengths(N) /\ \A z \in Linked(n, c) : z \in 0 .. N - 1 /\ ms[z] = d[a[z]] + 1
  <2>1. N - 1 = 2 * n
    OBVIOUS
  <2>. QED  BY <1>1, <1>8, <2>1, DeepFacts
<1>10. Held(ms, L) = Room
  BY <1>1, <1>8, LeavesFill
<1>11. L \subseteq Linked(n, c)
  BY DEF Linked
<1>12. N \in Nat
  OBVIOUS
<1> HIDE DEF ms, N, L, C, ls
<1>13. /\ ks \in Lengths(N)
       /\ \A z \in 0 .. N - 1 : ks[z] = IF z \in L THEN ms[z] ELSE 0
       /\ \E T : Fills(T, ks) /\ Held(ms, L) = T[MAX_HUFFMAN_BITS]
  BY <1>9, <1>12, KeptType
<1> HIDE DEF ks
<1>14. PICK U : Fills(U, ks) /\ U[MAX_HUFFMAN_BITS] = Room
  BY <1>10, <1>13
<1>15. ASSUME NEW l \in Width PROVE count(ls, l) = count(ks, l)
  <2> DEFINE A == OfLength(ls, l)
             B == OfLength(ks, l)
             g == [s \in A |-> n + Nth(f, s)]
  <2>1. l # 0 /\ l \in Nat
    BY MaxFacts
  <2>2. A = {s \in C : d[a[n + Nth(f, s)]] + 1 = l}
    BY <1>2, <1>3, <2>1 DEF OfLength
  <2>3. \A z : z \in B <=> z \in L /\ d[a[z]] + 1 = l
    <3>1. DOMAIN ks = 0 .. N - 1
      BY <1>13 DEF Lengths
    <3>2. \A z : z \in B <=> z \in 0 .. N - 1 /\ ks[z] = l
      BY <3>1 DEF OfLength
    <3>3. \A z \in L : z \in 0 .. N - 1 /\ ms[z] = d[a[z]] + 1
      BY <1>9, <1>11
    <3> HIDE DEF B
    <3>. QED  BY <1>13, <2>1, <3>2, <3>3
  <2> HIDE DEF A, B
  <2>4. \A s \in A : n + Nth(f, s) \in B
    <3> SUFFICES ASSUME NEW s \in A PROVE n + Nth(f, s) \in B
      OBVIOUS
    <3>1. s \in C /\ d[a[n + Nth(f, s)]] + 1 = l
      BY <2>2
    <3>2. n + Nth(f, s) \in L
      BY <1>7, <3>1 DEF L
    <3>. QED  BY <2>3, <3>1, <3>2
  <2>5. \A s, t \in A : n + Nth(f, s) = n + Nth(f, t) => s = t
    <3> SUFFICES ASSUME NEW s \in A, NEW t \in A, n + Nth(f, s) = n + Nth(f, t) PROVE s = t
      OBVIOUS
    <3>1. s \in C /\ t \in C
      BY <2>2
    <3>2. Nth(f, s) \in Int /\ Nth(f, t) \in Int
      BY <1>7, <3>1
    <3>3. Nth(f, s) = Nth(f, t)
      BY <3>2
    <3>. QED  BY <1>7, <3>1, <3>3
  <2>6. \A z \in B : \E s \in A : n + Nth(f, s) = z
    <3> SUFFICES ASSUME NEW z \in B PROVE \E s \in A : n + Nth(f, s) = z
      OBVIOUS
    <3>1. z \in L /\ d[a[z]] + 1 = l
      BY <2>3
    <3>2. z - n \in 1 .. c /\ n + (z - n) = z
      BY <3>1 DEF L
    <3>3. PICK s \in C : Nth(f, s) = z - n
      BY <1>7, <3>2
    <3>4. n + Nth(f, s) = z
      BY <3>2, <3>3
    <3>. QED  BY <2>2, <3>1, <3>4
  <2>7. g \in Bijection(A, B)
    BY <2>4, <2>5, <2>6 DEF Bijection, Injection, Surjection, IsInjective
  <2>8. IsFiniteSet(A)
    BY <1>6, CountFacts DEF A
  <2>9. Cardinality(B) = Cardinality(A)
    BY <2>7, <2>8, FS_Bijection DEF ExistsBijection
  <2>. QED  BY <2>1, <2>9 DEF count, A, B
<1>16. PICK T : Fills(T, ls)
  BY <1>6, FillsExist
<1>17. T[MAX_HUFFMAN_BITS] = Room
  BY <1>14, <1>15, <1>16, SameCounts
<1>. QED  BY <1>5, <1>6, <1>16, <1>17 DEF ls, C

--------------------------------------------------------------------------------
(***************************************************************************)
(* The heap at the start.                                                  *)
(***************************************************************************)
\* b holds a node for each coded symbol; weights are at least 1 and at most cap.
Starts(b, n, c, cap) ==
    /\ b \in NodeArrays(2 * n)
    /\ \A k \in 1 .. c : Link(b[k]) = n + k /\ b[k] \div LINK \in 1 .. cap

LEMMA InitStarts ==
    ASSUME NEW n \in Nat, NEW f \in [0 .. n - 1 -> Nat], NEW cap \in 1 .. UINT16_MAX, 2 * n <= UINT16_MAX
    PROVE  \E b : /\ Starts(b, n, Cardinality(Coded(f)), cap)
                  /\ InitNodes(f, cap) = minheap_heapify(b, Cardinality(Coded(f)))
<1> PICK c : c = Cardinality(Coded(f))
  OBVIOUS
<1> DEFINE sym(k) == CHOOSE s \in Coded(f) : Nth(f, s) = k
           w(k) == Capped(f[sym(k)], cap)
           b == [k \in 1 .. 2 * n |-> IF k <= c THEN Capped(f[sym(k)], cap) * LINK + n + k ELSE 0]
<1>0. DOMAIN f = 0 .. n - 1
  OBVIOUS
<1>1. /\ Cardinality(DOMAIN f) = n /\ c \in 0 .. n
      /\ \A k \in 1 .. c : \E s \in Coded(f) : Nth(f, s) = k
  BY <1>0, NthFacts
<1>2. InitNodes(f, cap) = minheap_heapify(b, c)
  <2> DEFINE heap(m, g) ==
        minheap_heapify([k \in 1 .. 2 * m |-> IF k <= g THEN Capped(f[sym(k)], cap) * LINK + m + k ELSE 0], g)
  <2>1. InitNodes(f, cap) = heap(Cardinality(DOMAIN f), Cardinality(Coded(f)))
    BY Zenon DEF InitNodes
  <2>2. heap(n, c) = minheap_heapify(b, c)
    OBVIOUS
  <2> HIDE DEF heap, b
  <2>. QED  BY <1>1, <2>1, <2>2, Zenon
<1>3. PICK L \in Nat \ {0} : L = LINK /\ L = UINT16_MAX + 1 /\ UINT16_MAX \in Nat
  BY HuffmanAssumption DEF LINK
<1>4. \A k \in 1 .. c : w(k) \in 1 .. cap
  <2> SUFFICES ASSUME NEW k \in 1 .. c PROVE w(k) \in 1 .. cap
    OBVIOUS
  <2>1. sym(k) \in Coded(f)
    BY <1>1
  <2>2. PICK y \in Nat \ {0} : y = f[sym(k)]
    BY <2>1 DEF Coded
  <2>. QED  BY <2>2, <1>3 DEF Capped
<1>5. \A k \in 1 .. c : n + k \in 0 .. L - 1 /\ n + k \in Nat /\ k \in 1 .. 2 * n
  BY <1>1, <1>3
<1> HIDE DEF sym
<1>6. \A k \in 1 .. 2 * n : b[k] = IF k <= c THEN w(k) * L + n + k ELSE 0
  BY <1>3
<1> HIDE DEF w
<1>7. ASSUME NEW k \in 1 .. c
      PROVE  b[k] \in Nat /\ b[k] % L = n + k /\ b[k] \div L = w(k)
  <2>1. PICK u \in Nat, r \in 0 .. L - 1 : u = w(k) /\ r = n + k
    BY <1>3, <1>4, <1>5
  <2>2. b[k] = u * L + n + k
    BY <1>5, <1>6, <2>1
  <2>3. L * u \in Nat /\ u * L = L * u
    BY TimesNat
  <2>4. b[k] = L * u + r
    <3>1. PICK v \in Nat : v = u * L /\ v = L * u
      BY <2>3
    <3> HIDE DEF b
    <3>. QED  BY <2>1, <2>2, <3>1
  <2>5. (L * u + r) \div L = u /\ (L * u + r) % L = r
    BY DivModUnique
  <2> HIDE DEF b
  <2>6. L * u + r \in Nat
    BY <2>1, <2>3
  <2>. QED  BY <2>1, <2>4, <2>5, <2>6, Zenon
<1>8. b \in NodeArrays(2 * n)
  <2>1. \A k \in 1 .. 2 * n : b[k] \in Nat
    <3>1. \A k \in 1 .. 2 * n : k <= c => k \in 1 .. c
      BY <1>1
    <3> HIDE DEF b
    <3>. QED  BY <1>6, <1>7, <3>1
  <2>2. b = [k \in 1 .. 2 * n |-> b[k]]
    OBVIOUS
  <2> HIDE DEF b
  <2>. QED  BY <2>1, <2>2 DEF NodeArrays
<1> HIDE DEF b
<1>9. Starts(b, n, c, cap)
  BY <1>3, <1>4, <1>7, <1>8 DEF Starts, Link
<1>. QED  BY <1>2, <1>9

LEMMA StartForest ==
    ASSUME NEW n \in Nat, NEW c \in 0 .. n, NEW cap, NEW b, Starts(b, n, c, cap), 2 * n <= UINT16_MAX,
           NEW a, a = minheap_heapify(b, c)
    PROVE  /\ Forest(a, c, n, c)
           /\ \A e \in Entries(a, c) : \E k \in 1 .. c : Link(e) = n + k /\ e \div LINK \in 1 .. cap
<1>1. PICK N \in Nat : N = 2 * n /\ c \in 0 .. N /\ c \in Nat
  OBVIOUS
<1>2. b \in NodeArrays(N) /\ \A k \in 1 .. c : Link(b[k]) = n + k /\ b[k] \div LINK \in 1 .. cap
  BY <1>1 DEF Starts
<1>3. Permutes(b, a, N, c) /\ Heap(a, c, 1)
  BY <1>1, <1>2, MinheapHeapify
<1>4. Distinct(b, c)
  <2> SUFFICES ASSUME NEW k \in 1 .. c, NEW m \in 1 .. c, b[k] = b[m] PROVE k = m
    BY DEF Distinct
  <2>1. n + k = n + m
    BY <1>2
  <2>. QED  BY <2>1
<1>5. Entries(a, c) = Entries(b, c) /\ Distinct(a, c) /\ a \in NodeArrays(2 * n)
  <2>1. Entries(a, c) = Entries(b, c)
    BY <1>3, SameEntries, Zenon
  <2>2. Distinct(a, c) /\ a \in NodeArrays(N)
    BY <1>3, <1>4, Zenon DEF Permutes
  <2>. QED  BY <1>1, <2>1, <2>2, Zenon
<1>6. \A e \in Entries(a, c) : \E k \in 1 .. c : Link(e) = n + k /\ e \div LINK \in 1 .. cap
  BY <1>2, <1>5 DEF Entries
<1>7. Slots(c, n, c) = n + 1 .. n + c /\ c + 1 .. c = {}
  BY DEF Slots
<1>8. \A e \in Entries(a, c) : Link(e) \in Slots(c, n, c)
  BY <1>6, <1>7
<1>9. \A e, f \in Entries(a, c) : Link(e) = Link(f) => e = f
  <2> SUFFICES ASSUME NEW e \in Entries(a, c), NEW f \in Entries(a, c), Link(e) = Link(f) PROVE e = f
    OBVIOUS
  <2>1. PICK k \in 1 .. c, m \in 1 .. c : e = b[k] /\ f = b[m]
    BY <1>5 DEF Entries
  <2>2. n + k = n + m
    BY <1>2, <2>1
  <2>3. k = m
    BY <2>2
  <2>. QED  BY <2>1, <2>3
<1>10. \A z \in Slots(c, n, c) : Root(a, c, z)
  <2> SUFFICES ASSUME NEW z \in n + 1 .. n + c PROVE Root(a, c, z)
    BY <1>7
  <2>1. z - n \in 1 .. c /\ n + (z - n) = z
    OBVIOUS
  <2>2. b[z - n] \in Entries(a, c) /\ Link(b[z - n]) = z
    BY <1>2, <1>5, <2>1 DEF Entries
  <2>. QED  BY <2>2 DEF Root
<1>. QED  BY <1>3, <1>5, <1>6, <1>7, <1>8, <1>9, <1>10 DEF Forest

--------------------------------------------------------------------------------
(***************************************************************************)
(* With a cap of 1 all symbols weigh the same, and no leaf is deeper than  *)
(* their number demands.                                                   *)
(***************************************************************************)
\* The symbols below each node of the heap, as many as it weighs.
Owners(own, a, hp, c) ==
    /\ own \in [Entries(a, hp) -> SUBSET (1 .. c)]
    /\ \A e \in Entries(a, hp) : Cardinality(own[e]) = e \div LINK
    /\ \A e, f \in Entries(a, hp) : e # f => own[e] \cap own[f] = {}

\* Height t and weight w of a node: w has at most 2^k symbols with height k, or less than twice that.
Level(w, t, k) == \/ w = 2 ^ k /\ t <= k
                  \/ 2 ^ k < w /\ w <= 2 ^ (k + 1) /\ t <= k + 1

Between(w, k) == 2 ^ k < w /\ w < 2 ^ (k + 1)

\* Heights grow along the links; the weights of the nodes in the heap are 2^k and 2^(k + 1), but for one.
Even(ht, k, a, hp, n, c) ==
    /\ k \in Nat /\ ht \in [1 .. 2 * n -> Nat]
    /\ \A z \in Slots(hp, n, c) : Root(a, hp, z) \/ ht[z] < ht[a[z]]
    /\ \A e \in Entries(a, hp) : Level(e \div LINK, ht[Link(e)], k)
    /\ \A e, f \in Entries(a, hp) : Between(e \div LINK, k) /\ Between(f \div LINK, k) => e = f

Balanced(a, hp, n, c) ==
    /\ \E own : Owners(own, a, hp, c)
    /\ \E ht, k : Even(ht, k, a, hp, n, c)

LEMMA StartBalanced ==
    ASSUME NEW n \in Nat, NEW c \in 0 .. n, NEW a, Forest(a, c, n, c), 2 * n <= UINT16_MAX,
           \A e \in Entries(a, c) : \E k \in 1 .. c : Link(e) = n + k /\ e \div LINK \in 1 .. 1
    PROVE  Balanced(a, c, n, c)
<1> DEFINE own == [e \in Entries(a, c) |-> {Link(e) - n}]
           ht == [z \in 1 .. 2 * n |-> 0]
<1>1. \A e \in Entries(a, c) : Link(e) - n \in 1 .. c /\ n + (Link(e) - n) = Link(e) /\ e \div LINK = 1 /\ Link(e) \in n + 1 .. n + c
  <2> SUFFICES ASSUME NEW e \in Entries(a, c)
               PROVE  Link(e) - n \in 1 .. c /\ n + (Link(e) - n) = Link(e) /\ e \div LINK = 1 /\ Link(e) \in n + 1 .. n + c
    OBVIOUS
  <2>1. PICK k \in 1 .. c : Link(e) = n + k /\ e \div LINK \in 1 .. 1
    OBVIOUS
  <2>. QED  BY <2>1
<1>2. \A e, f \in Entries(a, c) : Link(e) = Link(f) => e = f
  BY DEF Forest
<1>3. Owners(own, a, c, c)
  <2>1. \A e \in Entries(a, c) : own[e] = {Link(e) - n} /\ own[e] \in SUBSET (1 .. c)
    BY <1>1
  <2>2. \A e \in Entries(a, c) : Cardinality(own[e]) = e \div LINK
    <3>1. \A x : Cardinality({x}) = 1
      BY FS_Singleton
    <3> HIDE DEF own
    <3>. QED  BY <1>1, <2>1, <3>1
  <2>3. \A e, f \in Entries(a, c) : e # f => own[e] \cap own[f] = {}
    <3> SUFFICES ASSUME NEW e \in Entries(a, c), NEW f \in Entries(a, c), e # f PROVE own[e] \cap own[f] = {}
      OBVIOUS
    <3>1. Link(e) # Link(f)
      BY <1>2
    <3>2. Link(e) - n # Link(f) - n
      BY <1>1, <3>1
    <3> HIDE DEF own
    <3>. QED  BY <2>1, <3>2
  <2>. QED  BY <2>1, <2>2, <2>3 DEF Owners
<1>4. 2 ^ 0 = 1 /\ 2 ^ (0 + 1) = 2
  OBVIOUS
<1>5. Even(ht, 0, a, c, n, c)
  <2>1. \A z \in Slots(c, n, c) : Root(a, c, z)
    <3>1. c + 1 .. c = {}
      OBVIOUS
    <3>. QED  BY <3>1 DEF Forest
  <2>2. ASSUME NEW e \in Entries(a, c) PROVE Level(e \div LINK, ht[Link(e)], 0)
    <3>1. Link(e) \in 1 .. 2 * n /\ e \div LINK = 1
      BY <1>1
    <3>2. ht[Link(e)] = 0
      BY <3>1
    <3> HIDE DEF ht
    <3>. QED  BY <1>4, <3>1, <3>2 DEF Level
  <2>3. \A e \in Entries(a, c) : ~Between(e \div LINK, 0)
    BY <1>1, <1>4 DEF Between
  <2>4. ht \in [1 .. 2 * n -> Nat]
    OBVIOUS
  <2>. QED  BY <2>1, <2>2, <2>3, <2>4 DEF Even
<1>. QED  BY <1>3, <1>5 DEF Balanced

LEMMA DivMonotone ==
    ASSUME NEW d \in Nat \ {0}, NEW x \in Nat, NEW y \in Nat, x <= y
    PROVE  x \div d <= y \div d
<1>1. PICK p \in Nat, r \in 0 .. d - 1 : p = x \div d /\ x = d * p + r
  BY DivMod
<1>2. PICK q \in Nat, s \in 0 .. d - 1 : q = y \div d /\ y = d * q + s
  BY DivMod
<1>3. ~(q < p)
  <2> SUFFICES ASSUME q < p PROVE FALSE
    OBVIOUS
  <2>1. PICK g \in Nat : p = q + 1 + g
    <3>1. p - q - 1 \in Nat /\ p = q + 1 + (p - q - 1)
      OBVIOUS
    <3>. QED  BY <3>1
  <2>2. d * p = d * q + d + d * g
    <3>1. \A u, v, w \in Nat : u * (v + 1 + w) = u * v + u + u * w
      OBVIOUS
    <3>. QED  BY <2>1, <3>1
  <2>3. d * q \in Nat /\ d * g \in Nat /\ d * p \in Nat
    BY TimesNat
  <2>. QED  BY <1>1, <1>2, <2>2, <2>3
<1>. QED  BY <1>1, <1>2, <1>3

LEMMA JoinedOwners ==
    ASSUME NEW n \in Nat, NEW c \in 0 .. n, NEW hp \in 2 .. c, NEW a, Forest(a, hp, n, c),
           NEW r, NEW p, NEW q, NEW new, Joins(a, r, 2 * n, hp, p, q, new), Effect(a, r, n, c, hp, p, q, new),
           NEW own, Owners(own, a, hp, c)
    PROVE  \E o : Owners(o, r, hp - 1, c)
<1> DEFINE E == Entries(a, hp)
           F == Entries(r, hp - 1)
           o == [e \in F |-> IF e = new THEN own[p] \cup own[q] ELSE own[e]]
<1>1. F = (E \ {p, q}) \cup {new} /\ p \in E /\ q \in E /\ p # q
  BY DEF Joins
<1>2. Link(new) = hp /\ hp \notin Slots(hp, n, c) /\ new \div LINK = (p \div LINK) + (q \div LINK)
  BY DEF Effect
<1>3. new \notin E
  BY <1>2 DEF Forest
<1>4. /\ own \in [E -> SUBSET (1 .. c)]
      /\ \A e \in E : Cardinality(own[e]) = e \div LINK
      /\ \A e, f \in E : e # f => own[e] \cap own[f] = {}
  BY DEF Owners
<1> HIDE DEF E, F
<1>5. \A e \in F : o[e] = IF e = new THEN own[p] \cup own[q] ELSE own[e]
  OBVIOUS
<1>6. o \in [F -> SUBSET (1 .. c)]
  <2>1. \A e \in F : (IF e = new THEN own[p] \cup own[q] ELSE own[e]) \in SUBSET (1 .. c)
    BY <1>1, <1>4
  <2>. QED  BY <2>1
<1> HIDE DEF o
<1>7. Cardinality(own[p] \cup own[q]) = (p \div LINK) + (q \div LINK)
  <2>1. own[p] \in SUBSET (1 .. c) /\ own[q] \in SUBSET (1 .. c) /\ own[p] \cap own[q] = {}
    BY <1>1, <1>4
  <2>2. IsFiniteSet(1 .. c)
    BY FS_Interval
  <2>3. IsFiniteSet(own[p]) /\ IsFiniteSet(own[q])
    BY <2>1, <2>2, FS_Subset
  <2>4. Cardinality(own[p]) \in Nat /\ Cardinality(own[q]) \in Nat /\ Cardinality({}) = 0
    BY <2>3, FS_CardinalityType, FS_EmptySet
  <2>5. Cardinality(own[p] \cup own[q]) = Cardinality(own[p]) + Cardinality(own[q]) - Cardinality(own[p] \cap own[q])
    BY <2>3, FS_Union
  <2>6. Cardinality(own[p]) = p \div LINK /\ Cardinality(own[q]) = q \div LINK
    BY <1>1, <1>4
  <2>7. Cardinality(own[p] \cap own[q]) = 0
    BY <2>1, <2>4, Zenon
  <2>8. PICK x \in Nat, y \in Nat : x = p \div LINK /\ y = q \div LINK
    BY <2>4, <2>6
  <2>9. Cardinality(own[p] \cup own[q]) = x + y - 0
    BY <2>5, <2>6, <2>7, <2>8, Zenon
  <2>. QED  BY <2>8, <2>9
<1>8. \A e \in F : Cardinality(o[e]) = e \div LINK
  BY <1>1, <1>2, <1>4, <1>5, <1>7
<1>9. \A e, f \in F : e # f => o[e] \cap o[f] = {}
  <2> SUFFICES ASSUME NEW e \in F, NEW f \in F, e # f PROVE o[e] \cap o[f] = {}
    OBVIOUS
  <2>1. \A g \in E \ {p, q} : g \in F /\ o[g] = own[g] /\ own[g] \cap own[p] = {} /\ own[g] \cap own[q] = {}
    BY <1>1, <1>3, <1>4, <1>5
  <2>2. CASE e = new
    BY <1>1, <1>5, <2>1, <2>2
  <2>3. CASE f = new
    BY <1>1, <1>5, <2>1, <2>3
  <2>4. CASE e # new /\ f # new
    BY <1>1, <1>4, <1>5, <2>4
  <2>. QED  BY <2>2, <2>3, <2>4
<1>. QED  BY <1>6, <1>8, <1>9 DEF Owners, F

\* Two nodes of a level become one of the same or of the next.
LEMMA LevelStep ==
    ASSUME NEW k \in Nat, NEW w \in Nat, NEW x \in Nat, w <= x, NEW t \in Nat, NEW u \in Nat,
           Level(w, t, k), Level(x, u, k), NEW v \in Nat, v = t + 1 \/ v = u + 1
    PROVE  /\ x = 2 ^ k => Level(w + x, v, k) /\ ~Between(w + x, k)
           /\ x # 2 ^ k => 2 ^ k < x /\ Level(w + x, v, k + 1)
<1>1. PICK p \in Nat : p = 2 ^ k /\ p >= 1 /\ 2 ^ (k + 1) = 2 * p /\ 2 ^ ((k + 1) + 1) = 4 * p
  <2>1. 2 ^ k \in Nat /\ 2 ^ k >= 1 /\ 2 ^ (k + 1) = 2 * 2 ^ k
    BY PowerStep
  <2>2. k + 1 \in Nat
    OBVIOUS
  <2>3. 2 ^ ((k + 1) + 1) = 2 * 2 ^ (k + 1)
    BY <2>2, PowerStep
  <2>. QED  BY <2>1, <2>3
<1>2. (w = p /\ t <= k) \/ (p < w /\ w <= 2 * p /\ t <= k + 1)
  BY <1>1 DEF Level
<1>3. (x = p /\ u <= k) \/ (p < x /\ x <= 2 * p /\ u <= k + 1)
  BY <1>1 DEF Level
<1>4. x = p => w + x = 2 * p /\ v <= k + 1
  BY <1>1, <1>2, <1>3
<1>5. x # p => p < x /\ 2 * p < w + x /\ w + x <= 4 * p /\ v <= (k + 1) + 1
  BY <1>1, <1>2, <1>3
<1>6. x = p => Level(w + x, v, k) /\ ~Between(w + x, k)
  BY <1>1, <1>4 DEF Level, Between
<1>7. x # p => p < x /\ Level(w + x, v, k + 1)
  BY <1>1, <1>5 DEF Level
<1>. QED  BY <1>1, <1>6, <1>7

LEMMA LevelUp ==
    ASSUME NEW k \in Nat, NEW w \in Nat, NEW t \in Nat, Level(w, t, k), 2 ^ k < w, ~Between(w, k)
    PROVE  Level(w, t, k + 1) /\ ~Between(w, k + 1)
<1>1. 2 ^ k \in Nat /\ 2 ^ (k + 1) \in Nat
  BY PowerStep
<1>. QED  BY <1>1 DEF Level, Between

LEMMA JoinedEven ==
    ASSUME NEW n \in Nat, NEW c \in 0 .. n, NEW hp \in 2 .. c, NEW a, Forest(a, hp, n, c),
           NEW r, NEW p, NEW q, NEW new, Joins(a, r, 2 * n, hp, p, q, new), Effect(a, r, n, c, hp, p, q, new),
           NEW ht, NEW k, Even(ht, k, a, hp, n, c)
    PROVE  \E g, m : Even(g, m, r, hp - 1, n, c)
<1> DEFINE E == Entries(a, hp)
           F == Entries(r, hp - 1)
           S == Slots(hp, n, c)
           u == Link(p)
           v == Link(q)
           w(e) == e \div LINK
           t == IF ht[u] <= ht[v] THEN ht[v] + 1 ELSE ht[u] + 1
           g == [ht EXCEPT ![hp] = t]
<1>1. /\ F = (E \ {p, q}) \cup {new} /\ p \in E /\ q \in E /\ p # q
      /\ \A e \in E : p <= e /\ (e # p => q <= e)
  BY DEF Joins
<1>2. /\ Slots(hp - 1, n, c) = S \cup {hp} /\ hp \notin S /\ S \subseteq hp + 1 .. 2 * n
      /\ E \subseteq Nat /\ new \in Nat /\ Link(new) = hp /\ w(new) = w(p) + w(q)
      /\ u \in S /\ v \in S /\ Root(r, hp - 1, hp)
      /\ \A z \in S : Root(r, hp - 1, z) <=> Root(a, hp, z) /\ z \notin {u, v}
      /\ \A z \in S : r[z] = IF z \in {u, v} THEN hp ELSE a[z]
  BY DEF Effect
<1>3. /\ k \in Nat /\ ht \in [1 .. 2 * n -> Nat]
      /\ \A z \in S : Root(a, hp, z) \/ ht[z] < ht[a[z]]
      /\ \A e \in E : Level(w(e), ht[Link(e)], k)
      /\ \A e, f \in E : Between(w(e), k) /\ Between(w(f), k) => e = f
  BY DEF Even
<1>4. /\ \A e \in E : Link(e) \in S
      /\ \A z \in S : Root(a, hp, z) \/ a[z] \in hp + 1 .. c
  BY DEF Forest
<1>5. new \notin E
  BY <1>2, <1>4
<1>6. \A e \in E : w(e) \in Nat /\ w(p) <= w(e) /\ (e # p => w(q) <= w(e))
  <2>1. LINK \in Nat \ {0}
    BY HuffmanAssumption DEF LINK
  <2>2. \A e \in E : e \in Nat
    BY <1>2
  <2> SUFFICES ASSUME NEW e \in E PROVE w(e) \in Nat /\ w(p) <= w(e) /\ (e # p => w(q) <= w(e))
    OBVIOUS
  <2>3. w(e) \in Nat
    BY <2>1, <2>2, DivMod
  <2>4. w(p) <= w(e)
    BY <1>1, <2>1, <2>2, DivMonotone
  <2>5. e # p => w(q) <= w(e)
    BY <1>1, <2>1, <2>2, DivMonotone
  <2>. QED  BY <2>3, <2>4, <2>5
<1>7. \A z \in S : z \in 1 .. 2 * n /\ z # hp /\ ht[z] \in Nat
  <2>1. \A z \in S : z \in hp + 1 .. 2 * n
    BY <1>2
  <2>. QED  BY <1>3, <2>1
<1>8. hp \in 1 .. 2 * n /\ t \in Nat /\ ht[u] < t /\ ht[v] < t /\ (t = ht[u] + 1 \/ t = ht[v] + 1)
  BY <1>2, <1>7
<1>9. g \in [1 .. 2 * n -> Nat] /\ g[hp] = t /\ \A z \in 1 .. 2 * n : z # hp => g[z] = ht[z]
  <2> HIDE DEF t
  <2>. QED  BY <1>3, <1>8
<1> HIDE DEF E, F, S, u, v, w, t, g
<1>10. \A z \in S \cup {hp} : Root(r, hp - 1, z) \/ g[z] < g[r[z]]
  <2> SUFFICES ASSUME NEW z \in S \cup {hp}, ~Root(r, hp - 1, z) PROVE g[z] < g[r[z]]
    OBVIOUS
  <2>1. z \in S /\ g[z] = ht[z]
    BY <1>2, <1>7, <1>9
  <2>2. CASE z \in {u, v}
    BY <1>2, <1>8, <1>9, <2>1, <2>2
  <2>3. CASE z \notin {u, v}
    <3>1. r[z] = a[z] /\ ~Root(a, hp, z)
      BY <1>2, <2>1, <2>3
    <3>2. a[z] \in hp + 1 .. c /\ ht[z] < ht[a[z]]
      BY <1>3, <1>4, <2>1, <3>1
    <3>3. g[a[z]] = ht[a[z]]
      BY <1>9, <3>2
    <3>. QED  BY <2>1, <3>1, <3>2, <3>3
  <2>. QED  BY <2>2, <2>3
<1>11. \A e \in F : e = new \/ (e \in E /\ e # p /\ e # q /\ g[Link(e)] = ht[Link(e)] /\ ht[Link(e)] \in Nat /\ w(e) \in Nat)
  BY <1>1, <1>4, <1>6, <1>7, <1>9
<1>12. g[Link(new)] = t
  BY <1>2, <1>9
<1>13. /\ w(q) = 2 ^ k => Level(w(new), t, k) /\ ~Between(w(new), k)
       /\ w(q) # 2 ^ k => 2 ^ k < w(q) /\ Level(w(new), t, k + 1)
  <2>1. w(p) \in Nat /\ w(q) \in Nat /\ w(p) <= w(q) /\ ht[u] \in Nat /\ ht[v] \in Nat
    BY <1>1, <1>2, <1>6, <1>7
  <2>2. Level(w(p), ht[u], k) /\ Level(w(q), ht[v], k)
    BY <1>1, <1>3 DEF u, v
  <2>3. PICK i \in Nat, j \in Nat, x \in Nat, y \in Nat :
          i = w(p) /\ j = w(q) /\ x = ht[u] /\ y = ht[v] /\ w(new) = i + j
    BY <1>2, <2>1
  <2>4. k \in Nat /\ i <= j /\ Level(i, x, k) /\ Level(j, y, k) /\ t \in Nat /\ (t = x + 1 \/ t = y + 1)
    BY <1>3, <1>8, <2>1, <2>2, <2>3
  <2>5. /\ j = 2 ^ k => Level(i + j, t, k) /\ ~Between(i + j, k)
        /\ j # 2 ^ k => 2 ^ k < j /\ Level(i + j, t, k + 1)
    BY <2>4, LevelStep
  <2>. QED  BY <2>3, <2>5
<1>14. CASE w(q) = 2 ^ k
  <2>1. \A e \in F : Level(w(e), g[Link(e)], k)
    BY <1>3, <1>11, <1>12, <1>13, <1>14
  <2>2. \A e, f \in F : Between(w(e), k) /\ Between(w(f), k) => e = f
    BY <1>3, <1>11, <1>13, <1>14
  <2>3. Even(g, k, r, hp - 1, n, c)
    BY <1>2, <1>3, <1>9, <1>10, <2>1, <2>2 DEF Even, F, w
  <2>. QED  BY <2>3
<1>15. CASE w(q) # 2 ^ k
  <2>1. \A e \in F : e # new => Level(w(e), ht[Link(e)], k + 1) /\ ~Between(w(e), k + 1)
    <3> SUFFICES ASSUME NEW e \in F, e # new PROVE Level(w(e), ht[Link(e)], k + 1) /\ ~Between(w(e), k + 1)
      OBVIOUS
    <3>1. e \in E /\ e # p /\ e # q /\ ht[Link(e)] \in Nat /\ w(e) \in Nat
      BY <1>11
    <3>2. w(q) \in Nat /\ w(q) <= w(e) /\ 2 ^ k < w(q) /\ 2 ^ k \in Nat /\ 2 ^ (k + 1) \in Nat
      BY <1>1, <1>3, <1>6, <1>13, <1>15, <3>1, PowerStep
    <3>3. 2 ^ k < w(e)
      BY <3>1, <3>2
    <3>4. ~Between(w(e), k)
      <4> SUFFICES ASSUME Between(w(e), k) PROVE FALSE
        OBVIOUS
      <4>1. Between(w(q), k)
        BY <3>1, <3>2 DEF Between
      <4>. QED  BY <1>1, <1>3, <3>1, <4>1
    <3>5. Level(w(e), ht[Link(e)], k)
      BY <1>3, <3>1
    <3>. QED  BY <1>3, <3>1, <3>3, <3>4, <3>5, LevelUp
  <2>2. \A e \in F : Level(w(e), g[Link(e)], k + 1)
    BY <1>11, <1>12, <1>13, <1>15, <2>1
  <2>3. \A e, f \in F : Between(w(e), k + 1) /\ Between(w(f), k + 1) => e = f
    BY <2>1
  <2>4. k + 1 \in Nat
    BY <1>3
  <2>5. Even(g, k + 1, r, hp - 1, n, c)
    BY <1>2, <1>9, <1>10, <2>2, <2>3, <2>4 DEF Even, F, w
  <2>. QED  BY <2>5
<1>. QED  BY <1>14, <1>15

LEMMA MergeBalanced ==
    ASSUME NEW n \in Nat, NEW c \in 0 .. n, NEW hp \in 2 .. c, NEW a, Forest(a, hp, n, c), 2 * n <= UINT16_MAX,
           Balanced(a, hp, n, c)
    PROVE  Balanced(Merge(a, hp), hp - 1, n, c)
<1>1. PICK p, q, new : Joins(a, Merge(a, hp), 2 * n, hp, p, q, new)
  BY MergeForest
<1>2. Effect(a, Merge(a, hp), n, c, hp, p, q, new)
  BY <1>1, JoinedRoots
<1>3. PICK own : Owners(own, a, hp, c)
  BY DEF Balanced
<1>4. PICK ht, k : Even(ht, k, a, hp, n, c)
  BY DEF Balanced
<1>5. \E o : Owners(o, Merge(a, hp), hp - 1, c)
  BY <1>1, <1>2, <1>3, JoinedOwners
<1>6. \E g, m : Even(g, m, Merge(a, hp), hp - 1, n, c)
  BY <1>1, <1>2, <1>4, JoinedEven
<1>. QED  BY <1>5, <1>6 DEF Balanced

\* A balanced tree of at most 2^m leaves is not deeper than m.
LEMMA BalancedDepth ==
    ASSUME NEW n \in Nat, NEW c \in 2 .. n, NEW a, Forest(a, 1, n, c), 2 * n <= UINT16_MAX,
           Balanced(a, 1, n, c), NEW m \in Nat, c <= 2 ^ m, NEW d, IsDepth(d, a, c), NEW j \in 1 .. c
    PROVE  d[a[n + j]] + 1 <= m
<1> DEFINE e == a[1]
           S == Linked(n, c)
<1>1. Tree(a, n, c) /\ Link(e) = 2
  BY OneRoot
<1>2. PICK own : Owners(own, a, 1, c)
  BY DEF Balanced
<1>3. PICK ht, k : Even(ht, k, a, 1, n, c)
  BY DEF Balanced
<1>4. Entries(a, 1) = {e} /\ Slots(1, n, c) = S \cup {2} /\ 2 \notin S
  BY DEF Entries, Slots, Linked
<1>5. \A z : Root(a, 1, z) <=> z = 2
  BY <1>1, <1>4 DEF Root
<1>6. e \in Nat /\ e \div LINK \in Nat
  <2>1. 1 \in 1 .. 2 * n /\ LINK \in Nat \ {0}
    BY HuffmanAssumption DEF LINK
  <2>2. e \in Nat
    BY <1>1, <2>1 DEF Tree, NodeArrays
  <2> HIDE DEF e
  <2>. QED  BY <2>1, <2>2, DivMod
<1> HIDE DEF e, S
<1>7. e \div LINK <= c
  <2>1. own[e] \in SUBSET (1 .. c) /\ Cardinality(own[e]) = e \div LINK
    BY <1>2, <1>4 DEF Owners
  <2>2. IsFiniteSet(1 .. c) /\ Cardinality(1 .. c) = c
    BY FS_Interval
  <2>3. Cardinality(own[e]) <= c
    BY <2>1, <2>2, FS_Subset
  <2>. QED  BY <2>1, <2>3
<1>8. k \in Nat /\ ht \in [1 .. 2 * n -> Nat] /\ Level(e \div LINK, ht[2], k)
  BY <1>1, <1>3, <1>4 DEF Even
<1>9. ht[2] <= m
  <2>1. PICK w \in Nat, t \in Nat : w = e \div LINK /\ t = ht[2] /\ w <= 2 ^ m
    <3>1. ht[2] \in Nat
      BY <1>8
    <3>2. 2 ^ m \in Nat
      BY PowerStep
    <3>. QED  BY <1>6, <1>7, <3>1, <3>2
  <2>2. \A x, y \in Nat : x < y => 2 ^ x < 2 ^ y
    <3> SUFFICES ASSUME NEW x \in Nat, NEW y \in Nat, x < y PROVE 2 ^ x < 2 ^ y
      OBVIOUS
    <3>1. PICK b \in Nat : b = y - (x + 1) /\ y = (x + 1) + b
      OBVIOUS
    <3>0. x + 1 \in Nat
      OBVIOUS
    <3>a. 2 ^ ((x + 1) + b) = 2 ^ (x + 1) * 2 ^ b
      BY <3>0, <3>1, PowerSum
    <3>b. 2 ^ (x + 1) = 2 * 2 ^ x /\ 2 ^ x \in Nat /\ 2 ^ x >= 1
      BY PowerStep
    <3>c. 2 ^ b \in Nat /\ 2 ^ b >= 1
      BY PowerStep
    <3>2. 2 ^ y = 2 ^ (x + 1) * 2 ^ b /\ 2 ^ (x + 1) = 2 * 2 ^ x /\ 2 ^ x \in Nat /\ 2 ^ x >= 1 /\ 2 ^ b \in Nat /\ 2 ^ b >= 1
      BY <3>1, <3>a, <3>b, <3>c
    <3>3. PICK f \in Nat, g \in Nat : f = 2 ^ x /\ g + 1 = 2 ^ b
      <4>1. 2 ^ b - 1 \in Nat /\ (2 ^ b - 1) + 1 = 2 ^ b
        BY <3>2
      <4>. QED  BY <3>2, <4>1
    <3>4. (2 * f) * (g + 1) = 2 * f + (2 * f) * g /\ (2 * f) * g \in Nat
      <4>1. \A i, l \in Nat : i * (l + 1) = i + i * l /\ i * l \in Nat
        OBVIOUS
      <4>. QED  BY <4>1
    <3>. QED  BY <3>2, <3>3, <3>4
  <2>3. 2 ^ k \in Nat /\ 2 ^ m \in Nat
    BY <1>8, PowerStep
  <2>4. CASE w = 2 ^ k /\ t <= k
    <3>1. ~(m < k)
      BY <1>8, <2>1, <2>2, <2>3, <2>4
    <3>. QED  BY <1>8, <2>1, <2>4, <3>1
  <2>5. CASE 2 ^ k < w /\ t <= k + 1
    <3>1. ~(m < k) /\ m # k
      BY <1>8, <2>1, <2>2, <2>3, <2>5
    <3>. QED  BY <1>8, <2>1, <2>5, <3>1
  <2>. QED  BY <1>8, <2>1, <2>4, <2>5 DEF Level
<1>10. \A z \in S : z \in 3 .. 2 * n /\ a[z] \in 2 .. c /\ (z <= c => a[z] < z) /\ ht[z] < ht[a[z]]
  <2>1. \A z \in S : ht[z] < ht[a[z]]
    BY <1>3, <1>4, <1>5 DEF Even
  <2>2. \A z \in S : z \in 3 .. 2 * n /\ a[z] \in 2 .. c /\ (z <= c => a[z] < z)
    BY <1>1 DEF Tree, Linked, S
  <2>. QED  BY <2>1, <2>2
<1>11. \A t \in 2 .. c : d[t] \in Nat /\ ht[t] \in Nat /\ (t # 2 => t \in S /\ d[t] = d[a[t]] + 1)
  <2> SUFFICES ASSUME NEW t \in 2 .. c
               PROVE  d[t] \in Nat /\ ht[t] \in Nat /\ (t # 2 => t \in S /\ d[t] = d[a[t]] + 1)
    OBVIOUS
  <2>1. d[t] \in Nat
    BY <1>1, DepthBound
  <2>2. t \in 1 .. 2 * n
    OBVIOUS
  <2>3. t # 2 => t \in 3 .. c
    OBVIOUS
  <2>. QED  BY <1>8, <2>1, <2>2, <2>3 DEF IsDepth, S, Linked
<1> DEFINE Bad == {t \in 2 .. c : ~(d[t] + ht[t] <= m)}
<1>12. Bad = {}
  <2> SUFFICES ASSUME Bad # {} PROVE FALSE
    OBVIOUS
  <2>1. Bad \subseteq Nat
    OBVIOUS
  <2>2. PICK t \in Bad : \A x \in Bad : t <= x
    <3> HIDE DEF Bad
    <3>. QED  BY <2>1, LeastElement
  <2>3. t \in 2 .. c /\ ~(d[t] + ht[t] <= m)
    BY <2>2
  <2>4. t # 2
    BY <1>8, <1>9, <2>3 DEF IsDepth
  <2>5. t \in S /\ d[t] = d[a[t]] + 1 /\ a[t] \in 2 .. c /\ a[t] < t /\ ht[t] < ht[a[t]]
    BY <1>10, <1>11, <2>3, <2>4
  <2>6. a[t] \notin Bad
    <3>1. ~(t <= a[t])
      BY <2>3, <2>5
    <3> HIDE DEF Bad
    <3>. QED  BY <2>2, <3>1
  <2>7. d[a[t]] + ht[a[t]] <= m
    BY <2>5, <2>6
  <2>. QED  BY <1>11, <2>3, <2>5, <2>7
<1>13. n + j \in S /\ n + j \in 1 .. 2 * n
  BY DEF S, Linked
<1>14. a[n + j] \in 2 .. c /\ ht[n + j] < ht[a[n + j]] /\ ht[n + j] \in Nat
  BY <1>8, <1>10, <1>13
<1>15. d[a[n + j]] + ht[a[n + j]] <= m
  BY <1>12, <1>14
<1>. QED  BY <1>11, <1>14, <1>15

--------------------------------------------------------------------------------
(***************************************************************************)
(* compute_huffman_lengths, step by step.                                  *)
(***************************************************************************)
\* A balanced tree needs no other cap.
LEMMA CapOneFits ==
    ASSUME NEW n \in Nat, NEW f, DOMAIN f = 0 .. n - 1, NEW c \in 2 .. n, c = Cardinality(Coded(f)),
           NEW a, Forest(a, 1, n, c), 2 * n <= UINT16_MAX, Balanced(a, 1, n, c), NEW m \in Nat, n <= 2 ^ m
    PROVE  ~TooLong(Depths(f, a), m)
<1>1. Tree(a, n, c)
  BY OneRoot
<1>2. PICK d : IsDepth(d, a, c)
  BY <1>1, DepthExists
<1>3. c <= 2 ^ m
  <2>1. 2 ^ m \in Nat
    BY PowerStep
  <2>. QED  BY <2>1
<1>4. \A j \in 1 .. c : d[a[n + j]] + 1 <= m
  BY <1>2, <1>3, BalancedDepth
<1>5. /\ DOMAIN Depths(f, a) = 0 .. n - 1
      /\ \A s \in 0 .. n - 1 : Depths(f, a)[s] = IF s \in Coded(f) THEN d[a[n + Nth(f, s)]] + 1 ELSE 0
      /\ \A s \in Coded(f) : d[a[n + Nth(f, s)]] \in Nat
  BY <1>1, <1>2, DepthsFacts
<1>6. \A s \in Coded(f) : Nth(f, s) \in 1 .. c
  BY NthFacts
<1> SUFFICES ASSUME NEW s \in 0 .. n - 1, Depths(f, a)[s] > m PROVE FALSE
  BY <1>5 DEF TooLong
<1>7. CASE s \in Coded(f)
  <2>1. PICK x \in Nat : x = d[a[n + Nth(f, s)]] /\ x + 1 <= m
    BY <1>4, <1>5, <1>6, <1>7
  <2>2. Depths(f, a)[s] = x + 1
    BY <1>5, <1>7, <2>1
  <2>. QED  BY <2>1, <2>2
<1>8. CASE s \notin Coded(f)
  BY <1>5, <1>8
<1>. QED  BY <1>7, <1>8

LEMMA InitHeapForest ==
    ASSUME NEW n \in Nat, NEW f \in [0 .. n - 1 -> Nat], NEW cap \in 1 .. UINT16_MAX, 2 * n <= UINT16_MAX,
           NEW c, c = Cardinality(Coded(f))
    PROVE  /\ c \in 0 .. n /\ Forest(InitNodes(f, cap), c, n, c)
           /\ cap = 1 => Balanced(InitNodes(f, cap), c, n, c)
<1>1. c \in 0 .. n
  <2>1. DOMAIN f = 0 .. n - 1
    OBVIOUS
  <2>. QED  BY <2>1, NthFacts
<1>2. PICK b : Starts(b, n, c, cap) /\ InitNodes(f, cap) = minheap_heapify(b, c)
  BY InitStarts
<1>3. PICK a : a = InitNodes(f, cap)
  OBVIOUS
<1>4. /\ Forest(a, c, n, c)
      /\ \A e \in Entries(a, c) : \E k \in 1 .. c : Link(e) = n + k /\ e \div LINK \in 1 .. cap
  BY <1>1, <1>2, <1>3, StartForest
<1>5. cap = 1 => Balanced(a, c, n, c)
  BY <1>1, <1>4, StartBalanced
<1>. QED  BY <1>1, <1>3, <1>4, <1>5

\* The frequencies and the limit stay; the array holds a forest, a balanced one under the last cap.
Computing == pc \in {"try_again", "few", "build", "done"}
CodedNow == Cardinality(Coded(freqs))

HInv ==
    /\ CodeIsComplete
    /\ Computing => freqs \in [0 .. NUM_SYMS - 1 -> Nat] /\ max_len \in MaxLens
    /\ pc = "few" => CodedNow < 2
    /\ pc = "build" =>
         /\ CodedNow \in 2 .. NUM_SYMS /\ h \in 1 .. CodedNow
         /\ Forest(nodes, h, NUM_SYMS, CodedNow)
         /\ freq_cap = 1 => Balanced(nodes, h, NUM_SYMS, CodedNow)

LEMMA SymFacts == /\ NUM_SYMS \in Nat /\ 2 * NUM_SYMS <= UINT16_MAX /\ UINT16_MAX \in Nat \ {0}
                  /\ \A l \in MaxLens : l \in Width /\ l \in Nat /\ NUM_SYMS <= 2 ^ l
<1>1. \A l \in MaxLens : l \in Nat /\ 2 ^ l \in Nat
  BY LimitAssumption, MaxFacts, PowerStep
<1>. QED  BY <1>1, LimitAssumption, HuffmanAssumption

LEMMA InitHInv == Init => HInv
<1> SUFFICES ASSUME Init PROVE HInv
  OBVIOUS
<1>1. freq_cap \in 1 .. UINT16_MAX /\ h \in 0 .. NUM_SYMS /\ bits \in 0 .. 2 ^ MAX_HUFFMAN_BITS - 1
  <2>1. Room \in Nat \ {0}
    BY MaxFacts
  <2>. QED  BY <2>1, SymFacts DEF Init, Room
<1>2. CASE Compute
  <2>1. freqs \in [0 .. NUM_SYMS - 1 -> Nat] /\ max_len \in MaxLens
    BY <1>2, SymFacts DEF Compute
  <2>2. \A s \in DOMAIN lengths : lengths[s] \in Nat
    BY <1>2 DEF Compute
  <2>. QED  BY <1>1, <1>2, <2>1, <2>2 DEF HInv, CodeIsComplete, TypeOK, Compute
<1>3. CASE Given
  <2>1. \A s \in DOMAIN lengths : lengths[s] \in Nat
    BY <1>3, MaxFacts DEF Given
  <2>. QED  BY <1>1, <1>3, <2>1 DEF HInv, CodeIsComplete, TypeOK, Given, Computing
<1>. QED  BY <1>2, <1>3 DEF Init

LEMMA NextHInv == HInv /\ [Next]_vars => HInv'
<1> SUFFICES ASSUME HInv, [Next]_vars PROVE HInv'
  OBVIOUS
<1>0. TypeOK
  BY DEF HInv, CodeIsComplete
<1> DEFINE n == NUM_SYMS
           c == CodedNow
<1>a. n \in Nat /\ 2 * n <= UINT16_MAX
  BY SymFacts
<1>1. CASE InitHeap
  <2>1. /\ freqs \in [0 .. n - 1 -> Nat] /\ max_len \in MaxLens /\ freq_cap \in 1 .. UINT16_MAX
        /\ freqs' = freqs /\ max_len' = max_len /\ freq_cap' = freq_cap /\ lengths' = lengths /\ bits' = bits
    BY <1>0, <1>1 DEF HInv, Computing, TypeOK, InitHeap, decoding
  <2>2. c' = c /\ h' = c /\ nodes' = InitNodes(freqs, freq_cap) /\ pc' = IF c < 2 THEN "few" ELSE "build"
    BY <1>1 DEF InitHeap, CodedNow
  <2>3. /\ c \in 0 .. n /\ Forest(InitNodes(freqs, freq_cap), c, n, c)
        /\ freq_cap = 1 => Balanced(InitNodes(freqs, freq_cap), c, n, c)
    BY <1>a, <2>1, InitHeapForest DEF CodedNow
  <2>4. TypeOK' /\ pc' # "done"
    BY <1>0, <2>1, <2>2, <2>3 DEF TypeOK
  <2> HIDE DEF c, n
  <2>5. c \in Nat /\ (pc' = "build" => c \in 2 .. n /\ h' \in 1 .. c)
    BY <1>a, <2>2, <2>3
  <2>. QED  BY <2>1, <2>2, <2>3, <2>4, <2>5 DEF HInv, CodeIsComplete, Computing, c, n
<1>2. CASE FewSymbols
  <2>1. /\ freqs \in [0 .. n - 1 -> Nat] /\ max_len \in MaxLens /\ c < 2
        /\ freqs' = freqs /\ max_len' = max_len /\ freq_cap' = freq_cap /\ h' = h /\ bits' = bits
        /\ lengths' = FewLengths(freqs) /\ pc' = "done"
    BY <1>2 DEF HInv, Computing, FewSymbols, building, decoding
  <2>2. \A s \in DOMAIN freqs : lengths'[s] = (IF freqs[s] = 0 THEN 0 ELSE 1) /\ freqs[s] \in Nat
    BY <2>1 DEF FewLengths
  <2>3. DOMAIN lengths' = DOMAIN freqs
    BY <2>1 DEF FewLengths
  <2>4. TypeOK'
    BY <1>0, <2>1, <2>2, <2>3 DEF TypeOK
  <2>5. max_len \in Nat /\ 1 <= max_len
    BY <2>1, SymFacts, MaxFacts
  <2>6. \A s \in DOMAIN freqs' : lengths'[s] <= max_len' /\ (lengths'[s] # 0 <=> freqs'[s] # 0)
    BY <2>1, <2>2, <2>5
  <2>7. c' = c /\ ~(c' >= 2)
    <3>1. DOMAIN freqs = 0 .. n - 1
      BY <2>1
    <3>2. c \in 0 .. n
      BY <1>a, <3>1, NthFacts DEF CodedNow
    <3>. QED  BY <1>a, <2>1, <3>2 DEF CodedNow
  <2>. QED  BY <2>1, <2>4, <2>6, <2>7 DEF HInv, CodeIsComplete, Computing, CodedNow
<1>3. CASE JoinLightest
  <2>1. /\ freqs \in [0 .. n - 1 -> Nat] /\ max_len \in MaxLens
        /\ c \in 2 .. n /\ h \in 1 .. c /\ h > 1 /\ Forest(nodes, h, n, c)
        /\ freq_cap = 1 => Balanced(nodes, h, n, c)
        /\ freqs' = freqs /\ max_len' = max_len /\ freq_cap' = freq_cap /\ lengths' = lengths /\ bits' = bits
        /\ nodes' = Merge(nodes, h) /\ h' = h - 1 /\ pc' = "build" /\ c' = c
    BY <1>3 DEF HInv, Computing, JoinLightest, decoding, CodedNow
  <2>2. TypeOK'
    BY <1>0, <1>a, <2>1 DEF TypeOK
  <2> HIDE DEF c, n
  <2>3. h \in 2 .. c /\ c \in 0 .. n /\ h - 1 \in 1 .. c
    BY <1>a, <2>1
  <2>4. Forest(nodes', h', n, c)
    BY <1>a, <2>1, <2>3, MergeForest
  <2>5. freq_cap' = 1 => Balanced(nodes', h', n, c)
    BY <1>a, <2>1, <2>3, MergeBalanced
  <2>. QED  BY <2>1, <2>2, <2>3, <2>4, <2>5 DEF HInv, CodeIsComplete, Computing, c, n
<1>4. CASE ReadLengths
  <2>1. /\ freqs \in [0 .. n - 1 -> Nat] /\ max_len \in MaxLens /\ max_len \in Width
        /\ c \in 2 .. n /\ h = 1 /\ Forest(nodes, 1, n, c)
        /\ freqs' = freqs /\ max_len' = max_len /\ freq_cap' = freq_cap /\ h' = h /\ bits' = bits
        /\ lengths' = Depths(freqs, nodes) /\ ~TooLong(Depths(freqs, nodes), max_len) /\ pc' = "done"
    BY <1>4, SymFacts DEF HInv, Computing, ReadLengths, building, decoding
  <2>2. DOMAIN freqs = 0 .. n - 1 /\ c = Cardinality(Coded(freqs)) /\ \A s \in 0 .. n - 1 : freqs[s] \in Nat
    BY <2>1 DEF CodedNow
  <2> HIDE DEF c, n
  <2>3. Tree(nodes, n, c)
    BY <1>a, <2>1, OneRoot
  <2>4. /\ Depths(freqs, nodes) \in Lengths(n)
        /\ \A s \in 0 .. n - 1 : Depths(freqs, nodes)[s] <= max_len /\ (Depths(freqs, nodes)[s] # 0 <=> s \in Coded(freqs))
        /\ \E T : Fills(T, Depths(freqs, nodes)) /\ T[MAX_HUFFMAN_BITS] = Room
    BY <1>a, <2>1, <2>2, <2>3, DepthsFill
  <2>5. Kraft(Depths(freqs, nodes)) = Room
    BY <1>a, <2>4, KraftIs
  <2>6. Kraft(lengths)' = Room
    BY <2>1, <2>5
  <2>7. \A s \in DOMAIN freqs' : lengths'[s] <= max_len' /\ (lengths'[s] # 0 <=> freqs'[s] # 0)
    BY <2>1, <2>2, <2>4 DEF Coded
  <2>8. \A s \in DOMAIN lengths' : lengths'[s] \in Nat
    BY <2>1, <2>4, MaxFacts DEF Lengths
  <2>9. TypeOK'
    BY <1>0, <2>1, <2>8 DEF TypeOK
  <2>10. CodeIsComplete'
    BY <2>6, <2>7, <2>9 DEF CodeIsComplete, Room
  <2>. QED  BY <2>1, <2>10 DEF HInv, Computing, n
<1>5. CASE LowerCap
  <2>1. /\ freqs \in [0 .. n - 1 -> Nat] /\ max_len \in MaxLens /\ freq_cap \in 1 .. UINT16_MAX
        /\ c \in 2 .. n /\ h = 1 /\ Forest(nodes, 1, n, c) /\ (freq_cap = 1 => Balanced(nodes, 1, n, c))
        /\ freqs' = freqs /\ max_len' = max_len /\ freq_cap' = freq_cap \div 2 /\ lengths' = lengths /\ h' = h /\ bits' = bits
        /\ TooLong(Depths(freqs, nodes), max_len) /\ pc' = "try_again"
    BY <1>0, <1>5 DEF HInv, Computing, TypeOK, LowerCap, decoding
  <2>2. freq_cap # 1
    <3>1. max_len \in Nat /\ n <= 2 ^ max_len
      BY <2>1, SymFacts
    <3>2. DOMAIN freqs = 0 .. n - 1 /\ c = Cardinality(Coded(freqs))
      BY <2>1 DEF CodedNow
    <3> HIDE DEF c, n
    <3>. QED  BY <1>a, <2>1, <3>1, <3>2, CapOneFits
  <2>3. freq_cap' \in 1 .. UINT16_MAX
    BY <2>1, <2>2, SymFacts
  <2>4. TypeOK'
    BY <1>0, <2>1, <2>3 DEF TypeOK
  <2>. QED  BY <2>1, <2>4 DEF HInv, CodeIsComplete, Computing
<1>6. CASE InitDecoder
  BY <1>0, <1>6 DEF InitDecoder, HInv, CodeIsComplete, TypeOK, Computing, building, decoding
<1>7. CASE Decode
  BY <1>0, <1>7 DEF Decode, HInv, CodeIsComplete, TypeOK, Computing, building
<1>8. CASE UNCHANGED vars
  <2>1. Kraft(lengths)' = Kraft(lengths)
    BY <1>8 DEF vars
  <2>. QED  BY <1>0, <1>8, <2>1 DEF vars, building, decoding, HInv, CodeIsComplete, TypeOK, Computing, CodedNow
<1>. QED  BY <1>1, <1>2, <1>3, <1>4, <1>5, <1>6, <1>7, <1>8 DEF Next, compute

\* compute_huffman_lengths returns a complete code within the limit, for every number of symbols, all
\* frequencies and every limit that admits a code; it never lowers a cap of 1.
THEOREM CodeIsCompleteHolds == Spec => []CodeIsComplete
<1>1. HInv => CodeIsComplete
  BY DEF HInv
<1>. QED  BY <1>1, InitHInv, NextHInv, PTL DEF Spec

--------------------------------------------------------------------------------
(***************************************************************************)
(* compute_huffman_lengths as a function, for the compressors.             *)
(***************************************************************************)
LEMMA MergeType ==
    ASSUME NEW N \in Nat, NEW hp \in 2 .. N, NEW a \in NodeArrays(N)
    PROVE  Merge(a, hp) \in NodeArrays(N)
<1> DEFINE b == PopFirst(a, hp)
           x == Joined(b, a[1], hp)
<1>1. hp - 1 \in 0 .. N /\ 1 \in 1 .. hp - 1
  OBVIOUS
<1>2. b \in NodeArrays(N)
  <2> DEFINE y == [a EXCEPT ![1] = a[hp]]
  <2>1. y \in NodeArrays(N)
    BY DEF NodeArrays
  <2> HIDE DEF y
  <2>2. minheap_down(y, hp - 1, 1) \in NodeArrays(N)
    BY <1>1, <2>1, MinheapDown DEF Permutes
  <2>. QED  BY <2>2 DEF PopFirst, y
<1> HIDE DEF b
<1>3. x \in NodeArrays(N)
  <2>1. a[1] \in Nat /\ b[1] \in Nat
    BY <1>2 DEF NodeArrays
  <2>2. 0 \in 0 .. UINT16_MAX
    BY HuffmanAssumption
  <2>3. FreqPart(a[1]) \in Nat /\ FreqPart(b[1]) \in Nat
    BY <2>1, <2>2, NodeParts
  <2>4. PICK v \in Nat : v = FreqPart(a[1]) + FreqPart(b[1]) + hp
    BY <2>3
  <2>5. x = [b EXCEPT ![1] = v, ![Link(a[1])] = hp, ![Link(b[1])] = hp]
    BY <2>4, Zenon DEF Joined
  <2>6. hp \in Nat
    OBVIOUS
  <2>. QED  BY <1>2, <2>5, <2>6 DEF NodeArrays
<1> HIDE DEF x
<1>4. minheap_down(x, hp - 1, 1) \in NodeArrays(N)
  BY <1>1, <1>3, MinheapDown DEF Permutes
<1>. QED  BY <1>4 DEF Merge, x, b

\* The loop that joins nodes until one is left, by array and size of the heap.
JoinState(N, c) == NodeArrays(N) \X (1 .. c)
JoinMore(N, c) == {s \in JoinState(N, c) : s[2] # 1}
JoinNext(N, c) == [s \in JoinMore(N, c) |-> <<Merge(s[1], s[2]), s[2] - 1>>]
JoinRank(N, c) == [s \in JoinState(N, c) |-> s[2]]
JoinsAll(f, N, c) ==
    f = [s \in JoinState(N, c) |-> IF s[2] = 1 THEN s[1] ELSE f[<<Merge(s[1], s[2]), s[2] - 1>>]]

LEMMA JoinLoop ==
    ASSUME NEW N \in Nat, NEW c \in 0 .. N
    PROVE  /\ IsLoop(JoinState(N, c), JoinMore(N, c), JoinNext(N, c), JoinRank(N, c))
           /\ \E f : JoinsAll(f, N, c)
           /\ \A f : JoinsAll(f, N, c) =>
                 Loops(f, JoinState(N, c), JoinMore(N, c), JoinNext(N, c), [s \in JoinState(N, c) |-> s[1]])
<1> DEFINE S == JoinState(N, c)
           More == JoinMore(N, c)
           nx == JoinNext(N, c)
           rank == JoinRank(N, c)
           base == [s \in S |-> s[1]]
           e(f, s) == IF s[2] = 1 THEN s[1] ELSE f[<<Merge(s[1], s[2]), s[2] - 1>>]
<1>1. ASSUME NEW s \in More
      PROVE  nx[s] \in S /\ rank[nx[s]] < rank[s]
  <2>1. PICK a \in NodeArrays(N), i \in 1 .. c : s = <<a, i>> /\ i # 1 /\ s \in S
    BY DEF JoinMore, JoinState
  <2>2. PICK b : b = Merge(a, i)
    OBVIOUS
  <2>3. i \in 2 .. N /\ i - 1 \in 1 .. c
    BY <2>1
  <2>4. b \in NodeArrays(N)
    BY <2>2, <2>3, MergeType
  <2>5. nx[s] = <<b, i - 1>>
    BY <2>1, <2>2 DEF JoinNext
  <2>6. nx[s] \in S
    BY <2>3, <2>4, <2>5 DEF JoinState
  <2>7. rank[nx[s]] = i - 1 /\ rank[s] = i
    BY <2>1, <2>5, <2>6 DEF JoinRank
  <2>. QED  BY <2>3, <2>6, <2>7
<1>2. IsLoop(S, More, nx, rank)
  <2>1. More \in SUBSET S /\ rank \in [S -> Nat]
    BY DEF JoinState, JoinMore, JoinRank
  <2>2. nx = [s \in More |-> nx[s]]
    BY DEF JoinNext
  <2> HIDE DEF nx, More, S, rank
  <2>3. nx \in [More -> S]
    BY <1>1, <2>2
  <2>. QED  BY <1>1, <2>1, <2>3 DEF IsLoop
<1>3. ASSUME NEW f PROVE JoinsAll(f, N, c) <=> f = [s \in S |-> e(f, s)]
  BY Zenon DEF JoinsAll
<1>4. ASSUME NEW f, NEW s \in S
      PROVE  e(f, s) = IF s \in More THEN f[nx[s]] ELSE base[s]
  BY DEF JoinMore, JoinNext
<1>5. \E f : JoinsAll(f, N, c)
  <2>1. base \in [S -> NodeArrays(N)]
    BY DEF JoinState
  <2> HIDE DEF rank, base, More, nx, S
  <2>2. PICK f \in [S -> NodeArrays(N)] : Loops(f, S, More, nx, base)
    BY <1>2, <2>1, LoopExists
  <2> HIDE DEF e
  <2>3. \A s \in S : f[s] = e(f, s)
    BY <1>4, <2>2, Zenon DEF Loops
  <2>4. f = [s \in S |-> f[s]]
    OBVIOUS
  <2>5. f = [s \in S |-> e(f, s)]
    BY <2>3, <2>4
  <2>. QED  BY <1>3, <2>5
<1>6. ASSUME NEW f, JoinsAll(f, N, c) PROVE Loops(f, S, More, nx, base)
  <2> HIDE DEF e, base, More, nx, S
  <2>1. f = [s \in S |-> e(f, s)]
    BY <1>3, <1>6
  <2>2. \A s \in S : f[s] = e(f, s)
    BY <2>1, Zenon
  <2>. QED  BY <1>4, <2>2, Zenon DEF Loops
<1>. QED  BY <1>2, <1>5, <1>6, Zenon

\* It ends in a tree, and in a balanced one if it began so.
LEMMA JoinedTree ==
    ASSUME NEW n \in Nat, 2 * n <= UINT16_MAX, NEW c \in 2 .. n, NEW a, Forest(a, c, n, c),
           NEW f, JoinsAll(f, 2 * n, c)
    PROVE  /\ Forest(f[<<a, c>>], 1, n, c)
           /\ Balanced(a, c, n, c) => Balanced(f[<<a, c>>], 1, n, c)
<1> DEFINE N == 2 * n
           S == JoinState(N, c)
           More == JoinMore(N, c)
           nx == JoinNext(N, c)
           rank == JoinRank(N, c)
           base == [s \in S |-> s[1]]
           b0 == Balanced(a, c, n, c)
           Good == {s \in S : Forest(s[1], s[2], n, c) /\ (b0 => Balanced(s[1], s[2], n, c))}
           W == {b \in NodeArrays(N) : Forest(b, 1, n, c) /\ (b0 => Balanced(b, 1, n, c))}
<1>1. N \in Nat /\ c \in 0 .. N /\ c \in 1 .. c /\ c \in 0 .. n /\ c \in Nat
  OBVIOUS
<1>2. Loops(f, S, More, nx, base) /\ IsLoop(S, More, nx, rank)
  <2> HIDE DEF S, More, nx, base, rank, N
  <2>. QED  BY <1>1, JoinLoop, Zenon DEF S, More, nx, base, rank, N
<1> HIDE DEF b0
<1>3. ASSUME NEW s \in Good, s \in More PROVE nx[s] \in Good
  <2>1. PICK b \in NodeArrays(N), i \in 1 .. c : s = <<b, i>> /\ i # 1
    BY <1>3 DEF JoinMore, JoinState
  <2>2. PICK x : x = Merge(b, i)
    OBVIOUS
  <2>3. i \in 2 .. c /\ i \in 2 .. N /\ i - 1 \in 1 .. c
    BY <2>1
  <2>4. Forest(b, i, n, c) /\ (b0 => Balanced(b, i, n, c))
    BY <2>1
  <2>5. Forest(x, i - 1, n, c)
    BY <1>1, <2>2, <2>3, <2>4, MergeForest
  <2>6. b0 => Balanced(x, i - 1, n, c)
    BY <1>1, <2>2, <2>3, <2>4, MergeBalanced
  <2>7. nx[s] = <<x, i - 1>>
    BY <1>3, <2>1, <2>2 DEF JoinNext
  <2>8. x \in NodeArrays(N)
    BY <1>1, <2>2, <2>3, MergeType
  <2>9. <<x, i - 1>> \in S
    BY <2>3, <2>8 DEF JoinState
  <2>. QED  BY <2>5, <2>6, <2>7, <2>9
<1>4. Keeps(Good, S, More, nx)
  <2> HIDE DEF S, More, nx
  <2>1. Good \in SUBSET S
    OBVIOUS
  <2> HIDE DEF Good
  <2>. QED  BY <1>3, <2>1 DEF Keeps
<1>5. Gives(Good, More, base, W)
  BY DEF Gives, JoinMore, JoinState
<1>6. <<a, c>> \in Good
  <2>1. a \in NodeArrays(N)
    BY DEF Forest
  <2>2. <<a, c>> \in S
    BY <1>1, <2>1 DEF JoinState
  <2>. QED  BY <2>2 DEF b0
<1> HIDE DEF Good, W, S, More, nx, rank, base
<1>7. f[<<a, c>>] \in W
  BY <1>2, <1>4, <1>5, <1>6, LoopKeeps
<1>. QED  BY <1>7 DEF W, b0

\* The loop that lowers the cap.
TryLengths(f, freqs_, n, c, cap) == Depths(freqs_, f[<<InitNodes(freqs_, cap), c>>])
TryMore(f, freqs_, n, c, m) ==
    {cap \in 1 .. UINT16_MAX : TooLong(TryLengths(f, freqs_, n, c, cap), m) /\ cap # 1}
Tries(t, f, freqs_, n, c, m) ==
    t = [cap \in 1 .. UINT16_MAX |->
          IF TooLong(TryLengths(f, freqs_, n, c, cap), m) /\ cap # 1
          THEN t[cap \div 2] ELSE TryLengths(f, freqs_, n, c, cap)]

\* It ends with lengths that are not too long, if those under a cap of 1 are not.
LEMMA TryLoop ==
    ASSUME NEW f, NEW freqs_, NEW n, NEW c, NEW m, ~TooLong(TryLengths(f, freqs_, n, c, 1), m)
    PROVE  /\ \E t : Tries(t, f, freqs_, n, c, m)
           /\ \A t : Tries(t, f, freqs_, n, c, m) =>
                 \E cap \in 1 .. UINT16_MAX :
                    /\ t[UINT16_MAX] = TryLengths(f, freqs_, n, c, cap)
                    /\ ~TooLong(TryLengths(f, freqs_, n, c, cap), m)
<1> DEFINE S == 1 .. UINT16_MAX
           ls(cap) == TryLengths(f, freqs_, n, c, cap)
           More == TryMore(f, freqs_, n, c, m)
           nx == [cap \in More |-> cap \div 2]
           rank == [cap \in S |-> cap]
           base == [cap \in S |-> ls(cap)]
           V == {ls(cap) : cap \in S}
           W == {ls(cap) : cap \in {x \in S : ~TooLong(ls(x), m)}}
           e(t, cap) == IF TooLong(ls(cap), m) /\ cap # 1 THEN t[cap \div 2] ELSE ls(cap)
<1>0. UINT16_MAX \in Nat \ {0} /\ UINT16_MAX \in S
  BY HuffmanAssumption
<1>1. More \in SUBSET S /\ \A cap \in S : cap \in More <=> TooLong(ls(cap), m) /\ cap # 1
  BY DEF TryMore
<1> HIDE DEF More
<1>2. IsLoop(S, More, nx, rank)
  <2>1. ASSUME NEW cap \in More PROVE cap \div 2 \in S /\ cap \div 2 < cap /\ cap \in S
    <3>1. cap \in S /\ cap # 1
      BY <1>1
    <3>. QED  BY <1>0, <3>1
  <2>2. nx \in [More -> S] /\ rank \in [S -> Nat]
    BY <2>1
  <2>3. \A cap \in More : rank[nx[cap]] < rank[cap]
    BY <2>1
  <2> HIDE DEF nx, rank, S
  <2>. QED  BY <1>1, <2>2, <2>3 DEF IsLoop
<1>3. \A t : Tries(t, f, freqs_, n, c, m) <=> t = [cap \in S |-> e(t, cap)]
  BY Zenon DEF Tries
<1>4. \A t : \A cap \in S : e(t, cap) = IF cap \in More THEN t[nx[cap]] ELSE base[cap]
  BY <1>1
<1>5. base \in [S -> V]
  <2> HIDE DEF ls
  <2>. QED  OBVIOUS
<1>6. \A cap \in S : cap \notin More => base[cap] \in W
  <2>1. \A cap \in S : cap \notin More => ~TooLong(ls(cap), m)
    BY <1>1
  <2> HIDE DEF ls
  <2>. QED  BY <2>1
<1> HIDE DEF S, ls, nx, rank, base, V, W
<1>7. \E t : Tries(t, f, freqs_, n, c, m)
  <2>1. PICK t \in [S -> V] : Loops(t, S, More, nx, base)
    BY <1>2, <1>5, LoopExists
  <2> HIDE DEF e
  <2>2. \A cap \in S : t[cap] = e(t, cap)
    BY <1>4, <2>1, Zenon DEF Loops
  <2>3. t = [cap \in S |-> t[cap]]
    OBVIOUS
  <2>4. t = [cap \in S |-> e(t, cap)]
    BY <2>2, <2>3
  <2>. QED  BY <1>3, <2>4
<1>8. ASSUME NEW t, Tries(t, f, freqs_, n, c, m) PROVE t[UINT16_MAX] \in W
  <2> HIDE DEF e
  <2>1. t = [cap \in S |-> e(t, cap)]
    BY <1>3, <1>8
  <2>2. \A cap \in S : t[cap] = e(t, cap)
    BY <2>1, Zenon
  <2>3. Loops(t, S, More, nx, base)
    BY <1>4, <2>2, Zenon DEF Loops
  <2>4. Keeps(S, S, More, nx)
    BY <1>2 DEF Keeps, IsLoop
  <2>5. Gives(S, More, base, W)
    BY <1>6 DEF Gives
  <2>. QED  BY <1>0, <1>2, <2>3, <2>4, <2>5, LoopKeeps
<1>9. \A x \in W : \E cap \in 1 .. UINT16_MAX : x = TryLengths(f, freqs_, n, c, cap) /\ ~TooLong(TryLengths(f, freqs_, n, c, cap), m)
  BY DEF W, S, ls
<1>. QED  BY <1>7, <1>8, <1>9

\* What it returns is a complete code of the symbols that occur, within the limit.
LEMMA LengthsFromFrequencies ==
    ASSUME NEW n \in Nat, 2 * n <= UINT16_MAX, NEW f \in [0 .. n - 1 -> Nat], NEW m \in Width, n <= 2 ^ m,
           NEW ls, ls = compute_huffman_lengths(f, m)
    PROVE  /\ ls \in Lengths(n)
           /\ \A s \in 0 .. n - 1 : ls[s] <= m /\ (ls[s] # 0 <=> f[s] # 0)
           /\ Cardinality(Coded(f)) >= 2 => \E T : Fills(T, ls) /\ T[MAX_HUFFMAN_BITS] = Room
<1> DEFINE c == Cardinality(Coded(f))
           N == 2 * n
           tree == CHOOSE tree : JoinsAll(tree, N, c)
           try == CHOOSE try : Tries(try, tree, f, n, c, m)
<1>1. DOMAIN f = 0 .. n - 1 /\ c \in 0 .. n /\ Cardinality(DOMAIN f) = n
  <2>1. DOMAIN f = 0 .. n - 1
    OBVIOUS
  <2>. QED  BY <2>1, NthFacts
<1>2. m \in Nat /\ 1 <= m /\ m <= MAX_HUFFMAN_BITS /\ MAX_HUFFMAN_BITS \in Nat
  BY MaxFacts
<1>3. ls = IF c < 2 THEN FewLengths(f) ELSE try[UINT16_MAX]
  <2> DEFINE S == [1 .. 2 * Cardinality(DOMAIN f) -> Nat] \X (1 .. c)
             linked == CHOOSE t : t = [s \in S |-> IF s[2] = 1 THEN s[1] ELSE t[<<Merge(s[1], s[2]), s[2] - 1>>]]
             ds(cap) == Depths(f, linked[<<InitNodes(f, cap), c>>])
             tried == CHOOSE t : t = [cap \in 1 .. UINT16_MAX |->
                                        IF TooLong(ds(cap), m) /\ cap # 1 THEN t[cap \div 2] ELSE ds(cap)]
  <2>1. ls = IF c < 2 THEN FewLengths(f) ELSE tried[UINT16_MAX]
    BY DEF compute_huffman_lengths
  <2>2. S = JoinState(N, c)
    BY <1>1 DEF JoinState, NodeArrays
  <2>3. linked = tree
    BY <2>2, Zenon DEF JoinsAll
  <2> HIDE DEF linked, tree, c
  <2>4. tried = try
    BY <2>3, Zenon DEF Tries, TryLengths
  <2>. QED  BY <2>1, <2>4
<1> HIDE DEF c, tree, try
<1>4. CASE c < 2
  <2>1. ls = [s \in 0 .. n - 1 |-> IF f[s] = 0 THEN 0 ELSE 1]
    BY <1>1, <1>3, <1>4 DEF FewLengths
  <2>2. ls \in Lengths(n)
    BY <1>2, <2>1 DEF Lengths
  <2>3. ~(c >= 2)
    BY <1>1, <1>4
  <2>. QED  BY <1>2, <2>1, <2>2, <2>3 DEF c
<1>5. CASE ~(c < 2)
  <2>1. c \in 2 .. n /\ c \in 0 .. N /\ N \in Nat
    BY <1>1, <1>5
  <2>2. JoinsAll(tree, N, c)
    <3>1. \E t : JoinsAll(t, N, c)
      BY <2>1, JoinLoop
    <3>. QED  BY <3>1, Zenon DEF tree
  <2>3. ASSUME NEW cap \in 1 .. UINT16_MAX
        PROVE  LET a == tree[<<InitNodes(f, cap), c>>]
               IN  Forest(a, 1, n, c) /\ (cap = 1 => Balanced(a, 1, n, c))
    <3>1. PICK b : b = InitNodes(f, cap)
      OBVIOUS
    <3>2. Forest(b, c, n, c) /\ (cap = 1 => Balanced(b, c, n, c))
      BY <3>1, InitHeapForest DEF c
    <3>3. Forest(tree[<<b, c>>], 1, n, c) /\ (Balanced(b, c, n, c) => Balanced(tree[<<b, c>>], 1, n, c))
      BY <2>1, <2>2, <3>2, JoinedTree
    <3>. QED  BY <3>1, <3>2, <3>3
  <2>4. 1 \in 1 .. UINT16_MAX
    BY HuffmanAssumption
  <2>5. ~TooLong(TryLengths(tree, f, n, c, 1), m)
    <3>1. PICK a : a = tree[<<InitNodes(f, 1), c>>]
      OBVIOUS
    <3>2. Forest(a, 1, n, c) /\ Balanced(a, 1, n, c)
      BY <2>3, <2>4, <3>1
    <3>3. ~TooLong(Depths(f, a), m)
      BY <1>1, <1>2, <2>1, <3>2, CapOneFits DEF c
    <3>. QED  BY <3>1, <3>3 DEF TryLengths
  <2>6. Tries(try, tree, f, n, c, m)
    <3>1. \E t : Tries(t, tree, f, n, c, m)
      BY <2>5, TryLoop
    <3>. QED  BY <3>1, Zenon DEF try
  <2>7. PICK cap \in 1 .. UINT16_MAX :
          try[UINT16_MAX] = TryLengths(tree, f, n, c, cap) /\ ~TooLong(TryLengths(tree, f, n, c, cap), m)
    BY <2>5, <2>6, TryLoop
  <2>8. PICK a : a = tree[<<InitNodes(f, cap), c>>]
    OBVIOUS
  <2>9. ls = Depths(f, a) /\ ~TooLong(Depths(f, a), m)
    BY <1>3, <1>5, <2>7, <2>8 DEF TryLengths
  <2>10. Forest(a, 1, n, c)
    BY <2>3, <2>8
  <2>11. Tree(a, n, c)
    BY <2>1, <2>10, OneRoot
  <2>12. /\ ls \in Lengths(n)
         /\ \A s \in 0 .. n - 1 : ls[s] <= m /\ (ls[s] # 0 <=> s \in Coded(f))
         /\ \E T : Fills(T, ls) /\ T[MAX_HUFFMAN_BITS] = Room
    BY <1>1, <2>1, <2>9, <2>11, DepthsFill DEF c
  <2>. QED  BY <1>1, <2>12 DEF Coded
<1>. QED  BY <1>4, <1>5

================================================================================
