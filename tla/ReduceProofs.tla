------------------------------ MODULE ReduceProofs ------------------------------
(***************************************************************************)
(* Proofs about Reduce.  The invariant Inv says where reader and writer    *)
(* stay; the properties of hwexpand on any stream follow from it.  The     *)
(* round trip rests on two formulas: Writing says that the bytes so far    *)
(* are tokens for the input so far, and where in the stream each of them   *)
(* and each follower set stands; Reading says the same of the whole, and   *)
(* which byte of which token the reader has come to.                       *)
(***************************************************************************)
EXTENDS Reduce, FiniteSetTheorems, SequenceTheorems, WellFoundedInduction, TLAPS

\* A set of naturals that has an element has a least one.
LEMMA LeastElement ==
    ASSUME NEW S, S \subseteq Nat, S # {}
    PROVE  \E m \in S : \A n \in S : m <= n
<1>1. PICK m \in S : \A n \in S : ~(<<n, m>> \in {ss \in Nat \X Nat : ss[1] < ss[2]})
  BY NatLessThanWellFounded, WFMin, Zenon DEF OpToRel
<1>2. \A n \in S : ~(n < m)
  BY <1>1
<1>. QED  BY <1>2

\* What holds of 0 and goes on from each number to the next holds up to n.
LEMMA Climb ==
    ASSUME NEW n \in Nat, NEW T, 0 \in T, \A j \in 0 .. n - 1 : j \in T => j + 1 \in T
    PROVE  \A i \in 0 .. n : i \in T
<1> DEFINE Bad == {i \in 0 .. n : i \notin T}
<1> SUFFICES ASSUME Bad # {} PROVE FALSE
  OBVIOUS
<1>1. Bad \subseteq Nat
  OBVIOUS
<1>2. PICK k \in Bad : \A j \in Bad : k <= j
  <2> HIDE DEF Bad
  <2>. QED  BY <1>1, LeastElement
<1>3. k - 1 \in 0 .. n - 1 /\ (k - 1) + 1 = k
  BY <1>2
<1>4. k - 1 \notin Bad
  <2> SUFFICES ASSUME k - 1 \in Bad PROVE FALSE
    OBVIOUS
  <2>1. k <= k - 1
    <3> HIDE DEF Bad
    <3>. QED  BY <1>2
  <2>. QED  BY <1>3, <2>1
<1>. QED  BY <1>2, <1>3, <1>4

LEMMA TimesNat == ASSUME NEW d \in Nat, NEW q \in Nat PROVE d * q \in Nat
  OBVIOUS

\* Division with remainder.
LEMMA DivMod ==
    ASSUME NEW a \in Nat, NEW d \in Nat \ {0}
    PROVE  /\ a \div d \in Nat /\ a % d \in 0 .. d - 1
           /\ a = d * (a \div d) + (a % d)
  BY SMTT(30)

LEMMA DivModUnique ==
    ASSUME NEW d \in Nat \ {0}, NEW q \in Nat, NEW r \in 0 .. d - 1
    PROVE  (d * q + r) \div d = q /\ (d * q + r) % d = r
<1> DEFINE a == d * q + r
           t == a \div d
           u == a % d
<1>0. d * q \in Nat
  BY TimesNat
<1>1. a \in Nat
  BY <1>0
<1>9. t \in Nat /\ u \in 0 .. d - 1 /\ a = d * t + u
  <2> HIDE DEF a
  <2>. QED  BY <1>1, DivMod, Zenon
<1> HIDE DEF t, u
<1>2. d * t \in Nat /\ d * (q - t) = d * q - d * t /\ d * (t - q) = d * t - d * q
  BY <1>9, SMTT(30)
<1>3. CASE q >= t + 1
  <2>1. d * (q - t) >= d
    BY <1>9, <1>3, SMTT(30)
  <2>. QED  BY <1>0, <1>9, <1>2, <2>1
<1>4. CASE t >= q + 1
  <2>1. d * (t - q) >= d
    BY <1>9, <1>4, SMTT(30)
  <2>. QED  BY <1>0, <1>9, <1>2, <2>1
<1>5. CASE q = t
  <2>1. r = u
    BY <1>0, <1>9, <1>2, <1>5
  <2>. QED  BY <1>5, <2>1 DEF t, u
<1>. QED  BY <1>9, <1>3, <1>4, <1>5

\* Powers of two are numbers of subsets.
LEMMA PowerStep ==
    ASSUME NEW n \in Nat
    PROVE  2 ^ n \in Nat /\ 2 ^ n >= 1 /\ 2 ^ (n + 1) = 2 * 2 ^ n
<1> DEFINE S == 1 .. n
           T == 1 .. n + 1
           A == SUBSET S
           B == {x \cup {n + 1} : x \in A}
           f == [x \in A |-> x \cup {n + 1}]
<1>1. IsFiniteSet(S) /\ Cardinality(S) = n /\ IsFiniteSet(T) /\ Cardinality(T) = n + 1
  BY FS_Interval
<1>2. IsFiniteSet(A) /\ Cardinality(A) = 2 ^ n /\ IsFiniteSet(SUBSET T) /\ Cardinality(SUBSET T) = 2 ^ (n + 1)
  BY <1>1, FS_SUBSET
<1>3. f \in Bijection(A, B)
  <2>1. \A x, y \in A : x \cup {n + 1} = y \cup {n + 1} => x = y
    OBVIOUS
  <2>2. \A x, y \in A : f[x] = f[y] => x = y
    BY <2>1
  <2>3. f \in [A -> B] /\ \A b \in B : \E x \in A : f[x] = b
    OBVIOUS
  <2>. QED  BY <2>2, <2>3, Zenon DEF Bijection, Injection, Surjection, IsInjective
<1>4. IsFiniteSet(B) /\ Cardinality(B) = 2 ^ n
  <2>1. ExistsBijection(A, B)
    BY <1>3 DEF ExistsBijection
  <2>. QED  BY <1>2, <2>1, FS_Bijection
<1>5. A \cap B = {}
  <2>1. n + 1 \notin S
    OBVIOUS
  <2>. QED  BY <2>1
<1>6. SUBSET T = A \cup B
  <2>1. T = S \cup {n + 1}
    OBVIOUS
  <2>2. ASSUME NEW x \in SUBSET T PROVE x \in A \cup B
    <3>1. CASE n + 1 \in x
      <4>1. x \ {n + 1} \in A /\ x = (x \ {n + 1}) \cup {n + 1}
        BY <2>1, <3>1
      <4>. QED  BY <4>1
    <3>2. CASE n + 1 \notin x
      BY <2>1, <3>2
    <3>. QED  BY <3>1, <3>2
  <2>3. ASSUME NEW x \in A \cup B PROVE x \in SUBSET T
    BY <2>1
  <2>. QED  BY <2>2, <2>3
<1> HIDE DEF A, B, S, T
<1>7. Cardinality(A) \in Nat /\ Cardinality(A \cup B) = Cardinality(A) + Cardinality(B) - 0
  <2>1. Cardinality(A) \in Nat
    BY <1>2, FS_CardinalityType
  <2>2. Cardinality(A \cup B) = Cardinality(A) + Cardinality(B) - Cardinality(A \cap B)
    BY <1>2, <1>4, FS_Union, Zenon
  <2>. QED  BY <1>5, <2>1, <2>2, FS_EmptySet
<1>8. Cardinality(A) # 0
  <2>1. {} \in A
    BY DEF A
  <2>. QED  BY <1>2, <2>1, FS_EmptySet
<1>9. 2 ^ (n + 1) = Cardinality(A \cup B)
  BY <1>2, <1>6, Zenon
<1>. QED  BY <1>2, <1>4, <1>7, <1>8, <1>9

LEMMA PowerSum ==
    ASSUME NEW m \in Nat, NEW n \in Nat PROVE 2 ^ (m + n) = 2 ^ m * 2 ^ n
<1> DEFINE Bad == {k \in Nat : 2 ^ (m + k) # 2 ^ m * 2 ^ k}
<1> SUFFICES ASSUME Bad # {} PROVE FALSE
  OBVIOUS
<1>1. PICK k \in Bad : \A j \in Bad : k <= j
  BY LeastElement
<1>2. k # 0
  <2>1. 2 ^ m \in Nat
    BY PowerStep
  <2>2. 2 ^ m * 1 = 2 ^ m /\ m + 0 = m
    BY <2>1
  <2>3. 2 ^ 0 = 1
    OBVIOUS
  <2>4. 0 \notin Bad
    BY <2>2, <2>3
  <2>. QED  BY <1>1, <2>4
<1>3. k - 1 \in Nat /\ k - 1 \notin Bad
  BY <1>1, <1>2
<1>4. PICK j \in Nat : k = j + 1 /\ 2 ^ (m + j) = 2 ^ m * 2 ^ j
  BY <1>3
<1>5. 2 ^ (m + j + 1) = 2 * 2 ^ (m + j) /\ 2 ^ (j + 1) = 2 * 2 ^ j /\ 2 ^ m \in Nat /\ 2 ^ j \in Nat
  BY PowerStep
<1>6. 2 * (2 ^ m * 2 ^ j) = 2 ^ m * (2 * 2 ^ j)
  <2>1. \A a, b \in Nat : 2 * (a * b) = a * (2 * b)
    BY SMTT(30)
  <2>. QED  BY <1>5, <2>1, Zenon
<1>7. m + (j + 1) = m + j + 1
  OBVIOUS
<1>. QED  BY <1>1, <1>4, <1>5, <1>6, <1>7

--------------------------------------------------------------------------------
(***************************************************************************)
(* Bits of numbers.                                                        *)
(***************************************************************************)
\* The partial sums of ValueOf.
Weighs(acc, bits, n) == acc = [i \in 0 .. n |-> IF i = 0 THEN 0 ELSE acc[i - 1] + bits[i] * 2 ^ (i - 1)]

LEMMA WeighsExists == ASSUME NEW bits, NEW n \in Nat PROVE \E acc : Weighs(acc, bits, n)
<1> DEFINE Bad == {k \in Nat : ~ \E acc : Weighs(acc, bits, k)}
<1> SUFFICES ASSUME Bad # {} PROVE FALSE
  OBVIOUS
<1>1. PICK k \in Bad : \A j \in Bad : k <= j
  BY LeastElement
<1>2. k # 0
  <2> DEFINE z == [i \in 0 .. 0 |-> 0]
  <2>1. Weighs(z, bits, 0)
    BY DEF Weighs
  <2> HIDE DEF z
  <2>2. 0 \notin Bad
    BY <2>1
  <2>. QED  BY <1>1, <2>2
<1>3. PICK j \in Nat : k = j + 1
  <2>1. k - 1 \in Nat /\ k = (k - 1) + 1
    BY <1>1, <1>2
  <2>. QED  BY <2>1
<1>4. PICK acc : Weighs(acc, bits, j)
  <2>1. j \notin Bad
    BY <1>1, <1>3
  <2>. QED  BY <2>1
<1> DEFINE u == [i \in 0 .. k |-> IF i = k THEN acc[j] + bits[k] * 2 ^ j ELSE acc[i]]
           e(i) == IF i = 0 THEN 0 ELSE acc[i - 1] + bits[i] * 2 ^ (i - 1)
           h(i) == IF i = 0 THEN 0 ELSE u[i - 1] + bits[i] * 2 ^ (i - 1)
<1>5. \A i \in 0 .. j : acc[i] = e(i)
  <2>1. acc = [i \in 0 .. j |-> e(i)]
    BY <1>4 DEF Weighs
  <2> HIDE DEF e
  <2>. QED  BY <2>1
<1>6. \A i \in 0 .. j : u[i] = acc[i]
  BY <1>3
<1>7. \A i \in 0 .. k : u[i] = h(i)
  <2> TAKE i \in 0 .. k
  <2>1. CASE i = k
    <3>1. k - 1 = j /\ k # 0 /\ u[k] = acc[j] + bits[k] * 2 ^ j /\ u[j] = acc[j]
      BY <1>3, <1>6
    <3> HIDE DEF u
    <3>. QED  BY <2>1, <3>1
  <2>2. CASE i = 0
    <3>1. 0 \in 0 .. j
      OBVIOUS
    <3>2. u[0] = acc[0] /\ acc[0] = 0
      BY <1>5, <1>6, <3>1
    <3> HIDE DEF u
    <3>. QED  BY <2>2, <3>2
  <2>3. CASE i # 0 /\ i # k
    <3>1. i - 1 \in 0 .. j /\ i \in 0 .. j
      BY <1>3, <2>3
    <3>2. u[i] = acc[i] /\ u[i - 1] = acc[i - 1]
      BY <1>6, <3>1
    <3> HIDE DEF u
    <3>. QED  BY <1>5, <2>3, <3>1, <3>2
  <2>. QED  BY <2>1, <2>2, <2>3
<1>8. u = [i \in 0 .. k |-> h(i)]
  <2>1. u = [i \in 0 .. k |-> u[i]]
    OBVIOUS
  <2> HIDE DEF u, h
  <2>. QED  BY <1>7, <2>1
<1>9. Weighs(u, bits, k)
  <2> HIDE DEF u
  <2>. QED  BY <1>8 DEF Weighs
<1>. QED  BY <1>1, <1>9

\* The value of n bits, by its partial sums.
LEMMA ValueSums ==
    ASSUME NEW n \in Nat, NEW bits \in [1 .. n -> {0, 1}]
    PROVE  \E acc : /\ acc[0] = 0 /\ ValueOf(bits) = acc[n]
                    /\ \A i \in 0 .. n : acc[i] \in Nat /\ acc[i] < 2 ^ i
                    /\ \A i \in 1 .. n : acc[i] = acc[i - 1] + bits[i] * 2 ^ (i - 1)
<1> DEFINE acc == CHOOSE w : Weighs(w, bits, n)
           e(i) == IF i = 0 THEN 0 ELSE acc[i - 1] + bits[i] * 2 ^ (i - 1)
<1>1. Weighs(acc, bits, n)
  BY WeighsExists
<1>2. Len(bits) = n
  BY LenProperties, IsASeq
<1>3. ValueOf(bits) = acc[n]
  BY <1>2 DEF ValueOf, Weighs
<1> HIDE DEF acc
<1>4. \A i \in 0 .. n : acc[i] = e(i)
  <2>1. acc = [i \in 0 .. n |-> e(i)]
    BY <1>1 DEF Weighs
  <2> HIDE DEF e
  <2>. QED  BY <2>1
<1>5. \A i \in 0 .. n : acc[i] \in Nat /\ acc[i] < 2 ^ i
  <2> DEFINE T == {i \in 0 .. n : acc[i] \in Nat /\ acc[i] < 2 ^ i}
  <2>1. 0 \in T
    BY <1>4, 2 ^ 0 = 1
  <2>2. ASSUME NEW j \in 0 .. n - 1, j \in T PROVE j + 1 \in T
    <3>1. acc[j + 1] = acc[j] + bits[j + 1] * 2 ^ j /\ bits[j + 1] \in {0, 1}
      BY <1>4
    <3>2. 2 ^ j \in Nat /\ 2 ^ (j + 1) = 2 * 2 ^ j
      BY PowerStep
    <3>3. bits[j + 1] * 2 ^ j = 0 \/ bits[j + 1] * 2 ^ j = 2 ^ j
      BY <3>1, <3>2
    <3>. QED  BY <2>2, <3>1, <3>2, <3>3
  <2>3. \A i \in 0 .. n : i \in T
    <3> HIDE DEF T
    <3>. QED  BY <2>1, <2>2, Climb
  <2>. QED  BY <2>3
<1>6. acc[0] = 0 /\ \A i \in 1 .. n : acc[i] = acc[i - 1] + bits[i] * 2 ^ (i - 1)
  BY <1>4
<1>. QED  BY <1>3, <1>5, <1>6

LEMMA ValueBound ==
    ASSUME NEW n \in Nat, NEW bits \in [1 .. n -> {0, 1}]
    PROVE  ValueOf(bits) \in 0 .. 2 ^ n - 1
<1>1. PICK acc : ValueOf(bits) = acc[n] /\ acc[n] \in Nat /\ acc[n] < 2 ^ n
  BY ValueSums
<1>. QED  BY <1>1, PowerStep

LEMMA BitsType ==
    ASSUME NEW n \in Nat, NEW x \in Nat
    PROVE  Bits(x, n) \in [1 .. n -> {0, 1}] /\ Bits(x, n) \in Seq({0, 1}) /\ Len(Bits(x, n)) = n
<1>1. \A i \in 1 .. n : (x \div 2 ^ (i - 1)) % 2 \in {0, 1}
  <2> TAKE i \in 1 .. n
  <2>1. 2 ^ (i - 1) \in Nat \ {0}
    BY PowerStep
  <2>2. PICK d \in Nat \ {0} : d = 2 ^ (i - 1)
    BY <2>1
  <2>3. x \div d \in Nat
    BY DivMod
  <2>4. PICK q \in Nat : q = x \div d
    BY <2>3
  <2>5. q % 2 \in 0 .. 2 - 1
    BY DivMod
  <2>. QED  BY <2>2, <2>4, <2>5
<1>2. Bits(x, n) \in [1 .. n -> {0, 1}]
  BY <1>1 DEF Bits
<1>. QED  BY <1>2, IsASeq, LenProperties

LEMMA HalfMod ==
    ASSUME NEW x \in Nat, NEW d \in Nat \ {0}
    PROVE  x % (2 * d) = (x % d) + ((x \div d) % 2) * d
<1> DEFINE q == x \div d
           r == x % d
           h == q \div 2
           c == q % 2
<1>1. q \in Nat /\ r \in 0 .. d - 1 /\ x = d * q + r
  BY DivMod
<1>2. h \in Nat /\ c \in 0 .. 2 - 1 /\ q = 2 * h + c
  <2> HIDE DEF q
  <2>. QED  BY <1>1, DivMod
<1> HIDE DEF q, r, h, c
<1>3. \A f \in Nat, g \in Nat, c1 \in 0 .. 1, r1 \in Nat :
            f * (2 * g + c1) + r1 = (2 * f) * g + (r1 + c1 * f)
  BY SMTT(30)
<1>4. x = (2 * d) * h + (r + c * d)
  <2>1. d * (2 * h + c) + r = (2 * d) * h + (r + c * d)
    BY <1>1, <1>2, <1>3
  <2>. QED  BY <1>1, <1>2, <2>1
<1>5. r + c * d \in 0 .. 2 * d - 1 /\ 2 * d \in Nat \ {0}
  <2>1. c * d = 0 \/ c * d = d
    BY <1>2
  <2>. QED  BY <1>1, <2>1
<1>6. ((2 * d) * h + (r + c * d)) % (2 * d) = r + c * d
  BY <1>2, <1>5, DivModUnique, Zenon
<1>. QED  BY <1>4, <1>6 DEF q, r, c

\* The low bits of a number are read back as that number.
LEMMA ValueOfBits ==
    ASSUME NEW n \in Nat, NEW x \in 0 .. 2 ^ n - 1
    PROVE  ValueOf(Bits(x, n)) = x
<1> DEFINE b == Bits(x, n)
<1>0. x \in Nat /\ x < 2 ^ n
  BY PowerStep
<1>1. b \in [1 .. n -> {0, 1}] /\ \A i \in 1 .. n : b[i] = (x \div 2 ^ (i - 1)) % 2
  BY <1>0, BitsType DEF Bits
<1> HIDE DEF b
<1>2. PICK acc : /\ acc[0] = 0 /\ ValueOf(b) = acc[n]
                 /\ \A i \in 0 .. n : acc[i] \in Nat /\ acc[i] < 2 ^ i
                 /\ \A i \in 1 .. n : acc[i] = acc[i - 1] + b[i] * 2 ^ (i - 1)
  BY <1>1, ValueSums
<1>3. \A i \in 0 .. n : acc[i] = x % 2 ^ i
  <2> DEFINE T == {i \in 0 .. n : acc[i] = x % 2 ^ i}
  <2>1. 0 \in T
    <3>1. x % 1 \in 0 .. 1 - 1
      BY <1>0, DivMod
    <3>2. x % 1 = 0
      BY <3>1
    <3>. QED  BY <1>2, <3>2, 2 ^ 0 = 1
  <2>2. ASSUME NEW j \in 0 .. n - 1, j \in T PROVE j + 1 \in T
    <3>1. acc[j] = x % 2 ^ j
      BY <2>2
    <3>2. PICK d \in Nat \ {0} : d = 2 ^ j /\ 2 ^ (j + 1) = 2 * d
      <4>1. 2 ^ j \in Nat /\ 2 ^ j >= 1 /\ 2 ^ (j + 1) = 2 * 2 ^ j
        BY PowerStep
      <4>. QED  BY <4>1
    <3>3. acc[j + 1] = x % (2 * d)
      <4>1. acc[j + 1] = (x % d) + ((x \div d) % 2) * d
        BY <1>1, <1>2, <3>1, <3>2
      <4>2. x % (2 * d) = (x % d) + ((x \div d) % 2) * d
        BY <1>0, HalfMod, Zenon
      <4>. QED  BY <4>1, <4>2
    <3>. QED  BY <3>2, <3>3
  <2>3. \A i \in 0 .. n : i \in T
    <3> HIDE DEF T
    <3>. QED  BY <2>1, <2>2, Climb
  <2>. QED  BY <2>3
<1>4. x % 2 ^ n = x
  <2>1. PICK d \in Nat \ {0} : d = 2 ^ n
    BY PowerStep
  <2>2. x \in 0 .. d - 1 /\ d * 0 + x = x
    BY <1>0, <2>1
  <2>3. (d * 0 + x) % d = x
    BY <2>2, DivModUnique
  <2>. QED  BY <2>1, <2>2, <2>3
<1>. QED  BY <1>2, <1>3, <1>4 DEF b

--------------------------------------------------------------------------------
(***************************************************************************)
(* The constants.                                                          *)
(***************************************************************************)
LEMMA ConstantFacts ==
    /\ BYTE \in Nat /\ BYTE >= 2 /\ Byte = 0 .. BYTE - 1 /\ Byte \subseteq Nat
    /\ BYTE = 2 ^ BYTE_BITS /\ BYTE_BITS \in Nat /\ SIZE_BITS \in Nat \ {0}
    /\ DLE_BYTE \in Byte /\ DLE_BYTE # 0 /\ 0 \in Byte
    /\ comp_factor \in Nat /\ v_len_bits \in Nat /\ v_len_bits + comp_factor = BYTE_BITS
    /\ MAX_FOLLOWERS \in Nat /\ MAX_FOLLOWERS < 2 ^ SIZE_BITS /\ MAX_FOLLOWERS <= BYTE
    /\ RAW_BYTES_SZ \in Nat \ {0} /\ CHUNK \in Nat \ {0}
<1>1. comp_factor \in Nat /\ v_len_bits \in Nat /\ v_len_bits + comp_factor = BYTE_BITS /\ BYTE_BITS \in Nat
  BY ReduceAssumption DEF v_len_bits
<1>2. BYTE \in Nat /\ 2 ^ SIZE_BITS \in Nat
  BY ReduceAssumption, PowerStep DEF BYTE
<1>3. BYTE >= 2
  <2>1. BYTE_BITS - 1 \in Nat /\ (BYTE_BITS - 1) + 1 = BYTE_BITS
    BY ReduceAssumption
  <2>2. BYTE = 2 * 2 ^ (BYTE_BITS - 1) /\ 2 ^ (BYTE_BITS - 1) \in Nat /\ 2 ^ (BYTE_BITS - 1) >= 1
    BY <2>1, PowerStep DEF BYTE
  <2>. QED  BY <2>2
<1>. QED  BY <1>1, <1>2, <1>3, ReduceAssumption DEF Byte, BYTE

\* The parts of the byte V: the length below, the distance above.
LEMMA VFacts ==
    /\ 2 ^ v_len_bits \in Nat /\ 2 ^ v_len_bits >= 2 /\ V_LEN_MAX = 2 ^ v_len_bits - 1
    /\ 2 ^ comp_factor \in Nat /\ BYTE = 2 ^ v_len_bits * 2 ^ comp_factor
    /\ max_len \in Nat /\ max_len = V_LEN_MAX + BYTE + 2
    /\ max_dist \in Nat /\ max_dist = 2 ^ comp_factor * BYTE
<1>1. comp_factor \in Nat /\ v_len_bits \in Nat /\ v_len_bits # 0 /\ v_len_bits + comp_factor = BYTE_BITS
      /\ BYTE \in Nat
  BY ReduceAssumption, ConstantFacts DEF v_len_bits
<1>2. 2 ^ v_len_bits \in Nat /\ 2 ^ v_len_bits >= 2
  <2>1. v_len_bits - 1 \in Nat /\ (v_len_bits - 1) + 1 = v_len_bits
    BY <1>1
  <2>2. 2 ^ v_len_bits = 2 * 2 ^ (v_len_bits - 1) /\ 2 ^ (v_len_bits - 1) \in Nat /\ 2 ^ (v_len_bits - 1) >= 1
    BY <2>1, PowerStep
  <2>. QED  BY <2>2
<1>3. 2 ^ comp_factor \in Nat /\ 2 ^ comp_factor >= 1
  BY <1>1, PowerStep
<1>4. BYTE = 2 ^ v_len_bits * 2 ^ comp_factor
  BY <1>1, PowerSum DEF BYTE
<1>5. max_dist = 2 ^ comp_factor * BYTE
  <2>1. \A a \in Nat, b \in Nat : (a - 1) * b + (b - 1) + 1 = a * b
    BY SMTT(30)
  <2>. QED  BY <1>1, <1>3, <2>1 DEF max_dist
<1>6. 2 ^ comp_factor * BYTE \in Nat
  BY <1>1, <1>3, TimesNat
<1>. QED  BY <1>1, <1>2, <1>3, <1>4, <1>5, <1>6 DEF V_LEN_MAX, max_len

\* An index into a follower set fits its bits.
LEMMA IndexWidth ==
    ASSUME NEW n \in 0 .. MAX_FOLLOWERS
    PROVE  /\ follower_idx_bw(n) \in Nat
           /\ n <= 2 ^ follower_idx_bw(n)
<1>1. CASE n = 0
  BY <1>1, 2 ^ 0 = 1 DEF follower_idx_bw
<1>2. CASE n # 0
  <2> DEFINE S == {b \in 1 .. SIZE_BITS : 2 ^ b >= n}
             bw == CHOOSE b \in 1 .. SIZE_BITS : 2 ^ b >= n /\ \A c \in 1 .. b - 1 : 2 ^ c < n
  <2>1. SIZE_BITS \in S /\ S \subseteq Nat
    BY ConstantFacts, PowerStep
  <2>2. PICK b \in S : \A c \in S : b <= c
    <3> HIDE DEF S
    <3>. QED  BY <2>1, LeastElement
  <2>3. \A c \in 1 .. b - 1 : 2 ^ c < n
    <3> TAKE c \in 1 .. b - 1
    <3>1. c \notin S
      <4> SUFFICES ASSUME c \in S PROVE FALSE
        OBVIOUS
      <4>1. b <= c
        <5> HIDE DEF S
        <5>. QED  BY <2>2
      <4>. QED  BY <2>2, <4>1
    <3>2. c \in 1 .. SIZE_BITS /\ 2 ^ c \in Nat
      BY <2>2, ConstantFacts, PowerStep
    <3>. QED  BY <3>1, <3>2
  <2>4. bw \in 1 .. SIZE_BITS /\ 2 ^ bw >= n
    BY <2>2, <2>3
  <2>5. follower_idx_bw(n) = bw
    BY <1>2 DEF follower_idx_bw
  <2> HIDE DEF bw
  <2>. QED  BY <2>4, <2>5
<1>. QED  BY <1>1, <1>2

--------------------------------------------------------------------------------
(***************************************************************************)
(* Follower sets.                                                          *)
(***************************************************************************)
LEMMA CountFacts ==
    ASSUME NEW bytes, Len(bytes) \in Nat, NEW p
    PROVE  follower_count(bytes, p) \in [Byte -> Nat]
<1> DEFINE S(c) == {i \in {j \in 1 .. Len(bytes) : p = IF j = 1 THEN 0 ELSE bytes[j - 1]} : bytes[i] = c}
<1>1. \A c \in Byte : S(c) \in SUBSET (1 .. Len(bytes))
  OBVIOUS
<1>2. IsFiniteSet(1 .. Len(bytes))
  BY FS_Interval
<1>3. \A c \in Byte : IsFiniteSet(S(c))
  <2> HIDE DEF S
  <2>. QED  BY <1>1, <1>2, FS_Subset
<1>4. \A c \in Byte : Cardinality(S(c)) \in Nat
  <2> HIDE DEF S
  <2>. QED  BY <1>3, FS_CardinalityType
<1>5. follower_count(bytes, p) = [c \in Byte |-> Cardinality(S(c))]
  BY DEF follower_count
<1> HIDE DEF S
<1>. QED  BY <1>4, <1>5

\* No two bytes have one place.
LEMMA PlacesDiffer ==
    ASSUME NEW counts \in [Byte -> Nat]
    PROVE  /\ \A c \in Byte : Place(counts, c) \in 0 .. BYTE - 1
           /\ \A c \in Byte, d \in Byte : Place(counts, c) = Place(counts, d) => c = d
<1> DEFINE Above(c) == {d \in Byte : counts[d] > counts[c] \/ (counts[d] = counts[c] /\ d < c)}
<1>1. IsFiniteSet(Byte) /\ Cardinality(Byte) = BYTE
  BY FS_Interval, ConstantFacts
<1>2. ASSUME NEW c \in Byte
      PROVE  IsFiniteSet(Above(c)) /\ Place(counts, c) = Cardinality(Above(c)) /\ Place(counts, c) \in 0 .. BYTE - 1
  <2>1. Above(c) \in SUBSET Byte /\ c \in Byte /\ c \notin Above(c)
    BY ConstantFacts
  <2>2. Place(counts, c) = Cardinality(Above(c))
    BY DEF Place
  <2> HIDE DEF Above
  <2>3. IsFiniteSet(Above(c)) /\ Cardinality(Above(c)) <= BYTE /\ Cardinality(Above(c)) # BYTE
    BY <1>1, <2>1, FS_Subset
  <2>. QED  BY <2>2, <2>3, FS_CardinalityType, ConstantFacts
<1>3. ASSUME NEW c \in Byte, NEW d \in Byte, d \in Above(c) PROVE Place(counts, d) < Place(counts, c)
  <2>1. Above(d) \in SUBSET Above(c)
    BY <1>3, ConstantFacts
  <2>2. d \notin Above(d)
    BY ConstantFacts
  <2> HIDE DEF Above
  <2>3. Cardinality(Above(d)) <= Cardinality(Above(c)) /\ Cardinality(Above(d)) # Cardinality(Above(c))
    BY <1>2, <1>3, <2>1, <2>2, FS_Subset
  <2>. QED  BY <1>2, <2>3
<1>4. ASSUME NEW c \in Byte, NEW d \in Byte, c # d PROVE c \in Above(d) \/ d \in Above(c)
  BY <1>4, ConstantFacts
<1>5. ASSUME NEW c \in Byte, NEW d \in Byte, Place(counts, c) = Place(counts, d) PROVE c = d
  <2>1. Place(counts, c) \in Int
    <3> HIDE DEF Above
    <3>. QED  BY <1>2
  <2> HIDE DEF Above
  <2>. QED  BY <1>3, <1>4, <1>5, <2>1
<1> HIDE DEF Above
<1>. QED  BY <1>2, <1>5

\* There is a byte at each place.
LEMMA PlaceFacts ==
    ASSUME NEW counts \in [Byte -> Nat], NEW k \in 0 .. BYTE - 1
    PROVE  \E c \in Byte : Place(counts, c) = k
<1> DEFINE f == [c \in Byte |-> Place(counts, c)]
<1>1. IsFiniteSet(Byte)
  BY FS_Interval, ConstantFacts
<1>2. f \in Injection(Byte, Byte)
  <2>1. f \in [Byte -> Byte]
    BY PlacesDiffer, ConstantFacts
  <2>2. ASSUME NEW c \in Byte, NEW d \in Byte, f[c] = f[d] PROVE c = d
    BY <2>2, PlacesDiffer
  <2> HIDE DEF f
  <2>. QED  BY <2>1, <2>2, Zenon DEF Injection, IsInjective
<1> HIDE DEF f
<1>3. f \in Surjection(Byte, Byte)
  BY <1>1, <1>2, FS_Injection
<1>4. PICK c \in Byte : f[c] = k
  BY <1>3, ConstantFacts DEF Surjection
<1>. QED  BY <1>4 DEF f

--------------------------------------------------------------------------------
(***************************************************************************)
(* Sums over byte values.  The community modules add up the elements of a  *)
(* set in an order that is not known; here they are added in their order.  *)
(***************************************************************************)
\* M[k] is the sum of the first k elements of a.
Sums(M, a, n) == M \in [0 .. n -> Nat] /\ M[0] = 0 /\ \A k \in 1 .. n : M[k] = M[k - 1] + a[k]

SumOf(a, n) == (CHOOSE M : Sums(M, a, n))[n]

LEMMA SumsExist ==
    ASSUME NEW n \in Nat, NEW a \in [1 .. n -> Nat]
    PROVE  \E M : Sums(M, a, n)
<1> DEFINE T == {k \in 0 .. n : \E M : Sums(M, a, k)}
<1>1. 0 \in T
  <2> DEFINE z == [k \in 0 .. 0 |-> 0]
  <2>1. z \in [0 .. 0 -> Nat] /\ z[0] = 0
    OBVIOUS
  <2> HIDE DEF z
  <2>2. Sums(z, a, 0)
    BY <2>1 DEF Sums
  <2>. QED  BY <2>2
<1>2. ASSUME NEW j \in 0 .. n - 1, j \in T PROVE j + 1 \in T
  <2>1. PICK M : Sums(M, a, j)
    BY <1>2
  <2>2. M \in [0 .. j -> Nat] /\ M[0] = 0 /\ (\A k \in 1 .. j : M[k] = M[k - 1] + a[k]) /\ a[j + 1] \in Nat
    BY <2>1 DEF Sums
  <2> DEFINE K == [k \in 0 .. j + 1 |-> IF k = j + 1 THEN M[j] + a[j + 1] ELSE M[k]]
  <2>3. K \in [0 .. j + 1 -> Nat] /\ K[0] = 0 /\ K[j + 1] = M[j] + a[j + 1] /\ \A k \in 0 .. j : K[k] = M[k]
    BY <2>2
  <2> HIDE DEF K
  <2>4. ASSUME NEW k \in 1 .. j + 1 PROVE K[k] = K[k - 1] + a[k]
    <3>1. CASE k = j + 1
      <4>1. k - 1 = j /\ j \in 0 .. j
        BY <3>1
      <4>. QED  BY <2>3, <3>1, <4>1
    <3>2. CASE k # j + 1
      <4>1. k \in 1 .. j /\ k \in 0 .. j /\ k - 1 \in 0 .. j
        BY <3>2
      <4>. QED  BY <2>2, <2>3, <4>1
    <3>. QED  BY <3>1, <3>2
  <2>5. Sums(K, a, j + 1)
    BY <2>3, <2>4 DEF Sums
  <2>. QED  BY <2>5
<1>3. n \in T
  <2> HIDE DEF T
  <2>1. \A i \in 0 .. n : i \in T
    BY <1>1, <1>2, Climb
  <2>. QED  BY <2>1
<1>. QED  BY <1>3

\* Sums of which one element differs.
LEMMA SumOneMore ==
    ASSUME NEW n \in Nat, NEW a \in [1 .. n -> Nat], NEW b \in [1 .. n -> Nat], NEW x \in 1 .. n, NEW d \in Nat,
           b[x] = a[x] + d, \A k \in 1 .. n : k # x => b[k] = a[k]
    PROVE  SumOf(b, n) = SumOf(a, n) + d
<1>1. PICK A : Sums(A, a, n) /\ SumOf(a, n) = A[n]
  BY SumsExist DEF SumOf
<1>2. PICK B : Sums(B, b, n) /\ SumOf(b, n) = B[n]
  BY SumsExist DEF SumOf
<1> DEFINE T == {k \in 0 .. n : B[k] = A[k] + IF x <= k THEN d ELSE 0}
<1>3. 0 \in T
  BY <1>1, <1>2 DEF Sums
<1>4. ASSUME NEW j \in 0 .. n - 1, j \in T PROVE j + 1 \in T
  <2>1. PICK u \in Nat, z \in Nat, p \in Nat, q \in Nat :
            /\ u = A[j] /\ z = B[j] /\ p = a[j + 1] /\ q = b[j + 1]
            /\ A[j + 1] = u + p /\ B[j + 1] = z + q
    <3>1. j + 1 \in 1 .. n /\ (j + 1) - 1 = j /\ j \in 0 .. n
      OBVIOUS
    <3>2. A[j] \in Nat /\ B[j] \in Nat /\ a[j + 1] \in Nat /\ b[j + 1] \in Nat
      BY <1>1, <1>2, <3>1 DEF Sums
    <3>3. A[j + 1] = A[(j + 1) - 1] + a[j + 1] /\ B[j + 1] = B[(j + 1) - 1] + b[j + 1]
      BY <1>1, <1>2, <3>1 DEF Sums
    <3>. QED  BY <3>1, <3>2, <3>3
  <2>2. z = u + IF x <= j THEN d ELSE 0
    BY <1>4, <2>1
  <2>3. q = p + IF j + 1 = x THEN d ELSE 0
    BY <2>1, SMTT(30)
  <2>4. z + q = u + p + IF x <= j + 1 THEN d ELSE 0
    BY <2>2, <2>3
  <2>. QED  BY <2>1, <2>4
<1>5. n \in T
  <2> HIDE DEF T
  <2>1. \A i \in 0 .. n : i \in T
    BY <1>3, <1>4, Climb
  <2>. QED  BY <2>1
<1>. QED  BY <1>1, <1>2, <1>5

LEMMA SumType ==
    ASSUME NEW n \in Nat, NEW a \in [1 .. n -> Nat]
    PROVE  SumOf(a, n) \in Nat
<1>1. PICK A : Sums(A, a, n) /\ SumOf(a, n) = A[n]
  BY SumsExist DEF SumOf
<1>. QED  BY <1>1 DEF Sums

LEMMA SumZero ==
    ASSUME NEW n \in Nat, NEW a, \A k \in 1 .. n : a[k] = 0
    PROVE  SumOf(a, n) = 0
<1> DEFINE z == [k \in 1 .. n |-> 0]
           M == [k \in 0 .. n |-> 0]
<1>1. Sums(M, a, n)
  <2>1. M \in [0 .. n -> Nat] /\ \A k \in 0 .. n : M[k] = 0
    OBVIOUS
  <2> HIDE DEF M
  <2>2. \A k \in 1 .. n : k - 1 \in 0 .. n /\ k \in 0 .. n
    OBVIOUS
  <2>. QED  BY <2>1, <2>2 DEF Sums
<1>2. PICK A : Sums(A, a, n) /\ SumOf(a, n) = A[n]
  BY <1>1 DEF SumOf
<1>6. A[0] = 0 /\ \A k \in 1 .. n : A[k] = A[k - 1] + 0
  BY <1>2 DEF Sums
<1> DEFINE T == {k \in 0 .. n : A[k] = 0}
<1>3. 0 \in T
  BY <1>6
<1>4. ASSUME NEW j \in 0 .. n - 1, j \in T PROVE j + 1 \in T
  <2>1. A[j + 1] = A[(j + 1) - 1] + 0 /\ (j + 1) - 1 = j /\ A[j] = 0
    BY <1>4, <1>6
  <2>2. A[j + 1] = 0
    BY <2>1
  <2>. QED  BY <2>2
<1>5. n \in T
  <2> HIDE DEF T
  <2>1. \A i \in 0 .. n : i \in T
    BY <1>3, <1>4, Climb
  <2>. QED  BY <2>1
<1>. QED  BY <1>2, <1>5

\* The sum of w over the bytes of C.
Weights(w, C) == [k \in 1 .. BYTE |-> IF k - 1 \in C THEN w[k - 1] ELSE 0]
Total(w, C) == SumOf(Weights(w, C), BYTE)

LEMMA TotalFacts ==
    ASSUME NEW C \in SUBSET Byte, NEW w \in [Byte -> Nat]
    PROVE  /\ Weights(w, C) \in [1 .. BYTE -> Nat]
           /\ Total(w, C) \in Nat
           /\ Total(w, {}) = 0
           /\ \A x \in C : Total(w, C) = w[x] + Total(w, C \ {x})
<1>1. \A D \in SUBSET Byte : Weights(w, D) \in [1 .. BYTE -> Nat]
  <2>1. \A k \in 1 .. BYTE : k - 1 \in Byte
    BY ConstantFacts
  <2>. QED  BY <2>1 DEF Weights
<1>2. Total(w, C) \in Nat /\ \A D \in SUBSET Byte : Total(w, D) \in Nat
  BY <1>1, SumType, ConstantFacts DEF Total
<1>3. Total(w, {}) = 0
  <2>1. \A k \in 1 .. BYTE : Weights(w, {})[k] = 0
    BY DEF Weights
  <2>. QED  BY <2>1, SumZero, ConstantFacts DEF Total
<1>4. ASSUME NEW x \in C PROVE Total(w, C) = w[x] + Total(w, C \ {x})
  <2> DEFINE D == C \ {x}
             a == Weights(w, D)
             b == Weights(w, C)
  <2>1. a \in [1 .. BYTE -> Nat] /\ b \in [1 .. BYTE -> Nat] /\ Total(w, D) \in Nat /\ w[x] \in Nat
    BY <1>1, <1>2
  <2>2. x + 1 \in 1 .. BYTE /\ (x + 1) - 1 = x
    BY ConstantFacts
  <2>3. a[x + 1] = 0 /\ b[x + 1] = w[x]
    BY <2>2 DEF Weights
  <2>4. \A k \in 1 .. BYTE : k # x + 1 => b[k] = a[k]
    BY ConstantFacts DEF Weights
  <2> HIDE DEF a, b, D
  <2>5. b[x + 1] = a[x + 1] + w[x]
    BY <2>1, <2>3
  <2>6. SumOf(b, BYTE) = SumOf(a, BYTE) + w[x]
    <3>1. PICK d \in Nat : d = w[x]
      BY <2>1
    <3>2. PICK m \in 1 .. BYTE : m = x + 1
      BY <2>2
    <3>3. b[m] = a[m] + d /\ \A k \in 1 .. BYTE : k # m => b[k] = a[k]
      BY <2>4, <2>5, <3>1, <3>2
    <3>4. SumOf(b, BYTE) = SumOf(a, BYTE) + d
      <4>1. BYTE \in Nat
        BY ConstantFacts
      <4>. QED  BY <2>1, <3>3, <4>1, SumOneMore, Zenon
    <3>. QED  BY <3>1, <3>4
  <2>7. Total(w, C) = SumOf(b, BYTE) /\ Total(w, D) = SumOf(a, BYTE)
    BY DEF Total, a, b
  <2>. QED  BY <2>1, <2>6, <2>7 DEF D
<1>. QED  BY <1>1, <1>2, <1>3, <1>4

\* g adds up w over the bytes of a set, one after the other, in any order.
AddsUp(g, w, C) ==
    /\ g[{}] = 0
    /\ \A s \in SUBSET C : s # {} => \E x \in s : g[s] = w[x] + g[s \ {x}]

LEMMA AnyOrder ==
    ASSUME NEW C \in SUBSET Byte, NEW w \in [Byte -> Nat], NEW g, AddsUp(g, w, C)
    PROVE  g[C] = Total(w, C)
<1> DEFINE T == {n \in 0 .. BYTE : \A s \in SUBSET C : Cardinality(s) = n => g[s] = Total(w, s)}
<1>1. \A s \in SUBSET C : IsFiniteSet(s) /\ Cardinality(s) \in 0 .. BYTE
  <2>1. IsFiniteSet(Byte) /\ Cardinality(Byte) = BYTE
    BY FS_Interval, ConstantFacts
  <2>2. \A s \in SUBSET C : IsFiniteSet(s) /\ Cardinality(s) <= BYTE
    BY <2>1, FS_Subset
  <2>. QED  BY <2>2, FS_CardinalityType, ConstantFacts
<1>2. 0 \in T
  <2>1. \A s \in SUBSET C : Cardinality(s) = 0 => s = {}
    BY <1>1, FS_EmptySet
  <2>2. g[{}] = 0 /\ Total(w, {}) = 0 /\ 0 \in 0 .. BYTE
    <3>1. Total(w, {}) = 0
      BY TotalFacts, Zenon
    <3>. QED  BY <3>1, ConstantFacts DEF AddsUp
  <2>. QED  BY <2>1, <2>2
<1>3. ASSUME NEW j \in 0 .. BYTE - 1, j \in T PROVE j + 1 \in T
  <2> SUFFICES ASSUME NEW s \in SUBSET C, Cardinality(s) = j + 1 PROVE g[s] = Total(w, s)
    BY ConstantFacts
  <2>1. s # {}
    BY FS_EmptySet
  <2>2. PICK x \in s : g[s] = w[x] + g[s \ {x}]
    BY <2>1 DEF AddsUp
  <2>3. s \ {x} \in SUBSET C /\ Cardinality(s \ {x}) = j
    BY <1>1, FS_RemoveElement
  <2>4. g[s \ {x}] = Total(w, s \ {x})
    BY <1>3, <2>3
  <2>5. Total(w, s) = w[x] + Total(w, s \ {x})
    BY TotalFacts
  <2>. QED  BY <2>2, <2>4, <2>5
<1>4. Cardinality(C) \in T
  <2> HIDE DEF T
  <2>. QED  BY <1>1, <1>2, <1>3, Climb, ConstantFacts
<1>. QED  BY <1>4

Folded(g, w, C) ==
    g = [s \in SUBSET C |-> IF s = {} THEN 0 ELSE w[CHOOSE x \in s : TRUE] + g[s \ {CHOOSE x \in s : TRUE}]]

\* The sum of the community modules over a function of the bytes.
LEMMA FoldedExists ==
    ASSUME NEW C \in SUBSET Byte, NEW w \in [Byte -> Nat]
    PROVE  /\ \E g : Folded(g, w, C)
           /\ \A g : Folded(g, w, C) => g[C] = Total(w, C)
<1> DEFINE g == [s \in SUBSET C |-> Total(w, s)]
           any(s) == CHOOSE x \in s : TRUE
<1>1. Folded(g, w, C)
  <2>1. ASSUME NEW s \in SUBSET C, s # {} PROVE g[s] = w[any(s)] + g[s \ {any(s)}]
    <3>. PICK x \in s : x = any(s)
      BY <2>1
    <3>1. Total(w, s) = w[x] + Total(w, s \ {x})
      BY TotalFacts
    <3>. QED  BY <3>1
  <2>2. {} \in SUBSET C /\ g[{}] = 0
    BY TotalFacts
  <2>3. g = [s \in SUBSET C |-> g[s]]
    OBVIOUS
  <2> HIDE DEF g
  <2>. QED  BY <2>1, <2>2, <2>3 DEF Folded
<1>2. ASSUME NEW h, Folded(h, w, C) PROVE h[C] = Total(w, C)
  <2>1. h[{}] = 0
    BY <1>2 DEF Folded
  <2>2. ASSUME NEW s \in SUBSET C, s # {} PROVE \E x \in s : h[s] = w[x] + h[s \ {x}]
    <3>1. any(s) \in s
      BY <2>2
    <3>2. h[s] = w[any(s)] + h[s \ {any(s)}]
      BY <1>2, <2>2 DEF Folded
    <3>. QED  BY <3>1, <3>2
  <2>3. AddsUp(h, w, C)
    BY <2>1, <2>2 DEF AddsUp
  <2>. QED  BY <2>3, AnyOrder
<1>. QED  BY <1>1, <1>2

LEMMA CountsAddUp ==
    ASSUME NEW C \in SUBSET Byte, NEW counts \in [Byte -> Nat]
    PROVE  MapThenSumSet(LAMBDA c : counts[c], C) = Total(counts, C)
<1>1. \E g : Folded(g, counts, C)
  BY FoldedExists
<1>2. PICK g : Folded(g, counts, C) /\ MapThenSumSet(LAMBDA c : counts[c], C) = g[C]
  BY <1>1 DEF MapThenSumSet, MapThenFoldSet, Folded
<1>. QED  BY <1>2, FoldedExists

LEMMA CostType ==
    ASSUME NEW counts \in [Byte -> Nat], NEW n \in 0 .. MAX_FOLLOWERS
    PROVE  followers_cost(counts, n) \in Nat
<1> DEFINE In == {c \in Followers(counts) : Place(counts, c) < n}
           Out == Followers(counts) \ In
           w == IF n = 0 THEN BYTE_BITS ELSE 1 + BYTE_BITS
           i == 1 + follower_idx_bw(n)
<1>1. In \in SUBSET Byte /\ Out \in SUBSET Byte
  BY DEF Followers
<1> HIDE DEF In
<1>2. /\ MapThenSumSet(LAMBDA c : counts[c], In) = Total(counts, In) /\ Total(counts, In) \in Nat
      /\ MapThenSumSet(LAMBDA c : counts[c], Out) = Total(counts, Out) /\ Total(counts, Out) \in Nat
  <2> HIDE DEF Out
  <2>. QED  BY <1>1, CountsAddUp, TotalFacts
<1>3. followers_cost(counts, n) = n * BYTE_BITS + Total(counts, In) * i + Total(counts, Out) * w
  BY <1>2 DEF followers_cost, In
<1>4. w \in Nat /\ i \in Nat /\ n \in Nat /\ BYTE_BITS \in Nat
  BY ConstantFacts, IndexWidth
<1> HIDE DEF w, i, Out
<1>5. n * BYTE_BITS \in Nat /\ Total(counts, In) * i \in Nat /\ Total(counts, Out) * w \in Nat
  BY <1>2, <1>4, TimesNat
<1>. QED  BY <1>3, <1>5

LEMMA BestSizeFacts ==
    ASSUME NEW counts \in [Byte -> Nat] PROVE BestSize(counts) \in 0 .. MAX_FOLLOWERS
<1> DEFINE cost == [n \in 0 .. MAX_FOLLOWERS |-> followers_cost(counts, n)]
           Values == {cost[n] : n \in 0 .. MAX_FOLLOWERS}
<1>1. cost \in [0 .. MAX_FOLLOWERS -> Nat]
  BY CostType
<1>2. BestSize(counts) = CHOOSE n \in 0 .. MAX_FOLLOWERS : \A m \in 0 .. MAX_FOLLOWERS :
            cost[n] < cost[m] \/ (cost[n] = cost[m] /\ n <= m)
  BY DEF BestSize
<1> HIDE DEF cost
<1>3. PICK low \in Values : \A u \in Values : low <= u
  <2>1. 0 \in 0 .. MAX_FOLLOWERS
    BY ConstantFacts
  <2>2. Values \subseteq Nat /\ cost[0] \in Values
    BY <1>1, <2>1
  <2> HIDE DEF Values
  <2>. QED  BY <2>2, LeastElement
<1> DEFINE Sizes == {n \in 0 .. MAX_FOLLOWERS : cost[n] = low}
<1>4. PICK n \in Sizes : \A m \in Sizes : n <= m
  <2>1. Sizes \subseteq Nat /\ Sizes # {}
    OBVIOUS
  <2> HIDE DEF Sizes
  <2>. QED  BY <2>1, LeastElement
<1>5. \A m \in 0 .. MAX_FOLLOWERS : cost[n] < cost[m] \/ (cost[n] = cost[m] /\ n <= m)
  <2> TAKE m \in 0 .. MAX_FOLLOWERS
  <2>1. cost[m] \in Values /\ cost[n] = low /\ cost[m] \in Nat /\ low \in Nat
    BY <1>1
  <2>2. low <= cost[m]
    <3> HIDE DEF Values
    <3>. QED  BY <1>3, <2>1
  <2>3. cost[m] = low => n <= m
    <3> SUFFICES ASSUME cost[m] = low PROVE n <= m
      OBVIOUS
    <3>1. m \in Sizes
      OBVIOUS
    <3> HIDE DEF Sizes
    <3>. QED  BY <1>4, <3>1
  <2>. QED  BY <2>1, <2>2, <2>3
<1>. QED  BY <1>2, <1>5

\* The likeliest followers, as many as pay off.
LEMMA FollowerSetFacts ==
    ASSUME NEW counts \in [Byte -> Nat]
    PROVE  /\ FollowerSet(counts) \in Seq(Byte)
           /\ Len(FollowerSet(counts)) <= MAX_FOLLOWERS
           /\ \A k \in 1 .. Len(FollowerSet(counts)) : Place(counts, FollowerSet(counts)[k]) = k - 1
<1>1. CASE Followers(counts) = {}
  <2>1. FollowerSet(counts) = <<>>
    BY <1>1 DEF FollowerSet
  <2>. QED  BY <2>1, ConstantFacts
<1>2. CASE Followers(counts) # {}
  <2> DEFINE n == BestSize(counts)
             e(k) == CHOOSE c \in Byte : Place(counts, c) = k - 1
  <2>1. n \in 0 .. MAX_FOLLOWERS /\ n <= BYTE /\ n \in Nat
    BY BestSizeFacts, ConstantFacts
  <2>2. FollowerSet(counts) = [k \in 1 .. n |-> e(k)]
    BY <1>2 DEF FollowerSet
  <2>3. \A k \in 1 .. n : e(k) \in Byte /\ Place(counts, e(k)) = k - 1
    <3> TAKE k \in 1 .. n
    <3>1. k - 1 \in 0 .. BYTE - 1
      BY <2>1, ConstantFacts
    <3>2. \E c \in Byte : Place(counts, c) = k - 1
      BY <3>1, PlaceFacts
    <3>. QED  BY <3>2
  <2> HIDE DEF n, e
  <2>4. FollowerSet(counts) \in Seq(Byte) /\ Len(FollowerSet(counts)) = n
    BY <2>1, <2>2, <2>3
  <2>. QED  BY <2>1, <2>2, <2>3, <2>4
<1>. QED  BY <1>1, <1>2

--------------------------------------------------------------------------------
(***************************************************************************)
(* Pieces of streams.                                                      *)
(***************************************************************************)
\* c stands in s after at.
At(s, at, c) == at + Len(c) <= Len(s) /\ \A j \in 1 .. Len(c) : s[at + j] = c[j]

LEMMA AtConcat ==
    ASSUME NEW S, NEW s \in Seq(S), NEW at \in Nat, NEW a \in Seq(S), NEW b \in Seq(S)
    PROVE  At(s, at, a \o b) <=> At(s, at, a) /\ At(s, at + Len(a), b)
<1> DEFINE c == a \o b
<1>0. Len(s) \in Nat /\ Len(a) \in Nat /\ Len(b) \in Nat
  BY LenProperties
<1>1. /\ Len(c) = Len(a) + Len(b)
      /\ \A k \in 1 .. Len(a) + Len(b) : c[k] = IF k <= Len(a) THEN a[k] ELSE b[k - Len(a)]
  BY ConcatProperties
<1> HIDE DEF c
<1>2. ASSUME At(s, at, c) PROVE At(s, at, a) /\ At(s, at + Len(a), b)
  <2>1. ASSUME NEW k \in 1 .. Len(b) PROVE s[at + Len(a) + k] = b[k]
    <3>1. Len(a) + k \in 1 .. Len(c) /\ at + (Len(a) + k) = at + Len(a) + k /\ ~(Len(a) + k <= Len(a))
          /\ (Len(a) + k) - Len(a) = k
      BY <1>0, <1>1
    <3>. QED  BY <1>1, <1>2, <3>1 DEF At
  <2>2. ASSUME NEW k \in 1 .. Len(a) PROVE s[at + k] = a[k]
    <3>1. k \in 1 .. Len(c)
      BY <1>0, <1>1
    <3>. QED  BY <1>1, <1>2, <3>1 DEF At
  <2>. QED  BY <1>0, <1>1, <1>2, <2>1, <2>2 DEF At
<1>3. ASSUME At(s, at, a), At(s, at + Len(a), b) PROVE At(s, at, c)
  <2>1. ASSUME NEW k \in 1 .. Len(c) PROVE s[at + k] = c[k]
    <3>1. CASE k <= Len(a)
      <4>1. k \in 1 .. Len(a)
        BY <3>1
      <4>. QED  BY <1>0, <1>1, <1>3, <3>1, <4>1 DEF At
    <3>2. CASE ~(k <= Len(a))
      <4>1. k - Len(a) \in 1 .. Len(b) /\ at + k = at + Len(a) + (k - Len(a))
        BY <1>0, <1>1, <3>2
      <4>. QED  BY <1>0, <1>1, <1>3, <3>2, <4>1 DEF At
    <3>. QED  BY <3>1, <3>2
  <2>. QED  BY <1>0, <1>1, <1>3, <2>1 DEF At
<1>. QED  BY <1>2, <1>3 DEF c

\* What stands in a stream stays there when more is written.
LEMMA AtMore ==
    ASSUME NEW S, NEW s \in Seq(S), NEW t \in Seq(S), NEW at \in Nat, NEW c, Len(c) \in Nat
    PROVE  /\ At(s, at, c) => At(s \o t, at, c)
           /\ At(s \o t, Len(s), t)
<1>1. /\ Len(s \o t) = Len(s) + Len(t) /\ Len(s) \in Nat /\ Len(t) \in Nat
      /\ \A k \in 1 .. Len(s) + Len(t) : (s \o t)[k] = IF k <= Len(s) THEN s[k] ELSE t[k - Len(s)]
  BY ConcatProperties, LenProperties
<1> DEFINE u == s \o t
<1> HIDE DEF u
<1>2. /\ Len(u) = Len(s) + Len(t)
      /\ \A k \in 1 .. Len(s) + Len(t) : u[k] = IF k <= Len(s) THEN s[k] ELSE t[k - Len(s)]
  BY <1>1 DEF u
<1>3. ASSUME At(s, at, c) PROVE At(u, at, c)
  <2>1. ASSUME NEW j \in 1 .. Len(c) PROVE u[at + j] = c[j]
    <3>1. at + j \in 1 .. Len(s) + Len(t) /\ at + j <= Len(s)
      BY <1>1, <1>3 DEF At
    <3>. QED  BY <1>2, <1>3, <3>1 DEF At
  <2>. QED  BY <1>1, <1>2, <1>3, <2>1 DEF At
<1>4. At(u, Len(s), t)
  <2>1. ASSUME NEW j \in 1 .. Len(t) PROVE u[Len(s) + j] = t[j]
    <3>1. Len(s) + j \in 1 .. Len(s) + Len(t) /\ ~(Len(s) + j <= Len(s)) /\ (Len(s) + j) - Len(s) = j
      BY <1>1
    <3>. QED  BY <1>2, <3>1
  <2>. QED  BY <1>1, <1>2, <2>1 DEF At
<1>. QED  BY <1>3, <1>4 DEF u

\* Reading the bits of a number gives the number.
LEMMA ReadsNumber ==
    ASSUME NEW s \in Seq({0, 1}), NEW at \in Nat, NEW n \in Nat, NEW x \in 0 .. 2 ^ n - 1,
           At(s, at, Bits(x, n))
    PROVE  istream_bits(s, at, n) = x /\ Has(s, at, n)
<1>0. x \in Nat
  BY PowerStep
<1> DEFINE b == Bits(x, n)
           r == [i \in 1 .. n |-> IF at + i <= Len(s) THEN s[at + i] ELSE 0]
<1>1. b \in [1 .. n -> {0, 1}] /\ Len(b) = n
  BY <1>0, BitsType
<1>2. ValueOf(b) = x
  BY ValueOfBits
<1>3. At(s, at, b)
  OBVIOUS
<1> HIDE DEF b
<1>4. r = b
  <2>1. \A i \in 1 .. n : at + i <= Len(s) /\ s[at + i] = b[i]
    BY <1>1, <1>3, LenProperties DEF At
  <2>2. r = [i \in 1 .. n |-> b[i]]
    BY <2>1
  <2>. QED  BY <1>1, <2>2
<1>5. istream_bits(s, at, n) = ValueOf(r)
  BY DEF istream_bits
<1> HIDE DEF r
<1>. QED  BY <1>1, <1>2, <1>3, <1>4, <1>5 DEF At, Has

LEMMA ReadsType ==
    ASSUME NEW s \in Seq({0, 1}), NEW at \in Nat, NEW n \in Nat
    PROVE  istream_bits(s, at, n) \in 0 .. 2 ^ n - 1 /\ istream_bits(s, at, n) \in Nat
<1> DEFINE r == [i \in 1 .. n |-> IF at + i <= Len(s) THEN s[at + i] ELSE 0]
<1>1. r \in [1 .. n -> {0, 1}]
  <2>1. \A i \in 1 .. n : at + i <= Len(s) => s[at + i] \in {0, 1}
    <3> TAKE i \in 1 .. n
    <3>1. at + i <= Len(s) => at + i \in 1 .. Len(s)
      BY LenProperties
    <3>. QED  BY <3>1, ElementOfSeq
  <2>. QED  BY <2>1
<1>2. istream_bits(s, at, n) = ValueOf(r)
  BY DEF istream_bits
<1> HIDE DEF r
<1>3. istream_bits(s, at, n) \in 0 .. 2 ^ n - 1
  BY <1>1, <1>2, ValueBound
<1>. QED  BY <1>3, PowerStep

LEMMA FlattenFacts ==
    ASSUME NEW S, NEW ss, NEW n \in Nat, ss \in Seq(Seq(S)), Len(ss) = n
    PROVE  /\ FlattenSeq(ss) \in Seq(S)
           /\ \E o : /\ Sums(o, [k \in 1 .. n |-> Len(ss[k])], n)
                     /\ Len(FlattenSeq(ss)) = o[n]
                     /\ \A k \in 1 .. n : At(FlattenSeq(ss), o[k - 1], ss[k])
<1> DEFINE a == [k \in 1 .. n |-> Len(ss[k])]
<1>1. \A k \in 1 .. n : ss[k] \in Seq(S) /\ Len(ss[k]) \in Nat
  BY ElementOfSeq, LenProperties
<1>2. a \in [1 .. n -> Nat] /\ \A k \in 1 .. n : a[k] = Len(ss[k])
  BY <1>1
<1> HIDE DEF a
<1>3. PICK o : Sums(o, a, n)
  BY <1>2, SumsExist
<1>4. o \in [0 .. n -> Nat] /\ o[0] = 0 /\ \A k \in 1 .. n : o[k] = o[k - 1] + Len(ss[k])
  BY <1>2, <1>3 DEF Sums
<1>5. CASE n = 0
  <2>1. FlattenSeq(ss) = <<>>
    BY <1>5, EmptySeq DEF FlattenSeq
  <2>. QED  BY <1>3, <1>4, <1>5, <2>1 DEF a
<1>6. CASE n # 0
  <2> DEFINE Flat(g, m) == g = [i \in 1 .. m |-> IF i = 1 THEN ss[i] ELSE g[i - 1] \o ss[i]]
             T == {m \in 0 .. n : \E g : Flat(g, m)}
  <2>1. \E g : Flat(g, n)
    <3>1. 0 \in T
      <4> DEFINE z == [i \in 1 .. 0 |-> 0]
      <4>1. Flat(z, 0)
        OBVIOUS
      <4> HIDE DEF Flat, z
      <4>. QED  BY <4>1
    <3>2. ASSUME NEW j \in 0 .. n - 1, j \in T PROVE j + 1 \in T
      <4>1. PICK g : Flat(g, j)
        BY <3>2
      <4> DEFINE e(i) == IF i = 1 THEN ss[i] ELSE g[i - 1] \o ss[i]
                 h == [i \in 1 .. j + 1 |-> e(i)]
                 d(i) == IF i = 1 THEN ss[i] ELSE h[i - 1] \o ss[i]
      <4>2. \A i \in 1 .. j : g[i] = e(i)
        <5>1. g = [i \in 1 .. j |-> e(i)]
          BY <4>1
        <5> HIDE DEF e
        <5>. QED  BY <5>1
      <4>3. \A i \in 1 .. j + 1 : h[i] = e(i)
        OBVIOUS
      <4>4. \A i \in 1 .. j + 1 : h[i] = d(i)
        <5> TAKE i \in 1 .. j + 1
        <5>1. CASE i = 1
          BY <4>3, <5>1
        <5>2. CASE i # 1
          <6>1. i - 1 \in 1 .. j /\ i - 1 \in 1 .. j + 1
            BY <5>2
          <6>2. h[i - 1] = g[i - 1]
            <7> HIDE DEF e, h
            <7>. QED  BY <4>2, <4>3, <6>1
          <6>3. h[i] = e(i)
            BY <4>3
          <6> HIDE DEF h
          <6>. QED  BY <5>2, <6>2, <6>3
        <5>. QED  BY <5>1, <5>2
      <4>5. h = [i \in 1 .. j + 1 |-> d(i)]
        <5>1. h = [i \in 1 .. j + 1 |-> h[i]]
          OBVIOUS
        <5> HIDE DEF h, d
        <5>. QED  BY <4>4, <5>1
      <4>6. Flat(h, j + 1)
        <5> HIDE DEF h
        <5>. QED  BY <4>5
      <4> HIDE DEF Flat, h
      <4>. QED  BY <4>6
    <3>3. n \in T
      <4> HIDE DEF T
      <4>1. \A i \in 0 .. n : i \in T
        BY <3>1, <3>2, Climb
      <4>. QED  BY <4>1
    <3>. QED  BY <3>3
  <2>2. PICK g : Flat(g, n) /\ FlattenSeq(ss) = g[n]
    BY <1>6, <2>1 DEF FlattenSeq
  <2>3. \A i \in 1 .. n : g[i] = IF i = 1 THEN ss[i] ELSE g[i - 1] \o ss[i]
    <3> DEFINE e(i) == IF i = 1 THEN ss[i] ELSE g[i - 1] \o ss[i]
    <3>1. g = [i \in 1 .. n |-> e(i)]
      BY <2>2
    <3> HIDE DEF e
    <3>2. \A i \in 1 .. n : g[i] = e(i)
      BY <3>1
    <3>. QED  BY <3>2 DEF e
  <2> DEFINE Good(m) == g[m] \in Seq(S) /\ Len(g[m]) = o[m] /\ \A k \in 1 .. m : At(g[m], o[k - 1], ss[k])
             U == {m \in 0 .. n : m = 0 \/ Good(m)}
  <2>4. 0 \in U
    OBVIOUS
  <2>5. ASSUME NEW j \in 0 .. n - 1, j \in U PROVE j + 1 \in U
    <3>1. CASE j = 0
      <4>1. g[1] = ss[1] /\ ss[1] \in Seq(S) /\ o[1] = Len(ss[1]) /\ o[0] = 0 /\ Len(ss[1]) \in Nat
        BY <1>1, <1>4, <1>6, <2>3
      <4>2. At(ss[1], 0, ss[1])
        BY <4>1 DEF At
      <4>3. Good(1)
        BY <4>1, <4>2
      <4>. QED  BY <1>6, <3>1, <4>3
    <3>2. CASE j # 0
      <4>1. Good(j)
        BY <2>5, <3>2
      <4>2. g[j + 1] = g[j] \o ss[j + 1] /\ ss[j + 1] \in Seq(S) /\ o[j + 1] = o[j] + Len(ss[j + 1])
        <5>1. j + 1 \in 1 .. n /\ j + 1 # 1 /\ (j + 1) - 1 = j
          BY <3>2
        <5>. QED  BY <1>1, <1>4, <2>3, <5>1
      <4> DEFINE u == g[j]
                 c == ss[j + 1]
      <4>3. u \in Seq(S) /\ c \in Seq(S) /\ Len(u) = o[j] /\ \A k \in 1 .. j : At(u, o[k - 1], ss[k])
        BY <4>1, <4>2
      <4>4. u \o c \in Seq(S) /\ Len(u \o c) = Len(u) + Len(c) /\ At(u \o c, Len(u), c)
        <5> HIDE DEF u, c
        <5>1. At(u \o c, Len(u), c)
          BY <4>3, AtMore, LenProperties
        <5>. QED  BY <4>3, <5>1, ConcatProperties
      <4>5. \A k \in 1 .. j : At(u \o c, o[k - 1], ss[k])
        <5> TAKE k \in 1 .. j
        <5>1. o[k - 1] \in Nat /\ Len(ss[k]) \in Nat /\ At(u, o[k - 1], ss[k])
          <6>1. k - 1 \in 0 .. n /\ k \in 1 .. n
            OBVIOUS
          <6> HIDE DEF u
          <6>. QED  BY <1>1, <1>4, <4>3, <6>1
        <5> HIDE DEF u, c
        <5>. QED  BY <4>3, <5>1, AtMore
      <4>6. \A k \in 1 .. j + 1 : At(u \o c, o[k - 1], ss[k])
        <5> TAKE k \in 1 .. j + 1
        <5>1. CASE k = j + 1
          <6>1. k - 1 = j
            BY <5>1
          <6>. QED  BY <4>3, <4>4, <5>1, <6>1
        <5>2. CASE k # j + 1
          <6>1. k \in 1 .. j
            BY <5>2
          <6> HIDE DEF u, c
          <6>. QED  BY <4>5, <6>1
        <5>. QED  BY <5>1, <5>2
      <4>7. Good(j + 1)
        <5>1. g[j + 1] = u \o c /\ o[j + 1] = o[j] + Len(c)
          BY <4>2
        <5> HIDE DEF u, c
        <5>. QED  BY <4>3, <4>4, <4>6, <5>1
      <4>. QED  BY <4>7
    <3>. QED  BY <3>1, <3>2
  <2>6. n \in U
    <3> HIDE DEF U
    <3>1. \A i \in 0 .. n : i \in U
      BY <2>4, <2>5, Climb
    <3>. QED  BY <3>1
  <2>7. Good(n)
    BY <1>6, <2>6
  <2>. QED  BY <1>3, <2>2, <2>7, ZenonT(30) DEF a
<1>. QED  BY <1>5, <1>6

--------------------------------------------------------------------------------
(***************************************************************************)
(* Back references and their bytes.                                        *)
(***************************************************************************)
LEMMA InputFacts == ASSUME NEW s \in Inputs PROVE s \in Seq(Byte) /\ Len(s) \in Nat
<1>1. s \in Seq(Byte)
  BY ReduceAssumption DEF Byte, BYTE
<1>. QED  BY <1>1, LenProperties

LEMMA BackrefFacts ==
    ASSUME NEW s \in Seq(Byte), NEW at \in 0 .. Len(s), NEW r \in Backrefs(s, at, max_dist, max_len, FALSE)
    PROVE  /\ r.dist \in Nat /\ r.len \in Nat /\ r = [dist |-> r.dist, len |-> r.len]
           /\ r.dist >= 1 /\ r.dist <= max_dist /\ r.dist <= at
           /\ r.len > 3 /\ r.len <= max_len /\ r.len <= Len(s) - at /\ r.len <= r.dist
           /\ \A k \in 1 .. r.len : s[at + k] = s[at + k - r.dist]
<1>1. MIN_LEN \in Nat /\ MIN_LEN > 3 /\ max_dist \in Nat /\ max_len \in Nat /\ Len(s) \in Nat
  BY ReduceAssumption, MinLenAssumption, VFacts
<1>2. r \in [dist : 1 .. AtMost(max_dist, at), len : MIN_LEN .. AtMost(max_len, Len(s) - at)]
      /\ Repeats(s, at, r.dist, r.len) /\ r.len <= r.dist
  BY DEF Backrefs
<1>. QED  BY <1>1, <1>2 DEF AtMost, Repeats

\* V holds the length below and the distance above, and is not zero.
VOf(l, d) == (IF l < V_LEN_MAX THEN l ELSE V_LEN_MAX) + (d \div BYTE) * 2 ^ v_len_bits

LEMMA VOfFacts ==
    ASSUME NEW l \in Nat, NEW d \in Nat, l >= 1, l < V_LEN_MAX + BYTE, d < max_dist
    PROVE  /\ VOf(l, d) \in Byte /\ VOf(l, d) # 0
           /\ VOf(l, d) % 2 ^ v_len_bits = (IF l < V_LEN_MAX THEN l ELSE V_LEN_MAX)
           /\ VOf(l, d) \div 2 ^ v_len_bits = d \div BYTE
           /\ l >= V_LEN_MAX => l - V_LEN_MAX \in Byte
           /\ d % BYTE \in Byte
           /\ (d \div BYTE) * BYTE + (d % BYTE) = d
<1>0. PICK u \in Nat, c \in Nat, B \in Nat, m \in Nat :
        /\ u = 2 ^ v_len_bits /\ c = 2 ^ comp_factor /\ B = BYTE /\ m = V_LEN_MAX
        /\ u >= 2 /\ m = u - 1 /\ B = u * c
        /\ d < c * B /\ B >= 2 /\ Byte = 0 .. B - 1
  <2>1. 2 ^ v_len_bits - 1 \in Nat
    BY VFacts
  <2>. QED  BY <2>1, VFacts, ConstantFacts
<1>1. /\ u >= 2 /\ m = u - 1 /\ B = u * c
      /\ d < c * B /\ B >= 2 /\ Byte = 0 .. B - 1 /\ m = V_LEN_MAX /\ l < m + B
  BY <1>0
<1> DEFINE lp == IF l < u - 1 THEN l ELSE u - 1
           q == d \div B
           w == d % B
<1>2. q \in Nat /\ w \in 0 .. B - 1 /\ d = B * q + w
  <2>1. B \in Nat \ {0}
    BY <1>1
  <2>. QED  BY <2>1, DivMod
<1>4. VOf(l, d) = lp + q * u
  BY <1>0 DEF VOf
<1>5. lp \in 0 .. u - 1 /\ lp >= 1 /\ lp \in Nat /\ lp = IF l < m THEN l ELSE m
  BY <1>1
<1> HIDE DEF lp, q, w
<1>3. q < c
  <2> SUFFICES ASSUME q >= c PROVE FALSE
    BY <1>2
  <2>1. B * q >= B * c
    <3>1. \A x, y, z \in Nat : y >= z => x * y >= x * z
      BY SMTT(30)
    <3>. QED  BY <1>2, <3>1
  <2>2. B * c = c * B /\ B * c \in Nat /\ B * q \in Nat
    BY <1>2, SMTT(30)
  <2>. QED  BY <1>1, <1>2, <2>1, <2>2
<1>6. q * u = u * q /\ u * q \in Nat /\ u * q + u <= u * c
  <2>1. \A x, y, z \in Nat : y < z => x * y + x <= x * z
    <3> TAKE x, y, z \in Nat
    <3> HAVE y < z
    <3>1. x * (y + 1) <= x * z
      BY SMTT(30)
    <3>2. x * (y + 1) = x * y + x
      BY SMTT(30)
    <3>. QED  BY <3>1, <3>2
  <2>2. u * q + u <= u * c
    BY <1>2, <1>3, <2>1
  <2>. QED  BY <1>2, <2>2, TimesNat, SMTT(30)
<1>7. VOf(l, d) \in Byte /\ VOf(l, d) # 0
  BY <1>1, <1>4, <1>5, <1>6
<1>8. VOf(l, d) % u = lp /\ VOf(l, d) \div u = q
  <2>1. VOf(l, d) = u * q + lp
    BY <1>4, <1>5, <1>6
  <2>2. u \in Nat \ {0}
    BY <1>1
  <2>3. (u * q + lp) \div u = q /\ (u * q + lp) % u = lp
    BY <1>2, <1>5, <2>2, DivModUnique, Zenon
  <2>. QED  BY <2>1, <2>3
<1>9. l >= m => l - m \in Byte
  BY <1>1
<1>10. q * B + w = d /\ w \in Byte
  <2>1. q * B = B * q
    BY <1>2, SMTT(30)
  <2>. QED  BY <1>1, <1>2, <2>1
<1>11. lp = IF l < V_LEN_MAX THEN l ELSE V_LEN_MAX
  BY <1>0, <1>5
<1>12. l >= V_LEN_MAX => l - V_LEN_MAX \in Byte
  BY <1>0, <1>9
<1>13. VOf(l, d) % 2 ^ v_len_bits = lp /\ VOf(l, d) \div 2 ^ v_len_bits = q
  BY <1>0, <1>8
<1>14. q = d \div BYTE /\ w = d % BYTE
  BY <1>0 DEF q, w
<1>15. (d \div BYTE) * BYTE + (d % BYTE) = d /\ d % BYTE \in Byte
  <2>1. (d \div B) * B + (d % B) = d /\ d % B \in Byte
    BY <1>10, Zenon DEF q, w
  <2>2. B = BYTE
    BY <1>0
  <2>. QED  BY <2>1, <2>2, Zenon
<1>. QED  BY <1>7, <1>11, <1>12, <1>13, <1>14, <1>15, Zenon

LEMMA ThreeOrFour ==
    ASSUME NEW S, NEW a \in S, NEW b \in S, NEW e \in S, NEW w \in S
    PROVE  /\ <<a, b>> \o <<>> \o <<w>> = <<a, b, w>> /\ <<a, b, w>> \in Seq(S)
           /\ <<a, b>> \o <<e>> \o <<w>> = <<a, b, e, w>> /\ <<a, b, e, w>> \in Seq(S)
<1>1. <<a, b>> \in Seq(S) /\ <<a, b, e>> \in Seq(S) /\ <<a, b, w>> \in Seq(S) /\ <<a, b, e, w>> \in Seq(S)
  OBVIOUS
<1>2. <<a, b>> \o <<>> = <<a, b>>
  BY <1>1, ConcatEmptySeq
<1>3. <<a, b>> \o <<w>> = Append(<<a, b>>, w) /\ <<a, b>> \o <<e>> = Append(<<a, b>>, e)
      /\ <<a, b, e>> \o <<w>> = Append(<<a, b, e>>, w)
  BY <1>1, AppendIsConcat, Zenon
<1>4. \A c \in S : Append(<<a, b>>, c) = <<a, b, c>>
  <2> TAKE c \in S
  <2> DEFINE x == Append(<<a, b>>, c)
             y == <<a, b, c>>
  <2>1. x \in Seq(S) /\ Len(x) = 3 /\ x[1] = a /\ x[2] = b /\ x[3] = c
    BY <1>1, AppendProperties
  <2>2. y \in Seq(S) /\ Len(y) = 3 /\ y[1] = a /\ y[2] = b /\ y[3] = c
    OBVIOUS
  <2> HIDE DEF x, y
  <2>3. x = y
    BY <2>1, <2>2, SeqEqual
  <2>. QED  BY <2>3 DEF x, y
<1>5. Append(<<a, b, e>>, w) = <<a, b, e, w>>
  <2> DEFINE x == Append(<<a, b, e>>, w)
             y == <<a, b, e, w>>
  <2>1. x \in Seq(S) /\ Len(x) = 4 /\ x[1] = a /\ x[2] = b /\ x[3] = e /\ x[4] = w
    BY <1>1, AppendProperties
  <2>2. y \in Seq(S) /\ Len(y) = 4 /\ y[1] = a /\ y[2] = b /\ y[3] = e /\ y[4] = w
    OBVIOUS
  <2> HIDE DEF x, y
  <2>3. x = y
    BY <2>1, <2>2, SeqEqual
  <2>. QED  BY <2>3 DEF x, y
<1>. QED  BY <1>1, <1>2, <1>3, <1>4, <1>5

LEMMA Three ==
    ASSUME NEW S, NEW a \in S, NEW b \in S, NEW w \in S
    PROVE  <<a, b>> \o <<>> \o <<w>> = <<a, b, w>> /\ <<a, b, w>> \in Seq(S)
  BY ThreeOrFour

LEMMA VByteFacts ==
    ASSUME NEW L \in Nat, NEW D \in Nat, L > 3, L <= max_len, D >= 1, D <= max_dist
    PROVE  LET r == [dist |-> D, len |-> L]
           IN  /\ VByte(r) = VOf(L - 3, D - 1) /\ VByte(r) \in Byte
               /\ L - 3 \in Nat /\ D - 1 \in Nat
               /\ L - 3 >= 1 /\ L - 3 < V_LEN_MAX + BYTE /\ D - 1 < max_dist
               /\ BackrefBytes(r) \in Seq(Byte)
               /\ BackrefBytes(r) =
                     IF L - 3 >= V_LEN_MAX
                     THEN <<DLE_BYTE, VByte(r), L - 3 - V_LEN_MAX, (D - 1) % BYTE>>
                     ELSE <<DLE_BYTE, VByte(r), (D - 1) % BYTE>>
<1> DEFINE r == [dist |-> D, len |-> L]
<1>1. L - 3 \in Nat /\ D - 1 \in Nat /\ L - 3 >= 1 /\ L - 3 < V_LEN_MAX + BYTE /\ D - 1 < max_dist
  BY VFacts, ConstantFacts
<1>2. VByte(r) = VOf(L - 3, D - 1)
  BY DEF VByte, VOf
<1>3. PICK l \in Nat, d \in Nat : l = L - 3 /\ d = D - 1
  BY <1>1
<1>4. VOf(l, d) \in Byte /\ d % BYTE \in Byte /\ DLE_BYTE \in Byte /\ (l >= V_LEN_MAX => l - V_LEN_MAX \in Byte)
  BY <1>1, <1>3, VOfFacts, ConstantFacts
<1>5. BackrefBytes(r) = <<DLE_BYTE, VOf(l, d)>>
        \o (IF l >= V_LEN_MAX THEN <<l - V_LEN_MAX>> ELSE <<>>) \o <<d % BYTE>>
  BY <1>2, <1>3 DEF BackrefBytes
<1>8. BackrefBytes(r) \in Seq(Byte) /\
      BackrefBytes(r) = IF l >= V_LEN_MAX THEN <<DLE_BYTE, VOf(l, d), l - V_LEN_MAX, d % BYTE>>
                        ELSE <<DLE_BYTE, VOf(l, d), d % BYTE>>
  <2>1. CASE l >= V_LEN_MAX
    <3>1. l - V_LEN_MAX \in Byte
      BY <1>4, <2>1
    <3>2. BackrefBytes(r) = <<DLE_BYTE, VOf(l, d)>> \o <<l - V_LEN_MAX>> \o <<d % BYTE>>
      BY <1>5, <2>1
    <3>3. BackrefBytes(r) \in Seq(Byte)
          /\ BackrefBytes(r) = <<DLE_BYTE, VOf(l, d), l - V_LEN_MAX, d % BYTE>>
      <4>1. <<DLE_BYTE, VOf(l, d)>> \o <<l - V_LEN_MAX>> \o <<d % BYTE>> = <<DLE_BYTE, VOf(l, d), l - V_LEN_MAX, d % BYTE>>
            /\ <<DLE_BYTE, VOf(l, d), l - V_LEN_MAX, d % BYTE>> \in Seq(Byte)
        BY <1>4, <3>1, ThreeOrFour
      <4>. QED  BY <3>2, <4>1
    <3>. QED  BY <2>1, <3>3, Zenon
  <2>2. CASE ~(l >= V_LEN_MAX)
    <3>2. BackrefBytes(r) = <<DLE_BYTE, VOf(l, d)>> \o <<>> \o <<d % BYTE>>
      BY <1>5, <2>2
    <3>3. BackrefBytes(r) \in Seq(Byte) /\ BackrefBytes(r) = <<DLE_BYTE, VOf(l, d), d % BYTE>>
      <4>1. <<DLE_BYTE, VOf(l, d)>> \o <<>> \o <<d % BYTE>> = <<DLE_BYTE, VOf(l, d), d % BYTE>>
            /\ <<DLE_BYTE, VOf(l, d), d % BYTE>> \in Seq(Byte)
        BY <1>4, Three
      <4>. QED  BY <3>2, <4>1
    <3>. QED  BY <2>2, <3>3, Zenon
  <2>. QED  BY <2>1, <2>2
<1> HIDE DEF r
<1>. QED  BY <1>1, <1>2, <1>3, <1>4, <1>8 DEF r

--------------------------------------------------------------------------------
(***************************************************************************)
(* Types and bounds.                                                       *)
(***************************************************************************)
Types ==
    /\ TypeOK
    /\ src \in Inputs
    /\ os \in [bits : Seq({0, 1}), cap : Nat, ok : BOOLEAN]
    /\ pending \in Seq(Byte)
    /\ fsets \in [Byte -> Seq(Byte)] /\ \A p \in Byte : Len(fsets[p]) <= MAX_FOLLOWERS
    /\ \A k \in 1 .. Len(sets) : Len(sets[k]) <= MAX_FOLLOWERS
    /\ ~flushed => Len(raw) < RAW_BYTES_SZ

\* Nothing is read before all is written, and a back reference is only begun
\* where a byte is missing.
Bounds ==
    /\ Contained
    /\ phase \in {"compress", "gave_up"} => rpos = 0 /\ sets = <<>>
    /\ phase \in {"compress", "gave_up", "sets"} => dst = <<>> /\ curr_byte = 0
    /\ phase = "sets" => Len(sets) < BYTE
    /\ phase \in {"item", "v", "elb", "w"} => Len(sets) = BYTE
    /\ phase \in {"v", "elb", "w"} => Len(dst) < Len(src)
    /\ phase = "elb" => len = V_LEN_MAX + 3

Inv == Types /\ Bounds

LEMMA InitInv == Init => Inv
<1> SUFFICES ASSUME Init PROVE Inv
  OBVIOUS
<1>1. src \in Seq(Byte) /\ Len(src) \in Nat
  BY InputFacts DEF Init
<1>2. os \in [bits : Seq({0, 1}), cap : Nat, ok : BOOLEAN] /\ os.bits = <<>>
  <2>1. PICK cap \in Caps : os = [bits |-> <<>>, cap |-> cap, ok |-> TRUE]
    BY DEF Init, ostream
  <2>2. cap \in Nat
    BY ReduceAssumption
  <2>. QED  BY <2>1, <2>2
<1>3. fsets = [p \in Byte |-> <<>>] /\ Len(<<>>) = 0 /\ \A p \in Byte : fsets[p] = <<>>
  BY DEF Init
<1>4. <<>> \in Seq(Byte) /\ <<>> \in Seq(Nat) /\ <<>> \in Seq(Seq(Byte)) /\ <<>> \in Seq({0, 1})
  BY EmptySeq
<1>5. TypeOK
  <2>1. phase = "compress" /\ pos \in 0 .. Len(src) /\ rpos \in 0 .. Len(os.bits)
    BY <1>1, <1>2 DEF Init
  <2>2. prev_byte \in Byte /\ curr_byte \in Byte /\ v \in Byte /\ len \in 0 .. max_len /\ touched \in Nat
    BY ConstantFacts, VFacts DEF Init
  <2>3. DOMAIN fsets = Byte /\ \A p \in Byte : fsets[p] \in Seq(Byte)
    BY <1>3, <1>4
  <2>4. sets \in Seq(Seq(Byte)) /\ Len(sets) <= BYTE
    BY <1>4, ConstantFacts DEF Init
  <2>. QED  BY <1>2, <1>4, <2>1, <2>2, <2>3, <2>4 DEF Init, TypeOK
<1>6. Types
  BY <1>2, <1>3, <1>4, <1>5, ConstantFacts DEF Init, Types
<1>7. Bounds
  BY <1>1 DEF Init, Bounds, Contained
<1>. QED  BY <1>6, <1>7 DEF Inv

LEMMA InvFacts ==
    ASSUME Inv
    PROVE  /\ src \in Inputs /\ src \in Seq(Byte) /\ Len(src) \in Nat /\ pos \in 0 .. Len(src)
           /\ os.bits \in Seq({0, 1}) /\ Len(os.bits) \in Nat /\ os.cap \in Nat /\ os.ok \in BOOLEAN
           /\ dst \in Seq(Byte) /\ Len(dst) \in Nat /\ touched \in Nat
           /\ pending \in Seq(Byte) /\ Len(pending) \in Nat
           /\ raw \in Seq(Byte) /\ Len(raw) \in Nat
           /\ sets \in Seq(Seq(Byte)) /\ Len(sets) \in Nat
           /\ rpos \in Nat /\ rpos <= Len(os.bits) /\ v \in Byte /\ len \in Nat /\ curr_byte \in Byte
  BY LenProperties, InputFacts DEF Inv, Types, TypeOK

\* A write keeps the types, and leaves what is there.
LEMMA PutFacts ==
    ASSUME NEW o \in [bits : Seq({0, 1}), cap : Nat, ok : BOOLEAN], NEW b \in Seq({0, 1})
    PROVE  /\ Put(o, b) \in [bits : Seq({0, 1}), cap : Nat, ok : BOOLEAN]
           /\ Put(o, b).ok => o.ok /\ Put(o, b).bits = o.bits \o b
<1>1. o.bits \o b \in Seq({0, 1})
  BY ConcatProperties
<1>2. CASE o.ok /\ Len(o.bits) + Len(b) <= o.cap
  <2>1. Put(o, b) = [o EXCEPT !.bits = o.bits \o b]
    BY <1>2 DEF Put
  <2>. QED  BY <1>1, <1>2, <2>1
<1>3. CASE ~(o.ok /\ Len(o.bits) + Len(b) <= o.cap)
  <2>1. Put(o, b) = [o EXCEPT !.ok = FALSE]
    BY <1>3 DEF Put
  <2>. QED  BY <2>1
<1>. QED  BY <1>2, <1>3

\* What a follower set is written as.
LEMMA SetBitsFacts ==
    ASSUME NEW set \in Seq(Byte), Len(set) <= MAX_FOLLOWERS
    PROVE  /\ SetBits(set) \in Seq({0, 1})
           /\ Len(SetBits(set)) = SIZE_BITS + Len(set) * BYTE_BITS
           /\ At(SetBits(set), 0, Bits(Len(set), SIZE_BITS))
           /\ \A k \in 1 .. Len(set) :
                 At(SetBits(set), SIZE_BITS + (k - 1) * BYTE_BITS, Bits(set[k], BYTE_BITS))
<1> DEFINE n == Len(set)
           ss == [k \in 1 .. n |-> Bits(set[k], BYTE_BITS)]
           f == FlattenSeq(ss)
           h == Bits(n, SIZE_BITS)
<1>1. n \in Nat /\ \A k \in 1 .. n : set[k] \in Byte /\ set[k] \in Nat
  BY ConstantFacts, ElementOfSeq, LenProperties
<1>2. h \in Seq({0, 1}) /\ Len(h) = SIZE_BITS
  BY <1>1, BitsType, ConstantFacts
<1>3. \A k \in 1 .. n : Bits(set[k], BYTE_BITS) \in Seq({0, 1}) /\ Len(Bits(set[k], BYTE_BITS)) = BYTE_BITS
  BY <1>1, BitsType, ConstantFacts
<1>4. ss \in Seq(Seq({0, 1})) /\ Len(ss) = n
  <2> HIDE DEF n
  <2>. QED  BY <1>1, <1>3
<1>5. \A k \in 1 .. n : ss[k] = Bits(set[k], BYTE_BITS) /\ Len(ss[k]) = BYTE_BITS
  BY <1>3
<1> HIDE DEF ss, n
<1>6. PICK o : /\ Sums(o, [k \in 1 .. n |-> Len(ss[k])], n) /\ Len(f) = o[n]
               /\ f \in Seq({0, 1}) /\ \A k \in 1 .. n : At(f, o[k - 1], ss[k])
  BY <1>1, <1>4, FlattenFacts
<1> HIDE DEF f
<1>7. \A k \in 0 .. n : o[k] = k * BYTE_BITS
  <2> DEFINE T == {k \in 0 .. n : o[k] = k * BYTE_BITS}
  <2>1. 0 \in T
    <3>1. 0 * BYTE_BITS = 0
      BY ConstantFacts
    <3>. QED  BY <1>1, <1>6, <3>1 DEF Sums
  <2>2. ASSUME NEW j \in 0 .. n - 1, j \in T PROVE j + 1 \in T
    <3>1. j + 1 \in 1 .. n /\ (j + 1) - 1 = j
      BY <1>1
    <3>2. o[j + 1] = j * BYTE_BITS + BYTE_BITS
      BY <1>5, <1>6, <2>2, <3>1 DEF Sums
    <3>3. j * BYTE_BITS + BYTE_BITS = (j + 1) * BYTE_BITS
      <4>1. \A x, y \in Nat : x * y + y = (x + 1) * y
        BY SMTT(30)
      <4>. QED  BY <4>1, ConstantFacts
    <3>. QED  BY <3>1, <3>2, <3>3
  <2> HIDE DEF T
  <2>3. \A k \in 0 .. n : k \in T
    BY <1>1, <2>1, <2>2, Climb
  <2>. QED  BY <2>3 DEF T
<1>8. SetBits(set) = h \o f
  BY DEF SetBits, f, ss, n
<1>9. SetBits(set) \in Seq({0, 1}) /\ Len(SetBits(set)) = SIZE_BITS + n * BYTE_BITS
  <2>1. n \in 0 .. n
    BY <1>1
  <2>2. Len(f) = n * BYTE_BITS
    BY <1>6, <1>7, <2>1
  <2> HIDE DEF h
  <2>3. h \o f \in Seq({0, 1}) /\ Len(h \o f) = Len(h) + Len(f)
    BY <1>2, <1>6, ConcatProperties
  <2>. QED  BY <1>2, <1>8, <2>2, <2>3
<1> DEFINE sb == SetBits(set)
<1>10. At(sb, 0, h) /\ At(sb, Len(h), f)
  <2>1. Len(h) \in Nat /\ At(h, 0, h)
    BY <1>2, ConstantFacts DEF At
  <2> HIDE DEF h
  <2>2. At(h \o f, 0, h) /\ At(h \o f, Len(h), f)
    BY <1>2, <1>6, <2>1, AtMore
  <2>. QED  BY <1>8, <2>2
<1> HIDE DEF sb
<1>11. ASSUME NEW k \in 1 .. n PROVE At(sb, SIZE_BITS + (k - 1) * BYTE_BITS, Bits(set[k], BYTE_BITS))
  <2>1. At(f, (k - 1) * BYTE_BITS, ss[k]) /\ (k - 1) * BYTE_BITS \in Nat /\ Len(ss[k]) \in Nat
    <3>1. k - 1 \in 0 .. n /\ k - 1 \in Nat
      BY <1>1
    <3>. QED  BY <1>5, <1>6, <1>7, <3>1, ConstantFacts, TimesNat
  <2>2. PICK w \in Nat : w = (k - 1) * BYTE_BITS
    BY <2>1
  <2>3. At(sb, SIZE_BITS + w, ss[k])
    <3>1. Len(f) \in Nat /\ SIZE_BITS \in Nat
      BY <1>6, ConstantFacts, LenProperties
    <3>2. \A j \in 1 .. Len(ss[k]) : w + j \in 1 .. Len(f) /\ SIZE_BITS + w + j = SIZE_BITS + (w + j)
      BY <2>1, <2>2, <3>1 DEF At
    <3> HIDE DEF h
    <3>3. \A j \in 1 .. Len(f) : sb[SIZE_BITS + j] = f[j]
      BY <1>2, <1>10 DEF At
    <3>4. \A j \in 1 .. Len(ss[k]) : f[w + j] = ss[k][j]
      BY <2>1, <2>2 DEF At
    <3>5. \A j \in 1 .. Len(ss[k]) : sb[SIZE_BITS + w + j] = ss[k][j]
      <4> TAKE j \in 1 .. Len(ss[k])
      <4>. QED  BY <3>2, <3>3, <3>4
    <3>6. SIZE_BITS + w + Len(ss[k]) <= Len(sb)
      BY <1>2, <1>10, <2>1, <2>2, <3>1, SMTT(30) DEF At
    <3>. QED  BY <3>5, <3>6 DEF At
  <2>. QED  BY <1>5, <2>2, <2>3
<1>. QED  BY <1>9, <1>10, <1>11 DEF sb, n

\* Where the follower sets stand: o[i] is the end of the i-th set.
Ends(o, fs) ==
    /\ o \in [0 .. BYTE -> Nat] /\ o[0] = 0
    /\ \A i \in 1 .. BYTE : o[i] = o[i - 1] + SIZE_BITS + Len(fs[BYTE - i]) * BYTE_BITS

SetsAt(s, o, fs) == \A i \in 1 .. BYTE : At(s, o[i - 1], SetBits(fs[BYTE - i]))

FollowerSets == {fs \in [Byte -> Seq(Byte)] : \A p \in Byte : Len(fs[p]) <= MAX_FOLLOWERS}

LEMMA SetsWritten ==
    ASSUME NEW fs \in FollowerSets
    PROVE  /\ write_follower_sets(fs) \in Seq({0, 1})
           /\ \E o : /\ Ends(o, fs) /\ Len(write_follower_sets(fs)) = o[BYTE]
                     /\ SetsAt(write_follower_sets(fs), o, fs)
<1> DEFINE ss == [i \in 1 .. BYTE |-> SetBits(fs[BYTE - i])]
           f == FlattenSeq(ss)
<1>1. \A i \in 1 .. BYTE : /\ fs[BYTE - i] \in Seq(Byte) /\ Len(fs[BYTE - i]) <= MAX_FOLLOWERS
                           /\ Len(fs[BYTE - i]) \in Nat
  <2> TAKE i \in 1 .. BYTE
  <2>1. BYTE - i \in Byte
    BY ConstantFacts
  <2>. QED  BY <2>1, LenProperties DEF FollowerSets
<1>2. \A i \in 1 .. BYTE : /\ SetBits(fs[BYTE - i]) \in Seq({0, 1})
                           /\ Len(SetBits(fs[BYTE - i])) = SIZE_BITS + Len(fs[BYTE - i]) * BYTE_BITS
  BY <1>1, SetBitsFacts
<1>3. ss \in Seq(Seq({0, 1})) /\ Len(ss) = BYTE /\ BYTE \in Nat
  BY <1>2, ConstantFacts
<1>4. \A i \in 1 .. BYTE : /\ ss[i] = SetBits(fs[BYTE - i])
                           /\ Len(ss[i]) = SIZE_BITS + Len(fs[BYTE - i]) * BYTE_BITS
  BY <1>2
<1> HIDE DEF ss
<1>5. PICK o : /\ Sums(o, [k \in 1 .. BYTE |-> Len(ss[k])], BYTE) /\ Len(f) = o[BYTE]
               /\ f \in Seq({0, 1}) /\ \A k \in 1 .. BYTE : At(f, o[k - 1], ss[k])
  BY <1>3, FlattenFacts
<1> HIDE DEF f
<1>6. Ends(o, fs)
  <2>1. o \in [0 .. BYTE -> Nat] /\ o[0] = 0 /\ \A i \in 1 .. BYTE : o[i] = o[i - 1] + Len(ss[i])
    BY <1>5 DEF Sums
  <2>2. ASSUME NEW i \in 1 .. BYTE PROVE o[i] = o[i - 1] + SIZE_BITS + Len(fs[BYTE - i]) * BYTE_BITS
    <3>1. i - 1 \in 0 .. BYTE /\ Len(fs[BYTE - i]) * BYTE_BITS \in Nat
      BY <1>1, ConstantFacts, TimesNat
    <3>2. o[i - 1] \in Nat /\ SIZE_BITS \in Nat
      BY <2>1, <3>1, ConstantFacts
    <3>. QED  BY <1>4, <2>1, <3>1, <3>2
  <2>. QED  BY <2>1, <2>2 DEF Ends
<1>7. SetsAt(f, o, fs)
  BY <1>4, <1>5 DEF SetsAt
<1>8. write_follower_sets(fs) = f
  BY DEF write_follower_sets, f, ss
<1>. QED  BY <1>5, <1>6, <1>7, <1>8

LEMMA SetsOf ==
    ASSUME NEW bytes, Len(bytes) \in Nat
    PROVE  [p \in Byte |-> FollowerSet(follower_count(bytes, p))] \in FollowerSets
  BY CountFacts, FollowerSetFacts DEF FollowerSets

\* A byte as it is written after another: its place in that one's set, or itself.
LEMMA ByteBitsFacts ==
    ASSUME fsets \in FollowerSets, NEW prev \in Byte, NEW byte \in Byte
    PROVE  /\ ByteBits(prev, byte) \in Seq({0, 1})
           /\ \/ /\ \E k \in 1 .. Len(fsets[prev]) :
                       /\ fsets[prev][k] = byte
                       /\ ByteBits(prev, byte) = <<0>> \o Bits(k - 1, follower_idx_bw(Len(fsets[prev])))
              \/ fsets[prev] = <<>> /\ ByteBits(prev, byte) = Bits(byte, BYTE_BITS)
              \/ fsets[prev] # <<>> /\ ByteBits(prev, byte) = <<1>> \o Bits(byte, BYTE_BITS)
<1> DEFINE set == fsets[prev]
           k == CHOOSE k \in 1 .. Len(set) : set[k] = byte
           bw == follower_idx_bw(Len(set))
<1>1. set \in Seq(Byte) /\ Len(set) \in 0 .. MAX_FOLLOWERS /\ bw \in Nat
  <2>1. set \in Seq(Byte) /\ Len(set) <= MAX_FOLLOWERS
    BY DEF FollowerSets
  <2>2. Len(set) \in 0 .. MAX_FOLLOWERS
    BY <2>1, LenProperties, ConstantFacts
  <2>. QED  BY <2>1, <2>2, IndexWidth
<1>2. Bits(byte, BYTE_BITS) \in Seq({0, 1}) /\ <<0>> \in Seq({0, 1}) /\ <<1>> \in Seq({0, 1})
  BY BitsType, ConstantFacts
<1>3. CASE \E j \in 1 .. Len(set) : set[j] = byte
  <2>1. k \in 1 .. Len(set) /\ set[k] = byte
    BY <1>3
  <2>2. ByteBits(prev, byte) = <<0>> \o Bits(k - 1, bw)
    BY <1>3 DEF ByteBits
  <2> HIDE DEF k, bw, set
  <2>3. Bits(k - 1, bw) \in Seq({0, 1})
    BY <1>1, <2>1, BitsType
  <2>4. <<0>> \o Bits(k - 1, bw) \in Seq({0, 1})
    BY <1>2, <2>3, ConcatProperties
  <2>. QED  BY <2>1, <2>2, <2>4 DEF set, bw
<1>4. CASE ~ \E j \in 1 .. Len(set) : set[j] = byte
  <2>1. ByteBits(prev, byte) = (IF set = <<>> THEN <<>> ELSE <<1>>) \o Bits(byte, BYTE_BITS)
    BY <1>4 DEF ByteBits
  <2>2. <<>> \o Bits(byte, BYTE_BITS) = Bits(byte, BYTE_BITS)
    BY <1>2, ConcatEmptySeq
  <2>3. <<1>> \o Bits(byte, BYTE_BITS) \in Seq({0, 1})
    BY <1>2, ConcatProperties
  <2>. QED  BY <1>2, <2>1, <2>2, <2>3
<1>. QED  BY <1>3, <1>4

--------------------------------------------------------------------------------
\* A step of the compressor.
LEMMA WritingStep ==
    ASSUME Inv, phase = "compress", phase' \in {"compress", "gave_up"},
           UNCHANGED <<src, reading>>, pos' \in 0 .. Len(src),
           pending' \in Seq(Byte), raw' \in Seq(Byte), flushed' \in BOOLEAN, fsets' \in FollowerSets,
           prev_byte' \in Byte, os' \in [bits : Seq({0, 1}), cap : Nat, ok : BOOLEAN],
           ~flushed' => Len(raw') < RAW_BYTES_SZ
    PROVE  Inv'
<1>1. pending' \in Seq(Nat)
  BY SeqMonotonic, ConstantFacts
<1>2. rpos = 0 /\ sets = <<>> /\ Len(os'.bits) \in Nat
  BY LenProperties DEF Inv, Bounds
<1>3. TypeOK'
  <2>1. /\ phase' \in {"compress", "gave_up", "sets", "item", "v", "elb", "w", "ok", "error"}
        /\ pos' \in 0 .. Len(src') /\ rpos' \in 0 .. Len(os'.bits)
    BY <1>2 DEF reading
  <2>2. os'.bits \in Seq({0, 1}) /\ DOMAIN fsets' = Byte /\ \A p \in Byte : fsets'[p] \in Seq(Byte)
    BY DEF FollowerSets
  <2>3. /\ curr_byte' \in Byte /\ v' \in Byte /\ len' \in 0 .. max_len /\ touched' \in Nat
        /\ dst' \in Seq(Byte) /\ sets' \in Seq(Seq(Byte)) /\ Len(sets') <= BYTE
    BY DEF Inv, Types, TypeOK, reading
  <2>. QED  BY <1>1, <2>1, <2>2, <2>3 DEF TypeOK
<1>4. Types'
  BY <1>3 DEF Inv, Types, FollowerSets, reading
<1>5. Bounds'
  BY DEF Inv, Bounds, Contained, reading
<1>. QED  BY <1>4, <1>5 DEF Inv

LEMMA InvSets == ASSUME Inv PROVE fsets \in FollowerSets
  BY DEF Inv, Types, FollowerSets

LEMMA TokenInv ==
    ASSUME Inv, NEW bytes \in Seq(Byte), NEW n \in Nat, pos + n <= Len(src), Token(bytes, n)
    PROVE  Inv'
<1>1. pos' \in 0 .. Len(src)
  BY InvFacts DEF Token
<1>2. prev_byte \in Byte /\ flushed \in BOOLEAN /\ (~flushed => Len(raw) < RAW_BYTES_SZ)
      /\ os \in [bits : Seq({0, 1}), cap : Nat, ok : BOOLEAN]
  BY DEF Inv, Types, TypeOK
<1>. QED  BY <1>1, <1>2, InvFacts, InvSets, WritingStep DEF Token

LEMMA LitInv == ASSUME Inv, lit_callback PROVE Inv'
<1> DEFINE b == IF src[pos + 1] = DLE_BYTE THEN <<DLE_BYTE, 0>> ELSE <<src[pos + 1]>>
<1>1. pos + 1 \in 1 .. Len(src)
  BY InvFacts DEF lit_callback
<1>2. src[pos + 1] \in Byte
  BY <1>1, InvFacts, ElementOfSeq
<1>3. b \in Seq(Byte)
  <2>1. \A x \in Byte : <<x>> \in Seq(Byte)
    OBVIOUS
  <2>2. DLE_BYTE \in Byte /\ 0 \in Byte
    BY ConstantFacts
  <2>3. <<DLE_BYTE, 0>> \in Seq(Byte)
    <3> HIDE DEF b
    <3>. QED  BY <2>2
  <2>. QED  BY <1>2, <2>1, <2>3
<1>4. Token(b, 1)
  BY DEF lit_callback
<1> HIDE DEF b
<1>. QED  BY <1>1, <1>3, <1>4, TokenInv

LEMMA BackrefInv == ASSUME Inv, backref_callback PROVE Inv'
<1>1. PICK r \in Backrefs(src, pos, max_dist, max_len, FALSE) : Token(BackrefBytes(r), r.len)
  BY DEF backref_callback
<1>2. PICK D \in Nat, L \in Nat : /\ r = [dist |-> D, len |-> L]
                                  /\ D >= 1 /\ D <= max_dist /\ L > 3 /\ L <= max_len /\ L <= Len(src) - pos
  BY InvFacts, BackrefFacts
<1>3. BackrefBytes(r) \in Seq(Byte)
  BY <1>2, VByteFacts
<1>4. r.len = L /\ pos + L <= Len(src)
  BY <1>2, InvFacts
<1>. QED  BY <1>1, <1>3, <1>4, TokenInv

\* What Emit does.
LEMMA EmitFacts ==
    ASSUME Inv, phase = "compress", NEW b \in Seq({0, 1}), Emit(b)
    PROVE  /\ os' \in [bits : Seq({0, 1}), cap : Nat, ok : BOOLEAN]
           /\ phase' \in {"compress", "gave_up"}
           /\ phase' = "compress" => os'.bits = os.bits \o b
<1>1. os \in [bits : Seq({0, 1}), cap : Nat, ok : BOOLEAN]
  BY DEF Inv, Types
<1>. QED  BY <1>1, PutFacts DEF Emit

LEMMA FlushInv ==
    ASSUME Inv, phase = "compress", NEW bytes \in Seq(Byte), NEW rest \in Seq(Byte), Flush(bytes, rest)
    PROVE  /\ os' \in [bits : Seq({0, 1}), cap : Nat, ok : BOOLEAN]
           /\ phase' \in {"compress", "gave_up"}
           /\ flushed' = TRUE /\ fsets' \in FollowerSets /\ pending' = bytes \o rest /\ pending' \in Seq(Byte)
           /\ write_follower_sets(fsets') \in Seq({0, 1})
           /\ phase' = "compress" => os'.bits = os.bits \o write_follower_sets(fsets')
<1>1. fsets' \in FollowerSets
  BY SetsOf, LenProperties DEF Flush
<1>2. write_follower_sets(fsets') \in Seq({0, 1})
  BY <1>1, SetsWritten
<1>3. pending' = bytes \o rest /\ pending' \in Seq(Byte)
  BY ConcatProperties DEF Flush
<1>. QED  BY <1>1, <1>2, <1>3, EmitFacts DEF Flush

LEMMA BufferInv == ASSUME Inv, BufferByte PROVE Inv'
<1>1. /\ phase = "compress" /\ pending # <<>> /\ ~flushed
      /\ UNCHANGED <<src, pos, prev_byte, damaged, reading>>
  BY DEF BufferByte
<1>2. Head(pending) \in Byte /\ Tail(pending) \in Seq(Byte)
  BY <1>1, InvFacts, HeadTailProperties
<1>3. raw' = Append(raw, Head(pending)) /\ raw' \in Seq(Byte) /\ Len(raw') = Len(raw) + 1
  BY <1>2, InvFacts, AppendProperties DEF BufferByte
<1>4. prev_byte' \in Byte /\ pos' \in 0 .. Len(src) /\ Len(raw) < RAW_BYTES_SZ
      /\ os \in [bits : Seq({0, 1}), cap : Nat, ok : BOOLEAN]
  BY <1>1, InvFacts DEF Inv, Types, TypeOK
<1>5. CASE Len(raw') = RAW_BYTES_SZ
  <2>1. Flush(raw', Tail(pending))
    BY <1>5 DEF BufferByte
  <2>. QED  BY <1>1, <1>2, <1>3, <1>4, <2>1, FlushInv, WritingStep
<1>6. CASE Len(raw') # RAW_BYTES_SZ
  <2>1. pending' = Tail(pending) /\ UNCHANGED <<phase, os, flushed, fsets>>
    BY <1>6 DEF BufferByte
  <2>2. Len(raw') < RAW_BYTES_SZ
    <3>1. PICK n \in Nat, N \in Nat : n = Len(raw) /\ N = RAW_BYTES_SZ
      BY InvFacts, ConstantFacts
    <3>2. n + 1 # N /\ n < N
      BY <1>3, <1>4, <1>6, <3>1
    <3>. QED  BY <1>3, <3>1, <3>2
  <2>3. fsets' \in FollowerSets /\ flushed' \in BOOLEAN /\ phase' = "compress"
    BY <1>1, <2>1, InvSets DEF Inv, Types, TypeOK
  <2>. QED  BY <1>1, <1>2, <1>3, <1>4, <2>1, <2>2, <2>3, WritingStep
<1>. QED  BY <1>5, <1>6

LEMMA FlushAtEndInv == ASSUME Inv, FlushAtEnd PROVE Inv'
<1>1. /\ phase = "compress" /\ Flush(raw, <<>>)
      /\ UNCHANGED <<src, pos, raw, prev_byte, damaged, reading>>
  BY DEF FlushAtEnd
<1>2. prev_byte' \in Byte /\ pos' \in 0 .. Len(src) /\ raw' \in Seq(Byte) /\ <<>> \in Seq(Byte)
  BY <1>1, InvFacts DEF Inv, Types, TypeOK
<1>. QED  BY <1>1, <1>2, InvFacts, FlushInv, WritingStep

LEMMA WriteByteInv == ASSUME Inv, WriteByte PROVE Inv'
<1>1. /\ phase = "compress" /\ pending # <<>> /\ flushed
      /\ prev_byte' = Head(pending) /\ pending' = Tail(pending)
      /\ Emit(ByteBits(prev_byte, Head(pending)))
      /\ UNCHANGED <<src, pos, raw, flushed, fsets, damaged, reading>>
  BY DEF WriteByte
<1>2. Head(pending) \in Byte /\ Tail(pending) \in Seq(Byte) /\ prev_byte \in Byte
  BY <1>1, InvFacts, HeadTailProperties DEF Inv, Types, TypeOK
<1>3. ByteBits(prev_byte, Head(pending)) \in Seq({0, 1})
  BY <1>2, InvSets, ByteBitsFacts
<1>4. os' \in [bits : Seq({0, 1}), cap : Nat, ok : BOOLEAN] /\ phase' \in {"compress", "gave_up"}
  BY <1>1, <1>3, EmitFacts
<1>5. pos' \in 0 .. Len(src) /\ raw' \in Seq(Byte) /\ flushed' \in BOOLEAN /\ fsets' \in FollowerSets
  BY <1>1, InvFacts, InvSets
<1>. QED  BY <1>1, <1>2, <1>4, <1>5, WritingStep
\* What round_up gives.
LEMMA RoundUp ==
    ASSUME NEW n \in Nat, NEW w \in Nat \ {0}
    PROVE  round_up(n, w) \in Nat /\ round_up(n, w) >= n /\ round_up(n, w) < n + w
<1> DEFINE a == n + w - 1
           q == a \div w
           r == a % w
<1>1. a \in Nat
  OBVIOUS
<1>2. q \in Nat /\ r \in 0 .. w - 1 /\ a = w * q + r
  <2> HIDE DEF a
  <2>. QED  BY <1>1, DivMod
<1>3. round_up(n, w) = w * q
  BY DEF round_up
<1> HIDE DEF q, r
<1>4. w * q \in Nat
  BY <1>2, TimesNat
<1>. QED  BY <1>2, <1>3, <1>4

\* The end of the writing: whole bytes, one of which may be damaged.
LEMMA PaddedType ==
    ASSUME NEW b \in Seq({0, 1})
    PROVE  /\ \E n \in Nat : /\ n = round_up(Len(b), BYTE_BITS) - Len(b)
                             /\ Padded(b, BYTE_BITS) = b \o Bits(0, n)
           /\ Padded(b, BYTE_BITS) \in Seq({0, 1})
           /\ Len(Padded(b, BYTE_BITS)) = round_up(Len(b), BYTE_BITS)
<1>1. PICK n \in Nat, w \in Nat \ {0} : n = Len(b) /\ w = BYTE_BITS
  <2>1. BYTE_BITS \in Nat \ {0}
    BY ReduceAssumption
  <2>. QED  BY <2>1, LenProperties
<1>2. round_up(n, w) \in Nat /\ round_up(n, w) >= n
  BY <1>1, RoundUp
<1>3. PICK m \in Nat : m = round_up(n, w) - n
  BY <1>1, <1>2
<1>4. Bits(0, m) \in Seq({0, 1}) /\ Len(Bits(0, m)) = m
  BY BitsType
<1>5. Padded(b, BYTE_BITS) = b \o Bits(0, m)
  BY <1>1, <1>3 DEF Padded
<1>6. b \o Bits(0, m) \in Seq({0, 1}) /\ Len(b \o Bits(0, m)) = n + m
  BY <1>1, <1>4, ConcatProperties
<1>7. n + m = round_up(n, w)
  BY <1>1, <1>2, <1>3
<1>. QED  BY <1>1, <1>3, <1>5, <1>6, <1>7

LEMMA DamagedType ==
    ASSUME NEW s \in Seq({0, 1}), NEW b \in Damaged(s)
    PROVE  b \in Seq({0, 1})
<1>1. CASE \E i \in 1 .. Len(s) : b = [s EXCEPT ![i] = 1 - @]
  <2>1. PICK i \in 1 .. Len(s) : b = [s EXCEPT ![i] = 1 - @]
    BY <1>1
  <2>2. s[i] \in {0, 1}
    BY ElementOfSeq
  <2>3. 1 - s[i] \in {0, 1}
    BY <2>2
  <2>. QED  BY <2>1, <2>3, ExceptSeq
<1>2. CASE \E n \in 0 .. Len(s) - 1 : b = SubSeq(s, 1, n)
  <2>1. PICK n \in 0 .. Len(s) - 1 : b = SubSeq(s, 1, n)
    BY <1>2
  <2>2. n \in Nat /\ n <= Len(s)
    BY LenProperties
  <2>. QED  BY <2>1, <2>2, SubSeqProperties
<1>. QED  BY <1>1, <1>2 DEF Damaged

LEMMA WrittenInv == ASSUME Inv, Written PROVE Inv'
<1>1. /\ phase = "compress" /\ flushed /\ phase' = "sets"
      /\ UNCHANGED <<writing, reading>>
      /\ \E bits \in Seq({0, 1}) : os' = [os EXCEPT !.bits = bits]
  <2>1. Padded(os.bits, BYTE_BITS) \in Seq({0, 1})
    BY InvFacts, PaddedType
  <2>. QED  BY <2>1, DamagedType DEF Written
<1>2. os \in [bits : Seq({0, 1}), cap : Nat, ok : BOOLEAN]
  BY DEF Inv, Types
<1>3. os' \in [bits : Seq({0, 1}), cap : Nat, ok : BOOLEAN]
  BY <1>1, <1>2
<1>4. rpos' = 0 /\ sets' = <<>> /\ dst' = <<>> /\ curr_byte' = 0
  BY <1>1 DEF Inv, Bounds, reading
<1>5. Len(os'.bits) \in Nat /\ os'.bits \in Seq({0, 1})
  BY <1>3, LenProperties
<1>6. TypeOK'
  BY <1>1, <1>4, <1>5 DEF Inv, Types, TypeOK, writing, reading
<1>7. Types'
  BY <1>1, <1>3, <1>6 DEF Inv, Types, writing, reading
<1>8. Bounds'
  BY <1>1, <1>4, ConstantFacts DEF Inv, Bounds, Contained, writing, reading
<1>. QED  BY <1>7, <1>8 DEF Inv

--------------------------------------------------------------------------------
(***************************************************************************)
(* The decompressor.                                                       *)
(***************************************************************************)
\* A step of the decompressor.
LEMMA ReadingStep ==
    ASSUME Inv, phase \notin {"compress", "gave_up"}, UNCHANGED <<writing, os, damaged>>,
           phase' \in {"sets", "item", "v", "elb", "w", "ok", "error"},
           rpos' \in Nat, rpos' <= Len(os.bits), curr_byte' \in Byte, v' \in Byte,
           len' \in 0 .. max_len, dst' \in Seq(Byte), touched' \in Nat,
           sets' \in Seq(Seq(Byte)), Len(sets') <= BYTE,
           \A k \in 1 .. Len(sets') : Len(sets'[k]) <= MAX_FOLLOWERS,
           Bounds'
    PROVE  Inv'
<1>1. TypeOK'
  <2>1. rpos' \in 0 .. Len(os'.bits)
    BY InvFacts
  <2>. QED  BY <2>1 DEF Inv, Types, TypeOK, writing
<1>2. Types'
  BY <1>1 DEF Inv, Types, writing
<1>. QED  BY <1>2 DEF Inv

\* One that ends.
LEMMA EndStep ==
    ASSUME Inv, phase \notin {"compress", "gave_up"}, phase' \in {"ok", "error"},
           UNCHANGED <<writing, os, damaged, reading>>
    PROVE  Inv'
<1>1. Bounds'
  BY DEF Inv, Bounds, Contained, writing, reading
<1>2. /\ rpos' \in Nat /\ rpos' <= Len(os.bits) /\ curr_byte' \in Byte /\ v' \in Byte
      /\ len' \in 0 .. max_len /\ dst' \in Seq(Byte) /\ touched' \in Nat
      /\ sets' \in Seq(Seq(Byte)) /\ Len(sets') <= BYTE
      /\ \A k \in 1 .. Len(sets') : Len(sets'[k]) <= MAX_FOLLOWERS
  BY InvFacts DEF Inv, Types, TypeOK, reading
<1>. QED  BY <1>1, <1>2, ReadingStep

LEMMA ReadSetInv == ASSUME Inv, ReadSet PROVE Inv'
<1>1. /\ phase = "sets" /\ Len(sets) < BYTE
      /\ SetSize <= MAX_FOLLOWERS /\ rpos + (SIZE_BITS + SetSize * BYTE_BITS) <= Len(os.bits)
      /\ rpos' = rpos + SIZE_BITS + SetSize * BYTE_BITS
      /\ phase' = IF Len(sets') = BYTE THEN "item" ELSE "sets"
      /\ UNCHANGED <<writing, os, damaged, curr_byte, v, len, dst, touched>>
  BY DEF ReadSet, SetReadable, Has
<1> DEFINE n == SetSize
           new == [k \in 1 .. n |-> istream_bits(os.bits, rpos + SIZE_BITS + (k - 1) * BYTE_BITS, BYTE_BITS)]
<1>2. n \in Nat
  BY InvFacts, ConstantFacts, ReadsType DEF SetSize
<1>3. \A k \in 1 .. n : istream_bits(os.bits, rpos + SIZE_BITS + (k - 1) * BYTE_BITS, BYTE_BITS) \in Byte
  <2> TAKE k \in 1 .. n
  <2>1. k - 1 \in Nat
    BY <1>2
  <2>2. (k - 1) * BYTE_BITS \in Nat
    BY <2>1, ConstantFacts, TimesNat
  <2>3. rpos + SIZE_BITS + (k - 1) * BYTE_BITS \in Nat
    <3>1. PICK a \in Nat, b \in Nat, c \in Nat : a = rpos /\ b = SIZE_BITS /\ c = (k - 1) * BYTE_BITS
      BY <2>2, InvFacts, ConstantFacts
    <3>2. a + b + c \in Nat
      OBVIOUS
    <3>. QED  BY <3>1, <3>2
  <2>. QED  BY <2>3, InvFacts, ConstantFacts, ReadsType
<1>4. new \in Seq(Byte) /\ Len(new) = n
  <2> HIDE DEF n
  <2>. QED  BY <1>2, <1>3
<1>5. sets' = Append(sets, new)
  BY DEF ReadSet
<1> HIDE DEF new, n
<1>6. /\ sets' \in Seq(Seq(Byte)) /\ Len(sets') = Len(sets) + 1
      /\ \A k \in 1 .. Len(sets') : sets'[k] = IF k <= Len(sets) THEN sets[k] ELSE new
  BY <1>4, <1>5, InvFacts, AppendProperties
<1>7. \A k \in 1 .. Len(sets') : Len(sets'[k]) <= MAX_FOLLOWERS
  <2> TAKE k \in 1 .. Len(sets')
  <2>1. CASE k <= Len(sets)
    <3>1. k \in 1 .. Len(sets)
      BY <2>1
    <3>2. Len(sets[k]) <= MAX_FOLLOWERS
      BY <3>1 DEF Inv, Types
    <3>3. sets'[k] = sets[k]
      BY <1>6, <2>1
    <3>. QED  BY <3>2, <3>3
  <2>2. CASE ~(k <= Len(sets))
    BY <1>1, <1>4, <1>6, <2>2 DEF n
  <2>. QED  BY <2>1, <2>2
<1>8. rpos' \in Nat /\ rpos' <= Len(os.bits)
  <2>1. PICK m \in Nat : m = SetSize * BYTE_BITS
    BY <1>2, ConstantFacts, TimesNat DEF n
  <2>2. PICK a \in Nat, b \in Nat, c \in Nat : a = rpos /\ b = SIZE_BITS /\ c = Len(os.bits)
    BY InvFacts, ConstantFacts
  <2>3. rpos' = a + b + m /\ a + (b + m) <= c
    BY <1>1, <2>1, <2>2
  <2>4. a + b + m \in Nat /\ a + b + m <= c
    BY <2>3
  <2>. QED  BY <2>2, <2>3, <2>4
<1>9. dst = <<>> /\ curr_byte = 0 /\ Len(sets') <= BYTE
  <2>1. PICK m \in Nat, N \in Nat : m = Len(sets) /\ N = BYTE
    BY InvFacts, ConstantFacts
  <2>. QED  BY <1>1, <1>6, <2>1 DEF Inv, Bounds
<1>10. Bounds'
  <2>1. phase' \in {"item", "sets"} /\ (phase' = "item" => Len(sets') = BYTE)
        /\ (phase' = "sets" => Len(sets') # BYTE)
    BY <1>1
  <2>2. Len(sets') # BYTE => Len(sets') < BYTE
    <3>1. PICK m \in Nat, N \in Nat : m = Len(sets') /\ N = BYTE
      BY <1>6, LenProperties, ConstantFacts
    <3>. QED  BY <1>9, <3>1
  <2>3. Contained'
    BY <1>1 DEF Inv, Bounds, Contained, writing
  <2>. QED  BY <1>1, <1>9, <2>1, <2>2, <2>3 DEF Bounds
<1>11. curr_byte' \in Byte /\ v' \in Byte /\ len' \in 0 .. max_len /\ dst' \in Seq(Byte) /\ touched' \in Nat
  BY <1>1 DEF Inv, Types, TypeOK
<1>12. phase' \in {"sets", "item"}
  BY <1>1
<1>. QED  BY <1>1, <1>6, <1>7, <1>8, <1>9, <1>10, <1>11, <1>12, ReadingStep

\* What the next byte takes, and that it is one.
LEMMA NextFacts ==
    ASSUME Inv, Len(sets) = BYTE, Readable
    PROVE  /\ SetOf(curr_byte) \in Seq(Byte) /\ Len(SetOf(curr_byte)) \in 0 .. MAX_FOLLOWERS
           /\ NextBits \in Nat /\ rpos + NextBits \in Nat /\ rpos + NextBits <= Len(os.bits)
           /\ NextByte \in Byte
<1> DEFINE set == SetOf(curr_byte)
           bw == follower_idx_bw(Len(set))
<1>1. set \in Seq(Byte) /\ Len(set) \in 0 .. MAX_FOLLOWERS
  <2>1. BYTE - curr_byte \in 1 .. Len(sets)
    BY InvFacts, ConstantFacts, SMTT(30)
  <2>2. set \in Seq(Byte) /\ Len(set) <= MAX_FOLLOWERS
    BY <2>1, InvFacts, ElementOfSeq DEF SetOf, Inv, Types
  <2>. QED  BY <2>2, LenProperties, ConstantFacts
<1>2. bw \in Nat
  BY <1>1, IndexWidth
<1>3. NextBits = IF set = <<>> THEN BYTE_BITS ELSE 1 + (IF Literal THEN BYTE_BITS ELSE bw)
  BY DEF NextBits
<1>4. Literal \/ FollowerIdx < Len(set)
  BY DEF Readable
<1>5. FollowerIdx = istream_bits(os.bits, rpos + 1, bw)
  BY DEF FollowerIdx
<1>6. NextByte = IF Literal THEN istream_bits(os.bits, rpos + NextBits - BYTE_BITS, BYTE_BITS)
                 ELSE set[FollowerIdx + 1]
  BY DEF NextByte
<1>7. rpos + NextBits <= Len(os.bits)
  BY DEF Readable, Has
<1>8. set = <<>> => Literal
  BY DEF Literal
<1> HIDE DEF set, bw
<1>9. NextBits \in Nat /\ (Literal => NextBits >= BYTE_BITS)
  BY <1>2, <1>3, <1>8, ConstantFacts
<1>10. CASE Literal
  <2>1. rpos + NextBits - BYTE_BITS \in Nat
    <3>1. PICK a \in Nat, b \in Nat, c \in Nat : a = rpos /\ b = NextBits /\ c = BYTE_BITS
      BY <1>9, InvFacts, ConstantFacts
    <3>. QED  BY <1>9, <1>10, <3>1
  <2>2. NextByte \in Byte
    BY <1>6, <1>10, <2>1, InvFacts, ConstantFacts, ReadsType
  <2>. QED  BY <1>1, <1>7, <1>9, <2>2, InvFacts DEF set
<1>11. CASE ~Literal
  <2>1. FollowerIdx \in Nat
    <3>1. rpos + 1 \in Nat
      BY InvFacts
    <3>. QED  BY <1>2, <1>5, <3>1, InvFacts, ReadsType
  <2>2. FollowerIdx + 1 \in 1 .. Len(set)
    BY <1>1, <1>4, <1>11, <2>1
  <2>3. NextByte \in Byte
    BY <1>1, <1>6, <1>11, <2>2, ElementOfSeq
  <2>. QED  BY <1>1, <1>7, <1>9, <2>3, InvFacts DEF set
<1>. QED  BY <1>10, <1>11

\* A byte that is read in the middle of the stream.
LEMMA ReadsFacts ==
    ASSUME Inv, NEW from \in {"item", "v", "elb", "w"}, NEW to, Reads(from, to)
    PROVE  /\ Len(sets) = BYTE /\ phase = from /\ phase' = to
           /\ NextByte \in Byte /\ curr_byte' = NextByte /\ curr_byte' \in Byte
           /\ rpos' = rpos + NextBits /\ rpos' \in Nat /\ rpos' <= Len(os.bits)
           /\ UNCHANGED <<writing, os, damaged, sets>> /\ src' = src
           /\ sets' \in Seq(Seq(Byte)) /\ Len(sets') = BYTE /\ Len(sets') <= BYTE
           /\ \A k \in 1 .. Len(sets') : Len(sets'[k]) <= MAX_FOLLOWERS
<1>1. /\ phase = from /\ Readable /\ curr_byte' = NextByte /\ rpos' = rpos + NextBits
      /\ phase' = to /\ UNCHANGED <<writing, os, damaged, sets>>
  BY DEF Reads
<1>2. Len(sets) = BYTE
  BY <1>1 DEF Inv, Bounds
<1>3. /\ sets' = sets /\ src' = src /\ sets \in Seq(Seq(Byte))
      /\ \A k \in 1 .. Len(sets) : Len(sets[k]) <= MAX_FOLLOWERS
  BY <1>1 DEF Inv, Types, TypeOK, writing
<1>4. Len(sets') <= BYTE
  BY <1>2, <1>3, ConstantFacts
<1>. QED  BY <1>1, <1>2, <1>3, <1>4, NextFacts

LEMMA ReadLiteralInv == ASSUME Inv, ReadLiteral \/ ReadLiteralDLE PROVE Inv'
<1>1. PICK from \in {"item", "v"}, b \in Byte :
        /\ Reads(from, "item") /\ Output(Append(dst, b), Len(dst) + 1)
        /\ UNCHANGED <<v, len>> /\ Len(dst) < Len(src)
  <2>1. CASE ReadLiteral
    <3>1. /\ Reads("item", "item") /\ Output(Append(dst, NextByte), Len(dst) + 1)
          /\ UNCHANGED <<v, len>> /\ Len(dst) < Len(src)
      BY <2>1 DEF ReadLiteral
    <3>2. NextByte \in Byte
      BY <3>1, ReadsFacts
    <3>. QED  BY <3>1, <3>2
  <2>2. CASE ReadLiteralDLE
    <3>1. /\ Reads("v", "item") /\ Output(Append(dst, DLE_BYTE), Len(dst) + 1)
          /\ UNCHANGED <<v, len>> /\ phase = "v"
      BY <2>2 DEF ReadLiteralDLE, Reads
    <3>2. Len(dst) < Len(src)
      BY <3>1 DEF Inv, Bounds
    <3>. QED  BY <3>1, <3>2, ConstantFacts
  <2>. QED  BY <2>1, <2>2
<1>2. /\ Len(sets) = BYTE /\ phase = from /\ phase' = "item"
      /\ curr_byte' \in Byte /\ rpos' \in Nat /\ rpos' <= Len(os.bits)
      /\ UNCHANGED <<writing, os, damaged, sets>> /\ src' = src
      /\ sets' \in Seq(Seq(Byte)) /\ Len(sets') = BYTE /\ Len(sets') <= BYTE
      /\ \A k \in 1 .. Len(sets') : Len(sets'[k]) <= MAX_FOLLOWERS
  BY <1>1, ReadsFacts
<1>3. dst' \in Seq(Byte) /\ Len(dst') = Len(dst) + 1
  BY <1>1, InvFacts, AppendProperties DEF Output
<1>4. touched' \in Nat /\ Len(dst') <= Len(src') /\ touched' <= Len(src')
  <2>1. PICK t \in Nat, n \in Nat, m \in Nat : t = touched /\ n = Len(dst) /\ m = Len(src) /\ t <= m /\ n < m
    BY <1>1, InvFacts DEF Inv, Bounds, Contained
  <2>2. touched' = IF n + 1 > t THEN n + 1 ELSE t
    BY <1>1, <2>1 DEF Output
  <2>. QED  BY <1>2, <1>3, <2>1, <2>2
<1>5. Bounds'
  BY <1>2, <1>4 DEF Bounds, Contained
<1>6. v' \in Byte /\ len' \in 0 .. max_len
  BY <1>1 DEF Inv, Types, TypeOK
<1>7. phase \notin {"compress", "gave_up"} /\ phase' \in {"item"}
  BY <1>2
<1>. QED  BY <1>2, <1>3, <1>4, <1>5, <1>6, <1>7, ReadingStep
LEMMA ReadDLEInv == ASSUME Inv, ReadDLE PROVE Inv'
<1>1. /\ Reads("item", "v") /\ UNCHANGED <<v, len, dst, touched>> /\ Len(dst) < Len(src)
  BY DEF ReadDLE
<1>2. /\ Len(sets) = BYTE /\ phase = "item" /\ phase' = "v"
      /\ curr_byte' \in Byte /\ rpos' \in Nat /\ rpos' <= Len(os.bits)
      /\ UNCHANGED <<writing, os, damaged, sets>> /\ src' = src
      /\ sets' \in Seq(Seq(Byte)) /\ Len(sets') = BYTE /\ Len(sets') <= BYTE
      /\ \A k \in 1 .. Len(sets') : Len(sets'[k]) <= MAX_FOLLOWERS
  BY <1>1, ReadsFacts
<1>3. Bounds'
  BY <1>1, <1>2 DEF Inv, Bounds, Contained
<1>4. v' \in Byte /\ len' \in 0 .. max_len /\ dst' \in Seq(Byte) /\ touched' \in Nat
  BY <1>1 DEF Inv, Types, TypeOK
<1>. QED  BY <1>2, <1>3, <1>4, ReadingStep

LEMMA ReadVInv == ASSUME Inv, ReadV PROVE Inv'
<1> DEFINE low == lsb(NextByte, v_len_bits)
           to == IF low = V_LEN_MAX THEN "elb" ELSE "w"
<1>1. /\ Reads("v", to) /\ v' = NextByte /\ len' = low + 3 /\ UNCHANGED <<dst, touched>>
  BY DEF ReadV
<1>2. /\ Len(sets) = BYTE /\ phase = "v" /\ phase' = to
      /\ NextByte \in Byte /\ curr_byte' \in Byte /\ rpos' \in Nat /\ rpos' <= Len(os.bits)
      /\ UNCHANGED <<writing, os, damaged, sets>> /\ src' = src
      /\ sets' \in Seq(Seq(Byte)) /\ Len(sets') = BYTE /\ Len(sets') <= BYTE
      /\ \A k \in 1 .. Len(sets') : Len(sets'[k]) <= MAX_FOLLOWERS
  <2> HIDE DEF to
  <2>. QED  BY <1>1, ReadsFacts
<1>3. low \in 0 .. V_LEN_MAX
  <2>1. PICK x \in Nat, u \in Nat \ {0} : x = NextByte /\ u = 2 ^ v_len_bits /\ V_LEN_MAX = u - 1
    BY <1>2, VFacts, ConstantFacts
  <2>2. x % u \in 0 .. u - 1
    BY DivMod
  <2>. QED  BY <2>1, <2>2 DEF lsb
<1> HIDE DEF low
<1>4. len' \in 0 .. max_len /\ (to = "elb" => len' = V_LEN_MAX + 3)
  <2>1. PICK a \in Nat, m \in Nat, b \in Nat : a = low /\ m = V_LEN_MAX /\ b = BYTE /\ a <= m /\ b >= 2
    BY <1>3, VFacts, ConstantFacts
  <2>2. len' = a + 3 /\ max_len = m + b + 2
    BY <1>1, <2>1, VFacts
  <2>. QED  BY <2>1, <2>2
<1>5. dst' = dst /\ touched' = touched /\ Len(dst) < Len(src) /\ Contained
  BY <1>1, <1>2 DEF Inv, Bounds
<1>6. phase' \in {"elb", "w"} /\ (phase' = "elb" => len' = V_LEN_MAX + 3)
  BY <1>2, <1>4
<1>7. Bounds'
  BY <1>2, <1>5, <1>6 DEF Bounds, Contained
<1>8. v' \in Byte /\ dst' \in Seq(Byte) /\ touched' \in Nat
  BY <1>1, <1>2, InvFacts
<1>. QED  BY <1>2, <1>4, <1>6, <1>7, <1>8, ReadingStep

LEMMA ReadExtraLengthInv == ASSUME Inv, ReadExtraLength PROVE Inv'
<1>1. Reads("elb", "w") /\ len' = len + NextByte /\ UNCHANGED <<v, dst, touched>>
  BY DEF ReadExtraLength
<1>2. /\ Len(sets) = BYTE /\ phase = "elb" /\ phase' = "w"
      /\ NextByte \in Byte /\ curr_byte' \in Byte /\ rpos' \in Nat /\ rpos' <= Len(os.bits)
      /\ UNCHANGED <<writing, os, damaged, sets>> /\ src' = src
      /\ sets' \in Seq(Seq(Byte)) /\ Len(sets') = BYTE /\ Len(sets') <= BYTE
      /\ \A k \in 1 .. Len(sets') : Len(sets'[k]) <= MAX_FOLLOWERS
  BY <1>1, ReadsFacts
<1>3. len' \in 0 .. max_len
  <2>1. PICK m \in Nat, x \in Nat, b \in Nat : m = V_LEN_MAX /\ x = NextByte /\ b = BYTE /\ x <= b - 1
    BY <1>2, VFacts, ConstantFacts
  <2>2. len = m + 3 /\ max_len = m + b + 2
    BY <1>2, <2>1, VFacts DEF Inv, Bounds
  <2>. QED  BY <1>1, <2>1, <2>2
<1>4. Bounds'
  BY <1>1, <1>2 DEF Inv, Bounds, Contained
<1>5. v' \in Byte /\ dst' \in Seq(Byte) /\ touched' \in Nat
  BY <1>1, InvFacts
<1>. QED  BY <1>2, <1>3, <1>4, <1>5, ReadingStep

\* The copy is of len bytes, from what is there, or of zeros.
LEMMA CopyFacts ==
    ASSUME NEW d \in Seq(Byte), NEW D \in Nat \ {0}, NEW L \in Nat
    PROVE  /\ output_backref(d, D, L) \in Seq(Byte)
           /\ Len(output_backref(d, D, L)) = Len(d) + L
<1> DEFINE f(k) == LET i == Len(d) - D + ((k - 1) % D) + 1 IN IF i < 1 THEN 0 ELSE d[i]
           c == [k \in 1 .. L |-> f(k)]
<1>1. PICK n \in Nat : n = Len(d)
  BY LenProperties
<1>2. \A k \in 1 .. L : f(k) \in Byte
  <2> TAKE k \in 1 .. L
  <2>1. k - 1 \in Nat
    OBVIOUS
  <2>2. PICK m \in Nat : m = (k - 1) % D /\ m <= D - 1
    <3>1. PICK j \in Nat : j = k - 1
      BY <2>1
    <3>2. j % D \in 0 .. D - 1
      BY DivMod
    <3>. QED  BY <3>1, <3>2
  <2>3. f(k) = IF n - D + m + 1 < 1 THEN 0 ELSE d[n - D + m + 1]
    BY <1>1, <2>2
  <2>4. CASE n - D + m + 1 < 1
    BY <2>3, <2>4, ConstantFacts
  <2>5. CASE ~(n - D + m + 1 < 1)
    <3>1. n - D + m + 1 \in 1 .. n
      BY <2>2, <2>5
    <3>2. d[n - D + m + 1] \in Byte
      BY <1>1, <3>1, ElementOfSeq
    <3>. QED  BY <2>3, <2>5, <3>2
  <2>. QED  BY <2>4, <2>5
<1> HIDE DEF f
<1>3. c \in Seq(Byte) /\ Len(c) = L
  BY <1>2
<1>4. output_backref(d, D, L) = d \o c
  BY DEF output_backref, f
<1> HIDE DEF c
<1>. QED  BY <1>3, <1>4, ConcatProperties

LEMMA ReadWInv == ASSUME Inv, ReadW PROVE Inv'
<1>1. /\ Reads("w", "item") /\ len <= Room
      /\ dst' = output_backref(dst, dist, len)
      /\ UNCHANGED <<v, len>>
  BY DEF ReadW, Output
<1> DEFINE upto == IF InChunks THEN WrittenTo(dst, dist, len, CHUNK) ELSE Len(dst) + len
<1>2. touched' = IF upto > touched THEN upto ELSE touched
  BY DEF ReadW, Output
<1>3. /\ Len(sets) = BYTE /\ phase = "w" /\ phase' = "item"
      /\ NextByte \in Byte /\ curr_byte' \in Byte /\ rpos' \in Nat /\ rpos' <= Len(os.bits)
      /\ UNCHANGED <<writing, os, damaged, sets>> /\ src' = src
      /\ sets' \in Seq(Seq(Byte)) /\ Len(sets') = BYTE /\ Len(sets') <= BYTE
      /\ \A k \in 1 .. Len(sets') : Len(sets'[k]) <= MAX_FOLLOWERS
  BY <1>1, ReadsFacts
<1>4. PICK D \in Nat \ {0} : D = dist
  <2>1. PICK x \in Nat, u \in Nat \ {0} : x = v /\ u = 2 ^ v_len_bits
    BY InvFacts, ConstantFacts, VFacts
  <2>2. PICK q \in Nat : q = v \div 2 ^ v_len_bits
    BY <2>1, DivMod
  <2>3. PICK w \in Nat : w = q * BYTE
    BY ConstantFacts, TimesNat
  <2>4. PICK y \in Nat : y = NextByte
    BY <1>3, ConstantFacts
  <2>5. dist = w + y + 1
    BY <2>2, <2>3, <2>4 DEF dist
  <2>. QED  BY <2>5
<1>5. PICK n \in Nat, m \in Nat, L \in Nat, t \in Nat, c \in Nat \ {0} :
        n = Len(dst) /\ m = Len(src) /\ L = len /\ t = touched /\ t <= m /\ n < m /\ c = CHUNK
  BY <1>3, InvFacts, ConstantFacts DEF Inv, Bounds, Contained
<1>6. L <= m - n
  BY <1>1, <1>5 DEF Room
<1>7. dst' \in Seq(Byte) /\ Len(dst') = n + L
  BY <1>1, <1>4, <1>5, InvFacts, CopyFacts
<1>8. upto \in Nat /\ upto <= m
  <2>1. CASE InChunks
    <3>1. round_up(L, c) \in Nat /\ round_up(L, c) <= m - n
      BY <1>5, <2>1, RoundUp DEF InChunks, Room
    <3>2. upto = n + (IF L > D THEN L ELSE round_up(L, c))
      BY <1>4, <1>5, <2>1 DEF WrittenTo, round_up
    <3> HIDE DEF upto
    <3>. QED  BY <1>6, <3>1, <3>2
  <2>2. CASE ~InChunks
    <3>1. upto = n + L
      BY <1>5, <2>2
    <3> HIDE DEF upto
    <3>. QED  BY <1>6, <3>1
  <2>. QED  BY <2>1, <2>2
<1> HIDE DEF upto
<1>9. touched' \in Nat /\ touched' <= m /\ Len(dst') <= m
  BY <1>2, <1>5, <1>6, <1>7, <1>8
<1>10. Bounds'
  BY <1>3, <1>5, <1>9 DEF Bounds, Contained
<1>11. v' \in Byte /\ len' \in 0 .. max_len
  BY <1>1 DEF Inv, Types, TypeOK
<1>. QED  BY <1>3, <1>7, <1>9, <1>10, <1>11, ReadingStep

LEMMA EndsInv == ASSUME Inv, BadSet \/ BadByte \/ NoRoom \/ Done PROVE Inv'
<1>1. phase \notin {"compress", "gave_up"} /\ phase' \in {"ok", "error"}
      /\ UNCHANGED <<writing, os, damaged, reading>>
  BY DEF BadSet, BadByte, NoRoom, Done, Error
<1>. QED  BY <1>1, EndStep

LEMMA NextInv == Inv /\ [Next]_vars => Inv'
<1> SUFFICES ASSUME Inv, [Next]_vars PROVE Inv'
  OBVIOUS
<1>1. ASSUME Compress PROVE Inv'
  BY <1>1, LitInv, BackrefInv, BufferInv, FlushAtEndInv, WriteByteInv, WrittenInv DEF Compress
<1>2. ASSUME Expand PROVE Inv'
  BY <1>2, ReadSetInv, ReadLiteralInv, ReadDLEInv, ReadVInv, ReadExtraLengthInv, ReadWInv, EndsInv DEF Expand
<1>3. ASSUME UNCHANGED vars PROVE Inv'
  BY <1>3 DEF Inv, Types, Bounds, TypeOK, Contained, vars, writing, reading
<1>. QED  BY <1>1, <1>2, <1>3 DEF Next

\* In every reachable state the variables have their types, and the bounds hold.
THEOREM InvariantHolds == Spec => []Inv
<1>1. Init => Inv
  BY InitInv
<1>2. Inv /\ [Next]_vars => Inv'
  BY NextInv
<1>. QED  BY <1>1, <1>2, PTL DEF Spec

\* Whatever the stream, hwexpand writes nothing past the buffer of uncomp_len bytes,
\* whole chunks included.
THEOREM WritesInside == Spec => []Contained
<1>1. Inv => Contained
  BY DEF Inv, Bounds
<1>. QED  BY <1>1, InvariantHolds, PTL

\* No assertion of hwreduce fails: the buffer is flushed before it overflows, all
\* that is written are bytes, and none of the back references lz77.c can pass has
\* a V of zero, which would be read as a literal DLE.
THEOREM AssertionsHold == Spec => []NoAssertFails
<1>1. ASSUME Inv PROVE NoAssertFails
  <2>1. TypeOK /\ (~flushed => Len(raw) < RAW_BYTES_SZ)
    BY <1>1 DEF Inv, Types
  <2>2. \A i \in 1 .. Len(pending) : pending[i] \in Byte
    BY <1>1, InvFacts, ElementOfSeq
  <2>3. \A r \in Backrefs(src, pos, max_dist, max_len, FALSE) : VByte(r) # 0
    <3> TAKE r \in Backrefs(src, pos, max_dist, max_len, FALSE)
    <3>1. PICK D \in Nat, L \in Nat : /\ r = [dist |-> D, len |-> L]
                                      /\ D >= 1 /\ D <= max_dist /\ L > 3 /\ L <= max_len
      BY <1>1, InvFacts, BackrefFacts
    <3>2. VByte(r) = VOf(L - 3, D - 1) /\ L - 3 \in Nat /\ D - 1 \in Nat
          /\ L - 3 >= 1 /\ L - 3 < V_LEN_MAX + BYTE /\ D - 1 < max_dist
      BY <3>1, VByteFacts
    <3>. QED  BY <3>2, VOfFacts
  <2>. QED  BY <2>1, <2>2, <2>3 DEF NoAssertFails
<1>. QED  BY <1>1, InvariantHolds, PTL
--------------------------------------------------------------------------------
(***************************************************************************)
(* What the bytes stand for, and where they are in the stream.             *)
(***************************************************************************)
\* The L bytes of the input after p are those D before, as lz77.c may find.
IsBackref(p, D, L) ==
    /\ D >= 1 /\ D <= max_dist /\ D <= p
    /\ L > 3 /\ L <= max_len /\ L <= D /\ p + L <= Len(src)
    /\ \A k \in 1 .. L : src[p + k] = src[p + k - D]

\* The bytes of s after a and up to z are a back reference: l and d are what is
\* left of its length and distance when the least is taken away.
BackrefAt(s, a, z, l, d) ==
    /\ s[a + 1] = DLE_BYTE /\ s[a + 2] = VOf(l, d)
    /\ IF l >= V_LEN_MAX THEN z = a + 4 /\ s[a + 3] = l - V_LEN_MAX /\ s[a + 4] = d % BYTE
       ELSE z = a + 3 /\ s[a + 3] = d % BYTE

\* The bytes of s after a and up to z stand for those of the input after p and up to q.
LiteralAt(s, a, z, p, q) == q = p + 1 /\ z = a + 1 /\ src[q] # DLE_BYTE /\ s[z] = src[q]

LiteralDLEAt(s, a, z, p, q) ==
    q = p + 1 /\ z = a + 2 /\ src[q] = DLE_BYTE /\ s[a + 1] = DLE_BYTE /\ s[a + 2] = 0

CopyAt(s, a, z, p, q, D, L) == IsBackref(p, D, L) /\ q = p + L /\ BackrefAt(s, a, z, L - 3, D - 1)

TokenAt(s, a, z, p, q) ==
    \/ LiteralAt(s, a, z, p, q)
    \/ LiteralDLEAt(s, a, z, p, q)
    \/ \E D \in Nat, L \in Nat : CopyAt(s, a, z, p, q, D, L)

\* s is n tokens, the i-th up to c[i] for the input up to t[i], which is at in the end.
Tokens(s, n, c, t, at) ==
    /\ n \in Nat /\ c \in [0 .. n -> Nat] /\ t \in [0 .. n -> Nat]
    /\ c[0] = 0 /\ t[0] = 0 /\ c[n] = Len(s) /\ t[n] = at
    /\ \A i \in 0 .. n - 1 : c[i] < Len(s) /\ t[i] < at
    /\ \A i \in 1 .. n : TokenAt(s, c[i - 1], c[i], t[i - 1], t[i])

\* The numbers of a back reference.
LEMMA CopyNumbers ==
    ASSUME NEW p, NEW D \in Nat, NEW L \in Nat, IsBackref(p, D, L)
    PROVE  /\ L - 3 \in Nat /\ D - 1 \in Nat /\ (L - 3) + 3 = L /\ (D - 1) + 1 = D
           /\ VOf(L - 3, D - 1) \in Byte /\ VOf(L - 3, D - 1) # 0
           /\ VOf(L - 3, D - 1) % 2 ^ v_len_bits = (IF L - 3 < V_LEN_MAX THEN L - 3 ELSE V_LEN_MAX)
           /\ VOf(L - 3, D - 1) \div 2 ^ v_len_bits = (D - 1) \div BYTE
           /\ ((D - 1) \div BYTE) * BYTE + ((D - 1) % BYTE) = D - 1
<1>1. D >= 1 /\ D <= max_dist /\ L > 3 /\ L <= max_len
  BY DEF IsBackref
<1>2. PICK l \in Nat, d \in Nat : l = L - 3 /\ d = D - 1 /\ l + 3 = L /\ d + 1 = D
  BY <1>1
<1>3. l >= 1 /\ l < V_LEN_MAX + BYTE /\ d < max_dist
  BY <1>1, <1>2, VByteFacts
<1>. QED  BY <1>2, <1>3, VOfFacts

LEMMA TokenKept ==
    ASSUME NEW s \in Seq(Byte), NEW u, NEW a \in Nat, NEW z \in Nat, NEW p, NEW q,
           z <= Len(s), \A k \in 1 .. Len(s) : u[k] = s[k], TokenAt(s, a, z, p, q)
    PROVE  TokenAt(u, a, z, p, q)
<1>0. Len(s) \in Nat
  BY LenProperties
<1>1. CASE LiteralAt(s, a, z, p, q)
  <2>1. z = a + 1 /\ z \in 1 .. Len(s)
    BY <1>0, <1>1 DEF LiteralAt
  <2>. QED  BY <1>1, <2>1 DEF LiteralAt, TokenAt
<1>2. CASE LiteralDLEAt(s, a, z, p, q)
  <2>1. a + 1 \in 1 .. Len(s) /\ a + 2 \in 1 .. Len(s)
    BY <1>0, <1>2 DEF LiteralDLEAt
  <2>2. u[a + 1] = s[a + 1] /\ u[a + 2] = s[a + 2]
    BY <2>1
  <2>. QED  BY <1>2, <2>2 DEF LiteralDLEAt, TokenAt
<1>3. CASE \E D \in Nat, L \in Nat : CopyAt(s, a, z, p, q, D, L)
  <2>1. PICK D \in Nat, L \in Nat : CopyAt(s, a, z, p, q, D, L)
    BY <1>3
  <2>2. PICK l, d : l = L - 3 /\ d = D - 1
    OBVIOUS
  <2>3. BackrefAt(s, a, z, l, d)
    BY <2>1, <2>2 DEF CopyAt
  <2>4. ASSUME l >= V_LEN_MAX PROVE BackrefAt(u, a, z, l, d)
    <3>1. z = a + 4 /\ a + 1 \in 1 .. Len(s) /\ a + 2 \in 1 .. Len(s) /\ a + 3 \in 1 .. Len(s) /\ a + 4 \in 1 .. Len(s)
      <4>1. z = a + 4
        BY <2>3, <2>4 DEF BackrefAt
      <4>. QED  BY <1>0, <4>1
    <3>2. u[a + 1] = s[a + 1] /\ u[a + 2] = s[a + 2] /\ u[a + 3] = s[a + 3] /\ u[a + 4] = s[a + 4]
      BY <3>1
    <3>. QED  BY <2>3, <2>4, <3>2 DEF BackrefAt
  <2>5. ASSUME ~(l >= V_LEN_MAX) PROVE BackrefAt(u, a, z, l, d)
    <3>1. z = a + 3 /\ a + 1 \in 1 .. Len(s) /\ a + 2 \in 1 .. Len(s) /\ a + 3 \in 1 .. Len(s)
      <4>1. z = a + 3
        BY <2>3, <2>5 DEF BackrefAt
      <4>. QED  BY <1>0, <4>1
    <3>2. u[a + 1] = s[a + 1] /\ u[a + 2] = s[a + 2] /\ u[a + 3] = s[a + 3]
      BY <3>1
    <3>. QED  BY <2>3, <2>5, <3>2 DEF BackrefAt
  <2>6. BackrefAt(u, a, z, l, d)
    BY <2>3, <2>4, <2>5
  <2>7. CopyAt(u, a, z, p, q, D, L)
    BY <2>1, <2>2, <2>6 DEF CopyAt
  <2>. QED  BY <2>7 DEF TokenAt
<1>. QED  BY <1>1, <1>2, <1>3 DEF TokenAt

\* One token more.
LEMMA TokensMore ==
    ASSUME NEW s \in Seq(Byte), NEW n, NEW c, NEW t, NEW at \in Nat, Tokens(s, n, c, t, at),
           NEW bytes \in Seq(Byte), Len(bytes) >= 1, NEW q \in Nat, q > at,
           TokenAt(s \o bytes, Len(s), Len(s) + Len(bytes), at, q)
    PROVE  \E m, d, u : Tokens(s \o bytes, m, d, u, q)
<1> DEFINE x == s \o bytes
           d == [i \in 0 .. n + 1 |-> IF i = n + 1 THEN Len(s) + Len(bytes) ELSE c[i]]
           u == [i \in 0 .. n + 1 |-> IF i = n + 1 THEN q ELSE t[i]]
<1>1. /\ n \in Nat /\ c \in [0 .. n -> Nat] /\ t \in [0 .. n -> Nat]
      /\ c[0] = 0 /\ t[0] = 0 /\ c[n] = Len(s) /\ t[n] = at
  BY DEF Tokens
<1>2. /\ Len(x) = Len(s) + Len(bytes) /\ Len(s) \in Nat /\ Len(bytes) \in Nat
      /\ \A k \in 1 .. Len(s) : x[k] = s[k]
  BY LenProperties, ConcatProperties
<1> HIDE DEF x
<1>3. /\ n + 1 \in Nat /\ d \in [0 .. n + 1 -> Nat] /\ u \in [0 .. n + 1 -> Nat]
      /\ d[n + 1] = Len(s) + Len(bytes) /\ u[n + 1] = q
      /\ \A i \in 0 .. n : d[i] = c[i] /\ u[i] = t[i]
  BY <1>1, <1>2
<1> HIDE DEF d, u
<1>4. ASSUME NEW i \in 0 .. n PROVE d[i] < Len(x) /\ u[i] < q
  <2>1. c[i] <= Len(s) /\ t[i] <= at /\ c[i] \in Nat /\ t[i] \in Nat
    <3>1. CASE i = n
      BY <1>1, <1>2, <3>1
    <3>2. CASE i # n
      <4>1. i \in 0 .. n - 1
        BY <1>1, <3>2
      <4>2. c[i] < Len(s) /\ t[i] < at
        BY <4>1 DEF Tokens
      <4>. QED  BY <1>1, <1>2, <4>2
    <3>. QED  BY <3>1, <3>2
  <2>. QED  BY <1>2, <1>3, <2>1
<1>5. ASSUME NEW i \in 1 .. n + 1 PROVE TokenAt(x, d[i - 1], d[i], u[i - 1], u[i])
  <2>1. CASE i = n + 1
    <3>1. i - 1 = n /\ n \in 0 .. n
      BY <1>1, <2>1
    <3>2. d[i - 1] = Len(s) /\ u[i - 1] = at
      BY <1>1, <1>3, <3>1
    <3>. QED  BY <1>3, <2>1, <3>2 DEF x
  <2>2. CASE i # n + 1
    <3>1. i \in 1 .. n /\ i \in 0 .. n /\ i - 1 \in 0 .. n
      BY <1>1, <2>2
    <3>2. TokenAt(s, c[i - 1], c[i], t[i - 1], t[i])
      BY <3>1 DEF Tokens
    <3>3. c[i - 1] \in Nat /\ c[i] \in Nat /\ c[i] <= Len(s)
      <4>1. CASE i = n
        BY <1>1, <1>2, <3>1, <4>1
      <4>2. CASE i # n
        <5>1. i \in 0 .. n - 1
          BY <1>1, <3>1, <4>2
        <5>2. c[i] < Len(s)
          BY <5>1 DEF Tokens
        <5>. QED  BY <1>1, <1>2, <3>1, <5>2
      <4>. QED  BY <4>1, <4>2
    <3>4. TokenAt(x, c[i - 1], c[i], t[i - 1], t[i])
      BY <1>2, <3>2, <3>3, TokenKept
    <3>. QED  BY <1>3, <3>1, <3>4
  <2>. QED  BY <2>1, <2>2
<1>6. d[0] = 0 /\ u[0] = 0 /\ \A i \in 0 .. (n + 1) - 1 : i \in 0 .. n
  BY <1>1, <1>3
<1>7. Tokens(x, n + 1, d, u, q)
  BY <1>2, <1>3, <1>4, <1>5, <1>6 DEF Tokens
<1>. QED  BY <1>7 DEF x

\* The byte before the k-th.
Before(s, k) == IF k = 1 THEN 0 ELSE s[k - 1]

\* The bytes of s stand in the stream after the follower sets, the k-th up to b[k].
Stream(s, o, b) ==
    /\ Ends(o, fsets) /\ SetsAt(os.bits, o, fsets)
    /\ b \in [0 .. Len(s) -> Nat] /\ b[0] = o[BYTE]
    /\ \A k \in 1 .. Len(s) : /\ b[k] = b[k - 1] + Len(ByteBits(Before(s, k), s[k]))
                              /\ At(os.bits, b[k - 1], ByteBits(Before(s, k), s[k]))

Sets == [p \in Byte |-> FollowerSet(follower_count(raw, p))]

\* All that was ever pending is tokens, and what is written of it is in the stream.
Written1(s, w, o, b) ==
    /\ w \in Seq(Byte) /\ s = w \o pending
    /\ Stream(w, o, b) /\ b[Len(w)] = Len(os.bits) /\ prev_byte = Before(w, Len(w) + 1)
    /\ fsets = Sets
    /\ Len(raw) < RAW_BYTES_SZ => s = raw /\ pos = Len(src)

Writing ==
    \E s \in Seq(Byte) :
        /\ \E n, c, t : Tokens(s, n, c, t, pos)
        /\ ~flushed => s = raw \o pending /\ os.bits = <<>> /\ prev_byte = 0
        /\ flushed => \E w, o, b : Written1(s, w, o, b)

LEMMA InitWriting == Init => Writing
<1> SUFFICES ASSUME Init PROVE Writing
  OBVIOUS
<1> DEFINE z == [i \in 0 .. 0 |-> 0]
<1>1. z \in [0 .. 0 -> Nat] /\ z[0] = 0
  OBVIOUS
<1> HIDE DEF z
<1>2. <<>> \in Seq(Byte) /\ Len(<<>>) = 0 /\ <<>> \o <<>> = <<>>
  BY EmptySeq, ConcatEmptySeq
<1>3. Tokens(<<>>, 0, z, z, 0)
  BY <1>1, <1>2 DEF Tokens
<1>4. os.bits = <<>>
  BY DEF Init, ostream
<1>. QED  BY <1>2, <1>3, <1>4 DEF Init, Writing
LEMMA TokensStay ==
    ASSUME src' = src, NEW s, NEW n, NEW c, NEW t, NEW at, Tokens(s, n, c, t, at)
    PROVE  Tokens(s, n, c, t, at)'
  BY DEF Tokens, TokenAt, LiteralAt, LiteralDLEAt, CopyAt, IsBackref, BackrefAt

LEMMA HeadMoves ==
    ASSUME NEW S, NEW w \in Seq(S), NEW r \in Seq(S), r # <<>>
    PROVE  Append(w, Head(r)) \o Tail(r) = w \o r
<1>1. Head(r) \in S /\ Tail(r) \in Seq(S) /\ Len(Tail(r)) = Len(r) - 1 /\ Len(r) \in Nat /\ Len(r) >= 1
      /\ Head(r) = r[1] /\ \A k \in 1 .. Len(r) - 1 : Tail(r)[k] = r[k + 1]
  BY HeadTailProperties, EmptySeq, LenProperties
<1>2. PICK h \in S, T \in Seq(S) : h = Head(r) /\ T = Tail(r)
  BY <1>1
<1>3. PICK m \in Nat, n \in Nat : m = Len(w) /\ n = Len(r)
  BY LenProperties
<1>4. /\ Append(w, h) \in Seq(S) /\ Len(Append(w, h)) = m + 1
      /\ \A k \in 1 .. m + 1 : Append(w, h)[k] = IF k <= m THEN w[k] ELSE h
  BY <1>3, AppendProperties
<1>5. PICK u \in Seq(S) : u = Append(w, h)
  BY <1>4
<1>6. /\ u \o T \in Seq(S) /\ Len(u \o T) = (m + 1) + (n - 1)
      /\ \A k \in 1 .. (m + 1) + (n - 1) : (u \o T)[k] = IF k <= m + 1 THEN u[k] ELSE T[k - (m + 1)]
  BY <1>1, <1>2, <1>3, <1>4, <1>5, ConcatProperties
<1>7. /\ w \o r \in Seq(S) /\ Len(w \o r) = m + n
      /\ \A k \in 1 .. m + n : (w \o r)[k] = IF k <= m THEN w[k] ELSE r[k - m]
  BY <1>3, ConcatProperties
<1>8. PICK x \in Seq(S), y \in Seq(S) : x = u \o T /\ y = w \o r
  BY <1>6, <1>7
<1>9. ASSUME NEW k \in 1 .. m + n PROVE x[k] = y[k]
  <2>1. n >= 1 /\ (m + 1) + (n - 1) = m + n
    BY <1>1, <1>3
  <2>2. x[k] = IF k <= m + 1 THEN u[k] ELSE T[k - (m + 1)]
    BY <1>6, <1>8, <2>1
  <2>3. y[k] = IF k <= m THEN w[k] ELSE r[k - m]
    BY <1>7, <1>8
  <2>4. CASE k <= m
    <3>1. k \in 1 .. m + 1 /\ k <= m + 1
      BY <2>4
    <3>2. u[k] = w[k]
      BY <1>4, <1>5, <2>4, <3>1
    <3>. QED  BY <2>2, <2>3, <2>4, <3>1, <3>2
  <2>5. CASE k = m + 1
    <3>1. k - m = 1 /\ ~(k <= m) /\ k <= m + 1 /\ k \in 1 .. m + 1
      BY <2>5
    <3>2. u[k] = h
      BY <1>4, <1>5, <3>1
    <3>. QED  BY <1>1, <1>2, <2>2, <2>3, <3>1, <3>2
  <2>6. CASE k > m + 1
    <3>1. k - (m + 1) \in 1 .. n - 1 /\ (k - (m + 1)) + 1 = k - m /\ ~(k <= m) /\ ~(k <= m + 1)
      BY <2>1, <2>6
    <3>2. T[k - (m + 1)] = r[(k - (m + 1)) + 1]
      BY <1>1, <1>2, <1>3, <3>1
    <3>. QED  BY <2>2, <2>3, <3>1, <3>2
  <2>. QED  BY <2>4, <2>5, <2>6
<1>10. x = y
  <2>1. Len(x) = m + n /\ Len(y) = m + n
    <3>1. n >= 1 /\ (m + 1) + (n - 1) = m + n
      BY <1>1, <1>3
    <3>. QED  BY <1>6, <1>7, <1>8, <3>1
  <2>. QED  BY <1>9, <2>1, SeqEqual
<1>. QED  BY <1>2, <1>5, <1>8, <1>10

LEMMA TokenWriting ==
    ASSUME Inv, Writing, NEW bytes \in Seq(Byte), Len(bytes) >= 1, NEW n \in Nat, n >= 1, pos + n <= Len(src),
           Token(bytes, n),
           \A s \in Seq(Byte) : TokenAt(s \o bytes, Len(s), Len(s) + Len(bytes), pos, pos + n)
    PROVE  Writing'
<1>1. pending = <<>> /\ pending' = bytes /\ pos' = pos + n
      /\ UNCHANGED <<phase, os, src, raw, flushed, fsets, prev_byte>>
  BY DEF Token
<1>2. PICK s \in Seq(Byte) :
        /\ \E m, c, t : Tokens(s, m, c, t, pos)
        /\ ~flushed => s = raw \o pending /\ os.bits = <<>> /\ prev_byte = 0
        /\ flushed => \E w, o, b : Written1(s, w, o, b)
  BY DEF Writing
<1>3. PICK m, c, t : Tokens(s, m, c, t, pos)
  BY <1>2
<1>4. pos \in Nat /\ pos + n \in Nat /\ pos + n > pos /\ pos # Len(src)
  <2>1. PICK a \in Nat, b \in Nat : a = pos /\ b = Len(src)
    BY InvFacts, SMTT(30)
  <2>2. a + n <= b
    BY <2>1
  <2>3. a + n > a /\ a # b
    BY <2>2
  <2>. QED  BY <2>1, <2>3
<1>11. PICK q \in Nat : q = pos + n
  BY <1>4
<1>5. PICK k, d, u : Tokens(s \o bytes, k, d, u, q)
  <2>1. TokenAt(s \o bytes, Len(s), Len(s) + Len(bytes), pos, q)
    BY <1>11
  <2>2. PICK a \in Nat : a = pos /\ q > a
    BY <1>4, <1>11
  <2>. QED  BY <1>3, <2>1, <2>2, TokensMore
<1>6. Tokens(s \o bytes, k, d, u, q)'
  BY <1>1, <1>5, TokensStay
<1>7. \E x, y, z : Tokens(s \o bytes, x, y, z, pos)'
  <2>1. Tokens(s \o bytes, k, d, u, pos)'
    BY <1>1, <1>6, <1>11 DEF Tokens
  <2>. QED  BY <2>1
<1>8. s \o bytes \in Seq(Byte)
  BY ConcatProperties
<1>9. ASSUME ~flushed PROVE s \o bytes = raw' \o pending' /\ os'.bits = <<>> /\ prev_byte' = 0
  <2>1. raw \o <<>> = raw
    BY InvFacts, ConcatEmptySeq
  <2>. QED  BY <1>1, <1>2, <1>9, <2>1
<1>10. ASSUME flushed PROVE \E w, o, b : Written1(s \o bytes, w, o, b)'
  <2>1. PICK w, o, b : Written1(s, w, o, b)
    BY <1>2, <1>10
  <2>2. w \in Seq(Byte) /\ s = w \o <<>>
    BY <1>1, <2>1 DEF Written1
  <2>3. s = w
    BY <2>2, ConcatEmptySeq
  <2>4. Written1(s \o bytes, w, o, b)'
    <3>1. Stream(w, o, b)'
      BY <1>1, <2>1 DEF Written1, Stream, ByteBits
    <3>2. b[Len(w)] = Len(os'.bits) /\ prev_byte' = Before(w, Len(w) + 1) /\ fsets' = Sets'
      BY <1>1, <2>1 DEF Written1, Sets
    <3>3. ~(Len(raw) < RAW_BYTES_SZ)
      BY <1>4, <2>1 DEF Written1
    <3>. QED  BY <1>1, <2>2, <2>3, <3>1, <3>2, <3>3 DEF Written1
  <2>. QED  BY <2>4
<1>. QED  BY <1>1, <1>7, <1>8, <1>9, <1>10 DEF Writing

LEMMA LitWriting == ASSUME Inv, Writing, lit_callback PROVE Writing'
<1> DEFINE b == IF src[pos + 1] = DLE_BYTE THEN <<DLE_BYTE, 0>> ELSE <<src[pos + 1]>>
<1>1. pos + 1 \in 1 .. Len(src)
  BY InvFacts DEF lit_callback
<1>2. PICK x \in Byte : x = src[pos + 1]
  BY <1>1, InvFacts, ElementOfSeq
<1>3. b = IF x = DLE_BYTE THEN <<DLE_BYTE, 0>> ELSE <<x>>
  BY <1>2
<1>4. Token(b, 1)
  BY DEF lit_callback
<1> HIDE DEF b
<1>5. DLE_BYTE \in Byte /\ 0 \in Byte
  BY ConstantFacts
<1>6. PICK y \in Byte, z \in Byte : y = DLE_BYTE /\ z = 0
  BY <1>5
<1>7. <<y, z>> \in Seq(Byte) /\ <<x>> \in Seq(Byte)
  OBVIOUS
<1>8. b \in Seq(Byte) /\ Len(b) \in {1, 2}
      /\ (x = DLE_BYTE => Len(b) = 2 /\ b[1] = DLE_BYTE /\ b[2] = 0)
      /\ (x # DLE_BYTE => Len(b) = 1 /\ b[1] = x)
  BY <1>3, <1>6, <1>7
<1>9. ASSUME NEW s \in Seq(Byte) PROVE TokenAt(s \o b, Len(s), Len(s) + Len(b), pos, pos + 1)
  <2>1. PICK m \in Nat, l \in Nat : m = Len(s) /\ l = Len(b)
    BY LenProperties
  <2>2. \A k \in 1 .. m + l : (s \o b)[k] = IF k <= m THEN s[k] ELSE b[k - m]
    BY <1>8, <2>1, ConcatProperties
  <2>3. PICK u : u = s \o b
    OBVIOUS
  <2>4. \A k \in 1 .. l : u[m + k] = b[k]
    <3> TAKE k \in 1 .. l
    <3>1. m + k \in 1 .. m + l /\ ~(m + k <= m) /\ (m + k) - m = k
      OBVIOUS
    <3>. QED  BY <2>2, <2>3, <3>1
  <2>5. CASE x = DLE_BYTE
    <3>1. u[m + 1] = DLE_BYTE /\ u[m + 2] = 0 /\ l = 2
      BY <1>8, <2>1, <2>4, <2>5
    <3>2. LiteralDLEAt(u, m, m + l, pos, pos + 1)
      BY <1>2, <2>5, <3>1 DEF LiteralDLEAt
    <3>. QED  BY <2>1, <2>3, <3>2 DEF TokenAt
  <2>6. CASE x # DLE_BYTE
    <3>1. u[m + 1] = x /\ l = 1
      BY <1>8, <2>1, <2>4, <2>6
    <3>2. LiteralAt(u, m, m + l, pos, pos + 1)
      BY <1>2, <2>6, <3>1 DEF LiteralAt
    <3>. QED  BY <2>1, <2>3, <3>2 DEF TokenAt
  <2>. QED  BY <2>5, <2>6
<1>10. pos + 1 <= Len(src) /\ Len(b) >= 1
  BY <1>1, <1>8
<1>. QED  BY <1>4, <1>8, <1>9, <1>10, TokenWriting

LEMMA BackrefWriting == ASSUME Inv, Writing, backref_callback PROVE Writing'
<1>1. PICK r \in Backrefs(src, pos, max_dist, max_len, FALSE) : Token(BackrefBytes(r), r.len)
  BY DEF backref_callback
<1>2. PICK D \in Nat, L \in Nat : r = [dist |-> D, len |-> L] /\ IsBackref(pos, D, L)
  <2>1. /\ r.dist \in Nat /\ r.len \in Nat /\ r = [dist |-> r.dist, len |-> r.len]
        /\ r.dist >= 1 /\ r.dist <= max_dist /\ r.dist <= pos
        /\ r.len > 3 /\ r.len <= max_len /\ r.len <= Len(src) - pos /\ r.len <= r.dist
        /\ \A k \in 1 .. r.len : src[pos + k] = src[pos + k - r.dist]
    BY InvFacts, BackrefFacts
  <2>2. PICK D \in Nat, L \in Nat : D = r.dist /\ L = r.len
    BY <2>1
  <2>3. pos + L <= Len(src)
    BY <2>1, <2>2, InvFacts
  <2>4. IsBackref(pos, D, L)
    BY <2>1, <2>2, <2>3 DEF IsBackref
  <2>. QED  BY <2>1, <2>2, <2>4
<1>3. PICK l \in Nat, d \in Nat : l = L - 3 /\ d = D - 1
  BY <1>2 DEF IsBackref
<1>4. PICK b : b = BackrefBytes(r)
  OBVIOUS
<1>5. /\ VByte(r) = VOf(l, d) /\ VByte(r) \in Byte /\ b \in Seq(Byte)
      /\ l >= 1 /\ l < V_LEN_MAX + BYTE /\ d < max_dist
      /\ b = IF l >= V_LEN_MAX
             THEN <<DLE_BYTE, VByte(r), l - V_LEN_MAX, d % BYTE>>
             ELSE <<DLE_BYTE, VByte(r), d % BYTE>>
  <2>1. D >= 1 /\ D <= max_dist /\ L > 3 /\ L <= max_len
    BY <1>2 DEF IsBackref
  <2>. QED  BY <1>2, <1>3, <1>4, <2>1, VByteFacts
<1>6. /\ b[1] = DLE_BYTE /\ b[2] = VOf(l, d)
      /\ l >= V_LEN_MAX => Len(b) = 4 /\ b[3] = l - V_LEN_MAX /\ b[4] = d % BYTE
      /\ ~(l >= V_LEN_MAX) => Len(b) = 3 /\ b[3] = d % BYTE
  <2>1. PICK e1, e2, e3, e4 : e1 = DLE_BYTE /\ e2 = VByte(r) /\ e3 = l - V_LEN_MAX /\ e4 = d % BYTE
    OBVIOUS
  <2>2. b = IF l >= V_LEN_MAX THEN <<e1, e2, e3, e4>> ELSE <<e1, e2, e4>>
    BY <1>5, <2>1
  <2>3. CASE l >= V_LEN_MAX
    <3>1. b = <<e1, e2, e3, e4>>
      BY <2>2, <2>3
    <3>2. Len(b) = 4 /\ b[1] = e1 /\ b[2] = e2 /\ b[3] = e3 /\ b[4] = e4
      BY <3>1
    <3>. QED  BY <1>5, <2>1, <2>3, <3>2
  <2>4. CASE ~(l >= V_LEN_MAX)
    <3>1. b = <<e1, e2, e4>>
      BY <2>2, <2>4
    <3>2. Len(b) = 3 /\ b[1] = e1 /\ b[2] = e2 /\ b[3] = e4
      BY <3>1
    <3>. QED  BY <1>5, <2>1, <2>4, <3>2
  <2>. QED  BY <2>3, <2>4
<1>7. ASSUME NEW s \in Seq(Byte) PROVE TokenAt(s \o b, Len(s), Len(s) + Len(b), pos, pos + L)
  <2>1. PICK m \in Nat, n \in Nat : m = Len(s) /\ n = Len(b)
    BY <1>5, LenProperties
  <2>2. \A k \in 1 .. m + n : (s \o b)[k] = IF k <= m THEN s[k] ELSE b[k - m]
    BY <1>5, <2>1, ConcatProperties
  <2>3. PICK u : u = s \o b
    OBVIOUS
  <2>4. \A k \in 1 .. n : u[m + k] = b[k]
    <3> TAKE k \in 1 .. n
    <3>1. m + k \in 1 .. m + n /\ ~(m + k <= m) /\ (m + k) - m = k
      OBVIOUS
    <3>. QED  BY <2>2, <2>3, <3>1
  <2>5. BackrefAt(u, m, m + n, l, d)
    <3>1. CASE l >= V_LEN_MAX
      <4>1. n = 4 /\ u[m + 1] = b[1] /\ u[m + 2] = b[2] /\ u[m + 3] = b[3] /\ u[m + 4] = b[4]
        BY <1>6, <2>1, <2>4, <3>1
      <4>. QED  BY <1>6, <3>1, <4>1 DEF BackrefAt
    <3>2. CASE ~(l >= V_LEN_MAX)
      <4>1. n = 3 /\ u[m + 1] = b[1] /\ u[m + 2] = b[2] /\ u[m + 3] = b[3]
        BY <1>6, <2>1, <2>4, <3>2
      <4>. QED  BY <1>6, <3>2, <4>1 DEF BackrefAt
    <3>. QED  BY <3>1, <3>2
  <2>6. CopyAt(u, m, m + n, pos, pos + L, D, L)
    BY <1>2, <1>3, <2>5 DEF CopyAt
  <2>. QED  BY <2>1, <2>3, <2>6 DEF TokenAt
<1>8. Token(b, L) /\ L >= 1 /\ pos + L <= Len(src) /\ Len(b) >= 1
  BY <1>1, <1>2, <1>4, <1>6 DEF IsBackref
<1>. QED  BY <1>5, <1>7, <1>8, TokenWriting
\* What is flushed is what was buffered, after the follower sets made of it.
LEMMA FlushWriting ==
    ASSUME Inv, Writing, phase = "compress", phase' = "compress", ~flushed,
           NEW rest \in Seq(Byte), raw' \in Seq(Byte), Flush(raw', rest),
           raw' \o rest = raw \o pending,
           UNCHANGED <<src, pos, prev_byte>>,
           Len(raw') < RAW_BYTES_SZ => rest = <<>> /\ pos = Len(src)
    PROVE  Writing'
<1>1. PICK s \in Seq(Byte) : s = raw' \o rest /\ \E m, c, t : Tokens(s, m, c, t, pos)
  BY DEF Writing
<1>0. os.bits = <<>> /\ prev_byte = 0
  BY DEF Writing
<1>2. PICK m, c, t : Tokens(s, m, c, t, pos)
  BY <1>1
<1>3. Tokens(s, m, c, t, pos)'
  <2>1. PICK at : at = pos
    OBVIOUS
  <2>2. Tokens(s, m, c, t, at)'
    BY <1>2, <2>1, TokensStay
  <2>. QED  BY <2>1, <2>2 DEF Tokens
<1>4. /\ flushed' = TRUE /\ fsets' \in FollowerSets /\ pending' = s
      /\ os'.bits = os.bits \o write_follower_sets(fsets')
  BY <1>1, FlushInv
<1>5. PICK f \in FollowerSets : f = fsets'
  BY <1>4
<1>6. write_follower_sets(f) \in Seq({0, 1}) /\ os'.bits = write_follower_sets(f)
  BY <1>0, <1>4, <1>5, SetsWritten, ConcatEmptySeq
<1>7. PICK o : /\ Ends(o, f) /\ Len(os'.bits) = o[BYTE] /\ SetsAt(os'.bits, o, f)
  BY <1>6, SetsWritten
<1> DEFINE b == [k \in 0 .. 0 |-> o[BYTE]]
<1>8. b \in [0 .. 0 -> Nat] /\ b[0] = o[BYTE]
  BY <1>7, ConstantFacts DEF Ends
<1> HIDE DEF b
<1>9. <<>> \in Seq(Byte) /\ Len(<<>>) = 0 /\ <<>> \o s = s
  BY EmptySeq, ConcatEmptySeq
<1>10. Stream(<<>>, o, b)'
  BY <1>5, <1>7, <1>8, <1>9 DEF Stream
<1>11. fsets' = Sets'
  BY DEF Flush, Sets
<1>12. prev_byte' = Before(<<>>, Len(<<>>) + 1)
  BY <1>0, <1>9 DEF Before
<1>13. Len(raw') < RAW_BYTES_SZ => s = raw' /\ pos' = Len(src')
  <2>1. raw' \o <<>> = raw'
    BY ConcatEmptySeq
  <2>. QED  BY <1>1, <2>1
<1>14. Written1(s, <<>>, o, b)'
  BY <1>4, <1>7, <1>8, <1>9, <1>10, <1>11, <1>12, <1>13 DEF Written1
<1>. QED  BY <1>3, <1>4, <1>14 DEF Writing

LEMMA BufferWriting == ASSUME Inv, Writing, BufferByte, phase' = "compress" PROVE Writing'
<1>1. /\ phase = "compress" /\ pending # <<>> /\ ~flushed
      /\ UNCHANGED <<src, pos, prev_byte>>
  BY DEF BufferByte
<1>2. Head(pending) \in Byte /\ Tail(pending) \in Seq(Byte)
  BY <1>1, InvFacts, HeadTailProperties
<1>3. raw' = Append(raw, Head(pending)) /\ raw' \in Seq(Byte)
  BY <1>2, InvFacts, AppendProperties DEF BufferByte
<1>4. raw' \o Tail(pending) = raw \o pending
  BY <1>1, <1>3, InvFacts, HeadMoves
<1>5. CASE Len(raw') = RAW_BYTES_SZ
  <2>1. Flush(raw', Tail(pending))
    BY <1>5 DEF BufferByte
  <2>2. ~(Len(raw') < RAW_BYTES_SZ)
    BY <1>5, ConstantFacts
  <2>3. PICK rest \in Seq(Byte) : rest = Tail(pending)
    BY <1>2
  <2>. QED  BY <1>1, <1>3, <1>4, <2>1, <2>2, <2>3, FlushWriting
<1>6. CASE Len(raw') # RAW_BYTES_SZ
  <2>1. pending' = Tail(pending) /\ UNCHANGED <<phase, os, flushed, fsets>>
    BY <1>6 DEF BufferByte
  <2>2. PICK s \in Seq(Byte) :
          /\ \E m, c, t : Tokens(s, m, c, t, pos)
          /\ s = raw \o pending /\ os.bits = <<>> /\ prev_byte = 0
    BY <1>1 DEF Writing
  <2>3. \E m, c, t : Tokens(s, m, c, t, pos)'
    <3>1. PICK m, c, t, at : Tokens(s, m, c, t, at) /\ at = pos
      BY <2>2
    <3>2. Tokens(s, m, c, t, at)'
      BY <1>1, <3>1, TokensStay
    <3>3. Tokens(s, m, c, t, pos)'
      BY <1>1, <3>1, <3>2 DEF Tokens
    <3>. QED  BY <3>3
  <2>4. s = raw' \o pending' /\ os'.bits = <<>> /\ prev_byte' = 0 /\ ~flushed'
    BY <1>1, <1>4, <2>1, <2>2
  <2>. QED  BY <2>3, <2>4 DEF Writing
<1>. QED  BY <1>5, <1>6

LEMMA FlushAtEndWriting == ASSUME Inv, Writing, FlushAtEnd, phase' = "compress" PROVE Writing'
<1>1. /\ phase = "compress" /\ pending = <<>> /\ ~flushed /\ pos = Len(src) /\ Flush(raw, <<>>)
      /\ UNCHANGED <<src, pos, raw, prev_byte>>
  BY DEF FlushAtEnd
<1>2. PICK rest \in Seq(Byte) : rest = <<>>
  BY EmptySeq
<1>3. Flush(raw', rest) /\ raw' \in Seq(Byte) /\ raw' \o rest = raw \o pending
  BY <1>1, <1>2, InvFacts
<1>. QED  BY <1>1, <1>2, <1>3, FlushWriting

LEMMA BytesBefore ==
    ASSUME NEW s \in Seq(Byte), NEW k \in 1 .. Len(s) + 1
    PROVE  Before(s, k) \in Byte
<1>1. CASE k = 1
  BY <1>1, ConstantFacts DEF Before
<1>2. CASE k # 1
  <2>1. k - 1 \in 1 .. Len(s)
    BY <1>2, LenProperties
  <2>. QED  BY <1>2, <2>1, ElementOfSeq DEF Before
<1>. QED  BY <1>1, <1>2

\* What is in the stream stays there when more is written.
LEMMA PiecesKept ==
    ASSUME Inv, NEW w \in Seq(Byte), NEW o, NEW b, Stream(w, o, b), NEW e \in Seq({0, 1}), NEW t, t = os.bits \o e
    PROVE  /\ SetsAt(t, o, fsets)
           /\ \A k \in 1 .. Len(w) : At(t, b[k - 1], ByteBits(Before(w, k), w[k]))
<1>0. fsets \in FollowerSets /\ os.bits \in Seq({0, 1}) /\ Len(w) \in Nat
  BY InvSets, InvFacts, LenProperties
<1>1. /\ Ends(o, fsets) /\ SetsAt(os.bits, o, fsets)
      /\ b \in [0 .. Len(w) -> Nat]
      /\ \A k \in 1 .. Len(w) : At(os.bits, b[k - 1], ByteBits(Before(w, k), w[k]))
  BY DEF Stream
<1>2. ASSUME NEW k \in 1 .. Len(w) PROVE At(t, b[k - 1], ByteBits(Before(w, k), w[k]))
  <2>1. PICK c : c = ByteBits(Before(w, k), w[k])
    OBVIOUS
  <2>2. c \in Seq({0, 1})
    <3>1. k \in 1 .. Len(w) + 1
      BY <1>0
    <3>2. Before(w, k) \in Byte /\ w[k] \in Byte
      BY <3>1, BytesBefore, ElementOfSeq
    <3>. QED  BY <1>0, <2>1, <3>2, ByteBitsFacts
  <2>3. b[k - 1] \in Nat /\ Len(c) \in Nat
    <3>1. k - 1 \in 0 .. Len(w)
      BY <1>0
    <3>. QED  BY <1>1, <2>2, <3>1, LenProperties
  <2>4. At(os.bits, b[k - 1], c)
    BY <1>1, <2>1
  <2>. QED  BY <1>0, <2>1, <2>3, <2>4, AtMore
<1>3. ASSUME NEW i \in 1 .. BYTE PROVE At(t, o[i - 1], SetBits(fsets[BYTE - i]))
  <2>1. BYTE - i \in Byte /\ i - 1 \in 0 .. BYTE
    BY ConstantFacts
  <2>2. PICK c : c = SetBits(fsets[BYTE - i])
    OBVIOUS
  <2>3. c \in Seq({0, 1}) /\ Len(c) \in Nat /\ o[i - 1] \in Nat
    <3>1. fsets[BYTE - i] \in Seq(Byte) /\ Len(fsets[BYTE - i]) <= MAX_FOLLOWERS
      BY <1>0, <2>1 DEF FollowerSets
    <3>. QED  BY <1>1, <2>1, <2>2, <3>1, SetBitsFacts, LenProperties DEF Ends
  <2>4. At(os.bits, o[i - 1], c)
    BY <1>1, <2>2 DEF SetsAt
  <2>. QED  BY <1>0, <2>2, <2>3, <2>4, AtMore
<1>. QED  BY <1>2, <1>3 DEF SetsAt

\* The stream with one byte more.
LEMMA StreamMore ==
    ASSUME Inv, phase = "compress", fsets \in FollowerSets, NEW w \in Seq(Byte), NEW o, NEW b, NEW x \in Byte,
           Stream(w, o, b), b[Len(w)] = Len(os.bits), prev_byte = Before(w, Len(w) + 1), prev_byte \in Byte,
           fsets' = fsets, os'.bits = os.bits \o ByteBits(prev_byte, x)
    PROVE  \E d : Stream(Append(w, x), o, d)' /\ d[Len(Append(w, x))] = Len(os'.bits)
<1> DEFINE c == ByteBits(prev_byte, x)
<1>0. PICK n, y : n = Len(w) /\ y = Append(w, x)
  OBVIOUS
<1>1. n \in Nat /\ c \in Seq({0, 1}) /\ Len(c) \in Nat /\ os.bits \in Seq({0, 1}) /\ Len(os.bits) \in Nat
  BY <1>0, ByteBitsFacts, LenProperties, InvFacts
<1>2. y \in Seq(Byte) /\ Len(y) = n + 1 /\ y[n + 1] = x /\ \A k \in 1 .. n : y[k] = w[k]
  BY <1>0, AppendProperties, LenProperties
<1>3. PICK t : t = os.bits \o c
  OBVIOUS
<1>4. /\ os'.bits = t /\ t \in Seq({0, 1}) /\ Len(t) = Len(os.bits) + Len(c)
  <2> HIDE DEF c
  <2>1. os.bits \o c \in Seq({0, 1}) /\ Len(os.bits \o c) = Len(os.bits) + Len(c)
    BY <1>1, ConcatProperties
  <2>. QED  BY <1>3, <2>1 DEF c
<1>5. /\ Ends(o, fsets) /\ SetsAt(os.bits, o, fsets)
      /\ b \in [0 .. n -> Nat] /\ b[0] = o[BYTE]
      /\ \A k \in 1 .. n : /\ b[k] = b[k - 1] + Len(ByteBits(Before(w, k), w[k]))
                           /\ At(os.bits, b[k - 1], ByteBits(Before(w, k), w[k]))
      /\ b[n] = Len(os.bits)
  BY <1>0 DEF Stream
<1>6. \A k \in 1 .. n : Before(w, k) \in Byte /\ w[k] \in Byte /\ Before(y, k) = Before(w, k) /\ y[k] = w[k]
  <2> TAKE k \in 1 .. n
  <2>1. CASE k = 1
    BY <1>0, <1>2, <2>1, ElementOfSeq, ConstantFacts DEF Before
  <2>2. CASE k # 1
    <3>1. k - 1 \in 1 .. n
      BY <1>1, <2>2
    <3>. QED  BY <1>0, <1>2, <2>2, <3>1, ElementOfSeq DEF Before
  <2>. QED  BY <2>1, <2>2
<1>7. Before(y, n + 1) = prev_byte
  <2>1. CASE n = 0
    BY <1>0, <2>1 DEF Before
  <2>2. CASE n # 0
    <3>1. n + 1 # 1 /\ (n + 1) - 1 = n /\ n \in 1 .. n
      BY <1>1, <2>2
    <3>. QED  BY <1>0, <1>2, <3>1 DEF Before
  <2>. QED  BY <2>1, <2>2
<1>8. PICK d \in [0 .. n + 1 -> Nat] : /\ d[n + 1] = Len(os.bits) + Len(c)
                                     /\ \A k \in 0 .. n : d[k] = b[k]
  <2>1. PICK l \in Nat, m \in Nat : l = Len(c) /\ m = Len(os.bits)
    BY <1>1
  <2> DEFINE e == [k \in 0 .. n + 1 |-> IF k = n + 1 THEN m + l ELSE b[k]]
  <2>2. e \in [0 .. n + 1 -> Nat] /\ e[n + 1] = m + l /\ \A k \in 0 .. n : e[k] = b[k]
    <3> HIDE DEF c
    <3>. QED  BY <1>1, <1>5
  <2> HIDE DEF e
  <2>. QED  BY <2>1, <2>2
<1>9. SetsAt(t, o, fsets) /\ \A k \in 1 .. n : At(t, b[k - 1], ByteBits(Before(y, k), y[k]))
  <2>1. SetsAt(t, o, fsets) /\ \A k \in 1 .. n : At(t, b[k - 1], ByteBits(Before(w, k), w[k]))
    <3> HIDE DEF c
    <3>1. t = os.bits \o c
      BY <1>3 DEF c
    <3>. QED  BY <1>0, <1>1, <3>1, PiecesKept
  <2>. QED  BY <1>6, <2>1
<1>10. At(t, b[n], ByteBits(Before(y, n + 1), y[n + 1]))
  <2>1. At(os.bits \o c, Len(os.bits), c)
    <3> HIDE DEF c
    <3>1. 0 \in Nat
      OBVIOUS
    <3>. QED  BY <1>1, <3>1, AtMore
  <2>. QED  BY <1>2, <1>3, <1>5, <1>7, <2>1 DEF c
<1>12. \A k \in 1 .. n + 1 : /\ d[k] = d[k - 1] + Len(ByteBits(Before(y, k), y[k]))
                             /\ At(t, d[k - 1], ByteBits(Before(y, k), y[k]))
  <2> TAKE k \in 1 .. n + 1
  <2>1. CASE k = n + 1
    <3>1. k - 1 = n /\ n \in 0 .. n
      BY <1>1, <2>1
    <3>2. d[k - 1] = b[n] /\ d[k] = b[n] + Len(c)
      BY <1>5, <1>8, <2>1, <3>1
    <3>3. ByteBits(Before(y, k), y[k]) = c
      BY <1>2, <1>7, <2>1 DEF c
    <3>. QED  BY <1>10, <2>1, <3>2, <3>3
  <2>2. CASE k # n + 1
    <3>1. k \in 1 .. n /\ k \in 0 .. n /\ k - 1 \in 0 .. n
      BY <1>1, <2>2
    <3>. QED  BY <1>5, <1>6, <1>8, <1>9, <3>1
  <2>. QED  BY <2>1, <2>2
<1>13. d[0] = o[BYTE]
  BY <1>1, <1>5, <1>8
<1>14. Stream(y, o, d)'
  <2>1. ASSUME NEW p, NEW q PROVE ByteBits(p, q)' = ByteBits(p, q)
    BY DEF ByteBits
  <2>2. \A k \in 1 .. n + 1 : /\ d[k] = d[k - 1] + Len(ByteBits(Before(y, k), y[k])')
                              /\ At(t, d[k - 1], ByteBits(Before(y, k), y[k])')
    BY <1>12, <2>1
  <2>3. Ends(o, fsets') /\ SetsAt(os'.bits, o, fsets') /\ d \in [0 .. Len(y) -> Nat]
    BY <1>2, <1>4, <1>5, <1>8, <1>9
  <2>. QED  BY <1>2, <1>4, <1>13, <2>2, <2>3 DEF Stream
<1>15. d[Len(y)] = Len(os'.bits)
  BY <1>2, <1>4, <1>8
<1>. QED  BY <1>0, <1>14, <1>15

LEMMA WriteByteWriting == ASSUME Inv, Writing, WriteByte, phase' = "compress" PROVE Writing'
<1>1. /\ phase = "compress" /\ pending # <<>> /\ flushed
      /\ prev_byte' = Head(pending) /\ pending' = Tail(pending)
      /\ Emit(ByteBits(prev_byte, Head(pending)))
      /\ UNCHANGED <<src, pos, raw, flushed, fsets>>
  BY DEF WriteByte
<1>2. Head(pending) \in Byte /\ prev_byte \in Byte
  BY <1>1, InvFacts, HeadTailProperties DEF Inv, Types, TypeOK
<1>3. ByteBits(prev_byte, Head(pending)) \in Seq({0, 1})
  BY <1>2, InvSets, ByteBitsFacts
<1>4. os'.bits = os.bits \o ByteBits(prev_byte, Head(pending))
  BY <1>1, <1>3, EmitFacts
<1>5. PICK s \in Seq(Byte) : (\E m, c, t : Tokens(s, m, c, t, pos)) /\ (\E w, o, b : Written1(s, w, o, b))
  BY <1>1 DEF Writing
<1>6. PICK w, o, b : Written1(s, w, o, b)
  BY <1>5
<1>7. /\ w \in Seq(Byte) /\ s = w \o pending
      /\ Stream(w, o, b) /\ b[Len(w)] = Len(os.bits) /\ prev_byte = Before(w, Len(w) + 1)
      /\ fsets = Sets
      /\ Len(raw) < RAW_BYTES_SZ => s = raw /\ pos = Len(src)
  BY <1>6 DEF Written1
<1>8. PICK x \in Byte : x = Head(pending)
  BY <1>2
<1>9. PICK y \in Seq(Byte) : y = Append(w, x)
  BY <1>7, AppendProperties
<1>10. PICK d : Stream(y, o, d)' /\ d[Len(y)] = Len(os'.bits)
  BY <1>1, <1>2, <1>4, <1>7, <1>8, <1>9, InvSets, StreamMore, ZenonT(30)
<1>11. s = y \o pending'
  BY <1>1, <1>7, <1>8, <1>9, InvFacts, HeadMoves
<1>12. prev_byte' = Before(y, Len(y) + 1)
  <2>1. PICK n \in Nat : n = Len(w)
    BY <1>7, LenProperties
  <2>2. Len(y) = n + 1 /\ y[n + 1] = x
    BY <1>7, <1>9, <2>1, AppendProperties
  <2>3. (n + 1) + 1 # 1 /\ ((n + 1) + 1) - 1 = n + 1
    BY <2>1
  <2>. QED  BY <1>1, <1>8, <2>2, <2>3 DEF Before
<1>13. fsets' = Sets' /\ (Len(raw') < RAW_BYTES_SZ => s = raw' /\ pos' = Len(src'))
  BY <1>1, <1>7 DEF Sets
<1>14. Written1(s, y, o, d)'
  BY <1>10, <1>11, <1>12, <1>13 DEF Written1
<1>15. \E m, c, t : Tokens(s, m, c, t, pos)'
  <2>1. PICK m, c, t, at : Tokens(s, m, c, t, at) /\ at = pos
    BY <1>5
  <2>2. Tokens(s, m, c, t, at)'
    BY <1>1, <2>1, TokensStay
  <2>3. Tokens(s, m, c, t, pos)'
    BY <1>1, <2>1, <2>2 DEF Tokens
  <2>. QED  BY <2>3
<1>. QED  BY <1>1, <1>14, <1>15 DEF Writing
--------------------------------------------------------------------------------
(***************************************************************************)
(* Reading it back.                                                        *)
(***************************************************************************)
SetsRead(n) == \A i \in 1 .. n : sets[i] = fsets[BYTE - i]

\* All of the input is tokens, and they are in the stream, which is padded.
Layout(s, n, c, t, o, b) ==
    /\ s \in Seq(Byte) /\ pos = Len(src) /\ Tokens(s, n, c, t, pos)
    /\ Stream(s, o, b) /\ Len(os.bits) = round_up(b[Len(s)], BYTE_BITS)

\* The first k bytes have been read.
HaveRead(s, b, k) ==
    k \in 0 .. Len(s) /\ rpos = b[k] /\ curr_byte = Before(s, k + 1) /\ SetsRead(BYTE)

AtSets(o) == phase = "sets" /\ rpos = o[Len(sets)] /\ SetsRead(Len(sets))

AtItem(s, n, c, t, b) ==
    phase = "item" /\ \E j \in 0 .. n : HaveRead(s, b, c[j]) /\ dst = SubSeq(src, 1, t[j])

AtV(s, n, c, t, b) ==
    phase = "v" /\ \E j \in 0 .. n - 1 : /\ HaveRead(s, b, c[j] + 1) /\ dst = SubSeq(src, 1, t[j])
                                         /\ s[c[j] + 1] = DLE_BYTE

\* In a back reference.
AtLen(s, n, c, t, b) ==
    \E j \in 0 .. n - 1, D \in Nat, L \in Nat :
        /\ CopyAt(s, c[j], c[j + 1], t[j], t[j + 1], D, L)
        /\ dst = SubSeq(src, 1, t[j]) /\ v = VOf(L - 3, D - 1)
        /\ \/ phase = "elb" /\ L - 3 >= V_LEN_MAX /\ HaveRead(s, b, c[j] + 2) /\ len = V_LEN_MAX + 3
           \/ phase = "w" /\ HaveRead(s, b, c[j + 1] - 1) /\ len = L

Reading ==
    \E s, n, c, t, o, b :
        /\ Layout(s, n, c, t, o, b)
        /\ AtSets(o) \/ AtItem(s, n, c, t, b) \/ AtV(s, n, c, t, b) \/ AtLen(s, n, c, t, b)

LEMMA LayoutStays ==
    ASSUME UNCHANGED <<writing, os>>, NEW s, NEW n, NEW c, NEW t, NEW o, NEW b, Layout(s, n, c, t, o, b)
    PROVE  Layout(s, n, c, t, o, b)'
<1>1. UNCHANGED <<src, pos, fsets>> /\ os' = os
  BY DEF writing
<1>2. Tokens(s, n, c, t, pos)'
  <2>1. PICK at : at = pos
    OBVIOUS
  <2>2. Tokens(s, n, c, t, at)
    BY <2>1 DEF Layout
  <2>3. Tokens(s, n, c, t, at)'
    BY <1>1, <2>2, TokensStay
  <2>. QED  BY <1>1, <2>1, <2>3 DEF Tokens
<1>3. Stream(s, o, b)'
  BY <1>1 DEF Layout, Stream, ByteBits
<1>. QED  BY <1>1, <1>2, <1>3 DEF Layout

LEMMA OneBit == ASSUME NEW x \in {0, 1} PROVE Bits(x, 1) = <<x>> /\ x \in 0 .. 2 ^ 1 - 1
<1>1. 2 ^ 0 = 1 /\ 2 ^ 1 = 2
  BY PowerStep
<1>2. (x \div 1) % 2 = x
  OBVIOUS
<1>3. \A i \in 1 .. 1 : (x \div 2 ^ (i - 1)) % 2 = x
  BY <1>1, <1>2
<1>4. Bits(x, 1) = [i \in 1 .. 1 |-> x]
  BY <1>3 DEF Bits
<1>. QED  BY <1>1, <1>4

LEMMA AtNested ==
    ASSUME NEW s, NEW at \in Nat, NEW c, NEW i \in Nat, NEW d, Len(s) \in Nat, Len(c) \in Nat, Len(d) \in Nat,
           At(s, at, c), At(c, i, d)
    PROVE  At(s, at + i, d)
<1>1. ASSUME NEW j \in 1 .. Len(d) PROVE s[(at + i) + j] = d[j]
  <2>1. i + j \in 1 .. Len(c) /\ (at + i) + j = at + (i + j)
    BY DEF At
  <2>. QED  BY <2>1 DEF At
<1>. QED  BY <1>1 DEF At

\* What is read is the byte that was written.
LEMMA NextRead ==
    ASSUME Inv, Len(sets) = BYTE, NEW s \in Seq(Byte), NEW o, NEW b, Stream(s, o, b),
           NEW k \in Nat, k < Len(s), HaveRead(s, b, k)
    PROVE  /\ Readable /\ NextByte = s[k + 1] /\ s[k + 1] \in Byte
           /\ rpos + NextBits = b[k + 1]
<1> DEFINE set == SetOf(curr_byte)
           bw == follower_idx_bw(Len(set))
<1>1. PICK x \in Byte, e \in Byte, z \in Nat :
        /\ x = curr_byte /\ e = s[k + 1] /\ z = rpos /\ x = Before(s, k + 1)
        /\ b[k + 1] = z + Len(ByteBits(x, e)) /\ At(os.bits, z, ByteBits(x, e))
  <2>1. k + 1 \in 1 .. Len(s) /\ (k + 1) - 1 = k
    BY LenProperties
  <2>2. s[k + 1] \in Byte
    BY <2>1, ElementOfSeq
  <2>. QED  BY <2>1, <2>2, InvFacts DEF HaveRead, Stream
<1>2. fsets \in FollowerSets
  BY InvSets
<1>3. set = fsets[x] /\ set \in Seq(Byte) /\ Len(set) \in 0 .. MAX_FOLLOWERS
  <2>1. BYTE - x \in 1 .. BYTE /\ BYTE - (BYTE - x) = x
    BY ConstantFacts
  <2>2. sets[BYTE - x] = fsets[x]
    BY <2>1 DEF HaveRead, SetsRead
  <2>3. fsets[x] \in Seq(Byte) /\ Len(fsets[x]) <= MAX_FOLLOWERS
    BY <1>2 DEF FollowerSets
  <2>4. Len(fsets[x]) \in 0 .. MAX_FOLLOWERS
    BY <2>3, LenProperties, ConstantFacts
  <2>. QED  BY <1>1, <2>2, <2>3, <2>4 DEF SetOf
<1>4. bw \in Nat /\ Len(set) <= 2 ^ bw
  BY <1>3, IndexWidth
<1>5. os.bits \in Seq({0, 1}) /\ Len(os.bits) \in Nat /\ BYTE_BITS \in Nat /\ Byte = 0 .. 2 ^ BYTE_BITS - 1
  BY InvFacts, ConstantFacts
<1>6. /\ Literal <=> set = <<>> \/ istream_bits(os.bits, z, 1) = 1
      /\ FollowerIdx = istream_bits(os.bits, z + 1, bw)
      /\ NextBits = IF set = <<>> THEN BYTE_BITS ELSE 1 + (IF Literal THEN BYTE_BITS ELSE bw)
      /\ NextByte = IF Literal THEN istream_bits(os.bits, z + NextBits - BYTE_BITS, BYTE_BITS)
                    ELSE set[FollowerIdx + 1]
      /\ Readable <=> (Literal \/ FollowerIdx < Len(set)) /\ Has(os.bits, z, NextBits)
  BY <1>1 DEF Literal, FollowerIdx, NextBits, NextByte, Readable
<1> HIDE DEF set, bw
<1>7. e \in Nat /\ Bits(e, BYTE_BITS) \in Seq({0, 1}) /\ Len(Bits(e, BYTE_BITS)) = BYTE_BITS
  BY <1>5, BitsType, ConstantFacts
<1>8. \A y \in {0, 1} : <<y>> \in Seq({0, 1}) /\ Len(<<y>>) = 1
  OBVIOUS
<1>9. ASSUME NEW y \in {0, 1}, NEW r \in Seq({0, 1}), ByteBits(x, e) = <<y>> \o r
      PROVE  /\ istream_bits(os.bits, z, 1) = y /\ At(os.bits, z + 1, r)
             /\ Len(ByteBits(x, e)) = 1 + Len(r)
  <2>1. PICK q \in Seq({0, 1}) : q = <<y>> /\ Len(q) = 1
    BY <1>8
  <2>2. At(os.bits, z, q) /\ At(os.bits, z + 1, r)
    <3>1. At(os.bits, z, q \o r)
      BY <1>1, <1>9, <2>1
    <3>2. At(os.bits, z, q) /\ At(os.bits, z + Len(q), r)
      BY <1>5, <2>1, <3>1, AtConcat
    <3>. QED  BY <2>1, <3>2
  <2>3. q = Bits(y, 1) /\ y \in 0 .. 2 ^ 1 - 1
    BY <2>1, OneBit
  <2>4. istream_bits(os.bits, z, 1) = y
    BY <1>5, <2>2, <2>3, ReadsNumber
  <2>5. Len(q \o r) = 1 + Len(r)
    BY <2>1, ConcatProperties
  <2>. QED  BY <1>9, <2>1, <2>2, <2>4, <2>5
<1>10. \/ \E j \in 1 .. Len(set) : set[j] = e /\ ByteBits(x, e) = <<0>> \o Bits(j - 1, bw)
       \/ set = <<>> /\ ByteBits(x, e) = Bits(e, BYTE_BITS)
       \/ set # <<>> /\ ByteBits(x, e) = <<1>> \o Bits(e, BYTE_BITS)
  BY <1>2, <1>3, ByteBitsFacts DEF bw
<1>11. Readable /\ NextByte = e /\ z + NextBits = b[k + 1]
  <2>1. ASSUME NEW j \in 1 .. Len(set), set[j] = e, ByteBits(x, e) = << 0 >> \o Bits(j - 1, bw)
        PROVE  Readable /\ NextByte = e /\ z + NextBits = b[k + 1]
    <3>1. j - 1 \in Nat /\ j - 1 \in 0 .. 2 ^ bw - 1 /\ j - 1 < Len(set) /\ (j - 1) + 1 = j
      BY <1>3, <1>4, PowerStep
    <3>2. PICK i \in Nat : i = j - 1
      BY <3>1
    <3>3. Bits(i, bw) \in Seq({0, 1}) /\ Len(Bits(i, bw)) = bw
      BY <1>4, BitsType
    <3>4. /\ istream_bits(os.bits, z, 1) = 0 /\ At(os.bits, z + 1, Bits(i, bw))
          /\ Len(ByteBits(x, e)) = 1 + bw
      BY <1>9, <2>1, <3>2, <3>3
    <3>5. istream_bits(os.bits, z + 1, bw) = i /\ Has(os.bits, z + 1, bw)
      BY <1>4, <1>5, <3>1, <3>2, <3>4, ReadsNumber, SMTT(30)
    <3>6. set # <<>>
      <4>1. Len(<<>>) = 0
        OBVIOUS
      <4>. QED  BY <1>3, <3>1, <4>1
    <3>7. ~Literal /\ FollowerIdx = i /\ NextBits = 1 + bw
      BY <1>6, <3>4, <3>5, <3>6
    <3>8. NextByte = set[j]
      BY <1>6, <3>1, <3>2, <3>7
    <3>9. Has(os.bits, z, NextBits)
      BY <1>4, <1>5, <3>5, <3>7 DEF Has
    <3>. QED  BY <1>1, <1>6, <2>1, <3>1, <3>2, <3>4, <3>7, <3>8, <3>9
  <2>2. ASSUME set = <<>>, ByteBits(x, e) = Bits(e, BYTE_BITS)
        PROVE  Readable /\ NextByte = e /\ z + NextBits = b[k + 1]
    <3>1. istream_bits(os.bits, z, BYTE_BITS) = e /\ Has(os.bits, z, BYTE_BITS)
      BY <1>1, <1>5, <2>2, ReadsNumber, SMTT(30)
    <3>2. Literal /\ NextBits = BYTE_BITS /\ z + NextBits - BYTE_BITS = z
      BY <1>5, <1>6, <2>2
    <3>. QED  BY <1>1, <1>6, <1>7, <2>2, <3>1, <3>2
  <2>3. ASSUME set # <<>>, ByteBits(x, e) = << 1 >> \o Bits(e, BYTE_BITS)
        PROVE  Readable /\ NextByte = e /\ z + NextBits = b[k + 1]
    <3>1. /\ istream_bits(os.bits, z, 1) = 1 /\ At(os.bits, z + 1, Bits(e, BYTE_BITS))
          /\ Len(ByteBits(x, e)) = 1 + BYTE_BITS
      BY <1>7, <1>9, <2>3
    <3>2. istream_bits(os.bits, z + 1, BYTE_BITS) = e /\ Has(os.bits, z + 1, BYTE_BITS)
      BY <1>5, <3>1, ReadsNumber
    <3>3. Literal /\ NextBits = 1 + BYTE_BITS /\ z + NextBits - BYTE_BITS = z + 1
      BY <1>5, <1>6, <2>3, <3>1
    <3>4. Has(os.bits, z, NextBits)
      BY <1>5, <3>2, <3>3 DEF Has
    <3>. QED  BY <1>1, <1>6, <3>1, <3>2, <3>3, <3>4
  <2>. QED  BY <1>10, <2>1, <2>2, <2>3
<1>. QED  BY <1>1, <1>11
LEMMA TokenFacts ==
    ASSUME NEW s \in Seq(Byte), NEW n, NEW c, NEW t, NEW at \in Nat, Tokens(s, n, c, t, at)
    PROVE  /\ n \in Nat /\ c[0] = 0 /\ t[0] = 0 /\ c[n] = Len(s) /\ t[n] = at
           /\ \A j \in 0 .. n : /\ c[j] \in Nat /\ c[j] <= Len(s) /\ t[j] \in Nat /\ t[j] <= at
                                /\ j # n => j \in 0 .. n - 1 /\ c[j] < Len(s) /\ t[j] < at
           /\ \A j \in 0 .. n - 1 : /\ j \in 0 .. n /\ j + 1 \in 0 .. n
                                    /\ c[j] < c[j + 1] /\ c[j + 1] <= Len(s) /\ t[j] < t[j + 1]
                                    /\ TokenAt(s, c[j], c[j + 1], t[j], t[j + 1])
<1>1. /\ n \in Nat /\ c \in [0 .. n -> Nat] /\ t \in [0 .. n -> Nat]
      /\ c[0] = 0 /\ t[0] = 0 /\ c[n] = Len(s) /\ t[n] = at
      /\ \A i \in 0 .. n - 1 : c[i] < Len(s) /\ t[i] < at
      /\ \A i \in 1 .. n : TokenAt(s, c[i - 1], c[i], t[i - 1], t[i])
  BY DEF Tokens
<1>2. ASSUME NEW j \in 0 .. n
      PROVE  /\ c[j] \in Nat /\ c[j] <= Len(s) /\ t[j] \in Nat /\ t[j] <= at
             /\ j # n => j \in 0 .. n - 1 /\ c[j] < Len(s) /\ t[j] < at
  <2>1. CASE j = n
    BY <1>1, <2>1
  <2>2. CASE j # n
    <3>1. j \in 0 .. n - 1
      BY <1>1, <2>2
    <3>2. c[j] < Len(s) /\ t[j] < at /\ c[j] \in Nat /\ t[j] \in Nat /\ Len(s) \in Nat
      BY <1>1, <3>1, LenProperties
    <3>. QED  BY <2>2, <3>1, <3>2
  <2>. QED  BY <2>1, <2>2
<1>3. ASSUME NEW j \in 0 .. n - 1
      PROVE  /\ j \in 0 .. n /\ j + 1 \in 0 .. n
             /\ c[j] < c[j + 1] /\ c[j + 1] <= Len(s) /\ t[j] < t[j + 1]
             /\ TokenAt(s, c[j], c[j + 1], t[j], t[j + 1])
  <2>1. j \in 0 .. n /\ j + 1 \in 0 .. n /\ j + 1 \in 1 .. n /\ (j + 1) - 1 = j
    BY <1>1
  <2>2. TokenAt(s, c[j], c[j + 1], t[j], t[j + 1])
    BY <1>1, <2>1
  <2>3. PICK a \in Nat, z \in Nat, p \in Nat, q \in Nat : a = c[j] /\ z = c[j + 1] /\ p = t[j] /\ q = t[j + 1]
    BY <1>2, <2>1
  <2>4. TokenAt(s, a, z, p, q)
    BY <2>2, <2>3
  <2>5. a < z /\ p < q
    BY <2>4 DEF TokenAt, LiteralAt, LiteralDLEAt, CopyAt, IsBackref, BackrefAt
  <2>. QED  BY <1>2, <2>1, <2>2, <2>3, <2>5
<1>. QED  BY <1>1, <1>2, <1>3

LEMMA HaveReadNext ==
    ASSUME Inv, NEW s, NEW n, NEW c, NEW t, NEW o, NEW b, Layout(s, n, c, t, o, b),
           NEW k \in Nat, k < Len(s), HaveRead(s, b, k),
           NEW from \in {"item", "v", "elb", "w"}, NEW to, Reads(from, to)
    PROVE  /\ HaveRead(s, b, k + 1)' /\ NextByte = s[k + 1] /\ s[k + 1] \in Byte
           /\ Layout(s, n, c, t, o, b)' /\ phase = from /\ phase' = to /\ src' = src
<1>1. /\ Len(sets) = BYTE /\ phase = from /\ phase' = to
      /\ curr_byte' = NextByte /\ rpos' = rpos + NextBits
      /\ UNCHANGED <<writing, os, damaged, sets>> /\ src' = src
  BY ReadsFacts
<1>2. NextByte = s[k + 1] /\ s[k + 1] \in Byte /\ rpos + NextBits = b[k + 1]
  BY <1>1, NextRead DEF Layout
<1>3. SetsRead(BYTE)'
  BY <1>1 DEF HaveRead, SetsRead, writing
<1>4. k + 1 \in 0 .. Len(s) /\ Before(s, (k + 1) + 1) = s[k + 1]
  <2>1. s \in Seq(Byte)
    BY DEF Layout
  <2>2. (k + 1) + 1 # 1 /\ ((k + 1) + 1) - 1 = k + 1
    OBVIOUS
  <2>. QED  BY <2>1, <2>2, LenProperties DEF Before
<1>5. HaveRead(s, b, k + 1)'
  BY <1>1, <1>2, <1>3, <1>4 DEF HaveRead
<1>. QED  BY <1>1, <1>2, <1>5, LayoutStays

\* A copy gives what the input has there.
LEMMA CopyGives ==
    ASSUME Inv, NEW p \in Nat, NEW D \in Nat, NEW L \in Nat, IsBackref(p, D, L), dst = SubSeq(src, 1, p)
    PROVE  output_backref(dst, D, L) = SubSeq(src, 1, p + L)
<1>0. src \in Seq(Byte) /\ Len(src) \in Nat /\ dst \in Seq(Byte)
  BY InvFacts
<1>1. /\ D >= 1 /\ D <= p /\ L <= D /\ p + L <= Len(src)
      /\ \A k \in 1 .. L : src[p + k] = src[p + k - D]
  BY DEF IsBackref
<1>2. p <= Len(src) /\ p + L \in Nat
  BY <1>0, <1>1
<1>3. Len(dst) = p /\ \A k \in 1 .. p : dst[k] = src[k]
  BY <1>0, <1>2, SubSeqProperties
<1> DEFINE f(k) == LET i == Len(dst) - D + ((k - 1) % D) + 1 IN IF i < 1 THEN 0 ELSE dst[i]
           e == [k \in 1 .. L |-> f(k)]
<1>4. \A k \in 1 .. L : f(k) = src[p + k] /\ src[p + k] \in Byte
  <2> TAKE k \in 1 .. L
  <2>1. PICK i \in Nat : i = k - 1
    OBVIOUS
  <2>2. i % D = i
    <3>1. i \in 0 .. D - 1 /\ D \in Nat \ {0}
      BY <1>1, <2>1
    <3>2. 0 \in Nat /\ D * 0 + i = i
      OBVIOUS
    <3>3. (D * 0 + i) % D = i
      BY <3>1, <3>2, DivModUnique
    <3>. QED  BY <3>2, <3>3
  <2>3. f(k) = IF p - D + i + 1 < 1 THEN 0 ELSE dst[p - D + i + 1]
    BY <1>3, <2>1, <2>2
  <2>4. p - D + i + 1 = p + k - D /\ p + k - D \in 1 .. p /\ ~(p - D + i + 1 < 1) /\ p + k \in 1 .. Len(src)
    BY <1>0, <1>1, <2>1
  <2> HIDE DEF f
  <2>. QED  BY <1>0, <1>1, <1>3, <2>3, <2>4, ElementOfSeq
<1>5. output_backref(dst, D, L) = dst \o e
  BY DEF output_backref
<1> HIDE DEF f
<1>6. e \in Seq(Byte) /\ Len(e) = L /\ \A k \in 1 .. L : e[k] = src[p + k]
  BY <1>4
<1> HIDE DEF e
<1>7. PICK x, y : x = dst \o e /\ y = SubSeq(src, 1, p + L)
  OBVIOUS
<1>8. /\ x \in Seq(Byte) /\ Len(x) = p + L
      /\ \A k \in 1 .. p + L : x[k] = IF k <= p THEN dst[k] ELSE e[k - p]
  BY <1>0, <1>3, <1>6, <1>7, ConcatProperties
<1>9. y \in Seq(Byte) /\ Len(y) = p + L /\ \A k \in 1 .. p + L : y[k] = src[k]
  BY <1>0, <1>1, <1>2, <1>7, SubSeqProperties
<1>10. ASSUME NEW k \in 1 .. p + L PROVE x[k] = y[k]
  <2>1. CASE k <= p
    <3>1. k \in 1 .. p
      BY <2>1
    <3>. QED  BY <1>3, <1>8, <1>9, <2>1, <3>1
  <2>2. CASE ~(k <= p)
    <3>1. k - p \in 1 .. L /\ p + (k - p) = k
      BY <2>2
    <3>. QED  BY <1>6, <1>8, <1>9, <2>2, <3>1
  <2>. QED  BY <2>1, <2>2
<1>11. x = y
  BY <1>8, <1>9, <1>10, SeqEqual
<1>. QED  BY <1>5, <1>7, <1>11

LEMMA ByteGives ==
    ASSUME Inv, NEW p \in Nat, p < Len(src), dst = SubSeq(src, 1, p)
    PROVE  Append(dst, src[p + 1]) = SubSeq(src, 1, p + 1) /\ Len(dst) = p
<1>0. src \in Seq(Byte) /\ Len(src) \in Nat /\ dst \in Seq(Byte)
  BY InvFacts
<1>1. p <= Len(src) /\ p + 1 \in Nat /\ p + 1 <= Len(src) /\ p + 1 \in 1 .. Len(src)
  BY <1>0
<1>2. Len(dst) = p /\ \A k \in 1 .. p : dst[k] = src[k]
  BY <1>0, <1>1, SubSeqProperties
<1>3. src[p + 1] \in Byte
  BY <1>0, <1>1, ElementOfSeq
<1>4. PICK x, y : x = Append(dst, src[p + 1]) /\ y = SubSeq(src, 1, p + 1)
  OBVIOUS
<1>5. /\ x \in Seq(Byte) /\ Len(x) = p + 1
      /\ \A k \in 1 .. p : x[k] = dst[k]
      /\ x[p + 1] = src[p + 1]
  BY <1>0, <1>2, <1>3, <1>4, AppendProperties
<1>6. y \in Seq(Byte) /\ Len(y) = p + 1 /\ \A k \in 1 .. p + 1 : y[k] = src[k]
  BY <1>0, <1>1, <1>4, SubSeqProperties
<1>7. ASSUME NEW k \in 1 .. p + 1 PROVE x[k] = y[k]
  <2>1. k \in 1 .. p \/ k = p + 1
    OBVIOUS
  <2>. QED  BY <1>2, <1>5, <1>6, <2>1
<1>8. x = y
  BY <1>5, <1>6, <1>7, SeqEqual
<1>. QED  BY <1>2, <1>4, <1>8
\* The next set is the one that was written.
LEMMA NextSet ==
    ASSUME Inv, phase = "sets", NEW s, NEW o, NEW b, Stream(s, o, b), AtSets(o)
    PROVE  LET i == Len(sets) + 1
               set == fsets[BYTE - i]
           IN  /\ SetReadable /\ SetSize = Len(set) /\ i \in 1 .. BYTE /\ set \in Seq(Byte)
               /\ rpos + SIZE_BITS + SetSize * BYTE_BITS = o[i]
               /\ [k \in 1 .. SetSize |->
                     istream_bits(os.bits, rpos + SIZE_BITS + (k - 1) * BYTE_BITS, BYTE_BITS)] = set
<1>1. PICK m \in Nat, z \in Nat : m = Len(sets) /\ z = rpos /\ m < BYTE
  BY InvFacts DEF Inv, Bounds
<1>2. PICK i \in 1 .. BYTE : i = m + 1 /\ i - 1 = m /\ BYTE - i \in Byte
  BY <1>1, ConstantFacts
<1>3. PICK set : set = fsets[BYTE - i]
  OBVIOUS
<1>4. set \in Seq(Byte) /\ Len(set) <= MAX_FOLLOWERS /\ Len(set) \in Nat
  BY <1>2, <1>3, InvSets, LenProperties DEF FollowerSets
<1>5. PICK l \in Nat : l = Len(set) /\ l <= MAX_FOLLOWERS
  BY <1>4
<1>6. z = o[i - 1] /\ o[i] = o[i - 1] + SIZE_BITS + l * BYTE_BITS /\ At(os.bits, z, SetBits(set))
  BY <1>1, <1>2, <1>3, <1>5 DEF AtSets, Stream, Ends, SetsAt
<1>7. PICK c \in Seq({0, 1}) :
        /\ c = SetBits(set) /\ Len(c) = SIZE_BITS + l * BYTE_BITS
        /\ At(c, 0, Bits(l, SIZE_BITS))
        /\ \A k \in 1 .. l : At(c, SIZE_BITS + (k - 1) * BYTE_BITS, Bits(set[k], BYTE_BITS))
  BY <1>4, <1>5, SetBitsFacts
<1>8. os.bits \in Seq({0, 1}) /\ Len(os.bits) \in Nat /\ Len(c) \in Nat /\ BYTE_BITS \in Nat /\ SIZE_BITS \in Nat
      /\ Byte = 0 .. 2 ^ BYTE_BITS - 1
  BY InvFacts, LenProperties, ConstantFacts
<1>9. At(os.bits, z, c)
  BY <1>6, <1>7
<1>10. SetSize = l
  <2>1. PICK e \in Seq({0, 1}) : e = Bits(l, SIZE_BITS) /\ Len(e) \in Nat
    BY <1>8, BitsType, LenProperties
  <2>2. At(os.bits, z + 0, e)
    <3>1. 0 \in Nat
      OBVIOUS
    <3>. QED  BY <1>7, <1>8, <1>9, <2>1, <3>1, AtNested
  <2>3. At(os.bits, z, Bits(l, SIZE_BITS))
    BY <2>1, <2>2
  <2>4. l \in 0 .. 2 ^ SIZE_BITS - 1
    <3>1. PICK M \in Nat, P \in Nat : M = MAX_FOLLOWERS /\ P = 2 ^ SIZE_BITS /\ M < P
      BY <1>8, ConstantFacts, PowerStep
    <3>. QED  BY <1>5, <3>1
  <2>. QED  BY <1>1, <1>8, <2>3, <2>4, ReadsNumber DEF SetSize
<1>11. ASSUME NEW k \in 1 .. l
       PROVE  istream_bits(os.bits, z + SIZE_BITS + (k - 1) * BYTE_BITS, BYTE_BITS) = set[k]
  <2>1. k - 1 \in Nat
    OBVIOUS
  <2>2. PICK w \in Nat : w = (k - 1) * BYTE_BITS
    BY <1>8, <2>1, TimesNat
  <2>3. set[k] \in Byte /\ set[k] \in Nat
    BY <1>4, <1>5, ElementOfSeq, ConstantFacts
  <2>4. PICK e \in Seq({0, 1}) : e = Bits(set[k], BYTE_BITS) /\ Len(e) \in Nat
    BY <1>8, <2>3, BitsType, LenProperties
  <2>5. PICK y \in Nat : y = SIZE_BITS + w
    BY <1>8
  <2>6. At(c, y, e)
    BY <1>7, <2>2, <2>4, <2>5
  <2>7. At(os.bits, z + y, e)
    BY <1>8, <1>9, <2>4, <2>6, AtNested
  <2>8. z + y \in Nat /\ z + y = z + SIZE_BITS + w
    BY <1>8, <2>5
  <2>9. istream_bits(os.bits, z + y, BYTE_BITS) = set[k]
    BY <1>8, <2>3, <2>4, <2>7, <2>8, ReadsNumber
  <2>. QED  BY <2>2, <2>8, <2>9
<1>12. [k \in 1 .. l |-> istream_bits(os.bits, z + SIZE_BITS + (k - 1) * BYTE_BITS, BYTE_BITS)] = set
  <2>1. [k \in 1 .. l |-> istream_bits(os.bits, z + SIZE_BITS + (k - 1) * BYTE_BITS, BYTE_BITS)] = [k \in 1 .. l |-> set[k]]
    BY <1>11
  <2>2. set = [k \in 1 .. l |-> set[k]]
    BY <1>4, <1>5
  <2>. QED  BY <2>1, <2>2
<1>13. SetReadable
  <2>1. Has(os.bits, z, SIZE_BITS + l * BYTE_BITS)
    BY <1>7, <1>9 DEF At, Has
  <2>. QED  BY <1>1, <1>5, <1>10, <2>1 DEF SetReadable
<1>14. z + SIZE_BITS + l * BYTE_BITS = o[i]
  BY <1>6
<1>. QED  BY <1>1, <1>2, <1>3, <1>4, <1>5, <1>10, <1>12, <1>13, <1>14

LEMMA ReadSetReading == ASSUME Inv, Reading, ReadSet PROVE Reading'
<1>1. /\ phase = "sets" /\ Len(sets) < BYTE
      /\ sets' = Append(sets, [k \in 1 .. SetSize |->
                    istream_bits(os.bits, rpos + SIZE_BITS + (k - 1) * BYTE_BITS, BYTE_BITS)])
      /\ rpos' = rpos + SIZE_BITS + SetSize * BYTE_BITS
      /\ phase' = IF Len(sets') = BYTE THEN "item" ELSE "sets"
      /\ UNCHANGED <<writing, os, damaged, curr_byte, v, len, dst, touched>>
  BY DEF ReadSet
<1>2. PICK s, n, c, t, o, b : Layout(s, n, c, t, o, b) /\ AtSets(o)
  BY <1>1 DEF Reading, AtItem, AtV, AtLen
<1>3. Stream(s, o, b) /\ s \in Seq(Byte) /\ Tokens(s, n, c, t, pos) /\ pos = Len(src)
  BY <1>2 DEF Layout
<1>4. PICK m \in Nat, i \in 1 .. BYTE, set \in Seq(Byte) :
        /\ m = Len(sets) /\ i = m + 1 /\ set = fsets[BYTE - i] /\ rpos' = o[i]
        /\ sets' = Append(sets, set)
  <2>1. PICK m \in Nat : m = Len(sets)
    BY InvFacts
  <2>. QED  BY <1>1, <1>2, <1>3, <2>1, NextSet
<1>5. /\ Len(sets') = i
      /\ \A k \in 1 .. i : sets'[k] = IF k <= m THEN sets[k] ELSE set
  BY <1>4, InvFacts, AppendProperties
<1>6. fsets' = fsets /\ src' = src /\ curr_byte' = 0 /\ dst' = <<>>
  BY <1>1 DEF writing, Inv, Bounds
<1>7. SetsRead(i)'
  <2>1. ASSUME NEW k \in 1 .. i PROVE sets'[k] = fsets'[BYTE - k]
    <3>1. CASE k <= m
      <4>1. k \in 1 .. m
        BY <1>4, <3>1
      <4>2. sets[k] = fsets[BYTE - k]
        BY <1>2, <1>4, <4>1 DEF AtSets, SetsRead
      <4>. QED  BY <1>5, <1>6, <3>1, <4>2
    <3>2. CASE ~(k <= m)
      <4>1. k = i
        BY <1>4, <3>2
      <4>. QED  BY <1>4, <1>5, <1>6, <3>2, <4>1
    <3>. QED  BY <3>1, <3>2
  <2>. QED  BY <2>1 DEF SetsRead
<1>8. Layout(s, n, c, t, o, b)'
  BY <1>1, <1>2, LayoutStays
<1>9. CASE i # BYTE
  <2>1. AtSets(o)'
    BY <1>1, <1>4, <1>5, <1>7, <1>9 DEF AtSets
  <2>. QED  BY <1>8, <2>1 DEF Reading
<1>10. CASE i = BYTE
  <2>1. /\ n \in Nat /\ c[0] = 0 /\ t[0] = 0 /\ 0 \in 0 .. n /\ 0 \in 0 .. Len(s)
    <3>1. pos \in Nat
      BY InvFacts
    <3>. QED  BY <1>3, <3>1, TokenFacts, LenProperties
  <2>2. rpos' = b[0] /\ curr_byte' = Before(s, 0 + 1)
    BY <1>3, <1>4, <1>6, <1>10 DEF Stream, Before
  <2>3. HaveRead(s, b, 0)'
    <3>1. SetsRead(BYTE)'
      BY <1>7, <1>10 DEF SetsRead
    <3>. QED  BY <2>1, <2>2, <3>1 DEF HaveRead
  <2>4. SubSeq(src, 1, 0) = <<>>
    BY InvFacts, SubSeqEmpty
  <2>5. AtItem(s, n, c, t, b)'
    <3>1. phase' = "item"
      BY <1>1, <1>5, <1>10
    <3>. QED  BY <1>6, <2>1, <2>3, <2>4, <3>1 DEF AtItem
  <2>. QED  BY <1>8, <2>5 DEF Reading
<1>. QED  BY <1>9, <1>10

\* Between tokens, with some of the input missing, the next is read.
LEMMA AtNextToken ==
    ASSUME Inv, NEW s, NEW n, NEW c, NEW t, NEW o, NEW b, Layout(s, n, c, t, o, b), AtItem(s, n, c, t, b)
    PROVE  /\ Len(dst) < Len(src) =>
                 \E j \in 0 .. n - 1 : /\ HaveRead(s, b, c[j]) /\ dst = SubSeq(src, 1, t[j])
                                       /\ c[j] \in Nat /\ c[j] < Len(s)
           /\ Len(dst) >= Len(src) => rpos = b[Len(s)] /\ dst = SubSeq(src, 1, Len(src))
<1>1. s \in Seq(Byte) /\ Tokens(s, n, c, t, pos) /\ pos = Len(src) /\ pos \in Nat /\ src \in Seq(Byte) /\ Len(src) \in Nat
  BY InvFacts DEF Layout
<1>2. PICK j \in 0 .. n : HaveRead(s, b, c[j]) /\ dst = SubSeq(src, 1, t[j])
  BY DEF AtItem
<1>3. /\ n \in Nat /\ c[n] = Len(s) /\ t[n] = Len(src)
      /\ c[j] \in Nat /\ c[j] <= Len(s) /\ t[j] \in Nat /\ t[j] <= Len(src)
      /\ j # n => j \in 0 .. n - 1 /\ c[j] < Len(s) /\ t[j] < Len(src)
  BY <1>1, TokenFacts
<1>4. Len(dst) = t[j]
  BY <1>1, <1>2, <1>3, SubSeqProperties
<1>5. CASE j = n
  BY <1>1, <1>2, <1>3, <1>4, <1>5 DEF HaveRead
<1>6. CASE j # n
  <2>1. ~(Len(dst) >= Len(src))
    <3>1. PICK a \in Nat, e \in Nat : a = t[j] /\ e = Len(src) /\ a < e
      BY <1>1, <1>3, <1>6
    <3>. QED  BY <1>4, <3>1
  <2>2. j \in 0 .. n - 1 /\ c[j] \in Nat /\ c[j] < Len(s)
    BY <1>3, <1>6
  <2>. QED  BY <1>2, <2>1, <2>2
<1>. QED  BY <1>5, <1>6

LEMMA ReadLiteralReading ==
    ASSUME Inv, Reading, ReadLiteral
    PROVE  Reading' /\ \E q \in Len(dst) + 1 .. Len(src) : dst' = SubSeq(src, 1, q)
<1>1. /\ Reads("item", "item") /\ NextByte # DLE_BYTE /\ Len(dst) < Len(src) /\ phase = "item"
      /\ dst' = Append(dst, NextByte)
  BY DEF ReadLiteral, Output, Reads
<1>2. PICK s, n, c, t, o, b : Layout(s, n, c, t, o, b) /\ AtItem(s, n, c, t, b)
  BY <1>1 DEF Reading, AtSets, AtV, AtLen
<1>3. PICK j \in 0 .. n - 1 : HaveRead(s, b, c[j]) /\ dst = SubSeq(src, 1, t[j]) /\ c[j] \in Nat /\ c[j] < Len(s)
  BY <1>1, <1>2, AtNextToken
<1>4. /\ HaveRead(s, b, c[j] + 1)' /\ NextByte = s[c[j] + 1]
      /\ Layout(s, n, c, t, o, b)' /\ phase' = "item" /\ src' = src
  BY <1>1, <1>2, <1>3, HaveReadNext
<1>5. s \in Seq(Byte) /\ Tokens(s, n, c, t, pos) /\ pos \in Nat /\ pos = Len(src)
  BY <1>2, InvFacts DEF Layout
<1>6. /\ j \in 0 .. n /\ j + 1 \in 0 .. n /\ t[j] \in Nat /\ t[j] < t[j + 1] /\ t[j + 1] <= Len(src)
      /\ TokenAt(s, c[j], c[j + 1], t[j], t[j + 1])
  BY <1>5, TokenFacts
<1>7. LiteralAt(s, c[j], c[j + 1], t[j], t[j + 1])
  BY <1>1, <1>4, <1>6 DEF TokenAt, LiteralDLEAt, CopyAt, BackrefAt
<1>8. c[j + 1] = c[j] + 1 /\ t[j + 1] = t[j] + 1 /\ NextByte = src[t[j] + 1]
  BY <1>4, <1>7 DEF LiteralAt
<1>9. dst' = SubSeq(src, 1, t[j + 1]) /\ Len(dst) = t[j]
  <2>1. PICK p \in Nat : p = t[j] /\ p < Len(src)
    <3>1. PICK p \in Nat, N \in Nat : p = t[j] /\ N = Len(src) /\ p + 1 <= N
      BY <1>5, <1>6, <1>8
    <3>2. p < N
      BY <3>1
    <3>. QED  BY <3>1, <3>2
  <2>. QED  BY <1>1, <1>3, <1>8, <2>1, ByteGives
<1>10. AtItem(s, n, c, t, b)'
  BY <1>4, <1>6, <1>8, <1>9 DEF AtItem
<1>11. t[j + 1] \in Len(dst) + 1 .. Len(src)
  BY <1>5, <1>6, <1>8, <1>9
<1>. QED  BY <1>4, <1>9, <1>10, <1>11 DEF Reading

LEMMA ReadDLEReading == ASSUME Inv, Reading, ReadDLE PROVE Reading'
<1>1. /\ Reads("item", "v") /\ NextByte = DLE_BYTE /\ Len(dst) < Len(src) /\ phase = "item" /\ dst' = dst
  BY DEF ReadDLE, Reads
<1>2. PICK s, n, c, t, o, b : Layout(s, n, c, t, o, b) /\ AtItem(s, n, c, t, b)
  BY <1>1 DEF Reading, AtSets, AtV, AtLen
<1>3. PICK j \in 0 .. n - 1 : HaveRead(s, b, c[j]) /\ dst = SubSeq(src, 1, t[j]) /\ c[j] \in Nat /\ c[j] < Len(s)
  BY <1>1, <1>2, AtNextToken
<1>4. /\ HaveRead(s, b, c[j] + 1)' /\ NextByte = s[c[j] + 1]
      /\ Layout(s, n, c, t, o, b)' /\ phase' = "v" /\ src' = src
  BY <1>1, <1>2, <1>3, HaveReadNext
<1>5. AtV(s, n, c, t, b)'
  BY <1>1, <1>3, <1>4 DEF AtV
<1>. QED  BY <1>4, <1>5 DEF Reading

\* After DLE: the rest of a token.
LEMMA AfterDLE ==
    ASSUME Inv, NEW s, NEW n, NEW c, NEW t, NEW o, NEW b, Layout(s, n, c, t, o, b), AtV(s, n, c, t, b)
    PROVE  \E j \in 0 .. n - 1 :
              /\ HaveRead(s, b, c[j] + 1) /\ dst = SubSeq(src, 1, t[j])
              /\ j \in 0 .. n /\ j + 1 \in 0 .. n /\ c[j] \in Nat /\ c[j] + 1 \in Nat /\ c[j] + 1 < Len(s)
              /\ t[j] \in Nat /\ t[j + 1] \in Nat /\ t[j] < t[j + 1] /\ t[j + 1] <= Len(src)
              /\ \/ LiteralDLEAt(s, c[j], c[j + 1], t[j], t[j + 1])
                 \/ \E D \in Nat, L \in Nat : CopyAt(s, c[j], c[j + 1], t[j], t[j + 1], D, L)
<1>1. s \in Seq(Byte) /\ Tokens(s, n, c, t, pos) /\ pos = Len(src) /\ pos \in Nat /\ Len(s) \in Nat
  BY InvFacts, LenProperties DEF Layout
<1>2. PICK j \in 0 .. n - 1 : HaveRead(s, b, c[j] + 1) /\ dst = SubSeq(src, 1, t[j]) /\ s[c[j] + 1] = DLE_BYTE
  BY DEF AtV
<1>3. /\ j \in 0 .. n /\ j + 1 \in 0 .. n /\ c[j] \in Nat /\ c[j + 1] \in Nat /\ c[j + 1] <= Len(s)
      /\ t[j] \in Nat /\ t[j + 1] \in Nat /\ t[j] < t[j + 1] /\ t[j + 1] <= pos
      /\ TokenAt(s, c[j], c[j + 1], t[j], t[j + 1])
  BY <1>1, TokenFacts
<1>4. \/ LiteralDLEAt(s, c[j], c[j + 1], t[j], t[j + 1])
      \/ \E D \in Nat, L \in Nat : CopyAt(s, c[j], c[j + 1], t[j], t[j + 1], D, L)
  BY <1>2, <1>3 DEF TokenAt, LiteralAt
<1>5. c[j] + 2 <= c[j + 1]
  <2>1. PICK a \in Nat, z \in Nat : a = c[j] /\ z = c[j + 1]
    BY <1>3
  <2>2. z = a + 2 \/ z = a + 3 \/ z = a + 4
    BY <1>4, <2>1 DEF LiteralDLEAt, CopyAt, BackrefAt
  <2>. QED  BY <2>1, <2>2
<1>6. c[j] + 1 \in Nat /\ c[j] + 1 < Len(s)
  BY <1>1, <1>3, <1>5
<1>. QED  BY <1>1, <1>2, <1>3, <1>4, <1>6
LEMMA ReadLiteralDLEReading ==
    ASSUME Inv, Reading, ReadLiteralDLE
    PROVE  Reading' /\ \E q \in Len(dst) + 1 .. Len(src) : dst' = SubSeq(src, 1, q)
<1>1. /\ Reads("v", "item") /\ NextByte = 0 /\ phase = "v" /\ dst' = Append(dst, DLE_BYTE)
  BY DEF ReadLiteralDLE, Output, Reads
<1>2. PICK s, n, c, t, o, b : Layout(s, n, c, t, o, b) /\ AtV(s, n, c, t, b)
  BY <1>1 DEF Reading, AtSets, AtItem, AtLen
<1>3. PICK j \in 0 .. n - 1 :
        /\ HaveRead(s, b, c[j] + 1) /\ dst = SubSeq(src, 1, t[j])
        /\ j \in 0 .. n /\ j + 1 \in 0 .. n /\ c[j] \in Nat /\ c[j] + 1 \in Nat /\ c[j] + 1 < Len(s)
        /\ t[j] \in Nat /\ t[j + 1] \in Nat /\ t[j] < t[j + 1] /\ t[j + 1] <= Len(src)
        /\ \/ LiteralDLEAt(s, c[j], c[j + 1], t[j], t[j + 1])
           \/ \E D \in Nat, L \in Nat : CopyAt(s, c[j], c[j + 1], t[j], t[j + 1], D, L)
  BY <1>2, AfterDLE
<1>4. /\ HaveRead(s, b, (c[j] + 1) + 1)' /\ NextByte = s[(c[j] + 1) + 1]
      /\ Layout(s, n, c, t, o, b)' /\ phase' = "item" /\ src' = src
  BY <1>1, <1>2, <1>3, HaveReadNext
<1>5. (c[j] + 1) + 1 = c[j] + 2
  BY <1>3
<1>6. LiteralDLEAt(s, c[j], c[j + 1], t[j], t[j + 1])
  <2> SUFFICES ASSUME NEW D \in Nat, NEW L \in Nat, CopyAt(s, c[j], c[j + 1], t[j], t[j + 1], D, L)
               PROVE  FALSE
    BY <1>3
  <2>1. s[c[j] + 2] = VOf(L - 3, D - 1) /\ IsBackref(t[j], D, L)
    BY DEF CopyAt, BackrefAt
  <2>2. VOf(L - 3, D - 1) # 0
    BY <2>1, CopyNumbers
  <2>. QED  BY <1>1, <1>4, <1>5, <2>1, <2>2
<1>7. c[j + 1] = c[j] + 2 /\ t[j + 1] = t[j] + 1 /\ src[t[j] + 1] = DLE_BYTE
  BY <1>6 DEF LiteralDLEAt
<1>8. dst' = SubSeq(src, 1, t[j + 1]) /\ Len(dst) = t[j]
  <2>1. PICK p \in Nat : p = t[j] /\ p < Len(src)
    <3>1. PICK p \in Nat, N \in Nat : p = t[j] /\ N = Len(src) /\ p + 1 <= N
      BY <1>3, <1>7, InvFacts
    <3>2. p < N
      BY <3>1
    <3>. QED  BY <3>1, <3>2
  <2>. QED  BY <1>1, <1>3, <1>7, <2>1, ByteGives
<1>9. AtItem(s, n, c, t, b)'
  BY <1>3, <1>4, <1>5, <1>7, <1>8 DEF AtItem
<1>10. t[j + 1] \in Len(dst) + 1 .. Len(src)
  BY <1>3, <1>7, <1>8, InvFacts
<1>. QED  BY <1>4, <1>8, <1>9, <1>10 DEF Reading

LEMMA ReadVReading == ASSUME Inv, Reading, ReadV PROVE Reading'
<1> DEFINE low == lsb(NextByte, v_len_bits)
           to == IF low = V_LEN_MAX THEN "elb" ELSE "w"
<1>1. /\ phase = "v" /\ NextByte # 0 /\ Reads("v", to) /\ v' = NextByte /\ len' = low + 3 /\ dst' = dst
  BY DEF ReadV
<1>2. PICK s, n, c, t, o, b : Layout(s, n, c, t, o, b) /\ AtV(s, n, c, t, b)
  BY <1>1 DEF Reading, AtSets, AtItem, AtLen
<1>3. PICK j \in 0 .. n - 1 :
        /\ HaveRead(s, b, c[j] + 1) /\ dst = SubSeq(src, 1, t[j])
        /\ j \in 0 .. n /\ j + 1 \in 0 .. n /\ c[j] \in Nat /\ c[j] + 1 \in Nat /\ c[j] + 1 < Len(s)
        /\ t[j] \in Nat /\ t[j + 1] \in Nat /\ t[j] < t[j + 1] /\ t[j + 1] <= Len(src)
        /\ \/ LiteralDLEAt(s, c[j], c[j + 1], t[j], t[j + 1])
           \/ \E D \in Nat, L \in Nat : CopyAt(s, c[j], c[j + 1], t[j], t[j + 1], D, L)
  BY <1>2, AfterDLE
<1>4. /\ HaveRead(s, b, (c[j] + 1) + 1)' /\ NextByte = s[(c[j] + 1) + 1]
      /\ Layout(s, n, c, t, o, b)' /\ phase' = to /\ src' = src
  <2> HIDE DEF to
  <2>. QED  BY <1>1, <1>2, <1>3, HaveReadNext
<1>5. (c[j] + 1) + 1 = c[j] + 2
  BY <1>3
<1>6. PICK D \in Nat, L \in Nat : CopyAt(s, c[j], c[j + 1], t[j], t[j + 1], D, L)
  BY <1>1, <1>3, <1>4, <1>5 DEF LiteralDLEAt
<1>7. IsBackref(t[j], D, L) /\ BackrefAt(s, c[j], c[j + 1], L - 3, D - 1)
  BY <1>6 DEF CopyAt
<1>8. PICK l \in Nat, d \in Nat :
        /\ l = L - 3 /\ d = D - 1 /\ l + 3 = L
        /\ VOf(l, d) % 2 ^ v_len_bits = (IF l < V_LEN_MAX THEN l ELSE V_LEN_MAX)
  BY <1>7, CopyNumbers
<1>9. NextByte = VOf(l, d) /\ low = IF l < V_LEN_MAX THEN l ELSE V_LEN_MAX
  BY <1>4, <1>5, <1>7, <1>8 DEF BackrefAt, lsb
<1> HIDE DEF low
<1>10. PICK m \in Nat : m = V_LEN_MAX
  BY VFacts
<1>11. CASE l >= m
  <2>1. phase' = "elb" /\ len' = V_LEN_MAX + 3 /\ L - 3 >= V_LEN_MAX
    BY <1>1, <1>4, <1>8, <1>9, <1>10, <1>11
  <2>2. AtLen(s, n, c, t, b)'
    <3>1. v' = VOf(L - 3, D - 1) /\ dst' = SubSeq(src', 1, t[j]) /\ HaveRead(s, b, c[j] + 2)'
      BY <1>1, <1>3, <1>4, <1>5, <1>8, <1>9
    <3>2. CopyAt(s, c[j], c[j + 1], t[j], t[j + 1], D, L)'
      BY <1>4, <1>6 DEF CopyAt, IsBackref, BackrefAt
    <3>. QED  BY <2>1, <3>1, <3>2 DEF AtLen
  <2>. QED  BY <1>4, <2>2 DEF Reading
<1>12. CASE ~(l >= m)
  <2>1. phase' = "w" /\ len' = L
    BY <1>1, <1>4, <1>8, <1>9, <1>10, <1>12
  <2>2. c[j + 1] = c[j] + 3 /\ c[j + 1] - 1 = c[j] + 2
    <3>1. ~(L - 3 >= V_LEN_MAX)
      BY <1>8, <1>10, <1>12
    <3>2. PICK a \in Nat : a = c[j]
      BY <1>3
    <3>3. c[j + 1] = a + 3
      BY <1>7, <3>1, <3>2 DEF BackrefAt
    <3>. QED  BY <3>2, <3>3
  <2>3. AtLen(s, n, c, t, b)'
    <3>1. v' = VOf(L - 3, D - 1) /\ dst' = SubSeq(src', 1, t[j]) /\ HaveRead(s, b, c[j + 1] - 1)'
      BY <1>1, <1>3, <1>4, <1>5, <1>8, <1>9, <2>2
    <3>2. CopyAt(s, c[j], c[j + 1], t[j], t[j + 1], D, L)'
      BY <1>4, <1>6 DEF CopyAt, IsBackref, BackrefAt
    <3>. QED  BY <2>1, <3>1, <3>2 DEF AtLen
  <2>. QED  BY <1>4, <2>3 DEF Reading
<1>. QED  BY <1>11, <1>12

\* The reader is in the j-th token, bytes a + 1 to z, and has read k.
Copying(s, n, c, t, b, j, D, L, l, d, a, z, k) ==
    /\ CopyAt(s, c[j], c[j + 1], t[j], t[j + 1], D, L)
    /\ dst = SubSeq(src, 1, t[j]) /\ v = VOf(l, d)
    /\ l = L - 3 /\ d = D - 1 /\ l + 3 = L /\ d + 1 = D /\ IsBackref(t[j], D, L)
    /\ j + 1 \in 0 .. n /\ t[j] \in Nat /\ t[j + 1] = t[j] + L /\ t[j + 1] <= Len(src)
    /\ a = c[j] /\ z = c[j + 1] /\ BackrefAt(s, a, z, l, d)
    /\ HaveRead(s, b, k) /\ k < Len(s)
    /\ phase = "elb" => l >= V_LEN_MAX /\ k = a + 2 /\ z = a + 4 /\ len = V_LEN_MAX + 3
    /\ phase = "w" => k + 1 = z /\ len = L

LEMMA InCopy ==
    ASSUME Inv, NEW s, NEW n, NEW c, NEW t, NEW o, NEW b, Layout(s, n, c, t, o, b), AtLen(s, n, c, t, b)
    PROVE  \E j \in 0 .. n - 1, D \in Nat, L \in Nat, l \in Nat, d \in Nat, a \in Nat, z \in Nat, k \in Nat :
              Copying(s, n, c, t, b, j, D, L, l, d, a, z, k)
<1>1. s \in Seq(Byte) /\ Tokens(s, n, c, t, pos) /\ pos = Len(src) /\ pos \in Nat /\ Len(s) \in Nat
  BY InvFacts, LenProperties DEF Layout
<1>2. PICK j \in 0 .. n - 1, D \in Nat, L \in Nat :
        /\ CopyAt(s, c[j], c[j + 1], t[j], t[j + 1], D, L)
        /\ dst = SubSeq(src, 1, t[j]) /\ v = VOf(L - 3, D - 1)
        /\ \/ phase = "elb" /\ L - 3 >= V_LEN_MAX /\ HaveRead(s, b, c[j] + 2) /\ len = V_LEN_MAX + 3
           \/ phase = "w" /\ HaveRead(s, b, c[j + 1] - 1) /\ len = L
  BY DEF AtLen
<1>3. /\ j \in 0 .. n /\ j + 1 \in 0 .. n /\ c[j] \in Nat /\ c[j + 1] \in Nat /\ c[j + 1] <= Len(s)
      /\ t[j] \in Nat /\ t[j + 1] <= Len(src)
  BY <1>1, TokenFacts
<1>4. PICK l \in Nat, d \in Nat, a \in Nat, z \in Nat :
        /\ l = L - 3 /\ d = D - 1 /\ l + 3 = L /\ d + 1 = D /\ a = c[j] /\ z = c[j + 1]
        /\ IsBackref(t[j], D, L) /\ BackrefAt(s, a, z, l, d) /\ t[j + 1] = t[j] + L
  <2>1. IsBackref(t[j], D, L) /\ BackrefAt(s, c[j], c[j + 1], L - 3, D - 1) /\ t[j + 1] = t[j] + L
    BY <1>2 DEF CopyAt
  <2>2. PICK l \in Nat, d \in Nat : l = L - 3 /\ d = D - 1 /\ l + 3 = L /\ d + 1 = D
    BY <2>1, CopyNumbers
  <2>. QED  BY <1>3, <2>1, <2>2
<1>5. IF l >= V_LEN_MAX THEN z = a + 4 ELSE z = a + 3
  BY <1>4 DEF BackrefAt
<1>6. PICK k \in Nat : /\ HaveRead(s, b, k) /\ k < Len(s)
                       /\ \/ phase = "elb" /\ l >= V_LEN_MAX /\ k = a + 2 /\ z = a + 4 /\ len = V_LEN_MAX + 3
                          \/ phase = "w" /\ k + 1 = z /\ len = L
  <2>1. CASE phase = "elb"
    <3>1. l >= V_LEN_MAX /\ HaveRead(s, b, a + 2) /\ len = V_LEN_MAX + 3
      BY <1>2, <1>4, <2>1
    <3>2. z = a + 4 /\ z <= Len(s)
      BY <1>3, <1>4, <1>5, <3>1
    <3>3. a + 2 \in Nat /\ a + 2 < Len(s)
      BY <1>1, <3>2
    <3>. QED  BY <2>1, <3>1, <3>2, <3>3
  <2>2. CASE phase = "w"
    <3>1. HaveRead(s, b, z - 1) /\ len = L
      BY <1>2, <1>4, <2>2
    <3>2. z \in Nat /\ z >= 1 /\ z <= Len(s)
      BY <1>3, <1>4, <1>5, SMTT(30)
    <3>3. z - 1 \in Nat /\ z - 1 < Len(s) /\ (z - 1) + 1 = z
      BY <1>1, <3>2
    <3>. QED  BY <2>2, <3>1, <3>3
  <2>. QED  BY <1>2, <2>1, <2>2
<1>7. Copying(s, n, c, t, b, j, D, L, l, d, a, z, k)
  BY <1>2, <1>3, <1>4, <1>6 DEF Copying
<1>. QED  BY <1>7

LEMMA ReadExtraLengthReading == ASSUME Inv, Reading, ReadExtraLength PROVE Reading'
<1>1. Reads("elb", "w") /\ len' = len + NextByte /\ v' = v /\ dst' = dst /\ phase = "elb"
  BY DEF ReadExtraLength, Reads
<1>2. PICK s, n, c, t, o, b : Layout(s, n, c, t, o, b) /\ AtLen(s, n, c, t, b)
  BY <1>1 DEF Reading, AtSets, AtItem, AtV
<1>0. PICK j \in 0 .. n - 1, D \in Nat, L \in Nat, l \in Nat, d \in Nat, a \in Nat, z \in Nat, k \in Nat :
        Copying(s, n, c, t, b, j, D, L, l, d, a, z, k)
  BY <1>2, InCopy
<1>3. /\ CopyAt(s, c[j], c[j + 1], t[j], t[j + 1], D, L)
      /\ dst = SubSeq(src, 1, t[j]) /\ v = VOf(l, d)
      /\ l = L - 3 /\ d = D - 1 /\ l + 3 = L
      /\ a = c[j] /\ z = c[j + 1] /\ BackrefAt(s, a, z, l, d)
      /\ HaveRead(s, b, k) /\ k < Len(s)
      /\ l >= V_LEN_MAX /\ k = a + 2 /\ z = a + 4 /\ len = V_LEN_MAX + 3
  BY <1>0, <1>1 DEF Copying
<1>4. /\ HaveRead(s, b, k + 1)' /\ NextByte = s[k + 1]
      /\ Layout(s, n, c, t, o, b)' /\ phase' = "w" /\ src' = src
  BY <1>1, <1>2, <1>3, HaveReadNext
<1>5. k + 1 = a + 3 /\ k + 1 = c[j + 1] - 1
  <2>1. k = a + 2 /\ z = a + 4 /\ z = c[j + 1]
    BY <1>3
  <2>2. k + 1 = a + 3 /\ z - 1 = a + 3
    BY <2>1
  <2>. QED  BY <2>1, <2>2
<1>6. NextByte = l - V_LEN_MAX
  BY <1>3, <1>4, <1>5 DEF BackrefAt
<1>7. len' = L
  <2>1. PICK m \in Nat : m = V_LEN_MAX
    BY VFacts
  <2>. QED  BY <1>1, <1>3, <1>6, <2>1
<1>8. AtLen(s, n, c, t, b)'
  <2>1. CopyAt(s, c[j], c[j + 1], t[j], t[j + 1], D, L)'
    BY <1>3, <1>4 DEF CopyAt, IsBackref, BackrefAt
  <2>2. v' = VOf(L - 3, D - 1) /\ dst' = SubSeq(src', 1, t[j]) /\ HaveRead(s, b, c[j + 1] - 1)'
    BY <1>1, <1>3, <1>4, <1>5
  <2>. QED  BY <1>4, <1>7, <2>1, <2>2 DEF AtLen
<1>. QED  BY <1>4, <1>8 DEF Reading

LEMMA ReadWReading ==
    ASSUME Inv, Reading, ReadW
    PROVE  Reading' /\ \E q \in Len(dst) + 1 .. Len(src) : dst' = SubSeq(src, 1, q)
<1>1. /\ Reads("w", "item") /\ dst' = output_backref(dst, dist, len) /\ phase = "w"
  BY DEF ReadW, Output, Reads
<1>2. PICK s, n, c, t, o, b : Layout(s, n, c, t, o, b) /\ AtLen(s, n, c, t, b)
  BY <1>1 DEF Reading, AtSets, AtItem, AtV
<1>0. PICK j \in 0 .. n - 1, D \in Nat, L \in Nat, l \in Nat, d \in Nat, a \in Nat, z \in Nat, k \in Nat :
        Copying(s, n, c, t, b, j, D, L, l, d, a, z, k)
  BY <1>2, InCopy
<1>3. /\ dst = SubSeq(src, 1, t[j]) /\ v = VOf(l, d)
      /\ l = L - 3 /\ d = D - 1 /\ d + 1 = D /\ IsBackref(t[j], D, L)
      /\ j + 1 \in 0 .. n /\ t[j] \in Nat /\ t[j + 1] = t[j] + L /\ t[j + 1] <= Len(src)
      /\ z = c[j + 1] /\ BackrefAt(s, a, z, l, d)
      /\ HaveRead(s, b, k) /\ k < Len(s) /\ k + 1 = z /\ len = L
  BY <1>0, <1>1 DEF Copying
<1>4. /\ HaveRead(s, b, k + 1)' /\ NextByte = s[k + 1]
      /\ Layout(s, n, c, t, o, b)' /\ phase' = "item" /\ src' = src
  BY <1>1, <1>2, <1>3, HaveReadNext
<1>5. NextByte = d % BYTE
  <2>1. s[z] = d % BYTE
    BY <1>3 DEF BackrefAt
  <2>. QED  BY <1>3, <1>4, <2>1
<1>6. dist = D
  <2>1. /\ VOf(L - 3, D - 1) \div 2 ^ v_len_bits = (D - 1) \div BYTE
        /\ ((D - 1) \div BYTE) * BYTE + ((D - 1) % BYTE) = D - 1
    BY <1>3, CopyNumbers
  <2>2. PICK q, w, e : q = d \div BYTE /\ w = d % BYTE /\ e = q * BYTE
    OBVIOUS
  <2>3. v \div 2 ^ v_len_bits = q /\ e + w = d
    BY <1>3, <2>1, <2>2
  <2>4. dist = e + w + 1
    BY <1>5, <2>2, <2>3 DEF dist
  <2>. QED  BY <1>3, <2>3, <2>4
<1>7. dst' = SubSeq(src, 1, t[j + 1])
  <2>1. PICK p \in Nat : p = t[j]
    BY <1>3
  <2>2. output_backref(dst, D, L) = SubSeq(src, 1, p + L)
    <3>1. IsBackref(p, D, L) /\ dst = SubSeq(src, 1, p)
      BY <1>3, <2>1
    <3>. QED  BY <3>1, CopyGives
  <2>. QED  BY <1>1, <1>3, <1>6, <2>1, <2>2
<1>8. AtItem(s, n, c, t, b)'
  <2>1. HaveRead(s, b, c[j + 1])'
    BY <1>3, <1>4
  <2>. QED  BY <1>3, <1>4, <1>7, <2>1 DEF AtItem
<1>9. t[j + 1] \in Len(dst) + 1 .. Len(src)
  <2>1. PICK p \in Nat, m \in Nat : p = t[j] /\ m = Len(src) /\ p + L <= m /\ L >= 1
    <3>1. t[j] \in Nat /\ Len(src) \in Nat /\ t[j] + L <= Len(src) /\ L > 3
      BY <1>3, InvFacts DEF IsBackref
    <3>2. L >= 1
      BY <3>1
    <3>. QED  BY <3>1, <3>2
  <2>2. Len(dst) = p
    <3>1. p <= m
      BY <2>1
    <3>2. p <= Len(src) /\ src \in Seq(Byte) /\ dst = SubSeq(src, 1, p)
      BY <1>3, <2>1, <3>1, InvFacts
    <3>. QED  BY <3>2, SubSeqProperties
  <2>3. t[j + 1] = p + L
    BY <1>3, <2>1
  <2>. QED  BY <2>1, <2>2, <2>3
<1>. QED  BY <1>4, <1>7, <1>8, <1>9 DEF Reading
--------------------------------------------------------------------------------
(***************************************************************************)
(* From one to the other, and to the end.                                  *)
(***************************************************************************)
\* The reader begins with the stream that was written.
LEMMA WrittenReading == ASSUME Inv, Writing, Written, ~damaged' PROVE Reading'
<1>1. /\ phase' = "sets" /\ pending = <<>> /\ flushed /\ pos = Len(src)
      /\ UNCHANGED <<writing, reading>>
      /\ os' = [os EXCEPT !.bits = Padded(os.bits, BYTE_BITS)]
  BY DEF Written
<1>2. os'.bits = Padded(os.bits, BYTE_BITS)
  <2>1. os \in [bits : Seq({0, 1}), cap : Nat, ok : BOOLEAN]
    BY DEF Inv, Types
  <2>. QED  BY <1>1, <2>1
<1>3. os.bits \in Seq({0, 1})
  BY InvFacts
<1>4. PICK m \in Nat : os'.bits = os.bits \o Bits(0, m)
  BY <1>2, <1>3, PaddedType
<1>5. PICK s, w, o, b, n, c, t : s \in Seq(Byte) /\ Tokens(s, n, c, t, pos) /\ Written1(s, w, o, b)
  BY <1>1 DEF Writing
<1>6. /\ w \in Seq(Byte) /\ s = w /\ Stream(w, o, b) /\ b[Len(w)] = Len(os.bits)
  <2>1. w \in Seq(Byte) /\ s = w \o <<>> /\ Stream(w, o, b) /\ b[Len(w)] = Len(os.bits)
    BY <1>1, <1>5 DEF Written1
  <2>. QED  BY <2>1, ConcatEmptySeq
<1>7. /\ SetsAt(os'.bits, o, fsets)
      /\ \A k \in 1 .. Len(w) : At(os'.bits, b[k - 1], ByteBits(Before(w, k), w[k]))
  <2>1. Bits(0, m) \in Seq({0, 1})
    BY BitsType
  <2>. QED  BY <1>4, <1>6, <2>1, PiecesKept
<1>8. UNCHANGED <<src, pos, fsets, sets, rpos>>
  BY <1>1 DEF writing, reading
<1>9. Stream(w, o, b)'
  BY <1>6, <1>7, <1>8 DEF Stream, ByteBits
<1>10. Tokens(w, n, c, t, pos)'
  <2>1. PICK at : at = pos
    OBVIOUS
  <2>2. Tokens(w, n, c, t, at)
    BY <1>5, <1>6, <2>1
  <2>3. Tokens(w, n, c, t, at)'
    BY <1>8, <2>2, TokensStay
  <2>. QED  BY <1>8, <2>1, <2>3 DEF Tokens
<1>11. Len(os'.bits) = round_up(b[Len(w)], BYTE_BITS)
  BY <1>2, <1>3, <1>6, PaddedType
<1>12. Layout(w, n, c, t, o, b)'
  BY <1>1, <1>6, <1>8, <1>9, <1>10, <1>11 DEF Layout
<1>13. AtSets(o)'
  <2>1. sets = <<>> /\ rpos = 0 /\ o[0] = 0
    BY <1>6, Written DEF Inv, Bounds, Written, Stream, Ends
  <2>2. Len(sets') = 0
    BY <1>8, <2>1
  <2>3. SetsRead(Len(sets))'
    BY <2>2 DEF SetsRead
  <2>. QED  BY <1>1, <1>8, <2>1, <2>2, <2>3 DEF AtSets
<1>. QED  BY <1>12, <1>13 DEF Reading

\* The next byte is there, inside a token and before one.
LEMMA NothingUnreadable ==
    ASSUME Inv, Reading, phase \in {"v", "elb", "w"} \/ (phase = "item" /\ Len(dst) < Len(src))
    PROVE  Readable
<1>1. PICK s, n, c, t, o, b : Layout(s, n, c, t, o, b) /\ (AtItem(s, n, c, t, b) \/ AtV(s, n, c, t, b) \/ AtLen(s, n, c, t, b))
  BY DEF Reading, AtSets
<1>2. s \in Seq(Byte) /\ Stream(s, o, b)
  BY <1>1 DEF Layout
<1>3. Len(sets) = BYTE
  BY DEF Inv, Bounds
<1>4. \E k \in Nat : k < Len(s) /\ HaveRead(s, b, k)
  <2>1. CASE AtItem(s, n, c, t, b)
    <3>1. Len(dst) < Len(src)
      BY <2>1 DEF AtItem
    <3>. QED  BY <1>1, <2>1, <3>1, AtNextToken
  <2>2. CASE AtV(s, n, c, t, b)
    BY <1>1, <2>2, AfterDLE
  <2>3. CASE AtLen(s, n, c, t, b)
    BY <1>1, <2>3, InCopy DEF Copying
  <2>. QED  BY <1>1, <2>1, <2>2, <2>3
<1>. QED  BY <1>2, <1>3, <1>4, NextRead

\* A back reference fits.
LEMMA NothingTooLong == ASSUME Inv, Reading, phase = "w" PROVE len <= Room
<1>1. PICK s, n, c, t, o, b : Layout(s, n, c, t, o, b) /\ AtLen(s, n, c, t, b)
  BY DEF Reading, AtSets, AtItem, AtV
<1>2. PICK j \in 0 .. n - 1, D \in Nat, L \in Nat, l \in Nat, d \in Nat, a \in Nat, z \in Nat, k \in Nat :
        Copying(s, n, c, t, b, j, D, L, l, d, a, z, k)
  BY <1>1, InCopy
<1>3. dst = SubSeq(src, 1, t[j]) /\ t[j] \in Nat /\ t[j + 1] = t[j] + L /\ t[j + 1] <= Len(src) /\ len = L
  BY <1>2 DEF Copying
<1>4. PICK p \in Nat, m \in Nat : p = t[j] /\ m = Len(src) /\ p + L <= m
  BY <1>3, InvFacts
<1>5. p <= m
  BY <1>4
<1>6. Len(dst) = p
  <2>1. p <= Len(src) /\ src \in Seq(Byte) /\ dst = SubSeq(src, 1, p)
    BY <1>3, <1>4, <1>5, InvFacts
  <2>. QED  BY <2>1, SubSeqProperties
<1>7. L <= m - p
  BY <1>4
<1>. QED  BY <1>3, <1>4, <1>6, <1>7 DEF Room

\* hwexpand refuses nothing that was not damaged.
LEMMA NothingRefused == ASSUME Inv, Reading PROVE ~BadSet /\ ~BadByte /\ ~NoRoom
<1>1. ~BadSet
  <2> SUFFICES ASSUME BadSet PROVE FALSE
    OBVIOUS
  <2>1. phase = "sets" /\ ~SetReadable
    BY DEF BadSet
  <2>2. PICK s, n, c, t, o, b : Layout(s, n, c, t, o, b) /\ AtSets(o)
    BY <2>1 DEF Reading, AtItem, AtV, AtLen
  <2>3. Stream(s, o, b)
    BY <2>2 DEF Layout
  <2>. QED  BY <2>1, <2>2, <2>3, NextSet
<1>2. ~BadByte
  BY NothingUnreadable DEF BadByte
<1>3. ~NoRoom
  <2> SUFFICES ASSUME NoRoom PROVE FALSE
    OBVIOUS
  <2>1. phase = "w" /\ len > Room
    BY DEF NoRoom
  <2>2. len <= Room
    BY <2>1, NothingTooLong
  <2>. QED  BY <2>1, <2>2, InvFacts DEF Room
<1>. QED  BY <1>1, <1>2, <1>3

LEMMA WholeInput == ASSUME Inv PROVE SubSeq(src, 1, Len(src)) = src
<1>1. PICK y : y = SubSeq(src, 1, Len(src))
  OBVIOUS
<1>2. src \in Seq(Byte) /\ Len(src) \in Nat /\ Len(src) <= Len(src)
  BY InvFacts
<1>3. y \in Seq(Byte) /\ Len(y) = Len(src) /\ \A k \in 1 .. Len(src) : y[k] = src[k]
  BY <1>1, <1>2, SubSeqProperties
<1>4. y = src
  BY <1>2, <1>3, SeqEqual
<1>. QED  BY <1>1, <1>4

\* The end of the output is the end of the stream.
LEMMA DoneWell == ASSUME Inv, Reading, Done PROVE phase' = "ok" /\ dst = src
<1>1. phase = "item" /\ Len(dst) >= Len(src)
      /\ phase' = IF round_up(rpos, BYTE_BITS) = Len(os.bits) THEN "ok" ELSE "error"
  BY DEF Done
<1>2. PICK s, n, c, t, o, b : Layout(s, n, c, t, o, b) /\ AtItem(s, n, c, t, b)
  BY <1>1 DEF Reading, AtSets, AtV, AtLen
<1>3. rpos = b[Len(s)] /\ dst = SubSeq(src, 1, Len(src))
  BY <1>1, <1>2, AtNextToken
<1>4. Len(os.bits) = round_up(b[Len(s)], BYTE_BITS)
  BY <1>2 DEF Layout
<1>5. SubSeq(src, 1, Len(src)) = src
  BY WholeInput
<1>. QED  BY <1>1, <1>3, <1>4, <1>5

\* The bytes that were given are those on their way, in the buffer and in the
\* stream; what the reader has is a beginning of them, and nothing is refused.
RoundTrip ==
    /\ Inv
    /\ phase = "compress" => ~damaged /\ Writing
    /\ ~damaged => phase # "error"
    /\ ~damaged /\ phase \in {"sets", "item", "v", "elb", "w"} => Reading
LEMMA InitRoundTrip == Init => RoundTrip
  BY InitInv, InitWriting DEF Init, RoundTrip

\* A step of the compressor that leaves it compressing, or giving up.
LEMMA CompressKeeps ==
    ASSUME RoundTrip, Compress
    PROVE  RoundTrip'
<1>1. Inv /\ Writing /\ ~damaged /\ Inv' /\ phase = "compress"
  <2>1. phase = "compress"
    BY DEF Compress, lit_callback, backref_callback, Token, BufferByte, FlushAtEnd, WriteByte, Written
  <2>. QED  BY <2>1, NextInv DEF RoundTrip, Next
<1>2. ASSUME lit_callback \/ backref_callback \/ BufferByte \/ FlushAtEnd \/ WriteByte PROVE RoundTrip'
  <2>1. damaged' = damaged /\ phase' \in {"compress", "gave_up"}
    BY <1>1, <1>2 DEF lit_callback, backref_callback, Token, BufferByte, FlushAtEnd, WriteByte, Flush, Emit
  <2>2. phase' = "compress" => Writing'
    BY <1>1, <1>2, LitWriting, BackrefWriting, BufferWriting, FlushAtEndWriting, WriteByteWriting
  <2>. QED  BY <1>1, <2>1, <2>2 DEF RoundTrip
<1>3. ASSUME Written PROVE RoundTrip'
  <2>1. phase' = "sets"
    BY <1>3 DEF Written
  <2>2. ~damaged' => Reading'
    BY <1>1, <1>3, WrittenReading
  <2>. QED  BY <1>1, <2>1, <2>2 DEF RoundTrip
<1>. QED  BY <1>2, <1>3 DEF Compress

\* A step of the decompressor.
LEMMA ExpandKeeps ==
    ASSUME RoundTrip, Expand
    PROVE  /\ RoundTrip' /\ damaged' = damaged /\ src' = src /\ pos' = pos
           /\ phase \in {"sets", "item", "v", "elb", "w"}
           /\ ~damaged => Reading
<1>1. Inv /\ Inv'
  BY NextInv DEF RoundTrip, Next
<1>2. phase \in {"sets", "item", "v", "elb", "w"} /\ phase' # "compress" /\ UNCHANGED <<writing, damaged>>
  BY DEF Expand, ReadSet, BadSet, BadByte, ReadLiteral, ReadDLE, ReadLiteralDLE, ReadV, ReadExtraLength, ReadW,
         NoRoom, Done, Reads, Error
<1>3. ~damaged => Reading
  BY <1>2 DEF RoundTrip
<1>4. ASSUME ~damaged
      PROVE  phase' # "error" /\ (phase' \in {"sets", "item", "v", "elb", "w"} => Reading')
  <2>1. ASSUME ReadSet \/ ReadLiteral \/ ReadDLE \/ ReadLiteralDLE \/ ReadV \/ ReadExtraLength \/ ReadW
        PROVE  Reading' /\ phase' # "error"
    <3>1. phase' # "error"
      BY <2>1 DEF ReadSet, ReadLiteral, ReadDLE, ReadLiteralDLE, ReadV, ReadExtraLength, ReadW, Reads
    <3>2. Reading'
      BY <1>1, <1>3, <1>4, <2>1, ReadSetReading, ReadLiteralReading, ReadDLEReading, ReadLiteralDLEReading,
         ReadVReading, ReadExtraLengthReading, ReadWReading
    <3>. QED  BY <3>1, <3>2
  <2>2. ~(BadSet \/ BadByte \/ NoRoom)
    BY <1>1, <1>3, <1>4, NothingRefused
  <2>3. ASSUME Done PROVE phase' = "ok"
    BY <1>1, <1>3, <1>4, <2>3, DoneWell
  <2>. QED  BY <2>1, <2>2, <2>3 DEF Expand
<1>5. RoundTrip'
  BY <1>1, <1>2, <1>4 DEF RoundTrip
<1>6. src' = src /\ pos' = pos
  BY <1>2 DEF writing
<1>. QED  BY <1>2, <1>3, <1>5, <1>6

LEMMA StutterKeeps == ASSUME RoundTrip, UNCHANGED vars PROVE RoundTrip'
<1>1. Inv'
  BY NextInv DEF RoundTrip
<1>2. UNCHANGED <<phase, writing, os, damaged, reading>>
  BY DEF vars
<1>3. UNCHANGED <<src, pos, pending, raw, flushed, fsets, prev_byte, rpos, sets, curr_byte, v, len, dst>>
  BY <1>2 DEF writing, reading
<1>4. ASSUME Writing PROVE Writing'
  <2>1. PICK s \in Seq(Byte) :
          /\ \E n, c, t : Tokens(s, n, c, t, pos)
          /\ ~flushed => s = raw \o pending /\ os.bits = <<>> /\ prev_byte = 0
          /\ flushed => \E w, o, b : Written1(s, w, o, b)
    BY <1>4 DEF Writing
  <2>2. \E n, c, t : Tokens(s, n, c, t, pos)'
    <3>1. PICK n, c, t, at : Tokens(s, n, c, t, at) /\ at = pos
      BY <2>1
    <3>2. Tokens(s, n, c, t, at)'
      BY <1>3, <3>1, TokensStay
    <3>. QED  BY <1>3, <3>1, <3>2 DEF Tokens
  <2>3. flushed => \E w, o, b : Written1(s, w, o, b)'
    <3>1. SUFFICES ASSUME flushed PROVE \E w, o, b : Written1(s, w, o, b)'
      OBVIOUS
    <3>2. PICK w, o, b : Written1(s, w, o, b)
      BY <2>1, <3>1
    <3>3. Stream(w, o, b)'
      BY <1>2, <1>3, <3>2 DEF Written1, Stream, ByteBits
    <3>4. Sets' = Sets
      BY <1>3 DEF Sets
    <3>5. Written1(s, w, o, b)'
      BY <1>2, <1>3, <3>2, <3>3, <3>4 DEF Written1
    <3>. QED  BY <3>5
  <2>. QED  BY <1>2, <1>3, <2>1, <2>2, <2>3 DEF Writing
<1>5. ASSUME Reading PROVE Reading'
  <2>1. PICK s, n, c, t, o, b :
          /\ Layout(s, n, c, t, o, b)
          /\ AtSets(o) \/ AtItem(s, n, c, t, b) \/ AtV(s, n, c, t, b) \/ AtLen(s, n, c, t, b)
    BY <1>5 DEF Reading
  <2>2. Layout(s, n, c, t, o, b)'
    BY <1>2, <2>1, LayoutStays
  <2>3. AtSets(o)' \/ AtItem(s, n, c, t, b)' \/ AtV(s, n, c, t, b)' \/ AtLen(s, n, c, t, b)'
    <3>1. ASSUME NEW k, HaveRead(s, b, k) PROVE HaveRead(s, b, k)'
      BY <1>3, <3>1 DEF HaveRead, SetsRead
    <3>2. AtSets(o) => AtSets(o)'
      BY <1>2, <1>3 DEF AtSets, SetsRead
    <3>3. AtItem(s, n, c, t, b) => AtItem(s, n, c, t, b)'
      BY <1>2, <1>3, <3>1 DEF AtItem
    <3>4. AtV(s, n, c, t, b) => AtV(s, n, c, t, b)'
      BY <1>2, <1>3, <3>1 DEF AtV
    <3>5. ASSUME AtLen(s, n, c, t, b) PROVE AtLen(s, n, c, t, b)'
      <4>1. PICK j \in 0 .. n - 1, D \in Nat, L \in Nat :
              /\ CopyAt(s, c[j], c[j + 1], t[j], t[j + 1], D, L)
              /\ dst = SubSeq(src, 1, t[j]) /\ v = VOf(L - 3, D - 1)
              /\ \/ phase = "elb" /\ L - 3 >= V_LEN_MAX /\ HaveRead(s, b, c[j] + 2) /\ len = V_LEN_MAX + 3
                 \/ phase = "w" /\ HaveRead(s, b, c[j + 1] - 1) /\ len = L
        BY <3>5 DEF AtLen
      <4>2. CopyAt(s, c[j], c[j + 1], t[j], t[j + 1], D, L)'
        BY <1>3, <4>1 DEF CopyAt, IsBackref, BackrefAt
      <4>3. /\ dst' = SubSeq(src', 1, t[j]) /\ v' = VOf(L - 3, D - 1)
            /\ \/ phase' = "elb" /\ L - 3 >= V_LEN_MAX /\ HaveRead(s, b, c[j] + 2)' /\ len' = V_LEN_MAX + 3
               \/ phase' = "w" /\ HaveRead(s, b, c[j + 1] - 1)' /\ len' = L
        BY <1>2, <1>3, <3>1, <4>1
      <4>. QED  BY <4>2, <4>3 DEF AtLen
    <3>. QED  BY <2>1, <3>2, <3>3, <3>4, <3>5
  <2>. QED  BY <2>2, <2>3 DEF Reading
<1>. QED  BY <1>1, <1>2, <1>4, <1>5 DEF RoundTrip

LEMMA NextRoundTrip == RoundTrip /\ [Next]_vars => RoundTrip'
  BY CompressKeeps, ExpandKeeps, StutterKeeps DEF Next

--------------------------------------------------------------------------------
(***************************************************************************)
(* Every step is a step of the abstract specification, or changes nothing  *)
(* it speaks of.                                                           *)
(***************************************************************************)
In == SubSeq(src, 1, pos)

Out == IF damaged THEN <<>> ELSE dst

Outcome ==
    IF damaged THEN "gave_up"
    ELSE CASE phase = "gave_up" -> "gave_up"
           [] phase = "ok" -> "done"
           [] phase = "error" -> "refused"
           [] OTHER -> "open"

cvars == <<In, Out, Outcome>>

LEMMA OutcomeFacts ==
    /\ damaged \/ phase = "gave_up" => Outcome = "gave_up"
    /\ ~damaged /\ phase = "ok" => Outcome = "done"
    /\ ~damaged /\ phase \in {"compress", "sets", "item", "v", "elb", "w"} => Outcome = "open"
  BY DEF Outcome

\* The input goes on.
LEMMA InGrows ==
    ASSUME Inv, NEW n \in Nat, n >= 1, pos + n <= Len(src), src' = src, pos' = pos + n
    PROVE  Len(In') > Len(In) /\ In' \in Seq(Byte) /\ SubSeq(In', 1, Len(In)) = In
<1>0. PICK p \in Nat, q \in Nat, m \in Nat : p = pos /\ q = p + n /\ m = Len(src) /\ q <= m
  <2>1. PICK p \in Nat, m \in Nat : p = pos /\ m = Len(src) /\ p + n <= m
    BY InvFacts
  <2>2. PICK q \in Nat : q = p + n
    OBVIOUS
  <2>. QED  BY <2>1, <2>2
<1>1. PICK x, y : x = SubSeq(src, 1, p) /\ y = SubSeq(src, 1, q)
  OBVIOUS
<1>2. src \in Seq(Byte) /\ p <= Len(src) /\ q <= Len(src)
  BY <1>0, InvFacts
<1>3. x \in Seq(Byte) /\ Len(x) = p /\ \A k \in 1 .. p : x[k] = src[k]
  BY <1>1, <1>2, SubSeqProperties
<1>4. y \in Seq(Byte) /\ Len(y) = q /\ \A k \in 1 .. q : y[k] = src[k]
  BY <1>1, <1>2, SubSeqProperties
<1>5. PICK u : u = SubSeq(y, 1, p)
  OBVIOUS
<1>6. p <= q /\ q > p
  BY <1>0
<1>7. u \in Seq(Byte) /\ Len(u) = p /\ \A k \in 1 .. p : u[k] = y[k]
  BY <1>4, <1>5, <1>6, SubSeqProperties
<1>8. \A k \in 1 .. p : u[k] = x[k]
  BY <1>3, <1>4, <1>6, <1>7
<1>9. u = x
  BY <1>3, <1>7, <1>8, SeqEqual
<1>10. In = x /\ In' = y
  BY <1>0, <1>1 DEF In
<1>. QED  BY <1>3, <1>4, <1>5, <1>6, <1>9, <1>10

LEMMA CompressSteps == ASSUME RoundTrip, Compress PROVE Codec!Next \/ UNCHANGED cvars
<1>1. Inv /\ Writing /\ ~damaged /\ phase = "compress" /\ dst = <<>> /\ Out = <<>> /\ Outcome = "open"
  <2>1. phase = "compress"
    BY DEF Compress, lit_callback, backref_callback, Token, BufferByte, FlushAtEnd, WriteByte, Written
  <2>2. Inv /\ Writing /\ ~damaged
    BY <2>1 DEF RoundTrip
  <2>3. dst = <<>>
    BY <2>1, <2>2 DEF Inv, Bounds
  <2>. QED  BY <2>1, <2>2, <2>3, OutcomeFacts DEF Out
<1>2. ASSUME NEW n \in Nat, n >= 1, pos + n <= Len(src), NEW bytes, Token(bytes, n) PROVE Codec!Next
  <2>1. src' = src /\ pos' = pos + n /\ UNCHANGED <<phase, damaged, dst>>
    BY <1>2 DEF Token, reading
  <2>2. Out' = Out /\ Outcome' = Outcome
    BY <2>1 DEF Out, Outcome
  <2>3. Len(In') > Len(In) /\ In' \in Seq(Byte) /\ SubSeq(In', 1, Len(In)) = In
    BY <1>1, <1>2, <2>1, InGrows
  <2>4. Codec!Accept
    BY <1>1, <2>2, <2>3 DEF Codec!Accept, In, Out, Outcome
  <2>. QED  BY <2>4 DEF Codec!Next
<1>3. ASSUME lit_callback PROVE Codec!Next
  <2>1. pos < Len(src) /\ \E bytes : Token(bytes, 1)
    BY <1>3 DEF lit_callback
  <2>2. pos + 1 <= Len(src) /\ 1 \in Nat /\ 1 >= 1
    BY <1>1, <2>1, InvFacts
  <2>. QED  BY <1>2, <2>1, <2>2
<1>4. ASSUME backref_callback PROVE Codec!Next
  <2>1. PICK r \in Backrefs(src, pos, max_dist, max_len, FALSE) : Token(BackrefBytes(r), r.len)
    BY <1>4 DEF backref_callback
  <2>2. PICK n \in Nat : n = r.len /\ n > 3 /\ n <= Len(src) - pos
    BY <1>1, InvFacts, BackrefFacts
  <2>3. n >= 1 /\ pos + n <= Len(src)
    <3>1. PICK p \in Nat, m \in Nat : p = pos /\ m = Len(src)
      BY <1>1, InvFacts
    <3>2. p + n <= m
      BY <2>2, <3>1
    <3>. QED  BY <2>2, <3>1, <3>2
  <2>. QED  BY <1>2, <2>1, <2>2, <2>3
<1>5. ASSUME UNCHANGED <<src, pos, dst, damaged>>, phase' \in {"compress", "gave_up"}
      PROVE  Codec!Next \/ UNCHANGED cvars
  <2>1. In' = In /\ Out' = Out
    BY <1>5 DEF In, Out
  <2>2. CASE phase' = "gave_up"
    <3>1. Outcome' = "gave_up"
      BY <2>2, OutcomeFacts DEF Outcome
    <3>2. Codec!GiveUp
      BY <1>1, <2>1, <3>1 DEF Codec!GiveUp, In, Out, Outcome
    <3>. QED  BY <3>2 DEF Codec!Next
  <2>3. CASE phase' = "compress"
    <3>1. Outcome' = Outcome
      BY <1>1, <1>5, <2>3 DEF Outcome
    <3>. QED  BY <2>1, <3>1 DEF cvars
  <2>. QED  BY <1>5, <2>2, <2>3
<1>6. ASSUME BufferByte \/ FlushAtEnd \/ WriteByte PROVE Codec!Next \/ UNCHANGED cvars
  <2>1. UNCHANGED <<src, pos, dst, damaged>> /\ phase' \in {"compress", "gave_up"}
    BY <1>1, <1>6 DEF BufferByte, FlushAtEnd, WriteByte, Flush, Emit, reading
  <2>. QED  BY <1>5, <2>1
<1>7. ASSUME Written PROVE Codec!Next \/ UNCHANGED cvars
  <2>1. UNCHANGED <<src, pos, dst>> /\ phase' = "sets" /\ (damaged' = damaged \/ damaged' = TRUE)
    BY <1>7 DEF Written, writing, reading
  <2>2. In' = In /\ Out' = Out
    BY <1>1, <2>1 DEF In, Out
  <2>3. CASE damaged' = damaged
    <3>1. Outcome' = Outcome
      BY <1>1, <2>1, <2>3 DEF Outcome
    <3>. QED  BY <2>2, <3>1 DEF cvars
  <2>4. CASE damaged' = TRUE
    <3>1. Outcome' = "gave_up"
      BY <2>4 DEF Outcome
    <3>2. Codec!GiveUp
      BY <1>1, <2>2, <3>1 DEF Codec!GiveUp, In, Out, Outcome
    <3>. QED  BY <3>2 DEF Codec!Next
  <2>. QED  BY <2>1, <2>3, <2>4
<1>. QED  BY <1>3, <1>4, <1>6, <1>7 DEF Compress

LEMMA ExpandSteps == ASSUME RoundTrip, Expand PROVE Codec!Next \/ UNCHANGED cvars
<1>1. /\ Inv /\ RoundTrip' /\ UNCHANGED <<damaged, src, pos>> /\ (~damaged => Reading)
      /\ phase \in {"sets", "item", "v", "elb", "w"}
  BY ExpandKeeps DEF RoundTrip
<1>2. In' = In
  BY <1>1 DEF In
<1>3. CASE damaged
  BY <1>1, <1>2, <1>3 DEF cvars, Out, Outcome
<1>4. CASE ~damaged
  <2>1. Reading /\ ~damaged' /\ Outcome = "open" /\ Out = dst /\ Out' = dst'
    BY <1>1, <1>4, OutcomeFacts DEF Out
  <2>2. pos = Len(src)
    BY <2>1 DEF Reading, Layout
  <2>3. In = src
    BY <1>1, <2>2, WholeInput DEF In
  <2>4. ASSUME phase' \in {"sets", "item", "v", "elb", "w"} PROVE Outcome' = Outcome
    BY <2>1, <2>4 DEF Outcome
  <2>5. ASSUME phase' \in {"sets", "item", "v", "elb", "w"}, dst' = dst PROVE UNCHANGED cvars
    BY <1>2, <2>1, <2>4, <2>5 DEF cvars
  <2>6. ASSUME phase' \in {"sets", "item", "v", "elb", "w"}, \E q \in Len(dst) + 1 .. Len(src) : dst' = SubSeq(src, 1, q)
        PROVE  Codec!Next
    <3>1. \E q \in Len(Out) + 1 .. Len(In) : Out' = SubSeq(In, 1, q)
      BY <2>1, <2>3, <2>6
    <3>2. Codec!Deliver
      BY <1>2, <2>1, <2>4, <2>6, <3>1 DEF Codec!Deliver, In, Out, Outcome
    <3>. QED  BY <3>2 DEF Codec!Next
  <2>7. ASSUME ReadLiteral \/ ReadLiteralDLE \/ ReadW PROVE Codec!Next
    <3>1. phase' \in {"sets", "item", "v", "elb", "w"}
      BY <2>7 DEF ReadLiteral, ReadLiteralDLE, ReadW, Reads
    <3>2. \E q \in Len(dst) + 1 .. Len(src) : dst' = SubSeq(src, 1, q)
      BY <1>1, <2>1, <2>7, ReadLiteralReading, ReadLiteralDLEReading, ReadWReading
    <3>. QED  BY <2>6, <3>1, <3>2
  <2>8. ASSUME ReadSet \/ ReadDLE \/ ReadV \/ ReadExtraLength PROVE UNCHANGED cvars
    <3>1. phase' \in {"sets", "item", "v", "elb", "w"} /\ dst' = dst
      BY <2>8 DEF ReadSet, ReadDLE, ReadV, ReadExtraLength, Reads
    <3>. QED  BY <2>5, <3>1
  <2>9. ASSUME Done PROVE Codec!Next
    <3>1. phase' = "ok" /\ dst = src /\ dst' = dst
      BY <1>1, <2>1, <2>9, DoneWell DEF Done, reading
    <3>2. Outcome' = "done"
      BY <2>1, <3>1, OutcomeFacts DEF Outcome
    <3>3. Codec!Finish
      BY <1>2, <2>1, <2>3, <3>1, <3>2 DEF Codec!Finish, In, Out, Outcome
    <3>. QED  BY <3>3 DEF Codec!Next
  <2>10. ~(BadSet \/ BadByte \/ NoRoom)
    BY <1>1, <2>1, NothingRefused
  <2>. QED  BY <2>7, <2>8, <2>9, <2>10 DEF Expand
<1>. QED  BY <1>3, <1>4

\* Reduce is lossless, for every input and buffer size, every factor and every flush
\* in the middle of a token: what hwexpand delivers is always a beginning of what
\* hwreduce was given, and in the end all of it, unless hwreduce gave up for want
\* of room; it refuses no stream that was not damaged.
THEOREM ReduceIsLossless == Spec => ImplementsLossless
<1>1. Init => RoundTrip
  BY InitRoundTrip
<1>2. RoundTrip /\ [Next]_vars => RoundTrip'
  BY NextRoundTrip
<1>3. Init => Codec!Init
  <2> SUFFICES ASSUME Init PROVE Codec!Init
    OBVIOUS
  <2>1. phase = "compress" /\ ~damaged /\ dst = <<>> /\ pos = 0
    BY DEF Init
  <2>2. In = <<>>
    BY <2>1, InitInv, InvFacts, SubSeqEmpty DEF In
  <2>. QED  BY <2>1, <2>2, OutcomeFacts DEF Codec!Init, In, Out, Outcome
<1>4. RoundTrip /\ [Next]_vars => [Codec!Next]_<<SubSeq(src, 1, pos), IF damaged THEN <<>> ELSE dst, Outcome>>
  <2> SUFFICES ASSUME RoundTrip, [Next]_vars PROVE Codec!Next \/ UNCHANGED cvars
    BY DEF cvars, In, Out
  <2>1. CASE Compress
    BY <2>1, CompressSteps
  <2>2. CASE Expand
    BY <2>2, ExpandSteps
  <2>3. CASE UNCHANGED vars
    BY <2>3 DEF vars, writing, reading, cvars, In, Out, Outcome
  <2>. QED  BY <2>1, <2>2, <2>3 DEF Next
<1>. QED  BY <1>1, <1>2, <1>3, <1>4, PTL DEF Spec, ImplementsLossless, Codec!Spec, Outcome
--------------------------------------------------------------------------------
(***************************************************************************)
(* The cost of the sets.  It is added up along the bytes: each of the      *)
(* first k makes one count one higher, and takes that count's bits.        *)
(***************************************************************************)
\* One weight more.
LEMMA TotalOneMore ==
    ASSUME NEW C \in SUBSET Byte, NEW w \in [Byte -> Nat], NEW u \in [Byte -> Nat], NEW x \in Byte, NEW d \in Nat,
           u[x] = w[x] + d, \A y \in Byte : y # x => u[y] = w[y]
    PROVE  Total(u, C) = Total(w, C) + IF x \in C THEN d ELSE 0
<1> DEFINE a == Weights(w, C)
           b == Weights(u, C)
           e == IF x \in C THEN d ELSE 0
<1>1. a \in [1 .. BYTE -> Nat] /\ b \in [1 .. BYTE -> Nat] /\ e \in Nat
  BY TotalFacts
<1>2. PICK m \in 1 .. BYTE : m = x + 1 /\ m - 1 = x
  BY ConstantFacts
<1>3. b[m] = a[m] + e
  <2>1. a[m] = (IF x \in C THEN w[x] ELSE 0) /\ b[m] = (IF x \in C THEN u[x] ELSE 0)
    BY <1>2 DEF Weights
  <2>. QED  BY <2>1
<1>4. ASSUME NEW k \in 1 .. BYTE, k # m PROVE b[k] = a[k]
  <2>1. k - 1 \in Byte /\ k - 1 # x
    BY <1>2, <1>4, ConstantFacts
  <2>2. u[k - 1] = w[k - 1]
    BY <2>1
  <2>. QED  BY <2>2 DEF Weights
<1>5. Total(w, C) = SumOf(a, BYTE) /\ Total(u, C) = SumOf(b, BYTE)
  BY DEF Total
<1> HIDE DEF a, b, e
<1>6. SumOf(b, BYTE) = SumOf(a, BYTE) + e
  <2>1. BYTE \in Nat
    BY ConstantFacts
  <2>. QED  BY <1>1, <1>3, <1>4, <2>1, SumOneMore, Zenon
<1>. QED  BY <1>5, <1>6 DEF e

LEMMA TotalOfNothing ==
    ASSUME NEW C \in SUBSET Byte, NEW w, \A c \in Byte : w[c] = 0
    PROVE  Total(w, C) = 0
<1>1. \A k \in 1 .. BYTE : Weights(w, C)[k] = 0
  <2>1. \A k \in 1 .. BYTE : k - 1 \in Byte
    BY ConstantFacts
  <2>. QED  BY <2>1 DEF Weights
<1>. QED  BY <1>1, SumZero, ConstantFacts DEF Total

\* How often each byte follows p among the first k of s.
Places(s, k, p, c) == {i \in 1 .. k : Before(s, i) = p /\ s[i] = c}

Count(s, k, p) == [c \in Byte |-> Cardinality(Places(s, k, p, c))]

LEMMA CountsSoFar ==
    ASSUME NEW s, NEW k \in Nat, NEW p
    PROVE  /\ Count(s, k, p) \in [Byte -> Nat]
           /\ \A c \in Byte : Count(s, 0, p)[c] = 0
           /\ \A c \in Byte : Count(s, k + 1, p)[c] =
                 Count(s, k, p)[c] + IF Before(s, k + 1) = p /\ s[k + 1] = c THEN 1 ELSE 0
<1>1. \A c : IsFiniteSet(Places(s, k, p, c)) /\ Cardinality(Places(s, k, p, c)) \in Nat
  <2>1. IsFiniteSet(1 .. k)
    BY FS_Interval
  <2>2. \A c : Places(s, k, p, c) \in SUBSET (1 .. k)
    BY DEF Places
  <2>. QED  BY <2>1, <2>2, FS_Subset, FS_CardinalityType
<1>2. \A c : Cardinality(Places(s, 0, p, c)) = 0
  <2>1. \A c : Places(s, 0, p, c) = {}
    BY DEF Places
  <2>. QED  BY <2>1, FS_EmptySet
<1>3. ASSUME NEW c \in Byte
      PROVE  Cardinality(Places(s, k + 1, p, c)) =
                 Cardinality(Places(s, k, p, c)) + IF Before(s, k + 1) = p /\ s[k + 1] = c THEN 1 ELSE 0
  <2>1. CASE Before(s, k + 1) = p /\ s[k + 1] = c
    <3>1. Places(s, k + 1, p, c) = Places(s, k, p, c) \cup {k + 1} /\ k + 1 \notin Places(s, k, p, c)
      BY <2>1 DEF Places
    <3>. QED  BY <1>1, <2>1, <3>1, FS_AddElement
  <2>2. CASE ~(Before(s, k + 1) = p /\ s[k + 1] = c)
    <3>1. Places(s, k + 1, p, c) = Places(s, k, p, c)
      BY <2>2 DEF Places
    <3>. QED  BY <1>1, <2>2, <3>1
  <2>. QED  BY <2>1, <2>2
<1>. QED  BY <1>1, <1>2, <1>3 DEF Count

LEMMA CountsInTheEnd ==
    ASSUME NEW s \in Seq(Byte), NEW p
    PROVE  /\ Count(s, Len(s), p) = follower_count(s, p)
           /\ \A k \in 1 .. Len(s) : Before(s, k) = p => s[k] \in Followers(follower_count(s, p))
<1>1. Len(s) \in Nat
  BY LenProperties
<1>2. ASSUME NEW c
      PROVE  Places(s, Len(s), p, c) =
                 {i \in {j \in 1 .. Len(s) : p = IF j = 1 THEN 0 ELSE s[j - 1]} : s[i] = c}
  BY DEF Places, Before
<1>3. Count(s, Len(s), p) = follower_count(s, p)
  BY <1>2 DEF Count, follower_count
<1>4. ASSUME NEW k \in 1 .. Len(s), Before(s, k) = p PROVE s[k] \in Followers(follower_count(s, p))
  <2>1. s[k] \in Byte
    BY ElementOfSeq
  <2>2. k \in Places(s, Len(s), p, s[k])
    BY <1>4 DEF Places
  <2>3. IsFiniteSet(Places(s, Len(s), p, s[k]))
    <3>1. IsFiniteSet(1 .. Len(s)) /\ Places(s, Len(s), p, s[k]) \in SUBSET (1 .. Len(s))
      BY <1>1, FS_Interval DEF Places
    <3>. QED  BY <3>1, FS_Subset
  <2>4. Cardinality(Places(s, Len(s), p, s[k])) # 0 /\ Cardinality(Places(s, Len(s), p, s[k])) \in Nat
    BY <2>2, <2>3, FS_EmptySet, FS_CardinalityType
  <2>5. follower_count(s, p)[s[k]] = Cardinality(Places(s, Len(s), p, s[k]))
    BY <1>3, <2>1 DEF Count
  <2>. QED  BY <2>1, <2>4, <2>5 DEF Followers
<1>. QED  BY <1>3, <1>4

\* The n likeliest followers, and the others.
InSet(counts, n) == {c \in Followers(counts) : Place(counts, c) < n}

Others(counts, n) == Followers(counts) \ InSet(counts, n)

\* The bits of a byte in a set of n, and of another.
HitBits(n) == 1 + follower_idx_bw(n)

MissBits(n) == IF n = 0 THEN BYTE_BITS ELSE 1 + BYTE_BITS

LEMMA CostOfSet ==
    ASSUME NEW counts \in [Byte -> Nat], NEW n \in 0 .. MAX_FOLLOWERS
    PROVE  /\ followers_cost(counts, n) = n * BYTE_BITS + Total(counts, InSet(counts, n)) * HitBits(n)
                                            + Total(counts, Others(counts, n)) * MissBits(n)
           /\ InSet(counts, n) \in SUBSET Byte /\ Others(counts, n) \in SUBSET Byte
           /\ HitBits(n) \in Nat /\ MissBits(n) \in Nat
<1>1. InSet(counts, n) \in SUBSET Byte /\ Others(counts, n) \in SUBSET Byte
  BY DEF InSet, Others, Followers
<1>2. /\ MapThenSumSet(LAMBDA c : counts[c], InSet(counts, n)) = Total(counts, InSet(counts, n))
      /\ MapThenSumSet(LAMBDA c : counts[c], Others(counts, n)) = Total(counts, Others(counts, n))
  BY <1>1, CountsAddUp
<1>3. followers_cost(counts, n) = n * BYTE_BITS + Total(counts, InSet(counts, n)) * HitBits(n)
                                    + Total(counts, Others(counts, n)) * MissBits(n)
  BY <1>2 DEF followers_cost, InSet, Others, HitBits, MissBits
<1>. QED  BY <1>1, <1>3, ConstantFacts, IndexWidth, SMTT(30) DEF HitBits, MissBits

\* The set holds the followers of the first places and no others.
LEMMA SetHolds ==
    ASSUME NEW counts \in [Byte -> Nat], NEW set, set = FollowerSet(counts), NEW x \in Followers(counts)
    PROVE  x \in InSet(counts, Len(set)) <=> \E k \in 1 .. Len(set) : set[k] = x
<1>1. /\ set \in Seq(Byte) /\ Len(set) \in Nat
      /\ \A k \in 1 .. Len(set) : Place(counts, set[k]) = k - 1 /\ set[k] \in Byte
  BY FollowerSetFacts, LenProperties, ElementOfSeq
<1>2. x \in Byte /\ Place(counts, x) \in Nat
  BY PlacesDiffer, ConstantFacts DEF Followers
<1>3. ASSUME NEW k \in 1 .. Len(set), set[k] = x PROVE x \in InSet(counts, Len(set))
  <2>1. Place(counts, x) = k - 1
    BY <1>1, <1>3
  <2>. QED  BY <1>1, <2>1 DEF InSet
<1>4. ASSUME x \in InSet(counts, Len(set)) PROVE \E k \in 1 .. Len(set) : set[k] = x
  <2>1. PICK k \in 1 .. Len(set) : k - 1 = Place(counts, x)
    <3>1. PICK q \in Nat : q = Place(counts, x) /\ q < Len(set)
      BY <1>2, <1>4 DEF InSet
    <3>2. q + 1 \in 1 .. Len(set) /\ (q + 1) - 1 = q
      BY <1>1, <3>1
    <3>. QED  BY <3>1, <3>2
  <2>2. set[k] \in Byte /\ Place(counts, set[k]) = Place(counts, x)
    BY <1>1, <2>1
  <2>. QED  BY <1>2, <2>2, PlacesDiffer
<1>. QED  BY <1>3, <1>4

LEMMA BitsOfByte ==
    ASSUME fsets \in FollowerSets, NEW prev \in Byte, NEW byte \in Byte
    PROVE  Len(ByteBits(prev, byte)) = IF \E k \in 1 .. Len(fsets[prev]) : fsets[prev][k] = byte
                                       THEN HitBits(Len(fsets[prev])) ELSE MissBits(Len(fsets[prev]))
<1> DEFINE set == fsets[prev]
           k == CHOOSE k \in 1 .. Len(set) : set[k] = byte
           bw == follower_idx_bw(Len(set))
<1>1. set \in Seq(Byte) /\ Len(set) \in 0 .. MAX_FOLLOWERS /\ bw \in Nat
  <2>1. set \in Seq(Byte) /\ Len(set) <= MAX_FOLLOWERS
    BY DEF FollowerSets
  <2>2. Len(set) \in 0 .. MAX_FOLLOWERS
    BY <2>1, LenProperties, ConstantFacts
  <2>. QED  BY <2>1, <2>2, IndexWidth
<1>2. Bits(byte, BYTE_BITS) \in Seq({0, 1}) /\ Len(Bits(byte, BYTE_BITS)) = BYTE_BITS
  BY BitsType, ConstantFacts
<1>3. \A y \in {0, 1}, r \in Seq({0, 1}) : Len(<<y>> \o r) = 1 + Len(r)
  <2> TAKE y \in {0, 1}, r \in Seq({0, 1})
  <2>1. <<y>> \in Seq({0, 1}) /\ Len(<<y>>) = 1
    OBVIOUS
  <2>. QED  BY <2>1, ConcatProperties
<1>4. CASE \E j \in 1 .. Len(set) : set[j] = byte
  <2>1. k \in 1 .. Len(set) /\ set[k] = byte
    BY <1>4
  <2>2. ByteBits(prev, byte) = <<0>> \o Bits(k - 1, bw)
    BY <1>4 DEF ByteBits
  <2> HIDE DEF k, bw, set
  <2>3. Bits(k - 1, bw) \in Seq({0, 1}) /\ Len(Bits(k - 1, bw)) = bw
    <3>1. PICK i \in Nat : i = k - 1
      BY <1>1, <2>1
    <3>. QED  BY <1>1, <3>1, BitsType
  <2>4. Len(ByteBits(prev, byte)) = 1 + bw
    BY <1>3, <2>2, <2>3
  <2>. QED  BY <1>4, <2>4 DEF HitBits, bw, set
<1>5. CASE ~ \E j \in 1 .. Len(set) : set[j] = byte
  <2>1. ByteBits(prev, byte) = (IF set = <<>> THEN <<>> ELSE <<1>>) \o Bits(byte, BYTE_BITS)
    BY <1>5 DEF ByteBits
  <2>2. <<>> \o Bits(byte, BYTE_BITS) = Bits(byte, BYTE_BITS)
    BY <1>2, ConcatEmptySeq
  <2>3. set = <<>> <=> Len(set) = 0
    BY <1>1
  <2>4. Len(ByteBits(prev, byte)) = MissBits(Len(set))
    <3> HIDE DEF set
    <3>. QED  BY <1>2, <1>3, <2>1, <2>2, <2>3 DEF MissBits
  <2>. QED  BY <1>5, <2>4
<1>. QED  BY <1>4, <1>5
\* What the set of p and the bytes after it among the first k of s cost.
CostAt(s, k, p) ==
    SIZE_BITS + (Len(fsets[p]) * BYTE_BITS
        + Total(Count(s, k, p), InSet(follower_count(s, p), Len(fsets[p]))) * HitBits(Len(fsets[p]))
        + Total(Count(s, k, p), Others(follower_count(s, p), Len(fsets[p]))) * MissBits(Len(fsets[p])))

Costs(s, k) == [p \in Byte |-> CostAt(s, k, p)]

\* The sets are the ones of s.
SetsFrom(s) == s \in Seq(Byte) /\ fsets = [p \in Byte |-> FollowerSet(follower_count(s, p))]

LEMMA SetsFromFacts ==
    ASSUME NEW s, SetsFrom(s), NEW p \in Byte
    PROVE  /\ fsets \in FollowerSets /\ follower_count(s, p) \in [Byte -> Nat]
           /\ Len(fsets[p]) \in 0 .. MAX_FOLLOWERS /\ Len(fsets[p]) \in Nat
           /\ fsets[p] = FollowerSet(follower_count(s, p))
           /\ InSet(follower_count(s, p), Len(fsets[p])) \in SUBSET Byte
           /\ Others(follower_count(s, p), Len(fsets[p])) \in SUBSET Byte
           /\ HitBits(Len(fsets[p])) \in Nat /\ MissBits(Len(fsets[p])) \in Nat
<1>1. s \in Seq(Byte) /\ Len(s) \in Nat
  BY LenProperties DEF SetsFrom
<1>2. fsets \in FollowerSets /\ fsets[p] = FollowerSet(follower_count(s, p))
  BY <1>1, SetsOf DEF SetsFrom
<1>3. follower_count(s, p) \in [Byte -> Nat]
  BY <1>1, CountFacts
<1>4. Len(fsets[p]) \in 0 .. MAX_FOLLOWERS /\ Len(fsets[p]) \in Nat
  <2>1. fsets[p] \in Seq(Byte) /\ Len(fsets[p]) <= MAX_FOLLOWERS
    BY <1>2 DEF FollowerSets
  <2>. QED  BY <2>1, LenProperties, ConstantFacts
<1>. QED  BY <1>2, <1>3, <1>4, CostOfSet

\* Of the two sums the one changes that the byte belongs to.
LEMMA CostStep ==
    ASSUME NEW s, SetsFrom(s), NEW k \in Nat, k < Len(s), NEW p \in Byte
    PROVE  /\ CostAt(s, k, p) \in Nat
           /\ CostAt(s, k + 1, p) =
                 CostAt(s, k, p) + IF Before(s, k + 1) = p THEN Len(ByteBits(p, s[k + 1])) ELSE 0
<1>1. PICK all, n, A, B :
          /\ all = follower_count(s, p) /\ n = Len(fsets[p])
          /\ A = InSet(all, n) /\ B = Others(all, n)
  OBVIOUS
<1>2. PICK h \in Nat, m \in Nat : h = HitBits(n) /\ m = MissBits(n)
  BY <1>1, SetsFromFacts
<1>3. PICK w, u : w = Count(s, k, p) /\ u = Count(s, k + 1, p)
  OBVIOUS
<1>4. PICK x \in Byte : x = s[k + 1]
  <2>1. k + 1 \in 1 .. Len(s)
    BY LenProperties DEF SetsFrom
  <2>. QED  BY <2>1, ElementOfSeq DEF SetsFrom
<1>5. PICK d \in Nat : d = IF Before(s, k + 1) = p THEN 1 ELSE 0
  OBVIOUS
<1>6. A \in SUBSET Byte /\ B \in SUBSET Byte /\ n \in Nat /\ all \in [Byte -> Nat]
  BY <1>1, SetsFromFacts
<1>7. w \in [Byte -> Nat] /\ u \in [Byte -> Nat] /\ u[x] = w[x] + d /\ \A y \in Byte : y # x => u[y] = w[y]
  <2>1. k + 1 \in Nat
    OBVIOUS
  <2>2. w \in [Byte -> Nat] /\ u \in [Byte -> Nat]
    BY <1>3, <2>1, CountsSoFar
  <2>3. \A y \in Byte : u[y] = w[y] + IF Before(s, k + 1) = p /\ x = y THEN 1 ELSE 0
    BY <1>3, <1>4, CountsSoFar
  <2>4. u[x] = w[x] + d
    BY <1>5, <2>3
  <2>5. \A y \in Byte : y # x => u[y] = w[y]
    BY <2>2, <2>3
  <2>. QED  BY <2>2, <2>4, <2>5
<1>8. /\ Total(u, A) = Total(w, A) + (IF x \in A THEN d ELSE 0)
      /\ Total(u, B) = Total(w, B) + (IF x \in B THEN d ELSE 0)
  BY <1>6, <1>7, TotalOneMore
<1>9. PICK a \in Nat, b \in Nat : a = Total(w, A) /\ b = Total(w, B)
  BY <1>6, <1>7, TotalFacts
<1>10. /\ CostAt(s, k, p) = SIZE_BITS + (n * BYTE_BITS + a * h + b * m)
       /\ CostAt(s, k + 1, p) = SIZE_BITS + (n * BYTE_BITS + Total(u, A) * h + Total(u, B) * m)
  BY <1>1, <1>2, <1>3, <1>9 DEF CostAt
<1>11. PICK f \in Nat, g \in Nat, e \in Nat : f = a * h /\ g = b * m /\ e = n * BYTE_BITS
  BY <1>6, ConstantFacts, TimesNat
<1>12. CostAt(s, k, p) = SIZE_BITS + (e + f + g) /\ SIZE_BITS \in Nat
  BY <1>10, <1>11, ConstantFacts
<1>13. CASE Before(s, k + 1) # p
  <2>1. Total(u, A) = a /\ Total(u, B) = b
    BY <1>5, <1>8, <1>9, <1>13
  <2>. QED  BY <1>10, <1>11, <1>12, <1>13, <2>1
<1>14. CASE Before(s, k + 1) = p
  <2>1. x \in Followers(all)
    <3>1. k + 1 \in 1 .. Len(s)
      BY LenProperties DEF SetsFrom
    <3>. QED  BY <1>1, <1>4, <1>14, <3>1, CountsInTheEnd DEF SetsFrom
  <2>2. x \in A <=> x \notin B
    BY <1>1, <2>1 DEF Others
  <2>3. x \in A <=> \E j \in 1 .. Len(fsets[p]) : fsets[p][j] = x
    <3>1. fsets[p] = FollowerSet(all)
      BY <1>1, SetsFromFacts
    <3>. QED  BY <1>1, <1>6, <2>1, <3>1, SetHolds
  <2>4. Len(ByteBits(p, x)) = IF x \in A THEN h ELSE m
    BY <1>1, <1>2, <2>3, SetsFromFacts, BitsOfByte
  <2>5. CASE x \in A
    <3>1. Total(u, A) = a + 1 /\ Total(u, B) = b
      BY <1>5, <1>8, <1>9, <1>14, <2>2, <2>5
    <3>2. (a + 1) * h = f + h
      BY <1>11
    <3>3. CostAt(s, k + 1, p) = SIZE_BITS + (e + (f + h) + g)
      BY <1>10, <1>11, <3>1, <3>2
    <3>. QED  BY <1>4, <1>12, <1>14, <2>4, <2>5, <3>3
  <2>6. CASE x \notin A
    <3>1. Total(u, A) = a /\ Total(u, B) = b + 1
      BY <1>5, <1>8, <1>9, <1>14, <2>2, <2>6
    <3>2. (b + 1) * m = g + m
      BY <1>11
    <3>3. CostAt(s, k + 1, p) = SIZE_BITS + (e + f + (g + m))
      BY <1>10, <1>11, <3>1, <3>2
    <3>. QED  BY <1>4, <1>12, <1>14, <2>4, <2>6, <3>3
  <2>. QED  BY <2>5, <2>6
<1>. QED  BY <1>12, <1>13, <1>14

\* Before the first byte there are the sets.
LEMMA SetsCost ==
    ASSUME NEW s, SetsFrom(s), NEW o, Ends(o, fsets)
    PROVE  Costs(s, 0) \in [Byte -> Nat] /\ o[BYTE] = Total(Costs(s, 0), Byte)
<1>1. ASSUME NEW p \in Byte PROVE CostAt(s, 0, p) = SIZE_BITS + Len(fsets[p]) * BYTE_BITS /\ CostAt(s, 0, p) \in Nat
  <2>1. PICK A \in SUBSET Byte, B \in SUBSET Byte :
            A = InSet(follower_count(s, p), Len(fsets[p])) /\ B = Others(follower_count(s, p), Len(fsets[p]))
    BY SetsFromFacts
  <2>2. Total(Count(s, 0, p), A) = 0 /\ Total(Count(s, 0, p), B) = 0
    <3>1. \A c \in Byte : Count(s, 0, p)[c] = 0
      BY CountsSoFar
    <3>. QED  BY <3>1, TotalOfNothing
  <2>3. PICK h \in Nat, m \in Nat : h = HitBits(Len(fsets[p])) /\ m = MissBits(Len(fsets[p]))
    BY SetsFromFacts
  <2>4. CostAt(s, 0, p) = SIZE_BITS + (Len(fsets[p]) * BYTE_BITS + 0 * h + 0 * m)
    BY <2>1, <2>2, <2>3 DEF CostAt
  <2>5. PICK e \in Nat : e = Len(fsets[p]) * BYTE_BITS
    BY SetsFromFacts, ConstantFacts, TimesNat
  <2>. QED  BY <2>3, <2>4, <2>5, ConstantFacts
<1>2. PICK w \in [Byte -> Nat] : w = Costs(s, 0) /\ \A p \in Byte : w[p] = SIZE_BITS + Len(fsets[p]) * BYTE_BITS
  <2>1. PICK w : w = Costs(s, 0)
    OBVIOUS
  <2>2. \A p \in Byte : w[p] = SIZE_BITS + Len(fsets[p]) * BYTE_BITS /\ w[p] \in Nat
    BY <1>1, <2>1 DEF Costs
  <2>3. w \in [Byte -> Nat]
    BY <2>1, <2>2 DEF Costs
  <2>. QED  BY <2>1, <2>2, <2>3
<1> DEFINE Above(i) == {p \in Byte : p >= BYTE - i}
           T == {i \in 0 .. BYTE : o[i] = Total(w, Above(i))}
<1>3. 0 \in T
  <2>1. Above(0) = {}
    BY ConstantFacts
  <2>2. Total(w, {}) = 0
    BY TotalFacts, Zenon
  <2>3. o[0] = 0
    BY DEF Ends
  <2>4. o[0] = Total(w, Above(0))
    BY <2>1, <2>2, <2>3
  <2>5. 0 \in 0 .. BYTE
    BY ConstantFacts
  <2> HIDE DEF Above
  <2>. QED  BY <2>4, <2>5
<1>4. ASSUME NEW i \in 0 .. BYTE - 1, i \in T PROVE i + 1 \in T
  <2>1. PICK j \in 1 .. BYTE, p \in Byte : j = i + 1 /\ p = BYTE - j /\ j - 1 = i
    BY ConstantFacts
  <2>2. Above(j) \in SUBSET Byte /\ p \in Above(j) /\ Above(j) \ {p} = Above(i)
    BY <2>1, ConstantFacts
  <2>3. o[i] = Total(w, Above(i))
    BY <1>4
  <2> HIDE DEF Above
  <2>4. Total(w, Above(j)) = w[p] + Total(w, Above(i)) /\ Total(w, Above(i)) \in Nat
    <3>1. PICK C \in SUBSET Byte, D \in SUBSET Byte : C = Above(j) /\ D = Above(i) /\ p \in C /\ C \ {p} = D
      BY <2>2
    <3>2. Total(w, C) = w[p] + Total(w, C \ {p}) /\ Total(w, D) \in Nat
      BY <3>1, TotalFacts
    <3>. QED  BY <3>1, <3>2
  <2>5. o[j] = o[j - 1] + SIZE_BITS + Len(fsets[BYTE - j]) * BYTE_BITS
    BY DEF Ends
  <2>6. PICK e \in Nat : e = Len(fsets[p]) * BYTE_BITS
    BY SetsFromFacts, ConstantFacts, TimesNat
  <2>7. o[j] = o[i] + SIZE_BITS + e /\ w[p] = SIZE_BITS + e
    BY <1>2, <2>1, <2>5, <2>6
  <2>8. o[j] = Total(w, Above(j))
    BY <2>3, <2>4, <2>7, ConstantFacts
  <2>. QED  BY <2>1, <2>8
<1>5. BYTE \in T
  <2>1. BYTE \in Nat /\ BYTE \in 0 .. BYTE
    BY ConstantFacts
  <2> HIDE DEF T
  <2>2. \A i \in 0 .. BYTE : i \in T
    BY <1>3, <1>4, <2>1, Climb
  <2>. QED  BY <2>1, <2>2
<1>6. Above(BYTE) = Byte
  BY ConstantFacts
<1> HIDE DEF Above
<1>. QED  BY <1>2, <1>5, <1>6

\* Where the k-th byte ends is what has been spent.
LEMMA SpentSoFar ==
    ASSUME NEW s, SetsFrom(s), NEW o, NEW b, Stream(s, o, b)
    PROVE  b[Len(s)] = Total(Costs(s, Len(s)), Byte)
<1>1. s \in Seq(Byte) /\ Len(s) \in Nat
  BY LenProperties DEF SetsFrom
<1> DEFINE T == {k \in 0 .. Len(s) : b[k] = Total(Costs(s, k), Byte)}
<1>2. 0 \in T
  BY <1>1, SetsCost DEF Stream
<1>3. ASSUME NEW k \in 0 .. Len(s) - 1, k \in T PROVE k + 1 \in T
  <2>1. PICK q \in 1 .. Len(s) : q = k + 1 /\ q - 1 = k
    BY <1>1
  <2>2. k \in Nat /\ k < Len(s)
    BY <1>1
  <2>3. PICK p \in Byte : p = Before(s, k + 1)
    <3>1. k + 1 \in 1 .. Len(s) + 1
      BY <1>1
    <3>. QED  BY <1>1, <3>1, BytesBefore
  <2>4. b[q] = b[k] + Len(ByteBits(p, s[k + 1])) /\ b[q] \in Nat /\ b[k] \in Nat
    BY <2>1, <2>3, SMTT(30) DEF Stream
  <2>5. PICK d \in Nat : d = Len(ByteBits(p, s[k + 1]))
    <3>1. k + 1 \in 1 .. Len(s)
      BY <1>1
    <3>2. s[k + 1] \in Byte
      BY <1>1, <3>1, ElementOfSeq
    <3>. QED  BY <3>2, SetsFromFacts, ByteBitsFacts, LenProperties
  <2>6. PICK w, u : w = Costs(s, k) /\ u = Costs(s, k + 1)
    OBVIOUS
  <2>7. \A y \in Byte : w[y] \in Nat /\ u[y] = w[y] + IF p = y THEN d ELSE 0
    <3> TAKE y \in Byte
    <3>1. CostAt(s, k, y) \in Nat
      BY <2>2, CostStep
    <3>2. CostAt(s, k + 1, y) = CostAt(s, k, y) + IF p = y THEN Len(ByteBits(y, s[k + 1])) ELSE 0
      BY <2>2, <2>3, CostStep
    <3>. QED  BY <2>5, <2>6, <3>1, <3>2 DEF Costs
  <2>8. w \in [Byte -> Nat] /\ u \in [Byte -> Nat] /\ u[p] = w[p] + d /\ \A y \in Byte : y # p => u[y] = w[y]
    <3>1. \A y \in Byte : u[y] \in Nat
      BY <2>7
    <3>2. w \in [Byte -> Nat] /\ u \in [Byte -> Nat]
      BY <2>6, <2>7, <3>1 DEF Costs
    <3>3. \A y \in Byte : y # p => u[y] = w[y]
      BY <2>7
    <3>. QED  BY <2>7, <3>2, <3>3
  <2>9. Total(u, Byte) = Total(w, Byte) + d
    <3>1. PICK C \in SUBSET Byte : C = Byte
      OBVIOUS
    <3>2. Total(u, C) = Total(w, C) + IF p \in C THEN d ELSE 0
      BY <2>8, TotalOneMore
    <3>. QED  BY <3>1, <3>2
  <2>10. b[k] = Total(w, Byte)
    BY <1>3, <2>6
  <2>11. b[q] = Total(u, Byte)
    BY <2>4, <2>5, <2>9, <2>10
  <2>. QED  BY <2>1, <2>6, <2>11
<1>4. Len(s) \in T
  <2>1. Len(s) \in 0 .. Len(s)
    BY <1>1
  <2> HIDE DEF T
  <2>2. \A i \in 0 .. Len(s) : i \in T
    BY <1>1, <1>2, <1>3, Climb
  <2>. QED  BY <2>1, <2>2
<1>. QED  BY <1>4

\* In the end all is spent that the sizes were chosen by.
LEMMA SpentInTheEnd ==
    ASSUME NEW s, SetsFrom(s)
    PROVE  MapThenSumSet(LAMBDA p : SIZE_BITS + followers_cost(follower_count(s, p), Len(fsets[p])), Byte)
               = Total(Costs(s, Len(s)), Byte)
<1> DEFINE cost(p) == SIZE_BITS + followers_cost(follower_count(s, p), Len(fsets[p]))
           any(t) == CHOOSE x \in t : TRUE
           Fold(g) == g = [t \in SUBSET Byte |-> IF t = {} THEN 0 ELSE cost(any(t)) + g[t \ {any(t)}]]
<1>1. PICK w : w = Costs(s, Len(s))
  OBVIOUS
<1>2. ASSUME NEW p \in Byte PROVE w[p] = cost(p) /\ w[p] \in Nat
  <2>1. PICK all, n : all = follower_count(s, p) /\ n = Len(fsets[p])
    OBVIOUS
  <2>2. all \in [Byte -> Nat] /\ n \in 0 .. MAX_FOLLOWERS
    BY <2>1, SetsFromFacts
  <2>3. Count(s, Len(s), p) = all
    BY <2>1, CountsInTheEnd DEF SetsFrom
  <2>4. followers_cost(all, n) = n * BYTE_BITS + Total(all, InSet(all, n)) * HitBits(n)
                                    + Total(all, Others(all, n)) * MissBits(n)
    BY <2>2, CostOfSet
  <2>5. followers_cost(all, n) \in Nat
    BY <2>2, CostType
  <2>6. w[p] = CostAt(s, Len(s), p)
    BY <1>1 DEF Costs
  <2>7. w[p] = SIZE_BITS + followers_cost(all, n)
    BY <2>1, <2>3, <2>4, <2>6 DEF CostAt
  <2>. QED  BY <2>1, <2>5, <2>7, ConstantFacts
<1>3. w \in [Byte -> Nat]
  BY <1>1, <1>2 DEF Costs
<1>4. \A t \in SUBSET Byte : t # {} => w[any(t)] = cost(any(t))
  <2> TAKE t \in SUBSET Byte
  <2>1. t # {} => any(t) \in Byte
    OBVIOUS
  <2> HIDE DEF any, cost
  <2>. QED  BY <1>2, <2>1
<1>5. ASSUME NEW g PROVE Fold(g) <=> Folded(g, w, Byte)
  <2>1. [t \in SUBSET Byte |-> IF t = {} THEN 0 ELSE cost(any(t)) + g[t \ {any(t)}]] =
        [t \in SUBSET Byte |-> IF t = {} THEN 0 ELSE w[any(t)] + g[t \ {any(t)}]]
    <3> HIDE DEF any, cost
    <3>. QED  BY <1>4
  <2>. QED  BY <2>1 DEF Folded
<1>6. Byte \in SUBSET Byte
  OBVIOUS
<1>7. \E g : Fold(g)
  <2>1. \E g : Folded(g, w, Byte)
    BY <1>3, <1>6, FoldedExists
  <2> HIDE DEF Fold
  <2>. QED  BY <1>5, <2>1
<1>8. PICK g : Fold(g) /\ MapThenSumSet(LAMBDA p : SIZE_BITS + followers_cost(follower_count(s, p), Len(fsets[p])), Byte) = g[Byte]
  BY <1>7 DEF MapThenSumSet, MapThenFoldSet
<1>9. g[Byte] = Total(w, Byte)
  <2> HIDE DEF Fold
  <2>. QED  BY <1>3, <1>5, <1>6, <1>8, FoldedExists
<1>. QED  BY <1>1, <1>8, <1>9

LEMMA CostsCount == RoundTrip => CostsAreExact
<1> SUFFICES ASSUME RoundTrip, phase = "compress", flushed, pending = <<>>, pos = Len(src), Len(raw) < RAW_BYTES_SZ
             PROVE  Len(os.bits) = MapThenSumSet(
                        LAMBDA p : SIZE_BITS + followers_cost(follower_count(raw, p), Len(fsets[p])), Byte)
  BY DEF CostsAreExact
<1>1. Inv /\ Writing
  BY DEF RoundTrip
<1>2. PICK s, w, o, b : Written1(s, w, o, b)
  BY <1>1 DEF Writing
<1>3. w = raw
  <2>1. s = w \o <<>> /\ w \in Seq(Byte) /\ s = raw
    BY <1>2 DEF Written1
  <2>. QED  BY <2>1, ConcatEmptySeq
<1>4. SetsFrom(raw) /\ Stream(raw, o, b) /\ b[Len(raw)] = Len(os.bits)
  BY <1>2, <1>3 DEF Written1, SetsFrom, Sets
<1>. QED  BY <1>4, SpentSoFar, SpentInTheEnd

\* The sizes of the follower sets are chosen by what they really cost, for every input
\* that fits in raw_bytes: when all is written, the stream is as long as the sum of
\* the costs that follower_cost gave to the chosen sizes.
THEOREM CostsAreAsCounted == Spec => []CostsAreExact
<1>1. Init => RoundTrip
  BY InitRoundTrip
<1>2. RoundTrip /\ [Next]_vars => RoundTrip'
  BY NextRoundTrip
<1>3. RoundTrip => CostsAreExact
  BY CostsCount
<1>. QED  BY <1>1, <1>2, <1>3, PTL DEF Spec
================================================================================
