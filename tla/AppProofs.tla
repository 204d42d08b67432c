--------------------------------- MODULE AppProofs ---------------------------------
(***************************************************************************)
(* Proofs about the program around the compression methods.                *)
(*                                                                         *)
(* Zip and Extract: what zip_write makes of any files, whatever zip_read   *)
(* accepts, that the one reads what the other wrote, and what extract_zip  *)
(* leaves on disk.                                                         *)
(*                                                                         *)
(* MainActivity: results are shown in the order of the clicks, and the     *)
(* last one is what stays on screen, for any number of clicks and          *)
(* recreations.                                                            *)
(*                                                                         *)
(* Exec: no call of exec loses output or overruns its buffer, whatever the *)
(* other threads in exec do, for any number of threads and any size of     *)
(* pipe, read and output.                                                  *)
(***************************************************************************)
EXTENDS Zip, Extract, MainActivity, Exec, WellFoundedInduction, TLAPS, SequenceTheorems, FiniteSetTheorems

\* A set of naturals that has an element has a least one.
LEMMA LeastElement ==
    ASSUME NEW S, S \subseteq Nat, S # {}
    PROVE  \E m \in S : \A n \in S : m <= n
<1>1. PICK m \in S : \A n \in S : ~(<<n, m>> \in {ss \in Nat \X Nat : ss[1] < ss[2]})
  BY NatLessThanWellFounded, WFMin, Zenon DEF OpToRel
<1>2. \A n \in S : ~(n < m)
  BY <1>1
<1>. QED  BY <1>2

LEMMA TimesNat == ASSUME NEW d \in Nat, NEW q \in Nat PROVE d * q \in Nat
  OBVIOUS

\* Division with remainder.
LEMMA DivMod ==
    ASSUME NEW a \in Nat, NEW d \in Nat \ {0}
    PROVE  /\ a \div d \in Nat /\ a % d \in 0 .. d - 1
           /\ a = d * (a \div d) + (a % d)
  BY SMTT(30)

\* The bytes c lie in s behind the first `at`.
At(s, at, c) == at + Len(c) <= Len(s) /\ \A k \in 1 .. Len(c) : s[at + k] = c[k]

\* A sequence, of whatever.
IsSeq(s) == s \in Seq(Range(s))

--------------------------------------------------------------------------------
(***************************************************************************)
(* Sequences.                                                              *)
(***************************************************************************)
LEMMA SeqFacts ==
    ASSUME NEW s, IsSeq(s)
    PROVE  Len(s) \in Nat /\ DOMAIN s = 1 .. Len(s) /\ s = [k \in 1 .. Len(s) |-> s[k]]
  BY DEF IsSeq

LEMMA SeqOfFunction ==
    ASSUME NEW s, NEW n \in Nat, DOMAIN s = 1 .. n, s = [k \in 1 .. n |-> s[k]]
    PROVE  IsSeq(s) /\ Len(s) = n
<1>1. \A k \in 1 .. n : s[k] \in Range(s)
  BY DEF Range
<1>2. s \in [1 .. n -> Range(s)]
  BY <1>1
<1>. QED  BY <1>2, IsASeq, LenProperties DEF IsSeq

LEMMA SeqOfAny == ASSUME NEW S, NEW s \in Seq(S) PROVE IsSeq(s)
  BY SeqOfRange DEF IsSeq

LEMMA SeqSame ==
    ASSUME NEW s, NEW t, IsSeq(s), IsSeq(t), Len(s) = Len(t),
           \A k \in 1 .. Len(s) : s[k] = t[k]
    PROVE  s = t
  BY SeqFacts

LEMMA ConcatFacts ==
    ASSUME NEW a, NEW b, IsSeq(a), IsSeq(b)
    PROVE  /\ IsSeq(a \o b) /\ Len(a \o b) = Len(a) + Len(b)
           /\ \A k \in 1 .. Len(a) : (a \o b)[k] = a[k]
           /\ \A k \in 1 .. Len(b) : (a \o b)[Len(a) + k] = b[k]
<1> DEFINE S == Range(a) \cup Range(b)
<1>1. a \in Seq(S) /\ b \in Seq(S) /\ Len(a) \in Nat /\ Len(b) \in Nat
  BY SeqMonotonic, SeqFacts DEF IsSeq
<1> HIDE DEF S
<1>2. /\ a \o b \in Seq(S) /\ Len(a \o b) = Len(a) + Len(b)
      /\ \A k \in 1 .. Len(a) + Len(b) : (a \o b)[k] = IF k <= Len(a) THEN a[k] ELSE b[k - Len(a)]
  BY <1>1, ConcatProperties
<1>3. \A k \in 1 .. Len(b) : (a \o b)[Len(a) + k] = b[k]
  BY <1>1, <1>2
<1>4. IsSeq(a \o b)
  BY <1>2, SeqOfAny, Zenon
<1>. QED  BY <1>1, <1>2, <1>3, <1>4

LEMMA AppendFacts ==
    ASSUME NEW s, NEW e, IsSeq(s)
    PROVE  /\ IsSeq(Append(s, e)) /\ Len(Append(s, e)) = Len(s) + 1
           /\ \A k \in 1 .. Len(s) : Append(s, e)[k] = s[k]
           /\ Append(s, e)[Len(s) + 1] = e
<1>1. s \in Seq(Range(s) \cup {e}) /\ e \in Range(s) \cup {e}
  BY SeqMonotonic DEF IsSeq
<1>2. IsSeq(Append(s, e))
  <2>1. Append(s, e) \in Seq(Range(s) \cup {e})
    BY <1>1, AppendProperties
  <2>. QED  BY <2>1, SeqOfAny, Zenon
<1>. QED  BY <1>1, <1>2, AppendProperties

LEMMA CutFacts ==
    ASSUME NEW s, NEW at \in Nat, NEW n \in Nat, IsSeq(s), at + n <= Len(s)
    PROVE  /\ IsSeq(Cut(s, at, n)) /\ Len(Cut(s, at, n)) = n
           /\ \A k \in 1 .. n : Cut(s, at, n)[k] = s[at + k]
<1>1. \A k \in at + 1 .. at + n : s[k] \in Range(s)
  BY SeqFacts DEF Range
<1>2. /\ SubSeq(s, at + 1, at + n) \in Seq(Range(s))
      /\ Len(SubSeq(s, at + 1, at + n)) = IF at + 1 <= at + n THEN (at + n) - (at + 1) + 1 ELSE 0
      /\ \A k \in 1 .. (at + n) - (at + 1) + 1 :
            SubSeq(s, at + 1, at + n)[k] = s[at + 1 + k - 1]
  BY <1>1, SubSeqProperties
<1>3. (at + n) - (at + 1) + 1 = n /\ \A k \in 1 .. n : at + 1 + k - 1 = at + k
  OBVIOUS
<1>4. IsSeq(SubSeq(s, at + 1, at + n))
  BY <1>2, SeqOfAny, Zenon
<1>. QED  BY <1>2, <1>3, <1>4 DEF Cut

LEMMA AtCut ==
    ASSUME NEW s, NEW at \in Nat, NEW c, IsSeq(s), IsSeq(c), At(s, at, c)
    PROVE  Cut(s, at, Len(c)) = c
  BY CutFacts, SeqFacts, SeqSame DEF At

LEMMA AtConcat ==
    ASSUME NEW s, NEW at \in Nat, NEW a, NEW b, IsSeq(s), IsSeq(a), IsSeq(b)
    PROVE  At(s, at, a \o b) <=> At(s, at, a) /\ At(s, at + Len(a), b)
<1> DEFINE c == a \o b
<1>0. Len(s) \in Nat /\ Len(a) \in Nat /\ Len(b) \in Nat
  BY SeqFacts
<1>1. /\ Len(c) = Len(a) + Len(b) /\ \A k \in 1 .. Len(a) : c[k] = a[k]
      /\ \A k \in 1 .. Len(b) : c[Len(a) + k] = b[k]
  BY ConcatFacts
<1>2. \A k \in 1 .. Len(c) : k \in 1 .. Len(a) \/ (k - Len(a) \in 1 .. Len(b) /\ k = Len(a) + (k - Len(a)))
  BY <1>0, <1>1
<1>. HIDE DEF c
<1>3. ASSUME At(s, at, c) PROVE At(s, at, a) /\ At(s, at + Len(a), b)
  <2>1. At(s, at, a)
    BY <1>0, <1>1, <1>3 DEF At
  <2>2. ASSUME NEW k \in 1 .. Len(b) PROVE s[at + Len(a) + k] = b[k]
    <3>1. Len(a) + k \in 1 .. Len(c) /\ at + (Len(a) + k) = at + Len(a) + k
      BY <1>0, <1>1
    <3>. QED  BY <1>1, <1>3, <3>1 DEF At
  <2>3. at + Len(a) + Len(b) <= Len(s)
    BY <1>0, <1>1, <1>3 DEF At
  <2>. QED  BY <2>1, <2>2, <2>3 DEF At
<1>4. ASSUME At(s, at, a), At(s, at + Len(a), b) PROVE At(s, at, c)
  <2>1. ASSUME NEW k \in 1 .. Len(c) PROVE s[at + k] = c[k]
    <3>1. CASE k \in 1 .. Len(a)
      BY <1>1, <1>4, <3>1 DEF At
    <3>2. CASE k - Len(a) \in 1 .. Len(b)
      <4>1. at + k = at + Len(a) + (k - Len(a)) /\ k = Len(a) + (k - Len(a))
        BY <1>0, <1>1
      <4>. QED  BY <1>1, <1>4, <3>2, <4>1 DEF At
    <3>. QED  BY <1>2, <3>1, <3>2
  <2>2. at + Len(c) <= Len(s)
    BY <1>0, <1>1, <1>4 DEF At
  <2>. QED  BY <2>1, <2>2 DEF At
<1>. QED  BY <1>3, <1>4 DEF c

\* The maximum and the minimum of two numbers.
LEMMA MaxOfTwo ==
    ASSUME NEW m \in Int, NEW n \in Int PROVE Max({m, n}) = IF m >= n THEN m ELSE n
<1>1. \E x \in {m, n} : \A y \in {m, n} : x >= y
  OBVIOUS
<1>2. Max({m, n}) \in {m, n} /\ \A y \in {m, n} : Max({m, n}) >= y
  <2> DEFINE S == {m, n}
  <2>1. \E x \in S : \A y \in S : x >= y
    BY <1>1
  <2> HIDE DEF S
  <2>2. Max(S) \in S /\ \A y \in S : Max(S) >= y
    BY <2>1 DEF Max
  <2>. QED  BY <2>2 DEF S
<1>. QED  BY <1>2

LEMMA MinOfTwo ==
    ASSUME NEW m \in Int, NEW n \in Int PROVE Min({m, n}) = IF m <= n THEN m ELSE n
<1>1. \E x \in {m, n} : \A y \in {m, n} : x <= y
  OBVIOUS
<1>2. Min({m, n}) \in {m, n} /\ \A y \in {m, n} : Min({m, n}) <= y
  <2> DEFINE S == {m, n}
  <2>1. \E x \in S : \A y \in S : x <= y
    BY <1>1
  <2> HIDE DEF S
  <2>2. Min(S) \in S /\ \A y \in S : Min(S) <= y
    BY <2>1 DEF Min
  <2>. QED  BY <2>2 DEF S
<1>. QED  BY <1>2

LEMMA MinOfSet ==
    ASSUME NEW S, S \subseteq Nat, S # {}
    PROVE  Min(S) \in S /\ \A y \in S : Min(S) <= y
<1>1. \E x \in S : \A y \in S : x <= y
  BY LeastElement
<1>. QED  BY <1>1 DEF Min

LEMMA PutFacts ==
    ASSUME NEW s, NEW at \in Nat, NEW c, IsSeq(s), IsSeq(c)
    PROVE  /\ IsSeq(Put(s, at, c)) /\ Len(Put(s, at, c)) >= Len(s)
           /\ At(Put(s, at, c), at, c)
           /\ \A k \in 1 .. Len(s) : k <= at \/ k > at + Len(c) => Put(s, at, c)[k] = s[k]
<1> DEFINE n == Max({Len(s), at + Len(c)})
           t == Put(s, at, c)
<1>1. Len(s) \in Nat /\ Len(c) \in Nat /\ DOMAIN c = 1 .. Len(c)
  BY SeqFacts
<1>2. n \in Nat /\ n >= Len(s) /\ n >= at + Len(c)
  BY <1>1, MaxOfTwo
<1>3. t = [k \in 1 .. n |-> IF k - at \in DOMAIN c THEN c[k - at]
                            ELSE IF k <= Len(s) THEN s[k] ELSE JUNK]
  BY DEF Put
<1>. HIDE DEF n, t
<1>4. DOMAIN t = 1 .. n /\ t = [k \in 1 .. n |-> t[k]]
  BY <1>3
<1>5. IsSeq(t) /\ Len(t) = n
  BY <1>2, <1>4, SeqOfFunction
<1>6. ASSUME NEW k \in 1 .. Len(c) PROVE t[at + k] = c[k]
  <2>1. at + k \in 1 .. n /\ (at + k) - at = k
    BY <1>1, <1>2
  <2>. QED  BY <1>1, <1>3, <2>1
<1>7. ASSUME NEW k \in 1 .. Len(s), k <= at \/ k > at + Len(c) PROVE t[k] = s[k]
  <2>1. k \in 1 .. n /\ k - at \notin DOMAIN c /\ k <= Len(s)
    BY <1>1, <1>2, <1>7
  <2>. QED  BY <1>3, <2>1
<1>8. At(t, at, c)
  BY <1>2, <1>5, <1>6 DEF At
<1>. QED  BY <1>2, <1>5, <1>7, <1>8 DEF t

\* The first n elements are the same.
Agree(s, t, n) == IsSeq(s) /\ IsSeq(t) /\ n <= Len(s) /\ n <= Len(t) /\ \A k \in 1 .. n : t[k] = s[k]

LEMMA AgreePut ==
    ASSUME NEW s, NEW at \in Nat, NEW c, IsSeq(s), IsSeq(c), NEW n \in Nat, n <= at, n <= Len(s)
    PROVE  Agree(s, Put(s, at, c), n)
<1> DEFINE t == Put(s, at, c)
<1>1. /\ IsSeq(t) /\ Len(t) >= Len(s)
      /\ \A k \in 1 .. Len(s) : k <= at \/ k > at + Len(c) => t[k] = s[k]
  BY PutFacts
<1>2. Len(s) \in Nat /\ Len(t) \in Nat
  BY <1>1, SeqFacts
<1> HIDE DEF t
<1>3. Agree(s, t, n)
  BY <1>1, <1>2 DEF Agree
<1>. QED  BY <1>3 DEF t

LEMMA AgreeTrans ==
    ASSUME NEW s, NEW t, NEW u, NEW n \in Nat, Agree(s, t, n), Agree(t, u, n)
    PROVE  Agree(s, u, n)
  BY DEF Agree

LEMMA AgreeCut ==
    ASSUME NEW s, NEW n \in Nat, IsSeq(s), n <= Len(s)
    PROVE  Agree(s, Cut(s, 0, n), n) /\ Len(Cut(s, 0, n)) = n
<1>1. Len(s) \in Nat /\ 0 + n <= Len(s) /\ \A k \in 1 .. n : 0 + k = k
  BY SeqFacts
<1>. QED  BY <1>1, CutFacts DEF Agree

LEMMA AgreeAt ==
    ASSUME NEW s, NEW t, NEW n \in Nat, Agree(s, t, n),
           NEW at \in Nat, NEW c, Len(c) \in Nat, at + Len(c) <= n, At(s, at, c)
    PROVE  At(t, at, c)
<1>1. Len(s) \in Nat /\ Len(t) \in Nat
  BY SeqFacts DEF Agree
<1>2. \A k \in 1 .. Len(c) : at + k \in 1 .. n
  OBVIOUS
<1>. QED  BY <1>1, <1>2 DEF Agree, At

--------------------------------------------------------------------------------
(***************************************************************************)
(* Bytes, and numbers in them.                                             *)
(***************************************************************************)
\* What an archive is made of.
Cells == 0 .. JUNK

LEMMA CellsFacts == BYTE \in Nat /\ BYTE >= 5 /\ JUNK \in Nat /\ Byte \subseteq Cells /\ Cells \subseteq Nat
  BY ZipAssumption DEF Cells, JUNK, Byte

LEMMA BytesAreCells == \A s \in Seq(Byte) : s \in Seq(Cells)
  BY CellsFacts, SeqMonotonic, Zenon

LEMMA CellsSeq == ASSUME NEW s \in Seq(Cells) PROVE IsSeq(s) /\ Len(s) \in Nat
  BY SeqOfAny, SeqFacts, Zenon

LEMMA CellsOfFunction ==
    ASSUME NEW s, NEW n \in Nat, DOMAIN s = 1 .. n, s = [k \in 1 .. n |-> s[k]],
           \A k \in 1 .. n : s[k] \in Cells
    PROVE  s \in Seq(Cells)
<1>1. s \in [1 .. n -> Cells]
  OBVIOUS
<1>. QED  BY <1>1, IsASeq

LEMMA CellsConcat ==
    ASSUME NEW a \in Seq(Cells), NEW b \in Seq(Cells) PROVE a \o b \in Seq(Cells)
  BY ConcatProperties, Zenon

LEMMA CellsPut ==
    ASSUME NEW s \in Seq(Cells), NEW at \in Nat, NEW c \in Seq(Cells)
    PROVE  Put(s, at, c) \in Seq(Cells)
<1> DEFINE n == Max({Len(s), at + Len(c)})
           t == Put(s, at, c)
<1>1. Len(s) \in Nat /\ Len(c) \in Nat /\ DOMAIN c = 1 .. Len(c)
  OBVIOUS
<1>2. n \in Nat
  BY <1>1, MaxOfTwo
<1>3. t = [k \in 1 .. n |-> IF k - at \in DOMAIN c THEN c[k - at]
                            ELSE IF k <= Len(s) THEN s[k] ELSE JUNK]
  BY DEF Put
<1>4. JUNK \in Cells
  BY CellsFacts DEF Cells
<1> HIDE DEF n, t
<1>5. ASSUME NEW k \in 1 .. n PROVE t[k] \in Cells
  <2>1. CASE k - at \in DOMAIN c
    <3>1. t[k] = c[k - at] /\ k - at \in 1 .. Len(c)
      BY <1>1, <1>3, <2>1
    <3>. QED  BY <3>1
  <2>2. CASE k - at \notin DOMAIN c /\ k <= Len(s)
    <3>1. t[k] = s[k] /\ k \in 1 .. Len(s)
      BY <1>1, <1>2, <1>3, <2>2
    <3>. QED  BY <3>1
  <2>3. CASE k - at \notin DOMAIN c /\ ~(k <= Len(s))
    BY <1>3, <1>4, <2>3
  <2>. QED  BY <2>1, <2>2, <2>3
<1>6. DOMAIN t = 1 .. n /\ t = [k \in 1 .. n |-> t[k]]
  BY <1>3
<1>7. t \in Seq(Cells)
  BY <1>2, <1>5, <1>6, CellsOfFunction
<1>. QED  BY <1>7 DEF t

LEMMA CellsCut ==
    ASSUME NEW s \in Seq(Cells), NEW n \in Nat, n <= Len(s)
    PROVE  Cut(s, 0, n) \in Seq(Cells) /\ Len(Cut(s, 0, n)) = n
<1>1. \A k \in 0 + 1 .. 0 + n : s[k] \in Cells
  OBVIOUS
<1>2. /\ SubSeq(s, 0 + 1, 0 + n) \in Seq(Cells)
      /\ Len(SubSeq(s, 0 + 1, 0 + n)) = IF 0 + 1 <= 0 + n THEN (0 + n) - (0 + 1) + 1 ELSE 0
  BY <1>1, SubSeqProperties
<1>. QED  BY <1>2 DEF Cut

Is16(n) == n \in 0 .. UINT16_MAX
Is32(n) == n \in 0 .. UINT32_MAX

LEMMA WidthFacts ==
    /\ BYTE * BYTE \in Nat \ {0} /\ UINT16_MAX = BYTE * BYTE - 1 /\ UINT16_MAX >= 24
    /\ UINT32_MAX = (BYTE * BYTE) * (BYTE * BYTE) - 1 /\ UINT32_MAX >= UINT16_MAX
    /\ UINT16_MAX \in Nat /\ UINT32_MAX \in Nat
<1>1. ASSUME NEW b \in Nat, b >= 5 PROVE b * b \in Nat /\ b * b >= 25
  BY <1>1
<1> DEFINE h == BYTE * BYTE
<1>2. h \in Nat /\ h >= 25
  BY <1>1, CellsFacts
<1>3. ASSUME NEW m \in Nat, m >= 25 PROVE m * m \in Nat /\ m * m >= m
  BY <1>3
<1>4. h * h \in Nat /\ h * h >= h
  <2> HIDE DEF h
  <2>. QED  BY <1>2, <1>3
<1>5. UINT16_MAX = h - 1 /\ UINT32_MAX = h * h - 1
  BY DEF UINT16_MAX, UINT32_MAX
<1> DEFINE q == h * h
<1>6. UINT32_MAX = q - 1 /\ q \in Nat /\ q >= h
  BY <1>4, <1>5
<1> HIDE DEF h, q
<1>7. UINT16_MAX >= 24 /\ UINT32_MAX >= UINT16_MAX /\ UINT16_MAX \in Nat /\ UINT32_MAX \in Nat
      /\ h \in Nat \ {0}
  BY <1>2, <1>5, <1>6
<1>. QED  BY <1>5, <1>7 DEF h

\* A number below the square of a base has two digits.
LEMMA TwoDigits ==
    ASSUME NEW b \in Nat \ {0}, NEW n \in 0 .. b * b - 1
    PROVE  n % b \in 0 .. b - 1 /\ n \div b \in 0 .. b - 1 /\ n = (n % b) + b * (n \div b)
<1>1. n \in Nat /\ b * b \in Nat
  BY TimesNat
<1>2. n \div b \in Nat /\ n % b \in 0 .. b - 1 /\ n = b * (n \div b) + (n % b)
  BY <1>1, DivMod
<1> DEFINE q == n \div b
           r == n % b
<1>3. q \in Nat /\ r \in 0 .. b - 1 /\ n = b * q + r
  BY <1>2
<1> HIDE DEF q, r
<1>4. q <= b - 1
  <2> SUFFICES ASSUME q >= b PROVE FALSE
    BY <1>3
  <2>1. PICK d \in Nat : q = b + d
    <3>1. q - b \in Nat /\ q = b + (q - b)
      BY <1>3
    <3>. QED  BY <3>1
  <2>2. b * q = b * b + b * d
    BY <2>1
  <2>3. b * d \in Nat
    BY TimesNat
  <2>. QED  BY <1>1, <1>3, <2>2, <2>3
<1>5. n = r + b * q
  <2>1. b * q \in Nat
    BY <1>3, TimesNat
  <2>. QED  BY <1>3, <2>1
<1>. QED  BY <1>3, <1>4, <1>5 DEF q, r

LEMMA Read16 ==
    ASSUME NEW s \in Seq(Cells), NEW at \in Nat, at + 2 <= Len(s)
    PROVE  read16le(s, at) \in Nat
<1>1. s[at + 1] \in Nat /\ s[at + 2] \in Nat
  <2>1. at + 1 \in 1 .. Len(s) /\ at + 2 \in 1 .. Len(s)
    OBVIOUS
  <2>2. s[at + 1] \in Cells /\ s[at + 2] \in Cells
    BY <2>1
  <2>. QED  BY <2>2, CellsFacts
<1>2. BYTE * s[at + 2] \in Nat
  BY <1>1, CellsFacts, TimesNat
<1>. QED  BY <1>1, <1>2 DEF read16le

LEMMA Read32 ==
    ASSUME NEW s \in Seq(Cells), NEW at \in Nat, at + 4 <= Len(s)
    PROVE  read32le(s, at) \in Nat
<1>1. read16le(s, at) \in Nat /\ read16le(s, at + 2) \in Nat
  <2>1. at + 2 \in Nat /\ at + 2 <= Len(s) /\ (at + 2) + 2 <= Len(s)
    OBVIOUS
  <2>. QED  BY <2>1, Read16
<1>2. BYTE * BYTE * read16le(s, at + 2) \in Nat
  BY <1>1, WidthFacts, TimesNat
<1>. QED  BY <1>1, <1>2 DEF read32le

LEMMA Write16 ==
    ASSUME NEW n, Is16(n)
    PROVE  /\ write16le(n) \in Seq(Cells) /\ Len(write16le(n)) = 2
           /\ \A s, at : at \in Nat /\ At(s, at, write16le(n)) => read16le(s, at) = n
<1>1. n \in 0 .. BYTE * BYTE - 1 /\ BYTE \in Nat \ {0}
  BY CellsFacts DEF Is16, UINT16_MAX
<1>2. n % BYTE \in 0 .. BYTE - 1 /\ n \div BYTE \in 0 .. BYTE - 1 /\ n = (n % BYTE) + BYTE * (n \div BYTE)
  BY <1>1, TwoDigits
<1> DEFINE a == n % BYTE
           b == n \div BYTE
           w == <<a, b>>
<1>3. a \in Cells /\ b \in Cells /\ n = a + BYTE * b
  BY <1>2, CellsFacts DEF Byte
<1>4. write16le(n) = w
  BY DEF write16le
<1> HIDE DEF a, b
<1>5. w \in Seq(Cells) /\ Len(w) = 2 /\ w[1] = a /\ w[2] = b
  BY <1>3
<1> HIDE DEF w
<1>6. ASSUME NEW s, NEW at \in Nat, At(s, at, w) PROVE read16le(s, at) = n
  <2>1. s[at + 1] = a /\ s[at + 2] = b
    BY <1>5, <1>6 DEF At
  <2>. QED  BY <1>3, <2>1 DEF read16le
<1>. QED  BY <1>4, <1>5, <1>6

LEMMA Write32 ==
    ASSUME NEW n, Is32(n)
    PROVE  /\ write32le(n) \in Seq(Cells) /\ Len(write32le(n)) = 4
           /\ \A s, at : at \in Nat /\ IsSeq(s) /\ At(s, at, write32le(n)) => read32le(s, at) = n
<1> DEFINE h == BYTE * BYTE
           a == n % h
           b == n \div h
<1>1. n \in 0 .. h * h - 1 /\ h \in Nat \ {0} /\ UINT16_MAX = h - 1
  BY WidthFacts DEF Is32
<1>2. a \in 0 .. h - 1 /\ b \in 0 .. h - 1 /\ n = a + h * b
  <2> HIDE DEF h
  <2>. QED  BY <1>1, TwoDigits
<1>3. Is16(a) /\ Is16(b)
  BY <1>1, <1>2 DEF Is16
<1> DEFINE u == write16le(a)
           v == write16le(b)
<1>4. write32le(n) = u \o v
  BY DEF write32le
<1>6. n = a + BYTE * BYTE * b
  BY <1>2
<1> HIDE DEF a, b, h
<1>5. /\ u \in Seq(Cells) /\ Len(u) = 2 /\ v \in Seq(Cells) /\ Len(v) = 2
      /\ \A s, at : at \in Nat /\ At(s, at, u) => read16le(s, at) = a
      /\ \A s, at : at \in Nat /\ At(s, at, v) => read16le(s, at) = b
  BY <1>3, Write16
<1> HIDE DEF u, v
<1>7. IsSeq(u) /\ IsSeq(v)
  BY <1>5, CellsSeq
<1> DEFINE c == u \o v
<1>8. c \in Seq(Cells) /\ Len(c) = 4
  <2>1. c \in Seq(Cells)
    BY <1>5, CellsConcat, Zenon
  <2>2. Len(c) = Len(u) + Len(v)
    BY <1>7, ConcatFacts, Zenon
  <2>. QED  BY <1>5, <2>1, <2>2
<1>9. ASSUME NEW s, NEW at \in Nat, IsSeq(s), At(s, at, c) PROVE read32le(s, at) = n
  <2>1. At(s, at, u) /\ At(s, at + 2, v)
    <3>1. At(s, at, u) /\ At(s, at + Len(u), v)
      BY <1>7, <1>9, AtConcat, Zenon
    <3>. QED  BY <1>5, <3>1
  <2>2. at + 2 \in Nat
    OBVIOUS
  <2>3. read16le(s, at) = a /\ read16le(s, at + 2) = b
    BY <1>5, <2>1, <2>2
  <2>. QED  BY <1>6, <2>3 DEF read32le
<1>. QED  BY <1>4, <1>8, <1>9

--------------------------------------------------------------------------------
(***************************************************************************)
(* The headers can be read back.                                           *)
(***************************************************************************)

\* b, of length m, is a, of length n, and a number of 16 bits.
Then16(a, n, v, b, m) ==
    /\ a \in Seq(Cells) /\ n \in Nat /\ Len(a) = n /\ Is16(v) /\ b = a \o write16le(v) /\ m = n + 2

LEMMA Len16 ==
    ASSUME NEW a, NEW n, NEW v, NEW b, NEW m, Then16(a, n, v, b, m)
    PROVE  b \in Seq(Cells) /\ Len(b) = m
<1> DEFINE w == write16le(v)
<1>1. a \in Seq(Cells) /\ n \in Nat /\ Len(a) = n /\ Is16(v) /\ m = n + 2 /\ b = a \o w
  BY DEF Then16
<1>2. w \in Seq(Cells) /\ Len(w) = 2
  BY <1>1, Write16, Zenon
<1> HIDE DEF w
<1>3. IsSeq(a) /\ IsSeq(w)
  BY <1>1, <1>2, CellsSeq
<1>4. b \in Seq(Cells)
  BY <1>1, <1>2, CellsConcat, Zenon
<1>5. Len(b) = Len(a) + Len(w)
  BY <1>1, <1>3, ConcatFacts, Zenon
<1>. QED  BY <1>1, <1>2, <1>4, <1>5

LEMMA Peel16 ==
    ASSUME NEW a, NEW n, NEW v, NEW b, NEW m, Then16(a, n, v, b, m),
           NEW s, NEW at, IsSeq(s), at \in Nat, At(s, at, b)
    PROVE  At(s, at, a) /\ read16le(s, at + n) = v
<1> DEFINE w == write16le(v)
<1>1. a \in Seq(Cells) /\ n \in Nat /\ Len(a) = n /\ Is16(v) /\ b = a \o w
  BY DEF Then16
<1>2. w \in Seq(Cells)
  BY <1>1, Write16, Zenon
<1>3. \A k : k \in Nat /\ IsSeq(s) /\ At(s, k, w) => read16le(s, k) = v
  BY <1>1, Write16, Zenon
<1> HIDE DEF w
<1>4. IsSeq(a) /\ IsSeq(w) /\ at + n \in Nat
  BY <1>1, <1>2, CellsSeq
<1>5. At(s, at, a) /\ At(s, at + Len(a), w)
  BY <1>1, <1>4, AtConcat, Zenon
<1>. QED  BY <1>1, <1>3, <1>4, <1>5, Zenon

\* b, of length m, is a, of length n, and a number of 32 bits.
Then32(a, n, v, b, m) ==
    /\ a \in Seq(Cells) /\ n \in Nat /\ Len(a) = n /\ Is32(v) /\ b = a \o write32le(v) /\ m = n + 4

LEMMA Len32 ==
    ASSUME NEW a, NEW n, NEW v, NEW b, NEW m, Then32(a, n, v, b, m)
    PROVE  b \in Seq(Cells) /\ Len(b) = m
<1> DEFINE w == write32le(v)
<1>1. a \in Seq(Cells) /\ n \in Nat /\ Len(a) = n /\ Is32(v) /\ m = n + 4 /\ b = a \o w
  BY DEF Then32
<1>2. w \in Seq(Cells) /\ Len(w) = 4
  BY <1>1, Write32, Zenon
<1> HIDE DEF w
<1>3. IsSeq(a) /\ IsSeq(w)
  BY <1>1, <1>2, CellsSeq
<1>4. b \in Seq(Cells)
  BY <1>1, <1>2, CellsConcat, Zenon
<1>5. Len(b) = Len(a) + Len(w)
  BY <1>1, <1>3, ConcatFacts, Zenon
<1>. QED  BY <1>1, <1>2, <1>4, <1>5

LEMMA Peel32 ==
    ASSUME NEW a, NEW n, NEW v, NEW b, NEW m, Then32(a, n, v, b, m),
           NEW s, NEW at, IsSeq(s), at \in Nat, At(s, at, b)
    PROVE  At(s, at, a) /\ read32le(s, at + n) = v
<1> DEFINE w == write32le(v)
<1>1. a \in Seq(Cells) /\ n \in Nat /\ Len(a) = n /\ Is32(v) /\ b = a \o w
  BY DEF Then32
<1>2. w \in Seq(Cells)
  BY <1>1, Write32, Zenon
<1>3. \A k : k \in Nat /\ IsSeq(s) /\ At(s, k, w) => read32le(s, k) = v
  BY <1>1, Write32, Zenon
<1> HIDE DEF w
<1>4. IsSeq(a) /\ IsSeq(w) /\ at + n \in Nat
  BY <1>1, <1>2, CellsSeq
<1>5. At(s, at, a) /\ At(s, at + Len(a), w)
  BY <1>1, <1>4, AtConcat, Zenon
<1>. QED  BY <1>1, <1>3, <1>4, <1>5, Zenon

\* And the name or the comment behind the numbers.
LEMMA LenName ==
    ASSUME NEW a \in Seq(Cells), NEW name \in Seq(Cells)
    PROVE  a \o name \in Seq(Cells) /\ Len(a \o name) = Len(a) + Len(name)
<1>1. IsSeq(a) /\ IsSeq(name)
  BY CellsSeq
<1>. QED  BY <1>1, CellsConcat, ConcatFacts, Zenon

LEMMA PeelName ==
    ASSUME NEW a, NEW n, NEW name, a \in Seq(Cells), n \in Nat, Len(a) = n, name \in Seq(Cells),
           NEW s, NEW at, IsSeq(s), at \in Nat, At(s, at, a \o name)
    PROVE  /\ At(s, at, a) /\ At(s, at + n, name) /\ Cut(s, at + n, Len(name)) = name
           /\ at + n + Len(name) <= Len(s)
<1>1. IsSeq(a) /\ IsSeq(name) /\ at + n \in Nat
  BY CellsSeq
<1>2. At(s, at, a) /\ At(s, at + Len(a), name)
  BY <1>1, AtConcat, Zenon
<1>3. At(s, at + n, name)
  BY <1>2
<1>4. Cut(s, at + n, Len(name)) = name
  BY <1>1, <1>3, AtCut
<1>5. at + n + Len(name) <= Len(s)
  BY <1>3 DEF At
<1>. QED  BY <1>2, <1>3, <1>4, <1>5

\* The fields of a local header fit their widths.
FitsLfh(l) ==
    /\ Is16(l.extract_ver) /\ Is16(l.gp_flag) /\ Is16(l.method) /\ Is16(l.mod_time)
    /\ Is16(l.mod_date) /\ Is16(l.name_len) /\ Is16(l.extra_len) /\ Is32(l.crc32)
    /\ Is32(l.comp_size) /\ Is32(l.uncomp_size)

\* What reading finds where a header was written.
LfhAt(s, at, l, name) ==
    /\ read32le(s, at) = LFH_SIGNATURE /\ At(s, at + 30, name)
    /\ Cut(s, at + 30, Len(name)) = name /\ at + 30 + Len(name) <= Len(s)
    /\ read16le(s, at + 4) = l.extract_ver /\ read16le(s, at + 6) = l.gp_flag
    /\ read16le(s, at + 8) = l.method /\ read16le(s, at + 10) = l.mod_time
    /\ read16le(s, at + 12) = l.mod_date /\ read32le(s, at + 14) = l.crc32
    /\ read32le(s, at + 18) = l.comp_size /\ read32le(s, at + 22) = l.uncomp_size
    /\ read16le(s, at + 26) = l.name_len /\ read16le(s, at + 28) = l.extra_len

LEMMA LfhWritten ==
    ASSUME NEW l, FitsLfh(l), NEW name, name \in Seq(Cells)
    PROVE  /\ write_lfh(l, name) \in Seq(Cells) /\ Len(write_lfh(l, name)) = 30 + Len(name)
           /\ \A s, at : IsSeq(s) /\ at \in Nat /\ At(s, at, write_lfh(l, name)) => LfhAt(s, at, l, name)
<1>w. \E a0, a1, a2, a3, a4, a5, a6, a7, a8, a9, a10 :
      /\ a0 = write32le(LFH_SIGNATURE) /\ write_lfh(l, name) = a10 \o name
      /\ a1 = a0 \o write16le(l.extract_ver) /\ a2 = a1 \o write16le(l.gp_flag)
      /\ a3 = a2 \o write16le(l.method) /\ a4 = a3 \o write16le(l.mod_time)
      /\ a5 = a4 \o write16le(l.mod_date) /\ a6 = a5 \o write32le(l.crc32)
      /\ a7 = a6 \o write32le(l.comp_size) /\ a8 = a7 \o write32le(l.uncomp_size)
      /\ a9 = a8 \o write16le(l.name_len) /\ a10 = a9 \o write16le(l.extra_len)
  <2> DEFINE d0 == write32le(LFH_SIGNATURE)
             d1 == d0 \o write16le(l.extract_ver)
             d2 == d1 \o write16le(l.gp_flag)
             d3 == d2 \o write16le(l.method)
             d4 == d3 \o write16le(l.mod_time)
             d5 == d4 \o write16le(l.mod_date)
             d6 == d5 \o write32le(l.crc32)
             d7 == d6 \o write32le(l.comp_size)
             d8 == d7 \o write32le(l.uncomp_size)
             d9 == d8 \o write16le(l.name_len)
             d10 == d9 \o write16le(l.extra_len)
  <2>1. write_lfh(l, name) = d10 \o name
    BY DEF write_lfh
  <2> WITNESS d0, d1, d2, d3, d4, d5, d6, d7, d8, d9, d10
  <2>. QED  BY <2>1
<1>p. PICK a0, a1, a2, a3, a4, a5, a6, a7, a8, a9, a10 :
      /\ a0 = write32le(LFH_SIGNATURE) /\ write_lfh(l, name) = a10 \o name
      /\ a1 = a0 \o write16le(l.extract_ver) /\ a2 = a1 \o write16le(l.gp_flag)
      /\ a3 = a2 \o write16le(l.method) /\ a4 = a3 \o write16le(l.mod_time)
      /\ a5 = a4 \o write16le(l.mod_date) /\ a6 = a5 \o write32le(l.crc32)
      /\ a7 = a6 \o write32le(l.comp_size) /\ a8 = a7 \o write32le(l.uncomp_size)
      /\ a9 = a8 \o write16le(l.name_len) /\ a10 = a9 \o write16le(l.extra_len)
  BY <1>w, Zenon
<1>h. write_lfh(l, name) = a10 \o name
  BY <1>p, Zenon
<1>a. a0 = write32le(LFH_SIGNATURE)
  BY <1>p, Zenon
<1>a1. a1 = a0 \o write16le(l.extract_ver)
  BY <1>p, Zenon
<1>a2. a2 = a1 \o write16le(l.gp_flag)
  BY <1>p, Zenon
<1>a3. a3 = a2 \o write16le(l.method)
  BY <1>p, Zenon
<1>a4. a4 = a3 \o write16le(l.mod_time)
  BY <1>p, Zenon
<1>a5. a5 = a4 \o write16le(l.mod_date)
  BY <1>p, Zenon
<1>a6. a6 = a5 \o write32le(l.crc32)
  BY <1>p, Zenon
<1>a7. a7 = a6 \o write32le(l.comp_size)
  BY <1>p, Zenon
<1>a8. a8 = a7 \o write32le(l.uncomp_size)
  BY <1>p, Zenon
<1>a9. a9 = a8 \o write16le(l.name_len)
  BY <1>p, Zenon
<1>a10. a10 = a9 \o write16le(l.extra_len)
  BY <1>p, Zenon
<1>0. /\ a0 \in Seq(Cells) /\ Len(a0) = 4
      /\ \A s, at : at \in Nat /\ IsSeq(s) /\ At(s, at, a0) => read32le(s, at) = LFH_SIGNATURE
  <2>1. Is32(LFH_SIGNATURE)
    BY ZipAssumption DEF Is32
  <2>. QED  BY <1>a, <2>1, Write32, Zenon
<1>1. Then16(a0, 4, l.extract_ver, a1, 6) /\ a1 \in Seq(Cells) /\ Len(a1) = 6
  <2>1. Then16(a0, 4, l.extract_ver, a1, 6)
    BY <1>a1, <1>0 DEF Then16, FitsLfh
  <2>. QED  BY <2>1, Len16
<1>2. Then16(a1, 6, l.gp_flag, a2, 8) /\ a2 \in Seq(Cells) /\ Len(a2) = 8
  <2>1. Then16(a1, 6, l.gp_flag, a2, 8)
    BY <1>a2, <1>1 DEF Then16, FitsLfh
  <2>. QED  BY <2>1, Len16
<1>3. Then16(a2, 8, l.method, a3, 10) /\ a3 \in Seq(Cells) /\ Len(a3) = 10
  <2>1. Then16(a2, 8, l.method, a3, 10)
    BY <1>a3, <1>2 DEF Then16, FitsLfh
  <2>. QED  BY <2>1, Len16
<1>4. Then16(a3, 10, l.mod_time, a4, 12) /\ a4 \in Seq(Cells) /\ Len(a4) = 12
  <2>1. Then16(a3, 10, l.mod_time, a4, 12)
    BY <1>a4, <1>3 DEF Then16, FitsLfh
  <2>. QED  BY <2>1, Len16
<1>5. Then16(a4, 12, l.mod_date, a5, 14) /\ a5 \in Seq(Cells) /\ Len(a5) = 14
  <2>1. Then16(a4, 12, l.mod_date, a5, 14)
    BY <1>a5, <1>4 DEF Then16, FitsLfh
  <2>. QED  BY <2>1, Len16
<1>6. Then32(a5, 14, l.crc32, a6, 18) /\ a6 \in Seq(Cells) /\ Len(a6) = 18
  <2>1. Then32(a5, 14, l.crc32, a6, 18)
    BY <1>a6, <1>5 DEF Then32, FitsLfh
  <2>. QED  BY <2>1, Len32
<1>7. Then32(a6, 18, l.comp_size, a7, 22) /\ a7 \in Seq(Cells) /\ Len(a7) = 22
  <2>1. Then32(a6, 18, l.comp_size, a7, 22)
    BY <1>a7, <1>6 DEF Then32, FitsLfh
  <2>. QED  BY <2>1, Len32
<1>8. Then32(a7, 22, l.uncomp_size, a8, 26) /\ a8 \in Seq(Cells) /\ Len(a8) = 26
  <2>1. Then32(a7, 22, l.uncomp_size, a8, 26)
    BY <1>a8, <1>7 DEF Then32, FitsLfh
  <2>. QED  BY <2>1, Len32
<1>9. Then16(a8, 26, l.name_len, a9, 28) /\ a9 \in Seq(Cells) /\ Len(a9) = 28
  <2>1. Then16(a8, 26, l.name_len, a9, 28)
    BY <1>a9, <1>8 DEF Then16, FitsLfh
  <2>. QED  BY <2>1, Len16
<1>10. Then16(a9, 28, l.extra_len, a10, 30) /\ a10 \in Seq(Cells) /\ Len(a10) = 30
  <2>1. Then16(a9, 28, l.extra_len, a10, 30)
    BY <1>a10, <1>9 DEF Then16, FitsLfh
  <2>. QED  BY <2>1, Len16
<1>11. a10 \o name \in Seq(Cells) /\ Len(a10 \o name) = 30 + Len(name)
  <2>1. a10 \o name \in Seq(Cells) /\ Len(a10 \o name) = Len(a10) + Len(name)
    BY <1>10, LenName, Zenon
  <2>. QED  BY <1>10, <2>1
<1>12. ASSUME NEW s, NEW at, IsSeq(s), at \in Nat, At(s, at, a10 \o name)
      PROVE  LfhAt(s, at, l, name)
  <2>0. /\ At(s, at, a10) /\ At(s, at + 30, name) /\ Cut(s, at + 30, Len(name)) = name
        /\ at + 30 + Len(name) <= Len(s)
    BY <1>10, <1>12, PeelName
  <2>1. At(s, at, a9) /\ read16le(s, at + 28) = l.extra_len
    BY <1>10, <1>12, <2>0, Peel16
  <2>2. At(s, at, a8) /\ read16le(s, at + 26) = l.name_len
    BY <1>9, <1>12, <2>1, Peel16
  <2>3. At(s, at, a7) /\ read32le(s, at + 22) = l.uncomp_size
    BY <1>8, <1>12, <2>2, Peel32
  <2>4. At(s, at, a6) /\ read32le(s, at + 18) = l.comp_size
    BY <1>7, <1>12, <2>3, Peel32
  <2>5. At(s, at, a5) /\ read32le(s, at + 14) = l.crc32
    BY <1>6, <1>12, <2>4, Peel32
  <2>6. At(s, at, a4) /\ read16le(s, at + 12) = l.mod_date
    BY <1>5, <1>12, <2>5, Peel16
  <2>7. At(s, at, a3) /\ read16le(s, at + 10) = l.mod_time
    BY <1>4, <1>12, <2>6, Peel16
  <2>8. At(s, at, a2) /\ read16le(s, at + 8) = l.method
    BY <1>3, <1>12, <2>7, Peel16
  <2>9. At(s, at, a1) /\ read16le(s, at + 6) = l.gp_flag
    BY <1>2, <1>12, <2>8, Peel16
  <2>10. At(s, at, a0) /\ read16le(s, at + 4) = l.extract_ver
    BY <1>1, <1>12, <2>9, Peel16
  <2>11. read32le(s, at) = LFH_SIGNATURE
    BY <1>0, <1>12, <2>10, Zenon
  <2>. QED  BY <2>0, <2>1, <2>2, <2>3, <2>4, <2>5, <2>6, <2>7, <2>8, <2>9, <2>10, <2>11, Zenon DEF LfhAt
<1>. QED  BY <1>h, <1>11, <1>12, Zenon

\* Those of a central header do.
FitsCfh(l) ==
    /\ Is16(l.made_by_ver) /\ Is16(l.extract_ver) /\ Is16(l.gp_flag) /\ Is16(l.method)
    /\ Is16(l.mod_time) /\ Is16(l.mod_date) /\ Is16(l.name_len) /\ Is16(l.extra_len)
    /\ Is16(l.comment_len) /\ Is16(l.disk_nbr_start) /\ Is16(l.int_attrs) /\ Is32(l.crc32)
    /\ Is32(l.comp_size) /\ Is32(l.uncomp_size) /\ Is32(l.ext_attrs) /\ Is32(l.lfh_offset)

\* What reading finds where a header was written.
CfhAt(s, at, l, name) ==
    /\ read32le(s, at) = CFH_SIGNATURE /\ At(s, at + 46, name)
    /\ Cut(s, at + 46, Len(name)) = name /\ at + 46 + Len(name) <= Len(s)
    /\ read16le(s, at + 4) = l.made_by_ver /\ read16le(s, at + 6) = l.extract_ver
    /\ read16le(s, at + 8) = l.gp_flag /\ read16le(s, at + 10) = l.method
    /\ read16le(s, at + 12) = l.mod_time /\ read16le(s, at + 14) = l.mod_date
    /\ read32le(s, at + 16) = l.crc32 /\ read32le(s, at + 20) = l.comp_size
    /\ read32le(s, at + 24) = l.uncomp_size /\ read16le(s, at + 28) = l.name_len
    /\ read16le(s, at + 30) = l.extra_len /\ read16le(s, at + 32) = l.comment_len
    /\ read16le(s, at + 34) = l.disk_nbr_start /\ read16le(s, at + 36) = l.int_attrs
    /\ read32le(s, at + 38) = l.ext_attrs /\ read32le(s, at + 42) = l.lfh_offset

LEMMA CfhWritten ==
    ASSUME NEW l, FitsCfh(l), NEW name, name \in Seq(Cells)
    PROVE  /\ write_cfh(l, name) \in Seq(Cells) /\ Len(write_cfh(l, name)) = 46 + Len(name)
           /\ \A s, at : IsSeq(s) /\ at \in Nat /\ At(s, at, write_cfh(l, name)) => CfhAt(s, at, l, name)
<1>w. \E a0, a1, a2, a3, a4, a5, a6, a7, a8, a9, a10, a11, a12, a13, a14, a15, a16 :
      /\ a0 = write32le(CFH_SIGNATURE) /\ write_cfh(l, name) = a16 \o name
      /\ a1 = a0 \o write16le(l.made_by_ver) /\ a2 = a1 \o write16le(l.extract_ver)
      /\ a3 = a2 \o write16le(l.gp_flag) /\ a4 = a3 \o write16le(l.method)
      /\ a5 = a4 \o write16le(l.mod_time) /\ a6 = a5 \o write16le(l.mod_date)
      /\ a7 = a6 \o write32le(l.crc32) /\ a8 = a7 \o write32le(l.comp_size)
      /\ a9 = a8 \o write32le(l.uncomp_size) /\ a10 = a9 \o write16le(l.name_len)
      /\ a11 = a10 \o write16le(l.extra_len) /\ a12 = a11 \o write16le(l.comment_len)
      /\ a13 = a12 \o write16le(l.disk_nbr_start) /\ a14 = a13 \o write16le(l.int_attrs)
      /\ a15 = a14 \o write32le(l.ext_attrs) /\ a16 = a15 \o write32le(l.lfh_offset)
  <2> DEFINE d0 == write32le(CFH_SIGNATURE)
             d1 == d0 \o write16le(l.made_by_ver)
             d2 == d1 \o write16le(l.extract_ver)
             d3 == d2 \o write16le(l.gp_flag)
             d4 == d3 \o write16le(l.method)
             d5 == d4 \o write16le(l.mod_time)
             d6 == d5 \o write16le(l.mod_date)
             d7 == d6 \o write32le(l.crc32)
             d8 == d7 \o write32le(l.comp_size)
             d9 == d8 \o write32le(l.uncomp_size)
             d10 == d9 \o write16le(l.name_len)
             d11 == d10 \o write16le(l.extra_len)
             d12 == d11 \o write16le(l.comment_len)
             d13 == d12 \o write16le(l.disk_nbr_start)
             d14 == d13 \o write16le(l.int_attrs)
             d15 == d14 \o write32le(l.ext_attrs)
             d16 == d15 \o write32le(l.lfh_offset)
  <2>1. write_cfh(l, name) = d16 \o name
    BY DEF write_cfh
  <2> WITNESS d0, d1, d2, d3, d4, d5, d6, d7, d8, d9, d10, d11, d12, d13, d14, d15, d16
  <2>. QED  BY <2>1
<1>p. PICK a0, a1, a2, a3, a4, a5, a6, a7, a8, a9, a10, a11, a12, a13, a14, a15, a16 :
      /\ a0 = write32le(CFH_SIGNATURE) /\ write_cfh(l, name) = a16 \o name
      /\ a1 = a0 \o write16le(l.made_by_ver) /\ a2 = a1 \o write16le(l.extract_ver)
      /\ a3 = a2 \o write16le(l.gp_flag) /\ a4 = a3 \o write16le(l.method)
      /\ a5 = a4 \o write16le(l.mod_time) /\ a6 = a5 \o write16le(l.mod_date)
      /\ a7 = a6 \o write32le(l.crc32) /\ a8 = a7 \o write32le(l.comp_size)
      /\ a9 = a8 \o write32le(l.uncomp_size) /\ a10 = a9 \o write16le(l.name_len)
      /\ a11 = a10 \o write16le(l.extra_len) /\ a12 = a11 \o write16le(l.comment_len)
      /\ a13 = a12 \o write16le(l.disk_nbr_start) /\ a14 = a13 \o write16le(l.int_attrs)
      /\ a15 = a14 \o write32le(l.ext_attrs) /\ a16 = a15 \o write32le(l.lfh_offset)
  BY <1>w, Zenon
<1>h. write_cfh(l, name) = a16 \o name
  BY <1>p, Zenon
<1>a. a0 = write32le(CFH_SIGNATURE)
  BY <1>p, Zenon
<1>a1. a1 = a0 \o write16le(l.made_by_ver)
  BY <1>p, Zenon
<1>a2. a2 = a1 \o write16le(l.extract_ver)
  BY <1>p, Zenon
<1>a3. a3 = a2 \o write16le(l.gp_flag)
  BY <1>p, Zenon
<1>a4. a4 = a3 \o write16le(l.method)
  BY <1>p, Zenon
<1>a5. a5 = a4 \o write16le(l.mod_time)
  BY <1>p, Zenon
<1>a6. a6 = a5 \o write16le(l.mod_date)
  BY <1>p, Zenon
<1>a7. a7 = a6 \o write32le(l.crc32)
  BY <1>p, Zenon
<1>a8. a8 = a7 \o write32le(l.comp_size)
  BY <1>p, Zenon
<1>a9. a9 = a8 \o write32le(l.uncomp_size)
  BY <1>p, Zenon
<1>a10. a10 = a9 \o write16le(l.name_len)
  BY <1>p, Zenon
<1>a11. a11 = a10 \o write16le(l.extra_len)
  BY <1>p, Zenon
<1>a12. a12 = a11 \o write16le(l.comment_len)
  BY <1>p, Zenon
<1>a13. a13 = a12 \o write16le(l.disk_nbr_start)
  BY <1>p, Zenon
<1>a14. a14 = a13 \o write16le(l.int_attrs)
  BY <1>p, Zenon
<1>a15. a15 = a14 \o write32le(l.ext_attrs)
  BY <1>p, Zenon
<1>a16. a16 = a15 \o write32le(l.lfh_offset)
  BY <1>p, Zenon
<1>0. /\ a0 \in Seq(Cells) /\ Len(a0) = 4
      /\ \A s, at : at \in Nat /\ IsSeq(s) /\ At(s, at, a0) => read32le(s, at) = CFH_SIGNATURE
  <2>1. Is32(CFH_SIGNATURE)
    BY ZipAssumption DEF Is32
  <2>. QED  BY <1>a, <2>1, Write32, Zenon
<1>1. Then16(a0, 4, l.made_by_ver, a1, 6) /\ a1 \in Seq(Cells) /\ Len(a1) = 6
  <2>1. Then16(a0, 4, l.made_by_ver, a1, 6)
    BY <1>a1, <1>0 DEF Then16, FitsCfh
  <2>. QED  BY <2>1, Len16
<1>2. Then16(a1, 6, l.extract_ver, a2, 8) /\ a2 \in Seq(Cells) /\ Len(a2) = 8
  <2>1. Then16(a1, 6, l.extract_ver, a2, 8)
    BY <1>a2, <1>1 DEF Then16, FitsCfh
  <2>. QED  BY <2>1, Len16
<1>3. Then16(a2, 8, l.gp_flag, a3, 10) /\ a3 \in Seq(Cells) /\ Len(a3) = 10
  <2>1. Then16(a2, 8, l.gp_flag, a3, 10)
    BY <1>a3, <1>2 DEF Then16, FitsCfh
  <2>. QED  BY <2>1, Len16
<1>4. Then16(a3, 10, l.method, a4, 12) /\ a4 \in Seq(Cells) /\ Len(a4) = 12
  <2>1. Then16(a3, 10, l.method, a4, 12)
    BY <1>a4, <1>3 DEF Then16, FitsCfh
  <2>. QED  BY <2>1, Len16
<1>5. Then16(a4, 12, l.mod_time, a5, 14) /\ a5 \in Seq(Cells) /\ Len(a5) = 14
  <2>1. Then16(a4, 12, l.mod_time, a5, 14)
    BY <1>a5, <1>4 DEF Then16, FitsCfh
  <2>. QED  BY <2>1, Len16
<1>6. Then16(a5, 14, l.mod_date, a6, 16) /\ a6 \in Seq(Cells) /\ Len(a6) = 16
  <2>1. Then16(a5, 14, l.mod_date, a6, 16)
    BY <1>a6, <1>5 DEF Then16, FitsCfh
  <2>. QED  BY <2>1, Len16
<1>7. Then32(a6, 16, l.crc32, a7, 20) /\ a7 \in Seq(Cells) /\ Len(a7) = 20
  <2>1. Then32(a6, 16, l.crc32, a7, 20)
    BY <1>a7, <1>6 DEF Then32, FitsCfh
  <2>. QED  BY <2>1, Len32
<1>8. Then32(a7, 20, l.comp_size, a8, 24) /\ a8 \in Seq(Cells) /\ Len(a8) = 24
  <2>1. Then32(a7, 20, l.comp_size, a8, 24)
    BY <1>a8, <1>7 DEF Then32, FitsCfh
  <2>. QED  BY <2>1, Len32
<1>9. Then32(a8, 24, l.uncomp_size, a9, 28) /\ a9 \in Seq(Cells) /\ Len(a9) = 28
  <2>1. Then32(a8, 24, l.uncomp_size, a9, 28)
    BY <1>a9, <1>8 DEF Then32, FitsCfh
  <2>. QED  BY <2>1, Len32
<1>10. Then16(a9, 28, l.name_len, a10, 30) /\ a10 \in Seq(Cells) /\ Len(a10) = 30
  <2>1. Then16(a9, 28, l.name_len, a10, 30)
    BY <1>a10, <1>9 DEF Then16, FitsCfh
  <2>. QED  BY <2>1, Len16
<1>11. Then16(a10, 30, l.extra_len, a11, 32) /\ a11 \in Seq(Cells) /\ Len(a11) = 32
  <2>1. Then16(a10, 30, l.extra_len, a11, 32)
    BY <1>a11, <1>10 DEF Then16, FitsCfh
  <2>. QED  BY <2>1, Len16
<1>12. Then16(a11, 32, l.comment_len, a12, 34) /\ a12 \in Seq(Cells) /\ Len(a12) = 34
  <2>1. Then16(a11, 32, l.comment_len, a12, 34)
    BY <1>a12, <1>11 DEF Then16, FitsCfh
  <2>. QED  BY <2>1, Len16
<1>13. Then16(a12, 34, l.disk_nbr_start, a13, 36) /\ a13 \in Seq(Cells) /\ Len(a13) = 36
  <2>1. Then16(a12, 34, l.disk_nbr_start, a13, 36)
    BY <1>a13, <1>12 DEF Then16, FitsCfh
  <2>. QED  BY <2>1, Len16
<1>14. Then16(a13, 36, l.int_attrs, a14, 38) /\ a14 \in Seq(Cells) /\ Len(a14) = 38
  <2>1. Then16(a13, 36, l.int_attrs, a14, 38)
    BY <1>a14, <1>13 DEF Then16, FitsCfh
  <2>. QED  BY <2>1, Len16
<1>15. Then32(a14, 38, l.ext_attrs, a15, 42) /\ a15 \in Seq(Cells) /\ Len(a15) = 42
  <2>1. Then32(a14, 38, l.ext_attrs, a15, 42)
    BY <1>a15, <1>14 DEF Then32, FitsCfh
  <2>. QED  BY <2>1, Len32
<1>16. Then32(a15, 42, l.lfh_offset, a16, 46) /\ a16 \in Seq(Cells) /\ Len(a16) = 46
  <2>1. Then32(a15, 42, l.lfh_offset, a16, 46)
    BY <1>a16, <1>15 DEF Then32, FitsCfh
  <2>. QED  BY <2>1, Len32
<1>17. a16 \o name \in Seq(Cells) /\ Len(a16 \o name) = 46 + Len(name)
  <2>1. a16 \o name \in Seq(Cells) /\ Len(a16 \o name) = Len(a16) + Len(name)
    BY <1>16, LenName, Zenon
  <2>. QED  BY <1>16, <2>1
<1>18. ASSUME NEW s, NEW at, IsSeq(s), at \in Nat, At(s, at, a16 \o name)
      PROVE  CfhAt(s, at, l, name)
  <2>0. /\ At(s, at, a16) /\ At(s, at + 46, name) /\ Cut(s, at + 46, Len(name)) = name
        /\ at + 46 + Len(name) <= Len(s)
    BY <1>16, <1>18, PeelName
  <2>1. At(s, at, a15) /\ read32le(s, at + 42) = l.lfh_offset
    BY <1>16, <1>18, <2>0, Peel32
  <2>2. At(s, at, a14) /\ read32le(s, at + 38) = l.ext_attrs
    BY <1>15, <1>18, <2>1, Peel32
  <2>3. At(s, at, a13) /\ read16le(s, at + 36) = l.int_attrs
    BY <1>14, <1>18, <2>2, Peel16
  <2>4. At(s, at, a12) /\ read16le(s, at + 34) = l.disk_nbr_start
    BY <1>13, <1>18, <2>3, Peel16
  <2>5. At(s, at, a11) /\ read16le(s, at + 32) = l.comment_len
    BY <1>12, <1>18, <2>4, Peel16
  <2>6. At(s, at, a10) /\ read16le(s, at + 30) = l.extra_len
    BY <1>11, <1>18, <2>5, Peel16
  <2>7. At(s, at, a9) /\ read16le(s, at + 28) = l.name_len
    BY <1>10, <1>18, <2>6, Peel16
  <2>8. At(s, at, a8) /\ read32le(s, at + 24) = l.uncomp_size
    BY <1>9, <1>18, <2>7, Peel32
  <2>9. At(s, at, a7) /\ read32le(s, at + 20) = l.comp_size
    BY <1>8, <1>18, <2>8, Peel32
  <2>10. At(s, at, a6) /\ read32le(s, at + 16) = l.crc32
    BY <1>7, <1>18, <2>9, Peel32
  <2>11. At(s, at, a5) /\ read16le(s, at + 14) = l.mod_date
    BY <1>6, <1>18, <2>10, Peel16
  <2>12. At(s, at, a4) /\ read16le(s, at + 12) = l.mod_time
    BY <1>5, <1>18, <2>11, Peel16
  <2>13. At(s, at, a3) /\ read16le(s, at + 10) = l.method
    BY <1>4, <1>18, <2>12, Peel16
  <2>14. At(s, at, a2) /\ read16le(s, at + 8) = l.gp_flag
    BY <1>3, <1>18, <2>13, Peel16
  <2>15. At(s, at, a1) /\ read16le(s, at + 6) = l.extract_ver
    BY <1>2, <1>18, <2>14, Peel16
  <2>16. At(s, at, a0) /\ read16le(s, at + 4) = l.made_by_ver
    BY <1>1, <1>18, <2>15, Peel16
  <2>17. read32le(s, at) = CFH_SIGNATURE
    BY <1>0, <1>18, <2>16, Zenon
  <2>. QED  BY <2>0, <2>1, <2>2, <2>3, <2>4, <2>5, <2>6, <2>7, <2>8, <2>9, <2>10, <2>11, <2>12, <2>13, <2>14, <2>15, <2>16, <2>17, Zenon DEF CfhAt
<1>. QED  BY <1>h, <1>17, <1>18, Zenon

\* And those of the end record.
FitsEnd(e) ==
    /\ Is16(e.disk_nbr) /\ Is16(e.cd_start_disk) /\ Is16(e.disk_cd_entries) /\ Is16(e.cd_entries)
    /\ Is16(e.comment_len) /\ Is32(e.cd_size) /\ Is32(e.cd_offset)

\* What reading finds where a header was written.
EndAt(s, at, e, name) ==
    /\ read32le(s, at) = EOCDR_SIGNATURE /\ At(s, at + 22, name)
    /\ Cut(s, at + 22, Len(name)) = name /\ at + 22 + Len(name) <= Len(s)
    /\ read16le(s, at + 4) = e.disk_nbr /\ read16le(s, at + 6) = e.cd_start_disk
    /\ read16le(s, at + 8) = e.disk_cd_entries /\ read16le(s, at + 10) = e.cd_entries
    /\ read32le(s, at + 12) = e.cd_size /\ read32le(s, at + 16) = e.cd_offset
    /\ read16le(s, at + 20) = e.comment_len

LEMMA EndWritten ==
    ASSUME NEW e, FitsEnd(e), NEW name, name \in Seq(Cells)
    PROVE  /\ write_eocdr(e, name) \in Seq(Cells) /\ Len(write_eocdr(e, name)) = 22 + Len(name)
           /\ \A s, at : IsSeq(s) /\ at \in Nat /\ At(s, at, write_eocdr(e, name)) => EndAt(s, at, e, name)
<1>w. \E a0, a1, a2, a3, a4, a5, a6, a7 :
      /\ a0 = write32le(EOCDR_SIGNATURE) /\ write_eocdr(e, name) = a7 \o name
      /\ a1 = a0 \o write16le(e.disk_nbr) /\ a2 = a1 \o write16le(e.cd_start_disk)
      /\ a3 = a2 \o write16le(e.disk_cd_entries) /\ a4 = a3 \o write16le(e.cd_entries)
      /\ a5 = a4 \o write32le(e.cd_size) /\ a6 = a5 \o write32le(e.cd_offset)
      /\ a7 = a6 \o write16le(e.comment_len)
  <2> DEFINE d0 == write32le(EOCDR_SIGNATURE)
             d1 == d0 \o write16le(e.disk_nbr)
             d2 == d1 \o write16le(e.cd_start_disk)
             d3 == d2 \o write16le(e.disk_cd_entries)
             d4 == d3 \o write16le(e.cd_entries)
             d5 == d4 \o write32le(e.cd_size)
             d6 == d5 \o write32le(e.cd_offset)
             d7 == d6 \o write16le(e.comment_len)
  <2>1. write_eocdr(e, name) = d7 \o name
    BY DEF write_eocdr
  <2> WITNESS d0, d1, d2, d3, d4, d5, d6, d7
  <2>. QED  BY <2>1
<1>p. PICK a0, a1, a2, a3, a4, a5, a6, a7 :
      /\ a0 = write32le(EOCDR_SIGNATURE) /\ write_eocdr(e, name) = a7 \o name
      /\ a1 = a0 \o write16le(e.disk_nbr) /\ a2 = a1 \o write16le(e.cd_start_disk)
      /\ a3 = a2 \o write16le(e.disk_cd_entries) /\ a4 = a3 \o write16le(e.cd_entries)
      /\ a5 = a4 \o write32le(e.cd_size) /\ a6 = a5 \o write32le(e.cd_offset)
      /\ a7 = a6 \o write16le(e.comment_len)
  BY <1>w, Zenon
<1>h. write_eocdr(e, name) = a7 \o name
  BY <1>p, Zenon
<1>a. a0 = write32le(EOCDR_SIGNATURE)
  BY <1>p, Zenon
<1>a1. a1 = a0 \o write16le(e.disk_nbr)
  BY <1>p, Zenon
<1>a2. a2 = a1 \o write16le(e.cd_start_disk)
  BY <1>p, Zenon
<1>a3. a3 = a2 \o write16le(e.disk_cd_entries)
  BY <1>p, Zenon
<1>a4. a4 = a3 \o write16le(e.cd_entries)
  BY <1>p, Zenon
<1>a5. a5 = a4 \o write32le(e.cd_size)
  BY <1>p, Zenon
<1>a6. a6 = a5 \o write32le(e.cd_offset)
  BY <1>p, Zenon
<1>a7. a7 = a6 \o write16le(e.comment_len)
  BY <1>p, Zenon
<1>0. /\ a0 \in Seq(Cells) /\ Len(a0) = 4
      /\ \A s, at : at \in Nat /\ IsSeq(s) /\ At(s, at, a0) => read32le(s, at) = EOCDR_SIGNATURE
  <2>1. Is32(EOCDR_SIGNATURE)
    BY ZipAssumption DEF Is32
  <2>. QED  BY <1>a, <2>1, Write32, Zenon
<1>1. Then16(a0, 4, e.disk_nbr, a1, 6) /\ a1 \in Seq(Cells) /\ Len(a1) = 6
  <2>1. Then16(a0, 4, e.disk_nbr, a1, 6)
    BY <1>a1, <1>0 DEF Then16, FitsEnd
  <2>. QED  BY <2>1, Len16
<1>2. Then16(a1, 6, e.cd_start_disk, a2, 8) /\ a2 \in Seq(Cells) /\ Len(a2) = 8
  <2>1. Then16(a1, 6, e.cd_start_disk, a2, 8)
    BY <1>a2, <1>1 DEF Then16, FitsEnd
  <2>. QED  BY <2>1, Len16
<1>3. Then16(a2, 8, e.disk_cd_entries, a3, 10) /\ a3 \in Seq(Cells) /\ Len(a3) = 10
  <2>1. Then16(a2, 8, e.disk_cd_entries, a3, 10)
    BY <1>a3, <1>2 DEF Then16, FitsEnd
  <2>. QED  BY <2>1, Len16
<1>4. Then16(a3, 10, e.cd_entries, a4, 12) /\ a4 \in Seq(Cells) /\ Len(a4) = 12
  <2>1. Then16(a3, 10, e.cd_entries, a4, 12)
    BY <1>a4, <1>3 DEF Then16, FitsEnd
  <2>. QED  BY <2>1, Len16
<1>5. Then32(a4, 12, e.cd_size, a5, 16) /\ a5 \in Seq(Cells) /\ Len(a5) = 16
  <2>1. Then32(a4, 12, e.cd_size, a5, 16)
    BY <1>a5, <1>4 DEF Then32, FitsEnd
  <2>. QED  BY <2>1, Len32
<1>6. Then32(a5, 16, e.cd_offset, a6, 20) /\ a6 \in Seq(Cells) /\ Len(a6) = 20
  <2>1. Then32(a5, 16, e.cd_offset, a6, 20)
    BY <1>a6, <1>5 DEF Then32, FitsEnd
  <2>. QED  BY <2>1, Len32
<1>7. Then16(a6, 20, e.comment_len, a7, 22) /\ a7 \in Seq(Cells) /\ Len(a7) = 22
  <2>1. Then16(a6, 20, e.comment_len, a7, 22)
    BY <1>a7, <1>6 DEF Then16, FitsEnd
  <2>. QED  BY <2>1, Len16
<1>8. a7 \o name \in Seq(Cells) /\ Len(a7 \o name) = 22 + Len(name)
  <2>1. a7 \o name \in Seq(Cells) /\ Len(a7 \o name) = Len(a7) + Len(name)
    BY <1>7, LenName, Zenon
  <2>. QED  BY <1>7, <2>1
<1>9. ASSUME NEW s, NEW at, IsSeq(s), at \in Nat, At(s, at, a7 \o name)
      PROVE  EndAt(s, at, e, name)
  <2>0. /\ At(s, at, a7) /\ At(s, at + 22, name) /\ Cut(s, at + 22, Len(name)) = name
        /\ at + 22 + Len(name) <= Len(s)
    BY <1>7, <1>9, PeelName
  <2>1. At(s, at, a6) /\ read16le(s, at + 20) = e.comment_len
    BY <1>7, <1>9, <2>0, Peel16
  <2>2. At(s, at, a5) /\ read32le(s, at + 16) = e.cd_offset
    BY <1>6, <1>9, <2>1, Peel32
  <2>3. At(s, at, a4) /\ read32le(s, at + 12) = e.cd_size
    BY <1>5, <1>9, <2>2, Peel32
  <2>4. At(s, at, a3) /\ read16le(s, at + 10) = e.cd_entries
    BY <1>4, <1>9, <2>3, Peel16
  <2>5. At(s, at, a2) /\ read16le(s, at + 8) = e.disk_cd_entries
    BY <1>3, <1>9, <2>4, Peel16
  <2>6. At(s, at, a1) /\ read16le(s, at + 6) = e.cd_start_disk
    BY <1>2, <1>9, <2>5, Peel16
  <2>7. At(s, at, a0) /\ read16le(s, at + 4) = e.disk_nbr
    BY <1>1, <1>9, <2>6, Peel16
  <2>8. read32le(s, at) = EOCDR_SIGNATURE
    BY <1>0, <1>9, <2>7, Zenon
  <2>. QED  BY <2>0, <2>1, <2>2, <2>3, <2>4, <2>5, <2>6, <2>7, <2>8, Zenon DEF EndAt
<1>. QED  BY <1>h, <1>8, <1>9, Zenon

--------------------------------------------------------------------------------
(***************************************************************************)
(* Files and offsets.                                                      *)
(***************************************************************************)
NameOf(f) == f.name
DataOf(f) == f.data

LEMMA FilesFacts ==
    ASSUME files \in FileLists
    PROVE  /\ IsSeq(files) /\ Len(files) \in Nat /\ Is16(Len(files))
           /\ \A k \in 1 .. Len(files) :
                 LET f == files[k]
                 IN  /\ f = [name |-> NameOf(f), data |-> DataOf(f)]
                     /\ NameOf(f) \in Seq(Cells) /\ DataOf(f) \in Seq(Cells)
                     /\ ~Contains(NameOf(f), 0) /\ Is32(crc32(DataOf(f)))
<1> DEFINE F == [name : Seq(Byte \ {0}), data : Seq(Byte)]
<1>1. files \in Seq(F) /\ Len(files) <= UINT16_MAX /\ \A k \in DOMAIN files : crc32(files[k].data) \in 0 .. UINT32_MAX
  BY InputAssumption
<1>2. IsSeq(files) /\ Len(files) \in Nat /\ DOMAIN files = 1 .. Len(files) /\ \A k \in 1 .. Len(files) : files[k] \in F
  <2> HIDE DEF F
  <2>1. IsSeq(files)
    BY <1>1, SeqOfAny, Zenon
  <2>. QED  BY <1>1, <2>1, SeqFacts
<1>3. Is16(Len(files))
  BY <1>1, <1>2, WidthFacts DEF Is16
<1>4. ASSUME NEW f \in F
      PROVE  /\ f = [name |-> NameOf(f), data |-> DataOf(f)]
             /\ NameOf(f) \in Seq(Cells) /\ DataOf(f) \in Seq(Cells) /\ ~Contains(NameOf(f), 0)
  <2>1. f = [name |-> NameOf(f), data |-> DataOf(f)] /\ NameOf(f) \in Seq(Byte \ {0}) /\ DataOf(f) \in Seq(Byte)
    BY DEF NameOf, DataOf
  <2>2. NameOf(f) \in Seq(Cells) /\ DataOf(f) \in Seq(Cells)
    <3>1. Byte \ {0} \subseteq Cells /\ Byte \subseteq Cells
      BY CellsFacts
    <3>. QED  BY <2>1, <3>1, SeqMonotonic, Zenon
  <2>3. ~Contains(NameOf(f), 0)
    <3>1. \A k \in 1 .. Len(NameOf(f)) : NameOf(f)[k] \in Byte \ {0}
      BY <2>1
    <3>2. \A k \in 1 .. Len(NameOf(f)) : NameOf(f)[k] # 0
      BY <3>1
    <3>. QED  BY <3>2 DEF Contains
  <2>. QED  BY <2>1, <2>2, <2>3
<1>5. \A k \in 1 .. Len(files) : Is32(crc32(DataOf(files[k])))
  BY <1>1, <1>2 DEF Is32, DataOf
<1>. QED  BY <1>2, <1>3, <1>4, <1>5

LEMMA CommentFacts == ASSUME comment \in Comments PROVE comment \in Seq(Cells) /\ Len(comment) \in Nat /\ IsSeq(comment)
<1>1. Byte \ {0} \subseteq Cells
  BY CellsFacts
<1>2. comment \in Seq(Byte \ {0})
  BY InputAssumption
<1>3. comment \in Seq(Cells)
  BY <1>1, <1>2, SeqMonotonic, Zenon
<1>. QED  BY <1>3, CellsSeq

\* Offsets, each behind the one before.
Rising(L) == L \in Seq(Nat) /\ Len(L) >= 1 /\ \A j, k \in 1 .. Len(L) : j < k => L[j] < L[k]

LEMMA RisingFacts ==
    ASSUME NEW L, Rising(L)
    PROVE  /\ Len(L) \in Nat /\ Len(L) >= 1 /\ \A k \in 1 .. Len(L) : L[k] \in Nat
           /\ \A j, k \in 1 .. Len(L) : j <= k => L[j] <= L[k]
           /\ \A j \in 1 .. Len(L) : L[j] <= L[Len(L)]
<1>1. Len(L) \in Nat /\ Len(L) >= 1 /\ \A k \in 1 .. Len(L) : L[k] \in Nat
  BY DEF Rising
<1>2. \A j, k \in 1 .. Len(L) : j <= k => L[j] <= L[k]
  BY <1>1 DEF Rising
<1>. QED  BY <1>1, <1>2

LEMMA RisingMore ==
    ASSUME NEW L, Rising(L), NEW v \in Nat, v > L[Len(L)]
    PROVE  /\ Rising(Append(L, v)) /\ Len(Append(L, v)) = Len(L) + 1
           /\ \A k \in 1 .. Len(L) : Append(L, v)[k] = L[k]
           /\ Append(L, v)[Len(L) + 1] = v
<1> DEFINE M == Append(L, v)
<1>1. /\ M \in Seq(Nat) /\ Len(M) = Len(L) + 1 /\ M[Len(L) + 1] = v
      /\ \A k \in 1 .. Len(L) : M[k] = L[k]
  BY AppendProperties DEF Rising
<1> HIDE DEF M
<1>2. ASSUME NEW j \in 1 .. Len(M), NEW k \in 1 .. Len(M), j < k PROVE M[j] < M[k]
  <2>1. j \in 1 .. Len(L)
    BY <1>1, <1>2, RisingFacts
  <2>2. CASE k \in 1 .. Len(L)
    BY <1>1, <1>2, <2>1, <2>2 DEF Rising
  <2>3. CASE k = Len(L) + 1
    <3>1. L[j] \in Nat /\ L[Len(L)] \in Nat /\ L[j] <= L[Len(L)]
      BY <2>1, RisingFacts
    <3>. QED  BY <1>1, <2>1, <2>3, <3>1
  <2>. QED  BY <1>1, <2>2, <2>3, RisingFacts
<1>3. Rising(M)
  BY <1>1, <1>2, RisingFacts DEF Rising
<1>. QED  BY <1>1, <1>3 DEF M

\* One offset alone.
LEMMA RisingOne == ASSUME NEW v \in Nat PROVE Rising(<<v>>) /\ Len(<<v>>) = 1 /\ <<v>>[1] = v
  BY DEF Rising

--------------------------------------------------------------------------------
(***************************************************************************)
(* The room.  zip_max_size adds up the files in the order in which its fold*)
(* takes them, zip_write uses the room in the order of the archive: first  *)
(* that the order of a sum does not matter.                                *)
(***************************************************************************)
\* The sums M[k] of b and the first k of the weights w that s holds.
Sums(M, N, w, b, s) ==
    /\ M \in [0 .. N -> Nat] /\ M[0] = b
    /\ \A k \in 1 .. N : M[k] = M[k - 1] + IF k \in s THEN w[k] ELSE 0

LEMMA SumsExist ==
    ASSUME NEW N \in Nat, NEW w \in [1 .. N -> Nat], NEW b \in Nat, NEW s
    PROVE  \E M : Sums(M, N, w, b, s)
<1> DEFINE Bad == {n \in 0 .. N : ~\E M : Sums(M, n, w, b, s)}
<1> SUFFICES ASSUME ~\E M : Sums(M, N, w, b, s) PROVE FALSE
  OBVIOUS
<1>1. PICK n \in Bad : \A m \in Bad : n <= m
  <2>1. Bad \subseteq Nat /\ N \in Bad
    OBVIOUS
  <2> HIDE DEF Bad
  <2>. QED  BY <2>1, LeastElement
<1>2. n \in 0 .. N /\ ~\E M : Sums(M, n, w, b, s)
  OBVIOUS
<1>3. n # 0
  <2> DEFINE M == [k \in 0 .. 0 |-> b]
  <2>1. M \in [0 .. 0 -> Nat] /\ M[0] = b
    OBVIOUS
  <2> HIDE DEF M
  <2>2. Sums(M, 0, w, b, s)
    BY <2>1 DEF Sums
  <2>. QED  BY <1>2, <2>2
<1>4. PICK M : Sums(M, n - 1, w, b, s)
  <2>1. n - 1 \in 0 .. N /\ ~(n <= n - 1)
    BY <1>2, <1>3
  <2>. QED  BY <1>1, <2>1
<1> DEFINE v == M[n - 1] + IF n \in s THEN w[n] ELSE 0
           K == [k \in 0 .. n |-> IF k = n THEN v ELSE M[k]]
<1>5. M \in [0 .. n - 1 -> Nat] /\ M[0] = b /\ n - 1 \in 0 .. n - 1 /\ w[n] \in Nat /\ v \in Nat
  BY <1>2, <1>3, <1>4 DEF Sums
<1>6. Sums(K, n, w, b, s)
  <2>1. K \in [0 .. n -> Nat] /\ K[0] = b
    <3>1. \A k \in 0 .. n : k # n => k \in 0 .. n - 1
      BY <1>2
    <3> HIDE DEF v
    <3>. QED  BY <1>2, <1>3, <1>5, <3>1
  <2>2. ASSUME NEW k \in 1 .. n PROVE K[k] = K[k - 1] + IF k \in s THEN w[k] ELSE 0
    <3>1. k - 1 \in 0 .. n - 1 /\ k - 1 # n /\ k - 1 \in 0 .. n /\ k \in 0 .. n
      BY <1>2
    <3>2. CASE k = n
      BY <3>1, <3>2
    <3>3. CASE k # n
      <4>1. k \in 1 .. n - 1
        BY <1>2, <3>3
      <4>. QED  BY <1>4, <3>1, <3>3, <4>1 DEF Sums
    <3>. QED  BY <3>2, <3>3
  <2> HIDE DEF K
  <2>. QED  BY <2>1, <2>2 DEF Sums
<1>. QED  BY <1>2, <1>6

\* r is s without x.
IsLess(r, s, x) == x \in s /\ r = s \ {x}

\* Two sums of the same weights, and of weights of which one is left out.
LEMMA SumsDiffer ==
    ASSUME NEW N \in Nat, NEW w \in [1 .. N -> Nat], NEW b \in Nat, NEW s, NEW r, NEW x \in 1 .. N,
           IsLess(r, s, x), NEW K, Sums(K, N, w, b, s), NEW M, Sums(M, N, w, b, r)
    PROVE  K[N] = M[N] + w[x]
<1> DEFINE Bad == {m \in 0 .. N : K[m] # M[m] + IF x <= m THEN w[x] ELSE 0}
<1> SUFFICES ASSUME Bad # {} PROVE FALSE
  <2>1. N \in 0 .. N /\ x <= N
    OBVIOUS
  <2>. QED  BY <2>1
<1>1. PICK m \in Bad : \A j \in Bad : m <= j
  <2>1. Bad \subseteq Nat
    OBVIOUS
  <2> HIDE DEF Bad
  <2>. QED  BY <2>1, LeastElement
<1>2. /\ m \in 0 .. N /\ K[m] # M[m] + IF x <= m THEN w[x] ELSE 0
      /\ K \in [0 .. N -> Nat] /\ M \in [0 .. N -> Nat] /\ K[0] = b /\ M[0] = b
  BY DEF Sums
<1>3. m # 0
  BY <1>2
<1>4. m \in 1 .. N /\ m - 1 \in 0 .. N /\ ~(m <= m - 1)
  BY <1>2, <1>3
<1>5. K[m - 1] = M[m - 1] + IF x <= m - 1 THEN w[x] ELSE 0
  BY <1>1, <1>4
<1>6. /\ K[m] = K[m - 1] + IF m \in s THEN w[m] ELSE 0
      /\ M[m] = M[m - 1] + IF m \in r THEN w[m] ELSE 0
  BY <1>4 DEF Sums
<1>7. K[m] \in Nat /\ K[m - 1] \in Nat /\ M[m] \in Nat /\ M[m - 1] \in Nat /\ w[m] \in Nat /\ w[x] \in Nat
  BY <1>2, <1>4
<1> HIDE DEF Bad
<1>8. CASE m = x
  <2>1. ~(x <= m - 1) /\ x <= m /\ m \in s /\ m \notin r
    BY <1>4, <1>8 DEF IsLess
  <2>. QED  BY <1>2, <1>5, <1>6, <1>7, <1>8, <2>1
<1>9. CASE m # x
  <2>1. (x <= m - 1 <=> x <= m) /\ (m \in s <=> m \in r)
    BY <1>4, <1>9 DEF IsLess
  <2>2. PICK e \in Nat : K[m] = K[m - 1] + e /\ M[m] = M[m - 1] + e
    BY <1>6, <1>7, <2>1
  <2>3. CASE x <= m
    <3>1. K[m - 1] = M[m - 1] + w[x]
      BY <1>5, <2>1, <2>3
    <3>2. K[m] = M[m] + w[x]
      BY <1>7, <2>2, <3>1
    <3>. QED  BY <1>2, <2>3, <3>2
  <2>4. CASE ~(x <= m)
    <3>1. K[m - 1] = M[m - 1]
      BY <1>5, <1>7, <2>1, <2>4
    <3>2. K[m] = M[m]
      BY <2>2, <3>1
    <3>. QED  BY <1>2, <1>7, <2>4, <3>2
  <2>. QED  BY <2>3, <2>4
<1>. QED  BY <1>8, <1>9

LEMMA SumsSame ==
    ASSUME NEW N \in Nat, NEW w \in [1 .. N -> Nat], NEW b \in Nat, NEW s,
           NEW K, Sums(K, N, w, b, s), NEW M, Sums(M, N, w, b, s), NEW n \in 0 .. N
    PROVE  K[n] = M[n]
<1> DEFINE Bad == {m \in 0 .. N : K[m] # M[m]}
<1> SUFFICES ASSUME Bad # {} PROVE FALSE
  OBVIOUS
<1>1. PICK m \in Bad : \A j \in Bad : m <= j
  <2>1. Bad \subseteq Nat
    OBVIOUS
  <2> HIDE DEF Bad
  <2>. QED  BY <2>1, LeastElement
<1>2. m \in 0 .. N /\ K[m] # M[m] /\ K[0] = M[0]
  BY DEF Sums
<1>3. m \in 1 .. N /\ m - 1 \in 0 .. N /\ ~(m <= m - 1)
  BY <1>2
<1>4. K[m - 1] = M[m - 1]
  BY <1>1, <1>3
<1>. QED  BY <1>2, <1>3, <1>4 DEF Sums

\* The sum of b and the weights that s holds.
SumOf(N, w, b, s) == (CHOOSE M : Sums(M, N, w, b, s))[N]

LEMMA SumOfFacts ==
    ASSUME NEW N \in Nat, NEW w \in [1 .. N -> Nat], NEW b \in Nat
    PROVE  /\ SumOf(N, w, b, {}) = b
           /\ \A s : SumOf(N, w, b, s) \in Nat
           /\ \A s, r : \A x \in 1 .. N :
                 IsLess(r, s, x) => SumOf(N, w, b, s) = SumOf(N, w, b, r) + w[x]
           /\ \A M, s : Sums(M, N, w, b, s) => SumOf(N, w, b, s) = M[N]
<1> DEFINE S(s) == CHOOSE M : Sums(M, N, w, b, s)
<1>1. ASSUME NEW s PROVE Sums(S(s), N, w, b, s)
  BY SumsExist
<1>2. ASSUME NEW s PROVE SumOf(N, w, b, s) = S(s)[N]
  BY DEF SumOf
<1> HIDE DEF S
<1>3. N \in 0 .. N
  OBVIOUS
<1>4. ASSUME NEW s, NEW M, Sums(M, N, w, b, s) PROVE SumOf(N, w, b, s) = M[N]
  BY <1>1, <1>2, <1>3, <1>4, SumsSame
<1>5. SumOf(N, w, b, {}) = b
  <2> DEFINE M == [k \in 0 .. N |-> b]
  <2>1. M \in [0 .. N -> Nat] /\ M[0] = b /\ M[N] = b /\ \A k \in 1 .. N : M[k] = b /\ M[k - 1] = b
    OBVIOUS
  <2> HIDE DEF M
  <2>2. Sums(M, N, w, b, {})
    BY <2>1 DEF Sums
  <2>. QED  BY <1>4, <2>1, <2>2
<1>6. ASSUME NEW s PROVE SumOf(N, w, b, s) \in Nat
  BY <1>1, <1>2, <1>3 DEF Sums
<1>7. ASSUME NEW s, NEW r, NEW x \in 1 .. N, IsLess(r, s, x)
      PROVE  SumOf(N, w, b, s) = SumOf(N, w, b, r) + w[x]
  <2>. PICK K : K = S(s)
    OBVIOUS
  <2>. PICK M : M = S(r)
    OBVIOUS
  <2>1. Sums(K, N, w, b, s) /\ Sums(M, N, w, b, r)
    BY <1>1
  <2>2. K[N] = M[N] + w[x]
    BY <1>7, <2>1, SumsDiffer
  <2>. QED  BY <1>2, <2>2
<1>. QED  BY <1>4, <1>5, <1>6, <1>7

\* Sums grow.
LEMMA SumsGrow ==
    ASSUME NEW N \in Nat, NEW w \in [1 .. N -> Nat], NEW b \in Nat, NEW s, NEW M, Sums(M, N, w, b, s),
           NEW k \in 0 .. N
    PROVE  M[k] <= M[N]
<1> DEFINE Bad == {m \in k .. N : ~(M[k] <= M[m])}
<1> SUFFICES ASSUME Bad # {} PROVE FALSE
  <2>1. N \in k .. N
    OBVIOUS
  <2>. QED  BY <2>1
<1>1. PICK m \in Bad : \A j \in Bad : m <= j
  <2>1. Bad \subseteq Nat
    OBVIOUS
  <2> HIDE DEF Bad
  <2>. QED  BY <2>1, LeastElement
<1>2. m \in k .. N /\ ~(M[k] <= M[m]) /\ M \in [0 .. N -> Nat]
  BY DEF Sums
<1>3. m \in 1 .. N /\ m - 1 \in k .. N /\ ~(m <= m - 1)
  BY <1>2
<1>4. M[k] <= M[m - 1]
  BY <1>1, <1>3
<1>5. M[m] = M[m - 1] + IF m \in s THEN w[m] ELSE 0
  BY <1>3 DEF Sums
<1>6. M[k] \in Nat /\ M[m] \in Nat /\ M[m - 1] \in Nat /\ w[m] \in Nat
  BY <1>2, <1>3
<1> HIDE DEF Bad
<1>. QED  BY <1>2, <1>4, <1>5, <1>6

\* g adds to b the weights that a set holds, one after the other, in any order.
AddsUp(g, N, w, b) ==
    /\ g[{}] = b
    /\ \A s \in SUBSET (1 .. N) :
          s # {} => \E x \in s : g[s \ {x}] \in Nat => g[s] = g[s \ {x}] + w[x]

\* Whatever adds up weights one after the other, in any order, finds their sum.
LEMMA AnyOrder ==
    ASSUME NEW N \in Nat, NEW w \in [1 .. N -> Nat], NEW b \in Nat, NEW g, AddsUp(g, N, w, b), NEW t \in SUBSET (1 .. N)
    PROVE  g[t] = SumOf(N, w, b, t)
<1> DEFINE Wrong(s) == g[s] # SumOf(N, w, b, s)
           Bad == {n \in Nat : \E s \in SUBSET (1 .. N) : Cardinality(s) = n /\ Wrong(s)}
<1> SUFFICES ASSUME Wrong(t) PROVE FALSE
  OBVIOUS
<1>0. \A s \in SUBSET (1 .. N) : IsFiniteSet(s) /\ Cardinality(s) \in Nat
  <2>1. IsFiniteSet(1 .. N)
    <3>1. 1 \in Int /\ N \in Int
      OBVIOUS
    <3>. QED  BY <3>1, FS_Interval, Zenon
  <2> DEFINE I == 1 .. N
  <2> HIDE DEF I
  <2>2. \A s \in SUBSET I : IsFiniteSet(s)
    BY <2>1, FS_Subset DEF I
  <2>3. \A s \in SUBSET I : Cardinality(s) \in Nat
    BY <2>2, FS_CardinalityType
  <2>. QED  BY <2>2, <2>3 DEF I
<1>1. PICK n \in Bad : \A m \in Bad : n <= m
  <2>1. Bad \subseteq Nat /\ Cardinality(t) \in Bad
    BY <1>0
  <2> HIDE DEF Bad
  <2>. QED  BY <2>1, LeastElement
<1>2. PICK s \in SUBSET (1 .. N) : Cardinality(s) = n /\ Wrong(s)
  OBVIOUS
<1>10. \A r, q : \A x \in 1 .. N : IsLess(q, r, x) => SumOf(N, w, b, r) = SumOf(N, w, b, q) + w[x]
  BY SumOfFacts
<1>9. /\ SumOf(N, w, b, {}) = b
      /\ \A r \in SUBSET (1 .. N) : \A x \in r : SumOf(N, w, b, r) = SumOf(N, w, b, r \ {x}) + w[x]
  <2>1. SumOf(N, w, b, {}) = b
    BY SumOfFacts
  <2>2. ASSUME NEW r \in SUBSET (1 .. N), NEW x \in r
        PROVE  SumOf(N, w, b, r) = SumOf(N, w, b, r \ {x}) + w[x]
    <3>. PICK q : q = r \ {x}
      OBVIOUS
    <3>1. x \in 1 .. N
      OBVIOUS
    <3>3. IsLess(q, r, x)
      BY DEF IsLess
    <3>2. SumOf(N, w, b, r) = SumOf(N, w, b, q) + w[x]
      BY <1>10, <3>1, <3>3, Zenon
    <3>. QED  BY <3>2
  <2>. QED  BY <2>1, <2>2
<1>3. s # {}
  BY <1>2, <1>9 DEF AddsUp
<1>4. PICK x \in s : g[s \ {x}] \in Nat => g[s] = g[s \ {x}] + w[x]
  BY <1>3 DEF AddsUp
<1> DEFINE r == s \ {x}
<1>5. r \in SUBSET (1 .. N) /\ Cardinality(r) = n - 1 /\ Cardinality(r) \in Nat
  BY <1>0, <1>2, FS_RemoveElement
<1>6. ~Wrong(r)
  <2>1. ~(n <= n - 1) /\ n - 1 \in Nat
    BY <1>5
  <2>. QED  BY <1>1, <1>5, <2>1
<1>7. SumOf(N, w, b, r) \in Nat
  BY SumOfFacts
<1>8. SumOf(N, w, b, s) = SumOf(N, w, b, r) + w[x]
  BY <1>9
<1> HIDE DEF r
<1>11. g[s] = g[r] + w[x]
  BY <1>4, <1>6, <1>7 DEF r
<1>. QED  BY <1>2, <1>6, <1>8, <1>11

--------------------------------------------------------------------------------
\* What a file needs in an archive that stores it: its member, its central header.
MemberSize(f) == LFH_BASE_SZ + Len(NameOf(f)) + Len(DataOf(f))
EntrySize(f) == CFH_BASE_SZ + Len(NameOf(f))

Total(s, b) ==
    FoldSeq(LAMBDA f, n : n + CFH_BASE_SZ + LFH_BASE_SZ + 2 * Len(f.name) + Len(f.data), b, s)

\* The fold, as a function of the files still to be added.
TotalOf(g, s, b) ==
    g = [r \in SUBSET DOMAIN s |->
           IF r = {} THEN b
           ELSE g[r \ {CHOOSE x \in r : TRUE}] + CFH_BASE_SZ + LFH_BASE_SZ
                  + 2 * Len(s[CHOOSE x \in r : TRUE].name) + Len(s[CHOOSE x \in r : TRUE].data)]

LEMMA TotalIsFold ==
    ASSUME NEW s, NEW b, NEW g, TotalOf(g, s, b)
    PROVE  \E h : TotalOf(h, s, b) /\ Total(s, b) = h[DOMAIN s]
  BY DEF Total, TotalOf, FoldSeq, FoldFunction, FoldFunctionOnSet, MapThenFoldSet

LEMMA TotalIsSum ==
    ASSUME NEW s, IsSeq(s), NEW b \in Nat,
           \A k \in 1 .. Len(s) : Len(NameOf(s[k])) \in Nat /\ Len(DataOf(s[k])) \in Nat
    PROVE  Total(s, b) = SumOf(Len(s), [k \in 1 .. Len(s) |-> MemberSize(s[k]) + EntrySize(s[k])],
                               b, 1 .. Len(s))
<1> DEFINE N == Len(s)
           w == [k \in 1 .. N |-> MemberSize(s[k]) + EntrySize(s[k])]
           g == [r \in SUBSET (1 .. N) |-> SumOf(N, w, b, r)]
           any(r) == CHOOSE x \in r : TRUE
<1>1. N \in Nat /\ DOMAIN s = 1 .. N
  BY SeqFacts
<1>2. ASSUME NEW k \in 1 .. N, NEW n \in Nat
      PROVE  /\ w[k] \in Nat
             /\ n + CFH_BASE_SZ + LFH_BASE_SZ + 2 * Len(s[k].name) + Len(s[k].data) = n + w[k]
  <2>1. PICK u \in Nat : u = Len(NameOf(s[k]))
    OBVIOUS
  <2>2. PICK v \in Nat : v = Len(DataOf(s[k]))
    OBVIOUS
  <2>3. w[k] = (30 + u + v) + (46 + u)
    BY <2>1, <2>2 DEF MemberSize, EntrySize, LFH_BASE_SZ, CFH_BASE_SZ
  <2>4. n + CFH_BASE_SZ + LFH_BASE_SZ + 2 * Len(s[k].name) + Len(s[k].data) = n + 46 + 30 + 2 * u + v
    BY <2>1, <2>2 DEF NameOf, DataOf, LFH_BASE_SZ, CFH_BASE_SZ
  <2> HIDE DEF w
  <2>. QED  BY <2>3, <2>4
<1>3. w \in [1 .. N -> Nat]
  <2>1. \A k \in 1 .. N : w[k] \in Nat
    BY <1>2
  <2>. QED  BY <2>1
<1> HIDE DEF w, N
<1>4. ASSUME NEW r \in SUBSET (1 .. N), r # {} PROVE any(r) \in r /\ any(r) \in 1 .. N
  BY <1>4
<1>5. TotalOf(g, s, b)
  <2>1. ASSUME NEW r \in SUBSET (1 .. N), r # {}
        PROVE  g[r] = g[r \ {any(r)}] + CFH_BASE_SZ + LFH_BASE_SZ + 2 * Len(s[any(r)].name) + Len(s[any(r)].data)
    <3>. PICK x \in 1 .. N : x = any(r) /\ x \in r
      BY <1>4, <2>1
    <3>. PICK q \in SUBSET (1 .. N) : q = r \ {x}
      OBVIOUS
    <3>1. IsLess(q, r, x)
      BY DEF IsLess
    <3>2. SumOf(N, w, b, r) = SumOf(N, w, b, q) + w[x] /\ SumOf(N, w, b, q) \in Nat
      BY <1>1, <1>3, <3>1, SumOfFacts
    <3>3. g[r] = g[q] + w[x] /\ g[q] \in Nat
      BY <3>2
    <3> HIDE DEF g
    <3>4. g[r] = g[q] + CFH_BASE_SZ + LFH_BASE_SZ + 2 * Len(s[x].name) + Len(s[x].data)
      BY <1>2, <3>3
    <3>. QED  BY <3>4
  <2>2. g[{}] = b
    BY <1>1, <1>3, SumOfFacts
  <2>3. g = [r \in SUBSET DOMAIN s |-> g[r]]
    BY <1>1
  <2> HIDE DEF g
  <2>. QED  BY <1>1, <2>1, <2>2, <2>3 DEF TotalOf
<1> HIDE DEF g
<1>6. PICK h : TotalOf(h, s, b) /\ Total(s, b) = h[DOMAIN s]
  BY <1>5, TotalIsFold
<1>7. ASSUME NEW r \in SUBSET (1 .. N), r # {}
      PROVE  \E x \in r : h[r \ {x}] \in Nat => h[r] = h[r \ {x}] + w[x]
  <2>. PICK x \in 1 .. N : x = any(r) /\ x \in r
    BY <1>4, <1>7
  <2>1. h[r] = h[r \ {x}] + CFH_BASE_SZ + LFH_BASE_SZ + 2 * Len(s[x].name) + Len(s[x].data)
    BY <1>1, <1>6, <1>7 DEF TotalOf
  <2>2. h[r \ {x}] \in Nat => h[r] = h[r \ {x}] + w[x]
    BY <1>2, <2>1
  <2>. QED  BY <2>2
<1>8. h[{}] = b
  BY <1>6 DEF TotalOf
<1>9. h[1 .. N] = SumOf(N, w, b, 1 .. N)
  <2>1. AddsUp(h, N, w, b)
    BY <1>7, <1>8 DEF AddsUp
  <2>2. 1 .. N \in SUBSET (1 .. N)
    OBVIOUS
  <2>. QED  BY <1>1, <1>3, <2>1, <2>2, AnyOrder
<1>. QED  BY <1>1, <1>6, <1>9 DEF w, N

\* What is needed for the first k members, and for the first k central headers.
MemberSizes == [k \in 1 .. Len(files) |-> MemberSize(files[k])]
EntrySizes == [k \in 1 .. Len(files) |-> EntrySize(files[k])]

IsRoom(A, C) ==
    /\ Sums(A, Len(files), MemberSizes, 0, 1 .. Len(files))
    /\ Sums(C, Len(files), EntrySizes, 0, 1 .. Len(files))

LEMMA SizesFacts ==
    ASSUME files \in FileLists
    PROVE  /\ Len(files) \in Nat /\ MemberSizes \in [1 .. Len(files) -> Nat] /\ EntrySizes \in [1 .. Len(files) -> Nat]
           /\ \A k \in 1 .. Len(files) :
                 /\ Len(NameOf(files[k])) \in Nat /\ Len(DataOf(files[k])) \in Nat
                 /\ MemberSizes[k] = MemberSize(files[k]) /\ EntrySizes[k] = EntrySize(files[k])
                 /\ MemberSize(files[k]) \in Nat /\ EntrySize(files[k]) \in Nat
<1>1. IsSeq(files) /\ Len(files) \in Nat
  BY FilesFacts
<1>2. ASSUME NEW k \in 1 .. Len(files)
      PROVE  /\ Len(NameOf(files[k])) \in Nat /\ Len(DataOf(files[k])) \in Nat
             /\ MemberSize(files[k]) \in Nat /\ EntrySize(files[k]) \in Nat
  <2>1. Len(NameOf(files[k])) \in Nat /\ Len(DataOf(files[k])) \in Nat
    BY FilesFacts, CellsSeq
  <2>. QED  BY <2>1 DEF MemberSize, EntrySize, LFH_BASE_SZ, CFH_BASE_SZ
<1>3. \A k \in 1 .. Len(files) : MemberSizes[k] = MemberSize(files[k]) /\ EntrySizes[k] = EntrySize(files[k])
  BY DEF MemberSizes, EntrySizes
<1>4. MemberSizes \in [1 .. Len(files) -> Nat] /\ EntrySizes \in [1 .. Len(files) -> Nat]
  BY <1>2 DEF MemberSizes, EntrySizes
<1>. QED  BY <1>1, <1>2, <1>3, <1>4

LEMMA RoomFacts ==
    ASSUME files \in FileLists, NEW A, NEW C, IsRoom(A, C)
    PROVE  /\ Len(files) \in Nat /\ A[0] = 0 /\ C[0] = 0
           /\ \A k \in 0 .. Len(files) :
                 A[k] \in Nat /\ C[k] \in Nat /\ A[k] <= A[Len(files)] /\ C[k] <= C[Len(files)]
           /\ \A k \in 1 .. Len(files) :
                 /\ A[k] = A[k - 1] + MemberSize(files[k]) /\ C[k] = C[k - 1] + EntrySize(files[k])
                 /\ MemberSize(files[k]) \in Nat /\ EntrySize(files[k]) \in Nat
<1> DEFINE N == Len(files)
<1>1. N \in Nat /\ A \in [0 .. N -> Nat] /\ C \in [0 .. N -> Nat] /\ A[0] = 0 /\ C[0] = 0
  BY SizesFacts DEF IsRoom, Sums
<1>2. ASSUME NEW k \in 1 .. N
      PROVE  /\ A[k] = A[k - 1] + MemberSize(files[k]) /\ C[k] = C[k - 1] + EntrySize(files[k])
             /\ MemberSize(files[k]) \in Nat /\ EntrySize(files[k]) \in Nat
  <2>1. A[k] = A[k - 1] + MemberSizes[k] /\ C[k] = C[k - 1] + EntrySizes[k]
    BY DEF IsRoom, Sums
  <2>2. /\ MemberSizes[k] = MemberSize(files[k]) /\ EntrySizes[k] = EntrySize(files[k])
        /\ MemberSize(files[k]) \in Nat /\ EntrySize(files[k]) \in Nat
    BY SizesFacts
  <2>. QED  BY <2>1, <2>2
<1> HIDE DEF N
<1>3. ASSUME NEW k \in 0 .. N PROVE A[k] <= A[N] /\ C[k] <= C[N]
  <2>1. /\ Sums(A, N, MemberSizes, 0, 1 .. N) /\ Sums(C, N, EntrySizes, 0, 1 .. N)
        /\ MemberSizes \in [1 .. N -> Nat] /\ EntrySizes \in [1 .. N -> Nat]
    BY SizesFacts DEF IsRoom, N
  <2>. QED  BY <1>1, <2>1, SumsGrow
<1>. QED  BY <1>1, <1>2, <1>3 DEF N

LEMMA RoomExists == ASSUME files \in FileLists PROVE \E A, C : IsRoom(A, C)
  BY SizesFacts, SumsExist DEF IsRoom

\* zip_max_size of any files and comment.
MaxSize(l, c) ==
    LET total == Total(l, EOCDR_BASE_SZ + Len(c))
    IN  IF Len(c) > UINT16_MAX \/ total > UINT32_MAX \/ \E k \in DOMAIN l : Len(l[k].name) > UINT16_MAX
        THEN 0 ELSE total

LEMMA MaxSizeSame == zip_max_size = MaxSize(files, comment)
  BY DEF zip_max_size, MaxSize, Total

\* zip_max_size counts the same.
LEMMA MaxSizeIs ==
    ASSUME files \in FileLists, comment \in Comments, zip_max_size # 0, NEW A, NEW C, IsRoom(A, C)
    PROVE  zip_max_size = A[Len(files)] + C[Len(files)] + EOCDR_BASE_SZ + Len(comment)
<1> DEFINE N == Len(files)
           b == EOCDR_BASE_SZ + Len(comment)
           w == [k \in 1 .. N |-> MemberSize(files[k]) + EntrySize(files[k])]
           M == [k \in 0 .. N |-> A[k] + C[k] + b]
<1>1. files \in FileLists /\ IsSeq(files) /\ N \in Nat /\ b \in Nat /\ Len(comment) \in Nat
  BY FilesFacts, CommentFacts DEF EOCDR_BASE_SZ
<1>2. zip_max_size = Total(files, b)
  BY DEF zip_max_size, Total
<1>3. \A k \in 1 .. N : Len(NameOf(files[k])) \in Nat /\ Len(DataOf(files[k])) \in Nat
  BY <1>1, SizesFacts
<1>4. Total(files, b) = SumOf(N, w, b, 1 .. N)
  BY <1>1, <1>3, TotalIsSum
<1>5. \A k \in 1 .. N : MemberSizes[k] \in Nat /\ EntrySizes[k] \in Nat /\ w[k] = MemberSizes[k] + EntrySizes[k]
  BY <1>1, SizesFacts DEF MemberSizes, EntrySizes
<1>6. /\ A \in [0 .. N -> Nat] /\ C \in [0 .. N -> Nat] /\ A[0] = 0 /\ C[0] = 0
      /\ \A k \in 1 .. N : A[k] = A[k - 1] + MemberSizes[k] /\ C[k] = C[k - 1] + EntrySizes[k]
  BY DEF IsRoom, Sums
<1> HIDE DEF N, b, w
<1>7. w \in [1 .. N -> Nat]
  <2>1. w = [k \in 1 .. N |-> w[k]]
    BY DEF w
  <2>. QED  BY <1>5, <2>1
<1>8. M \in [0 .. N -> Nat] /\ M[0] = b
  BY <1>1, <1>6
<1>9. ASSUME NEW k \in 1 .. N PROVE M[k] = M[k - 1] + w[k]
  <2>1. k \in 0 .. N /\ k - 1 \in 0 .. N
    BY <1>1
  <2>2. M[k] = A[k] + C[k] + b /\ M[k - 1] = A[k - 1] + C[k - 1] + b
    BY <2>1
  <2>3. A[k - 1] \in Nat /\ C[k - 1] \in Nat
    BY <1>6, <2>1
  <2>4. MemberSizes[k] \in Nat /\ EntrySizes[k] \in Nat /\ w[k] = MemberSizes[k] + EntrySizes[k]
    BY <1>5
  <2>5. A[k] = A[k - 1] + MemberSizes[k] /\ C[k] = C[k - 1] + EntrySizes[k]
    BY <1>6
  <2> HIDE DEF M
  <2>. QED  BY <1>1, <2>2, <2>3, <2>4, <2>5
<1>10. M[N] = A[N] + C[N] + b /\ A[N] \in Nat /\ C[N] \in Nat
  BY <1>1, <1>6
<1> HIDE DEF M
<1>11. Sums(M, N, w, b, 1 .. N)
  BY <1>8, <1>9 DEF Sums
<1>12. SumOf(N, w, b, 1 .. N) = M[N]
  BY <1>1, <1>7, <1>11, SumOfFacts
<1>13. zip_max_size = A[N] + C[N] + b
  BY <1>2, <1>4, <1>10, <1>12
<1>. QED  BY <1>1, <1>10, <1>13 DEF N, b, EOCDR_BASE_SZ

\* An archive that can be written is small enough for the fields of its headers.
LEMMA SmallEnough ==
    ASSUME files \in FileLists, comment \in Comments, MaxSize(files, comment) # 0
    PROVE  /\ zip_max_size \in Nat /\ zip_max_size <= UINT32_MAX /\ Is16(Len(comment))
           /\ \A k \in 1 .. Len(files) : Is16(Len(NameOf(files[k]))) /\ Is32(Len(DataOf(files[k])))
<1>1. zip_max_size # 0 /\ zip_max_size = MaxSize(files, comment)
  BY MaxSizeSame
<1>2. PICK A, C : IsRoom(A, C)
  BY RoomExists
<1>3. zip_max_size = A[Len(files)] + C[Len(files)] + EOCDR_BASE_SZ + Len(comment)
  BY <1>1, <1>2, MaxSizeIs
<1>4. /\ zip_max_size <= UINT32_MAX /\ Len(comment) <= UINT16_MAX
      /\ \A k \in DOMAIN files : Len(files[k].name) <= UINT16_MAX
  <2> DEFINE total == Total(files, EOCDR_BASE_SZ + Len(comment))
  <2>1. /\ ~(Len(comment) > UINT16_MAX) /\ ~(total > UINT32_MAX) /\ zip_max_size = total
        /\ \A k \in DOMAIN files : ~(Len(files[k].name) > UINT16_MAX)
    BY <1>1 DEF MaxSize
  <2>2. Len(comment) \in Nat
    BY CommentFacts
  <2>3. Len(files) \in Nat /\ A[Len(files)] \in Nat /\ C[Len(files)] \in Nat
    <3>1. Len(files) \in Nat
      BY FilesFacts
    <3>2. Len(files) \in 0 .. Len(files)
      BY <3>1
    <3>. QED  BY <1>2, <3>1, <3>2, RoomFacts
  <2>4. total \in Nat
    BY <1>3, <2>1, <2>2, <2>3 DEF EOCDR_BASE_SZ
  <2>5. \A k \in 1 .. Len(files) : Len(files[k].name) \in Nat
    BY FilesFacts, CellsSeq DEF NameOf
  <2>6. DOMAIN files = 1 .. Len(files)
    BY FilesFacts, SeqFacts
  <2> HIDE DEF total
  <2>. QED  BY <2>1, <2>2, <2>4, <2>5, <2>6, WidthFacts
<1>5. Len(files) \in Nat /\ DOMAIN files = 1 .. Len(files) /\ Len(comment) \in Nat
  BY FilesFacts, SeqFacts, CommentFacts
<1>6. ASSUME NEW k \in 1 .. Len(files) PROVE Is32(Len(DataOf(files[k])))
  <2>1. /\ A[k] = A[k - 1] + MemberSize(files[k]) /\ MemberSize(files[k]) \in Nat
        /\ A[k] \in Nat /\ A[k - 1] \in Nat /\ A[k] <= A[Len(files)]
        /\ A[Len(files)] \in Nat /\ C[Len(files)] \in Nat
    <3>1. k \in 0 .. Len(files) /\ k - 1 \in 0 .. Len(files) /\ Len(files) \in 0 .. Len(files)
      BY <1>5
    <3>. QED  BY <1>2, <3>1, RoomFacts
  <2>2. MemberSize(files[k]) <= zip_max_size
    BY <1>3, <1>5, <2>1 DEF EOCDR_BASE_SZ
  <2>3. Len(NameOf(files[k])) \in Nat /\ Len(DataOf(files[k])) \in Nat
    BY FilesFacts, CellsSeq
  <2>. QED  BY <1>3, <1>4, <1>5, <2>1, <2>2, <2>3, WidthFacts DEF MemberSize, Is32, LFH_BASE_SZ, EOCDR_BASE_SZ
<1>7. zip_max_size \in Nat
  <2>1. Len(files) \in 0 .. Len(files)
    BY <1>5
  <2>2. A[Len(files)] \in Nat /\ C[Len(files)] \in Nat
    BY <1>2, <2>1, RoomFacts
  <2>. QED  BY <1>3, <1>5, <2>2 DEF EOCDR_BASE_SZ
<1>8. \A k \in 1 .. Len(files) : Is16(Len(NameOf(files[k])))
  <2>1. ASSUME NEW k \in 1 .. Len(files) PROVE Is16(Len(NameOf(files[k])))
    <3>1. Len(NameOf(files[k])) \in Nat
      BY FilesFacts, CellsSeq
    <3>2. Len(NameOf(files[k])) <= UINT16_MAX
      BY <1>4, <1>5 DEF NameOf
    <3>. QED  BY <3>1, <3>2, WidthFacts DEF Is16
  <2>. QED  BY <2>1
<1>9. Is16(Len(comment))
  BY <1>4, <1>5, WidthFacts DEF Is16
<1>. QED  BY <1>4, <1>6, <1>7, <1>8, <1>9

--------------------------------------------------------------------------------
(***************************************************************************)
(* The inductive invariant: what an archive is while it is written, and    *)
(* what the reader knows of any file.                                      *)
(***************************************************************************)
\* A file whose sizes and name fit into headers.
Writable(f) ==
    /\ NameOf(f) \in Seq(Cells) /\ DataOf(f) \in Seq(Cells) /\ ~Contains(NameOf(f), 0)
    /\ Is16(Len(NameOf(f))) /\ Is32(Len(DataOf(f))) /\ Is32(crc32(DataOf(f)))
    /\ f = [name |-> NameOf(f), data |-> DataOf(f)]

\* A compressor that does not give up saves a byte.
Fits(f, how, body) ==
    \/ how = ZIP_STORE /\ body = DataOf(f)
    \/ \E k \in Codes : /\ k.method = how /\ k.data = DataOf(f) /\ k.bytes = body
                        /\ Len(body) <= Len(DataOf(f)) - 1

LocalHeader(f, how, body) == write_lfh(lfh(f, how, Len(body)), NameOf(f))

\* Member f lies at an offset.
StoredAt(s, at, f, how, body) ==
    /\ Fits(f, how, body) /\ At(s, at, LocalHeader(f, how, body))
    /\ At(s, at + 30 + Len(NameOf(f)), body)

MemberAt(s, at, f, next) ==
    \E how, body : StoredAt(s, at, f, how, body) /\ next = at + 30 + Len(NameOf(f)) + Len(body)

\* The central header made from the fields l of the local one at an offset.
Entry(l, head) ==
    [made_by_ver |-> l.extract_ver, extract_ver |-> l.extract_ver, gp_flag |-> l.gp_flag,
     method |-> l.method, mod_time |-> l.mod_time, mod_date |-> l.mod_date,
     crc32 |-> l.crc32, comp_size |-> l.comp_size, uncomp_size |-> l.uncomp_size,
     name_len |-> l.name_len, extra_len |-> 0, comment_len |-> 0, disk_nbr_start |-> 0,
     int_attrs |-> 0, ext_attrs |-> EXT_ATTR_ARC, lfh_offset |-> head]

CentralHeader(f, how, body, head) == write_cfh(Entry(lfh(f, how, Len(body)), head), NameOf(f))

EntryAt(s, at, f, head, next) ==
    /\ next = at + 46 + Len(NameOf(f)) /\ Is32(head)
    /\ \E how, body :
          /\ StoredAt(s, head, f, how, body) /\ head + 30 + Len(NameOf(f)) + Len(body) <= at
          /\ At(s, at, CentralHeader(f, how, body, head))

\* L are the offsets of the first members and of what comes behind them, D those
\* of their central headers.
Members(s, L) ==
    /\ Rising(L) /\ Len(L) <= Len(files) + 1 /\ L[1] = 0 /\ L[Len(L)] <= Len(s)
    /\ \A k \in 1 .. Len(L) - 1 : MemberAt(s, L[k], files[k], L[k + 1])

Entries(s, L, D) ==
    /\ Members(s, L) /\ Len(L) = Len(files) + 1
    /\ Rising(D) /\ Len(D) <= Len(files) + 1 /\ D[1] = L[Len(L)] /\ D[Len(D)] <= Len(s)
    /\ \A k \in 1 .. Len(D) - 1 : EntryAt(s, D[k], files[k], L[k], D[k + 1])

End(D) ==
    [disk_nbr |-> 0, cd_start_disk |-> 0, disk_cd_entries |-> Len(files), cd_entries |-> Len(files),
     cd_size |-> D[Len(D)] - D[1], cd_offset |-> D[1], comment_len |-> Len(comment)]

Complete(s, L, D) ==
    /\ Entries(s, L, D) /\ Len(D) = Len(files) + 1 /\ cd_offset = D[1] /\ Is32(D[Len(D)])
    /\ At(s, D[Len(D)], write_eocdr(End(D), comment))
    /\ Len(s) = D[Len(D)] + 22 + Len(comment)

BaseInv ==
    /\ files \in FileLists /\ comment \in Comments
    /\ phase \in {"not_possible", "members", "directory", "written", "read", "refused", "extract",
                  "done"}
    /\ dst \in Seq(Cells) /\ p \in Nat /\ p <= Len(dst)
    /\ i \in Nat /\ lfh_offset \in Nat /\ cd_offset \in Nat
    /\ offset \in Nat /\ members_end \in Nat
    /\ intact \in BOOLEAN /\ (phase \in {"members", "directory"} => intact)
    /\ IsSeq(extracted)
    /\ \A k \in 1 .. Len(extracted) : DOMAIN extracted[k] = {"what", "name", "data"}
    /\ phase \in {"members", "directory", "written", "read"} => extracted = <<>>
    /\ phase # "not_possible" => MaxSize(files, comment) # 0

WriteInv ==
    /\ phase = "members" =>
          /\ lfh_offset = 0
          /\ \E L : Members(dst, L) /\ i = Len(L) /\ p = L[i]
    /\ phase = "directory" =>
          \E L, D : /\ Entries(dst, L, D) /\ cd_offset = D[1]
                    /\ i = Len(D) /\ lfh_offset = L[i] /\ p = D[i]
    /\ phase \in {"written", "read", "extract"} /\ intact => \E L, D : Complete(Archive, L, D)

\* How much of the room was used.
RoomInv ==
    \A A, C : IsRoom(A, C) =>
        /\ phase = "members" => Len(dst) <= A[i - 1]
        /\ phase = "directory" => Len(dst) <= A[Len(files)] + C[i - 1]
        /\ phase \notin {"members", "directory", "not_possible"} /\ intact =>
              Len(dst) <= A[Len(files)] + C[Len(files)] + EOCDR_BASE_SZ + Len(comment)

\* O are the offsets of the first n central headers and of what is behind them.
Accepted(s, O, n) ==
    /\ Rising(O) /\ Len(O) = n + 1 /\ O[1] = eocdr.cd_offset
    /\ \A k \in 1 .. n : HeaderAccepted(s, O[k]) /\ O[k + 1] = NextCfh(s, O[k])

NumEntries == eocdr.cd_entries

ReadInv ==
    /\ phase \in {"read", "extract"} => eocdr = EndFields(Archive) /\ NumEntries \in Nat
    /\ phase = "read" =>
          /\ 1 <= i /\ i <= NumEntries + 1
          /\ \E O : Accepted(Archive, O, i - 1) /\ offset = O[i]
    /\ phase = "extract" =>
          /\ Len(extracted) <= NumEntries
          /\ \E O : /\ Accepted(Archive, O, NumEntries)
                    /\ offset = O[Len(extracted) + 1] /\ members_end = O[Len(O)]
    /\ phase = "done" => Len(extracted) = NumEntries

ZInv == BaseInv /\ WriteInv /\ ReadInv

LEMMA WritableFiles ==
    ASSUME files \in FileLists, comment \in Comments, MaxSize(files, comment) # 0,
           NEW k \in 1 .. Len(files)
    PROVE  Writable(files[k])
  BY FilesFacts, SmallEnough DEF Writable

LEMMA WritableFacts ==
    ASSUME NEW f, Writable(f)
    PROVE  /\ NameOf(f) \in Seq(Cells) /\ DataOf(f) \in Seq(Cells) /\ IsSeq(NameOf(f))
           /\ IsSeq(DataOf(f)) /\ Len(NameOf(f)) \in Nat /\ Len(DataOf(f)) \in Nat
  BY CellsSeq DEF Writable

LEMMA BodyFacts ==
    ASSUME NEW f, Writable(f), NEW how, NEW body, Fits(f, how, body)
    PROVE  /\ body \in Seq(Cells) /\ IsSeq(body) /\ Len(body) \in Nat /\ Is32(Len(body))
           /\ Len(body) <= Len(DataOf(f))
           /\ how \in {ZIP_STORE, ZIP_SHRINK, ZIP_REDUCE4, ZIP_IMPLODE, ZIP_DEFLATE}
<1>1. Len(DataOf(f)) \in Nat /\ Is32(Len(DataOf(f))) /\ DataOf(f) \in Seq(Cells)
  BY WritableFacts DEF Writable
<1>2. CASE how = ZIP_STORE /\ body = DataOf(f)
  BY <1>1, <1>2, CellsSeq
<1>3. CASE \E k \in Codes : /\ k.method = how /\ k.data = DataOf(f) /\ k.bytes = body
                            /\ Len(body) <= Len(DataOf(f)) - 1
  <2>1. PICK k \in Codes : k.method = how /\ k.bytes = body /\ Len(body) <= Len(DataOf(f)) - 1
    BY <1>3
  <2>2. k \in [method : {ZIP_SHRINK, ZIP_REDUCE4, ZIP_IMPLODE, ZIP_DEFLATE}, data : Seq(Byte), bytes : Seq(Byte)]
    BY CodesAssumption
  <2>3. how \in {ZIP_SHRINK, ZIP_REDUCE4, ZIP_IMPLODE, ZIP_DEFLATE} /\ body \in Seq(Byte)
    BY <2>1, <2>2
  <2>4. body \in Seq(Cells)
    BY <2>3, BytesAreCells
  <2>5. IsSeq(body) /\ Len(body) \in Nat
    BY <2>4, CellsSeq
  <2>6. Len(body) <= Len(DataOf(f)) /\ Is32(Len(body))
    BY <1>1, <2>1, <2>5, WidthFacts DEF Is32
  <2>. QED  BY <2>3, <2>4, <2>5, <2>6
<1>. QED  BY <1>2, <1>3 DEF Fits

LEMMA LfhFits ==
    ASSUME NEW f, Writable(f), NEW how, NEW body, Fits(f, how, body)
    PROVE  FitsLfh(lfh(f, how, Len(body)))
<1> DEFINE l == lfh(f, how, Len(body))
<1>1. /\ l.extract_ver = (IF how = ZIP_DEFLATE THEN 20 ELSE 10) /\ l.gp_flag = gp_flag(how)
      /\ l.method = how /\ l.mod_time = mod_time /\ l.mod_date = mod_date
      /\ l.crc32 = crc32(DataOf(f)) /\ l.comp_size = Len(body) /\ l.uncomp_size = Len(DataOf(f))
      /\ l.name_len = Len(NameOf(f)) /\ l.extra_len = 0
  BY DEF lfh, NameOf, DataOf
<1>2. how \in {0, 1, 5, 6, 8} /\ Is32(Len(body))
  BY BodyFacts DEF ZIP_STORE, ZIP_SHRINK, ZIP_REDUCE4, ZIP_IMPLODE, ZIP_DEFLATE
<1>3. gp_flag(how) \in {0, 2, 6}
  BY <1>2 DEF gp_flag, ZIP_IMPLODE, ZIP_DEFLATE
<1> HIDE DEF l
<1>4. Is16(l.extract_ver) /\ Is16(l.gp_flag) /\ Is16(l.method) /\ Is16(l.extra_len)
  BY <1>1, <1>2, <1>3, WidthFacts DEF Is16
<1>5. Is16(l.mod_time) /\ Is16(l.mod_date)
  BY <1>1, ZipAssumption DEF Is16
<1>6. Is16(l.name_len) /\ Is32(l.crc32) /\ Is32(l.comp_size) /\ Is32(l.uncomp_size)
  BY <1>1, <1>2 DEF Writable
<1>7. FitsLfh(l)
  BY <1>4, <1>5, <1>6 DEF FitsLfh
<1>. QED  BY <1>7 DEF l

LEMMA LocalHeaderFacts ==
    ASSUME NEW f, Writable(f), NEW how, NEW body, Fits(f, how, body)
    PROVE  /\ LocalHeader(f, how, body) \in Seq(Cells) /\ IsSeq(LocalHeader(f, how, body))
           /\ Len(LocalHeader(f, how, body)) = 30 + Len(NameOf(f))
<1>1. FitsLfh(lfh(f, how, Len(body))) /\ NameOf(f) \in Seq(Cells)
  BY LfhFits, WritableFacts
<1>2. /\ LocalHeader(f, how, body) \in Seq(Cells)
      /\ Len(LocalHeader(f, how, body)) = 30 + Len(NameOf(f))
  BY <1>1, LfhWritten DEF LocalHeader
<1>. QED  BY <1>2, CellsSeq

\* Where a local header was written one is read, and the data behind it.
LEMMA StoredRead ==
    ASSUME NEW s, IsSeq(s), NEW at \in Nat, NEW f, Writable(f), NEW how, NEW body,
           StoredAt(s, at, f, how, body)
    PROVE  /\ IsLfh(s, at) /\ read_lfh(s, at) = lfh(f, how, Len(body))
           /\ Cut(s, at + 30, Len(NameOf(f))) = NameOf(f)
           /\ comp_data(s, at) = at + 30 + Len(NameOf(f))
           /\ comp_data(s, at) + Len(body) <= Len(s)
           /\ Cut(s, comp_data(s, at), Len(body)) = body
<1> DEFINE l == lfh(f, how, Len(body))
<1>1. Fits(f, how, body) /\ At(s, at, LocalHeader(f, how, body)) /\ At(s, at + 30 + Len(NameOf(f)), body)
  BY DEF StoredAt
<1>2. FitsLfh(l) /\ NameOf(f) \in Seq(Cells) /\ Len(NameOf(f)) \in Nat
  BY <1>1, LfhFits, WritableFacts
<1>3. LfhAt(s, at, l, NameOf(f))
  <2>1. At(s, at, write_lfh(l, NameOf(f)))
    BY <1>1 DEF LocalHeader
  <2> HIDE DEF l
  <2>. QED  BY <1>2, <2>1, LfhWritten
<1>4. read_lfh(s, at) = l
  <2>1. l = [extract_ver |-> l.extract_ver, gp_flag |-> l.gp_flag, method |-> l.method,
             mod_time |-> l.mod_time, mod_date |-> l.mod_date, crc32 |-> l.crc32,
             comp_size |-> l.comp_size, uncomp_size |-> l.uncomp_size,
             name_len |-> l.name_len, extra_len |-> l.extra_len]
    BY DEF lfh
  <2> HIDE DEF l
  <2>. QED  BY <1>3, <2>1 DEF LfhAt, read_lfh
<1>5. l.name_len = Len(NameOf(f)) /\ l.extra_len = 0
  BY DEF lfh, NameOf
<1> HIDE DEF l
<1>6. comp_data(s, at) = at + 30 + Len(NameOf(f))
  BY <1>2, <1>4, <1>5 DEF comp_data, LFH_BASE_SZ
<1>7. IsLfh(s, at)
  <2>1. at + 30 + Len(NameOf(f)) <= Len(s) /\ read32le(s, at) = LFH_SIGNATURE /\ Len(s) \in Nat
    BY <1>3, SeqFacts DEF LfhAt
  <2>. QED  BY <1>2, <1>4, <1>5, <2>1 DEF IsLfh, LFH_BASE_SZ
<1>8. at + 30 + Len(NameOf(f)) \in Nat /\ IsSeq(body)
  BY <1>1, <1>2, BodyFacts
<1>9. Cut(s, comp_data(s, at), Len(body)) = body /\ comp_data(s, at) + Len(body) <= Len(s)
  <2>1. Cut(s, at + 30 + Len(NameOf(f)), Len(body)) = body
    BY <1>1, <1>8, AtCut
  <2>2. at + 30 + Len(NameOf(f)) + Len(body) <= Len(s)
    BY <1>1 DEF At
  <2>. QED  BY <1>6, <2>1, <2>2
<1>10. Cut(s, at + 30, Len(NameOf(f))) = NameOf(f)
  BY <1>3 DEF LfhAt
<1>. QED  BY <1>4, <1>6, <1>7, <1>9, <1>10 DEF l

LEMMA CfhFits ==
    ASSUME NEW f, Writable(f), NEW how, NEW body, Fits(f, how, body), NEW head, Is32(head)
    PROVE  FitsCfh(Entry(lfh(f, how, Len(body)), head))
<1> DEFINE l == lfh(f, how, Len(body))
           c == Entry(l, head)
<1>1. FitsLfh(l)
  BY LfhFits
<1> HIDE DEF l
<1>2. /\ c.made_by_ver = l.extract_ver /\ c.extract_ver = l.extract_ver /\ c.gp_flag = l.gp_flag
      /\ c.method = l.method /\ c.mod_time = l.mod_time /\ c.mod_date = l.mod_date
      /\ c.crc32 = l.crc32 /\ c.comp_size = l.comp_size /\ c.uncomp_size = l.uncomp_size
      /\ c.name_len = l.name_len /\ c.extra_len = 0 /\ c.comment_len = 0 /\ c.disk_nbr_start = 0
      /\ c.int_attrs = 0 /\ c.ext_attrs = 32 /\ c.lfh_offset = head
  BY DEF Entry, EXT_ATTR_ARC
<1>3. Is16(0) /\ Is32(32)
  <2>1. BYTE * BYTE \in Nat /\ BYTE * BYTE >= 25 /\ UINT32_MAX = (BYTE * BYTE) * (BYTE * BYTE) - 1
    BY WidthFacts
  <2> DEFINE h == BYTE * BYTE
  <2>2. h \in Nat /\ h >= 25 /\ UINT32_MAX = h * h - 1
    BY <2>1
  <2> HIDE DEF h
  <2>3. h * h >= 25 * 25
    BY <2>2
  <2>4. 25 * 25 = 625
    OBVIOUS
  <2>5. h * h \in Nat
    BY <2>2, TimesNat
  <2>. QED  BY <2>2, <2>3, <2>4, <2>5, WidthFacts DEF Is16, Is32
<1> HIDE DEF c
<1>4. FitsCfh(c)
  BY <1>1, <1>2, <1>3, Zenon DEF FitsCfh, FitsLfh
<1>. QED  BY <1>4 DEF c, l

LEMMA CentralHeaderFacts ==
    ASSUME NEW f, Writable(f), NEW how, NEW body, Fits(f, how, body), NEW head, Is32(head)
    PROVE  /\ CentralHeader(f, how, body, head) \in Seq(Cells)
           /\ IsSeq(CentralHeader(f, how, body, head))
           /\ Len(CentralHeader(f, how, body, head)) = 46 + Len(NameOf(f))
<1>1. FitsCfh(Entry(lfh(f, how, Len(body)), head)) /\ NameOf(f) \in Seq(Cells)
  BY CfhFits, WritableFacts
<1>2. /\ CentralHeader(f, how, body, head) \in Seq(Cells)
      /\ Len(CentralHeader(f, how, body, head)) = 46 + Len(NameOf(f))
  BY <1>1, CfhWritten DEF CentralHeader
<1>. QED  BY <1>2, CellsSeq

\* Where a central header was written one is read.
LEMMA EntryRead ==
    ASSUME NEW s, IsSeq(s), NEW at \in Nat, NEW f, Writable(f), NEW how, NEW body, Fits(f, how, body),
           NEW head, Is32(head), At(s, at, CentralHeader(f, how, body, head))
    PROVE  /\ IsCfh(s, at) /\ read_cfh(s, at) = Entry(lfh(f, how, Len(body)), head)
           /\ Name(s, at) = NameOf(f) /\ NextCfh(s, at) = at + 46 + Len(NameOf(f))
<1> DEFINE l == lfh(f, how, Len(body))
           c == Entry(l, head)
<1>1. FitsCfh(c) /\ NameOf(f) \in Seq(Cells) /\ Len(NameOf(f)) \in Nat
  BY CfhFits, WritableFacts
<1>2. l.name_len = Len(NameOf(f))
  BY DEF lfh, NameOf
<1> HIDE DEF l
<1>3. c = [made_by_ver |-> c.made_by_ver, extract_ver |-> c.extract_ver, gp_flag |-> c.gp_flag,
           method |-> c.method, mod_time |-> c.mod_time, mod_date |-> c.mod_date,
           crc32 |-> c.crc32, comp_size |-> c.comp_size, uncomp_size |-> c.uncomp_size,
           name_len |-> c.name_len, extra_len |-> c.extra_len, comment_len |-> c.comment_len,
           disk_nbr_start |-> c.disk_nbr_start, int_attrs |-> c.int_attrs,
           ext_attrs |-> c.ext_attrs, lfh_offset |-> c.lfh_offset]
  BY DEF Entry
<1>4. c.name_len = Len(NameOf(f)) /\ c.extra_len = 0 /\ c.comment_len = 0
  BY <1>2 DEF Entry
<1>5. At(s, at, write_cfh(c, NameOf(f)))
  BY DEF CentralHeader, l
<1> HIDE DEF c
<1>6. CfhAt(s, at, c, NameOf(f))
  BY <1>1, <1>5, CfhWritten
<1>7. read_cfh(s, at) = c
  BY <1>3, <1>6 DEF CfhAt, read_cfh
<1>8. NextCfh(s, at) = at + 46 + Len(NameOf(f))
  BY <1>1, <1>4, <1>7 DEF NextCfh, CFH_BASE_SZ
<1>9. IsCfh(s, at)
  <2>1. at + 46 + Len(NameOf(f)) <= Len(s) /\ read32le(s, at) = CFH_SIGNATURE /\ Len(s) \in Nat
    BY <1>6, SeqFacts DEF CfhAt
  <2>. QED  BY <1>1, <1>8, <2>1 DEF IsCfh, CFH_BASE_SZ
<1>10. Name(s, at) = NameOf(f)
  BY <1>4, <1>6, <1>7 DEF Name, CfhAt, CFH_BASE_SZ
<1>. QED  BY <1>7, <1>8, <1>9, <1>10 DEF c, l

--------------------------------------------------------------------------------
(***************************************************************************)
(* What depends on the first bytes only.                                   *)
(***************************************************************************)
LEMMA StoredAgree ==
    ASSUME NEW s, NEW t, NEW n \in Nat, Agree(s, t, n), NEW at \in Nat, NEW f, Writable(f),
           NEW how, NEW body, StoredAt(s, at, f, how, body),
           at + 30 + Len(NameOf(f)) + Len(body) <= n
    PROVE  StoredAt(t, at, f, how, body)
<1> DEFINE h == LocalHeader(f, how, body)
<1>1. Fits(f, how, body) /\ At(s, at, h) /\ At(s, at + 30 + Len(NameOf(f)), body)
  BY DEF StoredAt
<1>2. /\ Len(h) = 30 + Len(NameOf(f)) /\ Len(NameOf(f)) \in Nat /\ Len(body) \in Nat
  BY <1>1, LocalHeaderFacts, WritableFacts, BodyFacts
<1> HIDE DEF h
<1>3. At(t, at, h)
  <2>1. at + Len(h) <= n /\ Len(h) \in Nat
    BY <1>2
  <2>. QED  BY <1>1, <2>1, AgreeAt
<1>4. At(t, at + 30 + Len(NameOf(f)), body)
  <2>1. at + 30 + Len(NameOf(f)) \in Nat
    BY <1>2
  <2>. QED  BY <1>1, <1>2, <2>1, AgreeAt
<1>. QED  BY <1>1, <1>3, <1>4 DEF StoredAt, h

LEMMA MembersAgree ==
    ASSUME files \in FileLists, NEW s, NEW t, NEW n \in Nat, Agree(s, t, n),
           NEW L, Members(s, L), L[Len(L)] <= n, \A k \in 1 .. Len(files) : Writable(files[k])
    PROVE  Members(t, L)
<1>1. /\ Len(L) \in Nat /\ Len(L) >= 1 /\ Len(L) <= Len(files) + 1
      /\ \A k \in 1 .. Len(L) : L[k] \in Nat /\ L[k] <= L[Len(L)]
  BY RisingFacts DEF Members
<1>2. Len(files) \in Nat /\ Len(t) \in Nat
  BY FilesFacts, SeqFacts DEF Agree
<1>3. ASSUME NEW k \in 1 .. Len(L) - 1 PROVE MemberAt(t, L[k], files[k], L[k + 1])
  <2>1. k \in 1 .. Len(L) /\ k + 1 \in 1 .. Len(L) /\ k \in 1 .. Len(files)
    BY <1>1, <1>2
  <2>2. L[k] \in Nat /\ L[k + 1] \in Nat /\ L[k + 1] <= n
    BY <1>1, <2>1
  <2>3. MemberAt(s, L[k], files[k], L[k + 1]) /\ Writable(files[k])
    BY <2>1 DEF Members
  <2>4. PICK how, body : /\ StoredAt(s, L[k], files[k], how, body)
                         /\ L[k + 1] = L[k] + 30 + Len(NameOf(files[k])) + Len(body)
    BY <2>3 DEF MemberAt
  <2>5. StoredAt(t, L[k], files[k], how, body)
    BY <2>2, <2>3, <2>4, StoredAgree
  <2>. QED  BY <2>4, <2>5 DEF MemberAt
<1>4. L[Len(L)] <= Len(t)
  BY <1>1, <1>2 DEF Agree
<1>. QED  BY <1>3, <1>4 DEF Members

LEMMA EntriesAgree ==
    ASSUME files \in FileLists, NEW s, NEW t, NEW n \in Nat, Agree(s, t, n),
           NEW L, NEW D, Entries(s, L, D), D[Len(D)] <= n, \A k \in 1 .. Len(files) : Writable(files[k])
    PROVE  Entries(t, L, D)
<1>1. /\ Len(D) \in Nat /\ Len(D) >= 1 /\ Len(D) <= Len(files) + 1
      /\ \A k \in 1 .. Len(D) : D[k] \in Nat /\ D[1] <= D[k] /\ D[k] <= D[Len(D)]
  BY RisingFacts DEF Entries
<1>2. /\ Len(L) = Len(files) + 1 /\ D[1] = L[Len(L)] /\ Len(files) \in Nat /\ Len(t) \in Nat
      /\ \A k \in 1 .. Len(L) : L[k] \in Nat
  BY FilesFacts, RisingFacts, SeqFacts DEF Entries, Members, Agree
<1>3. D[1] \in Nat /\ D[1] <= n
  BY <1>1
<1>4. Members(t, L)
  BY <1>2, <1>3, MembersAgree DEF Entries
<1>5. ASSUME NEW k \in 1 .. Len(D) - 1 PROVE EntryAt(t, D[k], files[k], L[k], D[k + 1])
  <2>1. k \in 1 .. Len(D) /\ k + 1 \in 1 .. Len(D) /\ k \in 1 .. Len(files) /\ k \in 1 .. Len(L)
    BY <1>1, <1>2
  <2> DEFINE f == files[k]
  <2>2. Writable(f) /\ Len(NameOf(f)) \in Nat /\ L[k] \in Nat /\ D[k] \in Nat /\ D[k + 1] \in Nat
        /\ D[k + 1] <= n
    <3>1. Writable(f) /\ Len(NameOf(f)) \in Nat
      BY <2>1, WritableFacts
    <3>2. Len(D) \in 1 .. Len(D)
      BY <1>1
    <3>3. D[k + 1] \in Nat /\ D[k + 1] <= D[Len(D)] /\ D[Len(D)] \in Nat /\ L[k] \in Nat /\ D[k] \in Nat
      BY <1>1, <1>2, <2>1, <3>2
    <3> HIDE DEF f
    <3>4. D[k + 1] <= n
      BY <3>3
    <3>. QED  BY <3>1, <3>3, <3>4
  <2>3. EntryAt(s, D[k], f, L[k], D[k + 1])
    BY DEF Entries
  <2> HIDE DEF f
  <2>4. PICK how, body :
          /\ StoredAt(s, L[k], f, how, body) /\ L[k] + 30 + Len(NameOf(f)) + Len(body) <= D[k]
          /\ At(s, D[k], CentralHeader(f, how, body, L[k]))
    BY <2>3 DEF EntryAt
  <2>5. D[k + 1] = D[k] + 46 + Len(NameOf(f)) /\ Is32(L[k])
    BY <2>3 DEF EntryAt
  <2>6. Fits(f, how, body)
    BY <2>4 DEF StoredAt
  <2>7. Len(body) \in Nat /\ Len(CentralHeader(f, how, body, L[k])) = 46 + Len(NameOf(f))
    BY <2>2, <2>5, <2>6, BodyFacts, CentralHeaderFacts
  <2>8. StoredAt(t, L[k], f, how, body)
    <3>1. L[k] + 30 + Len(NameOf(f)) + Len(body) <= n
      BY <2>2, <2>4, <2>5, <2>7
    <3>. QED  BY <2>2, <2>4, <3>1, StoredAgree
  <2>9. At(t, D[k], CentralHeader(f, how, body, L[k]))
    <3> DEFINE h == CentralHeader(f, how, body, L[k])
    <3>1. Len(h) \in Nat /\ D[k] + Len(h) <= n /\ At(s, D[k], h)
      BY <2>2, <2>4, <2>5, <2>7
    <3> HIDE DEF h
    <3>2. At(t, D[k], h)
      BY <2>2, <3>1, AgreeAt
    <3>. QED  BY <3>2 DEF h
  <2>10. EntryAt(t, D[k], f, L[k], D[k + 1])
    BY <2>4, <2>5, <2>8, <2>9 DEF EntryAt
  <2>. QED  BY <2>10 DEF f
<1>6. D[Len(D)] <= Len(t)
  BY <1>1, <1>2 DEF Agree
<1>. QED  BY <1>2, <1>4, <1>5, <1>6 DEF Entries

LEMMA MemberMore ==
    ASSUME files \in FileLists, NEW s, NEW L, Members(s, L), Len(L) <= Len(files),
           NEW v \in Nat, v > L[Len(L)], v <= Len(s), MemberAt(s, L[Len(L)], files[Len(L)], v)
    PROVE  Members(s, Append(L, v))
<1> DEFINE M == Append(L, v)
<1>1. /\ Rising(M) /\ Len(M) = Len(L) + 1 /\ M[Len(L) + 1] = v
      /\ \A k \in 1 .. Len(L) : M[k] = L[k]
  BY RisingMore DEF Members
<1>2. Len(L) \in Nat /\ Len(L) >= 1 /\ Len(files) \in Nat
  BY RisingFacts, FilesFacts DEF Members
<1> HIDE DEF M
<1>3. ASSUME NEW k \in 1 .. Len(M) - 1 PROVE MemberAt(s, M[k], files[k], M[k + 1])
  <2>1. CASE k \in 1 .. Len(L) - 1
    <3>1. k \in 1 .. Len(L) /\ k + 1 \in 1 .. Len(L)
      BY <1>2, <2>1
    <3>. QED  BY <1>1, <2>1, <3>1 DEF Members
  <2>2. CASE k = Len(L)
    BY <1>1, <1>2, <2>2
  <2>. QED  BY <1>1, <1>2, <2>1, <2>2
<1>4. M[1] = 0 /\ M[Len(M)] <= Len(s) /\ Len(M) <= Len(files) + 1
  BY <1>1, <1>2 DEF Members
<1>5. Members(s, M)
  BY <1>1, <1>3, <1>4 DEF Members
<1>. QED  BY <1>5 DEF M

LEMMA EntryMore ==
    ASSUME files \in FileLists, NEW s, NEW L, NEW D, Entries(s, L, D), Len(D) <= Len(files),
           NEW v \in Nat, v > D[Len(D)], v <= Len(s),
           EntryAt(s, D[Len(D)], files[Len(D)], L[Len(D)], v)
    PROVE  Entries(s, L, Append(D, v))
<1> DEFINE M == Append(D, v)
<1>1. /\ Rising(M) /\ Len(M) = Len(D) + 1 /\ M[Len(D) + 1] = v
      /\ \A k \in 1 .. Len(D) : M[k] = D[k]
  BY RisingMore DEF Entries
<1>2. Len(D) \in Nat /\ Len(D) >= 1 /\ Len(files) \in Nat
  BY RisingFacts, FilesFacts DEF Entries
<1> HIDE DEF M
<1>3. ASSUME NEW k \in 1 .. Len(M) - 1 PROVE EntryAt(s, M[k], files[k], L[k], M[k + 1])
  <2>1. CASE k \in 1 .. Len(D) - 1
    <3>1. k \in 1 .. Len(D) /\ k + 1 \in 1 .. Len(D)
      BY <1>2, <2>1
    <3>. QED  BY <1>1, <2>1, <3>1 DEF Entries
  <2>2. CASE k = Len(D)
    BY <1>1, <1>2, <2>2
  <2>. QED  BY <1>1, <1>2, <2>1, <2>2
<1>4. M[1] = L[Len(L)] /\ M[Len(M)] <= Len(s) /\ Len(M) <= Len(files) + 1
  BY <1>1, <1>2 DEF Entries
<1>5. Entries(s, L, M)
  BY <1>1, <1>3, <1>4 DEF Entries
<1>. QED  BY <1>5 DEF M

--------------------------------------------------------------------------------
(***************************************************************************)
(* Writing.                                                                *)
(***************************************************************************)
LEMMA MemberPlaced ==
    ASSUME NEW s \in Seq(Cells), NEW at \in Nat, at <= Len(s),
           NEW f, Writable(f), NEW how, NEW body, Fits(f, how, body),
           NEW data \in Seq(Cells), At(data, 0, body)
    PROVE  LET t == Put(Put(s, at + 30 + Len(NameOf(f)), data), at, LocalHeader(f, how, body))
               next == at + 30 + Len(NameOf(f)) + Len(body)
           IN  /\ t \in Seq(Cells) /\ Agree(s, t, at) /\ next \in Nat /\ next > at /\ next <= Len(t)
               /\ MemberAt(t, at, f, next)
<1> DEFINE h == LocalHeader(f, how, body)
           n == Len(NameOf(f))
           size == Len(body)
           from == at + 30 + n
           u == Put(s, from, data)
           t == Put(u, at, h)
           next == from + size
<1>1. n \in Nat /\ h \in Seq(Cells) /\ IsSeq(h) /\ Len(h) = 30 + n
  BY LocalHeaderFacts, WritableFacts
<1>2. IsSeq(body) /\ size \in Nat /\ IsSeq(s) /\ IsSeq(data)
  BY BodyFacts, CellsSeq
<1>3. Len(s) \in Nat /\ Len(data) \in Nat /\ size <= Len(data)
  <2>1. 0 + Len(body) <= Len(data)
    BY DEF At
  <2>. QED  BY <1>2, <2>1, SeqFacts
<1>4. from \in Nat /\ at <= from /\ next \in Nat /\ next > at /\ from = at + Len(h)
  BY <1>1, <1>2
<1>5. \A k \in 1 .. size : data[k] = body[k]
  <2>1. \A k \in 1 .. Len(body) : data[0 + k] = body[k]
    BY DEF At
  <2>2. \A k \in 1 .. size : 0 + k = k
    OBVIOUS
  <2>. QED  BY <1>2, <2>1, <2>2
<1>0. u \in Seq(Cells)
  BY <1>4, CellsPut
<1> HIDE DEF h, n, size, from
<1>6. IsSeq(u) /\ Len(u) >= Len(s) /\ At(u, from, data) /\ Agree(s, u, at) /\ Len(u) \in Nat
  BY <1>2, <1>3, <1>4, PutFacts, AgreePut, SeqFacts
<1> HIDE DEF u
<1>7. /\ IsSeq(t) /\ Len(t) >= Len(u) /\ At(t, at, h) /\ Agree(u, t, at) /\ Len(t) \in Nat
      /\ \A k \in 1 .. Len(u) : k > at + Len(h) => t[k] = u[k]
  <2>1. at <= Len(u)
    BY <1>3, <1>6
  <2>2. IsSeq(t) /\ Len(t) >= Len(u) /\ At(t, at, h)
        /\ \A k \in 1 .. Len(u) : k > at + Len(h) => t[k] = u[k]
    BY <1>1, <1>6, PutFacts
  <2>3. Agree(u, t, at)
    BY <1>1, <1>6, <2>1, AgreePut
  <2>. QED  BY <2>2, <2>3, SeqFacts
<1>8. t \in Seq(Cells)
  BY <1>0, <1>1, CellsPut
<1> HIDE DEF t
<1>9. Agree(s, t, at)
  BY <1>6, <1>7, AgreeTrans
<1>10. At(t, from, body) /\ next <= Len(t)
  <2>1. from + Len(data) <= Len(u) /\ \A k \in 1 .. Len(data) : u[from + k] = data[k]
    BY <1>6 DEF At
  <2>2. next <= Len(t)
    BY <1>2, <1>3, <1>4, <1>6, <1>7, <2>1
  <2>3. ASSUME NEW k \in 1 .. size PROVE t[from + k] = body[k]
    <3>1. k \in 1 .. Len(data) /\ from + k \in 1 .. Len(u) /\ from + k > at + Len(h)
      BY <1>1, <1>2, <1>3, <1>4, <1>6, <2>1
    <3>. QED  BY <1>5, <1>7, <2>1, <3>1
  <2>. QED  BY <1>2, <2>2, <2>3 DEF At, size
<1>11. MemberAt(t, at, f, next)
  <2>1. StoredAt(t, at, f, how, body)
    BY <1>7, <1>10 DEF StoredAt, from, n, h
  <2>. QED  BY <2>1 DEF MemberAt, from, n, size
<1>. QED  BY <1>4, <1>8, <1>9, <1>10, <1>11 DEF t, u, h, n, from, size

LEMMA InitHolds == ASSUME Init PROVE ZInv /\ RoomInv
<1>1. /\ <<>> \in Seq(Cells) /\ IsSeq(<<>>) /\ Len(<<>>) = 0
  BY DEF IsSeq
<1>2. phase \in {"members", "not_possible"}
  BY DEF Init
<1>3. phase # "not_possible" => MaxSize(files, comment) # 0
  BY MaxSizeSame DEF Init
<1>4. BaseInv
  BY <1>1, <1>2, <1>3 DEF Init, BaseInv
<1>5. ASSUME phase = "members" PROVE \E L : Members(dst, L) /\ i = Len(L) /\ p = L[i]
  <2> DEFINE L == <<0>>
  <2>1. Rising(L) /\ Len(L) = 1 /\ L[1] = 0
    BY RisingOne
  <2>2. Len(files) \in Nat
    BY FilesFacts, <1>4 DEF BaseInv
  <2> HIDE DEF L
  <2>3. Members(dst, L)
    BY <1>1, <2>1, <2>2 DEF Members, Init
  <2>. QED  BY <2>1, <2>3 DEF Init
<1>6. WriteInv
  BY <1>2, <1>5 DEF WriteInv, Init
<1>7. ReadInv
  BY <1>2 DEF ReadInv
<1>8. RoomInv
  <2>1. files \in FileLists /\ dst = <<>> /\ i = 1
    BY DEF Init
  <2>2. ASSUME NEW A, NEW C, IsRoom(A, C) PROVE Len(dst) <= A[i - 1]
    <3>1. A[0] = 0
      BY <2>1, <2>2, RoomFacts
    <3>. QED  BY <1>1, <2>1, <3>1
  <2>. QED  BY <1>2, <2>2 DEF RoomInv
<1>. QED  BY <1>4, <1>6, <1>7, <1>8 DEF ZInv

\* The number of the file that is written, or of its header.
LEMMA MemberNumber ==
    ASSUME ZInv, phase \in {"members", "directory"}
    PROVE  i \in 1 .. Len(files) + 1
<1>1. files \in FileLists /\ Len(files) \in Nat
  BY FilesFacts DEF ZInv, BaseInv
<1>2. \E L : Rising(L) /\ Len(L) <= Len(files) + 1 /\ i = Len(L)
  BY DEF ZInv, WriteInv, Members, Entries
<1>. QED  BY <1>1, <1>2, RisingFacts

\* The files, while an archive is written or read.
LEMMA Given ==
    ASSUME BaseInv, phase # "not_possible"
    PROVE  /\ files \in FileLists /\ comment \in Comments /\ Len(files) \in Nat /\ Is16(Len(files))
           /\ comment \in Seq(Cells) /\ IsSeq(comment) /\ Len(comment) \in Nat /\ Is16(Len(comment))
           /\ dst \in Seq(Cells) /\ IsSeq(dst) /\ Len(dst) \in Nat /\ p \in Nat /\ p <= Len(dst)
           /\ \A k \in 1 .. Len(files) : Writable(files[k])
<1>1. files \in FileLists /\ comment \in Comments /\ MaxSize(files, comment) # 0
  BY DEF BaseInv
<1>2. Len(files) \in Nat /\ Is16(Len(files)) /\ comment \in Seq(Cells) /\ Len(comment) \in Nat /\ IsSeq(comment)
  BY <1>1, FilesFacts, CommentFacts
<1>3. Is16(Len(comment))
  BY <1>1, SmallEnough
<1>4. \A k \in 1 .. Len(files) : Writable(files[k])
  BY <1>1, WritableFiles
<1>5. dst \in Seq(Cells) /\ IsSeq(dst) /\ Len(dst) \in Nat /\ p \in Nat /\ p <= Len(dst)
  BY CellsSeq DEF BaseInv
<1>. QED  BY <1>1, <1>2, <1>3, <1>4, <1>5

LEMMA RoomInvSuffices ==
    ASSUME ZInv, RoomInv
    PROVE  RoomSuffices
<1>1. files \in FileLists /\ comment \in Comments /\ Len(files) \in Nat /\ Len(comment) \in Nat
      /\ dst \in Seq(Cells) /\ Len(dst) \in Nat
  BY FilesFacts, CommentFacts, CellsSeq DEF ZInv, BaseInv
<1>2. TypeOK
  <2>1. DOMAIN extracted = 1 .. Len(extracted)
    BY SeqFacts DEF ZInv, BaseInv
  <2>. QED  BY <2>1 DEF ZInv, BaseInv, TypeOK, Cells
<1>3. ASSUME intact, phase # "not_possible" PROVE Len(dst) <= zip_max_size
  <2>. PICK A, C : IsRoom(A, C)
    BY <1>1, RoomExists
  <2> DEFINE N == Len(files)
  <2>1. zip_max_size = A[N] + C[N] + EOCDR_BASE_SZ + Len(comment)
    <3>1. zip_max_size # 0
      BY <1>3, MaxSizeSame DEF ZInv, BaseInv
    <3>. QED  BY <1>1, <3>1, MaxSizeIs
  <2>2. N \in 0 .. N /\ A[N] \in Nat /\ C[N] \in Nat
    BY <1>1, RoomFacts
  <2>3. CASE phase \in {"members", "directory"}
    <3>1. i - 1 \in 0 .. N
      BY <1>1, <2>3, MemberNumber
    <3>2. A[i - 1] \in Nat /\ C[i - 1] \in Nat /\ A[i - 1] <= A[N] /\ C[i - 1] <= C[N]
      BY <1>1, <3>1, RoomFacts
    <3>3. Len(dst) <= A[i - 1] \/ Len(dst) <= A[N] + C[i - 1]
      BY <2>3 DEF RoomInv
    <3>. QED  BY <1>1, <2>1, <2>2, <3>2, <3>3 DEF EOCDR_BASE_SZ
  <2>4. CASE phase \notin {"members", "directory"}
    BY <1>3, <2>1, <2>4 DEF RoomInv
  <2>. QED  BY <2>3, <2>4
<1>. QED  BY <1>2, <1>3 DEF RoomSuffices

\* So every offset fits into four bytes.
LEMMA OffsetsFit ==
    ASSUME ZInv, RoomInv, phase \in {"members", "directory"}, NEW n \in Nat, n <= Len(dst)
    PROVE  Is32(n)
<1>1. /\ files \in FileLists /\ comment \in Comments /\ MaxSize(files, comment) # 0 /\ Len(dst) \in Nat
      /\ intact /\ phase # "not_possible"
  BY Given DEF ZInv, BaseInv
<1>2. Len(dst) <= zip_max_size
  BY <1>1, RoomInvSuffices DEF RoomSuffices
<1>3. zip_max_size \in Nat /\ zip_max_size <= UINT32_MAX
  BY <1>1, SmallEnough
<1>. QED  BY <1>1, <1>2, <1>3, WidthFacts DEF Is32

LEMMA PutBound ==
    ASSUME NEW s, NEW at \in Nat, NEW c, IsSeq(s), IsSeq(c), NEW n \in Nat, Len(s) <= n, at + Len(c) <= n
    PROVE  Len(Put(s, at, c)) <= n
<1> DEFINE m == Max({Len(s), at + Len(c)})
           t == Put(s, at, c)
<1>1. Len(s) \in Nat /\ Len(c) \in Nat
  BY SeqFacts
<1>2. m \in Nat /\ m <= n
  BY <1>1, MaxOfTwo
<1>3. DOMAIN t = 1 .. m /\ t = [k \in 1 .. m |-> t[k]]
  BY DEF Put
<1> HIDE DEF t, m
<1>4. Len(t) = m
  BY <1>2, <1>3, SeqOfFunction
<1>. QED  BY <1>2, <1>4 DEF t

\* What the room depends on does not change.
LEMMA RoomKept ==
    ASSUME UNCHANGED <<files, comment>>
    PROVE  \A A, C : IsRoom(A, C)' <=> IsRoom(A, C)
  BY DEF IsRoom, MemberSizes, EntrySizes

\* The file zip_write is at.
LEMMA FileAt ==
    ASSUME ZInv, phase = "members", i <= Len(files)
    PROVE  i \in 1 .. Len(files) /\ Writable(files[i])
<1>1. i \in 1 .. Len(files) + 1 /\ Len(files) \in Nat /\ \A k \in 1 .. Len(files) : Writable(files[k])
  BY MemberNumber, Given DEF ZInv
<1>. QED  BY <1>1

\* A member is written behind the others, in the room that is its own, where its
\* compressed data may have bytes of the compressor behind it.
LEMMA MemberStep ==
    ASSUME ZInv, RoomInv, phase = "members", i <= Len(files), NEW how, NEW body, Fits(files[i], how, body),
           NEW data \in Seq(Cells), At(data, 0, body), Len(data) <= Len(DataOf(files[i])),
           Member(how, Len(body), data)
    PROVE  ZInv' /\ RoomInv'
<1> DEFINE f == files[i]
<1>1. PICK L : Members(dst, L) /\ i = Len(L) /\ p = L[i]
  BY DEF ZInv, WriteInv
<1>2. files \in FileLists /\ Len(files) \in Nat /\ i \in 1 .. Len(files) /\ Writable(f)
      /\ \A k \in 1 .. Len(files) : Writable(files[k])
  BY FileAt, Given DEF ZInv
<1>3. dst \in Seq(Cells) /\ IsSeq(dst) /\ Len(dst) \in Nat /\ p \in Nat /\ p <= Len(dst)
      /\ IsSeq(data) /\ Len(data) \in Nat
  BY Given, CellsSeq DEF ZInv
<1> DEFINE h == LocalHeader(f, how, body)
           at == p + 30 + Len(NameOf(f))
           t == Put(Put(dst, at, data), p, h)
           next == p + 30 + Len(NameOf(f)) + Len(body)
<1>4. dst' = t /\ p' = next
  BY DEF Member, LocalHeader, NameOf, LFH_BASE_SZ
<1>5. /\ phase' = phase /\ files' = files /\ comment' = comment /\ i' = i + 1
      /\ lfh_offset' = lfh_offset /\ cd_offset' = cd_offset /\ intact' = intact
      /\ eocdr' = eocdr /\ members_end' = members_end /\ offset' = offset /\ extracted' = extracted
  BY DEF Member, given, reading
<1>6. /\ t \in Seq(Cells) /\ Agree(dst, t, p) /\ next \in Nat /\ next > p /\ next <= Len(t)
      /\ MemberAt(t, p, f, next)
  BY <1>2, <1>3, MemberPlaced
<1>20. /\ IsSeq(h) /\ Len(h) = 30 + Len(NameOf(f)) /\ Len(NameOf(f)) \in Nat /\ Len(DataOf(f)) \in Nat
  BY <1>2, LocalHeaderFacts, WritableFacts
<1> HIDE DEF t, next, f, h
<1>7. BaseInv'
  BY <1>2, <1>4, <1>5, <1>6 DEF ZInv, BaseInv
<1>8. Members(t, L)
  BY <1>1, <1>2, <1>3, <1>6, MembersAgree
<1>9. \E M : Members(t, M) /\ Len(M) = i + 1 /\ M[i + 1] = next
  <2>1. Members(t, Append(L, next))
    BY <1>1, <1>2, <1>6, <1>8, MemberMore DEF f
  <2>2. Rising(L) /\ next > L[Len(L)]
    BY <1>1, <1>6 DEF Members
  <2>3. Len(Append(L, next)) = i + 1 /\ Append(L, next)[i + 1] = next
    BY <1>1, <1>6, <2>2, RisingMore
  <2>. QED  BY <2>1, <2>3
<1>10. PICK M : Members(t, M) /\ Len(M) = i + 1 /\ M[i + 1] = next
  BY <1>9
<1>11. Members(dst, M)'
  BY <1>4, <1>5, <1>10 DEF Members
<1>12. WriteInv'
  <2>2. i' = Len(M) /\ p' = M[i']
    BY <1>4, <1>5, <1>10
  <2>3. (\E K : Members(dst, K) /\ i = Len(K) /\ p = K[i])'
    BY <1>11, <2>2
  <2>. QED  BY <1>5, <2>3 DEF ZInv, WriteInv
<1>13. ReadInv'
  BY <1>5 DEF ReadInv
<1>14. RoomInv'
  <2>1. ASSUME NEW A, NEW C, IsRoom(A, C) PROVE Len(dst') <= A[i' - 1]
    <3>. PICK m \in Nat : m = MemberSize(f)
      BY <1>2, <2>1, RoomFacts DEF f
    <3>1. A[i] \in Nat /\ A[i - 1] \in Nat /\ A[i] = A[i - 1] + m
      <4>1. i \in 0 .. Len(files) /\ i - 1 \in 0 .. Len(files)
        BY <1>2
      <4>. QED  BY <1>2, <2>1, <4>1, RoomFacts DEF f
    <3>2. Len(dst) <= A[i - 1]
      BY <2>1 DEF RoomInv
    <3>3. at \in Nat /\ at + Len(data) <= p + m /\ p + Len(h) <= p + m /\ Len(h) \in Nat
      <4>1. m = 30 + Len(NameOf(f)) + Len(DataOf(f)) /\ Len(data) <= Len(DataOf(f))
        BY DEF MemberSize, LFH_BASE_SZ, f
      <4>. QED  BY <1>3, <1>20, <4>1
    <3> HIDE DEF at
    <3>4. Len(dst) <= A[i] /\ at + Len(data) <= A[i] /\ p + Len(h) <= A[i]
      BY <1>3, <3>1, <3>2, <3>3
    <3>5. IsSeq(Put(dst, at, data)) /\ Len(Put(dst, at, data)) <= A[i]
      BY <1>3, <3>1, <3>3, <3>4, PutFacts, PutBound
    <3>6. Len(t) <= A[i]
      BY <1>3, <1>20, <3>1, <3>4, <3>5, PutBound DEF t
    <3>7. i' - 1 = i
      BY <1>2, <1>5
    <3>. QED  BY <1>4, <3>6, <3>7
  <2>2. \A A, C : IsRoom(A, C)' <=> IsRoom(A, C)
    BY <1>5, RoomKept
  <2>. QED  BY <1>5, <2>1, <2>2 DEF RoomInv
<1>. QED  BY <1>7, <1>12, <1>13, <1>14 DEF ZInv

\* A sequence begins with itself, and with the first of two.
LEMMA AtStart ==
    ASSUME NEW a, NEW b, IsSeq(a), IsSeq(b)
    PROVE  At(a, 0, a) /\ At(a \o b, 0, a)
<1> DEFINE c == a \o b
<1>1. /\ Len(a) \in Nat /\ Len(b) \in Nat /\ Len(c) = Len(a) + Len(b)
      /\ \A k \in 1 .. Len(a) : c[k] = a[k]
  BY SeqFacts, ConcatFacts
<1> HIDE DEF c
<1>2. At(a, 0, a) /\ At(c, 0, a)
  BY <1>1 DEF At
<1>. QED  BY <1>2 DEF c

LEMMA WriteStoredKeeps == ASSUME ZInv, RoomInv, WriteStored PROVE ZInv' /\ RoomInv'
<1> DEFINE d == DataOf(files[i])
<1>1. phase = "members" /\ i <= Len(files) /\ Member(ZIP_STORE, Len(d), d)
  BY DEF WriteStored, DataOf
<1>2. d \in Seq(Cells) /\ IsSeq(d) /\ Len(d) \in Nat /\ Len(d) <= Len(d)
  BY <1>1, FileAt, WritableFacts
<1>3. Fits(files[i], ZIP_STORE, d)
  BY DEF Fits
<1>4. At(d, 0, d)
  BY <1>2, AtStart
<1> HIDE DEF d
<1>. QED  BY <1>1, <1>2, <1>3, <1>4, MemberStep DEF d

LEMMA WriteCompressedKeeps == ASSUME ZInv, RoomInv, WriteCompressed PROVE ZInv' /\ RoomInv'
<1> DEFINE d == DataOf(files[i])
           rest(n) == [j \in 1 .. Len(d) - 1 - n |-> JUNK]
<1>1. phase = "members" /\ i <= Len(files)
  BY DEF WriteCompressed
<1>2. PICK k \in Codes : /\ k.method = method /\ k.data = d /\ Len(k.bytes) <= Len(d) - 1
                         /\ Member(method, Len(k.bytes), k.bytes \o rest(Len(k.bytes)))
  BY DEF WriteCompressed, DataOf
<1>3. Writable(files[i]) /\ Len(d) \in Nat
  BY <1>1, FileAt, WritableFacts
<1> DEFINE b == k.bytes
           r == rest(Len(b))
<1>4. Fits(files[i], method, b)
  BY <1>2 DEF Fits
<1>5. b \in Seq(Cells) /\ IsSeq(b) /\ Len(b) \in Nat
  BY <1>3, <1>4, BodyFacts
<1>6. r \in Seq(Cells) /\ IsSeq(r) /\ Len(r) = Len(d) - 1 - Len(b)
  <2> DEFINE m == Len(d) - 1 - Len(b)
  <2>1. m \in Nat
    BY <1>2, <1>3, <1>5
  <2>2. r = [j \in 1 .. m |-> JUNK]
    OBVIOUS
  <2> HIDE DEF r, m, b, d
  <2>3. DOMAIN r = 1 .. m /\ r = [j \in 1 .. m |-> r[j]] /\ \A j \in 1 .. m : r[j] \in Cells
    BY <2>2, CellsFacts DEF Cells
  <2>4. r \in Seq(Cells)
    BY <2>1, <2>3, CellsOfFunction
  <2>5. IsSeq(r) /\ Len(r) = m
    BY <2>1, <2>3, SeqOfFunction
  <2>. QED  BY <2>4, <2>5 DEF m
<1>7. Member(method, Len(b), b \o r) /\ Len(b) <= Len(d) - 1
  BY <1>2
<1> HIDE DEF b, d, r
<1>8. b \o r \in Seq(Cells) /\ At(b \o r, 0, b) /\ Len(b \o r) <= Len(d)
  <2>1. b \o r \in Seq(Cells) /\ At(b \o r, 0, b)
    BY <1>5, <1>6, CellsConcat, AtStart
  <2>2. Len(b \o r) = Len(b) + Len(r)
    BY <1>5, <1>6, ConcatFacts
  <2>. QED  BY <1>3, <1>5, <1>6, <2>1, <2>2
<1>. QED  BY <1>1, <1>4, <1>7, <1>8, MemberStep DEF d

LEMMA StartDirectoryKeeps == ASSUME ZInv, RoomInv, StartDirectory PROVE ZInv' /\ RoomInv'
<1>1. /\ phase = "members" /\ i > Len(files)
      /\ phase' = "directory" /\ i' = 1 /\ cd_offset' = p
      /\ files' = files /\ comment' = comment /\ dst' = dst /\ p' = p
      /\ lfh_offset' = lfh_offset /\ intact' = intact /\ eocdr' = eocdr
      /\ members_end' = members_end /\ offset' = offset /\ extracted' = extracted
  BY DEF StartDirectory, given, reading
<1>2. PICK L : Members(dst, L) /\ i = Len(L) /\ p = L[i]
  BY <1>1 DEF ZInv, WriteInv
<1>3. BaseInv'
  BY <1>1 DEF ZInv, BaseInv
<1>14. files \in FileLists /\ Len(files) \in Nat /\ i = Len(files) + 1 /\ p \in Nat /\ p <= Len(dst)
  BY <1>1, FilesFacts, MemberNumber DEF ZInv, BaseInv
<1> DEFINE D == <<p>>
<1>4. Rising(D) /\ Len(D) = 1 /\ D[1] = p
  BY <1>14, RisingOne
<1> HIDE DEF D
<1>5. Len(L) = Len(files) + 1
  BY <1>2, <1>14
<1>6. Entries(dst, L, D)
  BY <1>2, <1>4, <1>5, <1>14 DEF Entries
<1>7. \E M, E : /\ Entries(dst, M, E) /\ p = E[1] /\ 1 = Len(E) /\ 0 = M[1]
  BY <1>2, <1>4, <1>6 DEF Members
<1>8. PICK M, E : Entries(dst, M, E) /\ p = E[1] /\ 1 = Len(E) /\ 0 = M[1]
  BY <1>7
<1>9. Entries(dst, M, E)'
  BY <1>1, <1>8 DEF Entries, Members
<1>10. lfh_offset = 0
  BY <1>1 DEF ZInv, WriteInv
<1>11. (\E K, J : /\ Entries(dst, K, J) /\ cd_offset = J[1]
                 /\ i = Len(J) /\ lfh_offset = K[i] /\ p = J[i])'
  BY <1>1, <1>8, <1>9, <1>10
<1>12. WriteInv'
  BY <1>1, <1>11 DEF WriteInv
<1>13. ReadInv'
  BY <1>1 DEF ReadInv
<1>15. RoomInv'
  <2>1. ASSUME NEW A, NEW C, IsRoom(A, C) PROVE Len(dst') <= A[Len(files')] + C[i' - 1]
    <3>1. Len(dst) <= A[i - 1] /\ i - 1 = Len(files)
      BY <1>1, <1>14, <2>1 DEF RoomInv
    <3>2. A[Len(files)] \in Nat /\ C[0] = 0
      <4>1. Len(files) \in 0 .. Len(files)
        BY <1>14
      <4>. QED  BY <1>14, <2>1, <4>1, RoomFacts
    <3>. QED  BY <1>1, <3>1, <3>2
  <2>2. \A A, C : IsRoom(A, C)' <=> IsRoom(A, C)
    BY <1>1, RoomKept
  <2>. QED  BY <1>1, <2>1, <2>2 DEF RoomInv
<1>. QED  BY <1>3, <1>12, <1>13, <1>15 DEF ZInv

LEMMA WriteEntryKeeps == ASSUME ZInv, RoomInv, WriteEntry PROVE ZInv' /\ RoomInv'
<1>1. /\ phase = "directory" /\ i <= Len(files) /\ UNCHANGED <<given, cd_offset, intact, reading>>
  BY DEF WriteEntry
<1>2. PICK L, D : /\ Entries(dst, L, D) /\ cd_offset = D[1]
                  /\ i = Len(D) /\ lfh_offset = L[i] /\ p = D[i]
  BY <1>1 DEF ZInv, WriteInv
<1>3. /\ files \in FileLists /\ dst \in Seq(Cells) /\ IsSeq(dst) /\ p \in Nat /\ p <= Len(dst)
      /\ Len(dst) \in Nat /\ Len(files) \in Nat /\ \A k \in 1 .. Len(files) : Writable(files[k])
  BY <1>1, Given DEF ZInv
<1> DEFINE f == files[i]
<1>4. /\ i \in 1 .. Len(files) /\ Len(L) = Len(files) + 1 /\ Writable(f)
      /\ NameOf(f) \in Seq(Cells) /\ IsSeq(NameOf(f)) /\ Len(NameOf(f)) \in Nat
  <2>1. i \in 1 .. Len(files)
    BY <1>1, <1>3, MemberNumber
  <2>2. Writable(f)
    BY <1>3, <2>1
  <2>. QED  BY <1>2, <2>1, <2>2, WritableFacts DEF Entries
<1> HIDE DEF f
<1>5. /\ L[i] \in Nat /\ L[i + 1] \in Nat /\ L[i + 1] <= p /\ MemberAt(dst, L[i], f, L[i + 1])
  <2>1. Members(dst, L) /\ D[1] = L[Len(L)] /\ Rising(D)
    BY <1>2 DEF Entries
  <2>2. i \in 1 .. Len(L) /\ i + 1 \in 1 .. Len(L) /\ i \in 1 .. Len(L) - 1
    BY <1>3, <1>4
  <2>3. L[i] \in Nat /\ L[i + 1] \in Nat /\ L[i + 1] <= L[Len(L)] /\ MemberAt(dst, L[i], f, L[i + 1])
    BY <2>1, <2>2, RisingFacts DEF Members, f
  <2>4. D[1] \in Nat /\ D[1] <= p
    <3>1. 1 \in 1 .. Len(D)
      BY <1>2, <1>4
    <3>. QED  BY <1>2, <2>1, <3>1, RisingFacts
  <2>. QED  BY <1>3, <2>1, <2>3, <2>4
<1>6. PICK how, body : /\ StoredAt(dst, L[i], f, how, body)
                       /\ L[i + 1] = L[i] + 30 + Len(NameOf(f)) + Len(body)
  BY <1>5 DEF MemberAt
<1>7. Fits(f, how, body) /\ Len(body) \in Nat
  <2>1. Fits(f, how, body)
    BY <1>6 DEF StoredAt
  <2>. QED  BY <1>4, <2>1, BodyFacts
<1>8. Is32(L[i])
  BY <1>1, <1>3, <1>5, <1>6, <1>7, <1>4, OffsetsFit
<1> DEFINE l == lfh(f, how, Len(body))
           h == CentralHeader(f, how, body, L[i])
           t == Put(dst, p, h)
           next == p + 46 + Len(NameOf(f))
<1>9. /\ IsLfh(dst, L[i]) /\ read_lfh(dst, L[i]) = l
      /\ Cut(dst, L[i] + 30, Len(NameOf(f))) = NameOf(f)
  BY <1>3, <1>4, <1>5, <1>6, StoredRead
<1>10. l.name_len = Len(NameOf(f)) /\ l.comp_size = Len(body)
  BY DEF lfh, NameOf
<1>11. cfh(l) = Entry(l, L[i])
  BY <1>2 DEF cfh, Entry
<1>12. h \in Seq(Cells) /\ IsSeq(h) /\ Len(h) = 46 + Len(NameOf(f))
  BY <1>4, <1>7, <1>8, CentralHeaderFacts
<1>13. h = write_cfh(Entry(l, L[i]), NameOf(f))
  BY DEF CentralHeader
<1> HIDE DEF l, h
<1>14. /\ dst' = t /\ p' = next /\ i' = i + 1 /\ phase' = phase /\ lfh_offset' = L[i + 1]
  <2>1. IsLfh(dst, lfh_offset) /\ read_lfh(dst, lfh_offset) = l
    BY <1>2, <1>9
  <2> DEFINE b == write_cfh(cfh(l), Cut(dst, lfh_offset + LFH_BASE_SZ, l.name_len))
  <2>2. /\ dst' = Put(dst, p, b) /\ p' = p + Len(b)
        /\ lfh_offset' = NextLfh(l) /\ i' = i + 1 /\ UNCHANGED phase
    BY <2>1 DEF WriteEntry
  <2>3. b = h
    BY <1>2, <1>9, <1>10, <1>11, <1>13 DEF LFH_BASE_SZ
  <2>4. NextLfh(l) = L[i + 1]
    BY <1>2, <1>6, <1>10 DEF NextLfh, LFH_BASE_SZ
  <2> HIDE DEF b
  <2>5. p + Len(h) = next
    BY <1>3, <1>4, <1>12
  <2>. QED  BY <2>2, <2>3, <2>4, <2>5
<1>15. t \in Seq(Cells)
  BY <1>3, <1>12, CellsPut
<1>16. /\ IsSeq(t) /\ Agree(dst, t, p) /\ At(t, p, h) /\ next \in Nat /\ next > p
  <2>1. Agree(dst, t, p)
    BY <1>3, <1>12, AgreePut
  <2>2. IsSeq(t) /\ At(t, p, h)
    BY <1>3, <1>12, PutFacts
  <2>3. next \in Nat /\ next > p
    BY <1>3, <1>4
  <2>. QED  BY <2>1, <2>2, <2>3
<1>17. next <= Len(t)
  <2>1. p + Len(h) <= Len(t)
    BY <1>16 DEF At
  <2> HIDE DEF t
  <2>2. p + Len(h) = next
    BY <1>3, <1>4, <1>12
  <2>. QED  BY <2>1, <2>2
<1>18. EntryAt(t, p, f, L[i], next)
  <2>1. L[i] + 30 + Len(NameOf(f)) + Len(body) <= p
    BY <1>5, <1>6
  <2>2. StoredAt(t, L[i], f, how, body)
    BY <1>3, <1>4, <1>5, <1>6, <1>16, <2>1, StoredAgree
  <2>. QED  BY <1>8, <1>16, <2>1, <2>2 DEF EntryAt, h
<1> HIDE DEF t, next
<1>19. Entries(t, L, D)
  BY <1>2, <1>3, <1>16, EntriesAgree
<1>20. \E E : Entries(t, L, E) /\ Len(E) = i + 1 /\ E[i + 1] = next /\ E[1] = D[1]
  <2>1. Entries(t, L, Append(D, next))
    BY <1>1, <1>2, <1>3, <1>16, <1>17, <1>18, <1>19, EntryMore DEF f
  <2>2. Rising(D) /\ next > D[Len(D)]
    BY <1>2, <1>16 DEF Entries
  <2>3. Len(Append(D, next)) = i + 1 /\ Append(D, next)[i + 1] = next /\ Append(D, next)[1] = D[1]
    BY <1>2, <1>4, <1>16, <2>2, RisingMore
  <2>. QED  BY <2>1, <2>3
<1>21. PICK E : Entries(t, L, E) /\ Len(E) = i + 1 /\ E[i + 1] = next /\ E[1] = D[1]
  BY <1>20
<1>22. /\ files' = files /\ comment' = comment /\ cd_offset' = cd_offset /\ intact' = intact
       /\ eocdr' = eocdr /\ members_end' = members_end /\ offset' = offset /\ extracted' = extracted
  BY <1>1 DEF given, reading
<1>23. BaseInv'
  BY <1>1, <1>5, <1>14, <1>15, <1>16, <1>17, <1>22 DEF ZInv, BaseInv
<1>24. Entries(dst, L, E)'
  BY <1>14, <1>21, <1>22 DEF Entries, Members
<1>25. (\E K, J : /\ Entries(dst, K, J) /\ cd_offset = J[1]
                 /\ i = Len(J) /\ lfh_offset = K[i] /\ p = J[i])'
  BY <1>2, <1>14, <1>21, <1>22, <1>24
<1>26. WriteInv'
  BY <1>1, <1>14, <1>25 DEF WriteInv
<1>27. ReadInv'
  BY <1>1, <1>14 DEF ReadInv
<1>28. RoomInv'
  <2>1. ASSUME NEW A, NEW C, IsRoom(A, C) PROVE Len(dst') <= A[Len(files')] + C[i' - 1]
    <3> DEFINE N == Len(files)
               n == A[N] + C[i]
    <3>1. N \in 0 .. N /\ i \in 0 .. N /\ i - 1 \in 0 .. N
      BY <1>3, <1>4
    <3>. PICK m \in Nat : m = EntrySize(f)
      BY <1>3, <1>4, <2>1, RoomFacts DEF f
    <3>2. A[N] \in Nat /\ C[i] \in Nat /\ C[i - 1] \in Nat /\ C[i] = C[i - 1] + m
      BY <1>3, <1>4, <2>1, <3>1, RoomFacts DEF f
    <3>3. Len(dst) <= A[N] + C[i - 1]
      BY <1>1, <2>1 DEF RoomInv
    <3>4. Len(h) = m
      BY <1>12 DEF EntrySize, CFH_BASE_SZ
    <3>5. n \in Nat /\ Len(dst) <= n /\ p + Len(h) <= n
      BY <1>3, <3>2, <3>3, <3>4, SMTT(30)
    <3> HIDE DEF n
    <3>6. Len(dst') <= n
      BY <1>3, <1>12, <1>14, <3>5, PutBound DEF t
    <3>7. i' - 1 = i /\ Len(files') = N
      BY <1>4, <1>14, <1>22
    <3>. QED  BY <3>6, <3>7 DEF n
  <2>2. \A A, C : IsRoom(A, C)' <=> IsRoom(A, C)
    BY <1>22, RoomKept
  <2>. QED  BY <1>1, <1>14, <2>1, <2>2 DEF RoomInv
<1>. QED  BY <1>23, <1>26, <1>27, <1>28 DEF ZInv

LEMMA EndFits ==
    ASSUME NEW D, Len(files) \in Nat, Is16(Len(files)), Is16(Len(comment)),
           Rising(D), Is32(D[Len(D)])
    PROVE  FitsEnd(End(D))
<1>1. D[1] \in Nat /\ D[Len(D)] \in Nat /\ D[1] <= D[Len(D)]
  <2>1. 1 \in 1 .. Len(D) /\ Len(D) \in 1 .. Len(D)
    BY RisingFacts
  <2>. QED  BY <2>1, RisingFacts
<1>2. Is32(D[1]) /\ Is32(D[Len(D)] - D[1]) /\ Is16(0)
  BY <1>1, WidthFacts DEF Is16, Is32
<1> DEFINE e == End(D)
<1>3. /\ e.disk_nbr = 0 /\ e.cd_start_disk = 0 /\ e.disk_cd_entries = Len(files)
      /\ e.cd_entries = Len(files) /\ e.cd_size = D[Len(D)] - D[1] /\ e.cd_offset = D[1]
      /\ e.comment_len = Len(comment)
  BY DEF End
<1> HIDE DEF e
<1>4. FitsEnd(e)
  BY <1>2, <1>3, Zenon DEF FitsEnd
<1>. QED  BY <1>4 DEF e

LEMMA WriteEndKeeps == ASSUME ZInv, RoomInv, WriteEnd PROVE ZInv' /\ RoomInv'
<1>1. phase = "directory" /\ i > Len(files)
  BY DEF WriteEnd
<1>2. PICK L, D : /\ Entries(dst, L, D) /\ cd_offset = D[1]
                  /\ i = Len(D) /\ lfh_offset = L[i] /\ p = D[i]
  BY <1>1 DEF ZInv, WriteInv
<1> DEFINE n == Len(comment)
           h == write_eocdr(End(D), comment)
           t == Put(dst, p, h)
           next == p + 22 + n
           u == Cut(t, 0, next)
<1>3. /\ files \in FileLists /\ Len(files) \in Nat /\ Is16(Len(files)) /\ Is16(n)
      /\ \A k \in 1 .. Len(files) : Writable(files[k])
      /\ dst \in Seq(Cells) /\ IsSeq(dst) /\ Len(dst) \in Nat /\ p \in Nat /\ p <= Len(dst)
      /\ comment \in Seq(Cells) /\ IsSeq(comment) /\ n \in Nat
  BY <1>1, Given DEF ZInv
<1>4. Len(D) = Len(files) + 1 /\ p = D[Len(D)] /\ Rising(D) /\ i = Len(files) + 1
  BY <1>1, <1>2, <1>3, MemberNumber DEF Entries
<1>5. /\ dst' = t /\ p' = next /\ phase' = "written"
      /\ files' = files /\ comment' = comment /\ i' = i
      /\ lfh_offset' = lfh_offset /\ cd_offset' = cd_offset /\ intact' = intact
      /\ eocdr' = eocdr /\ members_end' = members_end /\ offset' = offset /\ extracted' = extracted
  BY <1>2, <1>4 DEF WriteEnd, End, given, reading, EOCDR_BASE_SZ
<1>6. Is32(p) /\ FitsEnd(End(D))
  <2>1. Is32(p)
    BY <1>1, <1>3, OffsetsFit
  <2>. QED  BY <1>3, <1>4, <2>1, EndFits
<1>7. h \in Seq(Cells) /\ IsSeq(h) /\ Len(h) = 22 + n
  <2>1. h \in Seq(Cells) /\ Len(h) = 22 + n
    BY <1>3, <1>6, EndWritten
  <2>. QED  BY <2>1, CellsSeq
<1> HIDE DEF h
<1>8. t \in Seq(Cells) /\ IsSeq(t) /\ Agree(dst, t, p) /\ At(t, p, h) /\ Len(t) \in Nat
  <2>1. t \in Seq(Cells)
    BY <1>3, <1>7, CellsPut
  <2>2. Agree(dst, t, p)
    BY <1>3, <1>7, AgreePut
  <2>3. At(t, p, h)
    BY <1>3, <1>7, PutFacts
  <2> HIDE DEF t
  <2>. QED  BY <2>1, <2>2, <2>3, CellsSeq
<1> HIDE DEF t
<1>9. next \in Nat /\ next = p + Len(h) /\ next <= Len(t) /\ Len(h) \in Nat
  BY <1>3, <1>7, <1>8 DEF At
<1> HIDE DEF next
<1>10. Len(u) = next /\ Agree(t, u, next)
  BY <1>8, <1>9, AgreeCut
<1> HIDE DEF u
<1>11. Entries(u, L, D)
  <2>1. Entries(t, L, D)
    BY <1>2, <1>3, <1>4, <1>8, EntriesAgree
  <2>2. D[Len(D)] <= next
    BY <1>3, <1>4, <1>7, <1>9
  <2>. QED  BY <1>3, <1>10, <1>9, <2>1, <2>2, EntriesAgree
<1>12. At(u, p, h)
  BY <1>3, <1>8, <1>9, <1>10, AgreeAt
<1>13. Complete(u, L, D)
  <2>1. Len(u) = D[Len(D)] + 22 + Len(comment)
    BY <1>4, <1>10 DEF next
  <2>. QED  BY <1>2, <1>4, <1>6, <1>11, <1>12, <2>1 DEF Complete, h
<1>14. Archive' = u
  BY <1>5 DEF Archive, u
<1>15. Complete(Archive, L, D)'
  <2>1. End(D)' = End(D)
    BY <1>5 DEF End
  <2>. QED  BY <1>5, <1>13, <1>14, <2>1 DEF Complete, Entries, Members
<1>16. BaseInv'
  BY <1>1, <1>5, <1>8, <1>9 DEF ZInv, BaseInv
<1>17. WriteInv'
  <2>1. (\E K, J : Complete(Archive, K, J))'
    BY <1>15
  <2>. QED  BY <1>5, <2>1 DEF WriteInv
<1>18. ReadInv'
  BY <1>5 DEF ReadInv
<1>19. RoomInv'
  <2>1. ASSUME NEW A, NEW C, IsRoom(A, C)
        PROVE  Len(dst') <= A[Len(files')] + C[Len(files')] + EOCDR_BASE_SZ + Len(comment')
    <3> DEFINE N == Len(files)
               m == A[N] + C[N] + EOCDR_BASE_SZ + n
    <3>1. N \in 0 .. N /\ i - 1 = N
      BY <1>3, <1>4
    <3>2. A[N] \in Nat /\ C[N] \in Nat
      BY <1>3, <2>1, <3>1, RoomFacts
    <3>3. Len(dst) <= A[N] + C[N]
      BY <1>1, <2>1, <3>1 DEF RoomInv
    <3>4. m \in Nat /\ Len(dst) <= m /\ p + Len(h) <= m
      BY <1>3, <1>7, <3>2, <3>3, SMTT(30) DEF EOCDR_BASE_SZ
    <3> HIDE DEF m
    <3>5. Len(dst') <= m
      BY <1>3, <1>5, <1>7, <3>4, PutBound DEF t
    <3>. QED  BY <1>5, <3>5 DEF m
  <2>2. \A A, C : IsRoom(A, C)' <=> IsRoom(A, C)
    BY <1>5, RoomKept
  <2>. QED  BY <1>5, <2>1, <2>2 DEF RoomInv
<1>. QED  BY <1>16, <1>17, <1>18, <1>19 DEF ZInv

LEMMA DamagedIsCells ==
    ASSUME NEW s \in Seq(Cells), NEW t \in Damaged(s) PROVE t \in Seq(Cells)
<1>1. \A b \in Patches : b \in Seq(Cells)
  <2>1. \A b \in Patches : b \in Seq(Byte)
    BY InputAssumption
  <2>. QED  BY <2>1, BytesAreCells, Zenon
<1>2. CASE \E n \in 0 .. Len(s) - 1 : t = SubSeq(s, 1, n)
  <2>1. PICK n \in 0 .. Len(s) - 1 : t = SubSeq(s, 1, n)
    BY <1>2
  <2>2. n \in Nat /\ n <= Len(s) /\ 0 + 1 = 1 /\ 0 + n = n
    OBVIOUS
  <2>3. t = Cut(s, 0, n)
    BY <2>1, <2>2 DEF Cut
  <2>. QED  BY <2>2, <2>3, CellsCut
<1>3. CASE \E b \in Patches : t = b \o s
  BY <1>1, <1>3, CellsConcat
<1>4. CASE \E b \in Patches : \E at \in 0 .. Len(s) - Len(b) : t = Put(s, at, b)
  <2>1. PICK b \in Patches : \E at \in 0 .. Len(s) - Len(b) : t = Put(s, at, b)
    BY <1>4
  <2>2. PICK at \in 0 .. Len(s) - Len(b) : t = Put(s, at, b)
    BY <2>1
  <2>3. at \in Nat
    OBVIOUS
  <2>. QED  BY <1>1, <2>2, <2>3, CellsPut
<1>5. \/ \E n \in 0 .. Len(s) - 1 : t = SubSeq(s, 1, n)
      \/ \E b \in Patches : t = b \o s
      \/ \E b \in Patches : \E at \in 0 .. Len(s) - Len(b) : t = Put(s, at, b)
  BY Zenon DEF Damaged
<1>. QED  BY <1>2, <1>3, <1>4, <1>5

\* The archive, whatever became of it.
LEMMA ArchiveFacts ==
    ASSUME BaseInv
    PROVE  Archive \in Seq(Cells) /\ IsSeq(Archive) /\ Len(Archive) = p /\ p \in Nat
<1>1. Archive \in Seq(Cells) /\ Len(Archive) = p /\ p \in Nat
  BY CellsCut DEF BaseInv, Archive
<1>. QED  BY <1>1, CellsSeq

LEMMA DamageKeeps == ASSUME ZInv, RoomInv, Damage PROVE ZInv' /\ RoomInv'
<1>1. PICK s \in Damaged(Archive) : dst' = s /\ p' = Len(s)
  BY DEF Damage
<1>2. /\ phase = "written" /\ phase' = phase /\ intact' = FALSE
      /\ files' = files /\ comment' = comment /\ i' = i
      /\ lfh_offset' = lfh_offset /\ cd_offset' = cd_offset
      /\ eocdr' = eocdr /\ members_end' = members_end /\ offset' = offset /\ extracted' = extracted
  BY DEF Damage, given, reading
<1>3. s \in Seq(Cells)
  BY ArchiveFacts, DamagedIsCells DEF ZInv
<1>4. BaseInv'
  <2>1. dst' \in Seq(Cells) /\ p' \in Nat /\ p' <= Len(dst')
    BY <1>1, <1>3
  <2>2. intact' \in BOOLEAN /\ (phase \in {"members", "directory"} => intact)'
    BY <1>2
  <2>. QED  BY <1>2, <2>1, <2>2 DEF ZInv, BaseInv
<1>5. WriteInv'
  BY <1>2 DEF WriteInv
<1>6. ReadInv'
  BY <1>2 DEF ReadInv
<1>7. RoomInv'
  BY <1>2 DEF RoomInv
<1>. QED  BY <1>4, <1>5, <1>6, <1>7 DEF ZInv

--------------------------------------------------------------------------------
(***************************************************************************)
(* Reading, of any file.                                                   *)
(***************************************************************************)
LEMMA EndRecordFacts ==
    ASSUME NEW s \in Seq(Cells), EndRecords(s) # {}
    PROVE  /\ back_offset(s) \in Nat /\ back_offset(s) \in EndRecords(s)
           /\ \A b \in EndRecords(s) : back_offset(s) <= b
           /\ EndFields(s).cd_offset \in Nat /\ EndFields(s).cd_entries \in Nat
<1> DEFINE S == EndRecords(s)
           b == back_offset(s)
           a == Len(s) - 22
<1>1. Len(s) \in Nat /\ a \in Int
  BY CellsSeq
<1>2. \A k \in S : k \in Nat /\ k <= a
  <2> HIDE DEF a
  <2>1. Min({MAX_BACK_OFFSET, a}) = IF MAX_BACK_OFFSET <= a THEN MAX_BACK_OFFSET ELSE a
    BY <1>1, MinOfTwo, ZipAssumption
  <2>2. Min({MAX_BACK_OFFSET, a}) <= a /\ Min({MAX_BACK_OFFSET, a}) \in Int
    BY <1>1, <2>1, ZipAssumption
  <2>. QED  BY <1>1, <2>2 DEF EndRecords, EOCDR_BASE_SZ, a
<1> HIDE DEF S
<1>3. S \subseteq Nat /\ S # {}
  BY <1>2 DEF S
<1>4. b \in S /\ \A k \in S : b <= k
  BY <1>3, MinOfSet DEF back_offset, S
<1>5. EndFields(s) = read_eocdr(s, a - b)
  BY DEF EndFields, EOCDR_BASE_SZ
<1> HIDE DEF b
<1>6. b \in Nat /\ b <= a
  BY <1>2, <1>4
<1> DEFINE at == a - b
<1>7. at \in Nat /\ at + 10 \in Nat /\ at + 16 \in Nat /\ at + 10 + 2 <= Len(s) /\ at + 16 + 4 <= Len(s)
  BY <1>1, <1>6
<1> HIDE DEF at
<1>8. read16le(s, at + 10) \in Nat /\ read32le(s, at + 16) \in Nat
  BY <1>7, Read16, Read32
<1>9. EndFields(s).cd_offset \in Nat /\ EndFields(s).cd_entries \in Nat
  BY <1>5, <1>8 DEF read_eocdr, at
<1>. QED  BY <1>3, <1>4, <1>6, <1>9 DEF b, S

LEMMA CfhFacts ==
    ASSUME NEW s \in Seq(Cells), NEW at \in Nat, HeaderAccepted(s, at)
    PROVE  /\ NextCfh(s, at) \in Nat /\ NextCfh(s, at) > at /\ NextCfh(s, at) <= Len(s)
<1> DEFINE n == read16le(s, at + 28)
           e == read16le(s, at + 30)
           m == read16le(s, at + 32)
<1>1. Len(s) \in Nat /\ at + 46 <= Len(s) /\ NextCfh(s, at) <= Len(s)
  BY CellsSeq DEF HeaderAccepted, IsCfh, CFH_BASE_SZ
<1>2. n \in Nat /\ e \in Nat /\ m \in Nat
  <2>1. /\ at + 28 \in Nat /\ at + 30 \in Nat /\ at + 32 \in Nat
        /\ at + 28 + 2 <= Len(s) /\ at + 30 + 2 <= Len(s) /\ at + 32 + 2 <= Len(s)
    BY <1>1
  <2>. QED  BY <2>1, Read16
<1>3. NextCfh(s, at) = at + 46 + n + e + m
  BY DEF NextCfh, read_cfh, CFH_BASE_SZ
<1> HIDE DEF n, e, m
<1>. QED  BY <1>1, <1>2, <1>3

LEMMA AcceptedMore ==
    ASSUME NEW s \in Seq(Cells), NEW O, NEW n \in Nat, Accepted(s, O, n), HeaderAccepted(s, O[n + 1])
    PROVE  LET Q == Append(O, NextCfh(s, O[n + 1]))
           IN  Accepted(s, Q, n + 1) /\ Q[n + 2] = NextCfh(s, O[n + 1])
<1> DEFINE v == NextCfh(s, O[n + 1])
           Q == Append(O, v)
<1>1. Rising(O) /\ Len(O) = n + 1 /\ O[n + 1] \in Nat
  BY RisingFacts DEF Accepted
<1>2. v \in Nat /\ v > O[n + 1]
  BY <1>1, CfhFacts
<1>3. /\ Rising(Q) /\ Len(Q) = Len(O) + 1 /\ Q[Len(O) + 1] = v
      /\ \A k \in 1 .. Len(O) : Q[k] = O[k]
  <2> HIDE DEF v
  <2>. QED  BY <1>1, <1>2, RisingMore
<1>4. Len(Q) = n + 2 /\ Q[n + 2] = v /\ \A k \in 1 .. n + 1 : Q[k] = O[k]
  BY <1>1, <1>3
<1> HIDE DEF Q
<1>5. ASSUME NEW k \in 1 .. n + 1 PROVE HeaderAccepted(s, Q[k]) /\ Q[k + 1] = NextCfh(s, Q[k])
  <2>1. CASE k \in 1 .. n
    <3>1. k \in 1 .. n + 1 /\ k + 1 \in 1 .. n + 1
      BY <2>1
    <3>. QED  BY <1>4, <2>1, <3>1 DEF Accepted
  <2>2. CASE k = n + 1
    BY <1>4, <2>2
  <2>. QED  BY <2>1, <2>2
<1>6. Q[1] = eocdr.cd_offset
  BY <1>4 DEF Accepted
<1>7. Accepted(s, Q, n + 1)
  BY <1>3, <1>4, <1>5, <1>6 DEF Accepted
<1>. QED  BY <1>4, <1>7 DEF Q

LEMMA WriteKept ==
    ASSUME ZInv, phase \in {"written", "read", "extract"}, UNCHANGED <<given, writing>>,
           phase' \notin {"members", "directory"}
    PROVE  WriteInv' /\ Archive' = Archive
<1>1. /\ files' = files /\ comment' = comment /\ dst' = dst /\ p' = p
      /\ cd_offset' = cd_offset /\ intact' = intact
  BY DEF given, writing
<1>2. Archive' = Archive
  BY <1>1 DEF Archive
<1>3. ASSUME intact PROVE (\E K, J : Complete(Archive, K, J))'
  <2>1. PICK K, J : Complete(Archive, K, J)
    BY <1>3 DEF ZInv, WriteInv
  <2>2. End(J)' = End(J)
    BY <1>1 DEF End
  <2>3. Complete(Archive, K, J)'
    BY <1>1, <1>2, <2>1, <2>2 DEF Complete, Entries, Members
  <2>. QED  BY <2>3
<1>. QED  BY <1>1, <1>2, <1>3 DEF WriteInv

LEMMA ReadEndKeeps == ASSUME ZInv, ReadEnd PROVE ZInv'
<1>1. /\ phase = "written" /\ UNCHANGED <<given, writing, members_end, extracted>>
      /\ phase' \in {"read", "refused"}
  BY DEF ReadEnd
<1>2. WriteInv' /\ Archive' = Archive
  BY <1>1, WriteKept
<1>3. /\ files' = files /\ comment' = comment /\ dst' = dst /\ p' = p /\ lfh_offset' = lfh_offset
      /\ cd_offset' = cd_offset /\ intact' = intact /\ members_end' = members_end
      /\ extracted' = extracted
  BY <1>1 DEF given, writing
<1>4. CASE phase' = "refused"
  <2>1. i' = i /\ offset' = offset
    BY <1>4 DEF ReadEnd
  <2>2. BaseInv'
    BY <1>1, <1>3, <1>4, <2>1 DEF ZInv, BaseInv
  <2>3. ReadInv'
    BY <1>4 DEF ReadInv
  <2>. QED  BY <1>2, <2>2, <2>3 DEF ZInv
<1>5. CASE phase' = "read"
  <2>1. /\ EndRecords(Archive) # {} /\ eocdr' = EndFields(Archive)
        /\ offset' = eocdr'.cd_offset /\ i' = 1
    BY <1>5 DEF ReadEnd, find_eocdr
  <2>2. eocdr'.cd_offset \in Nat /\ eocdr'.cd_entries \in Nat
    BY <2>1, ArchiveFacts, EndRecordFacts DEF ZInv
  <2>3. BaseInv'
    BY <1>1, <1>3, <1>5, <2>1, <2>2 DEF ZInv, BaseInv
  <2> DEFINE O == <<offset'>>
  <2>4. Rising(O) /\ Len(O) = 1 /\ O[1] = offset'
    BY <2>1, <2>2, RisingOne
  <2> HIDE DEF O
  <2>5. \E Q : Rising(Q) /\ Len(Q) = 1 /\ Q[1] = eocdr'.cd_offset /\ offset' = Q[1]
    BY <2>1, <2>4
  <2>6. (\E Q : Accepted(Archive, Q, 0) /\ offset = Q[1])'
    BY <2>5 DEF Accepted
  <2>7. NumEntries' \in Nat
    BY <2>2 DEF NumEntries
  <2>8. ReadInv'
    <3>0. i' = 1 /\ eocdr' = EndFields(Archive)'
      BY <1>2, <2>1
    <3>1. i' - 1 = 0 /\ 1 <= i' /\ i' <= NumEntries' + 1
      <4>1. i' = 1 /\ \A m \in Nat : 1 <= m + 1
        BY <3>0
      <4>2. 1 <= NumEntries' + 1
        BY <2>7, <4>1, Zenon
      <4>. QED  BY <4>1, <4>2
    <3>2. (\E Q : Accepted(Archive, Q, i - 1) /\ offset = Q[i])'
      BY <2>6, <3>0, <3>1
    <3>. QED  BY <1>5, <2>7, <3>0, <3>1, <3>2 DEF ReadInv
  <2>. QED  BY <1>2, <2>3, <2>8 DEF ZInv
<1>. QED  BY <1>1, <1>4, <1>5

LEMMA ReadHeaderKeeps == ASSUME ZInv, ReadHeader PROVE ZInv'
<1>1. /\ phase = "read" /\ UNCHANGED <<given, writing, eocdr, members_end, extracted>>
      /\ phase' \in {"read", "refused"} /\ i <= NumEntries
  BY DEF ReadHeader, NumEntries
<1>2. WriteInv' /\ Archive' = Archive
  BY <1>1, WriteKept
<1>3. /\ files' = files /\ comment' = comment /\ dst' = dst /\ p' = p /\ lfh_offset' = lfh_offset
      /\ cd_offset' = cd_offset /\ intact' = intact /\ members_end' = members_end
      /\ extracted' = extracted /\ eocdr' = eocdr
  BY <1>1 DEF given, writing
<1>4. ASSUME ~HeaderAccepted(Archive, offset) PROVE ZInv'
  <2>1. phase' = "refused" /\ i' = i /\ offset' = offset
    BY <1>4 DEF ReadHeader
  <2>2. BaseInv'
    BY <1>1, <1>3, <2>1 DEF ZInv, BaseInv
  <2>3. ReadInv'
    BY <2>1 DEF ReadInv
  <2>. QED  BY <1>2, <2>2, <2>3 DEF ZInv
<1>5. ASSUME HeaderAccepted(Archive, offset) PROVE ZInv'
  <2>1. phase' = "read" /\ i' = i + 1 /\ offset' = NextCfh(Archive, offset)
    BY <1>1, <1>5 DEF ReadHeader
  <2>2. PICK O : Accepted(Archive, O, i - 1) /\ offset = O[i]
    BY <1>1 DEF ZInv, ReadInv
  <2>3. i \in Nat /\ i >= 1 /\ offset \in Nat /\ NumEntries \in Nat
    BY <1>1 DEF ZInv, BaseInv, ReadInv
  <2>4. i - 1 \in Nat /\ (i - 1) + 1 = i /\ (i - 1) + 2 = i + 1 /\ (i + 1) - 1 = i
    BY <2>3
  <2>5. \E Q : Accepted(Archive, Q, i) /\ Q[i + 1] = NextCfh(Archive, offset)
    <3>1. Archive \in Seq(Cells) /\ HeaderAccepted(Archive, O[(i - 1) + 1])
      BY <1>5, <2>2, <2>4, ArchiveFacts DEF ZInv
    <3>. QED  BY <2>2, <2>4, <3>1, AcceptedMore
  <2>6. PICK Q : Accepted(Archive, Q, i) /\ Q[i + 1] = NextCfh(Archive, offset)
    BY <2>5
  <2>7. (\E R : Accepted(Archive, R, i - 1) /\ offset = R[i])'
    <3>1. i' - 1 = i /\ i' = i + 1
      BY <2>1, <2>4
    <3>2. Accepted(Archive, Q, i - 1)' /\ offset' = Q[i']
      BY <1>2, <1>3, <2>1, <2>6, <3>1 DEF Accepted
    <3>. QED  BY <3>2
  <2>8. offset' \in Nat /\ i' \in Nat
    BY <1>5, <2>1, <2>3, ArchiveFacts, CfhFacts DEF ZInv
  <2>9. BaseInv'
    BY <1>1, <1>3, <2>1, <2>8 DEF ZInv, BaseInv
  <2>10. ReadInv'
    <3>1. NumEntries' = NumEntries
      BY <1>3 DEF NumEntries
    <3>2. 1 <= i' /\ i' <= NumEntries' + 1
      BY <1>1, <2>1, <2>3, <3>1
    <3>3. eocdr' = EndFields(Archive)' /\ NumEntries' \in Nat
      BY <1>1, <1>2, <1>3, <2>3, <3>1 DEF ZInv, ReadInv
    <3>. QED  BY <2>1, <2>7, <3>2, <3>3 DEF ReadInv
  <2>. QED  BY <1>2, <2>9, <2>10 DEF ZInv
<1>. QED  BY <1>4, <1>5

LEMMA AllReadKeeps == ASSUME ZInv, AllRead PROVE ZInv'
<1>1. /\ phase = "read" /\ UNCHANGED <<given, writing, i, eocdr, extracted>>
      /\ phase' = "extract" /\ i > NumEntries
      /\ offset' = eocdr.cd_offset /\ members_end' = offset
  BY DEF AllRead, NumEntries
<1>2. WriteInv' /\ Archive' = Archive
  BY <1>1, WriteKept
<1>3. /\ files' = files /\ comment' = comment /\ dst' = dst /\ p' = p /\ lfh_offset' = lfh_offset
      /\ cd_offset' = cd_offset /\ intact' = intact /\ i' = i
      /\ extracted' = extracted /\ eocdr' = eocdr
  BY <1>1 DEF given, writing
<1>4. PICK O : Accepted(Archive, O, i - 1) /\ offset = O[i]
  BY <1>1 DEF ZInv, ReadInv
<1>5. i \in Nat /\ NumEntries \in Nat /\ i = NumEntries + 1 /\ extracted = <<>> /\ Len(extracted) = 0
  BY <1>1 DEF ZInv, BaseInv, ReadInv
<1>6. Accepted(Archive, O, NumEntries) /\ members_end' = O[Len(O)] /\ offset' = O[1]
      /\ offset' \in Nat /\ members_end' \in Nat
  <2>1. Accepted(Archive, O, NumEntries) /\ Len(O) = i /\ Rising(O)
    BY <1>4, <1>5 DEF Accepted
  <2>2. O[1] \in Nat /\ O[1] = eocdr.cd_offset /\ O[i] \in Nat
    BY <1>5, <2>1, RisingFacts DEF Accepted
  <2>. QED  BY <1>1, <1>4, <2>1, <2>2
<1>7. BaseInv'
  BY <1>1, <1>3, <1>6 DEF ZInv, BaseInv
<1>8. NumEntries' = NumEntries
  BY <1>3 DEF NumEntries
<1>9. Accepted(Archive, O, NumEntries)'
  BY <1>2, <1>3, <1>6, <1>8 DEF Accepted
<1>10. ReadInv'
  <2>1. Len(extracted') = 0 /\ Len(extracted') + 1 = 1
    BY <1>3, <1>5
  <2>2. (\E Q : /\ Accepted(Archive, Q, NumEntries)
               /\ offset = Q[Len(extracted) + 1] /\ members_end = Q[Len(Q)])'
    BY <1>6, <1>9, <2>1
  <2>. QED  BY <1>1, <1>2, <1>3, <1>5, <1>8, <2>1, <2>2 DEF ZInv, ReadInv
<1>. QED  BY <1>2, <1>7, <1>10 DEF ZInv

\* What zip_member asserts of the member the caller is at.
LEMMA CurrentMember ==
    ASSUME ZInv, phase = "extract", offset # members_end
    PROVE  \E O : /\ Accepted(Archive, O, NumEntries) /\ members_end = O[Len(O)]
                  /\ Len(extracted) + 1 <= NumEntries /\ offset = O[Len(extracted) + 1]
                  /\ NextCfh(Archive, offset) = O[Len(extracted) + 2]
                  /\ HeaderAccepted(Archive, offset) /\ MemberHolds(Archive, offset)
<1>1. PICK O : /\ Accepted(Archive, O, NumEntries)
               /\ offset = O[Len(extracted) + 1] /\ members_end = O[Len(O)]
  BY DEF ZInv, ReadInv
<1> DEFINE n == NumEntries
           k == Len(extracted) + 1
<1>2. n \in Nat /\ Len(extracted) \in Nat /\ Len(extracted) <= n
  BY SeqFacts DEF ZInv, BaseInv, ReadInv
<1>3. Rising(O) /\ Len(O) = n + 1
  BY <1>1 DEF Accepted
<1> HIDE DEF n
<1>4. k # n + 1 /\ k + 1 = Len(extracted) + 2
  BY <1>1, <1>2, <1>3
<1>5. k \in 1 .. n /\ k + 1 \in 1 .. Len(O) /\ k \in 1 .. Len(O) /\ Len(O) \in 1 .. Len(O)
  BY <1>2, <1>3, <1>4
<1>6. HeaderAccepted(Archive, O[k]) /\ O[k + 1] = NextCfh(Archive, O[k])
  BY <1>1, <1>5 DEF Accepted, n
<1>7. O[k] < O[k + 1] /\ O[k + 1] <= O[Len(O)] /\ O[k] \in Nat /\ O[k + 1] \in Nat /\ O[Len(O)] \in Nat
  <2>1. \A j \in 1 .. Len(O) : O[j] \in Nat /\ O[j] <= O[Len(O)]
    BY <1>3, RisingFacts
  <2>2. O[k] < O[k + 1]
    <3>1. k < k + 1
      BY <1>2
    <3>. QED  BY <1>3, <1>5, <3>1 DEF Rising
  <2>. QED  BY <1>5, <2>1, <2>2
<1>8. O[k] < O[Len(O)]
  BY <1>7
<1>9. MemberHolds(Archive, offset)
  BY <1>1, <1>6, <1>7, <1>8 DEF MemberHolds, HeaderAccepted
<1>10. k <= n
  BY <1>5
<1>. QED  BY <1>1, <1>4, <1>6, <1>9, <1>10 DEF n

LEMMA ExtractMemberKeeps == ASSUME ZInv, ExtractMember PROVE ZInv'
<1>1. /\ phase = "extract" /\ offset # members_end
      /\ UNCHANGED <<given, writing, i, eocdr, members_end>>
  BY DEF ExtractMember
<1>2. PICK O : /\ Accepted(Archive, O, NumEntries) /\ members_end = O[Len(O)]
               /\ Len(extracted) + 1 <= NumEntries /\ offset = O[Len(extracted) + 1]
               /\ NextCfh(Archive, offset) = O[Len(extracted) + 2]
               /\ HeaderAccepted(Archive, offset) /\ MemberHolds(Archive, offset)
  BY <1>1, CurrentMember
<1>3. phase' \in {"extract", "refused"}
  BY <1>1, <1>2 DEF ExtractMember, GoOn
<1>4. WriteInv' /\ Archive' = Archive
  BY <1>1, <1>3, WriteKept
<1>5. /\ files' = files /\ comment' = comment /\ dst' = dst /\ p' = p /\ lfh_offset' = lfh_offset
      /\ cd_offset' = cd_offset /\ intact' = intact /\ i' = i /\ members_end' = members_end
      /\ eocdr' = eocdr
  BY <1>1 DEF given, writing
<1>6. CASE phase' = "refused"
  <2>1. extracted' = extracted /\ offset' = offset
    BY <1>1, <1>2, <1>6, Zenon DEF ExtractMember, GoOn
  <2>2. BaseInv'
    BY <1>1, <1>5, <1>6, <2>1 DEF ZInv, BaseInv
  <2>3. ReadInv'
    BY <1>6 DEF ReadInv
  <2>. QED  BY <1>4, <2>2, <2>3 DEF ZInv
<1>7. CASE phase' = "extract"
  <2>0. \E what, name, data : GoOn(Became(what, name, data))
    BY <1>2, <1>7, Zenon DEF ExtractMember
  <2>1. PICK what, name, data : GoOn(Became(what, name, data))
    BY <2>0
  <2> DEFINE e == Became(what, name, data)
  <2>2. DOMAIN e = {"what", "name", "data"} /\ extracted' = Append(extracted, e)
        /\ offset' = NextCfh(Archive, offset)
    BY <2>1 DEF Became, GoOn
  <2>3. IsSeq(extracted) /\ Len(extracted) \in Nat /\ offset \in Nat
    BY SeqFacts DEF ZInv, BaseInv
  <2> HIDE DEF e
  <2>4. /\ IsSeq(extracted') /\ Len(extracted') = Len(extracted) + 1
        /\ \A k \in 1 .. Len(extracted) : extracted'[k] = extracted[k]
        /\ extracted'[Len(extracted) + 1] = e
    BY <2>2, <2>3, AppendFacts
  <2>5. \A k \in 1 .. Len(extracted') : DOMAIN extracted'[k] = {"what", "name", "data"}
    <3>1. ASSUME NEW k \in 1 .. Len(extracted') PROVE k \in 1 .. Len(extracted) \/ k = Len(extracted) + 1
      BY <2>3, <2>4
    <3>2. \A k \in 1 .. Len(extracted) : DOMAIN extracted[k] = {"what", "name", "data"}
      BY DEF ZInv, BaseInv
    <3>. QED  BY <2>2, <2>4, <3>1, <3>2
  <2>6. offset' \in Nat
    BY <1>2, <2>2, <2>3, ArchiveFacts, CfhFacts DEF ZInv
  <2>7. BaseInv'
    BY <1>1, <1>5, <1>7, <2>4, <2>5, <2>6 DEF ZInv, BaseInv
  <2>8. NumEntries' = NumEntries /\ NumEntries \in Nat
    BY <1>1, <1>5 DEF NumEntries, ZInv, ReadInv
  <2>9. Accepted(Archive, O, NumEntries)'
    BY <1>2, <1>4, <1>5, <2>8 DEF Accepted
  <2>10. Len(extracted') + 1 = Len(extracted) + 2
    BY <2>3, <2>4
  <2>11. (\E Q : /\ Accepted(Archive, Q, NumEntries)
                 /\ offset = Q[Len(extracted) + 1] /\ members_end = Q[Len(Q)])'
    BY <1>2, <1>5, <2>2, <2>9, <2>10
  <2>12. eocdr' = EndFields(Archive)' /\ NumEntries' \in Nat /\ Len(extracted') <= NumEntries'
    BY <1>1, <1>2, <1>4, <1>5, <2>4, <2>8 DEF ZInv, ReadInv
  <2>13. ReadInv'
    BY <1>7, <2>11, <2>12 DEF ReadInv
  <2>. QED  BY <1>4, <2>7, <2>13 DEF ZInv
<1>. QED  BY <1>3, <1>6, <1>7

LEMMA DoneKeeps == ASSUME ZInv, Done PROVE ZInv'
<1>1. /\ phase = "extract" /\ offset = members_end /\ phase' = "done"
      /\ UNCHANGED <<given, writing, i, reading>>
  BY DEF Done
<1>2. /\ files' = files /\ comment' = comment /\ dst' = dst /\ p' = p /\ lfh_offset' = lfh_offset
      /\ cd_offset' = cd_offset /\ intact' = intact /\ i' = i /\ members_end' = members_end
      /\ eocdr' = eocdr /\ offset' = offset /\ extracted' = extracted
  BY <1>1 DEF given, writing, reading
<1>3. BaseInv'
  BY <1>1, <1>2 DEF ZInv, BaseInv
<1>4. WriteInv'
  BY <1>1 DEF WriteInv
<1>5. Len(extracted) = NumEntries
  <2>1. PICK O : /\ Accepted(Archive, O, NumEntries)
                 /\ offset = O[Len(extracted) + 1] /\ members_end = O[Len(O)]
    BY <1>1 DEF ZInv, ReadInv
  <2> DEFINE n == NumEntries
             k == Len(extracted) + 1
  <2>2. n \in Nat /\ Len(extracted) \in Nat /\ Len(extracted) <= n
    BY <1>1, SeqFacts DEF ZInv, BaseInv, ReadInv
  <2>3. Rising(O) /\ Len(O) = n + 1
    BY <2>1 DEF Accepted
  <2> HIDE DEF n
  <2>4. k \in 1 .. Len(O) /\ Len(O) \in 1 .. Len(O) /\ O[k] = O[Len(O)]
    <3>1. k \in 1 .. Len(O) /\ Len(O) \in 1 .. Len(O)
      BY <2>2, <2>3
    <3>2. O[k] = O[Len(O)]
      BY <1>1, <2>1
    <3>. QED  BY <3>1, <3>2
  <2>5. O[k] \in Nat /\ ~(k < Len(O))
    BY <2>3, <2>4, RisingFacts DEF Rising
  <2>6. k = n + 1
    BY <2>2, <2>3, <2>4, <2>5
  <2>. QED  BY <2>2, <2>6 DEF n
<1>6. ReadInv'
  BY <1>1, <1>2, <1>5 DEF ReadInv, NumEntries
<1>. QED  BY <1>3, <1>4, <1>6 DEF ZInv

LEMMA StutterKeeps == ASSUME ZInv, UNCHANGED vars PROVE ZInv'
<1>1. /\ phase' = phase /\ files' = files /\ comment' = comment /\ dst' = dst /\ p' = p
      /\ lfh_offset' = lfh_offset /\ cd_offset' = cd_offset /\ intact' = intact /\ i' = i
      /\ members_end' = members_end /\ eocdr' = eocdr /\ offset' = offset /\ extracted' = extracted
  BY DEF vars, given, writing, reading
<1>2. BaseInv'
  BY <1>1 DEF ZInv, BaseInv
<1>3. Archive' = Archive /\ NumEntries' = NumEntries /\ \A D : End(D)' = End(D)
  BY <1>1 DEF Archive, End, NumEntries
<1>4. WriteInv'
  BY <1>1, <1>3 DEF ZInv, WriteInv, Complete, Entries, Members
<1>5. ReadInv'
  BY <1>1, <1>3 DEF ZInv, ReadInv, Accepted
<1>. QED  BY <1>2, <1>4, <1>5 DEF ZInv

LEMMA OthersRoom ==
    ASSUME RoomInv, ReadEnd \/ ReadHeader \/ AllRead \/ ExtractMember \/ Done \/ UNCHANGED vars
    PROVE  RoomInv'
<1>1. files' = files /\ comment' = comment
  BY DEF ReadEnd, ReadHeader, AllRead, ExtractMember, Done, vars, given
<1>2. \A A, C : IsRoom(A, C)' <=> IsRoom(A, C)
  BY <1>1, RoomKept
<1>3. CASE ReadEnd \/ ReadHeader \/ AllRead \/ ExtractMember \/ Done
  <2>1. /\ phase \notin {"members", "directory", "not_possible"}
        /\ phase' \notin {"members", "directory", "not_possible"}
        /\ dst' = dst /\ intact' = intact
    BY <1>3 DEF ReadEnd, ReadHeader, AllRead, ExtractMember, GoOn, Done, writing
  <2>. QED  BY <1>1, <1>2, <2>1 DEF RoomInv
<1>4. CASE UNCHANGED vars
  <2>1. phase' = phase /\ dst' = dst /\ intact' = intact /\ i' = i
    BY <1>4 DEF vars, writing
  <2>. QED  BY <1>1, <1>2, <2>1 DEF RoomInv
<1>. QED  BY <1>3, <1>4

LEMMA NextKeeps == ASSUME ZInv, RoomInv, [Next]_vars PROVE ZInv' /\ RoomInv'
  BY WriteCompressedKeeps, WriteStoredKeeps, StartDirectoryKeeps, WriteEntryKeeps, WriteEndKeeps,
     DamageKeeps, ReadEndKeeps, ReadHeaderKeeps, AllReadKeeps, ExtractMemberKeeps, DoneKeeps,
     StutterKeeps, OthersRoom DEF Next

\* What is written so far is an archive of the files so far, in the room that was
\* computed before, and what is read so far are headers that zip_read accepts:
\* zip_write and zip_read at any step.
THEOREM InvariantHolds == Spec => [](ZInv /\ RoomInv)
<1>1. Init => ZInv /\ RoomInv
  BY InitHolds
<1>2. ZInv /\ RoomInv /\ [Next]_vars => (ZInv /\ RoomInv)'
  BY NextKeeps
<1>. QED  BY <1>1, <1>2, PTL DEF Spec

LEMMA InvariantInside == ASSUME ZInv PROVE MembersInside
<1>1. phase # "aborted"
  BY DEF ZInv, BaseInv
<1>2. ASSUME phase = "extract", offset # members_end
      PROVE  LET c == read_cfh(Archive, offset)
             IN  comp_data(Archive, c.lfh_offset) + c.comp_size <= p
  <2>1. HeaderAccepted(Archive, offset) /\ Len(Archive) = p
    BY <1>2, CurrentMember, ArchiveFacts DEF ZInv
  <2>. QED  BY <2>1 DEF HeaderAccepted, DataFits
<1>3. ASSUME phase = "done" PROVE Len(extracted) = eocdr.cd_entries
  BY <1>3 DEF ZInv, ReadInv, NumEntries
<1>. QED  BY <1>1, <1>2, <1>3 DEF MembersInside

\* Of any file, also a cut or changed one: no assertion of zip_write or zip_member
\* fails, the data of every member that is extracted lies inside the file, and
\* there are as many members as the end record says.
THEOREM MembersAreInside == Spec => []MembersInside
  BY InvariantHolds, InvariantInside, PTL
\* zip_write, and each compressor in the part of the room it is given, stays
\* inside what zip_max_size promised, whatever the files and the comment are.
THEOREM RoomIsEnough == Spec => []RoomSuffices
  BY InvariantHolds, RoomInvSuffices, PTL

--------------------------------------------------------------------------------
(***************************************************************************)
(* Reading what was written: every file comes out again.                   *)
(***************************************************************************)
LEMMA ReadCut ==
    ASSUME NEW s, IsSeq(s), NEW at \in Nat, NEW m \in Nat, at + m <= Len(s), NEW k \in Nat, k + 4 <= m
    PROVE  read32le(Cut(s, at, m), k) = read32le(s, at + k)
<1> DEFINE t == Cut(s, at, m)
<1>1. \A j \in 1 .. m : t[j] = s[at + j]
  BY CutFacts
<1> HIDE DEF t
<1>2. k + 1 \in 1 .. m /\ k + 2 \in 1 .. m /\ (k + 2) + 1 \in 1 .. m /\ (k + 2) + 2 \in 1 .. m
  OBVIOUS
<1>3. /\ t[k + 1] = s[at + (k + 1)] /\ t[k + 2] = s[at + (k + 2)]
      /\ t[(k + 2) + 1] = s[at + ((k + 2) + 1)] /\ t[(k + 2) + 2] = s[at + ((k + 2) + 2)]
  BY <1>1, <1>2
<1>4. /\ at + (k + 1) = (at + k) + 1 /\ at + (k + 2) = (at + k) + 2
      /\ at + ((k + 2) + 1) = ((at + k) + 2) + 1 /\ at + ((k + 2) + 2) = ((at + k) + 2) + 2
  OBVIOUS
<1>5. read32le(t, k) = read32le(s, at + k)
  BY <1>3, <1>4, Zenon DEF read32le, read16le
<1>. QED  BY <1>5 DEF t

\* No signature behind the end record is taken for it, and the record lies near
\* enough to the end: find_eocdr.
LEMMA EndFound ==
    ASSUME BaseInv, phase # "not_possible", ~Ambiguous, NEW L, NEW D, Complete(Archive, L, D)
    PROVE  /\ EndRecords(Archive) # {} /\ back_offset(Archive) = Len(comment)
           /\ EndFields(Archive) = End(D)
           /\ Cut(Archive, p - Len(comment), Len(comment)) = comment
<1> DEFINE s == Archive
           n == Len(comment)
           at == D[Len(D)]
           e == End(D)
<1>1. /\ Len(files) \in Nat /\ Is16(Len(files)) /\ Is16(n) /\ n \in Nat /\ comment \in Seq(Cells)
      /\ IsSeq(s) /\ Len(s) = p /\ p \in Nat
  BY Given, ArchiveFacts
<1>2. /\ Rising(D) /\ Is32(at) /\ At(s, at, write_eocdr(e, comment)) /\ Len(s) = at + 22 + n
  BY DEF Complete, Entries
<1>3. at \in Nat
  BY <1>2 DEF Is32
<1>4. EndAt(s, at, e, comment)
  <2>1. FitsEnd(e)
    BY <1>1, <1>2, EndFits
  <2> HIDE DEF e, s, at
  <2>. QED  BY <1>1, <1>2, <1>3, <2>1, EndWritten
<1>5. e = [disk_nbr |-> e.disk_nbr, cd_start_disk |-> e.cd_start_disk,
           disk_cd_entries |-> e.disk_cd_entries, cd_entries |-> e.cd_entries,
           cd_size |-> e.cd_size, cd_offset |-> e.cd_offset, comment_len |-> e.comment_len]
  BY DEF End
<1>6. EndOfArchive = Cut(s, p - 22 - n, 22 + n)
  BY DEF EndOfArchive, EOCDR_BASE_SZ
<1>7. \A k \in 1 .. n : read32le(EndOfArchive, k) # EOCDR_SIGNATURE
  BY DEF Ambiguous
<1>8. back_offset(s) = Min(EndRecords(s)) /\ EndFields(s) = read_eocdr(s, Len(s) - 22 - back_offset(s))
  BY DEF back_offset, EndFields, EOCDR_BASE_SZ
<1> DEFINE top == Min({MAX_BACK_OFFSET, Len(s) - 22})
<1>9. EndRecords(s) = {b \in 0 .. top : read32le(s, Len(s) - 22 - b) = EOCDR_SIGNATURE}
  BY DEF EndRecords, EOCDR_BASE_SZ
<1> HIDE DEF s, at, e
<1>10. top \in Nat /\ n <= top /\ top <= at + n
  <2> DEFINE a == Len(s) - 22
  <2>1. a = at + n /\ a \in Nat
    BY <1>1, <1>2, <1>3
  <2> HIDE DEF a
  <2>2. Min({MAX_BACK_OFFSET, a}) = IF MAX_BACK_OFFSET <= a THEN MAX_BACK_OFFSET ELSE a
    BY <2>1, MinOfTwo, ZipAssumption
  <2>3. MAX_BACK_OFFSET \in Nat /\ n <= MAX_BACK_OFFSET
    BY <1>1, ZipAssumption, WidthFacts DEF Is16
  <2>4. Min({MAX_BACK_OFFSET, a}) \in Nat /\ n <= Min({MAX_BACK_OFFSET, a}) /\ Min({MAX_BACK_OFFSET, a}) <= at + n
    BY <1>1, <1>3, <2>1, <2>2, <2>3
  <2>. QED  BY <2>4 DEF a
<1> HIDE DEF top
<1>11. n \in EndRecords(s)
  <2>1. Len(s) - 22 - n = at /\ n \in 0 .. top
    BY <1>1, <1>2, <1>3, <1>10
  <2>. QED  BY <1>4, <1>9, <2>1 DEF EndAt
<1>12. ASSUME NEW b \in EndRecords(s), b < n PROVE FALSE
  <2>1. b \in Nat /\ read32le(s, Len(s) - 22 - b) = EOCDR_SIGNATURE
    BY <1>9, <1>10
  <2> DEFINE k == n - b
  <2>2. k \in 1 .. n /\ Len(s) - 22 - b = at + k /\ k + 4 <= 22 + n /\ k \in Nat
    BY <1>1, <1>2, <1>3, <1>12, <2>1
  <2>3. EndOfArchive = Cut(s, at, 22 + n)
    <3>1. p - 22 - n = at
      BY <1>1, <1>2, <1>3
    <3>. QED  BY <1>6, <3>1
  <2> HIDE DEF k
  <2>4. read32le(EndOfArchive, k) = read32le(s, at + k)
    <3>1. 22 + n \in Nat /\ at + (22 + n) <= Len(s)
      BY <1>1, <1>2, <1>3
    <3>. QED  BY <1>1, <1>3, <2>2, <2>3, <3>1, ReadCut
  <2>. QED  BY <1>7, <2>1, <2>2, <2>4
<1>13. back_offset(s) = n
  <2>1. EndRecords(s) \subseteq Nat /\ EndRecords(s) # {}
    BY <1>9, <1>10, <1>11
  <2>2. back_offset(s) \in EndRecords(s) /\ \A b \in EndRecords(s) : back_offset(s) <= b
    BY <1>8, <2>1, MinOfSet
  <2>3. back_offset(s) \in Nat /\ back_offset(s) <= n /\ ~(back_offset(s) < n)
    BY <1>11, <1>12, <2>1, <2>2
  <2>. QED  BY <1>1, <2>3
<1>14. EndFields(s) = e
  <2>1. EndFields(s) = read_eocdr(s, at)
    <3>1. Len(s) - 22 - n = at
      BY <1>1, <1>2, <1>3
    <3>. QED  BY <1>8, <1>13, <3>1
  <2>. QED  BY <1>4, <1>5, <2>1 DEF EndAt, read_eocdr
<1>15. Cut(s, p - n, n) = comment
  <2>1. p - n = at + 22
    BY <1>1, <1>2, <1>3
  <2>. QED  BY <1>4, <2>1 DEF EndAt
<1>. QED  BY <1>11, <1>13, <1>14, <1>15 DEF s, e

\* What zip_extract_member makes of the data it is given.
LEMMA BodyIsExtracted ==
    ASSUME NEW f, NEW how, NEW body, Fits(f, how, body),
           NEW c, c.method = how, c.uncomp_size = Len(DataOf(f)), c.gp_flag = gp_flag(how)
    PROVE  /\ zip_extract_member(c, body) = {DataOf(f)}
           /\ how = ZIP_STORE => body = DataOf(f)
<1>1. CASE how = ZIP_STORE /\ body = DataOf(f)
  BY <1>1 DEF zip_extract_member
<1>2. CASE \E k \in Codes : k.method = how /\ k.data = DataOf(f) /\ k.bytes = body
  <2>1. PICK k \in Codes : k.method = how /\ k.data = DataOf(f) /\ k.bytes = body
    BY <1>2
  <2>2. k \in [method : {ZIP_SHRINK, ZIP_REDUCE4, ZIP_IMPLODE, ZIP_DEFLATE}, data : Seq(Byte), bytes : Seq(Byte)]
    BY CodesAssumption
  <2>3. how \in {ZIP_SHRINK, ZIP_REDUCE4, ZIP_IMPLODE, ZIP_DEFLATE}
    BY <2>1, <2>2
  <2>4. how # ZIP_STORE
    BY <2>3 DEF ZIP_STORE, ZIP_SHRINK, ZIP_REDUCE4, ZIP_IMPLODE, ZIP_DEFLATE
  <2>5. how = ZIP_IMPLODE => c.gp_flag \div 2 % 4 = 3
    <3>1. how = ZIP_IMPLODE => c.gp_flag = 6
      BY DEF gp_flag, ZIP_IMPLODE, ZIP_DEFLATE
    <3>2. 6 \div 2 % 4 = 3
      OBVIOUS
    <3>. QED  BY <3>1, <3>2
  <2> DEFINE M == {m \in Codes : /\ m.method = c.method /\ m.bytes = body
                                 /\ Len(m.data) = c.uncomp_size
                                 /\ m.method = ZIP_IMPLODE => c.gp_flag \div 2 % 4 = 3}
  <2>6. zip_extract_member(c, body) = {m.data : m \in M}
    BY <2>4 DEF zip_extract_member
  <2>7. k \in M
    BY <2>1, <2>5
  <2>8. ASSUME NEW m \in M PROVE m = k
    <3>1. m \in Codes /\ m.method = k.method /\ m.bytes = k.bytes /\ Len(m.data) = Len(k.data)
      BY <2>1
    <3>. QED  BY <3>1, CodesAssumption
  <2> HIDE DEF M
  <2>9. {m.data : m \in M} = {DataOf(f)}
    BY <2>1, <2>7, <2>8
  <2>. QED  BY <2>4, <2>6, <2>9
<1>. QED  BY <1>1, <1>2 DEF Fits

\* A central header leads to a file, with its data and nothing else.
Gives(s, at, f) ==
    LET c == read_cfh(s, at)
    IN  /\ ~is_dir(c) /\ c.crc32 = crc32(DataOf(f))
        /\ zip_extract_member(c, CompData(s, c)) = {DataOf(f)}

\* Every header that was written is read, and leads to the file it was written for.
LEMMA EntryIsRead ==
    ASSUME Len(files) \in Nat, \A j \in 1 .. Len(files) : Writable(files[j]),
           NEW s, IsSeq(s), NEW L, NEW D, Complete(s, L, D), NEW k \in 1 .. Len(files)
    PROVE  /\ D[k] \in Nat /\ HeaderAccepted(s, D[k]) /\ NextCfh(s, D[k]) = D[k + 1]
           /\ Name(s, D[k]) = NameOf(files[k])
           /\ Gives(s, D[k], files[k])
<1> DEFINE f == files[k]
           at == D[k]
           head == L[k]
<1>1. /\ Len(L) = Len(files) + 1 /\ Len(D) = Len(files) + 1 /\ Rising(L) /\ Rising(D)
      /\ \A j \in 1 .. Len(D) - 1 : EntryAt(s, D[j], files[j], L[j], D[j + 1])
  BY DEF Complete, Entries, Members
<1>2. k \in 1 .. Len(L) /\ k \in 1 .. Len(D) /\ k \in 1 .. Len(D) - 1
  BY <1>1
<1>3. Writable(f) /\ at \in Nat /\ head \in Nat /\ EntryAt(s, at, f, head, D[k + 1])
  BY <1>1, <1>2, RisingFacts
<1> HIDE DEF f, at, head
<1>4. PICK how, body : /\ StoredAt(s, head, f, how, body)
                       /\ At(s, at, CentralHeader(f, how, body, head))
  BY <1>3 DEF EntryAt
<1>5. Is32(head) /\ D[k + 1] = at + 46 + Len(NameOf(f)) /\ Fits(f, how, body)
  BY <1>3, <1>4 DEF EntryAt, StoredAt
<1> DEFINE l == lfh(f, how, Len(body))
           c == Entry(l, head)
<1>6. /\ IsCfh(s, at) /\ read_cfh(s, at) = c
      /\ Name(s, at) = NameOf(f) /\ NextCfh(s, at) = D[k + 1]
  BY <1>3, <1>4, <1>5, EntryRead
<1>7. /\ IsLfh(s, head) /\ comp_data(s, head) + Len(body) <= Len(s)
      /\ Cut(s, comp_data(s, head), Len(body)) = body
  BY <1>3, <1>4, StoredRead
<1>8. /\ c.method = how /\ c.gp_flag = gp_flag(how) /\ c.crc32 = crc32(DataOf(f))
      /\ c.comp_size = Len(body) /\ c.uncomp_size = Len(DataOf(f)) /\ c.disk_nbr_start = 0
      /\ c.ext_attrs = 32 /\ c.lfh_offset = head
  BY DEF Entry, lfh, EXT_ATTR_ARC, DataOf
<1> HIDE DEF c, l
<1>9. /\ zip_extract_member(c, body) = {DataOf(f)}
      /\ how = ZIP_STORE => body = DataOf(f)
  BY <1>5, <1>8, BodyIsExtracted
<1>10. how \in {0, 1, 5, 6, 8}
  BY <1>3, <1>5, BodyFacts DEF ZIP_STORE, ZIP_SHRINK, ZIP_REDUCE4, ZIP_IMPLODE, ZIP_DEFLATE
<1>11. c.gp_flag % 2 = 0
  <2>1. c.gp_flag \in {0, 2, 6}
    BY <1>8, <1>10 DEF gp_flag, ZIP_IMPLODE, ZIP_DEFLATE
  <2>. QED  BY <2>1
<1>12. Supported(s, at)
  <2>1. c.method \in 0 .. ZIP_IMPLODE \cup {ZIP_DEFLATE}
    BY <1>8, <1>10 DEF ZIP_IMPLODE, ZIP_DEFLATE
  <2>2. c.method = ZIP_STORE => c.uncomp_size = c.comp_size
    BY <1>8, <1>9
  <2>3. ~Contains(Name(s, at), 0)
    BY <1>3, <1>6 DEF Writable
  <2>. QED  BY <1>6, <1>8, <1>11, <2>1, <2>2, <2>3 DEF Supported
<1>13. HeaderAccepted(s, at)
  BY <1>6, <1>7, <1>8, <1>12 DEF HeaderAccepted, DataFits
<1>14. ~is_dir(c)
  <2>1. 32 \div 16 % 2 = 0
    OBVIOUS
  <2>. QED  BY <1>8, <2>1 DEF is_dir
<1>15. Gives(s, at, f)
  BY <1>6, <1>7, <1>8, <1>9, <1>14 DEF Gives, CompData
<1>. QED  BY <1>3, <1>6, <1>13, <1>15 DEF f, at

\* What the reader has of an archive that is as it was written.
OwnInv ==
    Promised =>
        /\ phase # "refused"
        /\ phase = "read" => \E L, D : Complete(Archive, L, D) /\ offset = D[i]
        /\ phase = "extract" =>
              /\ \E L, D : /\ Complete(Archive, L, D) /\ offset = D[Len(extracted) + 1]
                           /\ members_end = D[Len(D)]
              /\ Len(extracted) <= Len(files)
              /\ \A k \in 1 .. Len(extracted) : extracted[k] = Due(files[k])
        /\ phase = "done" => extracted = AllDue(files) /\ zip_comment = comment

RoundInv == ZInv /\ OwnInv

LEMMA AllDueFacts ==
    ASSUME NEW s, IsSeq(s)
    PROVE  /\ IsSeq(AllDue(s)) /\ Len(AllDue(s)) = Len(s)
           /\ \A k \in 1 .. Len(s) : AllDue(s)[k] = Due(s[k])
<1> DEFINE t == AllDue(s)
<1>1. Len(s) \in Nat /\ DOMAIN s = 1 .. Len(s)
  BY SeqFacts
<1>2. t = [k \in 1 .. Len(s) |-> Due(s[k])]
  BY <1>1 DEF AllDue
<1>3. DOMAIN t = 1 .. Len(s) /\ t = [k \in 1 .. Len(s) |-> t[k]] /\ \A k \in 1 .. Len(s) : t[k] = Due(s[k])
  BY <1>2
<1> HIDE DEF t
<1>4. IsSeq(t) /\ Len(t) = Len(s)
  BY <1>1, <1>3, SeqOfFunction
<1>. QED  BY <1>3, <1>4 DEF t

LEMMA OwnFacts ==
    ASSUME ZInv, Promised, phase \in {"written", "read", "extract"}, NEW L, NEW D, Complete(Archive, L, D)
    PROVE  /\ files \in FileLists /\ IsSeq(files) /\ Len(files) \in Nat
           /\ \A k \in 1 .. Len(files) : Writable(files[k])
           /\ IsSeq(Archive) /\ Len(D) = Len(files) + 1 /\ Len(comment) \in Nat
           /\ \A k \in 1 .. Len(D) : D[k] \in Nat
           /\ \A j, k \in 1 .. Len(D) : D[j] = D[k] => j = k
           /\ EndRecords(Archive) # {} /\ back_offset(Archive) = Len(comment) /\ EndFields(Archive) = End(D)
           /\ phase # "written" =>
                 eocdr = End(D) /\ eocdr.cd_offset = D[1] /\ NumEntries = Len(files) /\ zip_comment = comment
<1>1. /\ BaseInv /\ files \in FileLists /\ Len(files) \in Nat /\ Len(comment) \in Nat
      /\ \A k \in 1 .. Len(files) : Writable(files[k])
  BY Given DEF ZInv
<1>2. /\ EndRecords(Archive) # {} /\ back_offset(Archive) = Len(comment) /\ EndFields(Archive) = End(D)
      /\ Cut(Archive, p - Len(comment), Len(comment)) = comment
  BY <1>1, EndFound DEF Promised
<1>3. phase # "written" => eocdr = End(D)
  BY <1>2 DEF ZInv, ReadInv
<1>4. End(D).cd_offset = D[1] /\ End(D).cd_entries = Len(files) /\ End(D).comment_len = Len(comment)
  BY DEF End
<1>5. phase # "written" =>
         eocdr.cd_offset = D[1] /\ NumEntries = Len(files) /\ zip_comment = comment
  BY <1>2, <1>3, <1>4 DEF NumEntries, zip_comment
<1>6. Rising(D) /\ Len(D) = Len(files) + 1
  BY DEF Complete, Entries
<1>7. /\ Len(D) \in Nat /\ \A k \in 1 .. Len(D) : D[k] \in Nat
      /\ \A j, k \in 1 .. Len(D) : j < k => D[j] < D[k]
  BY <1>6, RisingFacts DEF Rising
<1>8. ASSUME NEW j \in 1 .. Len(D), NEW k \in 1 .. Len(D), D[j] = D[k] PROVE j = k
  BY <1>7, <1>8
<1>9. IsSeq(files) /\ IsSeq(Archive)
  BY <1>1, FilesFacts, ArchiveFacts
<1>. QED  BY <1>1, <1>2, <1>3, <1>5, <1>6, <1>7, <1>8, <1>9

\* The archive in a step that does not write.
LEMMA OwnKept ==
    ASSUME ZInv, phase \in {"written", "read", "extract"}, UNCHANGED <<given, writing>>,
           phase' \in {"read", "refused", "extract", "aborted", "done"}
    PROVE  /\ files' = files /\ comment' = comment /\ Promised' = Promised /\ Archive' = Archive
           /\ \A L, D : Complete(Archive, L, D) => Complete(Archive, L, D)'
           /\ Promised => \E L, D : Complete(Archive, L, D)
<1>1. /\ files' = files /\ comment' = comment /\ dst' = dst /\ p' = p
      /\ cd_offset' = cd_offset /\ intact' = intact
  BY DEF given, writing
<1>2. Archive' = Archive /\ \A D : End(D)' = End(D)
  BY <1>1 DEF Archive, End
<1>3. \A L, D : Complete(Archive, L, D) => Complete(Archive, L, D)'
  BY <1>1, <1>2 DEF Complete, Entries, Members
<1>4. Promised => \E L, D : Complete(Archive, L, D)
  BY DEF ZInv, WriteInv, Promised
<1>5. Reading /\ Reading'
  BY DEF Reading
<1>6. Ambiguous' = Ambiguous
  BY <1>1, <1>2 DEF Ambiguous, EndOfArchive
<1>7. Promised' = Promised
  BY <1>1, <1>5, <1>6 DEF Promised
<1>. QED  BY <1>1, <1>2, <1>3, <1>4, <1>7

LEMMA ReadEndOwn ==
    ASSUME RoundInv, ReadEnd
    PROVE  OwnInv' /\ (Promised => phase' = "read")
<1>1. phase = "written" /\ phase' \in {"read", "refused"} /\ UNCHANGED <<given, writing>> /\ ZInv
  BY DEF ReadEnd, RoundInv
<1>2. CASE ~Promised
  BY <1>1, <1>2, OwnKept DEF OwnInv
<1>3. CASE Promised
  <2>1. PICK L, D : Complete(Archive, L, D)
    BY <1>1, <1>3, OwnKept
  <2>2. /\ EndRecords(Archive) # {} /\ back_offset(Archive) = Len(comment) /\ EndFields(Archive) = End(D)
        /\ Len(comment) \in Nat
    BY <1>1, <1>3, <2>1, OwnFacts
  <2>3. find_eocdr(Archive) /\ OneVolume(EndFields(Archive))
    <3>1. Len(comment) <= Len(comment)
      BY <2>2
    <3>2. OneVolume(End(D)) /\ End(D).comment_len = Len(comment)
      BY DEF End, OneVolume
    <3>. QED  BY <2>2, <3>1, <3>2 DEF find_eocdr
  <2>4. phase' = "read" /\ i' = 1 /\ offset' = End(D).cd_offset
    BY <2>2, <2>3 DEF ReadEnd
  <2>5. offset' = D[i']
    BY <2>4 DEF End
  <2>6. (\E M, E : Complete(Archive, M, E) /\ offset = E[i])'
    BY <1>1, <2>1, <2>5, OwnKept
  <2>. QED  BY <2>4, <2>6 DEF OwnInv
<1>. QED  BY <1>2, <1>3

LEMMA ReadHeaderOwn ==
    ASSUME RoundInv, ReadHeader
    PROVE  OwnInv' /\ (Promised => phase' = "read")
<1>1. /\ phase = "read" /\ UNCHANGED <<given, writing>> /\ ZInv /\ i <= NumEntries
      /\ phase' \in {"read", "refused"}
  BY DEF ReadHeader, RoundInv, NumEntries
<1>2. CASE ~Promised
  BY <1>1, <1>2, OwnKept DEF OwnInv
<1>3. CASE Promised
  <2>1. PICK L, D : Complete(Archive, L, D) /\ offset = D[i]
    BY <1>1, <1>3 DEF RoundInv, OwnInv
  <2>2. /\ NumEntries = Len(files) /\ Len(files) \in Nat /\ IsSeq(Archive)
        /\ \A k \in 1 .. Len(files) : Writable(files[k])
    BY <1>1, <1>3, <2>1, OwnFacts
  <2>3. i \in 1 .. Len(files)
    <3>1. i \in Nat /\ i >= 1
      BY <1>1 DEF ZInv, BaseInv, ReadInv
    <3>. QED  BY <1>1, <2>2, <3>1
  <2>4. HeaderAccepted(Archive, D[i]) /\ NextCfh(Archive, D[i]) = D[i + 1]
    BY <2>1, <2>2, <2>3, EntryIsRead
  <2>5. phase' = "read" /\ i' = i + 1 /\ offset' = D[i + 1]
    BY <1>1, <2>1, <2>4 DEF ReadHeader
  <2>6. (\E M, E : Complete(Archive, M, E) /\ offset = E[i])'
    BY <1>1, <2>1, <2>5, OwnKept
  <2>. QED  BY <2>5, <2>6 DEF OwnInv
<1>. QED  BY <1>2, <1>3

LEMMA AllReadOwn ==
    ASSUME RoundInv, AllRead
    PROVE  OwnInv' /\ phase' = "extract"
<1>1. /\ phase = "read" /\ UNCHANGED <<given, writing>> /\ ZInv /\ i > NumEntries
      /\ phase' = "extract" /\ offset' = eocdr.cd_offset /\ members_end' = offset
      /\ extracted' = extracted /\ extracted = <<>>
  BY DEF AllRead, RoundInv, NumEntries, ZInv, BaseInv
<1>2. CASE ~Promised
  BY <1>1, <1>2, OwnKept DEF OwnInv
<1>3. CASE Promised
  <2>1. PICK L, D : Complete(Archive, L, D) /\ offset = D[i]
    BY <1>1, <1>3 DEF RoundInv, OwnInv
  <2>2. /\ Len(D) = Len(files) + 1 /\ eocdr.cd_offset = D[1]
        /\ NumEntries = Len(files) /\ Len(files) \in Nat
    BY <1>1, <1>3, <2>1, OwnFacts
  <2>3. i \in Nat /\ i <= NumEntries + 1
    BY <1>1 DEF ZInv, BaseInv, ReadInv
  <2>4. i = Len(D)
    BY <1>1, <2>2, <2>3
  <2>5. Len(extracted') = 0 /\ Len(extracted') + 1 = 1
    BY <1>1
  <2>6. offset' = D[1]
    BY <1>1, <2>2
  <2>7. (\E M, E : /\ Complete(Archive, M, E) /\ offset = E[Len(extracted) + 1]
                   /\ members_end = E[Len(E)])'
    BY <1>1, <2>1, <2>4, <2>5, <2>6, OwnKept
  <2>8. Len(extracted') <= Len(files') /\ \A k \in 1 .. Len(extracted') : extracted'[k] = Due(files'[k])
    BY <1>1, <2>2, <2>5, OwnKept
  <2>. QED  BY <1>1, <2>7, <2>8 DEF OwnInv
<1>. QED  BY <1>1, <1>2, <1>3

LEMMA ExtractMemberOwn ==
    ASSUME RoundInv, ExtractMember
    PROVE  /\ OwnInv'
           /\ Promised => /\ phase' = "extract" /\ Len(extracted') = Len(extracted) + 1
                          /\ Len(extracted') <= Len(files)
                          /\ \A k \in 1 .. Len(extracted') : extracted'[k] = Due(files[k])
<1>1. /\ phase = "extract" /\ UNCHANGED <<given, writing, members_end>> /\ ZInv /\ offset # members_end
      /\ phase' \in {"extract", "refused", "aborted"}
  BY DEF ExtractMember, RoundInv, GoOn
<1>2. CASE ~Promised
  BY <1>1, <1>2, OwnKept DEF OwnInv
<1>3. CASE Promised
  <2>1. PICK L, D : /\ Complete(Archive, L, D) /\ offset = D[Len(extracted) + 1]
                    /\ members_end = D[Len(D)]
    BY <1>1, <1>3 DEF RoundInv, OwnInv
  <2>2. /\ Len(files) \in Nat /\ IsSeq(Archive) /\ Len(D) = Len(files) + 1
        /\ \A k \in 1 .. Len(files) : Writable(files[k])
    BY <1>1, <1>3, <2>1, OwnFacts
  <2>3. /\ IsSeq(extracted) /\ Len(extracted) \in Nat /\ Len(extracted) <= Len(files)
        /\ \A k \in 1 .. Len(extracted) : extracted[k] = Due(files[k])
    BY <1>1, <1>3, SeqFacts DEF RoundInv, OwnInv, ZInv, BaseInv
  <2>4. PICK n \in Nat : n = Len(extracted) + 1
    BY <2>3
  <2>5. n # Len(D)
    BY <1>1, <2>1, <2>4
  <2>6. n \in 1 .. Len(files)
    BY <2>2, <2>3, <2>4, <2>5
  <2> DEFINE f == files[n]
  <2>7. /\ NextCfh(Archive, offset) = D[n + 1] /\ Name(Archive, offset) = NameOf(f)
        /\ Gives(Archive, offset, f)
    <3>1. offset = D[n] /\ Complete(Archive, L, D)
      BY <2>1, <2>4
    <3>2. /\ NextCfh(Archive, D[n]) = D[n + 1] /\ Name(Archive, D[n]) = NameOf(f)
          /\ Gives(Archive, D[n], f)
      <4>1. \A k \in 1 .. Len(files) :
               /\ NextCfh(Archive, D[k]) = D[k + 1] /\ Name(Archive, D[k]) = NameOf(files[k])
               /\ Gives(Archive, D[k], files[k])
        BY <2>2, <3>1, EntryIsRead, SMTT(30)
      <4>. QED  BY <2>6, <4>1
    <3>. QED  BY <3>1, <3>2
  <2>8. f.name = NameOf(f) /\ f.data = DataOf(f)
    BY DEF NameOf, DataOf
  <2>9. MemberHolds(Archive, offset)
    BY <1>1, CurrentMember
  <2> HIDE DEF f
  <2>10. /\ phase' = "extract" /\ offset' = D[n + 1] /\ extracted' = Append(extracted, Due(f))
    <3> DEFINE c == read_cfh(Archive, offset)
               d == DataOf(f)
    <3>1. /\ ~is_dir(c) /\ c.crc32 = crc32(d) /\ zip_extract_member(c, CompData(Archive, c)) = {d}
      BY <2>7 DEF Gives
    <3> HIDE DEF c, d
    <3>2. \/ ~is_relative(NameOf(f)) /\ GoOn(Became("skipped", NameOf(f), <<>>))
          \/ is_relative(NameOf(f)) /\ is_dir(c) /\ GoOn(Became("folder", NameOf(f), <<>>))
          \/ /\ is_relative(NameOf(f)) /\ ~is_dir(c)
             /\ \/ \E x \in {d} : crc32(x) = c.crc32 /\ GoOn(Became("file", NameOf(f), x))
                \/ {d} = {} /\ GoOn(Became("file", NameOf(f), <<JUNK>>))
                \/ \A x \in {d} : crc32(x) # c.crc32
      BY <2>7, <2>9, <3>1, Zenon DEF ExtractMember, c
    <3>3. \/ ~is_relative(NameOf(f)) /\ GoOn(Became("skipped", NameOf(f), <<>>))
          \/ is_relative(NameOf(f)) /\ GoOn(Became("file", NameOf(f), d))
      BY <3>1, <3>2
    <3>4. GoOn(Due(f))
      BY <2>8, <3>3 DEF Due, d
    <3>. QED  BY <1>1, <2>7, <3>4 DEF GoOn
  <2>12. /\ Len(extracted') = n /\ \A k \in 1 .. Len(extracted) : extracted'[k] = extracted[k]
         /\ extracted'[n] = Due(f)
    BY <2>3, <2>4, <2>10, AppendFacts
  <2>13. \A k \in 1 .. Len(extracted') : extracted'[k] = Due(files[k])
    <3>1. \A k \in 1 .. n : k \in 1 .. Len(extracted) \/ k = n
      BY <2>3, <2>4
    <3>. QED  BY <2>3, <2>12, <3>1 DEF f
  <2>14. (\E M, E : /\ Complete(Archive, M, E) /\ offset = E[Len(extracted) + 1]
                    /\ members_end = E[Len(E)])'
    BY <1>1, <2>1, <2>10, <2>12, OwnKept
  <2>15. n <= Len(files)
    BY <2>6
  <2>16. files' = files
    BY <1>1 DEF given
  <2>. QED  BY <2>4, <2>10, <2>12, <2>13, <2>14, <2>15, <2>16 DEF OwnInv
<1>. QED  BY <1>2, <1>3

LEMMA DoneOwn ==
    ASSUME RoundInv, Done
    PROVE  OwnInv' /\ (Promised => extracted = AllDue(files) /\ zip_comment' = comment)
<1>1. /\ phase = "extract" /\ UNCHANGED <<given, writing, reading>> /\ ZInv /\ offset = members_end
      /\ phase' = "done" /\ extracted' = extracted
  BY DEF Done, RoundInv, reading
<1>2. CASE ~Promised
  BY <1>1, <1>2, OwnKept DEF OwnInv
<1>3. CASE Promised
  <2>1. PICK L, D : /\ Complete(Archive, L, D) /\ offset = D[Len(extracted) + 1]
                    /\ members_end = D[Len(D)]
    BY <1>1, <1>3 DEF RoundInv, OwnInv
  <2>2. /\ IsSeq(files) /\ Len(files) \in Nat /\ Len(D) = Len(files) + 1 /\ zip_comment = comment
        /\ \A j, k \in 1 .. Len(D) : D[j] = D[k] => j = k
    BY <1>1, <1>3, <2>1, OwnFacts
  <2>3. /\ IsSeq(extracted) /\ Len(extracted) \in Nat /\ Len(extracted) <= Len(files)
        /\ \A k \in 1 .. Len(extracted) : extracted[k] = Due(files[k])
    BY <1>1, <1>3, SeqFacts DEF RoundInv, OwnInv, ZInv, BaseInv
  <2>4. Len(extracted) + 1 \in 1 .. Len(D) /\ Len(D) \in 1 .. Len(D)
    BY <2>2, <2>3
  <2>5. Len(extracted) + 1 = Len(D)
    BY <1>1, <2>1, <2>2, <2>4
  <2>6. Len(extracted) = Len(files)
    BY <2>2, <2>3, <2>5
  <2>7. extracted = AllDue(files)
    <3>1. /\ IsSeq(AllDue(files)) /\ Len(AllDue(files)) = Len(files)
          /\ \A k \in 1 .. Len(files) : AllDue(files)[k] = Due(files[k])
      BY <2>2, AllDueFacts
    <3>. QED  BY <2>3, <2>6, <3>1, SeqSame
  <2>8. zip_comment' = zip_comment /\ files' = files /\ comment' = comment
    BY <1>1, OwnKept DEF zip_comment, given, writing, reading
  <2>. QED  BY <1>1, <2>2, <2>7, <2>8 DEF OwnInv, AllDue
<1>. QED  BY <1>2, <1>3

LEMMA OwnNext == ASSUME RoundInv, [Next]_vars PROVE OwnInv'
<1>1. CASE WriteCompressed \/ WriteStored \/ StartDirectory \/ WriteEntry \/ WriteEnd
  <2>1. phase' \in {"members", "directory", "written", "aborted"}
    BY <1>1 DEF WriteCompressed, WriteStored, Member, StartDirectory, WriteEntry, WriteEnd
  <2>. QED  BY <2>1 DEF OwnInv
<1>2. CASE Damage
  BY <1>2 DEF Damage, OwnInv, Promised
<1>3. CASE UNCHANGED vars
  <2>1. /\ phase' = phase /\ files' = files /\ offset' = offset /\ members_end' = members_end
        /\ extracted' = extracted /\ i' = i /\ comment' = comment /\ cd_offset' = cd_offset
        /\ Archive' = Archive /\ (\A D : End(D)' = End(D)) /\ zip_comment' = zip_comment
        /\ Promised' = Promised /\ AllDue(files)' = AllDue(files)
    BY <1>3 DEF vars, given, writing, reading, Archive, End, Promised, Reading, Ambiguous, EndOfArchive,
                zip_comment, back_offset, EndRecords, AllDue
  <2>. QED  BY <2>1 DEF RoundInv, OwnInv, Complete, Entries, Members
<1>. QED
  BY <1>1, <1>2, <1>3, ReadEndOwn, ReadHeaderOwn, AllReadOwn, ExtractMemberOwn, DoneOwn DEF Next

--------------------------------------------------------------------------------
(***************************************************************************)
(* Every step is a step of the abstract specification, or changes nothing  *)
(* it speaks of.                                                           *)
(***************************************************************************)
zvars == <<Input, Output, Outcome>>

Dues == {Due(f) : f \in UNION {Range(l) : l \in FileLists}}

\* What is due for the first n files.
FirstDue(n) == AllDue(SubSeq(files, 1, n))

LEMMA FirstFiles ==
    ASSUME files \in FileLists, NEW n \in Nat, n <= Len(files)
    PROVE  /\ FirstDue(n) \in Seq(Dues) /\ IsSeq(FirstDue(n)) /\ Len(FirstDue(n)) = n
           /\ \A k \in 1 .. n : FirstDue(n)[k] = Due(files[k])
<1>1. IsSeq(files) /\ Len(files) \in Nat
  BY FilesFacts
<1> DEFINE t == SubSeq(files, 1, n)
           d == FirstDue(n)
<1>2. IsSeq(t) /\ Len(t) = n /\ \A k \in 1 .. n : t[k] = files[k]
  <2>1. 0 + n <= Len(files) /\ 0 \in Nat /\ 0 + 1 = 1 /\ 0 + n = n
    BY <1>1
  <2>2. Cut(files, 0, n) = t
    BY <2>1 DEF Cut
  <2>3. /\ IsSeq(Cut(files, 0, n)) /\ Len(Cut(files, 0, n)) = n
        /\ \A k \in 1 .. n : Cut(files, 0, n)[k] = files[0 + k]
    BY <1>1, <2>1, CutFacts
  <2>4. \A k \in 1 .. n : 0 + k = k
    OBVIOUS
  <2>. QED  BY <2>2, <2>3, <2>4
<1>3. d = AllDue(t)
  BY DEF FirstDue
<1> HIDE DEF t
<1>4. IsSeq(d) /\ Len(d) = n /\ \A k \in 1 .. n : d[k] = Due(files[k])
  BY <1>2, <1>3, AllDueFacts
<1>5. \A k \in 1 .. n : d[k] \in Dues
  <2>1. \A k \in 1 .. Len(files) : files[k] \in Range(files)
    BY <1>1, SeqFacts DEF Range
  <2>2. \A k \in 1 .. n : files[k] \in UNION {Range(l) : l \in FileLists}
    BY <1>1, <2>1
  <2>. QED  BY <1>4, <2>2 DEF Dues
<1> HIDE DEF d
<1>6. d \in Seq(Dues)
  <2>1. DOMAIN d = 1 .. n /\ d = [k \in 1 .. n |-> d[k]]
    BY <1>4, SeqFacts
  <2>2. d \in [1 .. n -> Dues]
    BY <1>5, <2>1
  <2>. QED  BY <2>2, IsASeq
<1>. QED  BY <1>4, <1>6 DEF d

\* All files are the first Len(files) of them.
LEMMA AllFiles == ASSUME files \in FileLists PROVE FirstDue(Len(files)) = AllDue(files)
<1>1. IsSeq(files) /\ Len(files) \in Nat
  BY FilesFacts
<1> DEFINE t == FirstDue(Len(files))
           d == AllDue(files)
<1>2. IsSeq(t) /\ Len(t) = Len(files) /\ \A k \in 1 .. Len(files) : t[k] = Due(files[k])
  BY <1>1, FirstFiles
<1>3. IsSeq(d) /\ Len(d) = Len(files) /\ \A k \in 1 .. Len(files) : d[k] = Due(files[k])
  BY <1>1, AllDueFacts
<1> HIDE DEF t, d
<1>4. t = d
  BY <1>2, <1>3, SeqSame
<1>. QED  BY <1>4 DEF t, d

\* What is due for the first of the files is the beginning of what is due for all.
LEMMA FirstOfDue ==
    ASSUME files \in FileLists, NEW m \in Nat, NEW n \in Nat, n <= m, m <= Len(files)
    PROVE  SubSeq(FirstDue(m), 1, n) = FirstDue(n)
<1> DEFINE b == FirstDue(m)
           a == FirstDue(n)
           t == Cut(b, 0, n)
<1>0. n <= Len(files)
  BY FilesFacts
<1>1. /\ IsSeq(b) /\ Len(b) = m /\ (\A k \in 1 .. m : b[k] = Due(files[k]))
  BY FirstFiles
<1>2. IsSeq(a) /\ Len(a) = n /\ \A k \in 1 .. n : a[k] = Due(files[k])
  BY <1>0, FirstFiles
<1> HIDE DEF a, b
<1>3. IsSeq(t) /\ Len(t) = n /\ \A k \in 1 .. n : t[k] = b[0 + k]
  <2>1. 0 + n <= Len(b) /\ 0 \in Nat
    BY <1>1
  <2>. QED  BY <1>1, <2>1, CutFacts
<1>4. t = SubSeq(b, 1, n)
  <2>1. 0 + 1 = 1 /\ 0 + n = n
    OBVIOUS
  <2>. QED  BY <2>1 DEF Cut
<1> HIDE DEF t
<1>5. \A k \in 1 .. n : t[k] = a[k]
  <2>1. \A k \in 1 .. n : 0 + k = k /\ k \in 1 .. m
    OBVIOUS
  <2>. QED  BY <1>1, <1>2, <1>3, <2>1
<1>6. t = a
  BY <1>2, <1>3, <1>5, SeqSame
<1>. QED  BY <1>4, <1>6 DEF a, b

LEMMA MemberImplements ==
    ASSUME RoundInv, WriteCompressed \/ WriteStored PROVE Codec!Accept
<1>1. /\ phase = "members" /\ phase' = "members" /\ i <= Len(files) /\ i' = i + 1
      /\ UNCHANGED <<files, comment, intact, extracted>>
  BY DEF WriteCompressed, WriteStored, Member, given, reading
<1>2. i \in 1 .. Len(files) /\ files \in FileLists
  BY <1>1, FileAt DEF RoundInv, ZInv, BaseInv
<1>3. i - 1 \in Nat /\ i \in Nat /\ i - 1 <= Len(files) /\ i' - 1 = i /\ i <= Len(files)
  BY <1>1, <1>2
<1>4. Input = FirstDue(i - 1) /\ Input' = FirstDue(i)
  <2>1. i' - 1 = i
    BY <1>3
  <2>. QED  BY <1>1, <2>1 DEF Input, FirstDue, AllDue
<1>5. Outcome = "open" /\ Outcome' = "open" /\ Output' = Output
  <2>1. ~Reading /\ ~Reading'
    BY <1>1 DEF Reading
  <2>. QED  BY <2>1 DEF Outcome, Output, Promised
<1>6. /\ FirstDue(i) \in Seq(Dues) /\ Len(FirstDue(i)) = i
      /\ Len(FirstDue(i - 1)) = i - 1
  BY <1>2, <1>3, FirstFiles
<1>7. SubSeq(FirstDue(i), 1, i - 1) = FirstDue(i - 1)
  <2>1. i - 1 <= i
    BY <1>3
  <2>. QED  BY <1>2, <1>3, <2>1, FirstOfDue
<1>8. Len(FirstDue(i)) > Len(FirstDue(i - 1))
  BY <1>3, <1>6
<1>. QED  BY <1>4, <1>5, <1>6, <1>7, <1>8 DEF Codec!Accept, Dues

LEMMA DirectoryImplements ==
    ASSUME RoundInv, RoomInv, StartDirectory \/ WriteEntry PROVE UNCHANGED zvars
<1>1. phase' # "aborted"
  BY NextKeeps DEF RoundInv, ZInv, BaseInv, Next
<1>2. CASE StartDirectory
  <2>1. /\ phase = "members" /\ phase' = "directory" /\ i > Len(files)
        /\ UNCHANGED <<files, comment, intact, extracted>>
    BY <1>2 DEF StartDirectory, given, reading
  <2>2. PICK L : Members(dst, L) /\ i = Len(L)
    BY <2>1 DEF RoundInv, ZInv, WriteInv
  <2>3. files \in FileLists /\ i \in Nat /\ i <= Len(files) + 1
    BY <2>2 DEF RoundInv, ZInv, BaseInv, Members
  <2>4. i - 1 = Len(files)
    BY <2>1, <2>3, FilesFacts
  <2>5. Input = AllDue(files) /\ Input' = AllDue(files)
    <3>1. Input' = AllDue(files)
      BY <2>1 DEF Input, AllDue
    <3>2. Input = FirstDue(Len(files))
      BY <2>1, <2>4 DEF Input, FirstDue
    <3>. QED  BY <2>3, <3>1, <3>2, AllFiles
  <2>6. ~Reading /\ ~Reading'
    BY <2>1 DEF Reading
  <2>. QED  BY <2>5, <2>6 DEF zvars, Outcome, Output, Promised
<1>3. CASE WriteEntry
  <2>1. /\ phase = "directory" /\ phase' = "directory"
        /\ UNCHANGED <<files, comment, intact, extracted>>
    BY <1>1, <1>3 DEF WriteEntry, given, reading
  <2>2. ~Reading /\ ~Reading'
    BY <2>1 DEF Reading
  <2>. QED  BY <2>1, <2>2 DEF zvars, Input, AllDue, Outcome, Output, Promised
<1>. QED  BY <1>2, <1>3

LEMMA WriteEndImplements ==
    ASSUME RoundInv, WriteEnd PROVE Codec!GiveUp \/ UNCHANGED zvars
<1>1. /\ phase = "directory" /\ phase' = "written" /\ extracted = <<>>
      /\ UNCHANGED <<files, extracted>>
  BY DEF WriteEnd, given, reading, RoundInv, ZInv, BaseInv
<1>2. ~Reading /\ Reading'
  BY <1>1 DEF Reading
<1>3. Input' = Input /\ Output = <<>> /\ Output' = <<>> /\ Outcome = "open"
  BY <1>1, <1>2 DEF Input, AllDue, Output, Outcome, Promised
<1>4. Outcome' \in {"open", "gave_up"}
  BY <1>1, <1>2 DEF Outcome
<1>. QED  BY <1>3, <1>4 DEF Codec!GiveUp, zvars

LEMMA DamageImplements ==
    ASSUME RoundInv, Damage PROVE Codec!GiveUp \/ UNCHANGED zvars
<1>1. /\ phase = "written" /\ phase' = "written" /\ ~intact' /\ extracted = <<>>
      /\ UNCHANGED <<files, extracted>>
  BY DEF Damage, given, reading, RoundInv, ZInv, BaseInv
<1>2. Reading /\ Reading' /\ ~Promised'
  BY <1>1 DEF Reading, Promised
<1>3. Input' = Input /\ Output' = <<>> /\ Output = <<>>
  BY <1>1, <1>2 DEF Input, AllDue, Output
<1>4. Outcome' = "gave_up" /\ Outcome \in {"open", "gave_up"}
  BY <1>1, <1>2 DEF Outcome
<1>. QED  BY <1>3, <1>4 DEF Codec!GiveUp, zvars

LEMMA ReaderImplements ==
    ASSUME RoundInv, ReadEnd \/ ReadHeader \/ AllRead \/ ExtractMember \/ Done
    PROVE  Codec!Next \/ UNCHANGED zvars
<1>1. /\ phase \in {"written", "read", "extract"} /\ ZInv /\ UNCHANGED <<given, writing>>
      /\ phase' \in {"read", "refused", "extract", "aborted", "done"}
  BY DEF ReadEnd, ReadHeader, AllRead, ExtractMember, GoOn, Done, RoundInv
<1>2. files' = files /\ comment' = comment /\ Promised' = Promised
  BY <1>1, OwnKept
<1>3. Input = AllDue(files) /\ Input' = AllDue(files) /\ Reading /\ Reading'
  BY <1>1, <1>2 DEF Input, AllDue, Reading
<1>4. CASE ~Promised
  <2>1. Output = <<>> /\ Output' = <<>>
    BY <1>2, <1>4 DEF Output
  <2>2. Outcome = "gave_up" /\ Outcome' = "gave_up"
    BY <1>2, <1>3, <1>4 DEF Outcome
  <2>. QED  BY <1>3, <2>1, <2>2 DEF zvars
<1>5. CASE Promised
  <2>1. Outcome = "open" /\ Output = extracted /\ Output' = extracted'
    BY <1>1, <1>2, <1>3, <1>5 DEF Outcome, Output
  <2>2. CASE ReadEnd \/ ReadHeader \/ AllRead
    <3>1. phase' \in {"read", "extract"} /\ extracted' = extracted
      BY <1>5, <2>2, ReadEndOwn, ReadHeaderOwn, AllReadOwn DEF ReadEnd, ReadHeader, AllRead
    <3>2. Outcome' = "open"
      BY <1>2, <1>3, <1>5, <3>1 DEF Outcome
    <3>. QED  BY <1>3, <2>1, <3>1, <3>2 DEF zvars
  <2>3. CASE ExtractMember
    <3>1. /\ phase' = "extract" /\ Len(extracted') = Len(extracted) + 1 /\ Len(extracted') <= Len(files)
          /\ \A k \in 1 .. Len(extracted') : extracted'[k] = Due(files[k])
      BY <1>5, <2>3, ExtractMemberOwn
    <3>2. ZInv' /\ files \in FileLists /\ IsSeq(extracted)
      BY <1>1, <2>3, ExtractMemberKeeps DEF ZInv, BaseInv
    <3>3. PICK n \in Nat : n = Len(extracted')
      BY <3>1, <3>2, SeqFacts
    <3>4. extracted' = SubSeq(AllDue(files), 1, n)
      <4>1. IsSeq(extracted')
        BY <3>2 DEF ZInv, BaseInv
      <4>2. IsSeq(FirstDue(n)) /\ Len(FirstDue(n)) = n /\ \A k \in 1 .. n : FirstDue(n)[k] = Due(files[k])
        BY <3>1, <3>2, <3>3, FirstFiles
      <4>3. extracted' = FirstDue(n)
        BY <3>1, <3>3, <4>1, <4>2, SeqSame
      <4>4. SubSeq(FirstDue(Len(files)), 1, n) = FirstDue(n)
        <5>1. Len(files) \in Nat /\ n <= Len(files) /\ Len(files) <= Len(files)
          BY <3>1, <3>2, <3>3, FilesFacts
        <5>. QED  BY <3>2, <5>1, FirstOfDue
      <4>5. FirstDue(Len(files)) = AllDue(files)
        BY <3>2, AllFiles
      <4>. QED  BY <4>3, <4>4, <4>5, Zenon
    <3>5. n \in Len(extracted) + 1 .. Len(AllDue(files))
      <4>1. Len(AllDue(files)) = Len(files) /\ Len(files) \in Nat
        BY <3>2, FilesFacts, AllDueFacts
      <4>. QED  BY <3>1, <3>2, <3>3, <4>1, SeqFacts
    <3>6. Outcome' = "open"
      BY <1>2, <1>3, <1>5, <3>1 DEF Outcome
    <3>. QED  BY <1>3, <2>1, <3>4, <3>5, <3>6 DEF Codec!Deliver, Codec!Next
  <2>4. CASE Done
    <3>1. extracted = AllDue(files) /\ zip_comment' = comment /\ phase' = "done" /\ extracted' = extracted
      BY <1>5, <2>4, DoneOwn DEF Done, reading
    <3>2. Outcome' = "done"
      BY <1>2, <1>3, <1>5, <3>1 DEF Outcome
    <3>. QED  BY <1>3, <2>1, <3>1, <3>2 DEF Codec!Finish, Codec!Next
  <2>. QED  BY <2>2, <2>3, <2>4
<1>. QED  BY <1>4, <1>5

\* Every archive that zip_write makes gives back each file under its name, in
\* order, with all its data, and the comment: zip_read and extract_zip refuse
\* nothing of it, whatever the names, data and sizes are, and leave out only the
\* files whose names are not relative. The end record's signature must not occur a
\* second time behind the beginning of the record (Ambiguous).
THEOREM ArchiveIsLossless == Spec => ImplementsLossless
<1>1. Init => RoundInv
  <2> SUFFICES ASSUME Init PROVE RoundInv
    OBVIOUS
  <2>1. ZInv /\ phase \in {"members", "not_possible"}
    BY InitHolds DEF Init
  <2>. QED  BY <2>1 DEF RoundInv, OwnInv, Promised, Reading
<1>2. RoundInv /\ RoomInv /\ [Next]_vars => RoundInv'
  BY NextKeeps, OwnNext DEF RoundInv
<1>3. Init => Codec!Init
  <2> SUFFICES ASSUME Init PROVE Codec!Init
    OBVIOUS
  <2>1. ZInv /\ extracted = <<>> /\ i = 1 /\ phase \in {"members", "not_possible"}
    BY InitHolds DEF Init
  <2>2. Output = <<>> /\ Outcome = "open"
    <3>1. ~Reading
      BY <2>1 DEF Reading
    <3>. QED  BY <2>1, <3>1 DEF Output, Outcome
  <2>3. Input = <<>>
    <3>1. FirstDue(0) = <<>>
      <4>1. files \in FileLists /\ 0 <= Len(files)
        BY <2>1, FilesFacts DEF ZInv, BaseInv
      <4>2. IsSeq(FirstDue(0)) /\ Len(FirstDue(0)) = 0
        BY <4>1, FirstFiles
      <4>. QED  BY <4>2, EmptySeq DEF IsSeq
    <3>2. Input = <<>> \/ Input = FirstDue(0)
      BY <2>1 DEF Input, FirstDue
    <3>. QED  BY <3>1, <3>2
  <2>. QED  BY <2>2, <2>3 DEF Codec!Init
<1>4. RoundInv /\ RoomInv /\ [Next]_vars => [Codec!Next]_zvars
  <2> SUFFICES ASSUME RoundInv, RoomInv, [Next]_vars PROVE Codec!Next \/ UNCHANGED zvars
    OBVIOUS
  <2>1. CASE UNCHANGED vars
    BY <2>1 DEF vars, given, writing, reading, zvars, Input, AllDue, Output, Outcome, Promised, Reading,
                Ambiguous, EndOfArchive, zip_comment, back_offset, EndRecords, Archive
  <2>. QED
    BY <2>1, MemberImplements, DirectoryImplements, WriteEndImplements, DamageImplements,
       ReaderImplements DEF Next, Codec!Next
<1>. QED  BY <1>1, <1>2, <1>3, <1>4, InvariantHolds, PTL DEF Spec, ImplementsLossless, Codec!Spec, zvars

--------------------------------------------------------------------------------
(***************************************************************************)
(* What extract_zip leaves on disk, for archives of any length made of any *)
(* members, and for any earlier contents of the folder.                    *)
(***************************************************************************)
Things == {Nothing, Dir, OldFile, Partial} \cup {File(n) : n \in 1 .. MAX_MEMBERS}

\* e is d with some folders made where nothing was.
DiskGrown(d, e) ==
    /\ e \in [Path -> Things]
    /\ \A w \in Path : e[w] = d[w] \/ (d[w] = Nothing /\ e[w] = Dir)

\* f holds the contents of the disk after each prefix of p, up to the n-th.
MakesPrefixes(f, d, q, n) ==
    f = [k \in 0 .. n |-> IF k = 0 THEN d ELSE mkdir(f[k - 1], SubSeq(q, 1, k))]

--------------------------------------------------------------------------------
(***************************************************************************)
(* mkfldr.                                                                 *)
(***************************************************************************)
LEMMA mkdirGrows ==
    ASSUME NEW d \in [Path -> Things], NEW q
    PROVE  DiskGrown(d, mkdir(d, q))
  BY DEF DiskGrown, mkdir, Things

LEMMA PrefixesExist ==
    ASSUME NEW d, NEW q
    PROVE  \A n \in Nat : \E f : MakesPrefixes(f, d, q, n)
<1> DEFINE Bad == {n \in Nat : ~\E f : MakesPrefixes(f, d, q, n)}
<1> SUFFICES ASSUME Bad # {} PROVE FALSE
  OBVIOUS
<1>1. PICK n \in Bad : \A k \in Bad : n <= k
  BY LeastElement
<1>2. CASE n = 0
  <2>1. MakesPrefixes([k \in 0 .. 0 |-> d], d, q, 0)
    BY DEF MakesPrefixes
  <2>. QED  BY <1>1, <1>2, <2>1
<1>3. CASE n # 0
  <2>1. n - 1 \in Nat /\ n \in Nat /\ n - 1 \notin Bad
    BY <1>1, <1>3
  <2>2. PICK f : MakesPrefixes(f, d, q, n - 1)
    BY <2>1
  <2> DEFINE g == [k \in 0 .. n |-> IF k = n THEN mkdir(f[n - 1], SubSeq(q, 1, n)) ELSE f[k]]
  <2>3. \A k \in 0 .. n - 1 : f[k] = IF k = 0 THEN d ELSE mkdir(f[k - 1], SubSeq(q, 1, k))
    <3> DEFINE e(k) == IF k = 0 THEN d ELSE mkdir(f[k - 1], SubSeq(q, 1, k))
    <3>1. f = [k \in 0 .. n - 1 |-> e(k)]
      BY <2>2 DEF MakesPrefixes
    <3> HIDE DEF e
    <3>2. \A k \in 0 .. n - 1 : f[k] = e(k)
      BY <3>1
    <3>. QED  BY <3>2 DEF e
  <2>4. \A k \in 0 .. n : g[k] = IF k = 0 THEN d ELSE mkdir(g[k - 1], SubSeq(q, 1, k))
    <3> SUFFICES ASSUME NEW k \in 0 .. n
                 PROVE  g[k] = IF k = 0 THEN d ELSE mkdir(g[k - 1], SubSeq(q, 1, k))
      OBVIOUS
    <3>1. CASE k = n
      <4>1. g[n - 1] = f[n - 1] /\ g[n] = mkdir(f[n - 1], SubSeq(q, 1, n))
        BY <1>3, <2>1
      <4>. QED  BY <1>3, <3>1, <4>1
    <3>2. CASE k # n /\ k # 0
      <4>1. k \in 0 .. n - 1 /\ k - 1 \in 0 .. n /\ k - 1 # n
        BY <2>1, <3>2
      <4>2. g[k] = f[k] /\ g[k - 1] = f[k - 1]
        BY <3>2, <4>1
      <4>. QED  BY <2>3, <3>2, <4>1, <4>2
    <3>3. CASE k = 0
      <4>1. g[0] = f[0] /\ f[0] = d
        BY <1>3, <2>1, <2>3
      <4>. QED  BY <3>3, <4>1
    <3>. QED  BY <3>1, <3>2, <3>3
  <2>5. g = [k \in 0 .. n |-> g[k]]
    OBVIOUS
  <2> HIDE DEF g
  <2>6. MakesPrefixes(g, d, q, n)
    <3>1. [k \in 0 .. n |-> g[k]]
            = [k \in 0 .. n |-> IF k = 0 THEN d ELSE mkdir(g[k - 1], SubSeq(q, 1, k))]
      BY <2>4
    <3>. QED  BY <2>5, <3>1 DEF MakesPrefixes
  <2>. QED  BY <1>1, <2>6
<1>. QED  BY <1>2, <1>3

\* mkfldr makes folders where nothing was, and changes nothing else.
LEMMA mkfldrGrows ==
    ASSUME NEW d \in [Path -> Things], NEW q, Len(q) \in Nat
    PROVE  DiskGrown(d, mkfldr(d, q))
<1>1. PICK made : MakesPrefixes(made, d, q, Len(q)) /\ mkfldr(d, q) = made[Len(q)]
  <2> DEFINE M == CHOOSE f : MakesPrefixes(f, d, q, Len(q))
  <2>1. MakesPrefixes(M, d, q, Len(q))
    BY PrefixesExist
  <2>2. mkfldr(d, q) = M[Len(q)]
    BY DEF mkfldr, MakesPrefixes
  <2> HIDE DEF M
  <2>. QED  BY <2>1, <2>2
<1>2. \A k \in 0 .. Len(q) : made[k] = IF k = 0 THEN d ELSE mkdir(made[k - 1], SubSeq(q, 1, k))
  <2> DEFINE e(k) == IF k = 0 THEN d ELSE mkdir(made[k - 1], SubSeq(q, 1, k))
  <2>1. made = [k \in 0 .. Len(q) |-> e(k)]
    BY <1>1 DEF MakesPrefixes
  <2> HIDE DEF e
  <2>2. \A k \in 0 .. Len(q) : made[k] = e(k)
    BY <2>1
  <2>. QED  BY <2>2 DEF e
<1> DEFINE Bad == {k \in 0 .. Len(q) : ~DiskGrown(d, made[k])}
<1>3. Bad = {}
  <2> SUFFICES ASSUME Bad # {} PROVE FALSE
    OBVIOUS
  <2>1. PICK k \in Bad : \A j \in Bad : k <= j
    <3>1. Bad \subseteq Nat
      OBVIOUS
    <3> HIDE DEF Bad
    <3>. QED  BY <3>1, LeastElement
  <2>2. k # 0
    <3>1. DiskGrown(d, d)
      BY DEF DiskGrown
    <3>. QED  BY <1>2, <2>1, <3>1
  <2>3. k - 1 \in 0 .. Len(q) /\ k - 1 \notin Bad
    BY <2>1, <2>2
  <2>4. DiskGrown(d, made[k - 1]) /\ made[k] = mkdir(made[k - 1], SubSeq(q, 1, k))
    BY <1>2, <2>1, <2>2, <2>3
  <2>5. DiskGrown(made[k - 1], made[k])
    BY <2>4, mkdirGrows DEF DiskGrown
  <2>6. DiskGrown(d, made[k])
    BY <2>4, <2>5 DEF DiskGrown, Nothing, Dir
  <2>. QED  BY <2>1, <2>6
<1>. QED  BY <1>1, <1>3

LEMMA ArchiveLen ==
    ASSUME NEW arch \in Archives
    PROVE  Len(arch) \in 0 .. MAX_MEMBERS /\ \A n \in 1 .. Len(arch) : arch[n] \in ZipMember
<1>1. PICK n \in 0 .. MAX_MEMBERS : arch \in [1 .. n -> ZipMember]
  BY DEF Archives
<1>2. n \in Nat
  BY BoundAssumption
<1>3. Len(arch) = n
  BY <1>1, <1>2
<1>. QED  BY <1>1, <1>3

--------------------------------------------------------------------------------
(***************************************************************************)
(* The inductive invariant.                                                *)
(***************************************************************************)
\* Past zip_read every header was acceptable; a file is opened and written only
\* for a member whose data passed its check.
PlaceInv ==
    /\ place # "zip_read" => \A n \in 1 .. Len(archive) : archive[n].readable
    /\ place \in {"fopen", "fwrite"} =>
         it <= Len(archive) /\ memb.relative /\ ~memb.is_dir /\ memb.data = "good"

DiskInv == ExtractTypeOK /\ PlaceInv /\ OnlyCheckedData /\ Extracted

LEMMA MemberFacts ==
    ASSUME ExtractTypeOK
    PROVE  /\ archive \in Archives /\ old \in Folders /\ disk \in [Path -> Things]
           /\ Len(archive) \in Nat /\ Len(archive) <= MAX_MEMBERS
           /\ it \in Nat /\ it >= 1 /\ it <= Len(archive) + 1
           /\ \A n \in 1 .. Len(archive) : archive[n] \in ZipMember
           /\ it <= Len(archive) =>
                /\ it \in 1 .. Len(archive) /\ it \in 1 .. MAX_MEMBERS
                /\ memb \in ZipMember /\ memb.path \in Path
                /\ Len(memb.path) \in Nat /\ Len(Parent(memb.path)) \in Nat
<1>1. /\ archive \in Archives /\ old \in Folders /\ disk \in [Path -> Things]
      /\ it \in 1 .. Len(archive) + 1
  BY DEF ExtractTypeOK, Things
<1>2. Len(archive) \in Nat /\ Len(archive) <= MAX_MEMBERS
      /\ \A n \in 1 .. Len(archive) : archive[n] \in ZipMember
  BY <1>1, ArchiveLen, BoundAssumption
<1>3. it \in Nat /\ it >= 1 /\ it <= Len(archive) + 1
  BY <1>1, <1>2
<1>4. ASSUME it <= Len(archive)
      PROVE  /\ it \in 1 .. Len(archive) /\ it \in 1 .. MAX_MEMBERS
             /\ memb \in ZipMember /\ memb.path \in Path
             /\ Len(memb.path) \in Nat /\ Len(Parent(memb.path)) \in Nat
  <2>1. it \in 1 .. Len(archive) /\ it \in 1 .. MAX_MEMBERS
    BY <1>2, <1>3, <1>4, BoundAssumption
  <2>2. memb \in ZipMember /\ memb.path \in Path
    BY <1>2, <2>1, MemberAssumption DEF memb
  <2>3. memb.path \in Seq(STRING)
    BY <2>2, PathAssumption
  <2>4. Len(memb.path) \in Nat /\ \A k \in 1 .. Len(memb.path) : memb.path[k] \in STRING
    BY <2>3, LenProperties, ElementOfSeq
  <2>5. Len(memb.path) - 1 \in Int /\ 1 \in Int /\ \A k \in 1 .. Len(memb.path) - 1 : memb.path[k] \in STRING
    BY <2>4
  <2>6. Len(Parent(memb.path)) = IF 1 <= Len(memb.path) - 1 THEN (Len(memb.path) - 1) - 1 + 1 ELSE 0
    BY <2>5, SubSeqProperties DEF Parent
  <2>. QED  BY <2>1, <2>2, <2>4, <2>6
<1>. QED  BY <1>1, <1>2, <1>3, <1>4

--------------------------------------------------------------------------------
(***************************************************************************)
(* The invariant holds initially and every step preserves it.              *)
(***************************************************************************)
LEMMA DiskInitInv == ExtractInit => DiskInv
<1> SUFFICES ASSUME ExtractInit PROVE DiskInv
  OBVIOUS
<1>1. /\ archive \in Archives /\ old \in Folders /\ disk = old /\ it = 1
      /\ place = "zip_read" /\ status = "running"
  BY DEF ExtractInit
<1>2. Len(archive) \in Nat
  BY <1>1, ArchiveLen, BoundAssumption
<1>3. ExtractTypeOK
  <2>1. disk \in [Path -> Things]
    BY <1>1 DEF Folders, Things
  <2>. QED  BY <1>1, <1>2, <2>1 DEF ExtractTypeOK, Things, Status
<1>4. \A q \in Path : Writers(q, it) = {}
  BY <1>1 DEF Writers
<1>. QED  BY <1>1, <1>3, <1>4 DEF DiskInv, PlaceInv, OnlyCheckedData, Extracted

\* The program ends, or goes on without a change on disk.
LEMMA SameDisk ==
    ASSUME DiskInv, UNCHANGED <<archive, old, disk, it, place>>, status' \in Status
    PROVE  DiskInv'
<1>1. ExtractTypeOK'
  BY DEF DiskInv, ExtractTypeOK
<1>2. PlaceInv'
  BY DEF DiskInv, PlaceInv, memb
<1>3. \A q \in Path : Writers(q, it)' = Writers(q, it)
  BY DEF Writers
<1>. QED  BY <1>1, <1>2, <1>3 DEF DiskInv, OnlyCheckedData, Extracted, memb

\* Folders are made where nothing was, at a member that is no file to write or
\* is not written yet.
LEMMA FoldersMade ==
    ASSUME DiskInv, place = "member", it <= Len(archive), UNCHANGED <<archive, old, status>>,
           DiskGrown(disk, disk'),
           \/ it' = it + 1 /\ place' = "member" /\ (memb.is_dir \/ ~memb.relative)
           \/ it' = it /\ place' = "fopen" /\ memb.relative /\ ~memb.is_dir /\ memb.data = "good"
    PROVE  DiskInv'
<1>1. ExtractTypeOK
  BY DEF DiskInv
<1>2. ExtractTypeOK'
  <2>1. disk' \in [Path -> Things]
    BY DEF DiskGrown
  <2>2. it' \in 1 .. Len(archive) + 1
    BY <1>1, MemberFacts
  <2>. QED  BY <1>1, <2>1, <2>2 DEF ExtractTypeOK, Things
<1>3. PlaceInv'
  BY DEF DiskInv, PlaceInv, memb
<1>4. ASSUME NEW q \in Path PROVE Writers(q, it)' = Writers(q, it)
  <2>1. CASE it' = it
    BY <2>1 DEF Writers
  <2>2. CASE it' = it + 1 /\ (memb.is_dir \/ ~memb.relative)
    <3>1. it \in Nat
      BY <1>1, MemberFacts
    <3>2. \A k : k \in 1 .. (it + 1) - 1 <=> k \in 1 .. it - 1 \/ (k = it /\ it >= 1)
      BY <3>1
    <3>. QED  BY <2>2, <3>2 DEF Writers, memb
  <2>. QED  BY <2>1, <2>2
<1>5. ASSUME NEW q \in Path
      PROVE  disk'[q] = disk[q] \/ (disk[q] = Nothing /\ disk'[q] = Dir)
  BY DEF DiskGrown
<1>6. \A n : /\ File(n) # Nothing /\ Partial # Nothing /\ Dir # Nothing
  BY DEF File, Partial, Nothing, Dir
<1>7. OnlyCheckedData'
  <2> SUFFICES ASSUME NEW q \in Path
               PROVE  \/ disk'[q] = old[q]
                      \/ old[q] = Nothing /\ disk'[q] = Dir
                      \/ /\ \A n \in 1 .. Len(archive) : archive[n].readable
                         /\ \E n \in Writers(q, it) : archive[n].data = "good" /\ disk'[q] = File(n)
    BY <1>2, <1>4 DEF OnlyCheckedData
  <2>. QED  BY <1>5, <1>6 DEF DiskInv, OnlyCheckedData
<1>8. Extracted'
  <2> SUFFICES ASSUME NEW q \in Path, Writers(q, it) # {}
               PROVE  disk'[q] = File(CHOOSE n \in Writers(q, it) : \A k \in Writers(q, it) : k <= n)
    BY <1>4 DEF Extracted
  <2>1. disk[q] = File(CHOOSE n \in Writers(q, it) : \A k \in Writers(q, it) : k <= n)
    BY DEF DiskInv, Extracted
  <2>. QED  BY <1>5, <1>6, <2>1
<1>. QED  BY <1>2, <1>3, <1>7, <1>8 DEF DiskInv

LEMMA ZipReadInv == DiskInv /\ ZipRead => DiskInv'
<1> SUFFICES ASSUME DiskInv, ZipRead PROVE DiskInv'
  OBVIOUS
<1>1. /\ place = "zip_read" /\ place' = "member" /\ \A n \in 1 .. Len(archive) : archive[n].readable
      /\ UNCHANGED <<archive, old, disk, it, status>>
  BY DEF ZipRead, ContinueAt
<1>2. ExtractTypeOK'
  BY <1>1 DEF DiskInv, ExtractTypeOK
<1>3. PlaceInv'
  BY <1>1 DEF PlaceInv
<1>4. \A q \in Path : Writers(q, it)' = Writers(q, it)
  BY <1>1 DEF Writers
<1>. QED  BY <1>1, <1>2, <1>3, <1>4 DEF DiskInv, OnlyCheckedData, Extracted, memb

LEMMA OpenFileInv == DiskInv /\ OpenFile => DiskInv'
<1> SUFFICES ASSUME DiskInv, OpenFile PROVE DiskInv'
  OBVIOUS
<1>1. /\ place = "fopen" /\ place' = "fwrite" /\ disk' = [disk EXCEPT ![memb.path] = Partial]
      /\ UNCHANGED <<archive, old, it, status>>
  BY DEF OpenFile
<1>2. /\ ExtractTypeOK /\ it <= Len(archive) /\ memb.path \in Path /\ disk \in [Path -> Things]
      /\ \A n \in 1 .. Len(archive) : archive[n].readable
  BY <1>1, MemberFacts DEF DiskInv, PlaceInv
<1>3. /\ disk' \in [Path -> Things] /\ disk'[memb.path] = Partial
      /\ \A q \in Path : q # memb.path => disk'[q] = disk[q]
  BY <1>1, <1>2 DEF Things
<1>4. ExtractTypeOK'
  BY <1>1, <1>2, <1>3 DEF ExtractTypeOK, Things
<1>5. PlaceInv'
  BY <1>1 DEF DiskInv, PlaceInv, memb
<1>6. memb' = memb /\ \A q \in Path : Writers(q, it)' = Writers(q, it)
  BY <1>1 DEF Writers, memb
<1>7. OnlyCheckedData'
  BY <1>1, <1>2, <1>3, <1>4, <1>6 DEF DiskInv, OnlyCheckedData
<1>8. Extracted'
  <2> SUFFICES ASSUME NEW q \in Path, Writers(q, it)' # {}, q # memb.path
               PROVE  disk'[q] = File(CHOOSE n \in Writers(q, it)' : \A k \in Writers(q, it)' : k <= n)
    BY <1>1, <1>6 DEF Extracted
  <2>1. Writers(q, it)' = Writers(q, it) /\ disk'[q] = disk[q]
    BY <1>3, <1>6
  <2>. QED  BY <1>1, <2>1, Zenon DEF DiskInv, Extracted
<1>. QED  BY <1>4, <1>5, <1>7, <1>8 DEF DiskInv

LEMMA WriteFileInv == DiskInv /\ WriteFile => DiskInv'
<1> SUFFICES ASSUME DiskInv, WriteFile PROVE DiskInv'
  OBVIOUS
<1>1. /\ place = "fwrite" /\ place' = "member" /\ it' = it + 1
      /\ disk' = [disk EXCEPT ![memb.path] = File(it)]
      /\ UNCHANGED <<archive, old, status>>
  BY DEF WriteFile, NextMember
<1>2. /\ ExtractTypeOK /\ it <= Len(archive) /\ it \in 1 .. Len(archive) /\ it \in 1 .. MAX_MEMBERS
      /\ it \in Nat /\ Len(archive) \in Nat /\ it >= 1
      /\ memb.path \in Path /\ disk \in [Path -> Things]
      /\ memb.relative /\ ~memb.is_dir /\ memb.data = "good"
      /\ \A n \in 1 .. Len(archive) : archive[n].readable
  BY <1>1, MemberFacts DEF DiskInv, PlaceInv
<1>3. /\ disk' \in [Path -> Things] /\ disk'[memb.path] = File(it)
      /\ \A q \in Path : q # memb.path => disk'[q] = disk[q]
  BY <1>1, <1>2 DEF Things
<1>4. ExtractTypeOK'
  <2>1. it' \in 1 .. Len(archive) + 1
    BY <1>1, <1>2
  <2>. QED  BY <1>1, <1>2, <1>3, <2>1 DEF ExtractTypeOK, Things
<1>5. PlaceInv'
  BY <1>1, <1>2 DEF PlaceInv
<1>6. ASSUME NEW q \in Path
      PROVE  Writers(q, it)' = IF q = memb.path THEN Writers(q, it) \cup {it} ELSE Writers(q, it)
  <2>1. \A k : k \in 1 .. (it + 1) - 1 <=> k \in 1 .. it - 1 \/ k = it
    BY <1>2
  <2>. QED  BY <1>1, <1>2, <2>1 DEF Writers, memb
<1>7. OnlyCheckedData'
  <2> SUFFICES ASSUME NEW q \in Path
               PROVE  \/ disk'[q] = old[q]
                      \/ old[q] = Nothing /\ disk'[q] = Dir
                      \/ \E n \in Writers(q, it)' : archive[n].data = "good" /\ disk'[q] = File(n)
    BY <1>1, <1>2, <1>4 DEF OnlyCheckedData
  <2>1. CASE q = memb.path
    <3>1. it \in Writers(q, it)' /\ archive[it].data = "good"
      BY <1>2, <1>6, <2>1 DEF memb
    <3>. QED  BY <1>3, <2>1, <3>1
  <2>2. CASE q # memb.path
    BY <1>3, <1>6, <2>2 DEF DiskInv, OnlyCheckedData
  <2>. QED  BY <2>1, <2>2
<1>8. Extracted'
  <2> SUFFICES ASSUME NEW q \in Path, Writers(q, it)' # {}
               PROVE  disk'[q] = File(CHOOSE n \in Writers(q, it)' : \A k \in Writers(q, it)' : k <= n)
    BY <1>1 DEF Extracted
  <2>1. CASE q = memb.path
    <3> DEFINE W == Writers(q, it)'
    <3>1. it \in W /\ W \subseteq 1 .. it
      BY <1>2, <1>6, <2>1 DEF Writers
    <3> HIDE DEF W
    <3>2. it = CHOOSE n \in W : \A k \in W : k <= n
      <4>1. \A k \in W : k <= it
        BY <1>2, <3>1
      <4>2. \A n \in W : (\A k \in W : k <= n) => n = it
        BY <1>2, <3>1, <4>1
      <4>. QED  BY <3>1, <4>1, <4>2
    <3>. QED  BY <1>3, <2>1, <3>2 DEF W
  <2>2. CASE q # memb.path
    <3>1. Writers(q, it)' = Writers(q, it) /\ disk'[q] = disk[q]
      BY <1>3, <1>6, <2>2
    <3>. QED  BY <1>1, <2>2, <3>1 DEF DiskInv, Extracted
  <2>. QED  BY <2>1, <2>2
<1>. QED  BY <1>4, <1>5, <1>7, <1>8 DEF DiskInv

LEMMA DiskNextInv == DiskInv /\ [ExtractNext]_extract_vars => DiskInv'
<1> SUFFICES ASSUME DiskInv, [ExtractNext]_extract_vars PROVE DiskInv'
  OBVIOUS
<1>1. CASE ZipReadFails \/ BadData \/ OpenFails \/ WriteFails \/ AllDone \/ Killed
  <2>1. UNCHANGED <<archive, old, disk, it, place>> /\ status' \in Status
    BY <1>1 DEF ZipReadFails, BadData, OpenFails, WriteFails, AllDone, Killed, Exit, Status
  <2>. QED  BY <2>1, SameDisk
<1>2. CASE UNCHANGED extract_vars
  <2>1. UNCHANGED <<archive, old, disk, it, place>> /\ status' \in Status
    BY <1>2 DEF extract_vars, DiskInv, ExtractTypeOK
  <2>. QED  BY <2>1, SameDisk
<1>3. CASE Skip
  <2>1. DiskGrown(disk, disk)
    BY MemberFacts DEF DiskInv, DiskGrown
  <2>. QED  BY <1>3, <2>1, FoldersMade DEF Skip, AtMember, NextMember
<1>4. CASE CreateDir
  <2>1. it <= Len(archive) /\ disk' = mkfldr(disk, memb.path)
    BY <1>4 DEF CreateDir, AtMember
  <2>2. DiskGrown(disk, disk')
    BY <2>1, MemberFacts, mkfldrGrows DEF DiskInv
  <2>. QED  BY <1>4, <2>2, FoldersMade DEF CreateDir, AtMember, NextMember
<1>5. CASE MakeFolder
  <2>1. it <= Len(archive) /\ disk' = mkfldr(disk, IF memb.slash THEN memb.path ELSE Parent(memb.path))
    BY <1>5 DEF MakeFolder, AtMember
  <2>2. DiskGrown(disk, disk')
    BY <2>1, MemberFacts, mkfldrGrows DEF DiskInv
  <2>. QED  BY <1>5, <2>2, FoldersMade DEF MakeFolder, AtMember
<1>. QED  BY <1>1, <1>2, <1>3, <1>4, <1>5, ZipReadInv, OpenFileInv, WriteFileInv DEF ExtractNext, Step

--------------------------------------------------------------------------------
(***************************************************************************)
(* Theorems.                                                               *)
(***************************************************************************)
\* In every state of extract_zip the folder holds checked data only, and all of
\* it up to the current member.
THEOREM ExtractInvariantHolds == ExtractSpec => []DiskInv
<1>. QED  BY DiskInitInv, DiskNextInv, PTL DEF ExtractSpec

\* Whatever ends the program, a file is what it was before or all the data of a
\* member that passed its check (extract_zip, fopen to fwrite).
THEOREM OnlyCheckedDataIsWritten == ExtractSpec => []OnlyCheckedData
<1>1. DiskInv => OnlyCheckedData
  BY DEF DiskInv
<1>. QED  BY <1>1, ExtractInvariantHolds, PTL

\* Every file of the members before the current one is on disk; of several with
\* one name, the last (extract_zip).
THEOREM MembersStayExtracted == ExtractSpec => []Extracted
<1>1. DiskInv => Extracted
  BY DEF DiskInv
<1>. QED  BY <1>1, ExtractInvariantHolds, PTL

--------------------------------------------------------------------------------
Msg == [what : {"tick", "result"}, activity : Activity]

TickPos(s, a) == {z \in 1 .. Len(s) : s[z] = Message("tick", a)}

--------------------------------------------------------------------------------
(***************************************************************************)
(* MainActivity: counting the ticks among the messages of the looper.      *)
(***************************************************************************)
LEMMA TicksFinite ==
    ASSUME NEW s \in Seq(Msg), NEW a
    PROVE  IsFiniteSet(TickPos(s, a)) /\ Cardinality(TickPos(s, a)) \in Nat
<1>1. Len(s) \in Nat
  BY LenProperties
<1>2. IsFiniteSet(1 .. Len(s))
  BY <1>1, FS_Interval
<1>3. TickPos(s, a) \in SUBSET (1 .. Len(s))
  BY DEF TickPos
<1>4. IsFiniteSet(TickPos(s, a))
  BY <1>2, <1>3, FS_Subset
<1>. QED  BY <1>4, FS_CardinalityType

\* A message that is posted counts at most once, and only if it is a tick of a.
LEMMA TicksAppend ==
    ASSUME NEW s \in Seq(Msg), NEW m \in Msg, NEW a
    PROVE  Cardinality(TickPos(Append(s, m), a))
             <= Cardinality(TickPos(s, a)) + (IF m = Message("tick", a) THEN 1 ELSE 0)
<1> DEFINE t == Append(s, m)
<1>1. /\ t \in Seq(Msg) /\ Len(s) \in Nat /\ Len(t) = Len(s) + 1
      /\ \A z \in 1 .. Len(s) : t[z] = s[z]
      /\ t[Len(s) + 1] = m
  BY AppendProperties, LenProperties
<1>2. IsFiniteSet(TickPos(s, a)) /\ Cardinality(TickPos(s, a)) \in Nat
  BY TicksFinite
<1> HIDE DEF t
<1>3. CASE m = Message("tick", a)
  <2>1. TickPos(t, a) = TickPos(s, a) \cup {Len(s) + 1}
    BY <1>1, <1>3 DEF TickPos
  <2>2. Cardinality(TickPos(t, a)) = IF Len(s) + 1 \in TickPos(s, a) THEN Cardinality(TickPos(s, a))
                                     ELSE Cardinality(TickPos(s, a)) + 1
    BY <1>2, <2>1, FS_AddElement
  <2>. QED  BY <1>2, <1>3, <2>2 DEF t
<1>4. CASE m # Message("tick", a)
  <2>1. TickPos(t, a) = TickPos(s, a)
    BY <1>1, <1>4 DEF TickPos
  <2>. QED  BY <1>2, <1>4, <2>1 DEF t
<1>. QED  BY <1>3, <1>4

\* Handling a message takes a tick of a away if it is one, and adds none.
LEMMA TicksTail ==
    ASSUME NEW s \in Seq(Msg), s # <<>>, NEW a
    PROVE  Cardinality(TickPos(Tail(s), a))
             <= Cardinality(TickPos(s, a)) - (IF Head(s) = Message("tick", a) THEN 1 ELSE 0)
<1> DEFINE t == Tail(s)
           rest == TickPos(s, a) \ {1}
           f == [z \in TickPos(t, a) |-> z + 1]
<1>1. /\ t \in Seq(Msg) /\ Len(s) \in Nat /\ Len(t) = Len(s) - 1 /\ Len(s) >= 1
      /\ \A z \in 1 .. Len(t) : t[z] = s[z + 1]
      /\ Head(s) = s[1]
  BY HeadTailProperties, LenProperties, EmptySeq
<1>2. IsFiniteSet(TickPos(s, a)) /\ Cardinality(TickPos(s, a)) \in Nat
  BY TicksFinite
<1> HIDE DEF t
<1>3. IsFiniteSet(rest)
      /\ Cardinality(rest) = IF 1 \in TickPos(s, a) THEN Cardinality(TickPos(s, a)) - 1
                             ELSE Cardinality(TickPos(s, a))
  BY <1>2, FS_RemoveElement
<1>4. 1 \in TickPos(s, a) <=> Head(s) = Message("tick", a)
  BY <1>1 DEF TickPos
<1>5. f \in Injection(TickPos(t, a), rest)
  <2>1. \A z \in TickPos(t, a) : z + 1 \in rest
    BY <1>1 DEF TickPos
  <2>2. f \in [TickPos(t, a) -> rest]
    BY <2>1
  <2>3. \A z, j \in TickPos(t, a) : f[z] = f[j] => z = j
    BY DEF TickPos
  <2> HIDE DEF f
  <2>. QED  BY <2>2, <2>3 DEF Injection, IsInjective
<1> HIDE DEF f, rest
<1>6. Cardinality(TickPos(t, a)) <= Cardinality(rest)
  BY <1>3, <1>5, FS_Injection
<1>7. Cardinality(TickPos(t, a)) \in Nat
  BY <1>1, TicksFinite
<1>. QED  BY <1>2, <1>3, <1>4, <1>6, <1>7 DEF t

\* Is a result for a among the messages?
HasResult(s, a) == \E z \in 1 .. Len(s) : s[z] = Message("result", a)

LEMMA ResultAppend ==
    ASSUME NEW s \in Seq(Msg), NEW m \in Msg, NEW a
    PROVE  HasResult(Append(s, m), a) <=> HasResult(s, a) \/ m = Message("result", a)
<1> DEFINE t == Append(s, m)
<1>1. /\ Len(s) \in Nat /\ Len(t) = Len(s) + 1
      /\ \A z \in 1 .. Len(s) : t[z] = s[z]
      /\ t[Len(s) + 1] = m
  BY AppendProperties, LenProperties
<1> HIDE DEF t
<1>2. HasResult(t, a) <=> HasResult(s, a) \/ m = Message("result", a)
  BY <1>1 DEF HasResult
<1>. QED  BY <1>2 DEF t

LEMMA ResultTail ==
    ASSUME NEW s \in Seq(Msg), s # <<>>, NEW a
    PROVE  HasResult(s, a) <=> HasResult(Tail(s), a) \/ Head(s) = Message("result", a)
<1> DEFINE t == Tail(s)
<1>1. /\ Len(s) \in Nat /\ Len(t) = Len(s) - 1 /\ Len(s) >= 1 /\ Head(s) = s[1]
      /\ \A z \in 1 .. Len(t) : t[z] = s[z + 1]
  BY HeadTailProperties, LenProperties, EmptySeq
<1> HIDE DEF t
<1>2. ASSUME HasResult(s, a), Head(s) # Message("result", a) PROVE HasResult(t, a)
  <2>1. PICK z \in 1 .. Len(s) : s[z] = Message("result", a)
    BY <1>2 DEF HasResult
  <2>2. z # 1
    BY <1>1, <1>2, <2>1
  <2>3. z - 1 \in 1 .. Len(t) /\ t[z - 1] = s[z]
    BY <1>1, <2>1, <2>2
  <2>. QED  BY <2>1, <2>3 DEF HasResult
<1>3. ASSUME HasResult(t, a) \/ Head(s) = Message("result", a) PROVE HasResult(s, a)
  BY <1>1, <1>3 DEF HasResult
<1>. QED  BY <1>2, <1>3 DEF t

--------------------------------------------------------------------------------
(***************************************************************************)
(* MainActivity: the inductive invariant.                                  *)
(***************************************************************************)
\* The runs of an activity are in the order of the clicks on their way through
\* it: queue, thread, text, label.
OrderInv(a) ==
    /\ label[a].run <= txt[a]
    /\ label[a].text = "result" => label[a].run # NoRun
    /\ worker[a].pc # "idle" => worker[a].run \in Run
    /\ worker[a].pc \in {"started", "exec", "failed"} => txt[a] <= worker[a].run
    /\ worker[a].pc \in {"returned", "cleared"} => txt[a] = worker[a].run
    /\ worker[a].run <= runs /\ txt[a] <= runs
    /\ \A z \in 1 .. Len(tasks[a]) :
          txt[a] < tasks[a][z] /\ worker[a].run < tasks[a][z] /\ tasks[a][z] <= runs
    /\ \A z, j \in 1 .. Len(tasks[a]) : z < j => tasks[a][z] < tasks[a][j]

\* The flag is up while the thread is in a run, and stays up after an Error.
FlagInv(a) == running[a] = TRUE <=> worker[a].pc \in {"started", "exec", "returned", "failed"}

\* The thread has started a run and not yet posted its tick.
Unposted(a) == IF worker[a].pc = "started" THEN 1 ELSE 0

\* Every tick belongs to a run of its own that was started.
TickInv(a) ==
    delayed[a] + Cardinality(TickPos(posted, a)) + Len(tasks[a]) + Unposted(a) <= runs

ResultInv(a) == HasResult(posted, a) => txt[a] # NoRun

Settled(a) ==
    worker[a].pc = "idle" /\ tasks[a] = <<>> /\ ~HasResult(posted, a) /\ txt[a] # NoRun
        => label[a] = ShowsResult(txt[a])

AInv(a) == OrderInv(a) /\ FlagInv(a) /\ TickInv(a) /\ ResultInv(a) /\ Settled(a)

IInv == ActivityTypeOK /\ \A a \in Activity : AInv(a)

Workers == [pc : {"idle", "started", "exec", "returned", "cleared", "failed"}, run : Run \cup {NoRun}]
Labels == [text : {"hello", "running", "refused", "result"}, run : Run \cup {NoRun}, dotted : BOOLEAN]

LEMMA TypeFacts ==
    ASSUME ActivityTypeOK
    PROVE  /\ current \in Activity /\ runs \in 0 .. MAX_RUNS
           /\ tasks \in [Activity -> Seq(Run)] /\ worker \in [Activity -> Workers]
           /\ running \in [Activity -> BOOLEAN] /\ txt \in [Activity -> Run \cup {NoRun}]
           /\ label \in [Activity -> Labels] /\ posted \in Seq(Msg)
           /\ delayed \in [Activity -> 0 .. MAX_RUNS]
  BY DEF ActivityTypeOK, Workers, Labels, Msg

LEMMA Facts ==
    ASSUME IInv, NEW a \in Activity
    PROVE  /\ ActivityTypeOK /\ AInv(a)
           /\ runs \in Nat /\ tasks[a] \in Seq(Run) /\ Len(tasks[a]) \in Nat
           /\ \A z \in 1 .. Len(tasks[a]) : tasks[a][z] \in Nat
           /\ worker[a] \in Workers /\ worker[a].run \in Nat
           /\ txt[a] \in Nat /\ label[a] \in Labels /\ label[a].run \in Nat
           /\ delayed[a] \in Nat
           /\ posted \in Seq(Msg) /\ Cardinality(TickPos(posted, a)) \in Nat
<1>1. ActivityTypeOK /\ AInv(a)
  BY DEF IInv
<1>2. \A r \in Run \cup {NoRun} : r \in Nat
  BY ActivityAssumption DEF Run, NoRun
<1>3. /\ tasks[a] \in Seq(Run) /\ worker[a] \in Workers /\ txt[a] \in Run \cup {NoRun}
      /\ label[a] \in Labels /\ delayed[a] \in 0 .. MAX_RUNS /\ runs \in 0 .. MAX_RUNS
      /\ posted \in Seq(Msg)
  BY <1>1, TypeFacts
<1>4. Len(tasks[a]) \in Nat /\ \A z \in 1 .. Len(tasks[a]) : tasks[a][z] \in Run
  BY <1>3, ElementOfSeq, LenProperties
<1>5. worker[a].run \in Run \cup {NoRun} /\ label[a].run \in Run \cup {NoRun}
  BY <1>3 DEF Workers, Labels
<1>6. Cardinality(TickPos(posted, a)) \in Nat
  BY <1>3, TicksFinite
<1>7. runs \in Nat /\ delayed[a] \in Nat
  BY <1>3, ActivityAssumption
<1>. QED  BY <1>1, <1>2, <1>3, <1>4, <1>5, <1>6, <1>7

\* What does not touch an activity leaves its part of the invariant as it is.
LEMMA OthersKeep ==
    ASSUME IInv, NEW b \in Activity, runs' \in Nat, runs' >= runs,
           posted' \in Seq(Msg),
           tasks'[b] = tasks[b], worker'[b] = worker[b], running'[b] = running[b],
           txt'[b] = txt[b], label'[b] = label[b], delayed'[b] = delayed[b],
           HasResult(posted', b) <=> HasResult(posted, b),
           Cardinality(TickPos(posted', b)) <= Cardinality(TickPos(posted, b))
    PROVE  AInv(b)'
<1>1. /\ AInv(b) /\ runs \in Nat /\ worker[b].run \in Nat /\ txt[b] \in Nat /\ delayed[b] \in Nat
      /\ Len(tasks[b]) \in Nat /\ Cardinality(TickPos(posted, b)) \in Nat
      /\ \A z \in 1 .. Len(tasks[b]) : tasks[b][z] \in Nat
  BY Facts
<1>2. OrderInv(b)'
  BY <1>1 DEF AInv, OrderInv
<1>3. FlagInv(b)'
  BY <1>1 DEF AInv, FlagInv
<1>4. TickInv(b)'
  <2>1. Cardinality(TickPos(posted', b)) \in Nat
    BY TicksFinite
  <2>2. Unposted(b) \in Nat /\ Unposted(b)' = Unposted(b)
    BY DEF Unposted
  <2>. QED  BY <1>1, <2>1, <2>2, SMTT(30) DEF AInv, TickInv
<1>5. ResultInv(b)' /\ Settled(b)'
  BY <1>1 DEF AInv, ResultInv, Settled
<1>. QED  BY <1>2, <1>3, <1>4, <1>5 DEF AInv

\* The same where the looper's messages stay as they are.
LEMMA OthersStay ==
    ASSUME IInv, NEW b \in Activity, runs' \in Nat, runs' >= runs, posted' = posted,
           tasks'[b] = tasks[b], worker'[b] = worker[b], running'[b] = running[b],
           txt'[b] = txt[b], label'[b] = label[b], delayed'[b] = delayed[b]
    PROVE  AInv(b)'
<1>1. posted \in Seq(Msg) /\ Cardinality(TickPos(posted, b)) \in Nat
  BY Facts
<1>2. posted' \in Seq(Msg) /\ (HasResult(posted', b) <=> HasResult(posted, b))
      /\ Cardinality(TickPos(posted', b)) <= Cardinality(TickPos(posted, b))
  BY <1>1
<1>. QED  BY <1>2, OthersKeep

--------------------------------------------------------------------------------
(***************************************************************************)
(* MainActivity: it holds initially and every step preserves it.           *)
(***************************************************************************)
LEMMA InitInv == ActivityInit => IInv
<1> SUFFICES ASSUME ActivityInit PROVE IInv
  OBVIOUS
<1> USE DEF ActivityInit
<1>1. ActivityTypeOK
  <2>1. Idle \in Workers /\ Shows("hello") \in Labels
    BY DEF Idle, Shows, Workers, Labels
  <2>2. <<>> \in Seq(Run) /\ <<>> \in Seq(Msg)
    BY EmptySeq
  <2>. QED  BY <2>1, <2>2, ActivityAssumption DEF ActivityTypeOK, Workers, Labels, Msg, Activity, NoRun
<1>2. ASSUME NEW a \in Activity PROVE AInv(a)
  <2>1. Len(<<>>) = 0
    BY EmptySeq
  <2>2. TickPos(posted, a) = {} /\ ~HasResult(posted, a)
    BY <2>1 DEF TickPos, HasResult
  <2>3. Cardinality(TickPos(posted, a)) = 0
    BY <2>2, FS_EmptySet
  <2>. QED  BY <2>1, <2>2, <2>3
            DEF AInv, OrderInv, FlagInv, TickInv, Unposted, ResultInv, Settled, Idle, Shows, NoRun
<1>. QED  BY <1>1, <1>2 DEF IInv

LEMMA ClickAcceptedInv == IInv /\ ClickAccepted => IInv'
<1> SUFFICES ASSUME IInv, ClickAccepted, NEW a \in Activity, a = current PROVE IInv'
  BY TypeFacts DEF IInv
<1> DEFINE t == Append(tasks[a], runs + 1)
<1>1. /\ runs' = runs + 1 /\ tasks' = [tasks EXCEPT ![a] = t]
      /\ label' = [label EXCEPT ![a] = Shows("running")]
      /\ runs < MAX_RUNS /\ running[a] # TRUE
      /\ UNCHANGED <<current, worker, running, txt, posted, delayed>>
  BY DEF ClickAccepted
<1>2. /\ ActivityTypeOK /\ AInv(a) /\ runs \in Nat /\ tasks[a] \in Seq(Run) /\ Len(tasks[a]) \in Nat
      /\ \A z \in 1 .. Len(tasks[a]) : tasks[a][z] \in Nat
      /\ txt[a] \in Nat /\ worker[a] \in Workers /\ worker[a].run \in Nat /\ delayed[a] \in Nat
      /\ Cardinality(TickPos(posted, a)) \in Nat
  BY Facts
<1>3. runs + 1 \in Run /\ runs' \in 0 .. MAX_RUNS /\ runs' >= runs
  BY <1>1, <1>2, ActivityAssumption DEF Run
<1>4. /\ t \in Seq(Run) /\ t # <<>> /\ Len(t) = Len(tasks[a]) + 1
      /\ \A z \in 1 .. Len(tasks[a]) : t[z] = tasks[a][z]
      /\ t[Len(tasks[a]) + 1] = runs + 1
  BY <1>2, <1>3, AppendProperties
<1> HIDE DEF t
<1>5. ActivityTypeOK'
  <2>1. tasks' \in [Activity -> Seq(Run)]
    BY <1>1, <1>2, <1>4, TypeFacts
  <2>2. label' \in [Activity -> Labels]
    BY <1>1, <1>2, TypeFacts DEF Shows, Labels, NoRun
  <2>. QED  BY <1>1, <1>2, <1>3, <2>1, <2>2 DEF ActivityTypeOK, Labels
<1>6. AInv(a)'
  <2>1. tasks'[a] = t /\ label'[a] = Shows("running")
    BY <1>1, <1>2, TypeFacts
  <2>2. OrderInv(a)'
    <3>1. /\ \A z \in 1 .. Len(t) :
                txt[a] < t[z] /\ worker[a].run < t[z] /\ t[z] <= runs + 1
          /\ \A z, j \in 1 .. Len(t) : z < j => t[z] < t[j]
      <4>1. /\ txt[a] <= runs /\ worker[a].run <= runs
            /\ \A z \in 1 .. Len(tasks[a]) : txt[a] < tasks[a][z] /\ worker[a].run < tasks[a][z]
                                             /\ tasks[a][z] <= runs
            /\ \A z, j \in 1 .. Len(tasks[a]) : z < j => tasks[a][z] < tasks[a][j]
        BY <1>2 DEF AInv, OrderInv
      <4>2. ASSUME NEW z \in 1 .. Len(t)
            PROVE  txt[a] < t[z] /\ worker[a].run < t[z] /\ t[z] <= runs + 1
        <5>1. CASE z = Len(tasks[a]) + 1
          BY <1>2, <1>4, <4>1, <5>1
        <5>2. CASE z # Len(tasks[a]) + 1
          <6>1. z \in 1 .. Len(tasks[a]) /\ t[z] = tasks[a][z]
            BY <1>2, <1>4, <5>2
          <6>. QED  BY <1>2, <4>1, <6>1
        <5>. QED  BY <5>1, <5>2
      <4>3. ASSUME NEW z \in 1 .. Len(t), NEW j \in 1 .. Len(t), z < j PROVE t[z] < t[j]
        <5>1. z \in 1 .. Len(tasks[a]) /\ t[z] = tasks[a][z]
          BY <1>2, <1>4, <4>3, SMTT(30)
        <5>2. CASE j = Len(tasks[a]) + 1
          BY <1>2, <1>4, <4>1, <5>1, <5>2
        <5>3. CASE j # Len(tasks[a]) + 1
          <6>1. j \in 1 .. Len(tasks[a]) /\ t[j] = tasks[a][j]
            BY <1>2, <1>4, <5>3
          <6>. QED  BY <4>1, <4>3, <5>1, <6>1
        <5>. QED  BY <5>2, <5>3
      <4>. QED  BY <4>2, <4>3
    <3>2. label'[a].run = 0 /\ label'[a].text = "running"
      BY <2>1 DEF Shows, NoRun
    <3>. QED  BY <1>1, <1>2, <2>1, <3>1, <3>2 DEF AInv, OrderInv
  <2>3. FlagInv(a)' /\ ResultInv(a)'
    BY <1>1, <1>2 DEF AInv, FlagInv, ResultInv
  <2>4. Settled(a)'
    BY <1>4, <2>1 DEF Settled
  <2>5. TickInv(a)'
    <3>1. Unposted(a) \in Nat /\ Unposted(a)' = Unposted(a)
      BY <1>1 DEF Unposted
    <3>. QED  BY <1>1, <1>2, <1>4, <2>1, <3>1 DEF AInv, TickInv
  <2>. QED  BY <2>2, <2>3, <2>4, <2>5 DEF AInv
<1>7. ASSUME NEW b \in Activity \ {a} PROVE AInv(b)'
  <2>1. tasks'[b] = tasks[b] /\ label'[b] = label[b] /\ b \in Activity
    BY <1>1, <1>2, TypeFacts
  <2>. QED  BY <1>1, <1>2, <1>3, <2>1, OthersStay
<1>. QED  BY <1>5, <1>6, <1>7 DEF IInv

LEMMA ClickRefusedInv == IInv /\ ClickRefused => IInv'
<1> SUFFICES ASSUME IInv, ClickRefused, NEW a \in Activity, a = current PROVE IInv'
  BY TypeFacts DEF IInv
<1>1. /\ label' = [label EXCEPT ![a] = Shows("refused")] /\ running[a] = TRUE
      /\ UNCHANGED <<current, runs, tasks, worker, running, txt, posted, delayed>>
  <2>1. running[a] \in BOOLEAN
    BY TypeFacts DEF IInv
  <2>. QED  BY <2>1 DEF ClickRefused
<1>2. ActivityTypeOK /\ AInv(a) /\ runs \in Nat /\ txt[a] \in Nat
  BY Facts
<1>3. ActivityTypeOK'
  <2>1. label' \in [Activity -> Labels]
    BY <1>1, <1>2, TypeFacts DEF Shows, Labels, NoRun
  <2>. QED  BY <1>1, <1>2, <2>1 DEF ActivityTypeOK, Labels
<1>4. AInv(a)'
  <2>1. label'[a] = Shows("refused")
    BY <1>1, <1>2, TypeFacts
  <2>2. label'[a].run = 0 /\ label'[a].text = "refused"
    BY <2>1 DEF Shows, NoRun
  <2>3. OrderInv(a)'
    BY <1>1, <1>2, <2>2 DEF AInv, OrderInv
  <2>4. FlagInv(a)' /\ TickInv(a)' /\ ResultInv(a)'
    BY <1>1, <1>2 DEF AInv, FlagInv, TickInv, Unposted, ResultInv
  <2>5. worker[a].pc # "idle"
    BY <1>1, <1>2 DEF AInv, FlagInv
  <2>6. Settled(a)'
    BY <1>1, <2>5 DEF Settled
  <2>. QED  BY <2>3, <2>4, <2>6 DEF AInv
<1>5. ASSUME NEW b \in Activity \ {a} PROVE AInv(b)'
  <2>1. label'[b] = label[b] /\ b \in Activity /\ runs' >= runs
    BY <1>1, <1>2, TypeFacts
  <2>. QED  BY <1>1, <1>2, <2>1, OthersStay
<1>. QED  BY <1>3, <1>4, <1>5 DEF IInv

LEMMA RecreateInv == IInv /\ Recreate => IInv'
<1> SUFFICES ASSUME IInv, Recreate PROVE IInv'
  OBVIOUS
<1>1. /\ current' = current + 1 /\ current < MAX_ACTIVITIES
      /\ UNCHANGED <<runs, tasks, worker, running, txt, label, posted, delayed>>
  BY DEF Recreate
<1>2. ActivityTypeOK
  BY DEF IInv
<1>3. current' \in Activity
  BY <1>1, <1>2, TypeFacts, ActivityAssumption DEF Activity
<1>4. ActivityTypeOK'
  BY <1>1, <1>2, <1>3 DEF ActivityTypeOK
<1>5. ASSUME NEW b \in Activity PROVE AInv(b)'
  <2>1. runs \in Nat
    BY Facts
  <2>. QED  BY <1>1, <2>1, OthersStay
<1>. QED  BY <1>4, <1>5 DEF IInv

\* A ticker that takes up one of the ticks of its activity, wherever it was.
LEMMA TickInvStep ==
    ASSUME IInv, NEW a \in Activity, NEW others \in Nat, Tick(a, others),
           UNCHANGED <<current, runs, tasks, worker, running, txt>>,
           posted' \in Seq(Msg),
           \A b \in Activity : /\ HasResult(posted', b) <=> HasResult(posted, b)
                               /\ Cardinality(TickPos(posted', b)) <= Cardinality(TickPos(posted, b)),
           others + Cardinality(TickPos(posted', a)) + 1
             <= delayed[a] + Cardinality(TickPos(posted, a))
    PROVE  IInv'
<1>1. /\ ActivityTypeOK /\ AInv(a) /\ runs \in Nat /\ Len(tasks[a]) \in Nat
      /\ label[a] \in Labels /\ delayed[a] \in Nat /\ Cardinality(TickPos(posted, a)) \in Nat
  BY Facts
<1>2. Cardinality(TickPos(posted', a)) \in Nat
  BY TicksFinite
<1>3. running[a] \in BOOLEAN /\ runs <= MAX_RUNS /\ MAX_RUNS \in Nat
  BY <1>1, TypeFacts, ActivityAssumption
<1>4. /\ delayed' \in [Activity -> 0 .. MAX_RUNS]
      /\ delayed'[a] <= others + 1
      /\ \A b \in Activity \ {a} : delayed'[b] = delayed[b]
  <2>1. PICK n \in {others, others + 1} : delayed' = [delayed EXCEPT ![a] = n]
    BY DEF Tick
  <2>2. n <= delayed[a] + Cardinality(TickPos(posted, a)) /\ n \in Nat
    BY <1>1, <1>2, <2>1
  <2>3. delayed[a] + Cardinality(TickPos(posted, a)) <= runs
    <3>1. Unposted(a) \in Nat
      BY DEF Unposted
    <3>. QED  BY <1>1, <3>1 DEF AInv, TickInv
  <2>4. n \in 0 .. MAX_RUNS
    BY <1>1, <1>3, <2>2, <2>3
  <2>. QED  BY <1>1, <2>1, <2>4, TypeFacts
<1>5. /\ label' \in [Activity -> Labels]
      /\ label'[a].run = label[a].run /\ label'[a].text = label[a].text
      /\ running[a] # TRUE => label'[a] = label[a]
      /\ \A b \in Activity \ {a} : label'[b] = label[b]
  <2>1. label \in [Activity -> Labels]
    BY <1>1, TypeFacts
  <2>2. CASE running[a]
    <3>1. label' = [label EXCEPT ![a].dotted = TRUE]
      BY <2>2 DEF Tick
    <3>. QED  BY <1>1, <2>1, <2>2, <3>1 DEF Labels
  <2>3. CASE ~running[a]
    <3>1. label' = label
      BY <2>3 DEF Tick
    <3>. QED  BY <2>1, <3>1
  <2>. QED  BY <2>2, <2>3
<1>6. ActivityTypeOK'
  BY <1>1, <1>4, <1>5 DEF ActivityTypeOK, Labels, Msg
<1>7. AInv(a)'
  <2>1. OrderInv(a)'
    BY <1>1, <1>5 DEF AInv, OrderInv
  <2>2. FlagInv(a)' /\ ResultInv(a)'
    BY <1>1 DEF AInv, FlagInv, ResultInv
  <2>3. TickInv(a)'
    <3>1. delayed'[a] \in Nat
      BY <1>3, <1>4
    <3>2. Unposted(a) \in Nat /\ Unposted(a)' = Unposted(a)
      BY DEF Unposted
    <3>3. delayed[a] + Cardinality(TickPos(posted, a)) + Len(tasks[a]) + Unposted(a) <= runs
      BY <1>1 DEF AInv, TickInv
    <3>4. delayed'[a] + Cardinality(TickPos(posted', a)) <= delayed[a] + Cardinality(TickPos(posted, a))
      BY <1>1, <1>2, <1>4, <3>1
    <3>5. \A x, y, l, u, r \in Nat : x <= y /\ y + l + u <= r => x + l + u <= r
      OBVIOUS
    <3>6. /\ delayed'[a] + Cardinality(TickPos(posted', a)) \in Nat
          /\ delayed[a] + Cardinality(TickPos(posted, a)) \in Nat
      BY <1>1, <1>2, <3>1
    <3>7. delayed'[a] + Cardinality(TickPos(posted', a)) + Len(tasks[a]) + Unposted(a) <= runs
      BY <1>1, <3>2, <3>3, <3>4, <3>5, <3>6
    <3>. QED  BY <3>2, <3>7 DEF TickInv
  <2>4. Settled(a)'
    <3>1. worker[a].pc = "idle" => running[a] # TRUE
      BY <1>1 DEF AInv, FlagInv
    <3>. QED  BY <1>1, <1>5, <3>1 DEF AInv, Settled
  <2>. QED  BY <2>1, <2>2, <2>3, <2>4 DEF AInv
<1>8. ASSUME NEW b \in Activity \ {a} PROVE AInv(b)'
  <2>1. b \in Activity /\ runs' \in Nat /\ runs' >= runs
    BY <1>1
  <2>. QED  BY <1>4, <1>5, <2>1, OthersKeep
<1>. QED  BY <1>6, <1>7, <1>8 DEF IInv

\* The message at the head of the queue.
LEMMA HeadFacts ==
    ASSUME IInv, posted # <<>>
    PROVE  /\ Head(posted) \in Msg /\ Tail(posted) \in Seq(Msg)
           /\ Head(posted).activity \in Activity
           /\ Head(posted) = Message(Head(posted).what, Head(posted).activity)
<1>1. posted \in Seq(Msg)
  BY TypeFacts DEF IInv
<1>2. Head(posted) \in Msg /\ Tail(posted) \in Seq(Msg)
  BY <1>1, HeadTailProperties
<1>. QED  BY <1>2 DEF Msg, Message

LEMMA HandleTickInv == IInv /\ HandleTick => IInv'
<1> SUFFICES ASSUME IInv, HandleTick, NEW a \in Activity, a = Head(posted).activity PROVE IInv'
  BY HeadFacts DEF HandleTick
<1>1. /\ posted # <<>> /\ Head(posted).what = "tick" /\ posted' = Tail(posted)
      /\ Tick(a, delayed[a]) /\ UNCHANGED <<current, runs, tasks, worker, running, txt>>
  BY DEF HandleTick
<1>2. posted \in Seq(Msg) /\ posted' \in Seq(Msg) /\ Head(posted) = Message("tick", a)
  BY <1>1, HeadFacts, TypeFacts DEF IInv
<1>3. ASSUME NEW b \in Activity
      PROVE  /\ HasResult(posted', b) <=> HasResult(posted, b)
             /\ Cardinality(TickPos(posted', b)) <= Cardinality(TickPos(posted, b))
             /\ b = a => Cardinality(TickPos(posted', b)) + 1 <= Cardinality(TickPos(posted, b))
  <2>1. Head(posted) # Message("result", b)
    BY <1>2 DEF Message
  <2>2. HasResult(posted', b) <=> HasResult(posted, b)
    BY <1>1, <1>2, <2>1, ResultTail
  <2>3. Cardinality(TickPos(posted, b)) \in Nat /\ Cardinality(TickPos(posted', b)) \in Nat
    BY <1>2, TicksFinite
  <2>4. Cardinality(TickPos(posted', b))
          <= Cardinality(TickPos(posted, b)) - (IF Head(posted) = Message("tick", b) THEN 1 ELSE 0)
    BY <1>1, <1>2, TicksTail
  <2>. QED  BY <1>2, <2>2, <2>3, <2>4
<1>4. delayed[a] \in Nat /\ Cardinality(TickPos(posted, a)) \in Nat
      /\ Cardinality(TickPos(posted', a)) \in Nat
  BY <1>2, Facts, TicksFinite
<1>5. delayed[a] + Cardinality(TickPos(posted', a)) + 1
        <= delayed[a] + Cardinality(TickPos(posted, a))
  BY <1>3, <1>4
<1>. QED  BY <1>1, <1>2, <1>3, <1>4, <1>5, TickInvStep

LEMMA DelayedTickInv ==
    ASSUME IInv, NEW a \in Activity, DelayedTick(a) PROVE IInv'
<1>1. /\ delayed[a] > 0 /\ Tick(a, delayed[a] - 1)
      /\ UNCHANGED <<current, runs, tasks, worker, running, txt, posted>>
  BY DEF DelayedTick
<1>2. delayed[a] \in Nat /\ posted \in Seq(Msg) /\ Cardinality(TickPos(posted, a)) \in Nat
  BY Facts
<1>3. delayed[a] - 1 \in Nat
      /\ (delayed[a] - 1) + Cardinality(TickPos(posted, a)) + 1
           <= delayed[a] + Cardinality(TickPos(posted, a))
  BY <1>1, <1>2
<1>4. ASSUME NEW b \in Activity
      PROVE  /\ HasResult(posted', b) <=> HasResult(posted, b)
             /\ Cardinality(TickPos(posted', b)) <= Cardinality(TickPos(posted, b))
  <2>1. Cardinality(TickPos(posted, b)) \in Nat
    BY Facts
  <2>. QED  BY <1>1, <2>1
<1>. QED  BY <1>1, <1>2, <1>3, <1>4, TickInvStep

LEMMA HandleResultInv == IInv /\ HandleResult => IInv'
<1> SUFFICES ASSUME IInv, HandleResult, NEW a \in Activity, a = Head(posted).activity PROVE IInv'
  BY HeadFacts DEF HandleResult
<1>1. /\ posted # <<>> /\ Head(posted).what = "result" /\ posted' = Tail(posted)
      /\ label' = [label EXCEPT ![a] = ShowsResult(txt[a])]
      /\ UNCHANGED <<current, runs, tasks, worker, running, txt, delayed>>
  BY DEF HandleResult
<1>2. posted \in Seq(Msg) /\ posted' \in Seq(Msg) /\ Head(posted) = Message("result", a)
  BY <1>1, HeadFacts, TypeFacts DEF IInv
<1>3. ASSUME NEW b \in Activity
      PROVE  /\ HasResult(posted', b) => HasResult(posted, b)
             /\ b # a => (HasResult(posted', b) <=> HasResult(posted, b))
             /\ Cardinality(TickPos(posted', b)) <= Cardinality(TickPos(posted, b))
  <2>1. b # a => Head(posted) # Message("result", b)
    BY <1>2 DEF Message
  <2>2. HasResult(posted, b) <=> HasResult(posted', b) \/ Head(posted) = Message("result", b)
    BY <1>1, <1>2, ResultTail
  <2>3. Cardinality(TickPos(posted, b)) \in Nat /\ Cardinality(TickPos(posted', b)) \in Nat
    BY <1>2, TicksFinite
  <2>4. Cardinality(TickPos(posted', b))
          <= Cardinality(TickPos(posted, b)) - (IF Head(posted) = Message("tick", b) THEN 1 ELSE 0)
    BY <1>1, <1>2, TicksTail
  <2>5. Cardinality(TickPos(posted', b)) <= Cardinality(TickPos(posted, b))
    BY <2>3, <2>4
  <2>. QED  BY <2>1, <2>2, <2>5
<1>4. /\ ActivityTypeOK /\ AInv(a) /\ runs \in Nat /\ txt[a] \in Nat /\ delayed[a] \in Nat
      /\ Len(tasks[a]) \in Nat /\ Cardinality(TickPos(posted, a)) \in Nat
      /\ Cardinality(TickPos(posted', a)) \in Nat
  BY <1>2, Facts, TicksFinite
<1>5. txt[a] # NoRun
  <2>1. HasResult(posted, a)
    BY <1>1, <1>2, ResultTail
  <2>. QED  BY <1>4, <2>1 DEF AInv, ResultInv
<1>6. ActivityTypeOK'
  <2>1. label' \in [Activity -> Labels]
    BY <1>1, <1>4, TypeFacts DEF ShowsResult, Labels
  <2>. QED  BY <1>1, <1>2, <1>4, <2>1 DEF ActivityTypeOK, Labels, Msg
<1>7. AInv(a)'
  <2>1. label'[a] = ShowsResult(txt[a])
    BY <1>1, <1>4, TypeFacts
  <2>2. label'[a].run = txt[a]
    BY <2>1 DEF ShowsResult
  <2>3. OrderInv(a)'
    BY <1>1, <1>4, <1>5, <2>2, SMTT(30) DEF AInv, OrderInv
  <2>4. FlagInv(a)'
    BY <1>1, <1>4 DEF AInv, FlagInv
  <2>5. ResultInv(a)' /\ Settled(a)'
    BY <1>1, <1>5, <2>1 DEF ResultInv, Settled
  <2>6. TickInv(a)'
    <3>1. Unposted(a) \in Nat /\ Unposted(a)' = Unposted(a)
      BY <1>1 DEF Unposted
    <3>. QED  BY <1>1, <1>3, <1>4, <3>1, SMTT(30) DEF AInv, TickInv
  <2>. QED  BY <2>3, <2>4, <2>5, <2>6 DEF AInv
<1>8. ASSUME NEW b \in Activity \ {a} PROVE AInv(b)'
  <2>1. b \in Activity /\ label'[b] = label[b] /\ runs' \in Nat /\ runs' >= runs
    BY <1>1, <1>4, TypeFacts
  <2>. QED  BY <1>1, <1>2, <1>3, <2>1, OthersKeep
<1>. QED  BY <1>6, <1>7, <1>8 DEF IInv

\* The thread goes on within a run.
LEMMA Moves ==
    ASSUME ActivityTypeOK, NEW a \in Activity,
           NEW to \in {"idle", "started", "exec", "returned", "cleared", "failed"}, Goto(a, to)
    PROVE  /\ worker' \in [Activity -> Workers]
           /\ worker'[a].pc = to /\ worker'[a].run = worker[a].run
           /\ \A b \in Activity \ {a} : worker'[b] = worker[b]
<1>1. worker \in [Activity -> Workers]
  BY TypeFacts
<1>2. worker' = [worker EXCEPT ![a].pc = to]
  BY DEF Goto
<1>. QED  BY <1>1, <1>2 DEF Workers

LEMMA TaskStartsInv ==
    ASSUME IInv, NEW a \in Activity, TaskStarts(a) PROVE IInv'
<1> DEFINE t == Tail(tasks[a])
<1>1. /\ worker[a].pc \in {"idle", "failed"} /\ tasks[a] # <<>>
      /\ worker' = [worker EXCEPT ![a] = [pc |-> "started", run |-> Head(tasks[a])]]
      /\ tasks' = [tasks EXCEPT ![a] = t]
      /\ running' = [running EXCEPT ![a] = TRUE]
      /\ UNCHANGED <<current, runs, txt, label, posted, delayed>>
  BY DEF TaskStarts, Free
<1>2. /\ ActivityTypeOK /\ AInv(a) /\ runs \in Nat /\ tasks[a] \in Seq(Run) /\ Len(tasks[a]) \in Nat
      /\ txt[a] \in Nat /\ delayed[a] \in Nat /\ Cardinality(TickPos(posted, a)) \in Nat
  BY Facts
<1>3. /\ t \in Seq(Run) /\ Len(t) \in Nat /\ Len(t) = Len(tasks[a]) - 1 /\ Len(tasks[a]) >= 1
      /\ \A z \in 1 .. Len(t) : t[z] = tasks[a][z + 1]
      /\ Head(tasks[a]) = tasks[a][1] /\ Head(tasks[a]) \in Run
  BY <1>1, <1>2, HeadTailProperties, LenProperties, EmptySeq
<1> HIDE DEF t
<1>4. ActivityTypeOK'
  <2>1. tasks' \in [Activity -> Seq(Run)] /\ running' \in [Activity -> BOOLEAN]
    BY <1>1, <1>2, <1>3, TypeFacts
  <2>2. worker' \in [Activity -> Workers]
    BY <1>1, <1>2, <1>3, TypeFacts DEF Workers
  <2>. QED  BY <1>1, <1>2, <2>1, <2>2 DEF ActivityTypeOK, Workers
<1>5. AInv(a)'
  <2>1. /\ tasks'[a] = t /\ running'[a] = TRUE
        /\ worker'[a] = [pc |-> "started", run |-> Head(tasks[a])]
    BY <1>1, <1>2, TypeFacts
  <2>2. worker'[a].pc = "started" /\ worker'[a].run = tasks[a][1]
    BY <1>3, <2>1
  <2>3. OrderInv(a)'
    <3>1. /\ \A z \in 1 .. Len(tasks[a]) : txt[a] < tasks[a][z] /\ tasks[a][z] <= runs
          /\ \A z, j \in 1 .. Len(tasks[a]) : z < j => tasks[a][z] < tasks[a][j]
      BY <1>2 DEF AInv, OrderInv
    <3>2. 1 \in 1 .. Len(tasks[a]) /\ tasks[a][1] \in Nat /\ tasks[a][1] \in Run
      BY <1>2, <1>3, Facts
    <3>3. ASSUME NEW z \in 1 .. Len(t)
          PROVE  txt[a] < t[z] /\ tasks[a][1] < t[z] /\ t[z] <= runs
      <4>1. z + 1 \in 1 .. Len(tasks[a]) /\ 1 < z + 1
        BY <1>2, <1>3
      <4>. QED  BY <1>3, <3>1, <3>2, <4>1
    <3>4. ASSUME NEW z \in 1 .. Len(t), NEW j \in 1 .. Len(t), z < j PROVE t[z] < t[j]
      <4>1. z + 1 \in 1 .. Len(tasks[a]) /\ j + 1 \in 1 .. Len(tasks[a]) /\ z + 1 < j + 1
        BY <1>2, <1>3, <3>4
      <4>. QED  BY <1>3, <3>1, <4>1
    <3>5. txt[a] <= tasks[a][1] /\ tasks[a][1] <= runs
      BY <1>2, <3>1, <3>2
    <3>. QED  BY <1>1, <1>2, <2>1, <2>2, <3>2, <3>3, <3>4, <3>5 DEF AInv, OrderInv
  <2>4. FlagInv(a)' /\ ResultInv(a)' /\ Settled(a)'
    BY <1>1, <1>2, <2>1, <2>2 DEF AInv, FlagInv, ResultInv, Settled
  <2>5. TickInv(a)'
    <3>1. Unposted(a) = 0 /\ Unposted(a)' = 1
      BY <1>1, <2>2 DEF Unposted
    <3>2. delayed[a] + Cardinality(TickPos(posted, a)) + Len(tasks[a]) + 0 <= runs
      BY <1>2, <3>1 DEF AInv, TickInv
    <3>3. delayed[a] + Cardinality(TickPos(posted, a)) + Len(t) + 1 <= runs
      BY <1>2, <1>3, <3>2
    <3>. QED  BY <1>1, <2>1, <3>1, <3>3 DEF TickInv
  <2>. QED  BY <2>3, <2>4, <2>5 DEF AInv
<1>6. ASSUME NEW b \in Activity \ {a} PROVE AInv(b)'
  <2>1. /\ b \in Activity /\ tasks'[b] = tasks[b] /\ worker'[b] = worker[b]
        /\ running'[b] = running[b] /\ runs' \in Nat /\ runs' >= runs
    BY <1>1, <1>2, TypeFacts
  <2>. QED  BY <1>1, <2>1, OthersStay
<1>. QED  BY <1>4, <1>5, <1>6 DEF IInv

LEMMA PostTickInv ==
    ASSUME IInv, NEW a \in Activity, PostTick(a) PROVE IInv'
<1>1. /\ worker[a].pc = "started" /\ Goto(a, "exec")
      /\ posted' = Append(posted, Message("tick", a))
      /\ UNCHANGED <<current, runs, tasks, running, txt, label, delayed>>
  BY DEF PostTick
<1>2. /\ ActivityTypeOK /\ AInv(a) /\ runs \in Nat /\ Len(tasks[a]) \in Nat /\ delayed[a] \in Nat
      /\ posted \in Seq(Msg) /\ Cardinality(TickPos(posted, a)) \in Nat
  BY Facts
<1>3. Message("tick", a) \in Msg /\ posted' \in Seq(Msg)
  BY <1>1, <1>2, AppendProperties DEF Message, Msg
<1>4. /\ worker' \in [Activity -> Workers]
      /\ worker'[a].pc = "exec" /\ worker'[a].run = worker[a].run
      /\ \A b \in Activity \ {a} : worker'[b] = worker[b]
  BY <1>1, <1>2, Moves
<1>5. ASSUME NEW b \in Activity
      PROVE  /\ HasResult(posted', b) <=> HasResult(posted, b)
             /\ Cardinality(TickPos(posted', b))
                  <= Cardinality(TickPos(posted, b)) + (IF b = a THEN 1 ELSE 0)
  <2>1. Message("tick", a) # Message("result", b)
        /\ (Message("tick", a) = Message("tick", b) <=> b = a)
    BY DEF Message
  <2>2. HasResult(posted', b) <=> HasResult(posted, b)
    BY <1>1, <1>2, <1>3, <2>1, ResultAppend
  <2>3. Cardinality(TickPos(Append(posted, Message("tick", a)), b))
          <= Cardinality(TickPos(posted, b))
               + (IF Message("tick", a) = Message("tick", b) THEN 1 ELSE 0)
    BY <1>2, <1>3, TicksAppend
  <2>. QED  BY <1>1, <2>1, <2>2, <2>3
<1>6. ActivityTypeOK'
  BY <1>1, <1>2, <1>3, <1>4 DEF ActivityTypeOK, Workers, Msg
<1>7. AInv(a)'
  <2>1. OrderInv(a)'
    BY <1>1, <1>2, <1>4 DEF AInv, OrderInv
  <2>2. FlagInv(a)' /\ ResultInv(a)' /\ Settled(a)'
    BY <1>1, <1>2, <1>4, <1>5 DEF AInv, FlagInv, ResultInv, Settled
  <2>3. TickInv(a)'
    <3>1. Unposted(a) = 1 /\ Unposted(a)' = 0
      BY <1>1, <1>4 DEF Unposted
    <3>2. /\ Cardinality(TickPos(posted', a)) \in Nat
          /\ Cardinality(TickPos(posted', a)) <= Cardinality(TickPos(posted, a)) + 1
      BY <1>3, <1>5, TicksFinite
    <3>3. delayed[a] + Cardinality(TickPos(posted, a)) + Len(tasks[a]) + 1 <= runs
      BY <1>2, <3>1 DEF AInv, TickInv
    <3>4. delayed[a] + Cardinality(TickPos(posted', a)) + Len(tasks[a]) + 0 <= runs
      BY <1>2, <3>2, <3>3, SMTT(30)
    <3>. QED  BY <1>1, <3>1, <3>4 DEF TickInv
  <2>. QED  BY <2>1, <2>2, <2>3 DEF AInv
<1>8. ASSUME NEW b \in Activity \ {a} PROVE AInv(b)'
  <2>1. b \in Activity /\ b # a /\ worker'[b] = worker[b] /\ runs' \in Nat /\ runs' >= runs
    BY <1>1, <1>2, <1>4
  <2>2. Cardinality(TickPos(posted, b)) \in Nat /\ Cardinality(TickPos(posted', b)) \in Nat
    BY <1>2, <1>3, TicksFinite
  <2>3. /\ HasResult(posted', b) <=> HasResult(posted, b)
        /\ Cardinality(TickPos(posted', b)) <= Cardinality(TickPos(posted, b))
    BY <1>5, <2>1, <2>2
  <2>. QED  BY <1>1, <1>3, <2>1, <2>3, OthersKeep
<1>. QED  BY <1>6, <1>7, <1>8 DEF IInv

LEMMA ExecReturnsInv ==
    ASSUME IInv, NEW a \in Activity, ExecReturns(a) PROVE IInv'
<1>1. /\ worker[a].pc = "exec" /\ Goto(a, "returned")
      /\ txt' = [txt EXCEPT ![a] = worker[a].run]
      /\ UNCHANGED <<current, runs, tasks, running, label, posted, delayed>>
  BY DEF ExecReturns
<1>2. /\ ActivityTypeOK /\ AInv(a) /\ runs \in Nat /\ Len(tasks[a]) \in Nat
      /\ worker[a].run \in Nat /\ txt[a] \in Nat /\ label[a].run \in Nat
      /\ \A z \in 1 .. Len(tasks[a]) : tasks[a][z] \in Nat
  BY Facts
<1>3. /\ worker' \in [Activity -> Workers]
      /\ worker'[a].pc = "returned" /\ worker'[a].run = worker[a].run
      /\ \A b \in Activity \ {a} : worker'[b] = worker[b]
  BY <1>1, <1>2, Moves
<1>4. worker[a].run \in Run /\ worker[a].run # NoRun
  BY <1>1, <1>2 DEF AInv, OrderInv, Run, NoRun
<1>5. /\ txt' \in [Activity -> Run \cup {NoRun}] /\ txt'[a] = worker[a].run
      /\ \A b \in Activity \ {a} : txt'[b] = txt[b]
  BY <1>1, <1>2, <1>4, TypeFacts
<1>6. ActivityTypeOK'
  BY <1>1, <1>2, <1>3, <1>5 DEF ActivityTypeOK, Workers
<1>7. AInv(a)'
  <2>1. OrderInv(a)'
    <3>1. /\ label[a].run <= txt[a] /\ txt[a] <= worker[a].run /\ worker[a].run <= runs
          /\ label[a].text = "result" => label[a].run # NoRun
      BY <1>1, <1>2 DEF AInv, OrderInv
    <3>2. label[a].run <= worker[a].run
      BY <1>2, <3>1
    <3>3. /\ \A z \in 1 .. Len(tasks[a]) : worker[a].run < tasks[a][z] /\ tasks[a][z] <= runs
          /\ \A z, j \in 1 .. Len(tasks[a]) : z < j => tasks[a][z] < tasks[a][j]
      BY <1>2 DEF AInv, OrderInv
    <3>. QED  BY <1>1, <1>3, <1>4, <1>5, <3>1, <3>2, <3>3 DEF OrderInv
  <2>2. FlagInv(a)' /\ ResultInv(a)' /\ Settled(a)'
    BY <1>1, <1>2, <1>3, <1>4, <1>5 DEF AInv, FlagInv, ResultInv, Settled
  <2>3. TickInv(a)'
    <3>1. Unposted(a)' = Unposted(a)
      BY <1>1, <1>3 DEF Unposted
    <3>. QED  BY <1>1, <1>2, <3>1 DEF AInv, TickInv
  <2>. QED  BY <2>1, <2>2, <2>3 DEF AInv
<1>8. ASSUME NEW b \in Activity \ {a} PROVE AInv(b)'
  <2>1. b \in Activity /\ runs' \in Nat /\ runs' >= runs
    BY <1>1, <1>2
  <2>. QED  BY <1>1, <1>3, <1>5, <2>1, OthersStay
<1>. QED  BY <1>6, <1>7, <1>8 DEF IInv

LEMMA ExecThrowsErrorInv ==
    ASSUME IInv, NEW a \in Activity, ExecThrowsError(a) PROVE IInv'
<1>1. /\ worker[a].pc = "exec" /\ Goto(a, "failed")
      /\ UNCHANGED <<current, runs, tasks, running, txt, label, posted, delayed>>
  BY DEF ExecThrowsError
<1>2. ActivityTypeOK /\ AInv(a) /\ runs \in Nat
  BY Facts
<1>3. /\ worker' \in [Activity -> Workers]
      /\ worker'[a].pc = "failed" /\ worker'[a].run = worker[a].run
      /\ \A b \in Activity \ {a} : worker'[b] = worker[b]
  BY <1>1, <1>2, Moves
<1>4. ActivityTypeOK'
  BY <1>1, <1>2, <1>3 DEF ActivityTypeOK, Workers
<1>5. AInv(a)'
  <2>1. OrderInv(a)'
    BY <1>1, <1>2, <1>3 DEF AInv, OrderInv
  <2>2. FlagInv(a)' /\ ResultInv(a)' /\ Settled(a)'
    BY <1>1, <1>2, <1>3 DEF AInv, FlagInv, ResultInv, Settled
  <2>3. TickInv(a)'
    <3>1. Unposted(a)' = Unposted(a)
      BY <1>1, <1>3 DEF Unposted
    <3>. QED  BY <1>1, <1>2, <3>1 DEF AInv, TickInv
  <2>. QED  BY <2>1, <2>2, <2>3 DEF AInv
<1>6. ASSUME NEW b \in Activity \ {a} PROVE AInv(b)'
  <2>1. b \in Activity /\ runs' \in Nat /\ runs' >= runs
    BY <1>1, <1>2
  <2>. QED  BY <1>1, <1>3, <2>1, OthersStay
<1>. QED  BY <1>4, <1>5, <1>6 DEF IInv

LEMMA ClearRunningInv ==
    ASSUME IInv, NEW a \in Activity, ClearRunning(a) PROVE IInv'
<1>1. /\ worker[a].pc = "returned" /\ Goto(a, "cleared")
      /\ running' = [running EXCEPT ![a] = FALSE]
      /\ UNCHANGED <<current, runs, tasks, txt, label, posted, delayed>>
  BY DEF ClearRunning
<1>2. ActivityTypeOK /\ AInv(a) /\ runs \in Nat
  BY Facts
<1>3. /\ worker' \in [Activity -> Workers]
      /\ worker'[a].pc = "cleared" /\ worker'[a].run = worker[a].run
      /\ \A b \in Activity \ {a} : worker'[b] = worker[b]
  BY <1>1, <1>2, Moves
<1>4. /\ running' \in [Activity -> BOOLEAN] /\ running'[a] = FALSE
      /\ \A b \in Activity \ {a} : running'[b] = running[b]
  BY <1>1, <1>2, TypeFacts
<1>5. ActivityTypeOK'
  BY <1>1, <1>2, <1>3, <1>4 DEF ActivityTypeOK, Workers
<1>6. AInv(a)'
  <2>1. OrderInv(a)'
    BY <1>1, <1>2, <1>3 DEF AInv, OrderInv
  <2>2. FlagInv(a)' /\ ResultInv(a)' /\ Settled(a)'
    BY <1>1, <1>2, <1>3, <1>4 DEF AInv, FlagInv, ResultInv, Settled
  <2>3. TickInv(a)'
    <3>1. Unposted(a)' = Unposted(a)
      BY <1>1, <1>3 DEF Unposted
    <3>. QED  BY <1>1, <1>2, <3>1 DEF AInv, TickInv
  <2>. QED  BY <2>1, <2>2, <2>3 DEF AInv
<1>7. ASSUME NEW b \in Activity \ {a} PROVE AInv(b)'
  <2>1. b \in Activity /\ runs' \in Nat /\ runs' >= runs
    BY <1>1, <1>2
  <2>. QED  BY <1>1, <1>3, <1>4, <2>1, OthersStay
<1>. QED  BY <1>5, <1>6, <1>7 DEF IInv

LEMMA PostResultInv ==
    ASSUME IInv, NEW a \in Activity, PostResult(a) PROVE IInv'
<1>1. /\ worker[a].pc = "cleared" /\ worker' = [worker EXCEPT ![a] = Idle]
      /\ posted' = Append(posted, Message("result", a))
      /\ UNCHANGED <<current, runs, tasks, running, txt, label, delayed>>
  BY DEF PostResult
<1>2. /\ ActivityTypeOK /\ AInv(a) /\ runs \in Nat /\ Len(tasks[a]) \in Nat /\ delayed[a] \in Nat
      /\ worker[a].run \in Nat /\ txt[a] \in Nat
      /\ \A z \in 1 .. Len(tasks[a]) : tasks[a][z] \in Nat
      /\ posted \in Seq(Msg) /\ Cardinality(TickPos(posted, a)) \in Nat
  BY Facts
<1>3. Message("result", a) \in Msg /\ posted' \in Seq(Msg)
  BY <1>1, <1>2, AppendProperties DEF Message, Msg
<1>4. /\ worker' \in [Activity -> Workers]
      /\ worker'[a].pc = "idle" /\ worker'[a].run = 0
      /\ \A b \in Activity \ {a} : worker'[b] = worker[b]
  BY <1>1, <1>2, TypeFacts DEF Idle, NoRun, Workers
<1>5. ASSUME NEW b \in Activity
      PROVE  /\ HasResult(posted', b) <=> HasResult(posted, b) \/ b = a
             /\ Cardinality(TickPos(posted', b)) \in Nat
             /\ Cardinality(TickPos(posted', b)) <= Cardinality(TickPos(posted, b))
  <2>1. Message("result", a) # Message("tick", b)
        /\ (Message("result", a) = Message("result", b) <=> b = a)
    BY DEF Message
  <2>2. HasResult(posted', b) <=> HasResult(posted, b) \/ b = a
    BY <1>1, <1>2, <1>3, <2>1, ResultAppend
  <2>3. Cardinality(TickPos(posted', b))
          <= Cardinality(TickPos(posted, b))
               + (IF Message("result", a) = Message("tick", b) THEN 1 ELSE 0)
    BY <1>1, <1>2, <1>3, TicksAppend
  <2>4. Cardinality(TickPos(posted, b)) \in Nat /\ Cardinality(TickPos(posted', b)) \in Nat
    BY <1>2, <1>3, TicksFinite
  <2>. QED  BY <2>1, <2>2, <2>3, <2>4
<1>6. ActivityTypeOK'
  BY <1>1, <1>2, <1>3, <1>4 DEF ActivityTypeOK, Workers, Msg
<1>7. AInv(a)'
  <2>1. txt[a] = worker[a].run /\ worker[a].run \in Run /\ txt[a] # NoRun
    BY <1>1, <1>2 DEF AInv, OrderInv, Run, NoRun
  <2>2. OrderInv(a)'
    <3>1. \A z \in 1 .. Len(tasks[a]) : 0 < tasks[a][z]
      BY <1>2 DEF AInv, OrderInv
    <3>2. worker'[a].pc = "idle" /\ worker'[a].run = 0
      BY <1>4
    <3>3. OrderInv(a) /\ 0 <= runs
      BY <1>2 DEF AInv
    <3>. QED  BY <1>1, <3>1, <3>2, <3>3 DEF OrderInv
  <2>3. FlagInv(a)' /\ ResultInv(a)' /\ Settled(a)'
    <3>1. FlagInv(a)'
      BY <1>1, <1>2, <1>4, <2>1 DEF AInv, FlagInv
    <3>2. ResultInv(a)'
      BY <1>1, <1>2, <1>4, <1>5, <2>1 DEF AInv, ResultInv
    <3>3. Settled(a)'
      BY <1>1, <1>2, <1>4, <1>5, <2>1 DEF AInv, Settled
    <3>. QED  BY <3>1, <3>2, <3>3
  <2>4. TickInv(a)'
    <3>1. Unposted(a) = 0 /\ Unposted(a)' = 0
      BY <1>1, <1>4 DEF Unposted
    <3>2. delayed[a] + Cardinality(TickPos(posted, a)) + Len(tasks[a]) + 0 <= runs
      BY <1>2, <3>1 DEF AInv, TickInv
    <3>3. delayed[a] + Cardinality(TickPos(posted', a)) + Len(tasks[a]) + 0 <= runs
      BY <1>2, <1>5, <3>2
    <3>. QED  BY <1>1, <3>1, <3>3 DEF TickInv
  <2>. QED  BY <2>2, <2>3, <2>4 DEF AInv
<1>8. ASSUME NEW b \in Activity \ {a} PROVE AInv(b)'
  <2>1. b \in Activity /\ b # a /\ worker'[b] = worker[b] /\ runs' \in Nat /\ runs' >= runs
    BY <1>1, <1>2, <1>4
  <2>. QED  BY <1>1, <1>3, <1>5, <2>1, OthersKeep
<1>. QED  BY <1>6, <1>7, <1>8 DEF IInv

LEMMA NextInv == IInv /\ [ActivityNext]_activity_vars => IInv'
<1> SUFFICES ASSUME IInv, [ActivityNext]_activity_vars PROVE IInv'
  OBVIOUS
<1>1. CASE UNCHANGED activity_vars
  <2>1. UNCHANGED <<current, runs, tasks, worker, running, txt, label, posted, delayed>>
    BY <1>1 DEF activity_vars
  <2>2. ActivityTypeOK'
    BY <2>1 DEF IInv, ActivityTypeOK
  <2>3. ASSUME NEW b \in Activity PROVE AInv(b)'
    <3>1. runs \in Nat
      BY Facts
    <3>. QED  BY <2>1, <3>1, OthersStay
  <2>. QED  BY <2>2, <2>3 DEF IInv
<1>2. ASSUME NEW a \in Activity, DelayedTick(a) \/ Worker(a) PROVE IInv'
  BY <1>2, DelayedTickInv, TaskStartsInv, PostTickInv, ExecReturnsInv, ExecThrowsErrorInv,
     ClearRunningInv, PostResultInv DEF Worker
<1>. QED  BY <1>1, <1>2, ClickAcceptedInv, ClickRefusedInv, RecreateInv, HandleTickInv,
             HandleResultInv DEF ActivityNext

--------------------------------------------------------------------------------
(***************************************************************************)
(* MainActivity: the theorems.                                             *)
(***************************************************************************)
\* The runs of an activity pass through queue, thread, text and label in the
\* order of the clicks; every tick belongs to a run of its own; the flag is up
\* exactly while the thread is in a run and, until the next one, after a run that
\* ended in an Error (runCommand, MainActivity.java).
THEOREM ActivityInvariantHolds == ActivitySpec => []IInv
<1>. QED  BY InitInv, NextInv, PTL DEF ActivitySpec

\* When an activity is quiet its label is the result of its last run
\* (runCommand, the two Runnables posted to the looper).
THEOREM LastResultIsShown == ActivitySpec => []ShowsLastResult
<1>1. IInv => ShowsLastResult
  <2> SUFFICES ASSUME IInv, NEW a \in Activity, Quiet(a), txt[a] # NoRun
               PROVE  label[a] = ShowsResult(txt[a])
    BY DEF ShowsLastResult, IInv
  <2>1. worker[a].pc = "idle" /\ tasks[a] = <<>> /\ ~HasResult(posted, a)
    BY DEF Quiet, HasResult
  <2>. QED  BY <2>1 DEF IInv, AInv, Settled
<1>. QED  BY <1>1, ActivityInvariantHolds, PTL

\* Results are shown in the order of the clicks: whatever step shows a result
\* shows that of a run, and never of an earlier one than was shown before.
THEOREM ResultsAreShownInOrder == ActivitySpec => ResultsInOrder
<1> DEFINE Ordered == \A a \in Activity : label'[a].text = "result"
                         => label'[a].run >= label[a].run /\ label'[a].run # NoRun
<1>1. ASSUME IInv, IInv', [ActivityNext]_activity_vars PROVE [Ordered]_activity_vars
  <2> SUFFICES ASSUME NEW a \in Activity, label'[a].text = "result"
               PROVE  label'[a].run >= label[a].run
    BY <1>1 DEF IInv, AInv, OrderInv
  <2>1. /\ label \in [Activity -> Labels] /\ label[a].run \in Nat /\ txt[a] \in Nat
        /\ label[a].run <= txt[a]
    BY <1>1, Facts, TypeFacts DEF IInv, AInv, OrderInv
  <2>2. CASE ClickAccepted \/ ClickRefused
    <3>1. PICK text \in {"running", "refused"} : label' = [label EXCEPT ![current] = Shows(text)]
      BY <2>2 DEF ClickAccepted, ClickRefused
    <3>2. current # a
      <4>1. current = a => label'[a].text = text
        BY <2>1, <3>1 DEF Shows
      <4>. QED  BY <4>1
    <3>. QED  BY <2>1, <3>1, <3>2
  <2>3. CASE HandleResult
    <3>1. label' = [label EXCEPT ![Head(posted).activity]
                      = ShowsResult(txt[Head(posted).activity])]
      BY <2>3 DEF HandleResult
    <3>2. CASE Head(posted).activity = a
      BY <2>1, <3>1, <3>2 DEF ShowsResult
    <3>3. CASE Head(posted).activity # a
      BY <2>1, <3>1, <3>3
    <3>. QED  BY <3>2, <3>3
  <2>4. ASSUME NEW b, NEW others, Tick(b, others) PROVE label'[a].run = label[a].run
    <3>1. label' = label \/ label' = [label EXCEPT ![b].dotted = TRUE]
      BY <2>4 DEF Tick
    <3>. QED  BY <2>1, <3>1 DEF Labels
  <2>5. CASE HandleTick \/ \E b \in Activity : DelayedTick(b)
    BY <2>1, <2>4, <2>5 DEF HandleTick, DelayedTick
  <2>6. CASE label' = label
    BY <2>1, <2>6
  <2>7. CASE Recreate \/ (\E b \in Activity : Worker(b)) \/ UNCHANGED activity_vars
    BY <2>6, <2>7
       DEF Recreate, Worker, TaskStarts, PostTick, ExecReturns, ExecThrowsError, ClearRunning,
           PostResult, activity_vars
  <2>. QED  BY <1>1, <2>2, <2>3, <2>5, <2>7 DEF ActivityNext
<1>. QED  BY <1>1, ActivityInvariantHolds, PTL DEF ActivitySpec, ResultsInOrder

--------------------------------------------------------------------------------
(***************************************************************************)
(* Exec: the inductive invariant.                                          *)
(***************************************************************************)
Child == [state : {"none", "running", "exited", "reaped"},
          holds : SUBSET Pipe, written : 0 .. MAX_OUTPUT]

Active == {"close", "loop", "wait", "read"}

\* What NoOutputLost and BufferFits say of one call.
OutputKept(c) ==
    /\ result[c] = "output" =>
          /\ child[c].state = "reaped"
          /\ failed[c] = 0 => llen[c] = child[c].written
    /\ c \in Collecting =>
          child[c].written =
              llen[c] + (IF pc[c] = "loop" THEN nbytes[c] ELSE 0) + in_pipe[link(c)] + failed[c]

CallFits(c) ==
    /\ c \in Collecting => llen[c] + nbytes[c] <= alloced[c]
    /\ pc[c] = "read" => -failed[c] <= llen[c] /\ llen[c] + CHUNK <= alloced[c]

\* The pipe of the call is empty and its child unborn before the fork; pid is
\* positive until the child was waited for; only a running child holds pipes, and
\* the reader's process does not hold the pipe it reads from.  The count is short
\* by the reads that failed, of which there were none before the loop.
CallInv(c) ==
    /\ pc[c] # "idle" => calls[c] >= 1 /\ result[c] = "none"
    /\ child[c].state # "running" => child[c].holds = {}
    /\ pc[c] = "idle" => child[c].state \in {"none", "reaped"}
    /\ pc[c] \in {"pipe", "fork"} =>
          child[c].state = "none" /\ child[c].written = 0 /\ in_pipe[link(c)] = 0
    /\ pc[c] = "close" => child[c].written = in_pipe[link(c)]
    /\ pc[c] \in Active =>
          child[c].state # "none" /\ (pid[c] = TRUE <=> child[c].state # "reaped")
    /\ c \in Collecting => link(c) \notin write_ends
    /\ pc[c] \in {"wait", "read"} => -failed[c] <= llen[c] /\ llen[c] + CHUNK <= alloced[c]
    /\ pc[c] \in {"pipe", "fork", "close"} => failed[c] = 0
    /\ pc[c] = "loop" => -failed[c] <= llen[c] + nbytes[c]
    /\ OutputKept(c)
    /\ CallFits(c)

\* Nothing was ever written to the pipes of calls to come.
FreshPipes == \A w \in Pipe : w[2] > calls[w[1]] => in_pipe[w] = 0

ExecInv == ExecTypeOK /\ FreshPipes /\ \A c \in Caller : CallInv(c)

--------------------------------------------------------------------------------
(***************************************************************************)
(* Exec: lemmas.                                                           *)
(***************************************************************************)
\* The buffer grows to what is asked for, and by less than CHUNK beyond it.
LEMMA GrownFacts ==
    ASSUME NEW n \in Int, NEW size \in Nat
    PROVE  /\ Grown(n, size) \in Nat
           /\ n + CHUNK <= Grown(n, size)
           /\ Grown(n, size) = size \/ Grown(n, size) < n + 2 * CHUNK
<1> DEFINE missing == n + CHUNK - size
           a == missing + CHUNK - 1
           b == CHUNK * (a \div CHUNK)
<1>0. CHUNK \in Nat \ {0}
  BY ExecAssumption
<1>1. CASE missing <= 0
  BY <1>0, <1>1 DEF Grown
<1>2. CASE ~(missing <= 0)
  <2>1. a \in Nat /\ missing \in Nat
    BY <1>0, <1>2
  <2>2. a \div CHUNK \in Nat /\ a % CHUNK \in 0 .. CHUNK - 1 /\ a = b + (a % CHUNK)
    <3> HIDE DEF missing
    <3>1. \A x \in Nat : /\ x \div CHUNK \in Nat /\ x % CHUNK \in 0 .. CHUNK - 1
                         /\ x = CHUNK * (x \div CHUNK) + (x % CHUNK)
      BY <1>0, DivMod, Zenon
    <3>. QED  BY <2>1, <3>1, Zenon
  <2>3. b \in Nat
    <3> HIDE DEF missing, a
    <3>. QED  BY <1>0, <2>2, TimesNat, Zenon
  <2>4. Grown(n, size) = size + b
    BY <1>2, Zenon DEF Grown
  <2>5. missing <= b /\ b < missing + CHUNK
    <3> HIDE DEF b
    <3>. QED  BY <1>0, <2>1, <2>2, <2>3
  <2> HIDE DEF b
  <2>. QED  BY <1>0, <2>3, <2>4, <2>5
<1>. QED  BY <1>1, <1>2

\* A step of thread c or of its child leaves the other calls as they were.
LEMMA CallsKeep ==
    ASSUME ExecInv, NEW c \in Caller,
           \A d \in Caller \ {c} :
               /\ pc'[d] = pc[d] /\ calls'[d] = calls[d] /\ child'[d] = child[d]
               /\ pid'[d] = pid[d] /\ llen'[d] = llen[d] /\ nbytes'[d] = nbytes[d]
               /\ failed'[d] = failed[d]
               /\ alloced'[d] = alloced[d] /\ result'[d] = result[d]
               /\ in_pipe'[link(d)] = in_pipe[link(d)]
               /\ link(d) \in write_ends' => link(d) \in write_ends
    PROVE  \A d \in Caller \ {c} : CallInv(d)'
<1> TAKE d \in Caller \ {c}
<1>1. CallInv(d)
  BY DEF ExecInv
<1>2. link(d)' = link(d)
  BY DEF link
<1>3. (d \in Collecting)' <=> d \in Collecting
  BY DEF Collecting
<1>. QED  BY <1>1, <1>2, <1>3 DEF CallInv, OutputKept, CallFits

\* The pipes of two threads differ.
LEMMA PipesDiffer ==
    ASSUME NEW c \in Caller, NEW d \in Caller \ {c}
    PROVE  link(d) # link(c)
  BY DEF link

LEMMA LinkInPipe ==
    ASSUME ExecTypeOK, NEW c \in Caller, calls[c] >= 1
    PROVE  link(c) \in Pipe
<1>1. calls[c] \in 0 .. MAX_CALLS
  BY DEF ExecTypeOK
<1>. QED  BY <1>1, ExecAssumption DEF link, Pipe

LEMMA ExecTypeFacts ==
    ASSUME ExecTypeOK, NEW c \in Caller
    PROVE  /\ llen[c] \in -MAX_FAILED .. MAX_OUTPUT /\ nbytes[c] \in -1 .. CHUNK
           /\ failed[c] \in 0 .. MAX_FAILED
           /\ alloced[c] \in 0 .. MAX_OUTPUT + 2 * CHUNK - 1
           /\ child \in [Caller -> Child] /\ child[c] \in Child
           /\ child[c].written \in 0 .. MAX_OUTPUT
           /\ calls[c] >= 1 => link(c) \in Pipe /\ in_pipe[link(c)] \in 0 .. PIPE_CAP
<1>1. llen[c] \in -MAX_FAILED .. MAX_OUTPUT /\ nbytes[c] \in -1 .. CHUNK /\ failed[c] \in 0 .. MAX_FAILED
      /\ alloced[c] \in 0 .. MAX_OUTPUT + 2 * CHUNK - 1
  BY DEF ExecTypeOK
<1>2. child \in [Caller -> Child] /\ child[c] \in Child /\ child[c].written \in 0 .. MAX_OUTPUT
  BY DEF ExecTypeOK, Child
<1>3. calls[c] >= 1 => link(c) \in Pipe /\ in_pipe[link(c)] \in 0 .. PIPE_CAP
  BY LinkInPipe DEF ExecTypeOK
<1>. QED  BY <1>1, <1>2, <1>3, ExecAssumption

--------------------------------------------------------------------------------
(***************************************************************************)
(* Exec: it holds initially and every step preserves it.                   *)
(***************************************************************************)
LEMMA ExecInitInv == ExecInit => ExecInv
<1> SUFFICES ASSUME ExecInit PROVE ExecInv
  OBVIOUS
<1> USE DEF ExecInit, NoChild
<1>1. ExecTypeOK
  BY ExecAssumption DEF ExecTypeOK
<1>2. FreshPipes
  BY DEF FreshPipes
<1>3. ASSUME NEW c \in Caller PROVE CallInv(c)
  BY DEF CallInv, OutputKept, CallFits, Collecting, Active
<1>. QED  BY <1>1, <1>2, <1>3 DEF ExecInv

LEMMA CallInvariant ==
    ASSUME ExecInv, NEW c \in Caller, Call(c)
    PROVE  ExecInv'
<1> USE DEF Call, Proceed
<1>0. ExecTypeOK /\ FreshPipes /\ CallInv(c)
  BY DEF ExecInv
<1>1. /\ calls[c] \in Nat /\ calls[c] + 1 \in 1 .. MAX_CALLS /\ calls'[c] = calls[c] + 1
      /\ \A d \in Caller : calls[d] \in Nat /\ calls'[d] >= calls[d]
      /\ calls' \in [Caller -> 0 .. MAX_CALLS]
  <2>1. calls \in [Caller -> 0 .. MAX_CALLS] /\ calls' = [calls EXCEPT ![c] = @ + 1]
        /\ calls[c] < MAX_CALLS
    BY <1>0 DEF ExecTypeOK
  <2> HIDE DEF Call
  <2>. QED  BY <2>1, ExecAssumption
<1>2. ExecTypeOK'
  <2>2. NoChild \in Child
    BY ExecAssumption DEF Child, NoChild
  <2>3. child \in [Caller -> Child] /\ child' = [child EXCEPT ![c] = NoChild]
    BY <1>0 DEF ExecTypeOK, Child
  <2>4. child' \in [Caller -> Child] /\ child'[c] = NoChild
    BY <2>2, <2>3, Zenon
  <2>5. failed' \in [Caller -> 0 .. MAX_FAILED]
    BY <1>0, ExecAssumption DEF ExecTypeOK
  <2>. QED  BY <1>0, <1>1, <2>4, <2>5 DEF ExecTypeOK, Child
<1>3. FreshPipes'
  <2> SUFFICES ASSUME NEW w \in Pipe, w[2] > calls'[w[1]] PROVE in_pipe[w] = 0
    BY DEF FreshPipes
  <2>1. w[1] \in Caller /\ w[2] \in Nat
    BY DEF Pipe
  <2>2. w[2] > calls[w[1]]
    BY <1>1, <2>1
  <2>. QED  BY <1>0, <2>2 DEF FreshPipes
<1>4. CallInv(c)'
  <2>1. link(c)' \in Pipe /\ link(c)'[2] > calls[link(c)'[1]]
    BY <1>1 DEF link, Pipe
  <2>2. in_pipe[link(c)'] = 0
    BY <1>0, <2>1 DEF FreshPipes
  <2>3. /\ pc'[c] = "pipe" /\ child'[c] = NoChild /\ result'[c] = "none" /\ in_pipe' = in_pipe
        /\ failed'[c] = 0
    BY <1>0 DEF ExecTypeOK
  <2>. QED  BY <1>1, <2>2, <2>3 DEF CallInv, OutputKept, CallFits, Collecting, Active, NoChild
<1>5. \A d \in Caller \ {c} : CallInv(d)'
  BY <1>0, CallsKeep DEF ExecTypeOK
<1>. QED  BY <1>2, <1>3, <1>4, <1>5 DEF ExecInv

LEMMA MakePipeInvariant ==
    ASSUME ExecInv, NEW c \in Caller, MakePipe(c)
    PROVE  ExecInv'
<1> USE DEF MakePipe, Proceed, Return
<1>0. ExecTypeOK /\ FreshPipes /\ CallInv(c)
  BY DEF ExecInv
<1>1. ExecTypeOK'
  <2>1. link(c) \in Pipe
    BY <1>0, LinkInPipe DEF CallInv
  <2>. QED  BY <1>0, <2>1 DEF ExecTypeOK
<1>2. FreshPipes'
  BY <1>0 DEF FreshPipes
<1>3. CallInv(c)'
  <2>1. /\ link(c)' = link(c) /\ in_pipe' = in_pipe /\ child' = child
        /\ llen' = llen /\ nbytes' = nbytes /\ alloced' = alloced /\ pid' = pid /\ calls' = calls
        /\ failed' = failed /\ pc[c] = "pipe"
    BY DEF link
  <2>2. \/ pc'[c] = "idle" /\ result'[c] = "pipe_failed"
        \/ pc'[c] = "fork" /\ result'[c] = result[c]
    BY <1>0 DEF ExecTypeOK
  <2> HIDE DEF MakePipe
  <2>. QED  BY <1>0, <2>1, <2>2 DEF CallInv, OutputKept, CallFits, Collecting, Active, NoChild
<1>4. \A d \in Caller \ {c} : CallInv(d)'
  BY <1>0, CallsKeep, PipesDiffer DEF ExecTypeOK
<1>. QED  BY <1>1, <1>2, <1>3, <1>4 DEF ExecInv

LEMMA ForkInvariant ==
    ASSUME ExecInv, NEW c \in Caller, Fork(c)
    PROVE  ExecInv'
<1> USE DEF Fork, Proceed, Return
<1>0. ExecTypeOK /\ FreshPipes /\ CallInv(c)
  BY DEF ExecInv
<1>1. ExecTypeOK'
  <2>1. [state |-> "running", holds |-> write_ends, written |-> 0] \in Child
    <3>1. write_ends \in SUBSET Pipe
      BY <1>0 DEF ExecTypeOK
    <3> HIDE DEF Fork
    <3>. QED  BY <3>1, ExecAssumption DEF Child
  <2>2. child' \in [Caller -> Child]
    BY <1>0, <2>1 DEF ExecTypeOK, Child
  <2>. QED  BY <1>0, <2>2 DEF ExecTypeOK, Child
<1>2. FreshPipes'
  BY <1>0 DEF FreshPipes
<1>3. CallInv(c)'
  <2>1. /\ pc[c] = "fork" /\ pc'[c] = "close" /\ pid'[c] = TRUE /\ result' = result
        /\ child'[c].state = "running" /\ child'[c].written = 0
        /\ link(c)' = link(c) /\ in_pipe' = in_pipe /\ calls' = calls /\ failed' = failed
    BY <1>0 DEF ExecTypeOK, link
  <2> HIDE DEF Fork
  <2>. QED  BY <1>0, <2>1 DEF CallInv, OutputKept, CallFits, Collecting, Active
<1>4. \A d \in Caller \ {c} : CallInv(d)'
  BY <1>0, CallsKeep DEF ExecTypeOK
<1>. QED  BY <1>1, <1>2, <1>3, <1>4 DEF ExecInv

LEMMA ForkFailsInvariant ==
    ASSUME ExecInv, NEW c \in Caller, ForkFails(c)
    PROVE  ExecInv'
<1> USE DEF ForkFails, Proceed, Return
<1>0. ExecTypeOK /\ FreshPipes /\ CallInv(c)
  BY DEF ExecInv
<1>1. ExecTypeOK'
  BY <1>0 DEF ExecTypeOK
<1>2. FreshPipes'
  BY <1>0 DEF FreshPipes
<1>3. CallInv(c)'
  <2>1. /\ pc[c] = "fork" /\ pc'[c] = "idle" /\ result'[c] = "fork_failed"
        /\ child' = child /\ in_pipe' = in_pipe /\ failed' = failed
    BY <1>0 DEF ExecTypeOK
  <2> HIDE DEF ForkFails
  <2>. QED  BY <1>0, <2>1 DEF CallInv, OutputKept, CallFits, Collecting, Active, NoChild
<1>4. \A d \in Caller \ {c} : CallInv(d)'
  BY <1>0, CallsKeep DEF ExecTypeOK
<1>. QED  BY <1>1, <1>2, <1>3, <1>4 DEF ExecInv

LEMMA CloseWriteEndInvariant ==
    ASSUME ExecInv, NEW c \in Caller, CloseWriteEnd(c)
    PROVE  ExecInv'
<1> USE DEF CloseWriteEnd, Proceed, Return
<1>0. ExecTypeOK /\ FreshPipes /\ CallInv(c)
  BY DEF ExecInv
<1>1. ExecTypeOK'
  <2>1. CHUNK \in 0 .. MAX_OUTPUT + 2 * CHUNK - 1 /\ 0 \in -MAX_FAILED .. MAX_OUTPUT /\ 0 \in -1 .. CHUNK
    BY ExecAssumption
  <2>. QED  BY <1>0, <2>1 DEF ExecTypeOK
<1>2. FreshPipes'
  BY <1>0 DEF FreshPipes
<1>3. CallInv(c)'
  <2>1. /\ pc'[c] = "loop" /\ llen'[c] = 0 /\ nbytes'[c] = 0 /\ alloced'[c] = CHUNK
        /\ link(c)' = link(c) /\ link(c) \notin write_ends' /\ pc[c] = "close"
        /\ child' = child /\ in_pipe' = in_pipe /\ pid' = pid /\ result' = result /\ calls' = calls
        /\ failed' = failed
    BY <1>0 DEF ExecTypeOK, link
  <2>2. in_pipe[link(c)] \in Nat
    BY <1>0, ExecTypeFacts, ExecAssumption DEF CallInv
  <2> HIDE DEF CloseWriteEnd
  <2>. QED  BY <1>0, <2>1, <2>2, ExecAssumption DEF CallInv, OutputKept, CallFits, Collecting, Active
<1>4. \A d \in Caller \ {c} : CallInv(d)'
  BY <1>0, CallsKeep DEF ExecTypeOK
<1>. QED  BY <1>1, <1>2, <1>3, <1>4 DEF ExecInv

LEMMA CountBytesInvariant ==
    ASSUME ExecInv, NEW c \in Caller, CountBytes(c)
    PROVE  ExecInv'
<1> USE DEF CountBytes, Proceed, Return
<1>0. ExecTypeOK /\ FreshPipes /\ CallInv(c)
  BY DEF ExecInv
<1> DEFINE n == llen[c] + nbytes[c]
<1>a. /\ llen[c] \in Int /\ nbytes[c] \in -1 .. CHUNK /\ alloced[c] \in 0 .. MAX_OUTPUT + 2 * CHUNK - 1
      /\ child[c].written \in 0 .. MAX_OUTPUT /\ in_pipe[link(c)] \in Nat
      /\ failed[c] \in 0 .. MAX_FAILED
  <2>1. calls[c] >= 1
    BY <1>0 DEF CallInv
  <2> HIDE DEF CountBytes
  <2>. QED  BY <1>0, <2>1, ExecTypeFacts, ExecAssumption
<1>b. child[c].written = n + in_pipe[link(c)] + failed[c] /\ -failed[c] <= n
  BY <1>0 DEF CallInv, OutputKept, Collecting
<1>c. n \in -MAX_FAILED .. MAX_OUTPUT
  BY <1>a, <1>b, ExecAssumption
<1>d. /\ Grown(n, alloced[c]) \in 0 .. MAX_OUTPUT + 2 * CHUNK - 1
      /\ n + CHUNK <= Grown(n, alloced[c])
  <2>1. n \in Int /\ alloced[c] \in Nat
    BY <1>a, <1>c, ExecAssumption
  <2> HIDE DEF n
  <2>2. /\ Grown(n, alloced[c]) \in Nat /\ n + CHUNK <= Grown(n, alloced[c])
        /\ Grown(n, alloced[c]) = alloced[c] \/ Grown(n, alloced[c]) < n + 2 * CHUNK
    BY <2>1, GrownFacts
  <2>. QED  BY <1>a, <1>c, <2>2, ExecAssumption
<1>e. /\ pc' = [pc EXCEPT ![c] = "wait"] /\ llen' = [llen EXCEPT ![c] = n]
      /\ alloced' = [alloced EXCEPT ![c] = Grown(n, alloced[c])]
  OBVIOUS
<1> HIDE DEF n
<1>1. ExecTypeOK'
  <2>1. llen' \in [Caller -> -MAX_FAILED .. MAX_OUTPUT]
    BY <1>0, <1>c, <1>e DEF ExecTypeOK
  <2>2. alloced' \in [Caller -> 0 .. MAX_OUTPUT + 2 * CHUNK - 1]
    BY <1>0, <1>d, <1>e DEF ExecTypeOK
  <2>3. pc' \in [Caller -> {"idle", "pipe", "fork", "close", "loop", "wait", "read"}]
    BY <1>0, <1>e DEF ExecTypeOK
  <2>. QED  BY <1>0, <2>1, <2>2, <2>3 DEF ExecTypeOK
<1>2. FreshPipes'
  BY <1>0 DEF FreshPipes
<1>3. CallInv(c)'
  <2>1. /\ pc'[c] = "wait" /\ llen'[c] = n /\ alloced'[c] = Grown(n, alloced[c])
        /\ link(c)' = link(c) /\ nbytes'[c] = nbytes[c] /\ failed'[c] = failed[c]
    BY <1>0, <1>e DEF ExecTypeOK, link
  <2>. QED  BY <1>0, <1>a, <1>b, <1>c, <1>d, <2>1, ExecAssumption
            DEF CallInv, OutputKept, CallFits, Collecting, Active
<1>4. \A d \in Caller \ {c} : CallInv(d)'
  BY <1>0, CallsKeep DEF ExecTypeOK
<1>. QED  BY <1>1, <1>2, <1>3, <1>4 DEF ExecInv

LEMMA ReapInvariant ==
    ASSUME ExecInv, NEW c \in Caller, Reap(c)
    PROVE  ExecInv'
<1> USE DEF Reap, Proceed, Return
<1>0. ExecTypeOK /\ FreshPipes /\ CallInv(c)
  BY DEF ExecInv
<1>1. ExecTypeOK'
  <2>1. pc' \in [Caller -> {"idle", "pipe", "fork", "close", "loop", "wait", "read"}]
    BY <1>0 DEF ExecTypeOK
  <2>2. pid' \in [Caller -> BOOLEAN]
    BY <1>0 DEF ExecTypeOK
  <2>3. child' \in [Caller -> Child]
    <3>1. child \in [Caller -> Child]
      BY <1>0, ExecTypeFacts
    <3>. QED  BY <3>1 DEF Child
  <2>. QED  BY <1>0, <2>1, <2>2, <2>3 DEF ExecTypeOK, Child
<1>2. FreshPipes'
  BY <1>0 DEF FreshPipes
<1>3. CallInv(c)'
  <2>1. /\ pc[c] = "wait" /\ pc'[c] = "read" /\ link(c)' = link(c)
        /\ child[c].state # "none" /\ (pid[c] = TRUE <=> child[c].state # "reaped")
    BY <1>0 DEF ExecTypeOK, CallInv, Active, link
  <2>2. /\ child'[c].written = child[c].written /\ child'[c].holds = child[c].holds
        /\ pid'[c] = TRUE <=> child'[c].state # "reaped"
        /\ child[c].state # "running" => child'[c].state # "running"
        /\ child'[c].state = "running" <=> child[c].state = "running"
        /\ child'[c].state # "none"
    BY <1>0, <2>1 DEF ExecTypeOK
  <2>3. /\ in_pipe' = in_pipe /\ write_ends' = write_ends /\ llen' = llen /\ calls' = calls
        /\ nbytes' = nbytes /\ alloced' = alloced /\ result' = result /\ failed' = failed
    OBVIOUS
  <2>4. -failed[c] <= llen[c] /\ llen[c] + CHUNK <= alloced[c]
    BY <1>0 DEF CallInv
  <2> HIDE DEF Reap
  <2>. QED  BY <1>0, <2>1, <2>2, <2>3, <2>4 DEF CallInv, OutputKept, CallFits, Collecting, Active
<1>4. \A d \in Caller \ {c} : CallInv(d)'
  BY <1>0, CallsKeep DEF ExecTypeOK
<1>. QED  BY <1>1, <1>2, <1>3, <1>4 DEF ExecInv

LEMMA ReadInvariant ==
    ASSUME ExecInv, NEW c \in Caller, Read(c)
    PROVE  ExecInv'
<1> DEFINE avail == in_pipe[link(c)]
           n == IF avail < CHUNK THEN avail ELSE CHUNK
<1>0. ExecTypeOK /\ FreshPipes /\ CallInv(c) /\ pc[c] = "read"
  BY DEF ExecInv, Read
<1>a. /\ llen[c] \in -MAX_FAILED .. MAX_OUTPUT /\ nbytes[c] \in -1 .. CHUNK
      /\ child[c].written \in 0 .. MAX_OUTPUT /\ failed[c] \in 0 .. MAX_FAILED
      /\ alloced[c] \in 0 .. MAX_OUTPUT + 2 * CHUNK - 1
      /\ link(c) \in Pipe /\ avail \in 0 .. PIPE_CAP
  BY <1>0, ExecTypeFacts DEF CallInv
<1>b. n \in 0 .. CHUNK /\ n <= avail /\ avail - n \in 0 .. PIPE_CAP /\ (n = 0 => avail = 0)
  BY <1>a, ExecAssumption
<1> HIDE DEF n
<1>c. /\ nbytes' = [nbytes EXCEPT ![c] = n]
      /\ in_pipe' = [in_pipe EXCEPT ![link(c)] = avail - n]
      /\ UNCHANGED <<calls, read_ends, write_ends, child, pid, llen, failed, alloced>>
      /\ \/ Again(c, n) /\ pc' = [pc EXCEPT ![c] = "loop"] /\ result' = result
         \/ /\ ~Again(c, n) /\ pc' = [pc EXCEPT ![c] = "idle"]
            /\ result' = [result EXCEPT ![c] = "output"]
  BY DEF Read, n, Proceed, Return
<1>d. nbytes'[c] = n /\ link(c)' = link(c) /\ in_pipe'[link(c)] = avail - n
  BY <1>0, <1>a, <1>c DEF ExecTypeOK, link
<1>1. ExecTypeOK'
  <2>1. nbytes' \in [Caller -> -1 .. CHUNK]
    BY <1>0, <1>b, <1>c DEF ExecTypeOK
  <2>2. in_pipe' \in [Pipe -> 0 .. PIPE_CAP]
    BY <1>0, <1>b, <1>c DEF ExecTypeOK
  <2>. QED  BY <1>0, <1>c, <2>1, <2>2 DEF ExecTypeOK
<1>2. FreshPipes'
  <2>1. ~(link(c)[2] > calls[link(c)[1]])
    BY <1>0, ExecAssumption DEF link, ExecTypeOK
  <2>. QED  BY <1>0, <1>c, <2>1 DEF FreshPipes, ExecTypeOK
<1>3. CallInv(c)'
  <2>1. child[c].written = llen[c] + avail + failed[c]
    BY <1>0, <1>a DEF CallInv, OutputKept, Collecting
  <2>2. -failed[c] <= llen[c] /\ llen[c] + CHUNK <= alloced[c]
    BY <1>0 DEF CallInv
  <2>3. CASE Again(c, n)
    <3>1. pc'[c] = "loop" /\ result' = result
      BY <1>0, <1>c, <2>3 DEF ExecTypeOK
    <3>. QED  BY <1>0, <1>a, <1>b, <1>c, <1>d, <2>1, <2>2, <3>1, ExecAssumption
              DEF CallInv, OutputKept, CallFits, Collecting, Active
  <2>4. CASE ~Again(c, n)
    <3>1. pc'[c] = "idle" /\ result'[c] = "output"
      BY <1>0, <1>c, <2>4 DEF ExecTypeOK
    <3>2. n = 0 /\ child[c].state = "reaped"
      <4>1. child[c].state # "none" /\ (pid[c] = TRUE <=> child[c].state # "reaped")
        BY <1>0 DEF CallInv, Active
      <4>2. ~(n > 0) /\ ~pid[c]
        BY <2>4 DEF Again
      <4>3. child[c].state = "reaped"
        BY <4>1, <4>2, Zenon
      <4>. QED  BY <1>b, <4>2, <4>3, ExecAssumption
    <3>3. failed[c] = 0 => llen[c] = child[c].written
      BY <1>a, <1>b, <2>1, <3>2
    <3>. QED  BY <1>0, <1>c, <3>1, <3>2, <3>3 DEF CallInv, OutputKept, CallFits, Collecting, Active
  <2>. QED  BY <2>3, <2>4
<1>4. \A d \in Caller \ {c} : CallInv(d)'
  <2>1. \A d \in Caller \ {c} : in_pipe'[link(d)] = in_pipe[link(d)]
    BY <1>0, <1>c, PipesDiffer DEF ExecTypeOK
  <2>. QED  BY <1>0, <1>c, <2>1, CallsKeep DEF ExecTypeOK
<1>. QED  BY <1>1, <1>2, <1>3, <1>4 DEF ExecInv

LEMMA ReadFailsInvariant ==
    ASSUME ExecInv, NEW c \in Caller, ReadFails(c)
    PROVE  ExecInv'
<1>0. ExecTypeOK /\ FreshPipes /\ CallInv(c) /\ pc[c] = "read"
  BY DEF ExecInv, ReadFails
<1>a. /\ llen[c] \in -MAX_FAILED .. MAX_OUTPUT /\ child[c].written \in 0 .. MAX_OUTPUT
      /\ failed[c] \in 0 .. MAX_FAILED /\ alloced[c] \in 0 .. MAX_OUTPUT + 2 * CHUNK - 1
      /\ link(c) \in Pipe /\ in_pipe[link(c)] \in 0 .. PIPE_CAP
  BY <1>0, ExecTypeFacts DEF CallInv
<1>c. /\ nbytes' = [nbytes EXCEPT ![c] = -1]
      /\ failed' = [failed EXCEPT ![c] = @ + 1] /\ failed[c] < MAX_FAILED
      /\ UNCHANGED <<calls, read_ends, write_ends, in_pipe, child, pid, llen, alloced>>
      /\ \/ Again(c, -1) /\ pc' = [pc EXCEPT ![c] = "loop"] /\ result' = result
         \/ /\ ~Again(c, -1) /\ pc' = [pc EXCEPT ![c] = "idle"]
            /\ result' = [result EXCEPT ![c] = "output"]
  BY DEF ReadFails, Proceed, Return
<1>d. nbytes'[c] = -1 /\ failed'[c] = failed[c] + 1 /\ link(c)' = link(c)
  BY <1>0, <1>c DEF ExecTypeOK, link
<1>1. ExecTypeOK'
  <2>1. nbytes' \in [Caller -> -1 .. CHUNK]
    BY <1>0, <1>c, ExecAssumption DEF ExecTypeOK
  <2>2. failed' \in [Caller -> 0 .. MAX_FAILED]
    BY <1>0, <1>a, <1>c, ExecAssumption DEF ExecTypeOK
  <2>. QED  BY <1>0, <1>c, <2>1, <2>2 DEF ExecTypeOK
<1>2. FreshPipes'
  BY <1>0, <1>c DEF FreshPipes
<1>3. CallInv(c)'
  <2>1. /\ child[c].written = llen[c] + in_pipe[link(c)] + failed[c]
        /\ -failed[c] <= llen[c] /\ llen[c] + CHUNK <= alloced[c]
    BY <1>0, <1>a DEF CallInv, OutputKept, Collecting
  <2>2. CASE Again(c, -1)
    <3>1. pc'[c] = "loop" /\ result' = result
      BY <1>0, <1>c, <2>2 DEF ExecTypeOK
    <3>. QED  BY <1>0, <1>a, <1>c, <1>d, <2>1, <3>1, ExecAssumption
              DEF CallInv, OutputKept, CallFits, Collecting, Active
  <2>3. CASE ~Again(c, -1)
    <3>1. pc'[c] = "idle" /\ result'[c] = "output"
      BY <1>0, <1>c, <2>3 DEF ExecTypeOK
    <3>2. child[c].state = "reaped"
      <4>1. child[c].state # "none" /\ (pid[c] = TRUE <=> child[c].state # "reaped")
        BY <1>0 DEF CallInv, Active
      <4>2. ~pid[c]
        BY <2>3 DEF Again
      <4>. QED  BY <4>1, <4>2, Zenon
    <3>3. failed'[c] # 0
      BY <1>a, <1>d, ExecAssumption
    <3>. QED  BY <1>0, <1>c, <3>1, <3>2, <3>3 DEF CallInv, OutputKept, CallFits, Collecting, Active
  <2>. QED  BY <2>2, <2>3
<1>4. \A d \in Caller \ {c} : CallInv(d)'
  BY <1>0, <1>c, CallsKeep DEF ExecTypeOK
<1>. QED  BY <1>1, <1>2, <1>3, <1>4 DEF ExecInv

LEMMA ChildWritesInvariant ==
    ASSUME ExecInv, NEW c \in Caller, ChildWrites(c)
    PROVE  ExecInv'
<1>0. ExecTypeOK /\ FreshPipes /\ CallInv(c) /\ child[c].state = "running"
  BY DEF ExecInv, ChildWrites
<1>a. pc[c] \in Active /\ calls[c] >= 1
  BY <1>0 DEF CallInv, ExecTypeOK, Active
<1>b. /\ child \in [Caller -> Child] /\ link(c) \in Pipe /\ in_pipe[link(c)] \in 0 .. PIPE_CAP
      /\ child[c].written \in 0 .. MAX_OUTPUT /\ llen[c] \in -MAX_FAILED .. MAX_OUTPUT
      /\ nbytes[c] \in -1 .. CHUNK /\ failed[c] \in 0 .. MAX_FAILED
  BY <1>0, <1>a, ExecTypeFacts
<1>c. /\ child' = [child EXCEPT ![c].written = @ + 1]
      /\ in_pipe' = [in_pipe EXCEPT ![link(c)] = @ + 1]
      /\ child[c].written < MAX_OUTPUT /\ in_pipe[link(c)] < PIPE_CAP
      /\ UNCHANGED <<pc, calls, read_ends, write_ends, pid, llen, nbytes, failed, alloced, result>>
  BY DEF ChildWrites
<1>d. /\ child'[c].written = child[c].written + 1 /\ child'[c].state = child[c].state
      /\ child'[c].holds = child[c].holds
      /\ in_pipe'[link(c)] = in_pipe[link(c)] + 1 /\ link(c)' = link(c)
  BY <1>0, <1>b, <1>c DEF ExecTypeOK, Child, link
<1>1. ExecTypeOK'
  <2>1. child[c].written + 1 \in 0 .. MAX_OUTPUT /\ in_pipe[link(c)] + 1 \in 0 .. PIPE_CAP
    BY <1>b, <1>c, ExecAssumption
  <2>2. child' \in [Caller -> Child]
    BY <1>b, <1>c, <2>1 DEF Child
  <2>3. in_pipe' \in [Pipe -> 0 .. PIPE_CAP]
    BY <1>0, <1>b, <1>c, <2>1 DEF ExecTypeOK
  <2>. QED  BY <1>0, <1>c, <2>2, <2>3 DEF ExecTypeOK, Child
<1>2. FreshPipes'
  <2>1. ~(link(c)[2] > calls[link(c)[1]])
    BY <1>0, ExecAssumption DEF link, ExecTypeOK
  <2>. QED  BY <1>0, <1>c, <2>1 DEF FreshPipes, ExecTypeOK
<1>3. CallInv(c)'
  BY <1>0, <1>a, <1>b, <1>c, <1>d, ExecAssumption
     DEF CallInv, OutputKept, CallFits, Collecting, Active
<1>4. \A d \in Caller \ {c} : CallInv(d)'
  <2>1. \A d \in Caller \ {c} : in_pipe'[link(d)] = in_pipe[link(d)] /\ child'[d] = child[d]
    BY <1>0, <1>b, <1>c, PipesDiffer DEF ExecTypeOK
  <2>. QED  BY <1>0, <1>c, <2>1, CallsKeep DEF ExecTypeOK
<1>. QED  BY <1>1, <1>2, <1>3, <1>4 DEF ExecInv

LEMMA ChildExitsInvariant ==
    ASSUME ExecInv, NEW c \in Caller, ChildExits(c)
    PROVE  ExecInv'
<1>0. ExecTypeOK /\ FreshPipes /\ CallInv(c) /\ child[c].state = "running"
  BY DEF ExecInv, ChildExits
<1>a. pc[c] \in Active
  BY <1>0 DEF CallInv, ExecTypeOK, Active
<1>b. child \in [Caller -> Child]
  BY <1>0, ExecTypeFacts
<1>c. /\ child' = [child EXCEPT ![c].state = "exited", ![c].holds = {}]
      /\ UNCHANGED <<pc, calls, read_ends, write_ends, in_pipe, pid, llen, nbytes, failed, alloced, result>>
  BY DEF ChildExits
<1>d. /\ child'[c].written = child[c].written /\ child'[c].state = "exited"
      /\ child'[c].holds = {} /\ link(c)' = link(c)
  BY <1>b, <1>c DEF Child, link
<1>1. ExecTypeOK'
  <2>1. child' \in [Caller -> Child]
    BY <1>b, <1>c DEF Child
  <2>. QED  BY <1>0, <1>c, <2>1 DEF ExecTypeOK, Child
<1>2. FreshPipes'
  BY <1>0, <1>c DEF FreshPipes
<1>3. CallInv(c)'
  BY <1>0, <1>a, <1>c, <1>d DEF CallInv, OutputKept, CallFits, Collecting, Active
<1>4. \A d \in Caller \ {c} : CallInv(d)'
  <2>1. \A d \in Caller \ {c} : child'[d] = child[d]
    BY <1>b, <1>c
  <2>. QED  BY <1>0, <1>c, <2>1, CallsKeep DEF ExecTypeOK
<1>. QED  BY <1>1, <1>2, <1>3, <1>4 DEF ExecInv

LEMMA StutterInv == ExecInv /\ UNCHANGED exec_vars => ExecInv'
<1> SUFFICES ASSUME ExecInv, UNCHANGED exec_vars PROVE ExecInv'
  OBVIOUS
<1>1. ExecTypeOK' /\ FreshPipes'
  BY DEF ExecInv, exec_vars, ExecTypeOK, FreshPipes
<1>2. ASSUME NEW c \in Caller PROVE CallInv(c)'
  <2>1. CallInv(c)
    BY DEF ExecInv
  <2>. QED  BY <2>1 DEF exec_vars, CallInv, OutputKept, CallFits, Collecting, link
<1>. QED  BY <1>1, <1>2 DEF ExecInv

LEMMA ExecNextInv == ExecInv /\ [ExecNext]_exec_vars => ExecInv'
<1> SUFFICES ASSUME ExecInv, [ExecNext]_exec_vars PROVE ExecInv'
  OBVIOUS
<1>1. CASE UNCHANGED exec_vars
  BY <1>1, StutterInv
<1>2. ASSUME NEW c \in Caller,
             Call(c) \/ Thread(c) \/ ReadFails(c) \/ ChildWrites(c) \/ ChildExits(c)
      PROVE  ExecInv'
  BY <1>2, CallInvariant, MakePipeInvariant, ForkInvariant, ForkFailsInvariant,
     CloseWriteEndInvariant, CountBytesInvariant, ReapInvariant, ReadInvariant,
     ReadFailsInvariant, ChildWritesInvariant, ChildExitsInvariant DEF Thread
<1>. QED  BY <1>1, <1>2 DEF ExecNext

--------------------------------------------------------------------------------
(***************************************************************************)
(* Exec: the theorems.                                                     *)
(***************************************************************************)
\* In every reachable state the accounts of every call balance: bytes written,
\* bytes in the pipe, bytes in the buffer, and the life of the child.
THEOREM ExecInvariantHolds == ExecSpec => []ExecInv
<1>. QED  BY ExecInitInv, ExecNextInv, PTL DEF ExecSpec

\* Whatever exec returns as output is all its child wrote, unless one of its
\* reads failed, whichever of exit and output the loop noticed first; each read
\* that failed takes one byte off the count and nothing else does.
THEOREM OutputIsComplete == ExecSpec => []NoOutputLost
<1>1. ExecInv => NoOutputLost
  BY DEF ExecInv, CallInv, OutputKept, NoOutputLost
<1>. QED  BY <1>1, ExecInvariantHolds, PTL

\* The buffer holds what was read, the next read and the 0 behind it, and every
\* variable keeps its type.
THEOREM BufferIsLargeEnough == ExecSpec => []BufferFits
<1>1. ExecInv => BufferFits
  BY DEF ExecInv, CallInv, CallFits, BufferFits
<1>. QED  BY <1>1, ExecInvariantHolds, PTL

\* A reader waits for its own child or a running child of another call, never
\* for the process it is in.
THEOREM NeverWaitsForItself == ExecSpec => []WaitsForOthersOnly
<1>1. ExecInv => WaitsForOthersOnly
  <2> SUFFICES ASSUME ExecInv, NEW c \in Collecting, child[c].state # "running", HasWriter(link(c))
               PROVE  \E d \in Caller \ {c} : child[d].state = "running" /\ link(c) \in child[d].holds
    BY DEF WaitsForOthersOnly
  <2>1. c \in Caller /\ CallInv(c)
    BY DEF ExecInv, Collecting
  <2>2. link(c) \notin write_ends /\ child[c].holds = {}
    BY <2>1 DEF CallInv
  <2>3. PICK d \in Caller : link(c) \in child[d].holds
    BY <2>2 DEF HasWriter
  <2>4. d # c
    BY <2>2, <2>3
  <2>5. child[d].state = "running"
    BY <2>3 DEF ExecInv, CallInv
  <2>. QED  BY <2>3, <2>4, <2>5
<1>. QED  BY <1>1, ExecInvariantHolds, PTL
================================================================================
