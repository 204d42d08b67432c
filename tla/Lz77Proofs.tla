------------------------------ MODULE Lz77Proofs ------------------------------
(***************************************************************************)
(* The tokens of lz77_compress stand for its input and are ones its        *)
(* callers accept, and find_match finds the longest match, for every       *)
(* input, window, limit and hash function.                                 *)
(***************************************************************************)
EXTENDS Lz77, WellFoundedInduction, TLAPS, SequenceTheorems

\* A set of naturals that has an element has a least one.
LEMMA LeastElement ==
    ASSUME NEW S, S \subseteq Nat, S # {}
    PROVE  \E m \in S : \A n \in S : m <= n
<1>1. PICK m \in S : \A n \in S : ~(<<n, m>> \in {ss \in Nat \X Nat : ss[1] < ss[2]})
  BY NatLessThanWellFounded, WFMin, Zenon DEF OpToRel
<1>2. \A n \in S : ~(n < m)
  BY <1>1
<1>. QED  BY <1>2

LEMMA TimesNat == ASSUME NEW d \in Nat, NEW q \in Nat PROVE d * q \in Nat
  OBVIOUS

\* Division with remainder.
LEMMA DivMod ==
    ASSUME NEW a \in Nat, NEW d \in Nat \ {0}
    PROVE  /\ a \div d \in Nat /\ a % d \in 0 .. d - 1
           /\ a = d * (a \div d) + (a % d)
  BY SMTT(30)

\* The remainder is the only one.
LEMMA RemainderUnique ==
    ASSUME NEW d \in Nat \ {0}, NEW q \in Int, NEW t \in Int,
           NEW r \in 0 .. d - 1, NEW u \in 0 .. d - 1, d * q + r = d * t + u
    PROVE  r = u
<1>1. d * q \in Int /\ d * t \in Int /\ d * (q - t) = d * q - d * t /\ d * (q - t) \in Int
  BY SMTT(30)
<1>2. CASE q - t >= 1
  <2>1. d * (q - t) >= d
    BY <1>2, SMTT(30)
  <2>. QED  BY <1>1, <2>1
<1>3. CASE t - q >= 1
  <2>1. d * (t - q) >= d
    BY <1>3, SMTT(30)
  <2>2. d * (t - q) = d * t - d * q
    BY SMTT(30)
  <2>. QED  BY <1>1, <2>1, <2>2
<1>4. CASE q = t
  BY <1>1, <1>4
<1>. QED  BY <1>2, <1>3, <1>4

\* Taking the divisor away once does not change the remainder.
LEMMA ModStep ==
    ASSUME NEW a \in Nat, NEW d \in Nat \ {0}
    PROVE  /\ a % d \in 0 .. d - 1
           /\ a < d => a % d = a
           /\ a >= d => a % d = (a - d) % d
<1>1. /\ a \div d \in Nat /\ a % d \in 0 .. d - 1 /\ d * (a \div d) \in Nat
      /\ a = d * (a \div d) + (a % d)
  BY DivMod, TimesNat, Zenon
<1>2. ASSUME a < d PROVE a % d = a
  <2>1. d * 0 = 0
    BY SMT
  <2>. QED  BY <1>1, <1>2, <2>1, RemainderUnique
<1>3. ASSUME a >= d PROVE a % d = (a - d) % d
  <2>1. a - d \in Nat
    BY <1>3
  <2>2. /\ (a - d) \div d \in Nat /\ (a - d) % d \in 0 .. d - 1
        /\ a - d = d * ((a - d) \div d) + ((a - d) % d)
    BY <2>1, DivMod
  <2>3. d * (((a - d) \div d) + 1) = d * ((a - d) \div d) + d
    BY <2>2, SMTT(30)
  <2>. DEFINE q == a \div d
              r == a % d
              t == (a - d) \div d
              u == (a - d) % d
  <2>4. d * t \in Nat
    BY <2>2, TimesNat, Zenon
  <2>5. d * q + r = d * (t + 1) + u
    <3> HIDE DEF q, r, t, u
    <3>1. a = d * q + r /\ a - d = d * t + u /\ d * (t + 1) = d * t + d
      BY <1>1, <2>2, <2>3 DEF q, r, t, u
    <3>2. d * q \in Nat /\ r \in Nat /\ u \in Nat /\ d * t \in Nat
      BY <1>1, <2>2, <2>4 DEF q, r, t, u
    <3>. QED  BY <3>1, <3>2
  <2>6. q \in Int /\ t + 1 \in Int /\ r \in 0 .. d - 1 /\ u \in 0 .. d - 1
    BY <1>1, <2>2
  <2> HIDE DEF q, r, t, u
  <2>7. r = u
    BY <2>5, <2>6, RemainderUnique
  <2>. QED  BY <2>7 DEF r, u
<1>. QED  BY <1>1, <1>2, <1>3

LEMMA InputFacts ==
    ASSUME NEW s \in Inputs
    PROVE  s \in Seq(Bytes) /\ Len(s) \in Nat
  BY Lz77Assumption DEF Inputs

\* The first n bytes of a sequence.
LEMMA Prefix ==
    ASSUME NEW S, NEW s \in Seq(S), NEW n \in 0 .. Len(s)
    PROVE  /\ SubSeq(s, 1, n) \in Seq(S) /\ Len(SubSeq(s, 1, n)) = n
           /\ \A k \in 1 .. n : SubSeq(s, 1, n)[k] = s[k]
<1>1. \A k \in 1 .. n : s[k] \in S
  BY ElementOfSeq
<1>. QED  BY <1>1, SubSeqProperties

\* One more byte of output.
LEMMA LitExtends ==
    ASSUME NEW S, NEW s \in Seq(S), NEW n \in 0 .. Len(s) - 1
    PROVE  Append(SubSeq(s, 1, n), s[n + 1]) = SubSeq(s, 1, n + 1)
<1> DEFINE t == Append(SubSeq(s, 1, n), s[n + 1])
           u == SubSeq(s, 1, n + 1)
<1>1. s[n + 1] \in S
  BY ElementOfSeq
<1>2. SubSeq(s, 1, n) \in Seq(S) /\ Len(SubSeq(s, 1, n)) = n
      /\ \A k \in 1 .. n : SubSeq(s, 1, n)[k] = s[k]
  BY Prefix
<1>3. u \in Seq(S) /\ Len(u) = n + 1 /\ \A k \in 1 .. n + 1 : u[k] = s[k]
  BY Prefix
<1>4. t \in Seq(S) /\ Len(t) = n + 1
  BY <1>1, <1>2
<1>5. \A k \in 1 .. n + 1 : t[k] = s[k]
  BY <1>1, <1>2
<1> HIDE DEF t, u
<1>6. t = u
  BY <1>3, <1>4, <1>5, SeqEqual
<1>. QED  BY <1>6 DEF t, u

\* A string that is repeated at a distance repeats with that period: taking
\* whole distances off a position in it does not change the byte.
LEMMA Periodic ==
    ASSUME NEW p \in Nat, NEW d \in Nat \ {0}, NEW l \in Nat, Same(p, p + d, l)
    PROVE  \A k \in 1 .. l : src[(p + d) + k] = src[p + 1 + ((k - 1) % d)]
<1> DEFINE Bad == {k \in 1 .. l : src[p + k] # src[p + 1 + ((k - 1) % d)]}
<1>0. \A k \in 1 .. l : src[p + k] = src[(p + d) + k]
  BY DEF Same
<1>1. Bad = {}
  <2> SUFFICES ASSUME Bad # {} PROVE FALSE
    OBVIOUS
  <2>1. PICK k \in Bad : \A n \in Bad : k <= n
    <3>1. Bad \subseteq Nat
      OBVIOUS
    <3> HIDE DEF Bad
    <3>. QED  BY <3>1, LeastElement
  <2>2. k \in 1 .. l /\ src[p + k] # src[p + 1 + ((k - 1) % d)]
    BY <2>1
  <2>3. k - 1 \in Nat
    BY <2>2
  <2>4. CASE k <= d
    <3>1. (k - 1) % d = k - 1
      <4> DEFINE a == k - 1
      <4>1. a \in Nat /\ a < d
        BY <2>2, <2>4
      <4> HIDE DEF a
      <4>2. a % d = a
        BY <4>1, ModStep, Zenon
      <4>. QED  BY <4>2 DEF a
    <3>2. p + 1 + (k - 1) = p + k
      BY <2>2
    <3>. QED  BY <3>1, <3>2, <2>2
  <2>5. CASE k > d
    <3>1. k - d \in 1 .. l /\ k - d < k
      BY <2>2, <2>5
    <3>2. k - d \notin Bad
      <4> SUFFICES ASSUME k - d \in Bad PROVE FALSE
        OBVIOUS
      <4>1. k <= k - d
        <5> HIDE DEF Bad
        <5>. QED  BY <2>1, Zenon
      <4>. QED  BY <2>2, <3>1, <4>1
    <3>3. src[p + (k - d)] = src[p + 1 + (((k - d) - 1) % d)]
      BY <3>1, <3>2
    <3>4. (k - 1) % d = ((k - 1) - d) % d
      <4> DEFINE a == k - 1
      <4>1. a \in Nat /\ a >= d
        BY <2>2, <2>5
      <4> HIDE DEF a
      <4>2. a % d = (a - d) % d
        BY <4>1, ModStep, Zenon
      <4>. QED  BY <4>2 DEF a
    <3>5. (k - 1) - d = (k - d) - 1 /\ (p + d) + (k - d) = p + k
      BY <2>2
    <3>6. src[p + (k - d)] = src[p + k]
      BY <1>0, <3>1, <3>5
    <3>. QED  BY <2>2, <3>3, <3>4, <3>5, <3>6
  <2>. QED  BY <2>2, <2>4, <2>5
<1>. QED  BY <1>0, <1>1

\* A back reference into a prefix of the input, at a place where the bytes that
\* follow the prefix also are: its copy extends the prefix by them, also when
\* it runs into itself.
LEMMA BackrefExtends ==
    ASSUME src \in Seq(Bytes), NEW n \in Nat, NEW p \in 0 .. n - 1, NEW l \in Nat,
           n + l <= src_len, Same(p, n, l)
    PROVE  SubSeq(src, 1, n) \o [k \in 1 .. l |-> SubSeq(src, 1, n)[n - (n - p) + 1 + ((k - 1) % (n - p))]]
               = SubSeq(src, 1, n + l)
<1> DEFINE d == n - p
           a == SubSeq(src, 1, n)
           c == [k \in 1 .. l |-> a[n - d + 1 + ((k - 1) % d)]]
           u == SubSeq(src, 1, n + l)
<1>0. n + l <= Len(src) /\ Len(src) \in Nat
  BY DEF src_len
<1>1. d \in Nat \ {0} /\ p + d = n /\ n - d = p /\ p \in Nat
  OBVIOUS
<1>2. a \in Seq(Bytes) /\ Len(a) = n /\ \A k \in 1 .. n : a[k] = src[k]
  BY Prefix, <1>0
<1>3. u \in Seq(Bytes) /\ Len(u) = n + l /\ \A k \in 1 .. n + l : u[k] = src[k]
  BY Prefix, <1>0
<1>4. ASSUME NEW k \in 1 .. l
      PROVE  a[n - d + 1 + ((k - 1) % d)] = src[n + k] /\ src[n + k] \in Bytes
  <2>1. src[n + k] = src[p + 1 + ((k - 1) % d)]
    <3> HIDE DEF d
    <3>1. Same(p, p + d, l)
      BY <1>1
    <3>2. \A m \in 1 .. l : src[(p + d) + m] = src[p + 1 + ((m - 1) % d)]
      BY <3>1, <1>1, Periodic, Zenon
    <3>. QED  BY <3>2, <1>1
  <2>2. p + 1 + ((k - 1) % d) \in 1 .. n
    <3>1. (k - 1) % d \in 0 .. d - 1
      <4> DEFINE b == k - 1
      <4>1. b \in Nat
        OBVIOUS
      <4> HIDE DEF b, d
      <4>2. b % d \in 0 .. d - 1
        BY <1>1, <4>1, ModStep, Zenon
      <4>. QED  BY <4>2 DEF b
    <3>. QED  BY <3>1, <1>1
  <2>3. src[n + k] \in Bytes
    BY ElementOfSeq, <1>0
  <2> HIDE DEF a, d
  <2>. QED  BY <2>1, <2>2, <2>3, <1>1, <1>2
<1>5. c \in Seq(Bytes) /\ Len(c) = l /\ \A k \in 1 .. l : c[k] = src[n + k]
  <2> HIDE DEF a, d
  <2>. QED  BY <1>4
<1> HIDE DEF a, d, c, u
<1>6. a \o c \in Seq(Bytes) /\ Len(a \o c) = n + l
      /\ \A k \in 1 .. n + l : (a \o c)[k] = IF k <= n THEN a[k] ELSE c[k - n]
  BY <1>2, <1>5, ConcatProperties, ZenonT(30)
<1>7. \A k \in 1 .. n + l : (a \o c)[k] = u[k]
  <2> TAKE k \in 1 .. n + l
  <2>1. CASE k <= n
    <3>1. k \in 1 .. n
      BY <2>1
    <3>2. (a \o c)[k] = a[k]
      BY <2>1, <1>6, Zenon
    <3>. QED  BY <3>1, <3>2, <1>2, <1>3, Zenon
  <2>2. CASE k > n
    <3>1. k - n \in 1 .. l /\ n + (k - n) = k
      BY <2>2
    <3>2. c[k - n] = src[n + (k - n)]
      BY <3>1, <1>5
    <3>. QED  BY <3>1, <3>2, <2>2, <1>3, <1>6, SMTT(30)
  <2>3. k <= n \/ k > n
    OBVIOUS
  <2>. QED  BY <2>1, <2>2, <2>3, Zenon
<1>8. a \o c = u
  BY <1>3, <1>6, <1>7, SeqEqual
<1>. QED  BY <1>8 DEF a, d, c, u

\* cmp finds how far two positions agree.
LEMMA CommonFacts ==
    ASSUME NEW p \in Nat, NEW max \in Nat, i \in Nat
    PROVE  /\ Common(p, max) \in 0 .. max
           /\ \A k \in 1 .. Common(p, max) : src[p + k] = src[i + k]
<1> DEFINE Agree(l) == /\ \A k \in 1 .. l : src[p + k] = src[i + k]
                       /\ l < max => src[p + l + 1] # src[i + l + 1]
           Differ == {k \in 0 .. max - 1 : src[p + k + 1] # src[i + k + 1]}
<1>1. \E l \in 0 .. max : Agree(l)
  <2>1. CASE Differ = {}
    <3>1. ASSUME NEW k \in 1 .. max PROVE src[p + k] = src[i + k]
      <4>1. k - 1 \in 0 .. max - 1 /\ p + (k - 1) + 1 = p + k /\ i + (k - 1) + 1 = i + k
        OBVIOUS
      <4>2. k - 1 \notin Differ
        <5> HIDE DEF Differ
        <5>. QED  BY <2>1
      <4>. QED  BY <4>1, <4>2
    <3>. QED  BY <3>1
  <2>2. CASE Differ # {}
    <3>1. PICK l \in Differ : \A n \in Differ : l <= n
      <4>1. Differ \subseteq Nat
        OBVIOUS
      <4> HIDE DEF Differ
      <4>. QED  BY <4>1, <2>2, LeastElement
    <3>2. ASSUME NEW k \in 1 .. l PROVE src[p + k] = src[i + k]
      <4>1. k - 1 \in 0 .. max - 1 /\ k - 1 \notin Differ
        BY <3>1
      <4>. QED  BY <4>1
    <3>. QED  BY <3>1, <3>2, SMTT(30)
  <2>. QED  BY <2>1, <2>2
<1>. QED  BY <1>1 DEF Common

--------------------------------------------------------------------------------
(***************************************************************************)
(* What the parts of a step do.                                            *)
(***************************************************************************)
LEMMA TypeFacts ==
    ASSUME TypeOK
    PROVE  /\ src \in Seq(Bytes) /\ src_len \in Nat /\ Len(src) = src_len
           /\ i \in 0 .. src_len /\ j \in 0 .. src_len
           /\ max_dist \in Nat \ {0} /\ max_len \in Nat
           /\ Len(dst) \in Nat
           /\ MIN_LEN \in Nat /\ MIN_LEN >= 2
  BY InputFacts, Lz77Assumption, WindowAssumption, LenProperties DEF TypeOK, Positions, src_len

LEMMA SlotType == ASSUME NEW p \in Nat PROVE Slot(p) \in 0 .. LZ_WND_SIZE - 1
  BY ModStep, Lz77Assumption, Zenon DEF Slot

LEMMA HashType ==
    ASSUME TypeOK, NEW p \in Nat, Hashable(p)
    PROVE  HashAt(p) \in HashValue
<1> DEFINE first == p + 1
           last == p + MIN_LEN
           t == SubSeq(src, first, last)
<1>1. last <= Len(src) /\ first \in Int /\ last \in Int /\ first >= 1 /\ src \in Seq(Bytes)
  BY TypeFacts DEF Hashable
<1>2. \A k \in first .. last : src[k] \in Bytes
  <2> HIDE DEF first, last
  <2>. QED  BY <1>1, ElementOfSeq
<1>3. t \in Seq(Bytes) /\ Len(t) = IF first <= last THEN last - first + 1 ELSE 0
  <2> HIDE DEF first, last
  <2>. QED  BY <1>1, <1>2, SubSeqProperties
<1> HIDE DEF t
<1>4. Len(t) = MIN_LEN
  BY <1>3, TypeFacts
<1>5. t \in [1 .. MIN_LEN -> Bytes]
  BY <1>3, <1>4, LenProperties
<1>. QED  BY <1>5, HashAssumption DEF HashAt, t

\* insert_hash puts the next position into the chains.
LEMMA InsertFacts ==
    ASSUME TypeOK, ChainsInv, Hashable(j), insert_hash(j), UNCHANGED src
    PROVE  /\ j' = j + 1 /\ j' \in Positions
           /\ head' \in [HashValue -> Positions \cup {NO_POS}]
           /\ prev' \in [0 .. LZ_WND_SIZE - 1 -> Positions \cup {NO_POS, JUNK}]
           /\ \A h \in HashValue : head'[h] \in (0 .. j' - 1) \cup {NO_POS}
           /\ \A p \in 0 .. j' - 1 : prev'[Slot(p)] \in (0 .. j' - 1) \cup {NO_POS}
           /\ cand \in (0 .. j' - 1) \cup {NO_POS}
<1>1. j' = j + 1 /\ j \in Nat /\ j \in Positions /\ j' \in Positions
  BY TypeFacts DEF insert_hash, Hashable, Positions
<1>2. HashAt(j) \in HashValue
  BY <1>1, HashType
<1>3. head[HashAt(j)] \in (0 .. j - 1) \cup {NO_POS}
  BY <1>2 DEF ChainsInv
<1>4. (0 .. j - 1) \cup {NO_POS} \subseteq (0 .. j' - 1) \cup {NO_POS} /\ j \in 0 .. j' - 1
  BY <1>1
<1>5. (0 .. j - 1) \subseteq Positions
  BY TypeFacts, <1>1 DEF Positions
<1>6. /\ head \in [HashValue -> Positions \cup {NO_POS}]
      /\ prev \in [0 .. LZ_WND_SIZE - 1 -> Positions \cup {NO_POS, JUNK}]
  BY DEF TypeOK
<1>7. /\ head' = [head EXCEPT ![HashAt(j)] = j]
      /\ prev' = [prev EXCEPT ![Slot(j)] = head[HashAt(j)]]
  BY DEF insert_hash
<1>8. \A h \in HashValue : head'[h] \in (0 .. j' - 1) \cup {NO_POS}
  BY <1>4, <1>6, <1>7 DEF ChainsInv
<1>9. ASSUME NEW p \in 0 .. j' - 1 PROVE prev'[Slot(p)] \in (0 .. j' - 1) \cup {NO_POS}
  <2>1. Slot(p) \in 0 .. LZ_WND_SIZE - 1 /\ Slot(j) \in 0 .. LZ_WND_SIZE - 1
    BY <1>1, SlotType
  <2>2. CASE Slot(p) = Slot(j)
    <3>1. prev'[Slot(p)] = head[HashAt(j)]
      BY <2>1, <2>2, <1>6, <1>7, Zenon
    <3>. QED  BY <3>1, <1>3, <1>4
  <2>3. CASE Slot(p) # Slot(j)
    <3>1. prev'[Slot(p)] = prev[Slot(p)]
      BY <2>1, <2>3, <1>6, <1>7, Zenon
    <3>2. p \in 0 .. j - 1
      <4>1. p # j
        BY <2>3
      <4>. QED  BY <4>1, <1>1
    <3>3. prev[Slot(p)] \in (0 .. j - 1) \cup {NO_POS}
      BY <3>2 DEF ChainsInv
    <3>. QED  BY <3>1, <3>3, <1>4
  <2>. QED  BY <2>2, <2>3
<1>10. head' \in [HashValue -> Positions \cup {NO_POS}]
  BY <1>1, <1>6, <1>7
<1>11. prev' \in [0 .. LZ_WND_SIZE - 1 -> Positions \cup {NO_POS, JUNK}]
  BY <1>3, <1>5, <1>6, <1>7
<1>12. cand \in (0 .. j' - 1) \cup {NO_POS}
  BY <1>4 DEF ChainsInv
<1>. QED  BY <1>1, <1>8, <1>9, <1>10, <1>11, <1>12

\* A literal extends the output by one byte of the input.
LEMMA LitFacts ==
    ASSUME TypeOK, Covered, NEW n \in Nat, n = Len(dst), n < src_len, OutputLit(n), UNCHANGED src
    PROVE  /\ dst' = SubSeq(src, 1, Len(dst')) /\ Len(dst') = n + 1
           /\ dst' \in Seq(Bytes)
<1>1. src \in Seq(Bytes) /\ n \in 0 .. Len(src) - 1 /\ n + 1 \in 0 .. Len(src)
  BY TypeFacts
<1>2. dst = SubSeq(src, 1, n)
  BY DEF Covered
<1>3. dst' = SubSeq(src, 1, n + 1)
  BY <1>1, <1>2, LitExtends DEF OutputLit
<1>. QED  BY <1>1, <1>3, Prefix

\* A back reference extends the output by the bytes of its match.
LEMMA BackrefFacts ==
    ASSUME TypeOK, Covered, NEW n \in Nat, n = Len(dst), NEW p, NEW l, MatchAt(n, p, l),
           OutputBackref(n - p, l), UNCHANGED src
    PROVE  /\ dst' = SubSeq(src, 1, Len(dst')) /\ Len(dst') = n + l
           /\ dst' \in Seq(Bytes)
           /\ backref' = [dist |-> n - p, len |-> l]
<1>1. src \in Seq(Bytes) /\ p \in 0 .. n - 1 /\ l \in Nat /\ n + l <= src_len /\ Same(p, n, l)
  BY TypeFacts DEF MatchAt
<1>2. dst = SubSeq(src, 1, n)
  BY DEF Covered
<1>3. dst' = SubSeq(src, 1, n + l)
  BY <1>1, <1>2, BackrefExtends DEF OutputBackref
<1>4. n + l \in 0 .. Len(src)
  BY <1>1, TypeFacts
<1>. QED  BY <1>1, <1>3, <1>4, Prefix DEF OutputBackref

--------------------------------------------------------------------------------
(***************************************************************************)
(* The invariant is inductive.                                             *)
(***************************************************************************)
LEMMA InitInv == Init => IInv
<1> SUFFICES ASSUME Init PROVE IInv
  OBVIOUS
<1>1. src \in Seq(Bytes) /\ Len(src) \in Nat
  BY InputFacts DEF Init
<1>2. i = 0 /\ j = 0 /\ pc = "loop" /\ dst = <<>> /\ prev_match_len = 0 /\ match_len = 0
  BY DEF Init
<1>3. dst \in Seq(Bytes) /\ Len(dst) = 0 /\ dst = SubSeq(src, 1, Len(dst))
  BY <1>1, <1>2, EmptySeq, SubSeqEmpty
<1>4. TypeOK
  BY <1>1, <1>3, Lz77Assumption DEF Init, TypeOK, Positions, src_len, NoBackref
<1>5. ChainsInv
  BY <1>1, Lz77Assumption DEF Init, ChainsInv
<1>. QED  BY <1>2, <1>3, <1>4, <1>5 DEF IInv, MatchesInv, Covered, BackrefsLegal, Init

\* Steps of find_match only move the candidate and the best match so far.
LEMMA FindInv ==
    ASSUME IInv, UNCHANGED <<args, i, chains, deferred, tokens>>,
           pc \in {"loop", "walk"}, pc' \in {"walk", "decide"}, Hashable(i),
           cand' \in (0 .. j - 1) \cup {NO_POS}, steps' \in 0 .. MAX_STEPS,
           match_len' \in Nat, match_pos' \in Positions \cup {NO_POS},
           match_len' # 0 => MatchAt(i, match_pos', match_len')
    PROVE  IInv'
<1> USE DEF args, chains, deferred, tokens
<1>1. TypeOK /\ ChainsInv /\ MatchesInv /\ Covered /\ BackrefsLegal
  BY DEF IInv
<1>2. cand' \in Positions \cup {NO_POS}
  BY <1>1, TypeFacts DEF Positions
<1>3. TypeOK'
  BY <1>1, <1>2 DEF TypeOK, Positions, src_len
<1>4. ChainsInv'
  BY <1>1 DEF ChainsInv, Hashable, src_len, Slot
<1>5. MatchesInv'
  BY <1>1 DEF MatchesInv, MatchAt, Same, src_len
<1>6. Covered'
  BY <1>1 DEF Covered
<1>7. BackrefsLegal'
  BY <1>1 DEF BackrefsLegal, NoBackref
<1>. QED  BY <1>3, <1>4, <1>5, <1>6, <1>7 DEF IInv

LEMMA StartFindInv == IInv /\ StartFind => IInv'
<1> SUFFICES ASSUME IInv, StartFind PROVE IInv'
  OBVIOUS
<1>1. TypeOK /\ ChainsInv
  BY DEF IInv
<1>2. /\ UNCHANGED <<args, i, chains, deferred, tokens>> /\ match_pos' = match_pos
      /\ pc = "loop" /\ pc' \in {"walk", "decide"} /\ Hashable(i) /\ match_len' = 0
  BY DEF StartFind
<1>3. cand' \in (0 .. j - 1) \cup {NO_POS}
  <2>1. HashAt(i) \in HashValue
    BY <1>1, <1>2, TypeFacts, HashType
  <2>. QED  BY <1>1, <2>1 DEF StartFind, ChainsInv
<1>4. steps' \in 0 .. MAX_STEPS
  BY <1>1, Lz77Assumption DEF StartFind, TypeOK
<1>5. match_pos' \in Positions \cup {NO_POS}
  BY <1>1, <1>2 DEF TypeOK
<1>. QED  BY <1>2, <1>3, <1>4, <1>5, FindInv

LEMMA NextCandFacts ==
    ASSUME IInv, InReach, NextCand
    PROVE  cand' \in (0 .. j - 1) \cup {NO_POS} /\ steps' \in 0 .. MAX_STEPS
<1>1. TypeOK /\ ChainsInv
  BY DEF IInv
<1>2. cand \in 0 .. j - 1
  BY <1>1 DEF ChainsInv, InReach
<1>3. steps \in 0 .. MAX_STEPS /\ steps > 0 /\ MAX_STEPS \in Nat
  BY <1>1, Lz77Assumption DEF TypeOK, InReach
<1>. QED  BY <1>1, <1>2, <1>3 DEF NextCand, ChainsInv

LEMMA WalkEndsInv == IInv /\ WalkEnds => IInv'
<1> SUFFICES ASSUME IInv, WalkEnds PROVE IInv'
  OBVIOUS
<1>1. TypeOK /\ ChainsInv /\ MatchesInv
  BY DEF IInv
<1>2. /\ UNCHANGED <<args, i, chains, deferred, tokens, find>>
      /\ pc = "walk" /\ pc' = "decide"
  BY DEF WalkEnds
<1>3. Hashable(i) /\ cand' \in (0 .. j - 1) \cup {NO_POS} /\ steps' \in 0 .. MAX_STEPS
      /\ match_len' \in Nat /\ match_pos' \in Positions \cup {NO_POS}
  BY <1>1, <1>2 DEF ChainsInv, TypeOK, find
<1>4. match_len' # 0 => MatchAt(i, match_pos', match_len')
  BY <1>1, <1>2 DEF MatchesInv, find
<1>. QED  BY <1>2, <1>3, <1>4, FindInv

LEMMA WalkPassesInv == IInv /\ WalkPasses => IInv'
<1> SUFFICES ASSUME IInv, WalkPasses PROVE IInv'
  OBVIOUS
<1>1. TypeOK /\ ChainsInv /\ MatchesInv
  BY DEF IInv
<1>2. /\ UNCHANGED <<args, i, chains, deferred, tokens, match_len, match_pos>>
      /\ pc = "walk" /\ pc' = pc
  BY DEF WalkPasses
<1>3. cand' \in (0 .. j - 1) \cup {NO_POS} /\ steps' \in 0 .. MAX_STEPS
  BY NextCandFacts DEF WalkPasses
<1>4. Hashable(i) /\ match_len' \in Nat /\ match_pos' \in Positions \cup {NO_POS}
  BY <1>1, <1>2 DEF ChainsInv, TypeOK
<1>5. match_len' # 0 => MatchAt(i, match_pos', match_len')
  BY <1>1, <1>2 DEF MatchesInv
<1>. QED  BY <1>2, <1>3, <1>4, <1>5, FindInv

\* What beats the deferred match and the best so far is a match.
LEMMA FoundIsMatch ==
    ASSUME IInv, pc = "walk", InReach, max_cmp(cand) > ToBeat,
           Common(cand, max_cmp(cand)) > ToBeat
    PROVE  MatchAt(i, cand, Common(cand, max_cmp(cand)))
<1> DEFINE max == max_cmp(cand)
           l == Common(cand, max)
<1>1. TypeOK /\ ChainsInv /\ MatchesInv
  BY DEF IInv
<1>2. /\ i \in Nat /\ i + MIN_LEN <= src_len /\ j = i /\ cand \in 0 .. i - 1
      /\ i - cand <= max_dist /\ src_len \in Nat /\ max_len \in Nat /\ MIN_LEN \in Nat
  BY <1>1, TypeFacts DEF ChainsInv, InReach, Hashable
<1>3. /\ max \in Nat /\ max <= max_len /\ i + max <= src_len
      /\ allow_overlap \/ max <= i - cand
  BY <1>2 DEF max_cmp, max_match_len, Lower
<1>4. ToBeat \in Nat /\ ToBeat >= MIN_LEN - 1
  <2>1. prev_match_len # 0 => prev_match_len \in Nat /\ prev_match_len >= MIN_LEN
    BY <1>1, <1>2 DEF MatchesInv, MatchAt
  <2>2. match_len # 0 => match_len \in Nat /\ match_len >= MIN_LEN
    BY <1>1, <1>2 DEF MatchesInv, MatchAt
  <2>. QED  BY <2>1, <2>2, TypeFacts, <1>1 DEF ToBeat, Need
<1>5. l \in 0 .. max /\ \A k \in 1 .. l : src[cand + k] = src[i + k]
  <2>1. cand \in Nat /\ max \in Nat /\ i \in Nat
    BY <1>2, <1>3
  <2> HIDE DEF max
  <2>. QED  BY <2>1, CommonFacts, Zenon
<1>6. l > ToBeat
  OBVIOUS
<1> HIDE DEF max, l
<1>7. l \in MIN_LEN .. max_len /\ i + l <= src_len /\ (allow_overlap \/ l <= i - cand)
  BY <1>2, <1>3, <1>4, <1>5, <1>6
<1>8. MatchAt(i, cand, l)
  BY <1>2, <1>5, <1>7 DEF MatchAt, Same
<1>. QED  BY <1>8 DEF max, l

LEMMA WalkFindsInv == IInv /\ WalkFinds => IInv'
<1> SUFFICES ASSUME IInv, WalkFinds PROVE IInv'
  OBVIOUS
<1> DEFINE l == Common(cand, max_cmp(cand))
<1>1. TypeOK /\ ChainsInv /\ MatchesInv
  BY DEF IInv
<1>2. /\ UNCHANGED <<args, i, chains, deferred, tokens>> /\ match_len' = l /\ match_pos' = cand
      /\ pc = "walk" /\ pc' \in {"walk", "decide"} /\ InReach
      /\ max_cmp(cand) > ToBeat /\ l > ToBeat
      /\ NextCand \/ UNCHANGED <<cand, steps>>
  BY DEF WalkFinds, Found
<1>3. MatchAt(i, match_pos', match_len')
  BY <1>2, FoundIsMatch
<1>4. match_len' \in Nat
  BY <1>1, <1>3, TypeFacts DEF MatchAt
<1>5. match_pos' \in Positions \cup {NO_POS} /\ Hashable(i)
  BY <1>1, <1>2 DEF TypeOK, ChainsInv
<1>6. cand' \in (0 .. j - 1) \cup {NO_POS} /\ steps' \in 0 .. MAX_STEPS
  <2>1. CASE NextCand
    BY <1>2, <2>1, NextCandFacts
  <2>2. CASE UNCHANGED <<cand, steps>>
    BY <1>1, <2>2 DEF TypeOK, ChainsInv
  <2>. QED  BY <1>2, <2>1, <2>2
<1> HIDE DEF l
<1>. QED  BY <1>2, <1>3, <1>4, <1>5, <1>6, FindInv

--------------------------------------------------------------------------------
\* Where the chains and the output are when the loop decides what to output.
LEMMA DecideFacts ==
    ASSUME IInv, pc = "decide"
    PROVE  /\ j = i /\ Hashable(j) /\ Hashable(i) /\ i \in Nat /\ i < src_len
           /\ Len(dst) = IF prev_match_len # 0 THEN i - 1 ELSE i
  BY TypeFacts, Lz77Assumption DEF IInv, ChainsInv, Hashable, Covered

LEMMA NoMatchInv == IInv /\ NoMatch => IInv'
<1> SUFFICES ASSUME IInv, NoMatch PROVE IInv'
  OBVIOUS
<1> USE DEF args, find, deferred
<1>1. TypeOK /\ ChainsInv /\ MatchesInv /\ Covered /\ BackrefsLegal
  BY DEF IInv
<1>2. /\ UNCHANGED <<args, find, deferred>> /\ backref' = backref
      /\ pc' = "loop" /\ i' = i + 1 /\ OutputLit(i) /\ insert_hash(j)
      /\ prev_match_len = 0 /\ match_len = 0
      /\ Len(dst) = i /\ j = i /\ Hashable(j) /\ i \in Nat /\ i < src_len
  BY DecideFacts DEF NoMatch, OutputLit
<1>3. /\ dst' = SubSeq(src, 1, Len(dst')) /\ Len(dst') = i + 1 /\ dst' \in Seq(Bytes)
  BY <1>1, <1>2, LitFacts
<1>4. /\ j' = j + 1 /\ j' \in Positions
      /\ head' \in [HashValue -> Positions \cup {NO_POS}]
      /\ prev' \in [0 .. LZ_WND_SIZE - 1 -> Positions \cup {NO_POS, JUNK}]
      /\ \A h \in HashValue : head'[h] \in (0 .. j' - 1) \cup {NO_POS}
      /\ \A p \in 0 .. j' - 1 : prev'[Slot(p)] \in (0 .. j' - 1) \cup {NO_POS}
      /\ cand \in (0 .. j' - 1) \cup {NO_POS}
  BY <1>1, <1>2, InsertFacts
<1>5. i' \in Positions
  BY <1>2, TypeFacts, <1>1 DEF Positions
<1>6. TypeOK'
  BY <1>1, <1>2, <1>3, <1>4, <1>5 DEF TypeOK, Positions, src_len
<1>7. ChainsInv'
  BY <1>2, <1>4 DEF ChainsInv, Slot
<1>8. MatchesInv'
  BY <1>1, <1>2 DEF MatchesInv
<1>9. Covered'
  BY <1>2, <1>3 DEF Covered
<1>10. BackrefsLegal'
  BY <1>1, <1>2, <1>3, TypeFacts DEF BackrefsLegal, TypeOK
<1>. QED  BY <1>6, <1>7, <1>8, <1>9, <1>10 DEF IInv

LEMMA DeferMatchInv == IInv /\ DeferMatch => IInv'
<1> SUFFICES ASSUME IInv, DeferMatch PROVE IInv'
  OBVIOUS
<1> USE DEF args, find
<1>1. TypeOK /\ ChainsInv /\ MatchesInv /\ Covered /\ BackrefsLegal
  BY DEF IInv
<1>2. /\ UNCHANGED <<args, find>> /\ backref' = backref
      /\ pc = "decide" /\ pc' = "loop" /\ i' = i + 1 /\ insert_hash(j)
      /\ prev_match_len' = match_len /\ prev_match_pos' = match_pos
      /\ match_len > prev_match_len
      /\ j = i /\ Hashable(j) /\ i \in Nat /\ i < src_len
      /\ IF prev_match_len # 0 THEN OutputLit(i - 1) ELSE UNCHANGED tokens
      /\ Len(dst) = IF prev_match_len # 0 THEN i - 1 ELSE i
  BY DecideFacts DEF DeferMatch, OutputLit, tokens
<1>3. /\ dst' = SubSeq(src, 1, Len(dst')) /\ Len(dst') = i /\ dst' \in Seq(Bytes)
  <2>1. CASE prev_match_len # 0
    <3>1. i - 1 \in Nat /\ i - 1 < src_len /\ i - 1 = Len(dst) /\ OutputLit(i - 1)
      BY <1>1, <1>2, <2>1, TypeFacts
    <3>2. /\ dst' = SubSeq(src, 1, Len(dst')) /\ Len(dst') = (i - 1) + 1
          /\ dst' \in Seq(Bytes)
      BY <1>1, <1>2, <3>1, LitFacts
    <3>. QED  BY <1>2, <3>2
  <2>2. CASE prev_match_len = 0
    BY <1>1, <1>2, <2>2 DEF Covered, tokens, TypeOK
  <2>. QED  BY <2>1, <2>2
<1>4. /\ j' = j + 1 /\ j' \in Positions
      /\ head' \in [HashValue -> Positions \cup {NO_POS}]
      /\ prev' \in [0 .. LZ_WND_SIZE - 1 -> Positions \cup {NO_POS, JUNK}]
      /\ \A h \in HashValue : head'[h] \in (0 .. j' - 1) \cup {NO_POS}
      /\ \A p \in 0 .. j' - 1 : prev'[Slot(p)] \in (0 .. j' - 1) \cup {NO_POS}
      /\ cand \in (0 .. j' - 1) \cup {NO_POS}
  BY <1>1, <1>2, InsertFacts
<1>5. i' \in Positions /\ match_len \in Nat /\ prev_match_len \in Nat
  BY <1>2, TypeFacts, <1>1 DEF Positions, TypeOK
<1>6. TypeOK'
  BY <1>1, <1>2, <1>3, <1>4, <1>5 DEF TypeOK, Positions, src_len
<1>7. ChainsInv'
  BY <1>2, <1>4 DEF ChainsInv, Slot
<1>8. MatchesInv'
  <2>1. match_len # 0 /\ MatchAt(i, match_pos, match_len)
    BY <1>1, <1>2, <1>5 DEF MatchesInv
  <2>2. i' - 1 = i
    BY <1>2
  <2>. QED  BY <1>2, <2>1, <2>2 DEF MatchesInv, MatchAt, Same, src_len
<1>9. Covered'
  <2>1. prev_match_len' # 0
    BY <1>2, <1>5
  <2>. QED  BY <1>2, <1>3, <2>1 DEF Covered
<1>10. BackrefsLegal'
  BY <1>1, <1>2, <1>3, TypeFacts DEF BackrefsLegal, TypeOK
<1>. QED  BY <1>6, <1>7, <1>8, <1>9, <1>10 DEF IInv

\* The back reference of the deferred match ends where its match does.
LEMMA DeferredFacts ==
    ASSUME IInv, pc # "failed", prev_match_len # 0, UNCHANGED args,
           OutputBackref((i - 1) - prev_match_pos, prev_match_len)
    PROVE  /\ dst' = SubSeq(src, 1, Len(dst')) /\ Len(dst') = (i - 1) + prev_match_len
           /\ dst' \in Seq(Bytes) /\ backref' \in [dist : Nat, len : Nat]
           /\ (i - 1) + prev_match_len \in Positions
           /\ BackrefsLegal'
           /\ prev_match_len \in Nat /\ prev_match_len >= MIN_LEN
<1> USE DEF args
<1>1. TypeOK /\ MatchesInv /\ Covered
  BY DEF IInv
<1>2. MatchAt(i - 1, prev_match_pos, prev_match_len)
  BY <1>1 DEF MatchesInv
<1>3. i - 1 \in Nat /\ i - 1 = Len(dst)
  BY <1>1, <1>2, TypeFacts DEF Covered, MatchAt
<1>4. /\ dst' = SubSeq(src, 1, Len(dst')) /\ Len(dst') = (i - 1) + prev_match_len
      /\ dst' \in Seq(Bytes)
      /\ backref' = [dist |-> (i - 1) - prev_match_pos, len |-> prev_match_len]
  <2> DEFINE n == i - 1
  <2>1. n \in Nat /\ n = Len(dst) /\ MatchAt(n, prev_match_pos, prev_match_len)
        /\ OutputBackref(n - prev_match_pos, prev_match_len)
    BY <1>2, <1>3
  <2> HIDE DEF n
  <2>2. /\ dst' = SubSeq(src, 1, Len(dst')) /\ Len(dst') = n + prev_match_len
        /\ dst' \in Seq(Bytes)
        /\ backref' = [dist |-> n - prev_match_pos, len |-> prev_match_len]
    BY <1>1, <2>1, BackrefFacts
  <2>. QED  BY <2>2 DEF n
<1>5. /\ prev_match_pos \in 0 .. (i - 1) - 1 /\ (i - 1) - prev_match_pos <= max_dist
      /\ prev_match_len \in MIN_LEN .. max_len /\ (i - 1) + prev_match_len <= src_len
      /\ allow_overlap \/ prev_match_len <= (i - 1) - prev_match_pos
  BY <1>2 DEF MatchAt
<1>6. (i - 1) + prev_match_len \in Positions /\ prev_match_len \in Nat
      /\ prev_match_len >= MIN_LEN /\ (i - 1) - prev_match_pos \in 1 .. max_dist
  BY <1>1, <1>3, <1>5, TypeFacts, SMTT(30) DEF Positions
<1>7. backref'.dist = (i - 1) - prev_match_pos /\ backref'.len = prev_match_len
      /\ backref' \in [dist : Nat, len : Nat]
  BY <1>4, <1>6
<1>8. BackrefsLegal'
  <2>1. backref'.dist \in 1 .. max_dist /\ backref'.len \in MIN_LEN .. max_len
    BY <1>5, <1>6, <1>7
  <2>2. backref'.dist <= Len(dst') - backref'.len
    <3>1. (i - 1) - prev_match_pos <= ((i - 1) + prev_match_len) - prev_match_len
      BY <1>3, <1>5, <1>6
    <3>. QED  BY <3>1, <1>4, <1>7
  <2>3. allow_overlap \/ backref'.len <= backref'.dist
    BY <1>5, <1>7
  <2>. QED  BY <2>1, <2>2, <2>3 DEF BackrefsLegal
<1>. QED  BY <1>4, <1>6, <1>7, <1>8

LEMMA UsePreviousInv == IInv /\ UsePrevious => IInv'
<1> SUFFICES ASSUME IInv, UsePrevious PROVE IInv'
  OBVIOUS
<1>1. TypeOK /\ ChainsInv
  BY DEF IInv
<1>2. /\ UNCHANGED <<args, find, prev_match_pos>> /\ UNCHANGED src /\ cand' = cand
      /\ pc = "decide" /\ pc' = "skip" /\ i' = (i - 1) + prev_match_len
      /\ insert_hash(j) /\ prev_match_len' = 0 /\ prev_match_len # 0
      /\ j = i /\ Hashable(j) /\ i \in Nat
      /\ OutputBackref((i - 1) - prev_match_pos, prev_match_len)
  BY DecideFacts DEF UsePrevious, args, find
<1>3. /\ dst' = SubSeq(src, 1, Len(dst')) /\ Len(dst') = (i - 1) + prev_match_len
      /\ dst' \in Seq(Bytes) /\ backref' \in [dist : Nat, len : Nat]
      /\ (i - 1) + prev_match_len \in Positions
      /\ BackrefsLegal'
      /\ prev_match_len \in Nat /\ prev_match_len >= MIN_LEN
  BY <1>2, DeferredFacts
<1>4. /\ j' = j + 1 /\ j' \in Positions
      /\ head' \in [HashValue -> Positions \cup {NO_POS}]
      /\ prev' \in [0 .. LZ_WND_SIZE - 1 -> Positions \cup {NO_POS, JUNK}]
      /\ \A h \in HashValue : head'[h] \in (0 .. j' - 1) \cup {NO_POS}
      /\ \A p \in 0 .. j' - 1 : prev'[Slot(p)] \in (0 .. j' - 1) \cup {NO_POS}
      /\ cand \in (0 .. j' - 1) \cup {NO_POS}
  BY <1>1, <1>2, InsertFacts
<1>5. i' \in Positions /\ i' \in Nat /\ j' <= i'
  BY <1>1, <1>2, <1>3, <1>4, TypeFacts DEF Positions
<1>6. TypeOK'
  BY <1>1, <1>2, <1>3, <1>4, <1>5 DEF TypeOK, Positions, src_len, args, find
<1>7. ChainsInv'
  BY <1>2, <1>4, <1>5 DEF ChainsInv, Slot
<1>8. MatchesInv'
  BY <1>2 DEF MatchesInv
<1>9. Covered'
  BY <1>2, <1>3 DEF Covered, args
<1>. QED  BY <1>3, <1>6, <1>7, <1>8, <1>9 DEF IInv

LEMMA InsertSkippedInv == IInv /\ InsertSkipped => IInv'
<1> SUFFICES ASSUME IInv, InsertSkipped PROVE IInv'
  OBVIOUS
<1> USE DEF args, find, deferred, tokens
<1>1. TypeOK /\ ChainsInv /\ MatchesInv /\ Covered /\ BackrefsLegal
  BY DEF IInv
<1>2. /\ UNCHANGED <<args, i, find, deferred, tokens>> /\ pc = "skip" /\ prev_match_len = 0
      /\ i \in 0 .. src_len /\ j \in 0 .. src_len /\ src_len \in Nat /\ MIN_LEN \in Nat
  BY <1>1, TypeFacts DEF InsertSkipped, MatchesInv
<1>3. CASE j < Lower(i, src_len - (MIN_LEN - 1))
  <2>1. insert_hash(j) /\ pc' = pc /\ Hashable(j) /\ j + 1 <= i
    BY <1>2, <1>3 DEF InsertSkipped, Hashable, Lower
  <2>2. /\ j' = j + 1 /\ j' \in Positions
        /\ head' \in [HashValue -> Positions \cup {NO_POS}]
        /\ prev' \in [0 .. LZ_WND_SIZE - 1 -> Positions \cup {NO_POS, JUNK}]
        /\ \A h \in HashValue : head'[h] \in (0 .. j' - 1) \cup {NO_POS}
        /\ \A p \in 0 .. j' - 1 : prev'[Slot(p)] \in (0 .. j' - 1) \cup {NO_POS}
        /\ cand \in (0 .. j' - 1) \cup {NO_POS}
    BY <1>1, <1>2, <2>1, InsertFacts
  <2>3. TypeOK'
    BY <1>1, <1>2, <2>1, <2>2 DEF TypeOK, Positions, src_len
  <2>4. ChainsInv'
    BY <1>2, <2>1, <2>2 DEF ChainsInv, Slot
  <2>5. MatchesInv' /\ Covered' /\ BackrefsLegal'
    BY <1>1, <1>2, <2>1 DEF MatchesInv, Covered, BackrefsLegal, NoBackref
  <2>. QED  BY <2>3, <2>4, <2>5 DEF IInv
<1>4. CASE ~(j < Lower(i, src_len - (MIN_LEN - 1)))
  <2>1. pc' = "loop" /\ UNCHANGED chains
    BY <1>4 DEF InsertSkipped
  <2>2. Hashable(i) => j = i
    BY <1>1, <1>2, <1>4 DEF Hashable, Lower, ChainsInv
  <2>3. TypeOK'
    BY <1>1, <1>2, <2>1 DEF TypeOK, Positions, src_len, chains
  <2>4. ChainsInv'
    BY <1>1, <1>2, <2>1, <2>2 DEF ChainsInv, Slot, chains, Hashable, src_len
  <2>5. MatchesInv' /\ Covered' /\ BackrefsLegal'
    BY <1>1, <1>2, <2>1 DEF MatchesInv, Covered, BackrefsLegal, NoBackref
  <2>. QED  BY <2>3, <2>4, <2>5 DEF IInv
<1>. QED  BY <1>3, <1>4

LEMMA LoopEndsInv == IInv /\ LoopEnds => IInv'
<1> SUFFICES ASSUME IInv, LoopEnds PROVE IInv'
  OBVIOUS
<1> USE DEF args, find, chains
<1>1. TypeOK /\ ChainsInv /\ MatchesInv /\ Covered /\ BackrefsLegal
  BY DEF IInv
<1>2. /\ UNCHANGED <<args, find, chains, prev_match_pos>>
      /\ pc = "loop" /\ pc' = "rest" /\ prev_match_len' = 0
  BY DEF LoopEnds
<1>3. CASE prev_match_len = 0
  <2>1. UNCHANGED <<i, dst, backref>>
    BY <1>3 DEF LoopEnds, tokens
  <2>2. TypeOK'
    BY <1>1, <1>2, <2>1 DEF TypeOK, Positions, src_len
  <2>3. ChainsInv'
    BY <1>1, <1>2, <2>1 DEF ChainsInv, Slot
  <2>4. MatchesInv' /\ Covered' /\ BackrefsLegal'
    BY <1>1, <1>2, <1>3, <2>1 DEF MatchesInv, Covered, BackrefsLegal, NoBackref
  <2>. QED  BY <2>2, <2>3, <2>4 DEF IInv
<1>4. CASE prev_match_len # 0
  <2>1. /\ OutputBackref((i - 1) - prev_match_pos, prev_match_len)
        /\ i' = (i - 1) + prev_match_len
    BY <1>4 DEF LoopEnds
  <2>2. /\ dst' = SubSeq(src, 1, Len(dst')) /\ Len(dst') = (i - 1) + prev_match_len
        /\ dst' \in Seq(Bytes) /\ backref' \in [dist : Nat, len : Nat]
        /\ (i - 1) + prev_match_len \in Positions
        /\ BackrefsLegal'
        /\ prev_match_len \in Nat /\ prev_match_len >= MIN_LEN
    BY <1>2, <1>4, <2>1, DeferredFacts
  <2>3. TypeOK'
    BY <1>1, <1>2, <2>1, <2>2 DEF TypeOK, Positions, src_len
  <2>4. j' <= i'
    BY <1>1, <1>2, <2>1, <2>2, TypeFacts, SMTT(30) DEF ChainsInv
  <2>5. ChainsInv'
    BY <1>1, <1>2, <2>4 DEF ChainsInv, Slot
  <2>6. MatchesInv' /\ Covered'
    BY <1>2, <2>1, <2>2 DEF MatchesInv, Covered
  <2>. QED  BY <2>2, <2>3, <2>5, <2>6 DEF IInv
<1>. QED  BY <1>3, <1>4

LEMMA RestInv == IInv /\ Rest => IInv'
<1> SUFFICES ASSUME IInv, Rest PROVE IInv'
  OBVIOUS
<1> USE DEF args, find, chains, deferred
<1>1. TypeOK /\ ChainsInv /\ MatchesInv /\ Covered /\ BackrefsLegal
  BY DEF IInv
<1>2. /\ UNCHANGED <<args, find, chains, deferred>> /\ pc = "rest" /\ prev_match_len = 0
      /\ Len(dst) = i /\ i \in 0 .. src_len /\ src_len \in Nat /\ src_len = Len(src)
      /\ j <= i /\ j \in 0 .. src_len /\ src \in Seq(Bytes)
  BY <1>1, TypeFacts DEF Rest, MatchesInv, Covered, ChainsInv
<1>3. CASE i < src_len
  <2>1. OutputLit(i) /\ i' = i + 1 /\ pc' = pc /\ backref' = backref
    BY <1>3 DEF Rest, OutputLit
  <2>2. dst' = SubSeq(src, 1, Len(dst')) /\ Len(dst') = i + 1 /\ dst' \in Seq(Bytes)
    BY <1>1, <1>2, <1>3, <2>1, LitFacts
  <2>3. i' \in Positions
    BY <1>2, <1>3, <2>1 DEF Positions
  <2>4. TypeOK'
    BY <1>1, <1>2, <2>1, <2>2, <2>3 DEF TypeOK, Positions, src_len
  <2>5. ChainsInv'
    BY <1>1, <1>2, <2>1 DEF ChainsInv, Slot
  <2>6. MatchesInv' /\ Covered'
    BY <1>2, <2>1, <2>2 DEF MatchesInv, Covered
  <2>7. BackrefsLegal'
    BY <1>1, <1>2, <2>1, <2>2 DEF BackrefsLegal, TypeOK
  <2>. QED  BY <2>4, <2>5, <2>6, <2>7 DEF IInv
<1>4. CASE ~(i < src_len)
  <2>1. pc' = "done" /\ UNCHANGED <<i, dst, backref>>
    BY <1>4 DEF Rest, tokens
  <2>2. dst = src
    <3>1. Len(dst) = Len(src)
      BY <1>2, <1>4
    <3>. QED  BY <1>1, <1>2, <3>1, SubSeqFull DEF Covered
  <2>3. TypeOK'
    BY <1>1, <1>2, <2>1 DEF TypeOK, Positions, src_len
  <2>4. ChainsInv'
    BY <1>1, <1>2, <2>1 DEF ChainsInv, Slot
  <2>5. MatchesInv' /\ Covered' /\ BackrefsLegal'
    BY <1>1, <1>2, <2>1, <2>2 DEF MatchesInv, Covered, BackrefsLegal, NoBackref
  <2>. QED  BY <2>3, <2>4, <2>5 DEF IInv
<1>. QED  BY <1>3, <1>4

\* Nothing changes but that the function has returned.
LEMMA CallbackFailsInv == IInv /\ CallbackFails => IInv'
<1> SUFFICES ASSUME IInv, CallbackFails PROVE IInv'
  OBVIOUS
<1> USE DEF args, find, chains, deferred, tokens
<1>1. TypeOK /\ ChainsInv /\ MatchesInv /\ Covered /\ BackrefsLegal
  BY DEF IInv
<1>2. UNCHANGED <<args, i, find, chains, deferred, tokens>> /\ pc' = "failed"
  BY DEF CallbackFails
<1>3. TypeOK'
  BY <1>1, <1>2 DEF TypeOK, Positions, src_len
<1>4. ChainsInv'
  BY <1>1, <1>2 DEF ChainsInv, Slot
<1>5. MatchesInv'
  BY <1>1, <1>2 DEF MatchesInv, MatchAt, Same, src_len
<1>6. Covered' /\ BackrefsLegal'
  BY <1>1, <1>2 DEF Covered, BackrefsLegal, NoBackref
<1>. QED  BY <1>3, <1>4, <1>5, <1>6 DEF IInv

LEMMA StutterInv == IInv /\ UNCHANGED vars => IInv'
<1> SUFFICES ASSUME IInv, UNCHANGED vars PROVE IInv'
  OBVIOUS
<1> USE DEF vars, args, find, chains, deferred, tokens
<1>1. TypeOK /\ ChainsInv /\ MatchesInv /\ Covered /\ BackrefsLegal
  BY DEF IInv
<1>2. TypeOK'
  BY <1>1 DEF TypeOK, Positions, src_len
<1>3. ChainsInv'
  BY <1>1 DEF ChainsInv, Slot, Hashable, src_len
<1>4. MatchesInv'
  BY <1>1 DEF MatchesInv, MatchAt, Same, src_len
<1>5. Covered' /\ BackrefsLegal'
  BY <1>1 DEF Covered, BackrefsLegal, NoBackref
<1>. QED  BY <1>2, <1>3, <1>4, <1>5 DEF IInv

LEMMA NextInv == IInv /\ [Next]_vars => IInv'
<1> SUFFICES ASSUME IInv, [Next]_vars PROVE IInv'
  OBVIOUS
<1>1. CASE StartFind  BY <1>1, StartFindInv
<1>2. CASE WalkEnds  BY <1>2, WalkEndsInv
<1>3. CASE WalkPasses  BY <1>3, WalkPassesInv
<1>4. CASE WalkFinds  BY <1>4, WalkFindsInv
<1>5. CASE UsePrevious  BY <1>5, UsePreviousInv
<1>6. CASE InsertSkipped  BY <1>6, InsertSkippedInv
<1>7. CASE NoMatch  BY <1>7, NoMatchInv
<1>8. CASE DeferMatch  BY <1>8, DeferMatchInv
<1>9. CASE LoopEnds  BY <1>9, LoopEndsInv
<1>10. CASE Rest  BY <1>10, RestInv
<1>11. CASE CallbackFails  BY <1>11, CallbackFailsInv
<1>12. CASE UNCHANGED vars  BY <1>12, StutterInv
<1>. QED
  BY <1>1, <1>2, <1>3, <1>4, <1>5, <1>6, <1>7, <1>8, <1>9, <1>10, <1>11, <1>12 DEF Next

--------------------------------------------------------------------------------
(***************************************************************************)
(* The chains are exact.  The operators with an argument for the input say *)
(* the same of it as those of Lz77 say of src.                             *)
(***************************************************************************)
Earlier(s, p, h) == {q \in 0 .. p - 1 : hash4(SubSeq(s, q + 1, q + MIN_LEN)) = h}

Last(S) == IF S = {} THEN NO_POS ELSE CHOOSE q \in S : \A r \in S : r <= q

\* The heads of the chains of the positions below n, and the slots of the ring.
HeadsExact(s, hd, n) == \A h \in HashValue : hd[h] = Last(Earlier(s, n, h))

SlotsExact(s, pv, n) ==
    \A p \in 0 .. n - 1 :
        p >= n - LZ_WND_SIZE =>
            pv[Slot(p)] = Last(Earlier(s, p, hash4(SubSeq(s, p + 1, p + MIN_LEN))))

Exact == HeadsExact(src, head, j) /\ SlotsExact(src, prev, j)

LEMMA BeforeIsLast ==
    ASSUME NEW p, NEW h PROVE Before(p, h) = Last(Earlier(src, p, h))
  BY Zenon DEF Before, Last, Earlier, HashAt

LEMMA ExactIs ==
    Exact <=> /\ \A h \in HashValue : head[h] = Before(j, h)
              /\ \A p \in 0 .. j - 1 :
                    p >= j - LZ_WND_SIZE => prev[Slot(p)] = Before(p, HashAt(p))
  BY BeforeIsLast DEF Exact, HeadsExact, SlotsExact, HashAt

LEMMA ExactIsPrimed ==
    Exact' <=> /\ \A h \in HashValue : head'[h] = Before(j, h)'
               /\ \A p \in 0 .. j' - 1 :
                     p >= j' - LZ_WND_SIZE => prev'[Slot(p)] = Before(p, HashAt(p))'
<1>1. ASSUME NEW h PROVE Before(j, h)' = Last(Earlier(src', j', h))
  BY Zenon DEF Before, Last, Earlier, HashAt
<1>2. ASSUME NEW p PROVE Before(p, HashAt(p))' = Last(Earlier(src', p, hash4(SubSeq(src', p + 1, p + MIN_LEN))))
  BY Zenon DEF Before, Last, Earlier, HashAt
<1>. QED  BY <1>1, <1>2 DEF Exact, HeadsExact, SlotsExact, Slot

\* The last of a set of positions is one of them.
LEMMA LastFacts ==
    ASSUME NEW n \in Nat, NEW S, S \subseteq 0 .. n - 1
    PROVE  /\ S = {} => Last(S) = NO_POS
           /\ S # {} => Last(S) \in S /\ \A r \in S : r <= Last(S)
<1>1. ASSUME S # {} PROVE \E q \in S : \A r \in S : r <= q
  <2> DEFINE T == {n - q : q \in S}
  <2>1. T \subseteq Nat /\ T # {}
    BY <1>1
  <2>2. PICK t \in T : \A u \in T : t <= u
    <3> HIDE DEF T
    <3>. QED  BY <2>1, LeastElement
  <2>3. PICK q \in S : t = n - q
    BY <2>2
  <2>4. ASSUME NEW r \in S PROVE r <= q
    <3>1. n - r \in T
      OBVIOUS
    <3>2. t <= n - r
      <4> HIDE DEF T
      <4>. QED  BY <2>2, <3>1
    <3>3. r \in Int /\ q \in Int
      OBVIOUS
    <3>. QED  BY <2>3, <3>2, <3>3
  <2>. QED  BY <2>4
<1>. QED  BY <1>1 DEF Last

\* Positions less than the window apart have slots of their own.
LEMMA SlotsApart ==
    ASSUME NEW p \in Nat, NEW q \in Nat, p < q, q - p < LZ_WND_SIZE
    PROVE  Slot(p) # Slot(q)
<1> DEFINE d == LZ_WND_SIZE
           a == p \div d
           b == q \div d
           r == p % d
<1>1. d \in Nat \ {0}
  BY Lz77Assumption
<1>2. a \in Nat /\ r \in 0 .. d - 1 /\ p = d * a + r
  BY <1>1, DivMod, Zenon
<1>3. b \in Nat /\ q % d \in 0 .. d - 1 /\ q = d * b + (q % d)
  BY <1>1, DivMod, Zenon
<1>4. ASSUME q % d = r PROVE FALSE
  <2>1. q = d * b + r
    BY <1>3, <1>4
  <2>2. d * a \in Nat /\ d * b \in Nat
    BY <1>1, <1>2, <1>3, TimesNat, Zenon
  <2>3. d * b + 0 = d * a + (q - p)
    <3> DEFINE x == d * a
               y == d * b
    <3>1. x \in Nat /\ y \in Nat /\ p = x + r /\ q = y + r /\ r \in Nat
      BY <1>2, <2>1, <2>2
    <3> HIDE DEF x, y, r
    <3>2. y + 0 = x + (q - p)
      BY <3>1
    <3>. QED  BY <3>2 DEF x, y
  <2>4. a \in Int /\ b \in Int /\ q - p \in 0 .. d - 1 /\ 0 \in 0 .. d - 1
    BY <1>1, <1>2, <1>3
  <2>5. 0 = q - p
    <3> DEFINE e == q - p
    <3>1. d * b + 0 = d * a + e /\ e \in 0 .. d - 1
      BY <2>3, <2>4
    <3> HIDE DEF a, b, d, e
    <3>2. 0 = e
      BY <1>1, <2>4, <3>1, RemainderUnique, Zenon
    <3>. QED  BY <3>2 DEF e
  <2>. QED  BY <2>5
<1>. QED  BY <1>4 DEF Slot

\* insert_hash puts position n in front of the chain of its hash: n is the last
\* position with that hash, and no slot in reach is lost.
LEMMA InsertExact ==
    ASSUME NEW s, NEW hd, NEW pv, NEW n \in Nat, NEW h0 \in HashValue,
           h0 = hash4(SubSeq(s, n + 1, n + MIN_LEN)),
           DOMAIN hd = HashValue, DOMAIN pv = 0 .. LZ_WND_SIZE - 1,
           HeadsExact(s, hd, n), SlotsExact(s, pv, n)
    PROVE  /\ HeadsExact(s, [hd EXCEPT ![h0] = n], n + 1)
           /\ SlotsExact(s, [pv EXCEPT ![Slot(n)] = hd[h0]], n + 1)
<1> DEFINE hd2 == [hd EXCEPT ![h0] = n]
           pv2 == [pv EXCEPT ![Slot(n)] = hd[h0]]
<1>1. ASSUME NEW h \in HashValue PROVE hd2[h] = Last(Earlier(s, n + 1, h))
  <2> DEFINE E == Earlier(s, n + 1, h)
  <2>1. CASE h = h0
    <3>1. n \in E /\ E \subseteq 0 .. (n + 1) - 1 /\ n + 1 \in Nat
      BY <2>1 DEF Earlier
    <3>2. Last(E) \in E /\ n <= Last(E)
      <4> HIDE DEF E
      <4>. QED  BY <3>1, LastFacts
    <3>3. Last(E) \in 0 .. n
      <4>1. E \subseteq 0 .. n
        BY DEF Earlier
      <4> HIDE DEF E
      <4>. QED  BY <3>2, <4>1
    <3>4. Last(E) = n
      <4> HIDE DEF E
      <4>. QED  BY <3>2, <3>3
    <3>. QED  BY <2>1, <3>4
  <2>2. CASE h # h0
    <3>1. E = Earlier(s, n, h)
      <4>1. ASSUME NEW q PROVE q \in E <=> q \in Earlier(s, n, h)
        <5>1. q = n => q \notin E
          BY <2>2 DEF Earlier
        <5>2. q \in 0 .. (n + 1) - 1 /\ q # n <=> q \in 0 .. n - 1
          OBVIOUS
        <5>. QED  BY <5>1, <5>2 DEF Earlier
      <4>. QED  BY <4>1
    <3>2. hd2[h] = hd[h]
      BY <2>2
    <3>. QED  BY <3>1, <3>2 DEF HeadsExact
  <2>. QED  BY <2>1, <2>2
<1>2. ASSUME NEW p \in 0 .. (n + 1) - 1, p >= (n + 1) - LZ_WND_SIZE
      PROVE  pv2[Slot(p)] = Last(Earlier(s, p, hash4(SubSeq(s, p + 1, p + MIN_LEN))))
  <2>1. Slot(p) \in 0 .. LZ_WND_SIZE - 1 /\ Slot(n) \in 0 .. LZ_WND_SIZE - 1 /\ p \in Nat
    BY SlotType, SMTT(30)
  <2>2. CASE p = n
    <3>1. pv2[Slot(p)] = hd[h0]
      BY <2>1, <2>2
    <3>. QED  BY <2>2, <3>1 DEF HeadsExact
  <2>3. CASE p # n
    <3>1. p < n /\ n - p < LZ_WND_SIZE /\ p \in 0 .. n - 1 /\ p >= n - LZ_WND_SIZE
      <4> DEFINE d == LZ_WND_SIZE
      <4>1. d \in Nat /\ p >= (n + 1) - d
        BY <1>2, Lz77Assumption
      <4> HIDE DEF d
      <4>2. p < n /\ n - p < d /\ p \in 0 .. n - 1 /\ p >= n - d
        BY <2>3, <4>1
      <4>. QED  BY <4>2 DEF d
    <3>2. Slot(p) # Slot(n)
      BY <2>1, <3>1, SlotsApart
    <3>3. pv2[Slot(p)] = pv[Slot(p)]
      BY <2>1, <3>2, Zenon
    <3>. QED  BY <3>1, <3>3 DEF SlotsExact
  <2>. QED  BY <2>2, <2>3
<1>. QED  BY <1>1, <1>2 DEF HeadsExact, SlotsExact

LEMMA InsertKeepsExact ==
    ASSUME TypeOK, Exact, Hashable(j), insert_hash(j), UNCHANGED src
    PROVE  Exact'
<1>1. j \in Nat /\ HashAt(j) \in HashValue
  BY TypeFacts, HashType
<1>2. /\ head' = [head EXCEPT ![HashAt(j)] = j]
      /\ prev' = [prev EXCEPT ![Slot(j)] = head[HashAt(j)]]
      /\ j' = j + 1
  BY DEF insert_hash
<1>3. DOMAIN head = HashValue /\ DOMAIN prev = 0 .. LZ_WND_SIZE - 1
  BY DEF TypeOK
<1>4. HashAt(j) = hash4(SubSeq(src, j + 1, j + MIN_LEN))
  BY DEF HashAt
<1>5. HeadsExact(src, head', j + 1) /\ SlotsExact(src, prev', j + 1)
  <2> DEFINE h == HashAt(j)
  <2>1. h \in HashValue /\ h = hash4(SubSeq(src, j + 1, j + MIN_LEN))
    BY <1>1, <1>4
  <2>2. /\ HeadsExact(src, [head EXCEPT ![h] = j], j + 1)
        /\ SlotsExact(src, [prev EXCEPT ![Slot(j)] = head[h]], j + 1)
    <3> HIDE DEF h
    <3>. QED  BY <1>1, <1>3, <2>1, InsertExact DEF Exact
  <2>. QED  BY <1>2, <2>2
<1>. QED  BY <1>2, <1>5 DEF Exact

\* All positions before i that can be hashed are in the chains when the loop
\* looks for a match.
JoinInv == pc \in {"loop", "walk", "decide"} =>
               j = Lower(i, src_len - (MIN_LEN - 1)) \/ i = 0

LEMMA InitExact == Init => Exact /\ SkipInv /\ JoinInv
<1> SUFFICES ASSUME Init PROVE Exact /\ SkipInv /\ JoinInv
  OBVIOUS
<1>1. j = 0 /\ i = 0 /\ pc = "loop" /\ head = [h \in HashValue |-> NO_POS]
  BY DEF Init
<1>2. \A h : Earlier(src, 0, h) = {}
  BY DEF Earlier
<1>3. Exact
  BY <1>1, <1>2 DEF Exact, HeadsExact, SlotsExact, Last
<1>. QED  BY <1>1, <1>3 DEF SkipInv, JoinInv

\* After insert_hash(i) the loop goes on at i + 1, or skips from there.
LEMMA InsertedHere ==
    ASSUME IInv, pc = "decide", insert_hash(i), UNCHANGED src, Exact,
           (pc' = "loop" /\ i' = i + 1) \/ pc' = "skip"
    PROVE  Exact' /\ SkipInv' /\ JoinInv'
<1>1. TypeOK /\ j = i /\ Hashable(j) /\ i \in Nat
  BY DecideFacts DEF IInv
<1>2. insert_hash(j)
  BY <1>1
<1>3. Exact'
  BY <1>1, <1>2, InsertKeepsExact
<1>4. j' = i + 1 /\ i + 1 <= src_len - (MIN_LEN - 1) /\ src_len' = src_len
      /\ src_len \in Nat /\ MIN_LEN \in Nat
  BY <1>1, TypeFacts DEF insert_hash, Hashable, src_len
<1>. QED  BY <1>1, <1>3, <1>4 DEF SkipInv, JoinInv, Lower

LEMMA NextExact ==
    ASSUME IInv, Exact, SkipInv, JoinInv, [Next]_vars
    PROVE  Exact' /\ SkipInv' /\ JoinInv'
<1> USE DEF args, find, chains, deferred, tokens
<1>1. TypeOK /\ ChainsInv /\ MatchesInv
  BY DEF IInv
<1>2. src' = src
  BY DEF Next, vars, StartFind, WalkEnds, WalkPasses, WalkFinds, UsePrevious,
         InsertSkipped, NoMatch, DeferMatch, LoopEnds, Rest, CallbackFails
<1>3. ASSUME UNCHANGED chains PROVE Exact'
  BY <1>2, <1>3 DEF Exact, HeadsExact, SlotsExact, Slot
<1>4. ASSUME UNCHANGED <<i, chains>>,
             pc' \in {"loop", "walk", "decide"} => pc \in {"loop", "walk", "decide"},
             pc' = "skip" => pc = "skip"
      PROVE  Exact' /\ SkipInv' /\ JoinInv'
  BY <1>2, <1>3, <1>4 DEF SkipInv, JoinInv, src_len
<1>5. ASSUME UNCHANGED chains, pc' \notin {"loop", "walk", "decide", "skip"}
      PROVE  Exact' /\ SkipInv' /\ JoinInv'
  BY <1>3, <1>5 DEF SkipInv, JoinInv
<1>6. CASE StartFind  BY <1>4, <1>6 DEF StartFind
<1>7. CASE WalkEnds  BY <1>4, <1>7 DEF WalkEnds
<1>8. CASE WalkPasses  BY <1>4, <1>8 DEF WalkPasses
<1>9. CASE WalkFinds  BY <1>4, <1>9 DEF WalkFinds
<1>10. CASE UsePrevious  BY <1>2, <1>10, InsertedHere DEF UsePrevious
<1>11. CASE NoMatch  BY <1>2, <1>11, InsertedHere DEF NoMatch
<1>12. CASE DeferMatch  BY <1>2, <1>12, InsertedHere DEF DeferMatch
<1>13. CASE InsertSkipped
  <2>1. /\ pc = "skip" /\ i' = i /\ i \in 0 .. src_len /\ j \in 0 .. src_len
        /\ src_len \in Nat /\ MIN_LEN \in Nat /\ src_len' = src_len
        /\ j <= src_len - (MIN_LEN - 1) /\ j <= i
    BY <1>1, <1>2, <1>13, TypeFacts DEF InsertSkipped, SkipInv, src_len, ChainsInv
  <2>2. CASE j < Lower(i, src_len - (MIN_LEN - 1))
    <3>1. insert_hash(j) /\ pc' = pc /\ Hashable(j) /\ j' = j + 1
          /\ j + 1 <= src_len - (MIN_LEN - 1)
      BY <1>13, <2>1, <2>2 DEF InsertSkipped, insert_hash, Hashable, Lower
    <3>2. Exact'
      BY <1>1, <1>2, <3>1, InsertKeepsExact
    <3>. QED  BY <2>1, <3>1, <3>2 DEF SkipInv, JoinInv
  <2>3. CASE ~(j < Lower(i, src_len - (MIN_LEN - 1)))
    <3>1. pc' = "loop" /\ UNCHANGED chains
      BY <1>13, <2>3 DEF InsertSkipped
    <3>2. j = Lower(i, src_len - (MIN_LEN - 1))
      BY <2>1, <2>3 DEF Lower
    <3>. QED  BY <1>3, <2>1, <3>1, <3>2 DEF SkipInv, JoinInv
  <2>. QED  BY <2>2, <2>3
<1>14. CASE LoopEnds  BY <1>5, <1>14 DEF LoopEnds
<1>15. CASE Rest
  BY <1>5, <1>15 DEF Rest
<1>16. CASE CallbackFails  BY <1>5, <1>16 DEF CallbackFails
<1>17. CASE UNCHANGED vars  BY <1>4, <1>17 DEF vars
<1>. QED
  BY <1>6, <1>7, <1>8, <1>9, <1>10, <1>11, <1>12, <1>13, <1>14, <1>15, <1>16, <1>17 DEF Next

LEMMA ExactImplies == IInv /\ Exact /\ JoinInv => ChainsExact
<1> SUFFICES ASSUME IInv, Exact, JoinInv PROVE ChainsExact
  OBVIOUS
<1>1. ASSUME pc = "walk", InReach PROVE cand < i /\ cand >= j - LZ_WND_SIZE
  <2>1. TypeOK /\ ChainsInv
    BY DEF IInv
  <2>2. j = i /\ cand \in 0 .. j - 1 /\ i - cand <= max_dist /\ i \in Nat
    BY <1>1, <2>1, TypeFacts DEF ChainsInv, InReach
  <2>3. max_dist <= LZ_WND_SIZE /\ max_dist \in Nat /\ LZ_WND_SIZE \in Nat
    BY <2>1, WindowAssumption, Lz77Assumption DEF TypeOK
  <2>. QED  BY <2>2, <2>3
<1>. QED  BY <1>1, ExactIs DEF ChainsExact, JoinInv

--------------------------------------------------------------------------------
(***************************************************************************)
(* find_match finds the longest match in reach.                            *)
(***************************************************************************)
\* How far the bytes from p are those from position i, as far as a match may go.
Length(p) == Common(p, max_cmp(p))

\* The positions in reach that a walk has passed when it is at candidate c.
Passed(c) == {p \in 0 .. i - 1 : i - p <= max_dist /\ (c = NO_POS \/ p > c)}

\* WalkInv, of a candidate c and a best match of length l at position m.
Walked(c, l, m) ==
    /\ c # NO_POS => HashAt(c) = HashAt(i)
    /\ l # 0 => m \in Passed(c) /\ Length(m) = l /\ l > Need
    /\ \A p \in Passed(c) :
          /\ Length(p) <= (IF l = 0 THEN Need ELSE l)
          /\ l # 0 /\ Length(p) = l => p <= m

Long == {p \in 0 .. i - 1 : i - p <= max_dist /\ Length(p) > Need}

\* FindsLongest, of a match of length l at position m with s steps left.
Best(l, m, s) ==
    /\ l = 0 => Long = {} \/ s = 0
    /\ l # 0 =>
          /\ m \in Long /\ Length(m) = l
          /\ s > 0 => \A p \in Long : Length(p) < l \/ (Length(p) = l /\ p <= m)

LEMMA WalkIs == WalkInv <=> (pc = "walk" => Walked(cand, match_len, match_pos))
  BY DEF WalkInv, Walked, Passed, Length, ToBeat

LEMMA FindsIs == FindsLongest <=> (pc = "decide" => Best(match_len, match_pos, steps))
<1>1. Long = {p \in {q \in 0 .. i - 1 : i - q <= max_dist} : Length(p) > Need}
  BY DEF Long
<1>. QED  BY <1>1 DEF FindsLongest, Best, Length

\* Common, of an input s and a position q.
Agreeing(s, q, p, max) ==
    CHOOSE l \in 0 .. max :
        /\ \A k \in 1 .. l : s[p + k] = s[q + k]
        /\ l < max => s[p + l + 1] # s[q + l + 1]

LEMMA SameLength == ASSUME UNCHANGED <<args, i>>, NEW p PROVE Length(p)' = Length(p)
<1>1. Length(p) = Agreeing(src, i, p, max_cmp(p))
  BY Zenon DEF Length, Common, Agreeing
<1>2. Length(p)' = Agreeing(src', i', p, max_cmp(p)')
  BY Zenon DEF Length, Common, Agreeing
<1>3. max_cmp(p)' = max_cmp(p)
  BY DEF max_cmp, max_match_len, src_len, Lower, args
<1>4. src' = src /\ i' = i
  BY DEF args
<1>. QED  BY <1>1, <1>2, <1>3, <1>4

\* WalkInv and FindsLongest after a step of find_match.
LEMMA FindPrimed ==
    ASSUME UNCHANGED <<args, i, deferred>>
    PROVE  /\ WalkInv' <=> (pc' = "walk" => Walked(cand', match_len', match_pos'))
           /\ FindsLongest' <=> (pc' = "decide" => Best(match_len', match_pos', steps'))
<1>1. i' = i /\ src' = src /\ max_dist' = max_dist /\ prev_match_len' = prev_match_len
  BY DEF args, deferred
<1>2. \A p : Length(p)' = Length(p)
  BY SameLength
<1>3. WalkInv' <=> (pc' = "walk" => Walked(cand', match_len', match_pos'))
  <2>1. WalkInv' <=>
           (pc' = "walk" =>
             /\ cand' # NO_POS => HashAt(cand)' = HashAt(i)'
             /\ match_len' # 0 => match_pos' \in {p \in 0 .. i' - 1 : i' - p <= max_dist' /\ (cand' = NO_POS \/ p > cand')}
                                  /\ Length(match_pos)' = match_len' /\ match_len' > Need'
             /\ \A p \in {p \in 0 .. i' - 1 : i' - p <= max_dist' /\ (cand' = NO_POS \/ p > cand')} :
                   /\ Length(p)' <= (IF match_len' = 0 THEN Need' ELSE match_len')
                   /\ match_len' # 0 /\ Length(p)' = match_len' => p <= match_pos')
    BY DEF WalkInv, Length, ToBeat
  <2>2. HashAt(cand)' = HashAt(cand') /\ HashAt(i)' = HashAt(i)
    BY <1>1 DEF HashAt
  <2>3. Length(match_pos)' = Length(match_pos')
    BY <1>2
  <2>4. Need' = Need
    BY <1>1 DEF Need
  <2>. QED  BY <1>1, <1>2, <2>1, <2>2, <2>3, <2>4 DEF Walked, Passed
<1>4. FindsLongest' <=> (pc' = "decide" => Best(match_len', match_pos', steps'))
  <2> DEFINE L2 == {p \in {q \in 0 .. i' - 1 : i' - q <= max_dist'} : Length(p)' > Need'}
  <2>1. FindsLongest' <=>
           (pc' = "decide" =>
             /\ match_len' = 0 => L2 = {} \/ steps' = 0
             /\ match_len' # 0 =>
                   /\ match_pos' \in L2 /\ Length(match_pos)' = match_len'
                   /\ steps' > 0 =>
                         \A p \in L2 : Length(p)' < match_len'
                                        \/ (Length(p)' = match_len' /\ p <= match_pos'))
    BY DEF FindsLongest, Length
  <2>2. Length(match_pos)' = Length(match_pos')
    BY <1>2
  <2>3. Need' = Need
    BY <1>1 DEF Need
  <2>4. L2 = Long
    BY <1>1, <1>2, <2>3 DEF Long
  <2> HIDE DEF L2
  <2>. QED  BY <1>1, <1>2, <2>1, <2>2, <2>4 DEF Best
<1>. QED  BY <1>3, <1>4

\* The n bytes from a position.
LEMMA StringFacts ==
    ASSUME src \in Seq(Bytes), NEW p \in Nat, NEW n \in Nat \ {0}, p + n <= Len(src)
    PROVE  LET a == SubSeq(src, p + 1, p + n)
           IN  /\ a \in Seq(Bytes) /\ Len(a) = n
               /\ \A k \in 1 .. n : a[k] = src[p + k]
<1> DEFINE first == p + 1
           last == p + n
           a == SubSeq(src, first, last)
<1>1. last <= Len(src) /\ first \in Int /\ last \in Int /\ first >= 1 /\ first <= last
      /\ last - first + 1 = n /\ Len(src) \in Nat
  BY LenProperties
<1>2. \A k \in first .. last : src[k] \in Bytes
  <2> HIDE DEF first, last
  <2>. QED  BY <1>1, ElementOfSeq
<1>3. /\ a \in Seq(Bytes) /\ Len(a) = IF first <= last THEN last - first + 1 ELSE 0
      /\ \A k \in 1 .. last - first + 1 : a[k] = src[first + k - 1]
  <2> HIDE DEF first, last
  <2>. QED  BY <1>1, <1>2, SubSeqProperties
<1> HIDE DEF a
<1>4. \A k \in 1 .. n : first + k - 1 = p + k
  OBVIOUS
<1>5. a \in Seq(Bytes) /\ Len(a) = n /\ \A k \in 1 .. n : a[k] = src[p + k]
  <2> HIDE DEF first, last
  <2>. QED  BY <1>1, <1>3, <1>4
<1>. QED  BY <1>5 DEF a

\* What find_match compares: how far two strings agree is within what a match
\* may have, and strings that agree in MIN_LEN bytes have one hash.
LEMMA LengthFacts ==
    ASSUME TypeOK, Hashable(i), NEW p \in 0 .. i - 1
    PROVE  /\ Length(p) \in Nat /\ Length(p) <= max_cmp(p) /\ max_cmp(p) <= max_match_len
           /\ max_match_len \in Nat
           /\ Length(p) >= MIN_LEN => HashAt(p) = HashAt(i)
<1> DEFINE max == max_cmp(p)
           l == Length(p)
<1>1. /\ i \in Nat /\ i + MIN_LEN <= src_len /\ src_len \in Nat /\ max_len \in Nat
      /\ MIN_LEN \in Nat /\ MIN_LEN >= 2 /\ p \in Nat /\ p < i /\ src \in Seq(Bytes)
      /\ Len(src) = src_len
  BY TypeFacts DEF Hashable
<1>2. max \in Nat /\ max <= max_match_len /\ max_match_len \in Nat
  BY <1>1 DEF max_cmp, max_match_len, Lower
<1>3. l \in 0 .. max /\ \A k \in 1 .. l : src[p + k] = src[i + k]
  <2>1. p \in Nat /\ max \in Nat /\ i \in Nat
    BY <1>1, <1>2
  <2>2. l = Common(p, max)
    BY DEF Length
  <2> HIDE DEF max, l
  <2>. QED  BY <2>1, <2>2, CommonFacts, Zenon
<1>4. ASSUME l >= MIN_LEN PROVE HashAt(p) = HashAt(i)
  <2> DEFINE a == SubSeq(src, p + 1, p + MIN_LEN)
             b == SubSeq(src, i + 1, i + MIN_LEN)
  <2>1. /\ a \in Seq(Bytes) /\ Len(a) = MIN_LEN
        /\ \A k \in 1 .. MIN_LEN : a[k] = src[p + k]
    <3>1. p \in Nat /\ MIN_LEN \in Nat \ {0} /\ p + MIN_LEN <= Len(src) /\ src \in Seq(Bytes)
      BY <1>1
    <3>. QED  BY <3>1, StringFacts, Zenon
  <2>2. /\ b \in Seq(Bytes) /\ Len(b) = MIN_LEN
        /\ \A k \in 1 .. MIN_LEN : b[k] = src[i + k]
    <3>1. i \in Nat /\ MIN_LEN \in Nat \ {0} /\ i + MIN_LEN <= Len(src) /\ src \in Seq(Bytes)
      BY <1>1
    <3>. QED  BY <3>1, StringFacts, Zenon
  <2> HIDE DEF l
  <2>3. \A k \in 1 .. MIN_LEN : src[p + k] = src[i + k]
    BY <1>1, <1>2, <1>3, <1>4
  <2> HIDE DEF a, b
  <2>4. a = b
    BY <2>1, <2>2, <2>3, SeqEqual
  <2>. QED  BY <2>4 DEF HashAt, a, b
<1> HIDE DEF max, l
<1>5. l \in Nat /\ l <= max
  BY <1>2, <1>3
<1>. QED  BY <1>2, <1>4, <1>5 DEF max, l

\* What must be beaten is not shorter than the shortest match less one.
LEMMA NeedFacts ==
    ASSUME IInv
    PROVE  Need \in Nat /\ Need >= MIN_LEN - 1 /\ MIN_LEN \in Nat
  BY TypeFacts, SMTT(30) DEF IInv, MatchesInv, MatchAt, Need

\* Behind the head of its chain nothing is a match for position i.
LEMMA OtherHash ==
    ASSUME IInv, Hashable(i), NEW p \in 0 .. i - 1, HashAt(p) # HashAt(i)
    PROVE  Length(p) <= Need
<1>1. TypeOK
  BY DEF IInv
<1>2. Length(p) \in Nat /\ ~(Length(p) >= MIN_LEN)
  BY <1>1, LengthFacts
<1> DEFINE l == Length(p)
<1>3. l \in Nat /\ ~(l >= MIN_LEN)
  BY <1>2
<1> HIDE DEF l
<1>4. l <= Need
  BY <1>3, NeedFacts
<1>. QED  BY <1>4 DEF l

\* The positions between a candidate c and the next on its chain are none of it.
LEMMA ChainFacts ==
    ASSUME NEW c \in Nat, NEW h, NEW n, n = Last(Earlier(src, c, h))
    PROVE  /\ n = NO_POS \/ n \in 0 .. c - 1
           /\ n # NO_POS => HashAt(n) = h
           /\ \A p \in 0 .. c - 1 : n = NO_POS \/ p > n => HashAt(p) # h
<1> DEFINE E == Earlier(src, c, h)
<1>1. E \subseteq 0 .. c - 1 /\ \A q \in 0 .. c - 1 : q \in E <=> HashAt(q) = h
  BY DEF Earlier, HashAt
<1>2. n = Last(E)
  OBVIOUS
<1> HIDE DEF E
<1>3. /\ E = {} => n = NO_POS
      /\ E # {} => n \in E /\ \A r \in E : r <= n
  BY <1>1, <1>2, LastFacts
<1>4. CASE E = {}
  BY <1>1, <1>3, <1>4
<1>5. CASE E # {}
  <2>1. n \in 0 .. c - 1 /\ HashAt(n) = h
    <3>1. n \in E /\ n \in 0 .. c - 1
      BY <1>1, <1>3, <1>5
    <3>. QED  BY <1>1, <3>1
  <2>2. ASSUME NEW p \in 0 .. c - 1, p > n PROVE HashAt(p) # h
    <3> SUFFICES ASSUME HashAt(p) = h PROVE FALSE
      OBVIOUS
    <3>1. p \in E
      BY <1>1
    <3>2. p <= n
      BY <1>3, <1>5, <3>1
    <3>. QED  BY <2>1, <2>2, <3>2
  <2>3. n # NO_POS
    BY <2>1, Lz77Assumption
  <2>. QED  BY <2>1, <2>2, <2>3
<1>. QED  BY <1>4, <1>5

\* A walk starts at the head of the chain of position i.
LEMMA WalkStarts ==
    ASSUME IInv, Exact, pc = "loop", Hashable(i), NEW m
    PROVE  Walked(head[HashAt(i)], 0, m)
<1> DEFINE n == head[HashAt(i)]
<1>1. TypeOK /\ j = i /\ i \in Nat
  BY TypeFacts DEF IInv, ChainsInv
<1>2. HashAt(i) \in HashValue
  BY <1>1, HashType
<1>3. n = Last(Earlier(src, i, HashAt(i)))
  BY <1>1, <1>2 DEF Exact, HeadsExact
<1> HIDE DEF n
<1>4. /\ n # NO_POS => HashAt(n) = HashAt(i)
      /\ \A p \in 0 .. i - 1 : n = NO_POS \/ p > n => HashAt(p) # HashAt(i)
  BY <1>1, <1>3, ChainFacts
<1>5. \A p \in Passed(n) : Length(p) <= Need
  <2> TAKE p \in Passed(n)
  <2>1. p \in 0 .. i - 1 /\ (n = NO_POS \/ p > n)
    BY DEF Passed
  <2>. QED  BY <1>4, <2>1, OtherHash
<1>. QED  BY <1>4, <1>5 DEF Walked, n

\* A walk goes on to the next candidate: the best so far is the best of the
\* passed ones with the one it leaves.
LEMMA WalkGoesOn ==
    ASSUME IInv, Exact, pc = "walk", InReach, NEW l \in Nat, NEW m, Walked(cand, l, m),
           NEW l2 \in Nat, NEW m2,
           \/ l2 = l /\ m2 = m /\ Length(cand) <= (IF l = 0 THEN Need ELSE l)
           \/ l2 = Length(cand) /\ m2 = cand /\ l2 > (IF l = 0 THEN Need ELSE l)
    PROVE  Walked(prev[Slot(cand)], l2, m2)
<1> DEFINE n == prev[Slot(cand)]
<1>1. TypeOK /\ ChainsInv /\ j = i /\ Hashable(i) /\ i \in Nat
  BY TypeFacts DEF IInv, ChainsInv
<1>2. cand \in 0 .. i - 1 /\ i - cand <= max_dist /\ cand # NO_POS
      /\ HashAt(cand) = HashAt(i)
  BY <1>1 DEF InReach, ChainsInv, Walked
<1>3. max_dist <= LZ_WND_SIZE /\ max_dist \in Nat /\ LZ_WND_SIZE \in Nat
  BY <1>1, WindowAssumption, Lz77Assumption DEF TypeOK
<1>4. n = Last(Earlier(src, cand, HashAt(i)))
  <2>1. cand \in 0 .. j - 1 /\ cand >= j - LZ_WND_SIZE
    BY <1>1, <1>2, <1>3
  <2>2. prev[Slot(cand)] = Last(Earlier(src, cand, HashAt(cand)))
    BY <2>1 DEF Exact, SlotsExact, HashAt
  <2>. QED  BY <1>2, <2>2
<1> HIDE DEF n
<1>5. /\ n = NO_POS \/ n \in 0 .. cand - 1
      /\ n # NO_POS => HashAt(n) = HashAt(i)
      /\ \A p \in 0 .. cand - 1 : n = NO_POS \/ p > n => HashAt(p) # HashAt(i)
  <2>1. cand \in Nat
    BY <1>2
  <2>. QED  BY <1>4, <2>1, ChainFacts
<1>6. Need \in Nat
  BY NeedFacts
<1>7. \A p \in 0 .. i - 1 : Length(p) \in Nat
  BY <1>1, LengthFacts
<1>8. cand \in Passed(n) /\ Passed(cand) \subseteq Passed(n)
  BY <1>2, <1>5 DEF Passed
<1>9. ASSUME NEW p \in Passed(n)
      PROVE  p \in Passed(cand) \/ p = cand \/ (Length(p) <= Need /\ p < cand)
  <2>1. p \in 0 .. i - 1 /\ i - p <= max_dist /\ (n = NO_POS \/ p > n)
    BY DEF Passed
  <2>2. CASE p > cand
    BY <2>1, <2>2 DEF Passed
  <2>3. CASE p < cand
    <3>1. p \in 0 .. cand - 1
      BY <1>2, <2>1, <2>3
    <3>2. HashAt(p) # HashAt(i)
      BY <1>5, <2>1, <3>1
    <3>. QED  BY <1>1, <2>1, <2>3, <3>2, OtherHash
  <2>. QED  BY <1>2, <2>1, <2>2, <2>3
<1>10. l2 # 0 => m2 \in Passed(n) /\ Length(m2) = l2 /\ l2 > Need
  <2>1. l # 0 => m \in Passed(cand) /\ Length(m) = l /\ l > Need
    BY DEF Walked
  <2>. QED  BY <1>6, <1>8, <2>1
<1>11. l # 0 => m \in Nat /\ m > cand
  <2>1. l # 0 => m \in Passed(cand)
    BY DEF Walked
  <2>. QED  BY <1>2, <2>1 DEF Passed
<1>12. ASSUME NEW p \in Passed(n)
       PROVE  /\ Length(p) <= (IF l2 = 0 THEN Need ELSE l2)
              /\ l2 # 0 /\ Length(p) = l2 => p <= m2
  <2>1. p \in 0 .. i - 1 /\ p \in Nat
    BY <1>1 DEF Passed
  <2>2. Length(p) \in Nat /\ Length(cand) \in Nat /\ cand \in Nat
    BY <1>2, <1>7, <2>1
  <2>3. l # 0 => l > Need
    BY DEF Walked
  <2>4. CASE p \in Passed(cand)
    <3>1. /\ Length(p) <= (IF l = 0 THEN Need ELSE l)
          /\ l # 0 /\ Length(p) = l => p <= m
      BY <2>4 DEF Walked
    <3> DEFINE x == Length(p)
               y == Length(cand)
    <3>2. x \in Nat /\ y \in Nat /\ x <= (IF l = 0 THEN Need ELSE l)
          /\ (l # 0 /\ x = l => p <= m)
          /\ \/ l2 = l /\ m2 = m
             \/ l2 = y /\ l2 > (IF l = 0 THEN Need ELSE l)
      BY <2>2, <3>1
    <3> HIDE DEF x, y
    <3>3. x <= (IF l2 = 0 THEN Need ELSE l2) /\ (l2 # 0 /\ x = l2 => p <= m2)
      BY <1>6, <2>3, <3>2
    <3>. QED  BY <3>3 DEF x
  <2>5. CASE p = cand
    <3> DEFINE x == Length(p)
    <3>1. /\ x \in Nat
          /\ \/ l2 = l /\ m2 = m /\ x <= (IF l = 0 THEN Need ELSE l)
             \/ l2 = x /\ m2 = p /\ l2 > (IF l = 0 THEN Need ELSE l)
      BY <2>2, <2>5
    <3> HIDE DEF x
    <3>2. x <= (IF l2 = 0 THEN Need ELSE l2) /\ (l2 # 0 /\ x = l2 => p <= m2)
      BY <1>6, <1>11, <2>1, <2>3, <2>5, <3>1
    <3>. QED  BY <3>2 DEF x
  <2>6. CASE Length(p) <= Need /\ p < cand
    <3> DEFINE x == Length(p)
               y == Length(cand)
    <3>1. /\ x \in Nat /\ x <= Need /\ p < cand
          /\ \/ l2 = l /\ m2 = m
             \/ l2 = y /\ m2 = cand /\ l2 > (IF l = 0 THEN Need ELSE l)
      BY <2>2, <2>6
    <3> HIDE DEF x, y
    <3>2. x <= (IF l2 = 0 THEN Need ELSE l2) /\ (l2 # 0 /\ x = l2 => p <= m2)
      BY <1>6, <1>11, <2>1, <2>2, <2>3, <3>1
    <3>. QED  BY <3>2 DEF x
  <2>. QED  BY <1>9, <2>4, <2>5, <2>6
<1>. QED  BY <1>5, <1>10, <1>12 DEF Walked, n

\* A walk that can go no further has passed every position in reach, or has no
\* steps left.
LEMMA WalkIsOver ==
    ASSUME IInv, pc = "walk", ~InReach, NEW l \in Nat, NEW m, Walked(cand, l, m)
    PROVE  Best(l, m, steps)
<1>1. TypeOK /\ ChainsInv /\ j = i /\ Hashable(i) /\ i \in Nat /\ max_dist \in Nat
  BY TypeFacts DEF IInv, ChainsInv
<1>2. steps \in Nat /\ (cand = NO_POS \/ cand \in 0 .. i - 1)
  BY <1>1, Lz77Assumption DEF TypeOK, ChainsInv
<1>3. Need \in Nat /\ \A p \in 0 .. i - 1 : Length(p) \in Nat
  BY <1>1, NeedFacts, LengthFacts
<1>4. ASSUME steps # 0 PROVE \A p \in Long : p \in Passed(cand)
  <2>1. cand = NO_POS \/ i - cand > max_dist
    BY <1>1, <1>2, <1>4 DEF InReach
  <2> TAKE p \in Long
  <2>2. p \in 0 .. i - 1 /\ i - p <= max_dist
    BY DEF Long
  <2>3. cand = NO_POS \/ p > cand
    BY <1>1, <1>2, <2>1, <2>2
  <2>. QED  BY <2>2, <2>3 DEF Passed
<1>5. \A p \in Long : p \in 0 .. i - 1 /\ Length(p) > Need
  BY DEF Long
<1>6. ASSUME l = 0 PROVE Long = {} \/ steps = 0
  <2> SUFFICES ASSUME steps # 0, NEW p \in Long PROVE FALSE
    OBVIOUS
  <2>1. Length(p) <= Need
    BY <1>4, <1>6 DEF Walked
  <2>2. Length(p) \in Nat /\ Length(p) > Need
    BY <1>3, <1>5
  <2> DEFINE x == Length(p)
  <2>3. x \in Nat /\ x > Need /\ x <= Need
    BY <2>1, <2>2
  <2> HIDE DEF x
  <2>. QED  BY <1>3, <2>3
<1>7. ASSUME l # 0 PROVE m \in Long /\ Length(m) = l
  <2>1. m \in Passed(cand) /\ Length(m) = l /\ l > Need
    BY <1>7 DEF Walked
  <2>. QED  BY <2>1 DEF Passed, Long
<1>8. ASSUME l # 0, steps > 0, NEW p \in Long
      PROVE  Length(p) < l \/ (Length(p) = l /\ p <= m)
  <2>1. Length(p) <= l /\ (Length(p) = l => p <= m)
    BY <1>2, <1>4, <1>8 DEF Walked
  <2>2. Length(p) \in Nat
    BY <1>3, <1>5
  <2> DEFINE x == Length(p)
  <2>3. x \in Nat /\ x <= l /\ (x = l => p <= m)
    BY <2>1, <2>2
  <2> HIDE DEF x
  <2>4. x < l \/ (x = l /\ p <= m)
    BY <2>3
  <2>. QED  BY <2>4 DEF x
<1>. QED  BY <1>6, <1>7, <1>8 DEF Best

\* A match as long as a match may be ends the walk: what was passed was shorter,
\* and what is still to come is older.
LEMMA WalkIsFull ==
    ASSUME IInv, pc = "walk", InReach, Walked(cand, match_len, match_pos),
           Length(cand) > ToBeat, Length(cand) = max_match_len
    PROVE  Best(Length(cand), cand, steps)
<1>1. TypeOK /\ ChainsInv /\ j = i /\ Hashable(i) /\ i \in Nat /\ match_len \in Nat
  BY TypeFacts DEF IInv, ChainsInv, TypeOK
<1>2. cand \in 0 .. i - 1 /\ i - cand <= max_dist
  BY <1>1 DEF InReach, ChainsInv
<1>3. Need \in Nat
  BY NeedFacts
<1>4. \A p \in 0 .. i - 1 : Length(p) \in Nat /\ Length(p) <= max_match_len
  <2> TAKE p \in 0 .. i - 1
  <2>1. /\ Length(p) \in Nat /\ Length(p) <= max_cmp(p) /\ max_cmp(p) <= max_match_len
        /\ max_match_len \in Nat
    BY <1>1, LengthFacts
  <2>2. max_cmp(p) \in Nat
    BY <1>1, TypeFacts DEF max_cmp, max_match_len, Lower, Hashable
  <2> DEFINE x == Length(p)
             y == max_cmp(p)
             z == max_match_len
  <2>3. x \in Nat /\ x <= y /\ y <= z /\ y \in Nat /\ z \in Nat
    BY <2>1, <2>2
  <2> HIDE DEF x, y, z
  <2>4. x \in Nat /\ x <= z
    BY <2>3
  <2>. QED  BY <2>4 DEF x, z
<1>5. match_len # 0 => match_len > Need
  BY DEF Walked
<1> DEFINE l == Length(cand)
<1>6. l \in Nat /\ l > ToBeat /\ l = max_match_len
  BY <1>2, <1>4
<1>7. l > Need /\ l # 0
  <2> HIDE DEF l
  <2>. QED  BY <1>1, <1>3, <1>5, <1>6 DEF ToBeat
<1>8. cand \in Long
  BY <1>2, <1>7 DEF Long
<1>9. ASSUME NEW p \in Long PROVE Length(p) < l \/ (Length(p) = l /\ p <= cand)
  <2>1. p \in 0 .. i - 1 /\ i - p <= max_dist
    BY DEF Long
  <2> DEFINE x == Length(p)
  <2>2. x \in Nat /\ x <= l
    BY <1>4, <1>6, <2>1
  <2>3. CASE p > cand
    <3>1. p \in Passed(cand)
      BY <2>1, <2>3 DEF Passed
    <3>2. x <= ToBeat
      BY <3>1 DEF Walked, ToBeat
    <3>3. ToBeat \in Nat
      BY <1>1, <1>3 DEF ToBeat
    <3> HIDE DEF x, l
    <3>4. x < l
      BY <1>6, <2>2, <3>2, <3>3
    <3>. QED  BY <3>4 DEF x, l
  <2>4. CASE p <= cand
    <3> HIDE DEF x, l
    <3>1. x < l \/ (x = l /\ p <= cand)
      BY <1>6, <2>2, <2>4
    <3>. QED  BY <3>1 DEF x, l
  <2>. QED  BY <1>2, <2>1, <2>3, <2>4
<1> HIDE DEF l
<1>10. Best(l, cand, steps)
  BY <1>7, <1>8, <1>9 DEF Best, l
<1>. QED  BY <1>10 DEF l

--------------------------------------------------------------------------------
LEMMA StartFindLongest ==
    ASSUME IInv, Exact, StartFind PROVE WalkInv' /\ FindsLongest'
<1>1. UNCHANGED <<args, i, deferred>> /\ pc = "loop" /\ Hashable(i) /\ match_len' = 0
  BY DEF StartFind
<1>2. CASE Need >= max_match_len
  <2>1. pc' = "decide"
    BY <1>2 DEF StartFind
  <2>2. Long = {}
    <3> SUFFICES ASSUME NEW p \in Long PROVE FALSE
      OBVIOUS
    <3>1. p \in 0 .. i - 1 /\ Length(p) > Need
      BY DEF Long
    <3>2. /\ Length(p) \in Nat /\ Length(p) <= max_cmp(p) /\ max_cmp(p) <= max_match_len
          /\ max_match_len \in Nat
      BY <1>1, <3>1, LengthFacts DEF IInv
    <3>3. max_cmp(p) \in Nat
      BY <1>1, <3>1, TypeFacts DEF max_cmp, max_match_len, Lower, Hashable, IInv
    <3> DEFINE x == Length(p)
               y == max_cmp(p)
               z == max_match_len
               w == Need
    <3>4. x \in Nat /\ y \in Nat /\ z \in Nat /\ w \in Nat /\ x <= y /\ y <= z /\ x > w /\ w >= z
      BY <1>2, <3>1, <3>2, <3>3, NeedFacts
    <3> HIDE DEF x, y, z, w
    <3>. QED  BY <3>4
  <2>3. Best(match_len', match_pos', steps')
    BY <1>1, <2>2 DEF Best
  <2>. QED  BY <1>1, <2>1, <2>3, FindPrimed
<1>3. CASE ~(Need >= max_match_len)
  <2>1. pc' = "walk" /\ cand' = head[HashAt(i)]
    BY <1>3 DEF StartFind
  <2>2. Walked(cand', match_len', match_pos')
    BY <1>1, <2>1, WalkStarts
  <2>. QED  BY <1>1, <2>1, <2>2, FindPrimed
<1>. QED  BY <1>2, <1>3

LEMMA WalkEndsLongest ==
    ASSUME IInv, WalkInv, WalkEnds PROVE WalkInv' /\ FindsLongest'
<1>1. UNCHANGED <<args, i, deferred, find>> /\ pc = "walk" /\ ~InReach /\ pc' = "decide"
  BY DEF WalkEnds
<1>2. match_len \in Nat
  BY DEF IInv, TypeOK
<1>3. Best(match_len, match_pos, steps)
  BY <1>1, <1>2, WalkIs, WalkIsOver
<1>4. match_len' = match_len /\ match_pos' = match_pos /\ steps' = steps
  BY <1>1 DEF find
<1>. QED  BY <1>1, <1>3, <1>4, FindPrimed

LEMMA WalkPassesLongest ==
    ASSUME IInv, Exact, WalkInv, WalkPasses PROVE WalkInv' /\ FindsLongest'
<1>1. /\ UNCHANGED <<args, i, deferred>> /\ pc = "walk" /\ InReach /\ pc' = "walk"
      /\ match_len' = match_len /\ match_pos' = match_pos /\ cand' = prev[Slot(cand)]
      /\ max_cmp(cand) <= ToBeat \/ Length(cand) <= ToBeat
  BY DEF WalkPasses, NextCand, Length
<1>2. TypeOK /\ match_len \in Nat /\ Hashable(i) /\ cand \in 0 .. i - 1
  BY <1>1 DEF IInv, TypeOK, ChainsInv, InReach
<1>3. Length(cand) <= ToBeat
  <2> DEFINE x == Length(cand)
             y == max_cmp(cand)
  <2>1. x \in Nat /\ x <= y
    BY <1>2, LengthFacts
  <2>2. ToBeat \in Nat
    BY <1>2, NeedFacts DEF ToBeat
  <2>3. y \in Int
    BY <1>2, TypeFacts DEF max_cmp, max_match_len, Lower, Hashable
  <2>4. y <= ToBeat \/ x <= ToBeat
    BY <1>1
  <2> HIDE DEF x, y
  <2>5. x <= ToBeat
    BY <2>1, <2>2, <2>3, <2>4
  <2>. QED  BY <2>5 DEF x
<1>4. Walked(cand, match_len, match_pos)
  BY <1>1, WalkIs
<1>5. Walked(prev[Slot(cand)], match_len, match_pos)
  <2>1. Length(cand) <= (IF match_len = 0 THEN Need ELSE match_len)
    BY <1>3 DEF ToBeat
  <2>. QED  BY <1>1, <1>2, <1>4, <2>1, WalkGoesOn
<1>. QED  BY <1>1, <1>5, FindPrimed

LEMMA WalkFindsLongest ==
    ASSUME IInv, Exact, WalkInv, WalkFinds PROVE WalkInv' /\ FindsLongest'
<1>1. /\ UNCHANGED <<args, i, deferred>> /\ pc = "walk" /\ InReach
      /\ match_len' = Length(cand) /\ match_pos' = cand
      /\ Length(cand) > ToBeat
  BY DEF WalkFinds, Found, Length
<1>2. TypeOK /\ match_len \in Nat /\ Hashable(i) /\ cand \in 0 .. i - 1
  BY <1>1 DEF IInv, TypeOK, ChainsInv, InReach
<1>3. Length(cand) \in Nat
  BY <1>2, LengthFacts
<1>4. Walked(cand, match_len, match_pos)
  BY <1>1, WalkIs
<1>5. CASE Length(cand) = max_match_len
  <2>1. pc' = "decide" /\ steps' = steps
    BY <1>5 DEF WalkFinds, Length
  <2>2. Best(Length(cand), cand, steps)
    BY <1>1, <1>4, <1>5, WalkIsFull
  <2>. QED  BY <1>1, <2>1, <2>2, FindPrimed
<1>6. CASE Length(cand) # max_match_len
  <2>1. pc' = "walk" /\ cand' = prev[Slot(cand)]
    BY <1>1, <1>6 DEF WalkFinds, NextCand, Length
  <2>2. Length(cand) > (IF match_len = 0 THEN Need ELSE match_len)
    BY <1>1 DEF ToBeat
  <2>3. Walked(prev[Slot(cand)], Length(cand), cand)
    BY <1>1, <1>2, <1>3, <1>4, <2>2, WalkGoesOn
  <2>. QED  BY <1>1, <2>1, <2>3, FindPrimed
<1>. QED  BY <1>5, <1>6

LEMMA NextLongest ==
    ASSUME IInv, Exact, WalkInv, FindsLongest, [Next]_vars
    PROVE  WalkInv' /\ FindsLongest'
<1>1. ASSUME pc' \notin {"walk", "decide"} PROVE WalkInv' /\ FindsLongest'
  BY <1>1 DEF WalkInv, FindsLongest
<1>2. CASE StartFind  BY <1>2, StartFindLongest
<1>3. CASE WalkEnds  BY <1>3, WalkEndsLongest
<1>4. CASE WalkPasses  BY <1>4, WalkPassesLongest
<1>5. CASE WalkFinds  BY <1>5, WalkFindsLongest
<1>6. CASE UsePrevious  BY <1>1, <1>6 DEF UsePrevious
<1>7. CASE InsertSkipped  BY <1>1, <1>7 DEF InsertSkipped
<1>8. CASE NoMatch  BY <1>1, <1>8 DEF NoMatch
<1>9. CASE DeferMatch  BY <1>1, <1>9 DEF DeferMatch
<1>10. CASE LoopEnds  BY <1>1, <1>10 DEF LoopEnds
<1>11. CASE Rest  BY <1>1, <1>11 DEF Rest
<1>12. CASE CallbackFails  BY <1>1, <1>12 DEF CallbackFails
<1>13. CASE UNCHANGED vars
  <2>1. UNCHANGED <<args, i, deferred, pc, cand, match_len, match_pos, steps>>
    BY <1>13 DEF vars, find
  <2>. QED  BY <2>1, FindPrimed, WalkIs, FindsIs
<1>. QED
  BY <1>2, <1>3, <1>4, <1>5, <1>6, <1>7, <1>8, <1>9, <1>10, <1>11, <1>12, <1>13 DEF Next

\* LongestInv, with the chains as the proofs have them.
FindInvs == IInv /\ Exact /\ SkipInv /\ JoinInv /\ WalkInv /\ FindsLongest

LEMMA FindInvsHold == Spec => []FindInvs
<1>1. Init => FindInvs
  <2> SUFFICES ASSUME Init PROVE FindInvs
    OBVIOUS
  <2>1. WalkInv /\ FindsLongest
    BY DEF Init, WalkInv, FindsLongest
  <2>. QED  BY <2>1, InitInv, InitExact DEF FindInvs
<1>2. FindInvs /\ [Next]_vars => FindInvs'
  BY NextInv, NextExact, NextLongest DEF FindInvs
<1>. QED  BY <1>1, <1>2, PTL DEF Spec

--------------------------------------------------------------------------------
(***************************************************************************)
(* The theorems.                                                           *)
(***************************************************************************)
\* In every reachable state of lz77_compress the chains hold earlier positions
\* only and every match it has in hand is one its callbacks accept.
THEOREM InvariantHolds == Spec => []IInv
<1>. QED  BY InitInv, NextInv, PTL DEF Spec

\* The variables of lz77_compress keep their types.
THEOREM TypeCorrect == Spec => []TypeOK
<1>1. IInv => TypeOK
  BY DEF IInv
<1>. QED  BY <1>1, InvariantHolds, PTL

\* The tokens stand for the input up to where the loop is, and for all of it
\* when lz77_compress returns true.
THEOREM TokensStandForInput == Spec => []Covered
<1>1. IInv => Covered
  BY DEF IInv
<1>. QED  BY <1>1, InvariantHolds, PTL

\* No back reference breaks the limits its callback asserts: it lies in the
\* output, within the window and the lengths asked for, and does not overlap
\* itself where that is not allowed.
THEOREM BackrefsAreLegal == Spec => []BackrefsLegal
<1>1. IInv => BackrefsLegal
  BY DEF IInv
<1>. QED  BY <1>1, InvariantHolds, PTL

\* The chains of lz77_compress hold every position that was hashed, once and
\* newest first; a slot of the ring is only used again when its position is out of
\* the reach of every walk, and none is read before it was written.
THEOREM ChainsAreExact == Spec => []ChainsExact
<1>1. FindInvs => ChainsExact
  BY ExactImplies DEF FindInvs
<1>. QED  BY <1>1, FindInvsHold, PTL

\* find_match returns the longest match in reach that beats the deferred one, of
\* several the most recent, unless it ran out of steps.
THEOREM LongestIsFound == Spec => []FindsLongest
<1>1. FindInvs => FindsLongest
  BY DEF FindInvs
<1>. QED  BY <1>1, FindInvsHold, PTL

\* The inductive invariant behind these two holds in every reachable state.
THEOREM LongestInvariantHolds == Spec => []LongestInv
<1>1. FindInvs => LongestInv
  BY ExactImplies DEF FindInvs, LongestInv
<1>. QED  BY <1>1, FindInvsHold, PTL

--------------------------------------------------------------------------------
(***************************************************************************)
(* The tokens are those the compressors are checked with.                  *)
(***************************************************************************)
\* The back reference of a match of l bytes is one of Backrefs, and the copy of
\* lz77.c is the copy of the decompressors.
LEMMA MatchIsToken ==
    ASSUME TypeOK, NEW n \in Nat, n = Len(dst), NEW p, NEW l, MatchAt(n, p, l),
           OutputBackref(n - p, l)
    PROVE  \E r \in Tokens!Backrefs(src, n, max_dist, max_len, allow_overlap) :
              dst' = Tokens!output_backref(dst, r.dist, r.len)
<1> DEFINE d == n - p
           r == [dist |-> d, len |-> l]
<1>1. /\ p \in 0 .. n - 1 /\ d <= max_dist /\ l \in MIN_LEN .. max_len /\ n + l <= Len(src)
      /\ allow_overlap \/ l <= d
      /\ \A k \in 1 .. l : src[p + k] = src[n + k]
      /\ MIN_LEN \in Nat /\ max_len \in Nat /\ max_dist \in Nat /\ Len(src) \in Nat
  BY TypeFacts DEF MatchAt, Same
<1>2. d \in Nat \ {0} /\ d <= n /\ l \in Nat /\ l <= Len(src) - n /\ p \in Nat
  BY <1>1
<1>3. r \in [dist : 1 .. Tokens!AtMost(max_dist, n),
              len : MIN_LEN .. Tokens!AtMost(max_len, Len(src) - n)]
  BY <1>1, <1>2 DEF Tokens!AtMost
<1>4. Tokens!Repeats(src, n, r.dist, r.len)
  <2>1. ASSUME NEW k \in 1 .. l PROVE src[n + k] = src[n + k - d]
    <3>1. n + k - d = p + k
      BY <1>1
    <3>. QED  BY <1>1, <3>1
  <2>. QED  BY <2>1 DEF Tokens!Repeats
<1>5. r \in Tokens!Backrefs(src, n, max_dist, max_len, allow_overlap)
  BY <1>1, <1>3, <1>4 DEF Tokens!Backrefs
<1>6. dst' = Tokens!output_backref(dst, r.dist, r.len)
  <2>1. ASSUME NEW k \in 1 .. l
        PROVE  dst[Len(dst) - d + 1 + ((k - 1) % d)] =
                   (LET x == Len(dst) - d + ((k - 1) % d) + 1
                    IN  IF x < 1 THEN 0 ELSE dst[x])
    <3>1. (k - 1) % d \in 0 .. d - 1
      <4> DEFINE b == k - 1
      <4>1. b \in Nat
        OBVIOUS
      <4> HIDE DEF b, d
      <4>2. b % d \in 0 .. d - 1
        BY <1>2, <4>1, ModStep, Zenon
      <4>. QED  BY <4>2 DEF b
    <3> DEFINE y == (k - 1) % d
    <3>2. y \in Nat
      BY <1>2, <3>1
    <3>3. Len(dst) - d = p
      BY <1>1
    <3> HIDE DEF y, d
    <3>4. Len(dst) - d + 1 + y = Len(dst) - d + y + 1 /\ ~(Len(dst) - d + y + 1 < 1)
      BY <1>2, <3>2, <3>3
    <3>. QED  BY <3>4 DEF y
  <2> HIDE DEF d
  <2>2. [k \in 1 .. l |-> dst[Len(dst) - d + 1 + ((k - 1) % d)]]
          = [k \in 1 .. l |-> LET x == Len(dst) - d + ((k - 1) % d) + 1
                              IN  IF x < 1 THEN 0 ELSE dst[x]]
    BY <2>1
  <2>3. OutputBackref(d, l)
    BY DEF d
  <2>. QED  BY <2>2, <2>3 DEF OutputBackref, Tokens!output_backref
<1>. QED  BY <1>5, <1>6

Legal == \/ Len(dst) < src_len /\ dst' = Append(dst, src[Len(dst) + 1])
         \/ \E r \in Tokens!Backrefs(src, Len(dst), max_dist, max_len, allow_overlap) :
               dst' = Tokens!output_backref(dst, r.dist, r.len)
         \/ dst' = dst

LEMMA NextLegal == ASSUME IInv, [Next]_vars PROVE Legal
<1>1. TypeOK /\ MatchesInv /\ Covered
  BY DEF IInv
<1>2. ASSUME NEW n, n = Len(dst), n < src_len, OutputLit(n) PROVE Legal
  BY <1>2 DEF OutputLit, Legal
<1>3. ASSUME pc # "failed", prev_match_len # 0,
             OutputBackref((i - 1) - prev_match_pos, prev_match_len)
      PROVE  Legal
  <2>1. i - 1 \in Nat /\ i - 1 = Len(dst) /\ MatchAt(i - 1, prev_match_pos, prev_match_len)
    BY <1>1, <1>3, TypeFacts DEF Covered, MatchesInv, MatchAt
  <2> DEFINE n == i - 1
  <2>2. n \in Nat /\ n = Len(dst) /\ MatchAt(n, prev_match_pos, prev_match_len)
        /\ OutputBackref(n - prev_match_pos, prev_match_len)
    BY <1>3, <2>1
  <2> HIDE DEF n
  <2>3. \E r \in Tokens!Backrefs(src, n, max_dist, max_len, allow_overlap) :
           dst' = Tokens!output_backref(dst, r.dist, r.len)
    BY <1>1, <2>2, MatchIsToken
  <2>. QED  BY <2>2, <2>3 DEF Legal
<1>4. ASSUME UNCHANGED tokens PROVE Legal
  BY <1>4 DEF tokens, Legal
<1>5. CASE UsePrevious  BY <1>3, <1>5 DEF UsePrevious
<1>6. CASE NoMatch
  <2>1. OutputLit(i) /\ i = Len(dst) /\ i < src_len
    BY <1>6, DecideFacts DEF NoMatch
  <2>. QED  BY <1>2, <2>1
<1>7. CASE DeferMatch
  <2>1. CASE prev_match_len # 0
    <3>1. OutputLit(i - 1) /\ i - 1 = Len(dst) /\ i - 1 < src_len
      BY <1>1, <1>7, <2>1, DecideFacts, TypeFacts DEF DeferMatch
    <3>. QED  BY <1>2, <3>1
  <2>2. CASE prev_match_len = 0
    BY <1>4, <1>7, <2>2 DEF DeferMatch
  <2>. QED  BY <2>1, <2>2
<1>8. CASE LoopEnds
  <2>1. CASE prev_match_len # 0
    BY <1>3, <1>8, <2>1 DEF LoopEnds
  <2>2. CASE prev_match_len = 0
    BY <1>4, <1>8, <2>2 DEF LoopEnds
  <2>. QED  BY <2>1, <2>2
<1>9. CASE Rest
  <2>1. CASE i < src_len
    <3>1. OutputLit(i) /\ i = Len(dst)
      BY <1>1, <1>9, <2>1 DEF Rest, Covered, MatchesInv
    <3>. QED  BY <1>2, <2>1, <3>1
  <2>2. CASE ~(i < src_len)
    BY <1>4, <1>9, <2>2 DEF Rest
  <2>. QED  BY <2>1, <2>2
<1>10. CASE StartFind  BY <1>4, <1>10 DEF StartFind
<1>11. CASE WalkEnds  BY <1>4, <1>11 DEF WalkEnds
<1>12. CASE WalkPasses  BY <1>4, <1>12 DEF WalkPasses
<1>13. CASE WalkFinds  BY <1>4, <1>13 DEF WalkFinds
<1>14. CASE InsertSkipped  BY <1>4, <1>14 DEF InsertSkipped
<1>15. CASE CallbackFails  BY <1>4, <1>15 DEF CallbackFails
<1>16. CASE UNCHANGED vars  BY <1>4, <1>16 DEF vars
<1>. QED
  BY <1>5, <1>6, <1>7, <1>8, <1>9, <1>10, <1>11, <1>12, <1>13, <1>14, <1>15, <1>16 DEF Next

\* Every token of lz77_compress is one LzTokens has at that place of the input, so
\* the compressors, which are checked with all of those, are checked with it.
THEOREM TokensAreLegal == Spec => TokensLegal
<1>1. IInv /\ [Next]_vars => Legal
  BY NextLegal
<1>2. Legal => [\/ Len(dst) < src_len /\ dst' = Append(dst, src[Len(dst) + 1])
                \/ \E r \in Tokens!Backrefs(src, Len(dst), max_dist, max_len, allow_overlap) :
                      dst' = Tokens!output_backref(dst, r.dist, r.len)]_dst
  BY DEF Legal
<1>. QED  BY <1>1, <1>2, InvariantHolds, PTL DEF Spec, TokensLegal
================================================================================
