------------------------------ MODULE DeflateProofs ------------------------------
(***************************************************************************)
(* Proofs about Deflate, for any alphabets, tables and sizes.  The lengths *)
(* that HuffmanProofs says compute_huffman_lengths returns have all the    *)
(* symbols of a block and fit the decoder, so that all that is written are *)
(* bits.  Whatever bits are read, codes are used only after they were      *)
(* accepted, and what an accepted code yields is one of its symbols or     *)
(* none.  What the frequencies say a block takes is what its tokens take,  *)
(* counted one after the other.                                            *)
(***************************************************************************)
EXTENDS Deflate, FiniteSetTheorems, SequenceTheorems, TLAPS

\* What was proved of Huffman codes.
H == INSTANCE HuffmanProofs
     WITH NUM_SYMS <- 0, GIVEN_SYMS <- 0, MaxLens <- {}, freqs <- <<>>, max_len <- 0,
          freq_cap <- 0, nodes <- <<>>, h <- 0, lengths <- <<>>, pc <- "", bits <- 0, result <- 0

LEMMA SameBits ==
    /\ \A x, n : H!Bits(x, n) = Bits(x, n)
    /\ \A bs : H!ValueOf(bs) = ValueOf(bs)
    /\ \A x, n : H!reverse16(x, n) = reverse16(x, n)
  BY Zenon DEF H!Bits, Bits, H!ValueOf, ValueOf, H!reverse16, reverse16

LEMMA SameCardinality == \A S : H!Cardinality(S) = Cardinality(S)
  BY Zenon DEF H!Cardinality, Cardinality

LEMMA SameCount ==
    /\ H!Width = Width /\ H!Room = 2 ^ MAX_HUFFMAN_BITS
    /\ \A x : H!uint16(x) = uint16(x)
    /\ \A ls, l : H!OfLength(ls, l) = OfLength(ls, l) /\ H!count(ls, l) = count(ls, l)
  BY SameCardinality, Zenon DEF H!Width, Width, H!Room, H!uint16, uint16, H!count, count, H!OfLength, OfLength

LEMMA SameFirstCode ==
    \A ls : H!first_code(ls) = first_code(ls)
  BY Zenon DEF H!first_code, first_code, H!uint16, uint16, H!count, count, H!OfLength, OfLength,
               H!Cardinality, Cardinality

LEMMA SameCodeword ==
    \A ls, s : H!CanonicalCode(ls, s) = CanonicalCode(ls, s) /\ H!Codeword(ls, s) = Codeword(ls, s)
  BY SameFirstCode, SameCount, SameBits, SameCardinality, Zenon DEF H!CanonicalCode, CanonicalCode, H!Codeword, Codeword

LEMMA SameInit ==
    \A ls : H!huffman_decoder_init(ls) = huffman_decoder_init(ls)
  BY SameFirstCode, SameCount, Zenon DEF H!huffman_decoder_init, huffman_decoder_init

LEMMA SameTable ==
    \A ls, i : H!table(ls, i) = table(ls, i) /\ H!Lookup(ls, i) = Lookup(ls, i)
<1>1. ASSUME NEW ls, NEW i PROVE H!table(ls, i) = table(ls, i)
  BY SameCodeword, Zenon DEF H!table, table, H!lsb, lsb
<1>. QED  BY <1>1, Zenon DEF H!Lookup, Lookup

LEMMA SameLong ==
    \A ls, bs : H!DecodeLong(ls, bs) = DecodeLong(ls, bs)
<1>1. \A ls, l : H!sentinel_bits(ls, l) = sentinel_bits(ls, l)
   BY SameFirstCode, SameCount, Zenon DEF H!sentinel_bits, sentinel_bits
<1>2. \A ls, l : H!offset_first_sym_idx(ls, l) = offset_first_sym_idx(ls, l)
   BY SameFirstCode, SameCount, SameCardinality, Zenon DEF H!offset_first_sym_idx, offset_first_sym_idx
<1>3. \A ls, l : H!sym_idx(ls, l) = sym_idx(ls, l)
   BY SameCardinality, Zenon DEF H!sym_idx, sym_idx
<1> SUFFICES ASSUME NEW ls, NEW bs PROVE H!DecodeLong(ls, bs) = DecodeLong(ls, bs)
  OBVIOUS
<1> DEFINE msb == reverse16(bs, MAX_HUFFMAN_BITS)
           hits == {l \in HUFFMAN_LOOKUP_TABLE_BITS + 1 .. MAX_HUFFMAN_BITS : msb < sentinel_bits(ls, l)}
           l == CHOOSE x \in hits : \A y \in hits : x <= y
           idx == uint16(offset_first_sym_idx(ls, l) + msb \div 2 ^ (MAX_HUFFMAN_BITS - l))
           at == {s \in DOMAIN ls : ls[s] # 0 /\ sym_idx(ls, s) = idx}
           hitsH == {k \in HUFFMAN_LOOKUP_TABLE_BITS + 1 .. MAX_HUFFMAN_BITS : msb < H!sentinel_bits(ls, k)}
           any(S) == CHOOSE s \in S : TRUE
           atH(i) == {s \in DOMAIN ls : ls[s] # 0 /\ H!sym_idx(ls, s) = i}
<1>4. hitsH = hits
  BY <1>1, Zenon
<1>5. \A i, k : H!uint16(H!offset_first_sym_idx(ls, k) + i) = uint16(offset_first_sym_idx(ls, k) + i)
  BY <1>2, SameCount, Zenon
<1>6. atH(idx) = at
  BY <1>3, Zenon
<1>7. DecodeLong(ls, bs) = IF hits = {} THEN NoSymbol
                           ELSE IF at = {} THEN [sym |-> -2, used |-> l]
                           ELSE [sym |-> any(at), used |-> l]
  BY Zenon DEF DecodeLong
<1>8. H!DecodeLong(ls, bs) =
        LET lH == CHOOSE x \in hitsH : \A y \in hitsH : x <= y
            idxH == H!uint16(H!offset_first_sym_idx(ls, lH) + msb \div 2 ^ (MAX_HUFFMAN_BITS - lH))
        IN  IF hitsH = {} THEN H!NoSymbol
            ELSE IF atH(idxH) = {} THEN [sym |-> -2, used |-> lH]
            ELSE [sym |-> CHOOSE s \in atH(idxH) : TRUE, used |-> lH]
  <2>1. H!reverse16(bs, MAX_HUFFMAN_BITS) = msb
    BY SameBits
  <2> HIDE DEF msb
  <2>. QED  BY <2>1, Zenon DEF H!DecodeLong
<1>9. H!NoSymbol = NoSymbol
  BY DEF H!NoSymbol, NoSymbol
<1> HIDE DEF hitsH, atH, hits
<1>10. H!DecodeLong(ls, bs) =
         IF hits = {} THEN NoSymbol
         ELSE IF atH(idx) = {} THEN [sym |-> -2, used |-> l]
         ELSE [sym |-> any(atH(idx)), used |-> l]
  BY <1>4, <1>5, <1>8, <1>9, Zenon
<1> HIDE DEF at, any, idx, l
<1>. QED  BY <1>6, <1>7, <1>10, SMTT(30)

LEMMA SameDecoder ==
    \A ls, bs : H!huffman_decode(ls, bs) = huffman_decode(ls, bs)
  BY SameTable, SameLong, Zenon DEF H!huffman_decode, huffman_decode, H!lsb, lsb

LEMMA SameHeap ==
    /\ \A a, h, i : H!minheap_down(a, h, i) = minheap_down(a, h, i)
    /\ \A a, h : H!minheap_heapify(a, h) = minheap_heapify(a, h)
<1>1. ASSUME NEW a, NEW h, NEW i PROVE H!minheap_down(a, h, i) = minheap_down(a, h, i)
  BY Zenon DEF H!minheap_down, minheap_down, H!swap32, swap32, H!Arrays, Arrays
<1>2. ASSUME NEW a, NEW h PROVE H!minheap_heapify(a, h) = minheap_heapify(a, h)
  BY Zenon DEF H!minheap_heapify, minheap_heapify, H!minheap_down, minheap_down, H!swap32, swap32, H!Arrays, Arrays
<1>. QED  BY <1>1, <1>2, Zenon

LEMMA SameCoded == \A f : H!Coded(f) = Coded(f) /\ \A s : H!Nth(f, s) = Nth(f, s)
  BY Zenon DEF H!Coded, Coded, H!Nth, Nth, H!Cardinality, Cardinality

LEMMA SameInitNodes == \A f, cap : H!InitNodes(f, cap) = InitNodes(f, cap)
<1>1. ASSUME NEW f, NEW cap PROVE H!InitNodes(f, cap) = InitNodes(f, cap)
  BY SameHeap, Zenon DEF H!InitNodes, InitNodes, H!Capped, Capped, H!LINK, LINK, H!Coded, Coded, H!Nth, Nth,
     H!Cardinality, Cardinality
<1>. QED  BY <1>1, Zenon

LEMMA SameMerge == \A a, h : H!Merge(a, h) = Merge(a, h)
<1>1. ASSUME NEW a, NEW h PROVE H!PopFirst(a, h) = PopFirst(a, h)
  BY SameHeap, Zenon DEF H!PopFirst, PopFirst
<1>2. ASSUME NEW a, NEW p, NEW h PROVE H!Joined(a, p, h) = Joined(a, p, h)
  BY Zenon DEF H!Joined, Joined, H!FreqPart, FreqPart, H!Link, Link, H!LINK, LINK
<1>3. ASSUME NEW a, NEW h PROVE H!Merge(a, h) = Merge(a, h)
  BY <1>1, <1>2, SameHeap, Zenon DEF H!Merge, Merge
<1>. QED  BY <1>3, Zenon

LEMMA SameDepths == \A f, a : H!Depths(f, a) = Depths(f, a)
<1>1. ASSUME NEW f, NEW a PROVE H!Depths(f, a) = Depths(f, a)
  BY Zenon DEF H!Depths, Depths, H!Depth, Depth, H!Nth, Nth, H!Coded, Coded, H!Cardinality, Cardinality
<1>. QED  BY <1>1, Zenon

LEMMA SameLengths ==
    \A fs, m : H!compute_huffman_lengths(fs, m) = compute_huffman_lengths(fs, m)
<1> SUFFICES ASSUME NEW f, NEW m PROVE H!compute_huffman_lengths(f, m) = compute_huffman_lengths(f, m)
  BY Zenon
<1> DEFINE n == Cardinality(Coded(f))
           States == [1 .. 2 * Cardinality(DOMAIN f) -> Nat] \X (1 .. n)
           treeH == CHOOSE t : t = [s \in States |-> IF s[2] = 1 THEN s[1] ELSE t[<<H!Merge(s[1], s[2]), s[2] - 1>>]]
           tree == CHOOSE t : t = [s \in States |-> IF s[2] = 1 THEN s[1] ELSE t[<<Merge(s[1], s[2]), s[2] - 1>>]]
           lsH(cap) == H!Depths(f, treeH[<<H!InitNodes(f, cap), n>>])
           ls(cap) == Depths(f, tree[<<InitNodes(f, cap), n>>])
           tryH == CHOOSE t : t = [cap \in 1 .. UINT16_MAX |->
                     IF H!TooLong(lsH(cap), m) /\ cap # 1 THEN t[cap \div 2] ELSE lsH(cap)]
           try == CHOOSE t : t = [cap \in 1 .. UINT16_MAX |->
                     IF TooLong(ls(cap), m) /\ cap # 1 THEN t[cap \div 2] ELSE ls(cap)]
<1>1. treeH = tree
  <2>1. ASSUME NEW t
        PROVE  [s \in States |-> IF s[2] = 1 THEN s[1] ELSE t[<<H!Merge(s[1], s[2]), s[2] - 1>>]]
                 = [s \in States |-> IF s[2] = 1 THEN s[1] ELSE t[<<Merge(s[1], s[2]), s[2] - 1>>]]
    BY SameMerge, Zenon
  <2>. QED  BY <2>1, ZenonT(40)
<1> HIDE DEF treeH, tree
<1>2. \A cap : lsH(cap) = ls(cap)
  BY <1>1, SameDepths, SameInitNodes, Zenon
<1> HIDE DEF lsH, ls
<1>3. \A l : H!TooLong(l, m) = TooLong(l, m)
  BY Zenon DEF H!TooLong, TooLong
<1>4. tryH = try
  <2>1. ASSUME NEW t
        PROVE  [cap \in 1 .. UINT16_MAX |-> IF H!TooLong(lsH(cap), m) /\ cap # 1 THEN t[cap \div 2] ELSE lsH(cap)]
                 = [cap \in 1 .. UINT16_MAX |-> IF TooLong(ls(cap), m) /\ cap # 1 THEN t[cap \div 2] ELSE ls(cap)]
    BY <1>2, <1>3, Zenon
  <2>. QED  BY <2>1, Zenon
<1>5. H!compute_huffman_lengths(f, m) = IF n < 2 THEN H!FewLengths(f) ELSE tryH[UINT16_MAX]
  BY Zenon DEF H!compute_huffman_lengths, lsH, treeH, H!Coded, Coded, H!Cardinality, Cardinality
<1>6. compute_huffman_lengths(f, m) = IF n < 2 THEN FewLengths(f) ELSE try[UINT16_MAX]
  BY Zenon DEF compute_huffman_lengths, ls, tree
<1>7. H!FewLengths(f) = FewLengths(f)
  BY Zenon DEF H!FewLengths, FewLengths
<1> HIDE DEF n, tryH, try
<1>. QED  BY <1>4, <1>5, <1>6, <1>7, Zenon

--------------------------------------------------------------------------------
(***************************************************************************)
(* Numbers and recursion, as they were proved with the Huffman decoder.    *)
(***************************************************************************)
\* The assumptions of the instance.
LEMMA Assumed ==
    /\ MAX_HUFFMAN_BITS \in Nat /\ HUFFMAN_LOOKUP_TABLE_BITS \in Nat
    /\ 0 < HUFFMAN_LOOKUP_TABLE_BITS /\ HUFFMAN_LOOKUP_TABLE_BITS < MAX_HUFFMAN_BITS
    /\ UINT16_MAX \in Nat \ {0}
    /\ (0 \in Nat /\ 0 \in Nat) /\ (\A l \in {} : l \in H!Width /\ 2 ^ l >= 0) /\ 2 * 0 <= UINT16_MAX
  BY HuffmanAssumption

LEMMA LeastElement ==
    ASSUME NEW S, S \subseteq Nat, S # {}
    PROVE  \E m \in S : \A n \in S : m <= n
  BY Assumed, H!LeastElement, Zenon

LEMMA Climb ==
    ASSUME NEW n \in Nat, NEW T, 0 \in T, \A j \in 0 .. n - 1 : j \in T => j + 1 \in T
    PROVE  \A i \in 0 .. n : i \in T
  BY Assumed, H!Climb, Zenon

LEMMA DivMod ==
    ASSUME NEW a \in Nat, NEW d \in Nat \ {0}
    PROVE  /\ a \div d \in Nat /\ a % d \in 0 .. d - 1
           /\ a = d * (a \div d) + (a % d)
  BY Assumed, H!DivMod, Zenon

LEMMA Power == ASSUME NEW n \in Nat PROVE 2 ^ n \in Nat \ {0}
<1>1. 2 ^ n \in Nat /\ 2 ^ n >= 1
  BY Assumed, H!PowerStep, Zenon
<1>. QED  BY <1>1

LEMMA ValueBound ==
    ASSUME NEW n \in Nat, NEW bs \in [1 .. n -> {0, 1}]
    PROVE  ValueOf(bs) \in 0 .. 2 ^ n - 1
<1>1. H!ValueOf(bs) \in 0 .. 2 ^ n - 1
  BY Assumed, H!ValueBound, Zenon
<1>. QED  BY <1>1, SameBits

LEMMA Recursion ==
    ASSUME NEW n \in Nat, NEW V, NEW z \in V, NEW g \in [V \X (1 .. n) -> V]
    PROVE  \E f \in [0 .. n -> V] : H!Recurs(f, n, z, g)
<1>1. g \in H!Steps(V, n)
  BY Zenon DEF H!Steps
<1>. QED  BY <1>1, Assumed, H!Recursion, Zenon

--------------------------------------------------------------------------------
(***************************************************************************)
(* Sums.  A sum is the last of its partial sums, which are added up in     *)
(* order.                                                                  *)
(***************************************************************************)
\* M[k] is the sum of the first k elements of a.
Sums(M, a, n) == M \in [0 .. n -> Nat] /\ M[0] = 0 /\ \A k \in 1 .. n : M[k] = M[k - 1] + a[k]

SumOf(a, n) == (CHOOSE M : Sums(M, a, n))[n]

LEMMA SumsExist ==
    ASSUME NEW n \in Nat, NEW a \in [1 .. n -> Nat]
    PROVE  \E M : Sums(M, a, n)
<1> DEFINE g == [p \in Nat \X (1 .. n) |-> p[1] + a[p[2]]]
<1>1. g \in [Nat \X (1 .. n) -> Nat]
  <2>1. ASSUME NEW p \in Nat \X (1 .. n) PROVE p[1] + a[p[2]] \in Nat
    <3>1. p[1] \in Nat /\ a[p[2]] \in Nat
      OBVIOUS
    <3>. QED  BY <3>1
  <2>. QED  BY <2>1
<1>2. PICK M \in [0 .. n -> Nat] : M[0] = 0 /\ \A k \in 1 .. n : M[k] = g[M[k - 1], k]
  <2> HIDE DEF g
  <2>1. PICK M \in [0 .. n -> Nat] : H!Recurs(M, n, 0, g)
    BY <1>1, Recursion
  <2>. QED  BY <2>1, Zenon DEF H!Recurs
<1>3. ASSUME NEW k \in 1 .. n PROVE M[k] = M[k - 1] + a[k]
  <2>1. k - 1 \in 0 .. n
    OBVIOUS
  <2>2. M[k - 1] \in Nat
    BY <1>2, <2>1
  <2>3. g[M[k - 1], k] = M[k - 1] + a[k]
    BY <2>2
  <2>. QED  BY <1>2, <2>3
<1>. QED  BY <1>2, <1>3 DEF Sums

\* Two sums that grow alike are the same.
LEMMA SumsAre ==
    ASSUME NEW n \in Nat, NEW a \in [1 .. n -> Nat], NEW M, Sums(M, a, n)
    PROVE  SumOf(a, n) = M[n] /\ SumOf(a, n) \in Nat
<1>1. PICK A : Sums(A, a, n) /\ SumOf(a, n) = A[n]
  BY SumsExist DEF SumOf
<1> DEFINE T == {k \in 0 .. n : A[k] = M[k]}
<1>2. 0 \in T
  BY <1>1 DEF Sums
<1>3. ASSUME NEW j \in 0 .. n - 1, j \in T PROVE j + 1 \in T
  <2>1. j + 1 \in 1 .. n /\ (j + 1) - 1 = j
    OBVIOUS
  <2>2. A[j + 1] = A[j] + a[j + 1] /\ M[j + 1] = M[j] + a[j + 1]
    BY <1>1, <2>1 DEF Sums
  <2>. QED  BY <1>3, <2>1, <2>2
<1>4. n \in T
  <2> HIDE DEF T
  <2>1. \A i \in 0 .. n : i \in T
    BY <1>2, <1>3, Climb
  <2>. QED  BY <2>1
<1>. QED  BY <1>1, <1>4 DEF Sums

LEMMA SumType ==
    ASSUME NEW n \in Nat, NEW a \in [1 .. n -> Nat] PROVE SumOf(a, n) \in Nat
  BY SumsExist, SumsAre

\* Sums of which one element differs.
LEMMA SumOneMore ==
    ASSUME NEW n \in Nat, NEW a \in [1 .. n -> Nat], NEW b \in [1 .. n -> Nat], NEW x \in 1 .. n, NEW d \in Nat,
           b[x] = a[x] + d, \A k \in 1 .. n : k # x => b[k] = a[k]
    PROVE  SumOf(b, n) = SumOf(a, n) + d
<1>1. PICK A : Sums(A, a, n)
  BY SumsExist
<1> DEFINE e(k) == IF x <= k THEN d ELSE 0
           B == [k \in 0 .. n |-> A[k] + e(k)]
<1>2. A \in [0 .. n -> Nat] /\ A[0] = 0 /\ \A k \in 1 .. n : A[k] = A[k - 1] + a[k]
  BY <1>1 DEF Sums
<1>3. B \in [0 .. n -> Nat] /\ B[0] = 0 /\ \A k \in 0 .. n : B[k] = A[k] + e(k)
  <2>1. e(0) = 0 /\ \A k \in 0 .. n : e(k) \in Nat
    OBVIOUS
  <2>2. \A k \in 0 .. n : A[k] \in Nat
    BY <1>2
  <2> HIDE DEF e
  <2>3. \A k \in 0 .. n : A[k] + e(k) \in Nat
    BY <2>1, <2>2, SMTT(40)
  <2>4. A[0] + e(0) = 0 /\ 0 \in 0 .. n
    BY <1>2, <2>1
  <2>. QED  BY <2>3, <2>4
<1> HIDE DEF B
<1>4. ASSUME NEW k \in 1 .. n PROVE B[k] = B[k - 1] + b[k]
  <2>1. k - 1 \in 0 .. n /\ k \in 0 .. n
    OBVIOUS
  <2>2. PICK u \in Nat, v \in Nat, p \in Nat : u = A[k - 1] /\ v = A[k] /\ p = a[k] /\ v = u + p
    <3>1. A[k - 1] \in Nat /\ A[k] \in Nat /\ a[k] \in Nat /\ A[k] = A[k - 1] + a[k]
      BY <1>2, <2>1
    <3>. QED  BY <3>1
  <2>3. B[k] = v + (IF x <= k THEN d ELSE 0) /\ B[k - 1] = u + IF x <= k - 1 THEN d ELSE 0
    BY <1>3, <2>1, <2>2
  <2>4. b[k] = p + IF k = x THEN d ELSE 0
    BY <2>2, SMTT(30)
  <2>5. v = u + p
    BY <2>2
  <2>6. v + (IF x <= k THEN d ELSE 0) = u + (IF x <= k - 1 THEN d ELSE 0) + (p + IF k = x THEN d ELSE 0)
    <3>1. CASE k < x
      BY <2>5, <3>1
    <3>2. CASE k = x
      BY <2>5, <3>2
    <3>3. CASE k > x
      BY <2>5, <3>3
    <3>. QED  BY <3>1, <3>2, <3>3
  <2>. QED  BY <2>3, <2>4, <2>6
<1>5. Sums(B, b, n)
  BY <1>3, <1>4 DEF Sums
<1>6. SumOf(b, n) = B[n] /\ SumOf(a, n) = A[n]
  BY <1>1, <1>5, SumsAre
<1>7. B[n] = A[n] + d
  BY <1>3
<1>. QED  BY <1>6, <1>7

LEMMA SumZero ==
    ASSUME NEW n \in Nat, NEW a \in [1 .. n -> Nat], \A k \in 1 .. n : a[k] = 0
    PROVE  SumOf(a, n) = 0
<1> DEFINE M == [k \in 0 .. n |-> 0]
<1>1. Sums(M, a, n)
  <2>1. M \in [0 .. n -> Nat] /\ \A k \in 0 .. n : M[k] = 0
    OBVIOUS
  <2> HIDE DEF M
  <2>2. \A k \in 1 .. n : k - 1 \in 0 .. n /\ k \in 0 .. n
    OBVIOUS
  <2>. QED  BY <2>1, <2>2 DEF Sums
<1>2. M[n] = 0
  OBVIOUS
<1> HIDE DEF M
<1>. QED  BY <1>1, <1>2, SumsAre

\* The sum of w over the symbols of C, a part of the alphabet 0 .. m.
Weights(w, C, m) == [k \in 1 .. m + 1 |-> IF k - 1 \in C THEN w[k - 1] ELSE 0]
Total(w, C, m) == SumOf(Weights(w, C, m), m + 1)

LEMMA TotalFacts ==
    ASSUME NEW m \in Nat, NEW C \in SUBSET (0 .. m), NEW w \in [0 .. m -> Nat]
    PROVE  /\ Weights(w, C, m) \in [1 .. m + 1 -> Nat]
           /\ Total(w, C, m) \in Nat
           /\ Total(w, {}, m) = 0
           /\ \A x \in C : Total(w, C, m) = w[x] + Total(w, C \ {x}, m)
<1>1. \A D \in SUBSET (0 .. m) : Weights(w, D, m) \in [1 .. m + 1 -> Nat]
  <2>1. \A k \in 1 .. m + 1 : k - 1 \in 0 .. m
    OBVIOUS
  <2>. QED  BY <2>1 DEF Weights
<1>2. \A D \in SUBSET (0 .. m) : Total(w, D, m) \in Nat
  BY <1>1, SumType DEF Total
<1>3. Total(w, {}, m) = 0
  <2>1. \A k \in 1 .. m + 1 : Weights(w, {}, m)[k] = 0
    BY DEF Weights
  <2>2. Weights(w, {}, m) \in [1 .. m + 1 -> Nat] /\ m + 1 \in Nat
    BY <1>1
  <2>. QED  BY <2>1, <2>2, SumZero DEF Total
<1>4. ASSUME NEW x \in C PROVE Total(w, C, m) = w[x] + Total(w, C \ {x}, m)
  <2> DEFINE D == C \ {x}
             a == Weights(w, D, m)
             b == Weights(w, C, m)
             n == m + 1
  <2>1. a \in [1 .. n -> Nat] /\ b \in [1 .. n -> Nat] /\ Total(w, D, m) \in Nat
    BY <1>1, <1>2
  <2>2. PICK p \in 1 .. n, d \in Nat : p = x + 1 /\ p - 1 = x /\ d = w[x]
    OBVIOUS
  <2>3. a[p] = 0 /\ b[p] = d
    BY <2>2 DEF Weights
  <2>4. \A k \in 1 .. n : k # p => b[k] = a[k]
    <3> TAKE k \in 1 .. n
    <3>1. k # p => k - 1 # x
      BY <2>2
    <3>. QED  BY <3>1 DEF Weights
  <2>5. Total(w, C, m) = SumOf(b, n) /\ Total(w, D, m) = SumOf(a, n) /\ n \in Nat
    BY DEF Total
  <2> HIDE DEF a, b, D, n
  <2>6. SumOf(b, n) = SumOf(a, n) + d
    <3>1. b[p] = a[p] + d
      BY <2>3
    <3>. QED  BY <2>1, <2>4, <2>5, <3>1, SumOneMore, Zenon
  <2>. QED  BY <2>1, <2>2, <2>5, <2>6 DEF D
<1>. QED  BY <1>1, <1>2, <1>3, <1>4

LEMMA TotalOneMore ==
    ASSUME NEW m \in Nat, NEW w \in [0 .. m -> Nat], NEW u \in [0 .. m -> Nat], NEW x \in 0 .. m, NEW d \in Nat,
           u[x] = w[x] + d, \A y \in 0 .. m : y # x => u[y] = w[y]
    PROVE  Total(u, 0 .. m, m) = Total(w, 0 .. m, m) + d
<1> DEFINE a == Weights(w, 0 .. m, m)
           b == Weights(u, 0 .. m, m)
           n == m + 1
<1>1. a \in [1 .. n -> Nat] /\ b \in [1 .. n -> Nat]
  BY TotalFacts
<1>2. PICK p \in 1 .. n : p = x + 1 /\ p - 1 = x
  OBVIOUS
<1>3. b[p] = a[p] + d
  BY <1>2 DEF Weights
<1>4. ASSUME NEW k \in 1 .. n, k # p PROVE b[k] = a[k]
  <2>1. k - 1 \in 0 .. m /\ k - 1 # x
    BY <1>2, <1>4
  <2>2. u[k - 1] = w[k - 1]
    BY <2>1
  <2>. QED  BY <2>2 DEF Weights
<1>5. Total(w, 0 .. m, m) = SumOf(a, n) /\ Total(u, 0 .. m, m) = SumOf(b, n) /\ n \in Nat
  BY DEF Total
<1> HIDE DEF a, b, n
<1>6. SumOf(b, n) = SumOf(a, n) + d
  BY <1>1, <1>3, <1>4, <1>5, SumOneMore, Zenon
<1>. QED  BY <1>5, <1>6

Folded(g, w, C) ==
    g = [s \in SUBSET C |-> IF s = {} THEN 0 ELSE w[CHOOSE x \in s : TRUE] + g[s \ {CHOOSE x \in s : TRUE}]]

\* The sum of the community modules over an alphabet, which adds in any order.
LEMMA FoldedTotal ==
    ASSUME NEW m \in Nat, NEW w \in [0 .. m -> Nat]
    PROVE  /\ \E g : Folded(g, w, 0 .. m)
           /\ \A g : Folded(g, w, 0 .. m) => g[0 .. m] = Total(w, 0 .. m, m)
<1> DEFINE C == 0 .. m
           g == [s \in SUBSET C |-> Total(w, s, m)]
           any(s) == CHOOSE x \in s : TRUE
<1>1. Folded(g, w, C)
  <2>1. ASSUME NEW s \in SUBSET C, s # {} PROVE g[s] = w[any(s)] + g[s \ {any(s)}]
    <3>. PICK x \in s : x = any(s)
      BY <2>1
    <3>1. Total(w, s, m) = w[x] + Total(w, s \ {x}, m)
      BY TotalFacts
    <3>. QED  BY <3>1
  <2>2. {} \in SUBSET C /\ g[{}] = 0
    BY TotalFacts
  <2>3. g = [s \in SUBSET C |-> g[s]]
    OBVIOUS
  <2> HIDE DEF g
  <2>. QED  BY <2>1, <2>2, <2>3 DEF Folded
<1>2. ASSUME NEW h, Folded(h, w, C) PROVE h[C] = Total(w, C, m)
  <2> DEFINE T == {k \in 0 .. m + 1 : \A s \in SUBSET C : Cardinality(s) = k => h[s] = Total(w, s, m)}
  <2>1. \A s \in SUBSET C : IsFiniteSet(s) /\ Cardinality(s) \in 0 .. m + 1
    <3>1. IsFiniteSet(C) /\ Cardinality(C) = m + 1
      BY FS_Interval
    <3> HIDE DEF C
    <3>2. \A s \in SUBSET C : IsFiniteSet(s) /\ Cardinality(s) <= m + 1
      BY <3>1, FS_Subset
    <3>. QED  BY <3>2, FS_CardinalityType
  <2>2. h[{}] = 0 /\ Total(w, {}, m) = 0
    <3>1. Total(w, {}, m) = 0
      BY TotalFacts, Zenon
    <3>. QED  BY <1>2, <3>1 DEF Folded
  <2>3. \A s \in SUBSET C : \A x \in s : Total(w, s, m) = w[x] + Total(w, s \ {x}, m)
    BY TotalFacts
  <2> HIDE DEF C
  <2>4. 0 \in T
    <3>1. \A s \in SUBSET C : Cardinality(s) = 0 => s = {}
      BY <2>1, FS_EmptySet
    <3>2. \A s \in SUBSET C : Cardinality(s) = 0 => h[s] = Total(w, s, m)
      BY <2>2, <3>1, Zenon
    <3>3. 0 \in 0 .. m + 1
      OBVIOUS
    <3>. QED  BY <3>2, <3>3, Zenon
  <2>5. ASSUME NEW j \in 0 .. m, j \in T PROVE j + 1 \in T
    <3> SUFFICES ASSUME NEW s \in SUBSET C, Cardinality(s) = j + 1 PROVE h[s] = Total(w, s, m)
      <4>1. j + 1 \in 0 .. m + 1
        OBVIOUS
      <4>. QED  BY <4>1
    <3>1. s # {}
      <4>1. Cardinality({}) = 0
        BY FS_EmptySet
      <4>2. j + 1 # 0
        OBVIOUS
      <4>. QED  BY <4>1, <4>2, Zenon
    <3>2. PICK x \in s : h[s] = w[x] + h[s \ {x}]
      <4>1. any(s) \in s
        BY <3>1
      <4>2. h[s] = w[any(s)] + h[s \ {any(s)}]
        BY <1>2, <3>1 DEF Folded
      <4>. QED  BY <4>1, <4>2
    <3>3. s \ {x} \in SUBSET C /\ Cardinality(s \ {x}) = j
      <4>1. Cardinality(s \ {x}) = Cardinality(s) - 1
        BY <2>1, FS_RemoveElement
      <4>. QED  BY <4>1
    <3>4. h[s \ {x}] = Total(w, s \ {x}, m)
      BY <2>5, <3>3
    <3>. QED  BY <2>3, <3>2, <3>4
  <2>6. Cardinality(C) \in T
    <3> HIDE DEF T
    <3>1. Cardinality(C) \in 0 .. m + 1
      BY <2>1
    <3>2. \A j \in 0 .. (m + 1) - 1 : j \in T => j + 1 \in T
      BY <2>5
    <3>3. \A i \in 0 .. m + 1 : i \in T
      <4>1. m + 1 \in Nat
        OBVIOUS
      <4>. QED  BY <2>4, <3>2, <4>1, Climb
    <3>. QED  BY <3>1, <3>3
  <2>. QED  BY <2>6
<1>. QED  BY <1>1, <1>2

--------------------------------------------------------------------------------
(***************************************************************************)
(* Streams.                                                                *)
(***************************************************************************)
Bit == {0, 1}

LEMMA BitsSeq ==
    ASSUME NEW x \in Int, NEW n \in Nat
    PROVE  Bits(x, n) \in [1 .. n -> Bit] /\ Bits(x, n) \in Seq(Bit) /\ Len(Bits(x, n)) = n
<1>1. \A i \in 1 .. n : (x \div 2 ^ (i - 1)) % 2 \in Bit
  <2> TAKE i \in 1 .. n
  <2>1. PICK d \in Nat \ {0} : d = 2 ^ (i - 1)
    BY Power
  <2>2. x \div d \in Int
    BY <2>1
  <2>. QED  BY <2>1, <2>2 DEF Bit
<1>2. Bits(x, n) \in [1 .. n -> Bit]
  BY <1>1 DEF Bits
<1>. QED  BY <1>2

\* The bits read are a number of so many bits.
LEMMA ReadBound ==
    ASSUME NEW is \in Seq(Bit), NEW at \in Nat, NEW n \in Nat
    PROVE  istream_bits(is, at, n) \in 0 .. 2 ^ n - 1 /\ istream_bits(is, at, n) \in Nat
<1> DEFINE bs == [i \in 1 .. n |-> IF at + i <= Len(is) THEN is[at + i] ELSE 0]
<1>1. \A i \in 1 .. n : (IF at + i <= Len(is) THEN is[at + i] ELSE 0) \in {0, 1}
  BY DEF Bit
<1>2. bs \in [1 .. n -> {0, 1}]
  BY <1>1
<1>3. 2 ^ n \in Nat
  BY Power
<1> HIDE DEF bs
<1>4. ValueOf(bs) \in 0 .. 2 ^ n - 1
  BY <1>2, ValueBound
<1>. QED  BY <1>3, <1>4 DEF istream_bits, bs

LEMMA ReversedNat ==
    ASSUME NEW c \in Nat, NEW n \in Nat PROVE reverse16(c, n) \in Nat
<1> DEFINE r == [i \in 1 .. n |-> Bits(c, n)[n + 1 - i]]
<1>1. Bits(c, n) \in [1 .. n -> Bit]
  BY BitsSeq
<1>2. r \in [1 .. n -> {0, 1}]
  BY <1>1 DEF Bit
<1>3. 2 ^ n \in Nat
  BY Power
<1> HIDE DEF r
<1>4. ValueOf(r) \in 0 .. 2 ^ n - 1
  BY <1>2, ValueBound
<1>. QED  BY <1>3, <1>4 DEF reverse16, r

\* Codes that the compressor may have: a length for each of finitely many symbols.
Codes(D) == [D -> Nat]

LEMMA CodewordNat ==
    ASSUME NEW D, IsFiniteSet(D), NEW ls \in Codes(D), NEW s \in D
    PROVE  Codeword(ls, s) \in Nat
<1>1. DOMAIN ls = D /\ ls[s] \in Nat
  BY DEF Codes
<1>2. H!first_code(ls) \in [Nat -> 0 .. H!Room - 1]
  <2>1. H!IsFiniteSet(DOMAIN ls)
    BY <1>1, Zenon DEF H!IsFiniteSet, IsFiniteSet
  <2>. QED  BY <2>1, Assumed, H!FirstCodeOf, Zenon
<1>3. PICK r \in Nat \ {0} : r = 2 ^ MAX_HUFFMAN_BITS
  BY Power, Assumed
<1>4. first_code(ls)[ls[s]] \in Nat
  BY <1>1, <1>2, <1>3, SameFirstCode, SameCount
<1> DEFINE B == {t \in OfLength(ls, ls[s]) : t < s}
<1>5. Cardinality(B) \in Nat
  <2>1. B \subseteq D
    BY <1>1 DEF OfLength
  <2>. QED  BY <2>1, FS_Subset, FS_CardinalityType
<1> HIDE DEF B
<1>6. \A x \in Nat : uint16(x) \in Nat
  BY <1>3 DEF uint16
<1>7. CanonicalCode(ls, s) \in Nat
  BY <1>4, <1>5, <1>6 DEF CanonicalCode, B
<1>. QED  BY <1>1, <1>7, ReversedNat DEF Codeword

\* w[i] is the first i of the sequences ss joined.
Joins(w, ss) == \A i \in 1 .. Len(ss) : w[i] = IF i = 1 THEN ss[i] ELSE w[i - 1] \o ss[i]

LEMMA FlattenSteps ==
    ASSUME NEW S, NEW ss \in Seq(Seq(S)), Len(ss) # 0
    PROVE  \E w : FlattenSeq(ss) = w[Len(ss)] /\ Joins(w, ss)
<1>1. PICK n \in Nat \ {0} : n = Len(ss)
  OBVIOUS
<1> DEFINE e(f, i) == IF i = 1 THEN ss[i] ELSE f[i - 1] \o ss[i]
           Is(f) == f = [i \in 1 .. n |-> e(f, i)]
           V == Seq(S)
           g == [p \in V \X (1 .. n) |-> IF p[2] = 1 THEN ss[1] ELSE p[1] \o ss[p[2]]]
<1>2. \A i \in 1 .. n : ss[i] \in V
  BY <1>1
<1>3. g \in [V \X (1 .. n) -> V]
  <2>1. ASSUME NEW p \in V \X (1 .. n) PROVE (IF p[2] = 1 THEN ss[1] ELSE p[1] \o ss[p[2]]) \in V
    BY <1>2
  <2>. QED  BY <2>1
<1> DEFINE z == <<>>
<1>4. z \in V
  OBVIOUS
<1> HIDE DEF z
<1>5. PICK f \in [0 .. n -> V] : f[0] = z /\ \A k \in 1 .. n : f[k] = g[f[k - 1], k]
  <2> HIDE DEF g, V
  <2>1. n \in Nat
    BY <1>1
  <2>2. PICK f \in [0 .. n -> V] : H!Recurs(f, n, z, g)
    BY <1>3, <1>4, <2>1, Recursion
  <2>. QED  BY <2>2, Zenon DEF H!Recurs
<1> DEFINE h == [i \in 1 .. n |-> f[i]]
<1>6. \A i \in 1 .. n : h[i] = e(h, i)
  <2> TAKE i \in 1 .. n
  <2>1. f[i] = g[f[i - 1], i] /\ f[i - 1] \in V
    <3> HIDE DEF g, V
    <3>1. i - 1 \in 0 .. n
      OBVIOUS
    <3>. QED  BY <1>5, <3>1, Zenon
  <2>2. g[f[i - 1], i] = IF i = 1 THEN ss[1] ELSE f[i - 1] \o ss[i]
    <3> DEFINE p == <<f[i - 1], i>>
    <3>1. p \in V \X (1 .. n) /\ p[1] = f[i - 1] /\ p[2] = i
      <4> HIDE DEF g, V
      <4>. QED  BY <2>1
    <3> HIDE DEF p, V
    <3>2. g[p] = IF p[2] = 1 THEN ss[1] ELSE p[1] \o ss[p[2]]
      BY <3>1, Zenon
    <3> HIDE DEF g
    <3>. QED  BY <3>1, <3>2, Zenon DEF p
  <2>3. h[i] = IF i = 1 THEN ss[1] ELSE f[i - 1] \o ss[i]
    <3>1. h[i] = f[i]
      OBVIOUS
    <3> HIDE DEF g, h, V
    <3>. QED  BY <2>1, <2>2, <3>1, Zenon
  <2>4. i # 1 => h[i - 1] = f[i - 1]
    <3> HIDE DEF g, V
    <3>1. i # 1 => i - 1 \in 1 .. n
      OBVIOUS
    <3>. QED  BY <3>1, Zenon
  <2> HIDE DEF h
  <2>. QED  BY <2>3, <2>4
<1>7. Is(h)
  BY <1>6, Zenon
<1> DEFINE w == CHOOSE x : Is(x)
<1>8. Is(w)
  BY <1>7, Zenon
<1>9. FlattenSeq(ss) = w[n]
  BY <1>1, Zenon DEF FlattenSeq
<1>10. \A i \in 1 .. n : w[i] = e(w, i)
  <2> HIDE DEF w
  <2>. QED  BY <1>8, Zenon
<1> HIDE DEF w
<1>. QED  BY <1>1, <1>9, <1>10, Zenon DEF Joins

\* Sequences joined are a sequence of the same things, as long as they are together.
LEMMA FlattenedLen ==
    ASSUME NEW S, NEW ss \in Seq(Seq(S)), NEW M, M[0] = 0, \A k \in 1 .. Len(ss) : M[k] = M[k - 1] + Len(ss[k])
    PROVE  FlattenSeq(ss) \in Seq(S) /\ Len(FlattenSeq(ss)) = M[Len(ss)]
<1>1. PICK n \in Nat : n = Len(ss)
  OBVIOUS
<1>2. CASE n = 0
  <2>1. ss = <<>>
    <3>1. Len(ss) = 0
      BY <1>1, <1>2
    <3>. QED  BY <3>1, EmptySeq
  <2>2. FlattenSeq(ss) = ss
    BY <1>1, <1>2, Zenon DEF FlattenSeq
  <2>3. <<>> \in Seq(S) /\ Len(<<>>) = 0
    OBVIOUS
  <2>. QED  BY <1>1, <1>2, <2>1, <2>2, <2>3, Zenon
<1>3. CASE n # 0
  <2>1. PICK w : FlattenSeq(ss) = w[n] /\ Joins(w, ss)
    BY <1>1, <1>3, FlattenSteps
  <2> DEFINE V == Seq(S)
             T == {i \in 0 .. n : i = 0 \/ (w[i] \in V /\ Len(w[i]) = M[i])}
  <2>2. \A i \in 1 .. n : ss[i] \in V
    BY <1>1
  <2>3. \A j \in 0 .. n - 1 : j \in T => j + 1 \in T
    <3> SUFFICES ASSUME NEW j \in 0 .. n - 1, j \in T PROVE j + 1 \in T
      OBVIOUS
    <3>1. j + 1 \in 1 .. n /\ j + 1 \in 0 .. n /\ (j + 1) - 1 = j
      OBVIOUS
    <3>2. /\ w[j + 1] = IF j + 1 = 1 THEN ss[j + 1] ELSE w[j] \o ss[j + 1]
          /\ M[j + 1] = M[j] + Len(ss[j + 1])
      <4> HIDE DEF T
      <4>. QED  BY <1>1, <2>1, <3>1 DEF Joins
    <3>3. ss[j + 1] \in V
      BY <2>2, <3>1
    <3>4. CASE j = 0
      <4>1. w[j + 1] = ss[j + 1] /\ M[j + 1] = 0 + Len(ss[j + 1])
        BY <3>2, <3>4
      <4>2. Len(ss[j + 1]) \in Nat
        BY <3>3
      <4>. QED  BY <3>1, <3>3, <4>1, <4>2
    <3>5. CASE j # 0
      <4>1. w[j + 1] = w[j] \o ss[j + 1] /\ w[j] \in V /\ Len(w[j]) = M[j]
        <5>1. j + 1 # 1
          BY <3>5
        <5>2. w[j + 1] = w[j] \o ss[j + 1]
          BY <3>2, <5>1, Zenon
        <5>. QED  BY <3>5, <5>2
      <4>2. \A a, b \in V : a \o b \in V /\ Len(a \o b) = Len(a) + Len(b)
        OBVIOUS
      <4>3. w[j + 1] \in V /\ Len(w[j + 1]) = M[j + 1]
        <5> HIDE DEF V
        <5>. QED  BY <3>2, <3>3, <4>1, <4>2, Zenon
      <4>. QED  BY <3>1, <4>3
    <3>. QED  BY <3>4, <3>5
  <2>4. n \in T
    <3> HIDE DEF T
    <3>1. 0 \in T
      BY DEF T
    <3>2. \A i \in 0 .. n : i \in T
      BY <2>3, <3>1, Climb
    <3>. QED  BY <3>2
  <2>. QED  BY <1>1, <1>3, <2>1, <2>4
<1>. QED  BY <1>2, <1>3

LEMMA Flattened ==
    ASSUME NEW S, NEW ss \in Seq(Seq(S))
    PROVE  FlattenSeq(ss) \in Seq(S)
<1>1. Len(ss) \in Nat /\ \A i \in 1 .. Len(ss) : ss[i] \in Seq(S) /\ Len(ss[i]) \in Nat
  OBVIOUS
<1>2. PICK n, a : n \in Nat /\ n = Len(ss) /\ a = [i \in 1 .. n |-> Len(ss[i])]
  BY <1>1
<1>3. a \in [1 .. n -> Nat]
  BY <1>1, <1>2
<1>4. PICK M : Sums(M, a, n)
  BY <1>2, <1>3, SumsExist
<1>5. M[0] = 0 /\ \A k \in 1 .. Len(ss) : M[k] = M[k - 1] + Len(ss[k])
  BY <1>2, <1>4 DEF Sums
<1>. QED  BY <1>5, FlattenedLen

--------------------------------------------------------------------------------
(***************************************************************************)
(* The constants.                                                          *)
(***************************************************************************)
LEMMA Numbers ==
    /\ BYTE_BITS \in Nat \ {0} /\ MAX_LEN \in Nat /\ MAX_DISTANCE \in Nat /\ CODELEN_BITS \in Nat
    /\ HLIT \in Nat /\ HDIST \in Nat /\ HCLEN \in Nat /\ MIN_CODELEN_LENS \in Nat
    /\ COPY_MIN \in Nat /\ COPY_BITS \in Nat /\ ZEROS_BITS \in Nat /\ ZEROS2_BITS \in Nat /\ LEN_BITS \in Nat
    /\ CODELEN_MAX_LIT \in Nat \ {0} /\ CODELEN_LIMIT \in Nat \ {0} /\ ZEROS_MIN \in Nat \ {0}
    /\ MAX_BLOCK_LEN_BYTES \in Nat \ {0} /\ CHUNK \in Nat \ {0} /\ MIN_LEN \in Nat \ {0}
    /\ MAX_LEN <= MAX_BLOCK_LEN_BYTES /\ CODELEN_MAX_LIT < MAX_HUFFMAN_BITS
  BY DeflateAssumption, MinLenAssumption

LEMMA Sizes ==
    /\ LITLEN_EOB \in Nat \ {0} /\ Len(litlen_tbl) \in Nat \ {0} /\ Len(dist_tbl) \in Nat \ {0}
    /\ LITLEN_MAX = LITLEN_EOB + Len(litlen_tbl) /\ DISTSYM_MAX + 1 = Len(dist_tbl)
    /\ LITLEN_MAX \in Nat /\ DISTSYM_MAX \in Nat /\ Litlen = 0 .. LITLEN_MAX /\ DistSym = 0 .. DISTSYM_MAX
    /\ MAX_CODELEN_LENS \in Nat /\ MAX_CODELEN_LENS = CODELEN_MAX_LIT + 4
    /\ MIN_LITLEN_LENS \in Nat
    /\ Byte = 0 .. LITLEN_EOB - 1
<1>1. LITLEN_EOB \in Nat \ {0}
  BY Numbers, Power DEF LITLEN_EOB
<1>2. Len(litlen_tbl) \in Nat \ {0} /\ Len(dist_tbl) \in Nat \ {0}
  <2>1. ASSUME NEW tbl, NEW least, IsTable(tbl, least) PROVE Len(tbl) \in Nat \ {0}
    BY <2>1 DEF IsTable
  <2>. QED  BY <2>1, DeflateAssumption
<1>. QED  BY <1>1, <1>2, Numbers, DeflateAssumption
          DEF LITLEN_MAX, DISTSYM_MAX, Litlen, DistSym, MIN_LITLEN_LENS, Byte

\* What a symbol of a table stands for.
Symbols(tbl) == 1 .. Len(tbl)

LEMMA EntryType ==
    ASSUME NEW tbl, NEW least, IsTable(tbl, least), NEW i \in Symbols(tbl)
    PROVE  tbl[i].base \in Nat /\ tbl[i].ebits \in Nat
<1> DEFINE R == [base : Nat, ebits : Nat]
<1>1. tbl \in Seq(R)
  BY DEF IsTable
<1>2. tbl[i] \in R
  <2> HIDE DEF R
  <2>. QED  BY <1>1 DEF Symbols
<1>. QED  BY <1>2

LEMMA Tables ==
    /\ \A i \in Symbols(litlen_tbl) : litlen_tbl[i].base \in Nat /\ litlen_tbl[i].ebits \in Nat
    /\ \A i \in Symbols(dist_tbl) : dist_tbl[i].base \in Nat /\ dist_tbl[i].ebits \in Nat
  BY EntryType, DeflateAssumption

\* A finite set of integers that has an element has a greatest one.
LEMMA GreatestElement ==
    ASSUME NEW n \in Int, NEW S, S \subseteq Int, S # {}, \A x \in S : x <= n
    PROVE  Max(S) \in S /\ \A x \in S : x <= Max(S)
<1> DEFINE U == {n - x : x \in S}
<1>1. U \subseteq Nat /\ U # {}
  <2>1. \A x \in S : n - x \in Nat
    OBVIOUS
  <2>. QED  BY <2>1, Zenon
<1>2. PICK m \in U : \A y \in U : m <= y
  <2> HIDE DEF U
  <2>. QED  BY <1>1, LeastElement
<1>3. PICK g \in S : m = n - g
  BY <1>2
<1>4. \A x \in S : x <= g
  <2> TAKE x \in S
  <2>1. n - x \in U
    OBVIOUS
  <2>2. n - g <= n - x
    BY <1>2, <1>3, <2>1
  <2>. QED  BY <2>2
<1>5. \E h \in S : \A x \in S : x <= h
  BY <1>3, <1>4
<1>6. Max(S) = CHOOSE x \in S : \A y \in S : x >= y
  BY DEF Max
<1>7. (CHOOSE x \in S : \A y \in S : x >= y) \in S /\ \A y \in S : (CHOOSE x \in S : \A z \in S : x >= z) >= y
  <2>1. \E h \in S : \A x \in S : h >= x
    BY <1>5
  <2>. QED  BY <2>1, Zenon
<1>. QED  BY <1>6, <1>7

\* A value no smaller than the least one of a table has a symbol.
LEMMA SymOfType ==
    ASSUME NEW tbl, NEW least \in Nat, IsTable(tbl, least), NEW x \in Nat, least <= x
    PROVE  SymOf(tbl, x) \in Symbols(tbl)
<1> DEFINE S == {i \in DOMAIN tbl : tbl[i].base <= x}
<1>1. Len(tbl) \in Nat /\ DOMAIN tbl = 1 .. Len(tbl)
  BY DEF IsTable
<1>2. S \subseteq Int /\ S # {} /\ \A i \in S : i <= Len(tbl)
  <2>1. PICK i \in DOMAIN tbl : tbl[i].base <= least
    BY DEF IsTable
  <2>2. tbl[i].base \in Nat
    <3>1. i \in Symbols(tbl)
      BY <1>1 DEF Symbols
    <3>. QED  BY <3>1, EntryType
  <2>3. i \in S
    BY <2>1, <2>2
  <2>. QED  BY <1>1, <2>3
<1>3. Max(S) \in S /\ \A i \in S : i <= Max(S)
  <2> HIDE DEF S
  <2>1. Len(tbl) \in Int
    BY <1>1
  <2>. QED  BY <1>2, <2>1, GreatestElement, Zenon
<1>4. \E i \in DOMAIN tbl : tbl[i].base <= x /\ \A j \in DOMAIN tbl : tbl[j].base <= x => j <= i
  <2>1. \A j \in DOMAIN tbl : tbl[j].base <= x => j <= Max(S)
    BY <1>3
  <2>. QED  BY <1>3, <2>1
<1>5. SymOf(tbl, x) \in DOMAIN tbl
  BY <1>4, Zenon DEF SymOf
<1>. QED  BY <1>1, <1>5 DEF Symbols

--------------------------------------------------------------------------------
(***************************************************************************)
(* The codes of a block.                                                   *)
(***************************************************************************)
\* What HuffmanProofs says of the lengths, for the limits used here.
LEMMA MadeLengths ==
    ASSUME NEW n \in Nat, 2 * n <= UINT16_MAX, NEW f \in [0 .. n - 1 -> Nat],
           NEW m \in Nat \ {0}, m <= MAX_HUFFMAN_BITS, n <= 2 ^ m
    PROVE  /\ compute_huffman_lengths(f, m) \in [0 .. n - 1 -> 0 .. m]
           /\ \A s \in 0 .. n - 1 : compute_huffman_lengths(f, m)[s] # 0 <=> f[s] # 0
<1>1. PICK ls : ls = H!compute_huffman_lengths(f, m)
  OBVIOUS
<1>2. m \in H!Width
  BY Assumed, SameCount DEF Width
<1>3. ls \in H!Lengths(n) /\ \A s \in 0 .. n - 1 : ls[s] <= m /\ (ls[s] # 0 <=> f[s] # 0)
  <2>1. /\ (0 \in Nat /\ 0 \in Nat) /\ (\A l \in {} : l \in H!Width /\ 2 ^ l >= 0) /\ 2 * 0 <= UINT16_MAX
    BY Assumed
  <2>. QED  BY <1>1, <1>2, <2>1, HuffmanAssumption, H!LengthsFromFrequencies, SMTT(30)
<1>4. ls \in [0 .. n - 1 -> 0 .. m]
  <2>1. ls \in [0 .. n - 1 -> 0 .. MAX_HUFFMAN_BITS]
    BY <1>3, Zenon DEF H!Lengths
  <2>2. \A s \in 0 .. n - 1 : ls[s] \in 0 .. m
    BY <1>3, <2>1, Assumed
  <2>. QED  BY <2>1, <2>2
<1>. QED  BY <1>1, <1>3, <1>4, SameLengths

LEMMA CardinalityOfPart ==
    ASSUME NEW n \in Nat, NEW S, S \subseteq 1 .. n
    PROVE  IsFiniteSet(S) /\ Cardinality(S) \in Nat /\ (S # {} => Cardinality(S) # 0)
<1>1. IsFiniteSet(1 .. n)
  BY FS_Interval
<1>. QED  BY <1>1, FS_Subset, FS_CardinalityType, FS_EmptySet

LEMMA FreqsType ==
    ASSUME NEW n \in Nat, NEW blk, DOMAIN blk = 1 .. n
    PROVE  /\ litlen_freqs(blk) \in [0 .. LITLEN_MAX -> Nat]
           /\ dist_freqs(blk) \in [0 .. DISTSYM_MAX -> Nat]
<1>1. \A s : Cardinality({i \in DOMAIN blk : LitlenOf(blk[i]) = s}) \in Nat
  <2> TAKE s
  <2> DEFINE S == {i \in DOMAIN blk : LitlenOf(blk[i]) = s}
  <2>1. S \subseteq 1 .. n
    OBVIOUS
  <2> HIDE DEF S
  <2>2. Cardinality(S) \in Nat
    BY <2>1, CardinalityOfPart
  <2>. QED  BY <2>2 DEF S
<1>2. \A s : Cardinality({i \in DOMAIN blk : blk[i].dist # 0 /\ distance2dist(blk[i].dist) = s}) \in Nat
  <2> TAKE s
  <2> DEFINE S == {i \in DOMAIN blk : blk[i].dist # 0 /\ distance2dist(blk[i].dist) = s}
  <2>1. S \subseteq 1 .. n
    OBVIOUS
  <2> HIDE DEF S
  <2>2. Cardinality(S) \in Nat
    BY <2>1, CardinalityOfPart
  <2>. QED  BY <2>2 DEF S
<1>. QED  BY <1>1, <1>2, Sizes DEF litlen_freqs, dist_freqs

\* Lengths up to the longest literal one.
Lits(n) == [0 .. n - 1 -> 0 .. CODELEN_MAX_LIT]

LEMMA BlockLengths ==
    ASSUME NEW n \in Nat, NEW blk, DOMAIN blk = 1 .. n
    PROVE  /\ compute_huffman_lengths(litlen_freqs(blk), CODELEN_MAX_LIT) \in Lits(LITLEN_MAX + 1)
           /\ compute_huffman_lengths(dist_freqs(blk), CODELEN_MAX_LIT) \in Lits(DISTSYM_MAX + 1)
<1>1. PICK a, b \in Nat : a = LITLEN_MAX + 1 /\ b = DISTSYM_MAX + 1
  BY Sizes
<1>2. PICK r \in Nat : r = 2 ^ CODELEN_MAX_LIT
  BY Numbers, Power
<1>3. a <= r /\ b <= r /\ 2 * a <= UINT16_MAX /\ 2 * b <= UINT16_MAX /\ CODELEN_MAX_LIT <= MAX_HUFFMAN_BITS
  BY <1>1, <1>2, Numbers, Sizes, Assumed, DeflateAssumption
<1>4. litlen_freqs(blk) \in [0 .. a - 1 -> Nat] /\ dist_freqs(blk) \in [0 .. b - 1 -> Nat]
  <2>1. a - 1 = LITLEN_MAX /\ b - 1 = DISTSYM_MAX
    BY <1>1, Sizes
  <2>. QED  BY <2>1, FreqsType
<1>. QED  BY <1>1, <1>2, <1>3, <1>4, Numbers, MadeLengths DEF Lits

LEMMA TweakedType ==
    ASSUME NEW n \in Nat, NEW ls \in Lits(n) PROVE tweak_dist_encoder(ls) \in Lits(n)
<1>1. 1 \in 0 .. CODELEN_MAX_LIT
  BY Numbers
<1>2. [ls EXCEPT ![0] = 1, ![1] = 1] \in Lits(n) /\ [ls EXCEPT ![0] = 1] \in Lits(n)
  BY <1>1 DEF Lits
<1>. QED  BY <1>2, Zenon DEF tweak_dist_encoder

LEMMA SignificantType ==
    ASSUME NEW n \in Nat, NEW ls \in Lits(n), NEW min \in Nat, min <= n
    PROVE  Significant(ls, min) \in min .. n
<1> DEFINE S == {s + 1 : s \in {t \in DOMAIN ls : ls[t] # 0}} \cup {min}
<1>1. S \subseteq Int /\ min \in S /\ \A x \in S : x <= n
  <2>1. DOMAIN ls = 0 .. n - 1
    BY DEF Lits
  <2>. QED  BY <2>1
<1>2. Max(S) \in S /\ \A x \in S : x <= Max(S)
  <2> HIDE DEF S
  <2>1. S # {} /\ n \in Int
    BY <1>1
  <2>. QED  BY <1>1, <2>1, GreatestElement, Zenon
<1>3. Max(S) \in min .. n
  <2> HIDE DEF S
  <2>1. PICK g \in S : g = Max(S)
    BY <1>2
  <2>2. g \in Int /\ g <= n /\ min <= g
    BY <1>1, <1>2, <2>1
  <2>. QED  BY <2>1, <2>2
<1>. QED  BY <1>3 DEF Significant

LEMMA PrefixType ==
    ASSUME NEW n \in Nat, NEW ls \in Lits(n), NEW k \in 0 .. n
    PROVE  Prefix(ls, k) \in Seq(0 .. CODELEN_MAX_LIT) /\ Len(Prefix(ls, k)) = k
<1>1. \A i \in 1 .. k : ls[i - 1] \in 0 .. CODELEN_MAX_LIT
  BY DEF Lits
<1>. QED  BY <1>1 DEF Prefix

\* A step of encode_lens: what stands before the rest, from an index or from the end.
EncStep(l, f, i) ==
    LET n == Len(l)
        run(a, max) == Max({k \in 0 .. AtMost(max, n - a + 1) : \A j \in 0 .. k - 1 : l[a + j] = l[a]})
    IN  IF i > n THEN <<>>
        ELSE IF l[i] = 0
        THEN LET k == run(i, ZEROS2_MAX)
             IN  IF k < ZEROS_MIN THEN <<Plain(0)>> \o f[i + 1]
                 ELSE <<[sym |-> IF k <= ZEROS_MAX THEN CODELEN_ZEROS ELSE CODELEN_ZEROS2,
                         count |-> k]>> \o f[i + k]
        ELSE LET k == run(i, COPY_MAX + 1) - 1
             IN  <<Plain(l[i])>> \o
                 IF k < COPY_MIN THEN f[i + 1]
                 ELSE <<[sym |-> CODELEN_COPY, count |-> k]>> \o f[i + 1 + k]

\* Symbols of codeword lengths, as they are written.
CodelenSyms == 0 .. CODELEN_MAX_LIT + 3
Encoded == Seq([sym : CodelenSyms, count : Int])

LEMMA RunType ==
    ASSUME NEW n \in Nat, NEW l, NEW i \in 1 .. n, NEW max \in Nat
    PROVE  Max({k \in 0 .. AtMost(max, n - i + 1) : \A j \in 0 .. k - 1 : l[i + j] = l[i]}) \in 0 .. n - i + 1
<1> DEFINE S == {k \in 0 .. AtMost(max, n - i + 1) : \A j \in 0 .. k - 1 : l[i + j] = l[i]}
<1>1. AtMost(max, n - i + 1) \in 0 .. n - i + 1
  BY DEF AtMost
<1>2. S \subseteq 0 .. n - i + 1 /\ 0 \in S
  BY <1>1
<1>3. Max(S) \in S
  <2> HIDE DEF S
  <2>1. S # {} /\ S \subseteq Int /\ n - i + 1 \in Int /\ \A x \in S : x <= n - i + 1
    BY <1>2
  <2>. QED  BY <2>1, GreatestElement
<1>. QED  BY <1>2, <1>3

LEMMA RunBounds ==
    /\ ZEROS2_MAX \in Nat /\ COPY_MAX + 1 \in Nat /\ ZEROS2_MIN \in Nat
    /\ {CODELEN_COPY, CODELEN_ZEROS, CODELEN_ZEROS2} \subseteq CodelenSyms
    /\ 0 .. CODELEN_MAX_LIT \subseteq CodelenSyms /\ CodelenSyms = 0 .. MAX_CODELEN_LENS - 1
<1>1. PICK a, b, c \in Nat : a = 2 ^ COPY_BITS /\ b = 2 ^ ZEROS_BITS /\ c = 2 ^ ZEROS2_BITS /\ a # 0 /\ b # 0 /\ c # 0
  BY Numbers, Power
<1>2. ZEROS_MAX \in Nat
  BY <1>1, Numbers DEF ZEROS_MAX
<1>3. ZEROS2_MAX \in Nat /\ ZEROS2_MIN \in Nat
  BY <1>1, <1>2 DEF ZEROS2_MAX, ZEROS2_MIN
<1>4. COPY_MAX + 1 \in Nat
  BY <1>1, Numbers DEF COPY_MAX
<1>. QED  BY <1>3, <1>4, Numbers, Sizes DEF CodelenSyms, CODELEN_COPY, CODELEN_ZEROS, CODELEN_ZEROS2

LEMMA Prepended ==
    ASSUME NEW sym \in CodelenSyms, NEW k \in Int, NEW rest \in Encoded
    PROVE  <<[sym |-> sym, count |-> k]>> \o rest \in Encoded /\ <<[sym |-> sym, count |-> k]>> \o rest # <<>>
<1> DEFINE R == [sym : CodelenSyms, count : Int]
           r == [sym |-> sym, count |-> k]
<1>1. r \in R
  OBVIOUS
<1> HIDE DEF r, R
<1>2. <<r>> \o rest \in Seq(R) /\ <<r>> \o rest # <<>>
  BY <1>1 DEF Encoded, R
<1>. QED  BY <1>2 DEF r, R, Encoded

\* A step looks only at what follows.
LEMMA EncStepType ==
    ASSUME NEW l \in Seq(0 .. CODELEN_MAX_LIT), NEW i \in 1 .. Len(l),
           NEW f, \A j \in i + 1 .. Len(l) + 1 : f[j] \in Encoded,
           NEW g, \A j \in i + 1 .. Len(l) + 1 : g[j] = f[j]
    PROVE  EncStep(l, f, i) \in Encoded /\ EncStep(l, f, i) # <<>> /\ EncStep(l, g, i) = EncStep(l, f, i)
<1> DEFINE run(max) == Max({k \in 0 .. AtMost(max, Len(l) - i + 1) : \A j \in 0 .. k - 1 : l[i + j] = l[i]})
           z == run(ZEROS2_MAX)
           c == run(COPY_MAX + 1) - 1
           zs == IF z <= ZEROS_MAX THEN CODELEN_ZEROS ELSE CODELEN_ZEROS2
<1>1. z \in 0 .. Len(l) - i + 1 /\ c \in -1 .. Len(l) - i
  <2>1. Len(l) \in Nat
    OBVIOUS
  <2>2. run(ZEROS2_MAX) \in 0 .. Len(l) - i + 1 /\ run(COPY_MAX + 1) \in 0 .. Len(l) - i + 1
    BY <2>1, RunBounds, RunType
  <2> HIDE DEF run
  <2>. QED  BY <2>2
<1>2. \A h : EncStep(l, h, i) =
        IF l[i] = 0
        THEN IF z < ZEROS_MIN THEN <<Plain(0)>> \o h[i + 1] ELSE <<[sym |-> zs, count |-> z]>> \o h[i + z]
        ELSE <<Plain(l[i])>> \o
             IF c < COPY_MIN THEN h[i + 1] ELSE <<[sym |-> CODELEN_COPY, count |-> c]>> \o h[i + 1 + c]
  <2>1. ~(i > Len(l))
    OBVIOUS
  <2>. QED  BY <2>1, Zenon DEF EncStep
<1> HIDE DEF z, c
<1>3. zs \in CodelenSyms /\ CODELEN_COPY \in CodelenSyms /\ 0 \in CodelenSyms /\ l[i] \in CodelenSyms
  <2>1. l[i] \in 0 .. CODELEN_MAX_LIT /\ 0 \in 0 .. CODELEN_MAX_LIT
    BY Numbers
  <2>. QED  BY <2>1, RunBounds
<1> HIDE DEF zs
<1>4. i + 1 \in i + 1 .. Len(l) + 1
  OBVIOUS
<1>5. ~(z < ZEROS_MIN) => i + z \in i + 1 .. Len(l) + 1
  BY <1>1, Numbers
<1>6. ~(c < COPY_MIN) => i + 1 + c \in i + 1 .. Len(l) + 1
  BY <1>1, Numbers
<1>7. CASE l[i] = 0
  <2>1. CASE z < ZEROS_MIN
    <3>1. EncStep(l, f, i) = <<Plain(0)>> \o f[i + 1] /\ EncStep(l, g, i) = <<Plain(0)>> \o f[i + 1]
      BY <1>2, <1>4, <1>7, <2>1
    <3>. QED  BY <1>3, <1>4, <3>1, Prepended DEF Plain
  <2>2. CASE ~(z < ZEROS_MIN)
    <3>1. /\ EncStep(l, f, i) = <<[sym |-> zs, count |-> z]>> \o f[i + z]
          /\ EncStep(l, g, i) = <<[sym |-> zs, count |-> z]>> \o f[i + z]
      BY <1>2, <1>5, <1>7, <2>2
    <3>2. z \in Int
      BY <1>1
    <3>. QED  BY <1>3, <1>5, <2>2, <3>1, <3>2, Prepended
  <2>. QED  BY <2>1, <2>2
<1>8. CASE l[i] # 0
  <2> DEFINE rest == IF c < COPY_MIN THEN f[i + 1] ELSE <<[sym |-> CODELEN_COPY, count |-> c]>> \o f[i + 1 + c]
             other == IF c < COPY_MIN THEN g[i + 1] ELSE <<[sym |-> CODELEN_COPY, count |-> c]>> \o g[i + 1 + c]
  <2>1. rest \in Encoded
    <3>1. CASE c < COPY_MIN
      BY <1>4, <3>1
    <3>2. CASE ~(c < COPY_MIN)
      <4>1. c \in Int
        BY <1>1
      <4>. QED  BY <1>3, <1>6, <3>2, <4>1, Prepended
    <3>. QED  BY <3>1, <3>2
  <2>2. other = rest
    BY <1>4, <1>6
  <2>3. EncStep(l, f, i) = <<Plain(l[i])>> \o rest /\ EncStep(l, g, i) = <<Plain(l[i])>> \o other
    BY <1>2, <1>8, Zenon
  <2> HIDE DEF rest, other
  <2>. QED  BY <1>3, <2>1, <2>2, <2>3, Prepended DEF Plain
<1>. QED  BY <1>7, <1>8

LEMMA EncodedType ==
    ASSUME NEW l \in Seq(0 .. CODELEN_MAX_LIT)
    PROVE  encode_lens(l) \in Encoded /\ (l # <<>> => encode_lens(l) # <<>>)
<1>1. PICK n \in Nat : n = Len(l)
  OBVIOUS
<1> DEFINE Is(f) == f = [i \in 1 .. n + 1 |-> EncStep(l, f, i)]
           w == CHOOSE f : Is(f)
           From(f, k) == \A i \in 1 .. n + 1 : i > n - k => f[i] = EncStep(l, f, i)
           Some(k) == \E f \in [1 .. n + 1 -> Encoded] : From(f, k)
           T == {k \in 0 .. n : Some(k)}
<1>2. encode_lens(l) = w[1]
  BY <1>1, Zenon DEF encode_lens, EncStep
<1>3. \A f : EncStep(l, f, n + 1) = <<>>
  <2>1. n + 1 > Len(l)
    BY <1>1
  <2>. QED  BY <2>1, Zenon DEF EncStep
<1>4. <<>> \in Encoded
  BY DEF Encoded
<1>5. 0 \in T
  <2> DEFINE f == [i \in 1 .. n + 1 |-> <<>>]
  <2>1. f \in [1 .. n + 1 -> Encoded]
    BY <1>4
  <2>2. From(f, 0)
    <3> SUFFICES ASSUME NEW i \in 1 .. n + 1, i > n - 0 PROVE f[i] = EncStep(l, f, i)
      BY Zenon
    <3>1. i = n + 1 /\ f[i] = <<>>
      OBVIOUS
    <3> HIDE DEF f
    <3>. QED  BY <1>3, <3>1, Zenon
  <2> HIDE DEF f, From
  <2>3. Some(0)
    BY <2>1, <2>2, Zenon
  <2> HIDE DEF Some
  <2>. QED  BY <2>3
<1>6. \A k \in 0 .. n - 1 : k \in T => k + 1 \in T
  <2> SUFFICES ASSUME NEW k \in 0 .. n - 1, k \in T PROVE k + 1 \in T
    OBVIOUS
  <2>1. PICK f \in [1 .. n + 1 -> Encoded] : From(f, k)
    OBVIOUS
  <2>2. PICK i \in 1 .. n : i = n - k
    OBVIOUS
  <2> DEFINE v == EncStep(l, f, i)
             g == [f EXCEPT ![i] = v]
  <2>3. v \in Encoded
    <3>1. i \in 1 .. Len(l) /\ \A j \in i + 1 .. Len(l) + 1 : f[j] \in Encoded
      BY <1>1
    <3>. QED  BY <3>1, EncStepType
  <2> HIDE DEF v
  <2>4. g \in [1 .. n + 1 -> Encoded] /\ g[i] = v /\ \A j \in 1 .. n + 1 : j # i => g[j] = f[j]
    BY <2>3
  <2> HIDE DEF g
  <2>5. ASSUME NEW j \in 1 .. n + 1, j > n - (k + 1) PROVE g[j] = EncStep(l, g, j)
    <3>1. CASE j = n + 1
      <4>1. g[j] = f[j] /\ f[j] = EncStep(l, f, j)
        <5>1. j # i /\ j > n - k
          BY <2>2, <3>1
        <5>. QED  BY <2>1, <2>4, <5>1
      <4>. QED  BY <1>3, <3>1, <4>1, Zenon
    <3>2. CASE j # n + 1
      <4>1. j \in 1 .. Len(l) /\ j >= i
        <5>1. j \in 1 .. n /\ j >= i
          <6> HIDE DEF g, T
          <6>. QED  BY <2>2, <2>5, <3>2
        <5>. QED  BY <1>1, <5>1, Zenon
      <4>2. \A m \in j + 1 .. Len(l) + 1 : g[m] = f[m] /\ f[m] \in Encoded
        <5> SUFFICES ASSUME NEW m \in j + 1 .. Len(l) + 1 PROVE g[m] = f[m] /\ f[m] \in Encoded
          OBVIOUS
        <5>1. m \in 1 .. n + 1 /\ m # i
          BY <1>1, <4>1
        <5>. QED  BY <2>4, <5>1
      <4>3. EncStep(l, g, j) = EncStep(l, f, j)
        BY <4>1, <4>2, EncStepType
      <4>4. CASE j = i
        BY <2>4, <4>3, <4>4 DEF v
      <4>5. CASE j # i
        <5>1. j > n - k
          BY <2>2, <4>1, <4>5
        <5>. QED  BY <2>1, <2>4, <4>3, <4>5, <5>1
      <4>. QED  BY <4>4, <4>5
    <3>. QED  BY <3>1, <3>2
  <2>6. From(g, k + 1)
    BY <2>5
  <2> HIDE DEF From
  <2>7. Some(k + 1)
    BY <2>4, <2>6, Zenon
  <2> HIDE DEF Some
  <2>. QED  BY <2>7
<1>7. n \in T
  <2> DEFINE U == T
  <2>1. n \in 0 .. n /\ 0 \in U /\ \A k \in 0 .. n - 1 : k \in U => k + 1 \in U
    <3> HIDE DEF Some
    <3>. QED  BY <1>5, <1>6
  <2> HIDE DEF U
  <2>2. n \in U
    BY <2>1, Climb
  <2>. QED  BY <2>2 DEF U
<1>8. PICK f \in [1 .. n + 1 -> Encoded] : From(f, n)
  BY <1>7
<1>9. Is(f)
  <2>1. \A i \in 1 .. n + 1 : f[i] = EncStep(l, f, i)
    BY <1>8
  <2>2. f = [i \in 1 .. n + 1 |-> f[i]]
    OBVIOUS
  <2>3. [i \in 1 .. n + 1 |-> f[i]] = [i \in 1 .. n + 1 |-> EncStep(l, f, i)]
    BY <2>1, Zenon
  <2>. QED  BY <2>2, <2>3, Zenon
<1>10. Is(w)
  BY <1>9, Zenon
<1> HIDE DEF w
<1>11. \A i \in 1 .. n + 1 : w[i] = EncStep(l, w, i)
  BY <1>10, Zenon
<1> DEFINE Typed(k) == \A i \in 1 .. n + 1 : i > n - k => w[i] \in Encoded
           Y == {k \in 0 .. n : Typed(k)}
<1>12. 0 \in Y
  <2>1. w[n + 1] \in Encoded
    <3>1. n + 1 \in 1 .. n + 1
      OBVIOUS
    <3>. QED  BY <1>3, <1>4, <1>11, <3>1, Zenon
  <2>. QED  BY <2>1
<1>13. \A k \in 0 .. n - 1 : k \in Y => k + 1 \in Y
  <2> SUFFICES ASSUME NEW k \in 0 .. n - 1, k \in Y PROVE k + 1 \in Y
    OBVIOUS
  <2>1. PICK i \in 1 .. n : i = n - k
    OBVIOUS
  <2>2. w[i] \in Encoded
    <3>1. i \in 1 .. Len(l) /\ \A j \in i + 1 .. Len(l) + 1 : w[j] \in Encoded
      BY <1>1, <2>1
    <3>2. EncStep(l, w, i) \in Encoded
      BY <3>1, EncStepType
    <3>3. w[i] = EncStep(l, w, i)
      BY <1>11
    <3>. QED  BY <3>2, <3>3, Zenon
  <2>3. Typed(k + 1)
    <3> SUFFICES ASSUME NEW j \in 1 .. n + 1, j > n - (k + 1) PROVE w[j] \in Encoded
      OBVIOUS
    <3>1. j = i \/ j > n - k
      BY <2>1
    <3>. QED  BY <2>2, <3>1
  <2> HIDE DEF Typed
  <2>. QED  BY <2>3
<1>14. n \in Y
  <2> DEFINE U == Y
  <2>1. n \in 0 .. n /\ 0 \in U /\ \A k \in 0 .. n - 1 : k \in U => k + 1 \in U
    BY <1>12, <1>13
  <2> HIDE DEF U
  <2>2. n \in U
    BY <2>1, Climb
  <2>. QED  BY <2>2 DEF U
<1>15. \A i \in 1 .. n + 1 : w[i] \in Encoded
  BY <1>14
<1>16. w[1] \in Encoded
  BY <1>15
<1>17. ASSUME l # <<>> PROVE w[1] # <<>>
  <2>1. 1 \in 1 .. Len(l) /\ \A j \in 1 + 1 .. Len(l) + 1 : w[j] \in Encoded
    BY <1>1, <1>15, <1>17
  <2>2. EncStep(l, w, 1) # <<>>
    BY <2>1, EncStepType
  <2>3. w[1] = EncStep(l, w, 1)
    BY <1>11
  <2>. QED  BY <2>2, <2>3, Zenon
<1>. QED  BY <1>2, <1>16, <1>17, Zenon

--------------------------------------------------------------------------------
(***************************************************************************)
(* What is written are bits.                                               *)
(***************************************************************************)
\* Tokens as the matcher gives them, and the end of the block.
IsToken(t) ==
    IF t.dist = 0 THEN t.len \in 0 .. LITLEN_EOB ELSE t.len \in Nat /\ t.len >= MIN_LEN

Tokens == {t \in [dist : Nat, len : Nat] : IsToken(t)}

\* Codes that have the symbols of such tokens.
Fits(c) ==
    /\ \E n \in Nat : n > LITLEN_MAX /\ c.litlen \in Lits(n)
    /\ \E n \in Nat : n > DISTSYM_MAX /\ c.dist \in Lits(n)

LEMMA CodeSeq ==
    ASSUME NEW n \in Nat, NEW ls \in [0 .. n - 1 -> Nat], NEW s \in 0 .. n - 1
    PROVE  Code(ls, s) \in Seq(Bit)
<1>1. IsFiniteSet(0 .. n - 1) /\ ls \in Codes(0 .. n - 1)
  BY FS_Interval DEF Codes
<1>2. Codeword(ls, s) \in Nat /\ ls[s] \in Nat
  <2> DEFINE D == 0 .. n - 1
  <2>1. s \in D /\ ls[s] \in Nat
    OBVIOUS
  <2>2. IsFiniteSet(D) /\ ls \in Codes(D)
    BY <1>1
  <2> HIDE DEF D
  <2>. QED  BY <2>1, <2>2, CodewordNat
<1>. QED  BY <1>2, BitsSeq DEF Code

\* Bits after bits are bits, and as many.
LEMMA JoinedLen == \A a, b \in Seq(Bit) : a \o b \in Seq(Bit) /\ Len(a \o b) = Len(a) + Len(b)
  OBVIOUS

LEMMA FixedFit ==
    /\ Fits(FixedCodes)
    /\ huffman_decoder_init(FixedCodes.litlen) /\ huffman_decoder_init(FixedCodes.dist)
<1>1. FixedCodes.litlen = fixed_litlen_lengths /\ FixedCodes.dist = fixed_dist_lengths
  BY DEF FixedCodes
<1>2. ASSUME NEW ls, NEW last, IsFixedCode(ls, last)
      PROVE  (\E n \in Nat : n > last /\ ls \in Lits(n)) /\ huffman_decoder_init(ls)
  BY <1>2 DEF IsFixedCode, Lits
<1>. QED  BY <1>1, <1>2, DeflateAssumption DEF Fits

\* Codes and description of a dynamic block.
IsDescription(d) ==
    /\ Fits(d) /\ d.num_litlen \in Nat /\ d.num_dist \in Nat
    /\ d.encoded \in Encoded
    /\ d.codelen \in [0 .. MAX_CODELEN_LENS - 1 -> 0 .. CODELEN_LIMIT]
    /\ \E s \in 0 .. MAX_CODELEN_LENS - 1 : d.codelen[s] # 0

LEMMA CodelenMade ==
    ASSUME NEW e \in Encoded, e # <<>>, NEW ls, ls = compute_huffman_lengths(codelen_freqs(e), CODELEN_LIMIT)
    PROVE  /\ ls \in [0 .. MAX_CODELEN_LENS - 1 -> 0 .. CODELEN_LIMIT]
           /\ \E s \in 0 .. MAX_CODELEN_LENS - 1 : ls[s] # 0
<1> DEFINE f == codelen_freqs(e)
           occurs(s) == {i \in DOMAIN e : e[i].sym = s}
<1>1. PICK n \in Nat : n = Len(e) /\ DOMAIN e = 1 .. n /\ n # 0
  BY DEF Encoded
<1>2. \A s : occurs(s) \subseteq 1 .. n
  BY <1>1
<1>3. \A s \in 0 .. MAX_CODELEN_LENS - 1 : f[s] = Cardinality(occurs(s))
  BY Zenon DEF codelen_freqs
<1>4. f = [s \in 0 .. MAX_CODELEN_LENS - 1 |-> Cardinality(occurs(s))]
  BY Zenon DEF codelen_freqs
<1>5. e[1].sym \in 0 .. MAX_CODELEN_LENS - 1 /\ 1 \in occurs(e[1].sym)
  <2> DEFINE R == [sym : CodelenSyms, count : Int]
  <2>1. e[1] \in R
    <3> HIDE DEF R
    <3>1. e \in Seq(R)
      BY DEF Encoded, R
    <3>. QED  BY <1>1, <3>1
  <2>. QED  BY <1>1, <2>1, RunBounds
<1> HIDE DEF occurs
<1>6. \A s : Cardinality(occurs(s)) \in Nat /\ (occurs(s) # {} => Cardinality(occurs(s)) # 0)
  BY <1>1, <1>2, CardinalityOfPart
<1>7. f \in [0 .. MAX_CODELEN_LENS - 1 -> Nat]
  BY <1>4, <1>6
<1>8. f[e[1].sym] # 0
  BY <1>3, <1>5, <1>6
<1> HIDE DEF f
<1>9. /\ MAX_CODELEN_LENS \in Nat /\ 2 * MAX_CODELEN_LENS <= UINT16_MAX /\ MAX_CODELEN_LENS <= 2 ^ CODELEN_LIMIT
      /\ CODELEN_LIMIT \in Nat \ {0} /\ CODELEN_LIMIT <= MAX_HUFFMAN_BITS
  <2>1. PICK a, b \in Nat : a = 2 ^ CODELEN_BITS /\ b = 2 ^ CODELEN_LIMIT
    BY Numbers, Power
  <2>. QED  BY <2>1, Numbers, Sizes, Assumed, DeflateAssumption
<1>10. /\ ls \in [0 .. MAX_CODELEN_LENS - 1 -> 0 .. CODELEN_LIMIT]
       /\ \A s \in 0 .. MAX_CODELEN_LENS - 1 : ls[s] # 0 <=> f[s] # 0
  BY <1>7, <1>9, MadeLengths DEF f
<1>. QED  BY <1>5, <1>8, <1>10

LEMMA DynamicType ==
    ASSUME NEW blk \in Seq(Tokens)
    PROVE  IsDescription(DynamicCodes(blk))
<1> DEFINE ll == compute_huffman_lengths(litlen_freqs(blk), CODELEN_MAX_LIT)
           dl == tweak_dist_encoder(compute_huffman_lengths(dist_freqs(blk), CODELEN_MAX_LIT))
           nl == Significant(ll, 0)
           nd == Significant(dl, 1)
           e == encode_lens(Prefix(ll, nl) \o Prefix(dl, nd))
           c == compute_huffman_lengths(codelen_freqs(e), CODELEN_LIMIT)
           d == [litlen |-> ll, dist |-> dl, num_litlen |-> nl, num_dist |-> nd, encoded |-> e]
           with(x) == [k \in DOMAIN d \cup {"codelen"} |-> IF k = "codelen" THEN x ELSE d[k]]
<1>1. DynamicCodes(blk) = with(compute_huffman_lengths(codelen_freqs(d.encoded), CODELEN_LIMIT))
  BY Zenon DEF DynamicCodes, WithCodelen, Described
<1>2. d.encoded = e
  BY Zenon
<1>3. DynamicCodes(blk) = with(c)
  BY <1>1, <1>2, Zenon
<1>4. PICK a, b \in Nat : a = LITLEN_MAX + 1 /\ b = DISTSYM_MAX + 1 /\ b >= 1
  BY Sizes
<1>5. ll \in Lits(a) /\ dl \in Lits(b)
  <2>1. DOMAIN blk = 1 .. Len(blk) /\ Len(blk) \in Nat
    OBVIOUS
  <2>. QED  BY <1>4, <2>1, BlockLengths, TweakedType
<1> HIDE DEF ll, dl
<1>6. nl \in 0 .. a /\ nd \in 1 .. b
  BY <1>4, <1>5, SignificantType
<1> HIDE DEF nl, nd
<1>7. e \in Encoded /\ e # <<>>
  <2> DEFINE x == Prefix(ll, nl)
             y == Prefix(dl, nd)
  <2>1. x \in Seq(0 .. CODELEN_MAX_LIT) /\ y \in Seq(0 .. CODELEN_MAX_LIT) /\ Len(y) = nd
    <3>1. nd \in 0 .. b
      BY <1>4, <1>6
    <3>. QED  BY <1>5, <1>6, <3>1, PrefixType
  <2> HIDE DEF x, y
  <2>2. x \o y \in Seq(0 .. CODELEN_MAX_LIT) /\ x \o y # <<>>
    <3>1. Len(x \o y) # 0
      BY <1>6, <2>1
    <3>. QED  BY <2>1, <3>1
  <2>. QED  BY <2>2, EncodedType DEF x, y
<1> HIDE DEF e
<1>8. /\ c \in [0 .. MAX_CODELEN_LENS - 1 -> 0 .. CODELEN_LIMIT]
      /\ \E s \in 0 .. MAX_CODELEN_LENS - 1 : c[s] # 0
  BY <1>7, CodelenMade
<1> HIDE DEF c
<1> DEFINE r == with(c)
<1>9. r.litlen = ll /\ r.dist = dl /\ r.num_litlen = nl /\ r.num_dist = nd /\ r.encoded = e /\ r.codelen = c
  <2> DEFINE F == {"litlen", "dist", "num_litlen", "num_dist", "encoded"}
  <2>1. DOMAIN d = F
    OBVIOUS
  <2>2. /\ d["litlen"] = ll /\ d["dist"] = dl /\ d["num_litlen"] = nl /\ d["num_dist"] = nd
        /\ d["encoded"] = e
    OBVIOUS
  <2> HIDE DEF d
  <2>3. (\A x \in F : r[x] = d[x]) /\ r["codelen"] = c
    BY <2>1
  <2>. QED  BY <2>2, <2>3
<1> HIDE DEF r
<1>10. Fits(r)
  BY <1>4, <1>5, <1>9, Sizes DEF Fits
<1>11. IsDescription(r)
  BY <1>6, <1>7, <1>8, <1>9, <1>10 DEF IsDescription
<1>. QED  BY <1>3, <1>11 DEF r

LEMMA DivBelow ==
    ASSUME NEW a \in Nat, NEW d \in Nat \ {0}, NEW q \in Nat, a < d * q
    PROVE  a \div d \in 0 .. q - 1
<1> DEFINE t == a \div d
<1>1. t \in Nat /\ a >= d * t
  <2>1. a \div d \in Nat /\ a % d \in 0 .. d - 1 /\ a = d * (a \div d) + (a % d)
    BY DivMod
  <2> DEFINE p == d * (a \div d)
             r == a % d
  <2>2. p \in Nat
    BY <2>1
  <2> HIDE DEF p, r
  <2>3. a = p + r /\ r \in Nat
    BY <2>1 DEF p, r
  <2>4. a >= p
    BY <2>2, <2>3
  <2>. QED  BY <2>1, <2>4 DEF p
<1> HIDE DEF t
<1>2. ~(t >= q)
  <2> SUFFICES ASSUME t >= q PROVE FALSE
    OBVIOUS
  <2>1. PICK u \in Nat : t = q + u
    BY <1>1
  <2>2. d * t = d * q + d * u /\ d * u \in Nat /\ d * q \in Nat
    BY <2>1
  <2>. QED  BY <1>1, <2>2
<1>3. t \in 0 .. q - 1
  BY <1>1, <1>2
<1>. QED  BY <1>3 DEF t

LEMMA RoundUp ==
    ASSUME NEW n \in Nat, NEW m \in Nat \ {0}
    PROVE  round_up(n, m) \in Nat /\ round_up(n, m) >= n
<1> DEFINE a == n + m - 1
           q == m * (a \div m)
           r == a % m
<1>1. a \in Nat /\ a \div m \in Nat
  BY DivMod
<1>2. a = q + r /\ r \in 0 .. m - 1
  <2> HIDE DEF a
  <2>. QED  BY <1>1, DivMod
<1>3. q \in Nat
  <2> HIDE DEF a
  <2>. QED  BY <1>1
<1>4. round_up(n, m) = q
  BY Zenon DEF round_up
<1> HIDE DEF q, r
<1>. QED  BY <1>2, <1>3, <1>4

\* What is written to, and later read.
Stream == [bits : Seq(Bit), cap : Caps, ok : BOOLEAN]

LEMMA PutType ==
    ASSUME NEW s \in Stream, NEW b \in Seq(Bit)
    PROVE  Put(s, b) \in Stream
<1>1. s.bits \in Seq(Bit) /\ s.ok \in BOOLEAN
  BY DEF Stream
<1>2. s.bits \o b \in Seq(Bit)
  BY <1>1
<1>3. [s EXCEPT !.bits = s.bits \o b] \in Stream
  <2> DEFINE x == s.bits \o b
  <2> HIDE DEF x
  <2>1. x \in Seq(Bit) => [s EXCEPT !.bits = x] \in Stream
    BY DEF Stream
  <2>. QED  BY <1>2, <2>1 DEF x
<1>4. [s EXCEPT !.ok = FALSE] \in Stream
  BY DEF Stream
<1>. QED  BY <1>3, <1>4, Zenon DEF Put

LEMMA PaddedType ==
    ASSUME NEW b \in Seq(Bit) PROVE Padded(b, BYTE_BITS) \in Seq(Bit)
<1>1. PICK m \in Nat \ {0}, n \in Nat : m = BYTE_BITS /\ n = Len(b)
  BY Numbers
<1>2. round_up(n, m) - n \in Nat
  <2>1. PICK r \in Nat : r = round_up(n, m) /\ r >= n
    BY RoundUp
  <2>. QED  BY <2>1
<1>3. Bits(0, round_up(n, m) - n) \in Seq(Bit)
  BY <1>2, BitsSeq
<1>. QED  BY <1>1, <1>3, JoinedLen DEF Padded

LEMMA DamagedType ==
    ASSUME NEW b \in Seq(Bit), NEW d \in Damaged(b) PROVE d \in Seq(Bit)
<1>1. CASE d \in {[b EXCEPT ![i] = 1 - @] : i \in 1 .. Len(b)}
  <2>1. PICK i \in 1 .. Len(b) : d = [b EXCEPT ![i] = 1 - b[i]]
    BY <1>1
  <2>2. 1 - b[i] \in Bit
    BY DEF Bit
  <2>. QED  BY <2>1, <2>2
<1>2. CASE d \in {SubSeq(b, 1, n) : n \in 0 .. Len(b) - 1}
  BY <1>2
<1>. QED  BY <1>1, <1>2 DEF Damaged

LEMMA Order ==
    /\ \A i \in 1 .. MAX_CODELEN_LENS : codelen_lengths_order[i] \in 0 .. MAX_CODELEN_LENS - 1
    /\ \A s \in 0 .. MAX_CODELEN_LENS - 1 : \E i \in 1 .. MAX_CODELEN_LENS : codelen_lengths_order[i] = s
<1>1. DOMAIN codelen_lengths_order = 1 .. MAX_CODELEN_LENS
  BY DeflateAssumption DEF MAX_CODELEN_LENS
<1>2. {codelen_lengths_order[i] : i \in DOMAIN codelen_lengths_order} = 0 .. MAX_CODELEN_LENS - 1
  BY DeflateAssumption DEF Range
<1>. QED  BY <1>1, <1>2

LEMMA NumCodelenLens ==
    ASSUME NEW d, IsDescription(d)
    PROVE  count_codelen_lens(d.codelen) \in 1 .. MAX_CODELEN_LENS
<1> DEFINE S == {i \in 1 .. MAX_CODELEN_LENS : d.codelen[codelen_lengths_order[i]] # 0}
<1>1. PICK s \in 0 .. MAX_CODELEN_LENS - 1 : d.codelen[s] # 0
  BY DEF IsDescription
<1>2. PICK i \in 1 .. MAX_CODELEN_LENS : codelen_lengths_order[i] = s
  BY Order
<1>3. i \in S
  BY <1>1, <1>2
<1>5. Max(S) \in S
  <2>1. S \subseteq Int /\ S # {} /\ (\A x \in S : x <= MAX_CODELEN_LENS) /\ MAX_CODELEN_LENS \in Int
    BY <1>3, Sizes
  <2> HIDE DEF S
  <2>. QED  BY <2>1, GreatestElement
<1>. QED  BY <1>5 DEF count_codelen_lens

LEMMA CodelenNumbers ==
    ASSUME NEW s \in CodelenSyms PROVE CodelenMin(s) \in Nat /\ CodelenEbits(s) \in Nat
  BY Numbers, RunBounds DEF CodelenMin, CodelenEbits

LEMMA AlignedType ==
    ASSUME NEW s \in Stream, NEW bytes \in Seq(Byte)
    PROVE  ostream_write_bytes_aligned(s, bytes, BYTE_BITS) \in Stream
<1>1. PICK m \in Nat \ {0}, n \in Nat, k \in Nat : m = BYTE_BITS /\ n = Len(s.bits) /\ k = Len(bytes)
  BY Numbers DEF Stream
<1> DEFINE pad == round_up(n, m) - n
           at(i) == Bits(bytes[(i - 1) \div m + 1], m)[((i - 1) % m) + 1]
           raw == [i \in 1 .. k * m |-> at(i)]
           zeros == [i \in 1 .. pad |-> 0]
<1>2. pad \in Nat
  <2>1. PICK r \in Nat : r = round_up(n, m) /\ r >= n
    BY RoundUp
  <2>. QED  BY <2>1
<1> HIDE DEF pad
<1>3. zeros \in Seq(Bit)
  BY <1>2 DEF Bit
<1>4. ASSUME NEW i \in 1 .. k * m PROVE at(i) \in Bit
  <2>1. k * m \in Nat /\ k * m = m * k
    OBVIOUS
  <2>2. i - 1 \in Nat /\ i - 1 < m * k
    BY <2>1
  <2>3. (i - 1) \div m \in 0 .. k - 1 /\ (i - 1) % m \in 0 .. m - 1
    BY <2>2, DivBelow, DivMod
  <2>4. PICK q \in 0 .. k - 1, r \in 0 .. m - 1 : q = (i - 1) \div m /\ r = (i - 1) % m
    BY <2>3
  <2>5. bytes[q + 1] \in Int
    <3>1. bytes[q + 1] \in Byte
      BY <1>1
    <3>. QED  BY <3>1, Sizes
  <2>6. Bits(bytes[q + 1], m) \in [1 .. m -> Bit]
    BY <2>5, BitsSeq
  <2>7. Bits(bytes[q + 1], m)[r + 1] \in Bit
    BY <2>6
  <2>. QED  BY <2>4, <2>7
<1>5. raw \in Seq(Bit)
  <2>1. k * m \in Nat
    OBVIOUS
  <2> HIDE DEF at
  <2>. QED  BY <1>4, <2>1
<1>6. ostream_write_bytes_aligned(s, bytes, BYTE_BITS) = Put(s, zeros \o raw)
  BY <1>1, Zenon DEF ostream_write_bytes_aligned, pad
<1> HIDE DEF zeros, raw
<1>. QED  BY <1>3, <1>5, <1>6, JoinedLen, PutType

--------------------------------------------------------------------------------
(***************************************************************************)
(* The bits of a block.  What the frequencies say it takes is what its     *)
(* tokens take one after the other.                                        *)
(***************************************************************************)
\* What each symbol of the alphabet 0 .. m takes of the first k of s, at w bits each.
Occurs(s, k, x) == {i \in 1 .. k : s[i] = x}
Share(s, w, k, m) == [x \in 0 .. m |-> Cardinality(Occurs(s, k, x)) * w[x]]

\* What the element x takes, nothing if it is no symbol of the alphabet.
Takes(w, m, x) == IF x \in 0 .. m THEN w[x] ELSE 0

LEMMA OccursFacts ==
    ASSUME NEW s, NEW k \in Nat
    PROVE  /\ \A x : IsFiniteSet(Occurs(s, k, x)) /\ Cardinality(Occurs(s, k, x)) \in Nat
           /\ \A x : Cardinality(Occurs(s, 0, x)) = 0
           /\ \A x : Cardinality(Occurs(s, k + 1, x)) =
                       IF s[k + 1] = x THEN Cardinality(Occurs(s, k, x)) + 1 ELSE Cardinality(Occurs(s, k, x))
<1>1. ASSUME NEW j \in Nat, NEW x PROVE IsFiniteSet(Occurs(s, j, x)) /\ Cardinality(Occurs(s, j, x)) \in Nat
  <2>1. Occurs(s, j, x) \subseteq 1 .. j
    BY DEF Occurs
  <2>. QED  BY <2>1, CardinalityOfPart
<1>2. ASSUME NEW x PROVE Cardinality(Occurs(s, 0, x)) = 0
  <2>1. Occurs(s, 0, x) = {}
    BY DEF Occurs
  <2>. QED  BY <2>1, FS_EmptySet
<1>3. ASSUME NEW x
      PROVE  Cardinality(Occurs(s, k + 1, x)) =
               IF s[k + 1] = x THEN Cardinality(Occurs(s, k, x)) + 1 ELSE Cardinality(Occurs(s, k, x))
  <2>1. CASE s[k + 1] = x
    <3>1. Occurs(s, k + 1, x) = Occurs(s, k, x) \cup {k + 1} /\ k + 1 \notin Occurs(s, k, x)
      BY <2>1 DEF Occurs
    <3>. QED  BY <1>1, <2>1, <3>1, FS_AddElement
  <2>2. CASE s[k + 1] # x
    <3>1. Occurs(s, k + 1, x) = Occurs(s, k, x)
      BY <2>2 DEF Occurs
    <3>. QED  BY <2>2, <3>1
  <2>. QED  BY <2>1, <2>2
<1>. QED  BY <1>1, <1>2, <1>3

LEMMA ShareType ==
    ASSUME NEW s, NEW m \in Nat, NEW w \in [0 .. m -> Nat], NEW k \in Nat
    PROVE  Share(s, w, k, m) \in [0 .. m -> Nat]
<1>1. ASSUME NEW x \in 0 .. m PROVE Cardinality(Occurs(s, k, x)) * w[x] \in Nat
  <2>1. \A a, b \in Nat : a * b \in Nat
    OBVIOUS
  <2>2. Cardinality(Occurs(s, k, x)) \in Nat /\ w[x] \in Nat
    BY OccursFacts
  <2>. QED  BY <2>1, <2>2
<1>. QED  BY <1>1 DEF Share

\* M[k] is what the first k of s take.
Spends(M, s, w, n, m) ==
    M \in [0 .. n -> Nat] /\ M[0] = 0 /\ \A k \in 1 .. n : M[k] = M[k - 1] + Takes(w, m, s[k])

\* Frequencies times bits add up to the bits of one element after the other.
LEMMA DoubleCount ==
    ASSUME NEW n \in Nat, NEW m \in Nat, NEW s, NEW w \in [0 .. m -> Nat], NEW M, Spends(M, s, w, n, m)
    PROVE  Total(Share(s, w, n, m), 0 .. m, m) = M[n]
<1> DEFINE C == 0 .. m
           T == {k \in 0 .. n : Total(Share(s, w, k, m), C, m) = M[k]}
<1>1. 0 \in T
  <2>1. \A x \in 0 .. m : Share(s, w, 0, m)[x] = 0
    <3> TAKE x \in 0 .. m
    <3>1. Cardinality(Occurs(s, 0, x)) = 0
      BY OccursFacts
    <3>2. 0 * w[x] = 0
      OBVIOUS
    <3>. QED  BY <3>1, <3>2 DEF Share
  <2> DEFINE v == Share(s, w, 0, m)
             a == Weights(v, C, m)
  <2>2. \A k \in 1 .. m + 1 : a[k] = 0
    <3> TAKE k \in 1 .. m + 1
    <3>1. k - 1 \in C /\ v[k - 1] = 0
      BY <2>1
    <3>. QED  BY <3>1 DEF Weights
  <2>3. a \in [1 .. m + 1 -> Nat] /\ m + 1 \in Nat
    <3>1. v \in [0 .. m -> Nat] /\ C \in SUBSET (0 .. m)
      BY ShareType
    <3>2. m + 1 \in Nat
      OBVIOUS
    <3> HIDE DEF v, C
    <3>. QED  BY <3>1, <3>2, TotalFacts, Zenon
  <2> HIDE DEF a
  <2>4. SumOf(a, m + 1) = 0
    BY <2>2, <2>3, SumZero
  <2>5. M[0] = 0
    BY DEF Spends
  <2>. QED  BY <2>4, <2>5 DEF Total, a
<1>2. ASSUME NEW j \in 0 .. n - 1, j \in T PROVE j + 1 \in T
  <2>1. j + 1 \in 1 .. n /\ (j + 1) - 1 = j /\ j \in Nat /\ j + 1 \in 0 .. n
    OBVIOUS
  <2>2. PICK a, b : a = Share(s, w, j, m) /\ b = Share(s, w, j + 1, m)
    OBVIOUS
  <2>3. a \in [C -> Nat] /\ b \in [C -> Nat]
    <3>1. \A k \in Nat : Share(s, w, k, m) \in [C -> Nat]
      BY ShareType
    <3>2. j \in Nat /\ j + 1 \in Nat
      BY <2>1
    <3>. QED  BY <2>2, <3>1, <3>2, Zenon
  <2>4. ASSUME NEW x \in C
        PROVE  b[x] = a[x] + IF s[j + 1] = x THEN w[x] ELSE 0
    <3>1. PICK c \in Nat, d \in Nat : c = Cardinality(Occurs(s, j, x)) /\ d = w[x]
      BY <2>1, OccursFacts
    <3>2. a[x] = c * d
      BY <2>2, <3>1 DEF Share
    <3>3. b[x] = (IF s[j + 1] = x THEN c + 1 ELSE c) * d
      <4>1. b[x] = Cardinality(Occurs(s, j + 1, x)) * w[x]
        BY <2>2 DEF Share
      <4>2. Cardinality(Occurs(s, j + 1, x)) = IF s[j + 1] = x THEN c + 1 ELSE c
        BY <2>1, <3>1, OccursFacts
      <4>. QED  BY <3>1, <4>1, <4>2
    <3>4. (c + 1) * d = c * d + d /\ c * d \in Nat
      OBVIOUS
    <3>5. CASE s[j + 1] = x
      BY <3>1, <3>2, <3>3, <3>4, <3>5
    <3>6. CASE s[j + 1] # x
      BY <3>1, <3>2, <3>3, <3>4, <3>6
    <3>. QED  BY <3>5, <3>6
  <2>5. Total(b, C, m) = Total(a, C, m) + Takes(w, m, s[j + 1])
    <3>1. CASE s[j + 1] \in C
      <4>1. PICK x \in C, d \in Nat : x = s[j + 1] /\ d = w[x]
        BY <3>1
      <4>2. b[x] = a[x] + d
        BY <2>4, <4>1
      <4>3. \A y \in C : y # x => b[y] = a[y]
        <5> TAKE y \in C
        <5>1. y # x => b[y] = a[y] + 0
          BY <2>4, <4>1
        <5>2. a[y] \in Nat
          BY <2>3
        <5>. QED  BY <5>1, <5>2
      <4>4. Total(b, C, m) = Total(a, C, m) + d
        BY <2>3, <4>2, <4>3, TotalOneMore
      <4>. QED  BY <3>1, <4>1, <4>4 DEF Takes
    <3>2. CASE s[j + 1] \notin C
      <4>1. \A y \in C : b[y] = a[y]
        <5> TAKE y \in C
        <5>1. b[y] = a[y] + 0
          BY <2>4, <3>2
        <5>2. a[y] \in Nat
          BY <2>3
        <5>. QED  BY <5>1, <5>2
      <4>2. a = b
        BY <2>3, <4>1
      <4>3. Total(a, C, m) \in Nat
        BY <2>3, TotalFacts
      <4>. QED  BY <3>2, <4>2, <4>3 DEF Takes
    <3>. QED  BY <3>1, <3>2
  <2>6. M[j + 1] = M[j] + Takes(w, m, s[j + 1])
    <3>1. M[j + 1] = M[(j + 1) - 1] + Takes(w, m, s[j + 1])
      BY <2>1 DEF Spends
    <3>. QED  BY <2>1, <3>1
  <2>7. Total(a, C, m) = M[j]
    BY <1>2, <2>2
  <2>. QED  BY <2>1, <2>2, <2>5, <2>6, <2>7
<1>3. n \in T
  <2> HIDE DEF T
  <2>1. \A i \in 0 .. n : i \in T
    BY <1>1, <1>2, Climb
  <2>. QED  BY <2>1
<1>. QED  BY <1>3

\* What a token takes: its literal or length symbol, and its distance symbol.
DistOf(t) == IF t.dist = 0 THEN -1 ELSE distance2dist(t.dist)
LitlenTakes(c) == [s \in Litlen |-> c.litlen[s] + LitlenEbits(s)]
DistTakes(c) == [s \in DistSym |-> c.dist[s] + dist_tbl[s + 1].ebits]

LEMMA TakesTypes ==
    ASSUME NEW c, Fits(c)
    PROVE  LitlenTakes(c) \in [0 .. LITLEN_MAX -> Nat] /\ DistTakes(c) \in [0 .. DISTSYM_MAX -> Nat]
<1>1. ASSUME NEW s \in 0 .. LITLEN_MAX PROVE c.litlen[s] + LitlenEbits(s) \in Nat
  <2>1. c.litlen[s] \in Nat
    <3>1. PICK n \in Nat : n > LITLEN_MAX /\ c.litlen \in Lits(n)
      BY DEF Fits
    <3>2. s \in 0 .. n - 1
      BY <3>1, Sizes
    <3>. QED  BY <3>1, <3>2 DEF Lits
  <2>2. LitlenEbits(s) \in Nat
    <3>1. s > LITLEN_EOB => s - LITLEN_EOB \in Symbols(litlen_tbl)
      BY Sizes DEF Symbols
    <3>. QED  BY <3>1, Tables DEF LitlenEbits
  <2>. QED  BY <2>1, <2>2
<1>2. ASSUME NEW s \in 0 .. DISTSYM_MAX PROVE c.dist[s] + dist_tbl[s + 1].ebits \in Nat
  <2>1. c.dist[s] \in Nat
    <3>1. PICK n \in Nat : n > DISTSYM_MAX /\ c.dist \in Lits(n)
      BY DEF Fits
    <3>2. s \in 0 .. n - 1
      BY <3>1, Sizes
    <3>. QED  BY <3>1, <3>2 DEF Lits
  <2>2. dist_tbl[s + 1].ebits \in Nat
    <3>1. s + 1 \in Symbols(dist_tbl)
      BY Sizes DEF Symbols
    <3>. QED  BY <3>1, Tables
  <2>. QED  BY <2>1, <2>2
<1>. QED  BY <1>1, <1>2, Sizes DEF LitlenTakes, DistTakes

LEMMA CodeLen ==
    ASSUME NEW ls, NEW s, ls[s] \in Nat, Code(ls, s) \in Seq(Bit)
    PROVE  Len(Code(ls, s)) = ls[s]
<1>1. Code(ls, s) = [i \in 1 .. ls[s] |-> (Codeword(ls, s) \div 2 ^ (i - 1)) % 2]
  BY Zenon DEF Code, Bits
<1>. QED  BY <1>1

LEMMA TokenLen ==
    ASSUME NEW c, Fits(c), NEW t \in Tokens
    PROVE  /\ TokenBits(c, t) \in Seq(Bit)
           /\ Len(TokenBits(c, t)) = Takes(LitlenTakes(c), LITLEN_MAX, LitlenOf(t))
                                       + Takes(DistTakes(c), DISTSYM_MAX, DistOf(t))
           /\ LitlenOf(t) \in 0 .. LITLEN_MAX
<1>0. /\ \A n : Lits(n) \subseteq [0 .. n - 1 -> Nat]
      /\ t.dist \in Nat /\ t.len \in Nat
  BY DEF Lits, Tokens
<1>1. LitlenOf(t) \in 0 .. LITLEN_MAX /\ LitlenEbits(LitlenOf(t)) =
         (IF t.dist = 0 THEN 0 ELSE litlen_tbl[SymOf(litlen_tbl, t.len)].ebits)
  <2>1. CASE t.dist = 0
    <3>1. LitlenOf(t) \in 0 .. LITLEN_EOB
      BY <2>1, Sizes DEF Tokens, IsToken, LitlenOf
    <3>. QED  BY <2>1, <3>1, Sizes DEF LitlenEbits
  <2>2. CASE t.dist # 0
    <3>1. t.len \in Nat /\ t.len >= MIN_LEN
      BY <2>2 DEF Tokens, IsToken
    <3>2. PICK l \in 1 .. Len(litlen_tbl) : l = SymOf(litlen_tbl, t.len)
      BY <3>1, Numbers, DeflateAssumption, SymOfType DEF Symbols
    <3>3. LitlenOf(t) = LITLEN_EOB + l
      BY <2>2, <3>2 DEF LitlenOf
    <3>4. LITLEN_EOB + l > LITLEN_EOB /\ (LITLEN_EOB + l) - LITLEN_EOB = l /\ LITLEN_EOB + l \in 0 .. LITLEN_MAX
      BY Sizes
    <3>. QED  BY <2>2, <3>2, <3>3, <3>4 DEF LitlenEbits
  <2>. QED  BY <2>1, <2>2
<1>2. /\ Code(c.litlen, LitlenOf(t)) \in Seq(Bit)
      /\ Len(Code(c.litlen, LitlenOf(t))) = c.litlen[LitlenOf(t)] /\ c.litlen[LitlenOf(t)] \in Nat
  <2>1. PICK n \in Nat : n > LITLEN_MAX /\ c.litlen \in Lits(n)
    BY DEF Fits
  <2>2. c.litlen \in [0 .. n - 1 -> Nat] /\ LitlenOf(t) \in 0 .. n - 1
    <3>1. LitlenOf(t) \in 0 .. LITLEN_MAX
      BY <1>1
    <3>2. c.litlen \in [0 .. n - 1 -> Nat]
      BY <1>0, <2>1
    <3>3. \A x \in 0 .. LITLEN_MAX : x \in 0 .. n - 1
      BY <2>1, Sizes
    <3>. QED  BY <3>1, <3>2, <3>3
  <2>3. c.litlen[LitlenOf(t)] \in Nat
    BY <2>2
  <2>. QED  BY <2>2, <2>3, CodeSeq, CodeLen
<1>3. Takes(LitlenTakes(c), LITLEN_MAX, LitlenOf(t)) = c.litlen[LitlenOf(t)] + LitlenEbits(LitlenOf(t))
  BY <1>1, Sizes DEF Takes, LitlenTakes
<1>4. CASE t.dist = 0
  <2>1. TokenBits(c, t) = Code(c.litlen, LitlenOf(t)) \o <<>> /\ <<>> \in Seq(Bit) /\ Len(<<>>) = 0
    BY <1>4 DEF TokenBits
  <2>2. Takes(DistTakes(c), DISTSYM_MAX, DistOf(t)) = 0
    <3>1. DistOf(t) = -1 /\ -1 \notin 0 .. DISTSYM_MAX
      BY <1>4 DEF DistOf
    <3>. QED  BY <3>1 DEF Takes
  <2>3. TokenBits(c, t) \in Seq(Bit) /\ Len(TokenBits(c, t)) = c.litlen[LitlenOf(t)] + 0
    BY <1>2, <2>1
  <2>. QED  BY <1>1, <1>2, <1>3, <1>4, <2>2, <2>3
<1>5. CASE t.dist # 0
  <2> DEFINE l == SymOf(litlen_tbl, t.len)
             d == SymOf(dist_tbl, t.dist)
             x == Code(c.litlen, LitlenOf(t))
             y == Bits(t.len - litlen_tbl[l].base, litlen_tbl[l].ebits)
             z == Code(c.dist, d - 1)
             u == Bits(t.dist - dist_tbl[d].base, dist_tbl[d].ebits)
  <2>1. l \in Symbols(litlen_tbl)
    <3>1. t.len \in Nat /\ t.len >= MIN_LEN
      BY <1>5 DEF Tokens, IsToken
    <3>. QED  BY <3>1, Numbers, DeflateAssumption, SymOfType
  <2>2. d \in Symbols(dist_tbl)
    <3>1. 1 \in Nat /\ 1 <= t.dist
      BY <1>0, <1>5
    <3>. QED  BY <1>0, <3>1, DeflateAssumption, SymOfType
  <2>3. DistOf(t) = d - 1 /\ LitlenEbits(LitlenOf(t)) = litlen_tbl[l].ebits
    BY <1>1, <1>5 DEF DistOf, distance2dist
  <2>6. TokenBits(c, t) = x \o (y \o z \o u)
    BY <1>5, Zenon DEF TokenBits
  <2> HIDE DEF l, d
  <2>4. y \in Seq(Bit) /\ Len(y) = litlen_tbl[l].ebits /\ litlen_tbl[l].ebits \in Nat
    <3>1. PICK b, e \in Nat : b = litlen_tbl[l].base /\ e = litlen_tbl[l].ebits
      BY <2>1, Tables
    <3>2. t.len - b \in Int
      BY <1>0
    <3>. QED  BY <3>1, <3>2, BitsSeq
  <2>5. u \in Seq(Bit) /\ Len(u) = dist_tbl[d].ebits /\ dist_tbl[d].ebits \in Nat
    <3>1. PICK b, e \in Nat : b = dist_tbl[d].base /\ e = dist_tbl[d].ebits
      BY <2>2, Tables
    <3>2. t.dist - b \in Int
      BY <1>0
    <3>. QED  BY <3>1, <3>2, BitsSeq
  <2>7. z \in Seq(Bit) /\ Len(z) = c.dist[d - 1] /\ c.dist[d - 1] \in Nat
    <3>1. PICK n \in Nat : n > DISTSYM_MAX /\ c.dist \in Lits(n)
      BY DEF Fits
    <3>2. c.dist \in [0 .. n - 1 -> Nat]
      BY <1>0, <3>1
    <3>3. d - 1 \in 0 .. n - 1
      BY <2>2, <3>1, Sizes DEF Symbols
    <3>4. c.dist[d - 1] \in Nat
      BY <3>2, <3>3
    <3>. QED  BY <3>2, <3>3, <3>4, CodeSeq, CodeLen
  <2>8. Takes(DistTakes(c), DISTSYM_MAX, DistOf(t)) = c.dist[d - 1] + dist_tbl[d].ebits
    <3>1. d - 1 \in DistSym /\ d - 1 \in 0 .. DISTSYM_MAX /\ (d - 1) + 1 = d
      BY <2>2, Sizes DEF Symbols
    <3>2. DistTakes(c)[d - 1] = c.dist[d - 1] + dist_tbl[(d - 1) + 1].ebits
      BY <3>1, Zenon DEF DistTakes
    <3>. QED  BY <2>3, <3>1, <3>2 DEF Takes
  <2>9. x \in Seq(Bit) /\ Len(x) = c.litlen[LitlenOf(t)]
    BY <1>2
  <2> HIDE DEF x, y, z, u
  <2>10. x \o (y \o z \o u) \in Seq(Bit) /\ Len(x \o (y \o z \o u)) = Len(x) + (Len(y) + Len(z) + Len(u))
    <3>1. y \o z \in Seq(Bit) /\ Len(y \o z) = Len(y) + Len(z)
      BY <2>4, <2>7, JoinedLen, Zenon
    <3>2. y \o z \o u \in Seq(Bit) /\ Len(y \o z \o u) = Len(y) + Len(z) + Len(u)
      BY <2>5, <3>1, JoinedLen, Zenon
    <3>3. \A a, b \in Seq(Bit) : a \o b \in Seq(Bit) /\ Len(a \o b) = Len(a) + Len(b)
      BY JoinedLen
    <3>4. Len(x \o (y \o z \o u)) = Len(x) + Len(y \o z \o u)
      BY <2>9, <3>2, <3>3, Zenon
    <3>5. x \o (y \o z \o u) \in Seq(Bit)
      BY <2>9, <3>2, <3>3, Zenon
    <3>. QED  BY <3>2, <3>4, <3>5
  <2>11. Len(TokenBits(c, t)) = (c.litlen[LitlenOf(t)] + litlen_tbl[l].ebits) + (c.dist[d - 1] + dist_tbl[d].ebits)
    BY <1>2, <2>4, <2>5, <2>6, <2>7, <2>9, <2>10
  <2>. QED  BY <1>1, <1>3, <2>3, <2>6, <2>8, <2>10, <2>11
<1>. QED  BY <1>4, <1>5

\* The two sums of huffman_block_body_len, added up along the alphabets.
LEMMA LitlenSum ==
    ASSUME NEW c, Fits(c), NEW blk \in Seq(Tokens), NEW s, s = [i \in 1 .. Len(blk) |-> LitlenOf(blk[i])]
    PROVE  MapThenSumSet(LAMBDA x : litlen_freqs(blk)[x] * (c.litlen[x] + LitlenEbits(x)), Litlen)
               = Total(Share(s, LitlenTakes(c), Len(blk), LITLEN_MAX), 0 .. LITLEN_MAX, LITLEN_MAX)
<1> DEFINE m == LITLEN_MAX
           v == Share(s, LitlenTakes(c), Len(blk), m)
           of(x) == litlen_freqs(blk)[x] * (c.litlen[x] + LitlenEbits(x))
           any(t) == CHOOSE x \in t : TRUE
           Fold(g) == g = [t \in SUBSET Litlen |-> IF t = {} THEN 0 ELSE of(any(t)) + g[t \ {any(t)}]]
<1>1. m \in Nat /\ Litlen = 0 .. m /\ v \in [0 .. m -> Nat] /\ DOMAIN blk = 1 .. Len(blk)
  <2>1. Len(blk) \in Nat /\ DOMAIN blk = 1 .. Len(blk)
    OBVIOUS
  <2>2. LitlenTakes(c) \in [0 .. m -> Nat] /\ m \in Nat
    BY TakesTypes, Sizes
  <2>. QED  BY <2>1, <2>2, Sizes, ShareType
<1>2. \A x \in Litlen : v[x] = of(x)
  <2> TAKE x \in Litlen
  <2>1. Occurs(s, Len(blk), x) = {i \in DOMAIN blk : LitlenOf(blk[i]) = x}
    BY <1>1 DEF Occurs
  <2>2. litlen_freqs(blk)[x] = Cardinality(Occurs(s, Len(blk), x))
    BY <2>1, Zenon DEF litlen_freqs
  <2>3. v[x] = Cardinality(Occurs(s, Len(blk), x)) * LitlenTakes(c)[x]
    BY <1>1, Zenon DEF Share
  <2>. QED  BY <2>2, <2>3, Zenon DEF LitlenTakes
<1> HIDE DEF v, m
<1>3. \A t \in SUBSET Litlen : t # {} => v[any(t)] = of(any(t))
  <2> TAKE t \in SUBSET Litlen
  <2>1. t # {} => any(t) \in Litlen
    OBVIOUS
  <2> HIDE DEF any, of
  <2>. QED  BY <1>2, <2>1
<1>4. ASSUME NEW g PROVE Fold(g) <=> Folded(g, v, Litlen)
  <2>1. [t \in SUBSET Litlen |-> IF t = {} THEN 0 ELSE of(any(t)) + g[t \ {any(t)}]] =
        [t \in SUBSET Litlen |-> IF t = {} THEN 0 ELSE v[any(t)] + g[t \ {any(t)}]]
    <3> HIDE DEF any, of
    <3>. QED  BY <1>3
  <2>. QED  BY <2>1 DEF Folded
<1>5. \E g : Fold(g)
  <2>1. \E g : Folded(g, v, Litlen)
    BY <1>1, FoldedTotal
  <2> HIDE DEF Fold
  <2>. QED  BY <1>4, <2>1
<1>6. PICK g : Fold(g) /\ MapThenSumSet(LAMBDA x : litlen_freqs(blk)[x] * (c.litlen[x] + LitlenEbits(x)), Litlen) = g[Litlen]
  BY <1>5 DEF MapThenSumSet, MapThenFoldSet
<1>7. g[Litlen] = Total(v, 0 .. m, m)
  <2> HIDE DEF Fold
  <2>. QED  BY <1>1, <1>4, <1>6, FoldedTotal
<1>. QED  BY <1>6, <1>7 DEF v, m

LEMMA DistSum ==
    ASSUME NEW c, Fits(c), NEW blk \in Seq(Tokens), NEW s, s = [i \in 1 .. Len(blk) |-> DistOf(blk[i])]
    PROVE  MapThenSumSet(LAMBDA x : dist_freqs(blk)[x] * (c.dist[x] + dist_tbl[x + 1].ebits), DistSym)
               = Total(Share(s, DistTakes(c), Len(blk), DISTSYM_MAX), 0 .. DISTSYM_MAX, DISTSYM_MAX)
<1> DEFINE m == DISTSYM_MAX
           v == Share(s, DistTakes(c), Len(blk), m)
           of(x) == dist_freqs(blk)[x] * (c.dist[x] + dist_tbl[x + 1].ebits)
           any(t) == CHOOSE x \in t : TRUE
           Fold(g) == g = [t \in SUBSET DistSym |-> IF t = {} THEN 0 ELSE of(any(t)) + g[t \ {any(t)}]]
<1>1. m \in Nat /\ DistSym = 0 .. m /\ v \in [0 .. m -> Nat] /\ DOMAIN blk = 1 .. Len(blk)
  <2>1. Len(blk) \in Nat /\ DOMAIN blk = 1 .. Len(blk)
    OBVIOUS
  <2>2. DistTakes(c) \in [0 .. m -> Nat] /\ m \in Nat
    BY TakesTypes, Sizes
  <2>. QED  BY <2>1, <2>2, Sizes, ShareType
<1>2. \A x \in DistSym : v[x] = of(x)
  <2> TAKE x \in DistSym
  <2>1. Occurs(s, Len(blk), x) = {i \in DOMAIN blk : blk[i].dist # 0 /\ distance2dist(blk[i].dist) = x}
    <3>1. x # -1
      BY <1>1
    <3>2. \A i \in DOMAIN blk : s[i] = x <=> blk[i].dist # 0 /\ distance2dist(blk[i].dist) = x
      BY <1>1, <3>1 DEF DistOf
    <3>. QED  BY <1>1, <3>2 DEF Occurs
  <2>2. dist_freqs(blk)[x] = Cardinality(Occurs(s, Len(blk), x))
    BY <2>1, Zenon DEF dist_freqs
  <2>3. v[x] = Cardinality(Occurs(s, Len(blk), x)) * DistTakes(c)[x]
    BY <1>1, Zenon DEF Share
  <2>. QED  BY <2>2, <2>3, Zenon DEF DistTakes
<1> HIDE DEF v, m
<1>3. \A t \in SUBSET DistSym : t # {} => v[any(t)] = of(any(t))
  <2> TAKE t \in SUBSET DistSym
  <2>1. t # {} => any(t) \in DistSym
    OBVIOUS
  <2> HIDE DEF any, of
  <2>. QED  BY <1>2, <2>1
<1>4. ASSUME NEW g PROVE Fold(g) <=> Folded(g, v, DistSym)
  <2>1. [t \in SUBSET DistSym |-> IF t = {} THEN 0 ELSE of(any(t)) + g[t \ {any(t)}]] =
        [t \in SUBSET DistSym |-> IF t = {} THEN 0 ELSE v[any(t)] + g[t \ {any(t)}]]
    <3> HIDE DEF any, of
    <3>. QED  BY <1>3
  <2>. QED  BY <2>1 DEF Folded
<1>5. \E g : Fold(g)
  <2>1. \E g : Folded(g, v, DistSym)
    BY <1>1, FoldedTotal
  <2> HIDE DEF Fold
  <2>. QED  BY <1>4, <2>1
<1>6. PICK g : Fold(g) /\ MapThenSumSet(LAMBDA x : dist_freqs(blk)[x] * (c.dist[x] + dist_tbl[x + 1].ebits), DistSym) = g[DistSym]
  BY <1>5 DEF MapThenSumSet, MapThenFoldSet
<1>7. g[DistSym] = Total(v, 0 .. m, m)
  <2> HIDE DEF Fold
  <2>. QED  BY <1>1, <1>4, <1>6, FoldedTotal
<1>. QED  BY <1>6, <1>7 DEF v, m

\* Partial sums of what the first elements of s take.
LEMMA TakesSums ==
    ASSUME NEW n \in Nat, NEW m \in Nat, NEW s, NEW w \in [0 .. m -> Nat]
    PROVE  \E M : Spends(M, s, w, n, m)
<1> DEFINE a == [k \in 1 .. n |-> Takes(w, m, s[k])]
<1>1. a \in [1 .. n -> Nat]
  BY DEF Takes
<1>2. \A k \in 1 .. n : a[k] = Takes(w, m, s[k])
  OBVIOUS
<1> HIDE DEF a
<1>3. PICK M : Sums(M, a, n)
  BY <1>1, SumsExist
<1>4. Spends(M, s, w, n, m)
  BY <1>2, <1>3 DEF Sums, Spends
<1>. QED  BY <1>4

\* huffman_block_body_len is what write_huffman_block writes.
LEMMA BodyLen ==
    ASSUME NEW c, Fits(c), NEW blk \in Seq(Tokens)
    PROVE  /\ write_huffman_block(blk, c) \in Seq(Bit)
           /\ Len(write_huffman_block(blk, c)) = huffman_block_body_len(blk, c)
<1> DEFINE n == Len(blk)
           ss == [i \in 1 .. n |-> TokenBits(c, blk[i])]
           s == [i \in 1 .. n |-> LitlenOf(blk[i])]
           r == [i \in 1 .. n |-> DistOf(blk[i])]
           u == LitlenTakes(c)
           w == DistTakes(c)
<1>1. /\ n \in Nat /\ u \in [0 .. LITLEN_MAX -> Nat] /\ w \in [0 .. DISTSYM_MAX -> Nat]
      /\ LITLEN_MAX \in Nat /\ DISTSYM_MAX \in Nat
  BY TakesTypes, Sizes
<1>2. PICK A : Spends(A, s, u, n, LITLEN_MAX)
  <2> HIDE DEF n, s, u
  <2>. QED  BY <1>1, TakesSums
<1>3. PICK B : Spends(B, r, w, n, DISTSYM_MAX)
  <2> HIDE DEF n, r, w
  <2>. QED  BY <1>1, TakesSums
<1>4. huffman_block_body_len(blk, c) = A[n] + B[n]
  <2>1. Total(Share(s, u, n, LITLEN_MAX), 0 .. LITLEN_MAX, LITLEN_MAX) = A[n]
    <3> HIDE DEF n, s, u
    <3>. QED  BY <1>1, <1>2, DoubleCount
  <2>2. Total(Share(r, w, n, DISTSYM_MAX), 0 .. DISTSYM_MAX, DISTSYM_MAX) = B[n]
    <3> HIDE DEF n, r, w
    <3>. QED  BY <1>1, <1>3, DoubleCount
  <2>3. MapThenSumSet(LAMBDA x : litlen_freqs(blk)[x] * (c.litlen[x] + LitlenEbits(x)), Litlen) = A[n]
    BY <2>1, LitlenSum
  <2>4. MapThenSumSet(LAMBDA x : dist_freqs(blk)[x] * (c.dist[x] + dist_tbl[x + 1].ebits), DistSym) = B[n]
    BY <2>2, DistSum
  <2>. QED  BY <2>3, <2>4 DEF huffman_block_body_len
<1>5. ASSUME NEW k \in 1 .. n
      PROVE  /\ ss[k] \in Seq(Bit)
             /\ Len(ss[k]) = Takes(u, LITLEN_MAX, s[k]) + Takes(w, DISTSYM_MAX, r[k])
             /\ Takes(u, LITLEN_MAX, s[k]) \in Nat /\ Takes(w, DISTSYM_MAX, r[k]) \in Nat
  <2>1. blk[k] \in Tokens
    BY <1>1
  <2>2. ss[k] = TokenBits(c, blk[k]) /\ s[k] = LitlenOf(blk[k]) /\ r[k] = DistOf(blk[k])
    OBVIOUS
  <2>3. \A x : Takes(u, LITLEN_MAX, x) \in Nat /\ Takes(w, DISTSYM_MAX, x) \in Nat
    <3> HIDE DEF u, w
    <3>. QED  BY <1>1 DEF Takes
  <2> HIDE DEF ss, s, r
  <2>. QED  BY <2>1, <2>2, <2>3, TokenLen
<1>6. ss \in Seq(Seq(Bit)) /\ Len(ss) = n
  <2> DEFINE S == Seq(Bit)
  <2>1. \A i \in 1 .. n : TokenBits(c, blk[i]) \in S
    BY <1>5
  <2>2. ss \in Seq(S) /\ Len(ss) = n
    <3> HIDE DEF S, n
    <3>. QED  BY <1>1, <2>1
  <2>. QED  BY <2>2
<1> DEFINE M == [k \in 0 .. n |-> A[k] + B[k]]
<1>7. M[0] = 0 /\ M[n] = A[n] + B[n] /\ \A k \in 1 .. n : M[k] = M[k - 1] + Len(ss[k])
  <2>1. M[0] = 0 /\ \A k \in 0 .. n : M[k] = A[k] + B[k]
    BY <1>2, <1>3 DEF Spends
  <2>2. ASSUME NEW k \in 1 .. n PROVE M[k] = M[k - 1] + Len(ss[k])
    <3>1. k - 1 \in 0 .. n /\ k \in 0 .. n
      BY <1>1
    <3>2. PICK a, b, d, e \in Nat : /\ a = A[k - 1] /\ b = B[k - 1]
                                    /\ d = Takes(u, LITLEN_MAX, s[k]) /\ e = Takes(w, DISTSYM_MAX, r[k])
      <4>1. A[k - 1] \in Nat /\ B[k - 1] \in Nat
        BY <1>2, <1>3, <3>1 DEF Spends
      <4> HIDE DEF u, s, w, r, n
      <4>. QED  BY <1>5, <4>1
    <3>3. A[k] = a + d /\ B[k] = b + e /\ Len(ss[k]) = d + e
      <4> HIDE DEF u, s, w, r, n, ss
      <4>. QED  BY <1>2, <1>3, <1>5, <3>2 DEF Spends
    <3>4. M[k] = A[k] + B[k] /\ M[k - 1] = A[k - 1] + B[k - 1]
      BY <2>1, <3>1
    <3> HIDE DEF M, ss
    <3>. QED  BY <3>2, <3>3, <3>4
  <2>3. M[n] = A[n] + B[n]
    <3>1. n \in 0 .. n
      BY <1>1
    <3> HIDE DEF M
    <3>. QED  BY <2>1, <3>1
  <2> HIDE DEF M, ss
  <2>. QED  BY <2>1, <2>2, <2>3
<1>8. FlattenSeq(ss) \in Seq(Bit) /\ Len(FlattenSeq(ss)) = M[n]
  <2> HIDE DEF ss, M, n
  <2>. QED  BY <1>6, <1>7, FlattenedLen
<1>. QED  BY <1>4, <1>7, <1>8, Zenon DEF write_huffman_block

\* What a symbol of the codeword lengths takes.
CodelenTakes(d) == [s \in 0 .. MAX_CODELEN_LENS - 1 |-> d.codelen[s] + CodelenEbits(s)]

LEMMA CodelenSum ==
    ASSUME NEW d, IsDescription(d), NEW s, s = [i \in 1 .. Len(d.encoded) |-> d.encoded[i].sym],
           NEW m \in Nat, m = MAX_CODELEN_LENS - 1
    PROVE  /\ CodelenTakes(d) \in [0 .. m -> Nat]
           /\ MapThenSumSet(LAMBDA x : codelen_freqs(d.encoded)[x] * (d.codelen[x] + CodelenEbits(x)),
                            0 .. MAX_CODELEN_LENS - 1)
                = Total(Share(s, CodelenTakes(d), Len(d.encoded), m), 0 .. m, m)
<1> DEFINE v == Share(s, CodelenTakes(d), Len(d.encoded), m)
           D == 0 .. MAX_CODELEN_LENS - 1
           of(x) == codelen_freqs(d.encoded)[x] * (d.codelen[x] + CodelenEbits(x))
           any(t) == CHOOSE x \in t : TRUE
           Fold(g) == g = [t \in SUBSET D |-> IF t = {} THEN 0 ELSE of(any(t)) + g[t \ {any(t)}]]
<1>1. CodelenTakes(d) \in [0 .. m -> Nat]
  <2>1. ASSUME NEW x \in 0 .. m PROVE d.codelen[x] + CodelenEbits(x) \in Nat
    <3>1. d.codelen[x] \in Nat
      BY Numbers DEF IsDescription
    <3>2. x \in CodelenSyms
      BY Sizes, Numbers DEF CodelenSyms
    <3>. QED  BY <3>1, <3>2, CodelenNumbers
  <2>. QED  BY <2>1 DEF CodelenTakes
<1>2. D = 0 .. m /\ v \in [0 .. m -> Nat] /\ DOMAIN d.encoded = 1 .. Len(d.encoded)
  <2>1. Len(d.encoded) \in Nat /\ DOMAIN d.encoded = 1 .. Len(d.encoded)
    BY DEF IsDescription, Encoded
  <2>. QED  BY <1>1, <2>1, ShareType
<1>3. \A x \in D : v[x] = of(x)
  <2> TAKE x \in D
  <2>1. Occurs(s, Len(d.encoded), x) = {i \in DOMAIN d.encoded : d.encoded[i].sym = x}
    BY <1>2 DEF Occurs
  <2>2. codelen_freqs(d.encoded)[x] = Cardinality(Occurs(s, Len(d.encoded), x))
    BY <2>1, Zenon DEF codelen_freqs
  <2>3. v[x] = Cardinality(Occurs(s, Len(d.encoded), x)) * CodelenTakes(d)[x]
    BY <1>2, Zenon DEF Share
  <2>. QED  BY <2>2, <2>3, Zenon DEF CodelenTakes
<1> HIDE DEF v, D
<1>4. \A t \in SUBSET D : t # {} => v[any(t)] = of(any(t))
  <2> TAKE t \in SUBSET D
  <2>1. t # {} => any(t) \in D
    OBVIOUS
  <2> HIDE DEF any, of
  <2>. QED  BY <1>3, <2>1
<1>5. ASSUME NEW g PROVE Fold(g) <=> Folded(g, v, D)
  <2>1. [t \in SUBSET D |-> IF t = {} THEN 0 ELSE of(any(t)) + g[t \ {any(t)}]] =
        [t \in SUBSET D |-> IF t = {} THEN 0 ELSE v[any(t)] + g[t \ {any(t)}]]
    <3> HIDE DEF any, of
    <3>. QED  BY <1>4
  <2>. QED  BY <2>1 DEF Folded
<1>6. \E g : Fold(g)
  <2>1. \E g : Folded(g, v, D)
    BY <1>2, FoldedTotal
  <2> HIDE DEF Fold
  <2>. QED  BY <1>5, <2>1
<1>7. PICK g : Fold(g) /\ MapThenSumSet(LAMBDA x : codelen_freqs(d.encoded)[x] * (d.codelen[x] + CodelenEbits(x)), D) = g[D]
  BY <1>6 DEF MapThenSumSet, MapThenFoldSet
<1>8. g[D] = Total(v, 0 .. m, m)
  <2> HIDE DEF Fold
  <2>. QED  BY <1>2, <1>5, <1>7, FoldedTotal
<1>. QED  BY <1>1, <1>7, <1>8 DEF v, D

\* The symbols of the codeword lengths, with their extra bits.
EncodedBits(d) ==
    [i \in 1 .. Len(d.encoded) |->
        Code(d.codelen, d.encoded[i].sym)
          \o Bits(d.encoded[i].count - CodelenMin(d.encoded[i].sym), CodelenEbits(d.encoded[i].sym))]
EncodedTakes(d) ==
    MapThenSumSet(LAMBDA s : codelen_freqs(d.encoded)[s] * (d.codelen[s] + CodelenEbits(s)),
                  0 .. MAX_CODELEN_LENS - 1)

LEMMA EncodedLen ==
    ASSUME NEW d, IsDescription(d)
    PROVE  FlattenSeq(EncodedBits(d)) \in Seq(Bit) /\ Len(FlattenSeq(EncodedBits(d))) = EncodedTakes(d)
<1>0. PICK ss : ss = EncodedBits(d)
  OBVIOUS
<1> DEFINE n == Len(d.encoded)
           s == [i \in 1 .. n |-> d.encoded[i].sym]
           w == CodelenTakes(d)
           R == [sym : CodelenSyms, count : Int]
<1>1. PICK m \in Nat : m = MAX_CODELEN_LENS - 1
  BY Sizes, Numbers
<1>2. n \in Nat /\ d.encoded \in Seq(R)
  BY DEF IsDescription, Encoded
<1>3. w \in [0 .. m -> Nat]
  BY <1>1, CodelenSum
<1>4. PICK M : Spends(M, s, w, n, m)
  <2> HIDE DEF n, s, w
  <2>. QED  BY <1>2, <1>3, TakesSums
<1>5. Total(Share(s, w, n, m), 0 .. m, m) = M[n]
  <2> HIDE DEF n, s, w
  <2>. QED  BY <1>2, <1>3, <1>4, DoubleCount
<1>6. ASSUME NEW k \in 1 .. n PROVE ss[k] \in Seq(Bit) /\ Len(ss[k]) = Takes(w, m, s[k])
  <2>1. d.encoded[k] \in R
    <3> HIDE DEF R, n
    <3>. QED  BY <1>2 DEF n
  <2>2. PICK x \in CodelenSyms, c \in Int : x = d.encoded[k].sym /\ c = d.encoded[k].count
    BY <2>1
  <2>3. x \in 0 .. m /\ s[k] = x
    BY <1>1, <2>2, RunBounds
  <2>4. d.codelen \in [0 .. m -> Nat] /\ m + 1 \in Nat /\ (m + 1) - 1 = m
    <3>1. 0 .. CODELEN_LIMIT \subseteq Nat
      BY Numbers
    <3>. QED  BY <1>1, <3>1 DEF IsDescription
  <2>5. d.codelen[x] \in Nat
    BY <2>3, <2>4
  <2>6. Code(d.codelen, x) \in Seq(Bit) /\ Len(Code(d.codelen, x)) = d.codelen[x]
    <3>1. Code(d.codelen, x) \in Seq(Bit)
      <4>1. d.codelen \in [0 .. (m + 1) - 1 -> Nat] /\ x \in 0 .. (m + 1) - 1
        BY <2>3, <2>4
      <4>. QED  BY <2>4, <4>1, CodeSeq
    <3>. QED  BY <2>5, <3>1, CodeLen
  <2>7. CodelenMin(x) \in Nat /\ CodelenEbits(x) \in Nat
    BY CodelenNumbers
  <2>8. /\ Bits(c - CodelenMin(x), CodelenEbits(x)) \in Seq(Bit)
        /\ Len(Bits(c - CodelenMin(x), CodelenEbits(x))) = CodelenEbits(x)
    <3>1. c - CodelenMin(x) \in Int
      BY <2>2, <2>7
    <3>. QED  BY <2>7, <3>1, BitsSeq
  <2>9. ss[k] = Code(d.codelen, x) \o Bits(c - CodelenMin(x), CodelenEbits(x))
    BY <1>0, <2>2 DEF EncodedBits
  <2>10. ss[k] \in Seq(Bit) /\ Len(ss[k]) = d.codelen[x] + CodelenEbits(x)
    <3> DEFINE p == Code(d.codelen, x)
               q == Bits(c - CodelenMin(x), CodelenEbits(x))
    <3>1. p \in Seq(Bit) /\ q \in Seq(Bit) /\ Len(p) = d.codelen[x] /\ Len(q) = CodelenEbits(x) /\ ss[k] = p \o q
      BY <2>6, <2>8, <2>9
    <3> HIDE DEF p, q
    <3>2. p \o q \in Seq(Bit) /\ Len(p \o q) = Len(p) + Len(q)
      BY <3>1, JoinedLen, Zenon
    <3>. QED  BY <3>1, <3>2, Zenon
  <2>11. Takes(w, m, s[k]) = d.codelen[x] + CodelenEbits(x)
    BY <1>1, <2>3 DEF Takes, CodelenTakes
  <2>. QED  BY <2>10, <2>11
<1>7. ss \in Seq(Seq(Bit)) /\ Len(ss) = n
  <2> DEFINE S == Seq(Bit)
             f(i) == Code(d.codelen, d.encoded[i].sym)
                       \o Bits(d.encoded[i].count - CodelenMin(d.encoded[i].sym), CodelenEbits(d.encoded[i].sym))
  <2>1. \A k \in 1 .. n : ss[k] = f(k)
    BY <1>0 DEF EncodedBits
  <2>2. \A k \in 1 .. n : f(k) \in S
    BY <1>6, <2>1
  <2>3. ss \in Seq(S) /\ Len(ss) = n
    <3>1. ss = [k \in 1 .. n |-> f(k)]
      BY <1>0, Zenon DEF EncodedBits
    <3> HIDE DEF S, n, f
    <3>2. \A N \in Nat : \A F \in [1 .. N -> S] : F \in Seq(S) /\ Len(F) = N
      OBVIOUS
    <3>3. ss \in [1 .. n -> S]
      BY <2>2, <3>1, Zenon
    <3>. QED  BY <1>2, <3>2, <3>3, Zenon
  <2>. QED  BY <2>3
<1>8. M[0] = 0 /\ \A k \in 1 .. Len(ss) : M[k] = M[k - 1] + Len(ss[k])
  <2> HIDE DEF n, s, w
  <2>. QED  BY <1>4, <1>6, <1>7 DEF Spends
<1>9. FlattenSeq(ss) \in Seq(Bit) /\ Len(FlattenSeq(ss)) = M[n]
  <2> HIDE DEF n
  <2>. QED  BY <1>7, <1>8, FlattenedLen
<1>10. EncodedTakes(d) = M[n]
  BY <1>1, <1>5, CodelenSum DEF EncodedTakes
<1>. QED  BY <1>0, <1>9, <1>10, Zenon

\* The lengths of the codeword lengths, each as long.
LEMMA EvenLen ==
    ASSUME NEW n \in Nat, NEW b \in Nat, NEW ss \in Seq(Seq(Bit)), Len(ss) = n, \A i \in 1 .. n : Len(ss[i]) = b
    PROVE  FlattenSeq(ss) \in Seq(Bit) /\ Len(FlattenSeq(ss)) = b * n
<1> DEFINE M == [k \in 0 .. n |-> b * k]
<1>1. M[0] = 0 /\ M[n] = b * n /\ \A k \in 1 .. n : M[k] = M[k - 1] + b
  <2>1. b * 0 = 0
    OBVIOUS
  <2>2. ASSUME NEW k \in 1 .. n PROVE M[k] = M[k - 1] + b
    <3>1. PICK j \in Nat : k = j + 1 /\ k - 1 = j /\ j \in 0 .. n
      OBVIOUS
    <3>2. b * (j + 1) = b * j + b
      OBVIOUS
    <3>. QED  BY <3>1, <3>2
  <2>. QED  BY <2>1, <2>2
<1> HIDE DEF M
<1>. QED  BY <1>1, FlattenedLen

LEMMA HeadLen ==
    ASSUME NEW final, NEW type \in Nat PROVE Head3(final, type) \in Seq(Bit) /\ Len(Head3(final, type)) = 3
<1> DEFINE a == <<IF final THEN 1 ELSE 0>>
           b == Bits(type, 2)
<1>1. a \in Seq(Bit) /\ Len(a) = 1
  BY DEF Bit
<1>2. b \in Seq(Bit) /\ Len(b) = 2
  <2>1. type \in Int /\ 2 \in Nat
    OBVIOUS
  <2>. QED  BY <2>1, BitsSeq, Zenon
<1>3. Head3(final, type) = a \o b
  BY Zenon DEF Head3
<1> HIDE DEF a, b
<1>4. a \o b \in Seq(Bit) /\ Len(a \o b) = Len(a) + Len(b)
  BY <1>1, <1>2, JoinedLen, Zenon
<1>. QED  BY <1>1, <1>2, <1>3, <1>4

\* dyn_block_len is what write_dynamic_block writes.
LEMMA DynamicLen ==
    ASSUME NEW final, NEW blk \in Seq(Tokens), NEW d, IsDescription(d)
    PROVE  /\ write_dynamic_block(final, blk, d) \in Seq(Bit)
           /\ Len(write_dynamic_block(final, blk, d)) = dyn_block_len(blk, d)
<1> DEFINE n == count_codelen_lens(d.codelen)
           k == MAX_CODELEN_LENS
           e(i) == d.encoded[i]
           ls(i) == Bits(d.codelen[codelen_lengths_order[i]], CODELEN_BITS)
           es(i) == Code(d.codelen, e(i).sym) \o Bits(e(i).count - CodelenMin(e(i).sym), CodelenEbits(e(i).sym))
           a == Head3(final, 2)
           b1 == Bits(d.num_litlen - MIN_LITLEN_LENS, HLIT)
           b2 == Bits(d.num_dist - 1, HDIST)
           b3 == Bits(n - MIN_CODELEN_LENS, HCLEN)
           f1 == FlattenSeq([i \in 1 .. n |-> ls(i)])
           f2 == FlattenSeq([i \in 1 .. Len(d.encoded) |-> es(i)])
           w == write_huffman_block(blk, d)
           x == MapThenSumSet(LAMBDA s : codelen_freqs(d.encoded)[s] * (d.codelen[s] + CodelenEbits(s)),
                              0 .. MAX_CODELEN_LENS - 1)
<1>1. n \in 1 .. k /\ k \in Nat
  BY NumCodelenLens, Sizes
<1>2. a \in Seq(Bit) /\ Len(a) = 3 /\ w \in Seq(Bit) /\ Len(w) = huffman_block_body_len(blk, d)
  BY HeadLen, BodyLen DEF IsDescription
<1>3. /\ b1 \in Seq(Bit) /\ b2 \in Seq(Bit) /\ b3 \in Seq(Bit)
      /\ Len(b1) = HLIT /\ Len(b2) = HDIST /\ Len(b3) = HCLEN
  <2>1. d.num_litlen - MIN_LITLEN_LENS \in Int /\ d.num_dist - 1 \in Int /\ n - MIN_CODELEN_LENS \in Int
    <3>1. PICK p, q \in Nat : p = d.num_litlen /\ q = d.num_dist
      BY DEF IsDescription
    <3>2. n \in Nat
      <4> HIDE DEF n, k
      <4>. QED  BY <1>1
    <3> HIDE DEF n
    <3>. QED  BY <3>1, <3>2, Sizes, Numbers
  <2>. QED  BY <2>1, Numbers, BitsSeq
<1>4. d.codelen \in [0 .. k - 1 -> Nat]
  <2>1. 0 .. CODELEN_LIMIT \subseteq Nat
    BY Numbers
  <2>. QED  BY <2>1 DEF IsDescription
<1>5. f1 \in Seq(Bit) /\ Len(f1) = CODELEN_BITS * n
  <2>1. ASSUME NEW i \in 1 .. n PROVE ls(i) \in Seq(Bit) /\ Len(ls(i)) = CODELEN_BITS
    <3>1. i \in 1 .. k
      <4> HIDE DEF n, k
      <4>. QED  BY <1>1
    <3>2. PICK y \in 0 .. k - 1 : y = codelen_lengths_order[i]
      BY <3>1, Order
    <3>3. d.codelen[y] \in Int
      <4>1. d.codelen[y] \in Nat
        BY <1>4, <3>2, Zenon
      <4>. QED  BY <4>1
    <3>. QED  BY <3>2, <3>3, Numbers, BitsSeq
  <2> DEFINE ss == [i \in 1 .. n |-> ls(i)]
  <2>2. n \in Nat
    <3> HIDE DEF n, k
    <3>. QED  BY <1>1
  <2>3. ss \in Seq(Seq(Bit)) /\ Len(ss) = n /\ \A i \in 1 .. n : Len(ss[i]) = CODELEN_BITS
    <3> HIDE DEF ls, n
    <3>. QED  BY <2>1, <2>2
  <2> HIDE DEF ss, n
  <2>4. FlattenSeq(ss) \in Seq(Bit) /\ Len(FlattenSeq(ss)) = CODELEN_BITS * n
    BY <2>2, <2>3, Numbers, EvenLen
  <2>. QED  BY <2>4 DEF ss, n
<1>6. f2 \in Seq(Bit) /\ Len(f2) = x
  <2>1. f2 = FlattenSeq(EncodedBits(d)) /\ x = EncodedTakes(d)
    BY Zenon DEF EncodedBits, EncodedTakes
  <2>. QED  BY <2>1, EncodedLen, Zenon
<1>7. write_dynamic_block(final, blk, d) = a \o b1 \o b2 \o b3 \o f1 \o f2 \o w
  BY Zenon DEF write_dynamic_block
<1>8. dyn_block_len(blk, d) = 3 + HLIT + HDIST + HCLEN + CODELEN_BITS * n + x + huffman_block_body_len(blk, d)
  BY Zenon DEF dyn_block_len
<1> HIDE DEF a, b1, b2, b3, f1, f2, w, x
<1>9. /\ a \o b1 \o b2 \o b3 \o f1 \o f2 \o w \in Seq(Bit)
      /\ Len(a \o b1 \o b2 \o b3 \o f1 \o f2 \o w)
           = Len(a) + Len(b1) + Len(b2) + Len(b3) + Len(f1) + Len(f2) + Len(w)
  <2>1. a \o b1 \in Seq(Bit) /\ Len(a \o b1) = Len(a) + Len(b1)
    BY <1>2, <1>3, JoinedLen, Zenon
  <2>2. a \o b1 \o b2 \in Seq(Bit) /\ Len(a \o b1 \o b2) = Len(a) + Len(b1) + Len(b2)
    BY <1>3, <2>1, JoinedLen, Zenon
  <2>3. a \o b1 \o b2 \o b3 \in Seq(Bit) /\ Len(a \o b1 \o b2 \o b3) = Len(a) + Len(b1) + Len(b2) + Len(b3)
    BY <1>3, <2>2, JoinedLen, Zenon
  <2>4. /\ a \o b1 \o b2 \o b3 \o f1 \in Seq(Bit)
        /\ Len(a \o b1 \o b2 \o b3 \o f1) = Len(a) + Len(b1) + Len(b2) + Len(b3) + Len(f1)
    BY <1>5, <2>3, JoinedLen, Zenon
  <2>5. /\ a \o b1 \o b2 \o b3 \o f1 \o f2 \in Seq(Bit)
        /\ Len(a \o b1 \o b2 \o b3 \o f1 \o f2) = Len(a) + Len(b1) + Len(b2) + Len(b3) + Len(f1) + Len(f2)
    BY <1>6, <2>4, JoinedLen, Zenon
  <2>. QED  BY <1>2, <2>5, JoinedLen, Zenon
<1>. QED  BY <1>2, <1>3, <1>5, <1>6, <1>7, <1>8, <1>9

\* What is rounded up, by however many multiples more, is a multiple.
LEMMA RoundedUp ==
    ASSUME NEW n \in Nat, NEW m \in Nat \ {0}, NEW p \in Nat
    PROVE  round_up(round_up(n, m) + m * p, m) = round_up(n, m) + m * p
<1>1. PICK q \in Nat : q = (n + m - 1) \div m
  <2>1. n + m - 1 \in Nat
    OBVIOUS
  <2>. QED  BY <2>1, DivMod
<1>2. round_up(n, m) = m * q
  BY <1>1, Zenon DEF round_up
<1>3. m * q + m * p = m * (q + p) /\ q + p \in Nat
  OBVIOUS
<1>4. m - 1 \in 0 .. m - 1
  OBVIOUS
<1>5. PICK x \in Nat : x = m * (q + p)
  OBVIOUS
<1>6. (x + (m - 1)) \div m = q + p
  BY <1>3, <1>4, <1>5, Assumed, H!DivModUnique, Zenon
<1>7. x + m - 1 = x + (m - 1)
  OBVIOUS
<1>8. round_up(x, m) = x
  BY <1>5, <1>6, <1>7, Zenon DEF round_up
<1>. QED  BY <1>2, <1>3, <1>5, <1>8

\* A write that succeeds follows one that did, and adds its bits.
LEMMA PutLen ==
    ASSUME NEW s \in Stream, NEW b \in Seq(Bit), Put(s, b).ok
    PROVE  s.ok /\ Len(Put(s, b).bits) = Len(s.bits) + Len(b)
<1>1. s.bits \in Seq(Bit) /\ DOMAIN s = {"bits", "cap", "ok"}
  BY DEF Stream
<1>2. [s EXCEPT !.ok = FALSE].ok = FALSE
  BY <1>1
<1>3. s.ok /\ Put(s, b) = [s EXCEPT !.bits = s.bits \o b]
  BY <1>2, Zenon DEF Put
<1>4. Put(s, b).bits = s.bits \o b
  BY <1>1, <1>3
<1>5. Len(s.bits \o b) = Len(s.bits) + Len(b)
  BY <1>1, JoinedLen
<1>. QED  BY <1>3, <1>4, <1>5

LEMMA AlignedLen ==
    ASSUME NEW s \in Stream, NEW bytes \in Seq(Byte), s.ok => round_up(Len(s.bits), BYTE_BITS) = Len(s.bits),
           ostream_write_bytes_aligned(s, bytes, BYTE_BITS).ok
    PROVE  /\ s.ok
           /\ Len(ostream_write_bytes_aligned(s, bytes, BYTE_BITS).bits) = Len(s.bits) + Len(bytes) * BYTE_BITS
<1>1. PICK m \in Nat \ {0}, n \in Nat, k \in Nat : m = BYTE_BITS /\ n = Len(s.bits) /\ k = Len(bytes)
  <2>1. Len(s.bits) \in Nat /\ Len(bytes) \in Nat
    BY DEF Stream
  <2>. QED  BY <2>1, Numbers
<1> DEFINE pad == round_up(n, m) - n
           at(i) == Bits(bytes[(i - 1) \div m + 1], m)[((i - 1) % m) + 1]
           raw == [i \in 1 .. k * m |-> at(i)]
           zeros == [i \in 1 .. pad |-> 0]
<1>2. pad \in Nat
  <2>1. PICK u \in Nat : u = round_up(n, m) /\ u >= n
    BY RoundUp
  <2>. QED  BY <2>1
<1> HIDE DEF pad
<1>3. zeros \in Seq(Bit) /\ Len(zeros) = pad
  BY <1>2 DEF Bit
<1>4. ASSUME NEW i \in 1 .. k * m PROVE at(i) \in Bit
  <2>1. k * m \in Nat /\ k * m = m * k
    OBVIOUS
  <2>2. i - 1 \in Nat /\ i - 1 < m * k
    BY <2>1
  <2>3. (i - 1) \div m \in 0 .. k - 1 /\ (i - 1) % m \in 0 .. m - 1
    BY <2>2, DivBelow, DivMod
  <2>4. PICK q \in 0 .. k - 1, r \in 0 .. m - 1 : q = (i - 1) \div m /\ r = (i - 1) % m
    BY <2>3
  <2>5. bytes[q + 1] \in Int
    <3>1. bytes[q + 1] \in Byte
      BY <1>1
    <3>. QED  BY <3>1, Sizes
  <2>6. Bits(bytes[q + 1], m) \in [1 .. m -> Bit]
    BY <2>5, BitsSeq
  <2>7. Bits(bytes[q + 1], m)[r + 1] \in Bit
    BY <2>6
  <2>. QED  BY <2>4, <2>7
<1>5. raw \in Seq(Bit) /\ Len(raw) = k * m
  <2>1. k * m \in Nat
    OBVIOUS
  <2> HIDE DEF at
  <2>. QED  BY <1>4, <2>1
<1>6. ostream_write_bytes_aligned(s, bytes, BYTE_BITS) = Put(s, zeros \o raw)
  BY <1>1, Zenon DEF ostream_write_bytes_aligned, pad
<1> HIDE DEF zeros, raw
<1>7. zeros \o raw \in Seq(Bit) /\ Len(zeros \o raw) = pad + k * m
  BY <1>3, <1>5, JoinedLen, Zenon
<1>8. Put(s, zeros \o raw).ok
  BY <1>6, Zenon
<1>9. s.ok /\ Len(Put(s, zeros \o raw).bits) = n + (pad + k * m)
  BY <1>1, <1>7, <1>8, PutLen, Zenon
<1>10. pad = 0
  BY <1>1, <1>9 DEF pad
<1>11. k * m \in Nat
  OBVIOUS
<1>. QED  BY <1>1, <1>6, <1>9, <1>10, <1>11

--------------------------------------------------------------------------------
(***************************************************************************)
(* The invariant: what the stream, the block and the output are made of,   *)
(* that the block is what lies between its beginning and the matcher, and  *)
(* that codes are read with only after the decoder accepted them.          *)
(***************************************************************************)
InputOK ==
    /\ src \in Seq(Byte) /\ pos \in 0 .. Len(src)
    /\ block \in Seq(Tokens) /\ block_len_bytes \in 0 .. MAX_BLOCK_LEN_BYTES /\ block_src \in Nat
    /\ phase # "gave_up" => block_src + block_len_bytes = pos

StreamOK == os \in Stream /\ damaged \in BOOLEAN

OutputOK ==
    /\ rpos \in 0 .. Len(os.bits) /\ bfinal \in BOOLEAN
    /\ dst \in Seq(Byte) /\ Len(dst) <= Len(src) /\ touched \in 0 .. Len(src)

AreLits(ls) == \E n \in Nat : ls \in Lits(n)

CodelenLengths == [0 .. MAX_CODELEN_LENS - 1 -> 0 .. MAX_HUFFMAN_BITS]

CodesOK ==
    /\ lens \in Seq(0 .. CODELEN_MAX_LIT) /\ num_lens.litlen \in Nat /\ num_lens.dist \in Nat
    /\ AreLits(codes.litlen) /\ AreLits(codes.dist)
    /\ phase = "lens" => codelen \in CodelenLengths /\ huffman_decoder_init(codelen)
    /\ phase = "body" => huffman_decoder_init(codes.litlen) /\ huffman_decoder_init(codes.dist)

PhaseOK ==
    /\ phase \in {"compress", "gave_up", "written", "header", "stored", "body", "dynamic", "lens", "ok", "error"}
    /\ phase \in {"compress", "written"} => rpos = 0

IInv == InputOK /\ StreamOK /\ OutputOK /\ CodesOK /\ PhaseOK

LEMMA InitInv == Init => IInv
<1> SUFFICES ASSUME Init PROVE IInv
  OBVIOUS
<1>1. src \in Seq(Byte) /\ Len(src) \in Nat
  BY DeflateAssumption DEF Init
<1>2. InputOK
  <2>1. block \in Seq(Tokens) /\ pos = 0 /\ block_len_bytes = 0 /\ block_src = 0
    BY DEF Init
  <2>. QED  BY <1>1, <2>1, Numbers DEF InputOK
<1>3. StreamOK /\ Len(os.bits) = 0
  <2>1. PICK cap \in Caps : os = [bits |-> <<>>, cap |-> cap, ok |-> TRUE]
    BY DEF Init, ostream
  <2>2. <<>> \in Seq(Bit)
    OBVIOUS
  <2>. QED  BY <2>1, <2>2 DEF Stream, Init, StreamOK
<1>4. OutputOK
  <2>1. dst = <<>> /\ rpos = 0 /\ bfinal = FALSE /\ touched = 0
    BY DEF Init
  <2>2. dst \in Seq(Byte) /\ Len(dst) = 0
    BY <2>1
  <2>3. rpos \in 0 .. Len(os.bits)
    BY <1>3, <2>1
  <2>4. touched \in 0 .. Len(src) /\ Len(dst) <= Len(src) /\ bfinal \in BOOLEAN
    <3>1. 0 \in 0 .. Len(src) /\ 0 <= Len(src) /\ FALSE \in BOOLEAN
      BY <1>1
    <3>. QED  BY <2>1, <2>2, <3>1, Zenon
  <2>. QED  BY <2>2, <2>3, <2>4 DEF OutputOK
<1>5. CodesOK
  <2>1. /\ lens = <<>> /\ num_lens = [litlen |-> 0, dist |-> 0] /\ codes = [litlen |-> <<>>, dist |-> <<>>]
        /\ phase = "compress"
    BY DEF Init
  <2>2. lens \in Seq(0 .. CODELEN_MAX_LIT)
    BY <2>1
  <2>3. AreLits(<<>>)
    <3>1. <<>> \in [0 .. 0 - 1 -> 0 .. CODELEN_MAX_LIT]
      OBVIOUS
    <3>. QED  BY <3>1 DEF AreLits, Lits
  <2>. QED  BY <2>1, <2>2, <2>3 DEF CodesOK
<1>6. PhaseOK
  BY DEF Init, PhaseOK
<1>. QED  BY <1>2, <1>3, <1>4, <1>5, <1>6 DEF IInv

--------------------------------------------------------------------------------
(***************************************************************************)
(* Every step of the compressor preserves it.                              *)
(***************************************************************************)
LEMMA UncompType ==
    ASSUME InputOK, StreamOK, phase # "gave_up", NEW final
    PROVE  write_uncomp_block(os, final) \in Stream
<1>1. PICK n \in Nat, len \in Nat, r \in Nat :
        n = Len(os.bits) /\ len = block_len_bytes /\ r = round_up(n + 3, BYTE_BITS) /\ r >= n + 3
  <2>1. PICK n \in Nat : n = Len(os.bits)
    BY DEF StreamOK, Stream
  <2>2. block_len_bytes \in Nat
    BY Numbers DEF InputOK
  <2>3. n + 3 \in Nat
    OBVIOUS
  <2>. QED  BY <2>1, <2>2, <2>3, RoundUp, Numbers
<1> DEFINE a == Put(os, Head3(final, 0))
           x == Bits(0, r - n - 3)
           y == Bits(len, LEN_BITS)
           z == Bits(2 ^ LEN_BITS - 1 - len, LEN_BITS)
           bytes == SubSeq(src, block_src + 1, block_src + block_len_bytes)
<1>2. a \in Stream
  BY HeadLen, PutType DEF StreamOK
<1>3. x \in Seq(Bit) /\ y \in Seq(Bit) /\ z \in Seq(Bit)
  <2>1. r - n - 3 \in Nat
    BY <1>1
  <2>2. 2 ^ LEN_BITS - 1 - len \in Int
    <3>1. PICK p \in Nat : p = 2 ^ LEN_BITS
      BY Numbers, Power
    <3>. QED  BY <3>1
  <2>. QED  BY <2>1, <2>2, Numbers, BitsSeq
<1>4. bytes \in Seq(Byte)
  <2>1. block_src \in Nat /\ block_src + block_len_bytes \in 0 .. Len(src) /\ src \in Seq(Byte)
    BY DEF InputOK
  <2>2. block_src + 1 >= 1
    BY <2>1
  <2>3. block_src + block_len_bytes <= Len(src)
    BY <2>1
  <2>. QED  BY <2>1, <2>2, <2>3
<1>5. write_uncomp_block(os, final) = ostream_write_bytes_aligned(Put(a, x \o y \o z), bytes, BYTE_BITS)
  BY <1>1, Zenon DEF write_uncomp_block
<1> HIDE DEF a, x, y, z, bytes
<1>6. Put(a, x \o y \o z) \in Stream
  <2>1. x \o y \in Seq(Bit)
    BY <1>3, JoinedLen
  <2>2. x \o y \o z \in Seq(Bit)
    BY <1>3, <2>1, JoinedLen
  <2>. QED  BY <1>2, <2>2, PutType
<1>. QED  BY <1>4, <1>5, <1>6, AlignedType

LEMMA WithEOBType == ASSUME InputOK PROVE WithEOB \in Seq(Tokens)
<1>1. [dist |-> 0, len |-> LITLEN_EOB] \in Tokens
  BY Sizes DEF Tokens, IsToken
<1>. QED  BY <1>1 DEF WithEOB, InputOK

LEMMA WriteBlockType ==
    ASSUME InputOK, StreamOK, phase # "gave_up", NEW final, write_block(final, DynamicCodes(WithEOB))
    PROVE  os' \in Stream
<1>1. PICK d : d = DynamicCodes(WithEOB)
  OBVIOUS
<1>2. IsDescription(d)
  BY <1>1, WithEOBType, DynamicType
<1>3. \/ os' = write_uncomp_block(os, final)
      \/ os' = Put(os, Head3(final, 1) \o write_huffman_block(WithEOB, FixedCodes))
      \/ os' = Put(os, write_dynamic_block(final, WithEOB, d))
  BY <1>1, Zenon DEF write_block
<1>4. write_dynamic_block(final, WithEOB, d) \in Seq(Bit)
  BY <1>2, WithEOBType, DynamicLen
<1>5. Head3(final, 1) \o write_huffman_block(WithEOB, FixedCodes) \in Seq(Bit)
  BY WithEOBType, FixedFit, BodyLen, HeadLen, JoinedLen
<1>6. write_uncomp_block(os, final) \in Stream
  BY UncompType
<1>. QED  BY <1>3, <1>4, <1>5, <1>6, PutType DEF StreamOK

\* The decompressor has not begun.
LEMMA ReadingKept ==
    ASSUME IInv, src' = src, UNCHANGED reading, phase = "compress", phase' \in {"compress", "written", "gave_up"},
           os' \in Stream
    PROVE  OutputOK' /\ CodesOK' /\ PhaseOK'
<1>1. UNCHANGED <<rpos, bfinal, codelen, lens, num_lens, codes, dst, touched>>
  BY DEF reading, header
<1>2. rpos = 0
  BY DEF IInv, PhaseOK
<1>3. OutputOK'
  <2>1. Len(os'.bits) \in Nat
    BY DEF Stream
  <2>. QED  BY <1>1, <1>2, <2>1 DEF IInv, OutputOK
<1>4. CodesOK'
  BY <1>1 DEF IInv, CodesOK
<1>. QED  BY <1>1, <1>2, <1>3, <1>4 DEF PhaseOK

LEMMA TokenInv ==
    ASSUME IInv, NEW t \in Tokens, NEW n \in Nat, n <= MAX_BLOCK_LEN_BYTES, pos + n <= Len(src), Token(t, n)
    PROVE  IInv'
<1>0. /\ phase = "compress" /\ UNCHANGED <<src, damaged, reading>>
      /\ phase' = (IF os'.ok THEN phase ELSE "gave_up")
      /\ pos' = (IF os'.ok THEN pos + n ELSE pos)
  BY DEF Token
<1>1. /\ pos \in 0 .. Len(src) /\ Len(src) \in Nat
      /\ block \in Seq(Tokens) /\ block_len_bytes \in 0 .. MAX_BLOCK_LEN_BYTES /\ block_src \in Nat
      /\ block_src + block_len_bytes = pos
  BY <1>0 DEF IInv, InputOK
<1>2. /\ os' \in Stream /\ block' \in Seq(Tokens) /\ block_len_bytes' \in 0 .. MAX_BLOCK_LEN_BYTES
      /\ block_src' \in Nat /\ block_src' + block_len_bytes' = pos + n
  <2>1. CASE TooLongWith(n)
    <3>1. /\ write_block(FALSE, DynamicCodes(WithEOB))
          /\ block_src' = NextBlockSrc /\ block' = <<t>> /\ block_len_bytes' = n
      BY <2>1 DEF Token
    <3>2. os' \in Stream
      BY <1>0, <3>1, WriteBlockType DEF IInv
    <3>3. block' \in Seq(Tokens)
      BY <3>1
    <3>. QED  BY <1>1, <3>1, <3>2, <3>3, Numbers DEF NextBlockSrc
  <2>2. CASE ~TooLongWith(n)
    <3>1. /\ block' = Append(block, t) /\ block_len_bytes' = block_len_bytes + n
          /\ os' = os /\ block_src' = block_src
      BY <2>2 DEF Token
    <3>2. block_len_bytes + n <= MAX_BLOCK_LEN_BYTES
      BY <1>1, <2>2, Numbers DEF TooLongWith
    <3>3. block' \in Seq(Tokens)
      BY <1>1, <3>1
    <3>. QED  BY <1>1, <3>1, <3>2, <3>3, Numbers DEF IInv, StreamOK
  <2>. QED  BY <2>1, <2>2
<1>3. InputOK'
  <2>1. pos' \in 0 .. Len(src)
    BY <1>0, <1>1
  <2>2. phase' # "gave_up" => pos' = pos + n
    BY <1>0
  <2>. QED  BY <1>0, <1>2, <2>1, <2>2 DEF IInv, InputOK
<1>4. StreamOK'
  BY <1>0, <1>2 DEF IInv, StreamOK
<1>5. OutputOK' /\ CodesOK' /\ PhaseOK'
  BY <1>0, <1>2, ReadingKept
<1>. QED  BY <1>3, <1>4, <1>5 DEF IInv

LEMMA lit_callbackInv == IInv /\ lit_callback => IInv'
<1> SUFFICES ASSUME IInv, lit_callback PROVE IInv'
  OBVIOUS
<1>1. pos \in 0 .. Len(src) /\ src \in Seq(Byte) /\ Len(src) \in Nat
  BY DEF IInv, InputOK
<1>2. PICK t : t = [dist |-> 0, len |-> src[pos + 1]]
  OBVIOUS
<1>3. pos + 1 <= Len(src) /\ Token(t, 1)
  <2>1. pos < Len(src)
    BY DEF lit_callback
  <2>. QED  BY <1>1, <1>2, <2>1 DEF lit_callback
<1>4. t \in Tokens
  <2>1. src[pos + 1] \in Byte
    BY <1>1, <1>3
  <2>2. src[pos + 1] \in 0 .. LITLEN_EOB /\ src[pos + 1] \in Nat
    BY <2>1, Sizes
  <2>. QED  BY <1>2, <2>2 DEF Tokens, IsToken
<1>. QED  BY <1>3, <1>4, TokenInv, Numbers

LEMMA backref_callbackInv == IInv /\ backref_callback => IInv'
<1> SUFFICES ASSUME IInv, backref_callback PROVE IInv'
  OBVIOUS
<1>1. PICK r \in Backrefs(src, pos, MAX_DISTANCE, MAX_LEN, TRUE) : Token(r, r.len)
  BY DEF backref_callback
<1>2. pos \in 0 .. Len(src) /\ Len(src) \in Nat
  BY DEF IInv, InputOK
<1>3. r \in [dist : 1 .. AtMost(MAX_DISTANCE, pos), len : MIN_LEN .. AtMost(MAX_LEN, Len(src) - pos)]
  BY DEF Backrefs
<1>4. AtMost(MAX_DISTANCE, pos) \in Nat
  BY <1>2, Numbers DEF AtMost
<1>5. /\ AtMost(MAX_LEN, Len(src) - pos) \in Nat /\ AtMost(MAX_LEN, Len(src) - pos) <= Len(src) - pos
      /\ AtMost(MAX_LEN, Len(src) - pos) <= MAX_LEN
  BY <1>2, Numbers DEF AtMost
<1>6. /\ r \in [dist : Nat, len : Nat] /\ r.dist # 0 /\ r.len \in Nat /\ r.len >= MIN_LEN
      /\ r.len <= Len(src) - pos /\ r.len <= MAX_LEN
  <2>1. r.dist \in 1 .. AtMost(MAX_DISTANCE, pos) /\ r.len \in MIN_LEN .. AtMost(MAX_LEN, Len(src) - pos)
    BY <1>3
  <2>2. r.dist \in Nat /\ r.dist # 0
    BY <1>4, <2>1
  <2>3. r.len \in Nat /\ r.len >= MIN_LEN /\ r.len <= Len(src) - pos /\ r.len <= MAX_LEN
    BY <1>2, <1>5, <2>1, Numbers
  <2>. QED  BY <1>3, <2>2, <2>3
<1>7. r \in Tokens
  BY <1>6 DEF Tokens, IsToken
<1>8. pos + r.len <= Len(src) /\ r.len <= MAX_BLOCK_LEN_BYTES
  BY <1>2, <1>6, Numbers
<1>. QED  BY <1>1, <1>6, <1>7, <1>8, TokenInv

LEMMA LastBlockInv == IInv /\ LastBlock => IInv'
<1> SUFFICES ASSUME IInv, LastBlock PROVE IInv'
  OBVIOUS
<1>0. /\ phase = "compress" /\ write_block(TRUE, DynamicCodes(WithEOB))
      /\ phase' = (IF os'.ok THEN "written" ELSE "gave_up")
      /\ UNCHANGED <<src, pos, block, block_len_bytes, block_src, damaged, reading>>
  BY DEF LastBlock, writing
<1>1. os' \in Stream
  BY <1>0, WriteBlockType DEF IInv
<1>2. InputOK' /\ StreamOK'
  BY <1>0, <1>1 DEF IInv, InputOK, StreamOK
<1>3. OutputOK' /\ CodesOK' /\ PhaseOK'
  BY <1>0, <1>1, ReadingKept
<1>. QED  BY <1>2, <1>3 DEF IInv

LEMMA ReadInv == IInv /\ Read => IInv'
<1> SUFFICES ASSUME IInv, Read PROVE IInv'
  OBVIOUS
<1>0. /\ phase = "written" /\ phase' = "header"
      /\ UNCHANGED <<src, pos, block, block_len_bytes, block_src>>
      /\ UNCHANGED <<rpos, bfinal, codelen, lens, num_lens, codes, dst, touched>>
  BY DEF Read, writing, reading, header
<1>1. os' \in Stream /\ damaged' \in BOOLEAN
  <2> DEFINE p == Padded(os.bits, BYTE_BITS)
  <2>1. \/ os' = [os EXCEPT !.bits = p] /\ damaged' = damaged
        \/ (\E d \in Damaged(p) : os' = [os EXCEPT !.bits = d]) /\ damaged' = TRUE
    BY DEF Read
  <2>2. p \in Seq(Bit) /\ os \in Stream /\ damaged \in BOOLEAN
    BY PaddedType DEF IInv, StreamOK, Stream
  <2> HIDE DEF p
  <2>3. \A d \in Seq(Bit) : [os EXCEPT !.bits = d] \in Stream
    BY <2>2 DEF Stream
  <2>4. CASE os' = [os EXCEPT !.bits = p] /\ damaged' = damaged
    BY <2>2, <2>3, <2>4
  <2>5. CASE (\E d \in Damaged(p) : os' = [os EXCEPT !.bits = d]) /\ damaged' = TRUE
    <3>1. PICK d \in Damaged(p) : os' = [os EXCEPT !.bits = d]
      BY <2>5
    <3>2. d \in Seq(Bit)
      BY <2>2, DamagedType
    <3>. QED  BY <2>3, <2>5, <3>1, <3>2
  <2>. QED  BY <2>1, <2>4, <2>5
<1>2. InputOK' /\ CodesOK' /\ PhaseOK'
  BY <1>0 DEF IInv, InputOK, CodesOK, PhaseOK
<1>3. OutputOK'
  <2>1. rpos = 0 /\ Len(os'.bits) \in Nat
    BY <1>0, <1>1 DEF IInv, PhaseOK, Stream
  <2>. QED  BY <1>0, <2>1 DEF IInv, OutputOK
<1>. QED  BY <1>1, <1>2, <1>3 DEF IInv, StreamOK

--------------------------------------------------------------------------------
(***************************************************************************)
(* Every step of the decompressor preserves it.                            *)
(***************************************************************************)
Reading == phase \in {"header", "stored", "body", "dynamic", "lens"}

LEMMA Four == 2 ^ 2 = 4
  BY Assumed, H!PowerStep

\* The greater of two numbers is one of them.
LEMMA LaterOf ==
    ASSUME NEW a \in Nat, NEW b \in Nat PROVE Max({a, b}) \in {a, b}
<1>2. PICK n \in Int : a <= n /\ b <= n
  <2>1. CASE a <= b
    BY <2>1
  <2>2. CASE b <= a
    BY <2>2
  <2>. QED  BY <2>1, <2>2
<1> DEFINE S == {a, b}
<1>3. S \subseteq Int /\ S # {} /\ \A x \in S : x <= n
  BY <1>2
<1>4. Max(S) \in S
  <2> HIDE DEF S
  <2>. QED  BY <1>3, GreatestElement
<1>. QED  BY <1>4

LEMMA ReadFacts ==
    ASSUME IInv
    PROVE  /\ os.bits \in Seq(Bit) /\ Len(os.bits) \in Nat /\ rpos \in Nat /\ rpos <= Len(os.bits)
           /\ Len(dst) \in Nat /\ Len(src) \in Nat
  BY DEF IInv, StreamOK, Stream, OutputOK, InputOK

\* What the steps of the decompressor leave alone.
LEMMA InputKept ==
    ASSUME IInv, Reading, UNCHANGED <<writing, os, damaged>>, phase' # "gave_up"
    PROVE  InputOK' /\ StreamOK' /\ src' = src
<1>1. UNCHANGED <<src, pos, block, block_len_bytes, block_src>>
  BY DEF writing
<1>2. phase # "gave_up"
  BY DEF Reading
<1>. QED  BY <1>1, <1>2 DEF IInv, InputOK, StreamOK

LEMMA ErrorInv ==
    ASSUME IInv, Reading, Error PROVE IInv'
<1>1. phase' = "error" /\ UNCHANGED <<writing, os, damaged>>
  BY DEF Error
<1>2. UNCHANGED <<rpos, bfinal, codelen, lens, num_lens, codes, dst, touched>>
  BY DEF Error, reading, header
<1>3. InputOK' /\ StreamOK' /\ src' = src
  BY <1>1, InputKept
<1>. QED  BY <1>1, <1>2, <1>3 DEF IInv, OutputOK, CodesOK, PhaseOK

LEMMA EndBlockPhase ==
    ASSUME NEW used, NEW bytes, EndBlock(used, bytes) PROVE phase' \in {"header", "ok", "error"}
  BY DEF EndBlock

\* Output that grows, within the buffer, while bits are used.
LEMMA OutputInv ==
    ASSUME IInv, Reading, UNCHANGED <<writing, os, damaged, bfinal>>,
           rpos' \in Nat, rpos' <= Len(os.bits), dst' \in Seq(Byte), Len(dst') <= Len(src),
           touched' \in Nat, touched' <= Len(src), phase' # "gave_up"
    PROVE  InputOK' /\ StreamOK' /\ OutputOK'
<1>1. InputOK' /\ StreamOK' /\ src' = src /\ os' = os /\ bfinal' = bfinal
  BY InputKept
<1>. QED  BY <1>1, ReadFacts DEF IInv, OutputOK

LEMMA CodesKept ==
    ASSUME IInv, Reading, UNCHANGED <<header, codes>>, phase' \in {phase, "header", "ok", "error"}
    PROVE  CodesOK' /\ PhaseOK'
<1>1. UNCHANGED <<codelen, lens, num_lens, codes>>
  BY DEF header
<1>2. phase' \notin {"compress", "written", "gave_up"}
  BY DEF Reading
<1>. QED  BY <1>1, <1>2 DEF IInv, CodesOK, PhaseOK

LEMMA ReadHeaderInv == IInv /\ ReadHeader => IInv'
<1> SUFFICES ASSUME IInv, ReadHeader PROVE IInv'
  OBVIOUS
<1> DEFINE type == istream_bits(os.bits, rpos + 1, 2)
<1>0. phase = "header" /\ Reading
  BY DEF ReadHeader, Reading
<1>1. CASE ~Has(os.bits, rpos, 3) \/ type = 3
  BY <1>0, <1>1, ErrorInv DEF ReadHeader
<1>2. CASE ~(~Has(os.bits, rpos, 3) \/ type = 3)
  <2>1. /\ bfinal' = (Peek(1) = 1) /\ rpos' = rpos + 3
        /\ phase' = <<"stored", "body", "dynamic">>[type + 1]
        /\ codes' = (IF type = 1 THEN FixedCodes ELSE codes)
        /\ UNCHANGED <<writing, os, damaged, header, dst, touched>>
    BY <1>2, Zenon DEF ReadHeader
  <2>2. type \in 0 .. 2
    <3>1. type \in 0 .. 2 ^ 2 - 1
      <4>1. rpos + 1 \in Nat /\ 2 \in Nat
        BY ReadFacts
      <4>. QED  BY <4>1, ReadFacts, ReadBound
    <3>2. 2 ^ 2 = 4
      BY Four
    <3> HIDE DEF type
    <3>. QED  BY <1>2, <3>1, <3>2
  <2>3. Has(os.bits, rpos, 3)
    BY <1>2
  <2> HIDE DEF type
  <2>4. phase' \in {"stored", "body", "dynamic"} /\ (phase' = "body" => type = 1)
    BY <2>1, <2>2
  <2>5. InputOK' /\ StreamOK' /\ src' = src /\ os' = os /\ dst' = dst /\ touched' = touched
    BY <1>0, <2>1, <2>4, InputKept
  <2>6. rpos' \in 0 .. Len(os.bits) /\ bfinal' \in BOOLEAN
    BY <2>1, <2>3, ReadFacts DEF Has
  <2>7. OutputOK'
    BY <2>5, <2>6 DEF IInv, OutputOK
  <2>8. AreLits(FixedCodes.litlen) /\ AreLits(FixedCodes.dist)
    BY FixedFit DEF Fits, AreLits
  <2>9. CodesOK'
    <3>1. codelen' = codelen /\ lens' = lens /\ num_lens' = num_lens
      BY <2>1 DEF header
    <3>2. AreLits(codes'.litlen) /\ AreLits(codes'.dist)
      BY <2>1, <2>8 DEF IInv, CodesOK
    <3>3. phase' = "body" => huffman_decoder_init(codes'.litlen) /\ huffman_decoder_init(codes'.dist)
      BY <2>1, <2>4, FixedFit
    <3>. QED  BY <2>4, <3>1, <3>2, <3>3 DEF IInv, CodesOK
  <2>10. PhaseOK'
    BY <2>4 DEF PhaseOK
  <2>. QED  BY <2>5, <2>7, <2>9, <2>10 DEF IInv
<1>. QED  BY <1>1, <1>2

LEMMA ReadStoredInv == IInv /\ ReadStored => IInv'
<1> SUFFICES ASSUME IInv, ReadStored PROVE IInv'
  OBVIOUS
<1> DEFINE at == round_up(rpos, BYTE_BITS)
           len == istream_bits(os.bits, at, LEN_BITS)
           nlen == istream_bits(os.bits, at + LEN_BITS, LEN_BITS)
           data == at + 2 * LEN_BITS
           byte(i) == istream_bits(os.bits, data + (i - 1) * BYTE_BITS, BYTE_BITS)
           bytes == [i \in 1 .. len |-> byte(i)]
           fine == Has(os.bits, data, len * BYTE_BITS) /\ nlen = 2 ^ LEN_BITS - 1 - len /\ len <= Len(src) - Len(dst)
<1>0. phase = "stored" /\ Reading
  BY DEF ReadStored, Reading
<1>1. CASE ~fine
  <2>1. Error
    BY <1>1, Zenon DEF ReadStored
  <2>. QED  BY <1>0, <2>1, ErrorInv
<1>2. CASE fine
  <2>1. /\ dst' = dst \o bytes /\ rpos' = data + len * BYTE_BITS /\ touched' = Max({touched, Len(dst')})
        /\ EndBlock(rpos', dst') /\ UNCHANGED <<writing, os, damaged, bfinal, header, codes>>
    BY <1>2, Zenon DEF ReadStored
  <2>2. at \in Nat /\ data \in Nat /\ len \in Nat
    <3>1. at \in Nat
      BY ReadFacts, Numbers, RoundUp
    <3>2. len \in Nat
      BY <3>1, ReadFacts, Numbers, ReadBound
    <3> HIDE DEF at, len
    <3>. QED  BY <3>1, <3>2, Numbers
  <2>3. Has(os.bits, data, len * BYTE_BITS) /\ len <= Len(src) - Len(dst)
    BY <1>2
  <2> HIDE DEF at, data, len
  <2>4. bytes \in Seq(Byte) /\ Len(bytes) = len
    <3>1. ASSUME NEW i \in 1 .. len PROVE byte(i) \in Byte
      <4>1. PICK p \in Nat : p = data + (i - 1) * BYTE_BITS
        <5>1. i - 1 \in Nat
          BY <2>2
        <5>. QED  BY <2>2, <5>1, Numbers
      <4>2. istream_bits(os.bits, p, BYTE_BITS) \in 0 .. 2 ^ BYTE_BITS - 1
        BY ReadFacts, Numbers, ReadBound
      <4>. QED  BY <4>1, <4>2 DEF Byte, LITLEN_EOB
    <3> HIDE DEF byte
    <3>. QED  BY <2>2, <3>1
  <2> HIDE DEF bytes
  <2>5. dst' \in Seq(Byte) /\ Len(dst') = Len(dst) + len /\ Len(dst') <= Len(src)
    <3>1. dst \in Seq(Byte)
      BY DEF IInv, OutputOK
    <3>2. dst \o bytes \in Seq(Byte) /\ Len(dst \o bytes) = Len(dst) + Len(bytes)
      BY <2>4, <3>1
    <3>3. Len(dst) + len <= Len(src)
      BY <2>2, <2>3, ReadFacts
    <3>. QED  BY <2>1, <2>4, <3>2, <3>3
  <2>6. touched' \in Nat /\ touched' <= Len(src)
    <3>1. touched \in Nat /\ touched <= Len(src)
      BY ReadFacts DEF IInv, OutputOK
    <3>2. Len(dst') \in Nat
      BY <2>5
    <3>. QED  BY <2>1, <2>5, <3>1, <3>2, LaterOf
  <2>7. rpos' \in Nat /\ rpos' <= Len(os.bits)
    <3>1. PICK x \in Nat : x = len * BYTE_BITS
      BY <2>2, Numbers
    <3>. QED  BY <2>1, <2>2, <2>3, <3>1 DEF Has
  <2>8. phase' \in {"header", "ok", "error"}
    BY <2>1, EndBlockPhase
  <2>9. InputOK' /\ StreamOK' /\ OutputOK'
    BY <1>0, <2>1, <2>5, <2>6, <2>7, <2>8, OutputInv
  <2>. QED  BY <1>0, <2>1, <2>8, <2>9, CodesKept DEF IInv
<1>. QED  BY <1>1, <1>2

LEMMA ElementType ==
    ASSUME NEW S, NEW s \in Seq(S), NEW i \in 1 .. Len(s) PROVE s[i] \in S
  OBVIOUS

\* What is decoded with a code that was accepted is one of its symbols or none.
LEMMA DecodeType ==
    ASSUME os.bits \in Seq(Bit), NEW at \in Nat, NEW n \in Nat,
           NEW ls \in [0 .. n - 1 -> 0 .. MAX_HUFFMAN_BITS], huffman_decoder_init(ls),
           NEW r, r = huffman_decode(ls, istream_bits(os.bits, at, MAX_HUFFMAN_BITS))
    PROVE  (r.sym \in 0 .. n - 1 \/ r.sym = -1) /\ r.used \in Nat
<1> DEFINE bs == istream_bits(os.bits, at, MAX_HUFFMAN_BITS)
<1>1. bs \in 0 .. H!Room - 1
  BY Assumed, SameCount, ReadBound
<1>2. ls \in H!Lengths(n)
  BY Zenon DEF H!Lengths
<1>3. H!huffman_decoder_init(ls) /\ H!huffman_decode(ls, bs) = huffman_decode(ls, bs)
  BY SameInit, SameDecoder
<1> HIDE DEF bs
<1>4. \/ H!huffman_decode(ls, bs).sym \in DOMAIN ls /\ H!huffman_decode(ls, bs).used \in H!Width
      \/ H!huffman_decode(ls, bs) = H!NoSymbol
  <2>1. /\ (0 \in Nat /\ 0 \in Nat) /\ (\A l \in {} : l \in H!Width /\ 2 ^ l >= 0) /\ 2 * 0 <= UINT16_MAX
    BY Assumed
  <2>. QED  BY <1>1, <1>2, <1>3, <2>1, HuffmanAssumption, H!DecodesSymbols, SMTT(30)
<1>5. DOMAIN ls = 0 .. n - 1 /\ H!NoSymbol = [sym |-> -1, used |-> 0] /\ H!Width \subseteq Nat
  BY SameCount, Assumed DEF H!NoSymbol, Width
<1>6. r = H!huffman_decode(ls, bs)
  BY <1>3 DEF bs
<1>7. CASE H!huffman_decode(ls, bs).sym \in DOMAIN ls /\ H!huffman_decode(ls, bs).used \in H!Width
  <2>1. r.sym \in 0 .. n - 1 /\ r.used \in Nat
    BY <1>5, <1>6, <1>7, Zenon
  <2>. QED  BY <2>1, Zenon
<1>8. CASE H!huffman_decode(ls, bs) = H!NoSymbol
  BY <1>5, <1>6, <1>8
<1>. QED  BY <1>4, <1>7, <1>8, Zenon

LEMMA LitsFit == \A n : Lits(n) \subseteq [0 .. n - 1 -> 0 .. MAX_HUFFMAN_BITS]
<1>1. 0 .. CODELEN_MAX_LIT \subseteq 0 .. MAX_HUFFMAN_BITS
  BY Numbers, Assumed
<1>. QED  BY <1>1 DEF Lits

LEMMA CodelenSymType ==
    ASSUME IInv, phase = "lens"
    PROVE  (CodelenSym.sym \in CodelenSyms \/ CodelenSym.sym = -1) /\ CodelenSym.used \in Nat
<1>1. codelen \in CodelenLengths /\ huffman_decoder_init(codelen) /\ MAX_CODELEN_LENS \in Nat
  BY Sizes DEF IInv, CodesOK
<1>2. PICK r : r = huffman_decode(codelen, istream_bits(os.bits, rpos, MAX_HUFFMAN_BITS))
  OBVIOUS
<1>3. (r.sym \in 0 .. MAX_CODELEN_LENS - 1 \/ r.sym = -1) /\ r.used \in Nat
  BY <1>1, <1>2, ReadFacts, DecodeType DEF CodelenLengths
<1>. QED  BY <1>2, <1>3, RunBounds DEF CodelenSym, Peek

LEMMA LitlenSymType ==
    ASSUME IInv, phase = "body"
    PROVE  LitlenSym.sym \in Nat \cup {-1} /\ LitlenSym.used \in Nat
<1>1. PICK n \in Nat : codes.litlen \in [0 .. n - 1 -> 0 .. MAX_HUFFMAN_BITS]
  BY LitsFit DEF IInv, CodesOK, AreLits
<1>2. huffman_decoder_init(codes.litlen)
  BY DEF IInv, CodesOK
<1>3. PICK r : r = huffman_decode(codes.litlen, istream_bits(os.bits, rpos, MAX_HUFFMAN_BITS))
  OBVIOUS
<1>4. (r.sym \in 0 .. n - 1 \/ r.sym = -1) /\ r.used \in Nat
  BY <1>1, <1>2, <1>3, ReadFacts, DecodeType
<1>. QED  BY <1>3, <1>4 DEF LitlenSym, Peek

LEMMA DistSymType ==
    ASSUME IInv, phase = "body", NEW after \in Nat
    PROVE  DistSymAt(after).used \in Nat
<1>1. PICK n \in Nat : codes.dist \in [0 .. n - 1 -> 0 .. MAX_HUFFMAN_BITS]
  BY LitsFit DEF IInv, CodesOK, AreLits
<1>2. huffman_decoder_init(codes.dist) /\ rpos + after \in Nat
  BY ReadFacts DEF IInv, CodesOK
<1>3. PICK r : r = huffman_decode(codes.dist, istream_bits(os.bits, rpos + after, MAX_HUFFMAN_BITS))
  OBVIOUS
<1>4. r.used \in Nat
  BY <1>1, <1>2, <1>3, ReadFacts, DecodeType
<1>. QED  BY <1>3, <1>4 DEF DistSymAt

LEMMA ReadDynHeaderInv == IInv /\ ReadDynHeader => IInv'
<1> SUFFICES ASSUME IInv, ReadDynHeader PROVE IInv'
  OBVIOUS
<1> DEFINE n == istream_bits(os.bits, rpos + HLIT + HDIST, HCLEN) + MIN_CODELEN_LENS
           at == rpos + HLIT + HDIST + HCLEN
           place(s) == CHOOSE i \in 1 .. MAX_CODELEN_LENS : codelen_lengths_order[i] = s
           read(s) == istream_bits(os.bits, at + (place(s) - 1) * CODELEN_BITS, CODELEN_BITS)
           ls == [s \in 0 .. MAX_CODELEN_LENS - 1 |-> IF place(s) <= n THEN read(s) ELSE 0]
           fine == Has(os.bits, at, n * CODELEN_BITS) /\ n <= MAX_CODELEN_LENS /\ huffman_decoder_init(ls)
<1>0. phase = "dynamic" /\ Reading
  BY DEF ReadDynHeader, Reading
<1>1. CASE ~fine
  <2>1. Error
    BY <1>1, Zenon DEF ReadDynHeader
  <2>. QED  BY <1>0, <2>1, ErrorInv
<1>2. CASE fine
  <2>1. /\ codelen' = ls /\ lens' = <<>>
        /\ num_lens' = [litlen |-> Peek(HLIT) + MIN_LITLEN_LENS,
                        dist |-> istream_bits(os.bits, rpos + HLIT, HDIST) + 1]
        /\ rpos' = at + n * CODELEN_BITS /\ phase' = "lens"
        /\ UNCHANGED <<writing, os, damaged, bfinal, codes, dst, touched>>
    BY <1>2, Zenon DEF ReadDynHeader
  <2>2. Has(os.bits, at, n * CODELEN_BITS) /\ huffman_decoder_init(ls)
    BY <1>2
  <2>3. n \in Nat /\ at \in Nat
    <3>1. rpos + HLIT + HDIST \in Nat
      BY ReadFacts, Numbers
    <3>2. istream_bits(os.bits, rpos + HLIT + HDIST, HCLEN) \in Nat
      BY <3>1, ReadFacts, Numbers, ReadBound
    <3>. QED  BY <3>1, <3>2, Numbers
  <2> HIDE DEF n, at
  <2>4. ASSUME NEW s \in 0 .. MAX_CODELEN_LENS - 1
        PROVE  (IF place(s) <= n THEN read(s) ELSE 0) \in 0 .. MAX_HUFFMAN_BITS
    <3>1. place(s) \in 1 .. MAX_CODELEN_LENS
      <4>1. \E i \in 1 .. MAX_CODELEN_LENS : codelen_lengths_order[i] = s
        BY Order
      <4>. QED  BY <4>1, Zenon
    <3> HIDE DEF place
    <3>2. PICK p \in Nat : p = (place(s) - 1) * CODELEN_BITS
      <4>1. place(s) - 1 \in Nat
        BY <3>1
      <4>. QED  BY <4>1, Numbers
    <3>3. istream_bits(os.bits, at + p, CODELEN_BITS) \in 0 .. 2 ^ CODELEN_BITS - 1
      <4>1. at + p \in Nat
        BY <2>3
      <4>. QED  BY <4>1, ReadFacts, Numbers, ReadBound
    <3>4. read(s) \in 0 .. MAX_HUFFMAN_BITS
      <4>1. PICK x \in Nat : x = 2 ^ CODELEN_BITS
        BY Numbers, Power
      <4>2. x - 1 <= MAX_HUFFMAN_BITS
        BY <4>1, Assumed, DeflateAssumption
      <4>. QED  BY <3>2, <3>3, <4>1, <4>2, Assumed
    <3> HIDE DEF read
    <3>. QED  BY <3>4, Assumed
  <2>5. ls \in CodelenLengths
    <3> HIDE DEF place, read
    <3>. QED  BY <2>4 DEF CodelenLengths
  <2> HIDE DEF ls
  <2>6. num_lens'.litlen \in Nat /\ num_lens'.dist \in Nat
    <3>1. Peek(HLIT) \in Nat
      BY ReadFacts, Numbers, ReadBound DEF Peek
    <3>2. istream_bits(os.bits, rpos + HLIT, HDIST) \in Nat
      <4>1. rpos + HLIT \in Nat
        BY ReadFacts, Numbers
      <4>. QED  BY <4>1, ReadFacts, Numbers, ReadBound
    <3>. QED  BY <2>1, <3>1, <3>2, Sizes
  <2>7. CodesOK'
    <3>1. lens' \in Seq(0 .. CODELEN_MAX_LIT)
      BY <2>1
    <3>. QED  BY <2>1, <2>2, <2>5, <2>6, <3>1 DEF IInv, CodesOK
  <2>8. rpos' \in 0 .. Len(os.bits)
    <3>1. PICK x \in Nat : x = n * CODELEN_BITS
      BY <2>3, Numbers
    <3>. QED  BY <2>1, <2>2, <2>3, <3>1, ReadFacts DEF Has
  <2>9. InputOK' /\ StreamOK' /\ src' = src /\ os' = os
    BY <1>0, <2>1, InputKept
  <2>10. OutputOK'
    BY <2>1, <2>8, <2>9 DEF IInv, OutputOK
  <2>11. PhaseOK'
    BY <2>1 DEF PhaseOK
  <2>. QED  BY <2>7, <2>9, <2>10, <2>11 DEF IInv
<1>. QED  BY <1>1, <1>2

LEMMA ReadLensInv == IInv /\ ReadLens(CodelenSym) => IInv'
<1> SUFFICES ASSUME IInv, ReadLens(CodelenSym) PROVE IInv'
  OBVIOUS
<1>a. PICK s : s = CodelenSym
  OBVIOUS
<1> DEFINE ebits == CodelenEbits(s.sym)
           n == IF s.sym <= CODELEN_MAX_LIT THEN 1
                ELSE istream_bits(os.bits, rpos + s.used, ebits) + CodelenMin(s.sym)
           value == IF s.sym <= CODELEN_MAX_LIT THEN s.sym
                    ELSE IF s.sym = CODELEN_COPY THEN lens[Len(lens)] ELSE 0
           more == [i \in 1 .. n |-> value]
           fine == /\ s.sym >= 0 /\ Has(os.bits, rpos, s.used + ebits)
                   /\ s.sym = CODELEN_COPY => lens # <<>>
                   /\ Len(lens) + n <= num_lens.litlen + num_lens.dist
<1>0. phase = "lens" /\ Reading
  BY DEF ReadLens, Reading
<1>1. CASE ~fine
  <2>1. Error
    BY <1>a, <1>1, Zenon DEF ReadLens
  <2>. QED  BY <1>0, <2>1, ErrorInv
<1>2. CASE fine
  <2>1. /\ lens' = lens \o more /\ rpos' = rpos + s.used + ebits
        /\ UNCHANGED <<phase, writing, os, damaged, bfinal, codelen, num_lens, codes, dst, touched>>
    BY <1>a, <1>2, Zenon DEF ReadLens
  <2>2. s.sym \in CodelenSyms /\ s.sym \in Nat /\ s.used \in Nat
    <3>1. (s.sym \in CodelenSyms \/ s.sym = -1) /\ s.used \in Nat /\ s.sym >= 0
      BY <1>a, <1>0, <1>2, CodelenSymType
    <3>. QED  BY <3>1, Numbers DEF CodelenSyms
  <2>3. ebits \in Nat /\ CodelenMin(s.sym) \in Nat
    BY <2>2, CodelenNumbers
  <2>4. Has(os.bits, rpos, s.used + ebits) /\ (s.sym = CODELEN_COPY => lens # <<>>)
    BY <1>2
  <2> HIDE DEF ebits
  <2>5. n \in Nat
    <3>1. istream_bits(os.bits, rpos + s.used, ebits) \in Nat
      <4>1. rpos + s.used \in Nat
        BY <2>2, ReadFacts
      <4>. QED  BY <2>3, <4>1, ReadFacts, ReadBound
    <3>. QED  BY <2>3, <3>1
  <2>6. lens \in Seq(0 .. CODELEN_MAX_LIT)
    BY DEF IInv, CodesOK
  <2>7. value \in 0 .. CODELEN_MAX_LIT
    <3>1. ASSUME s.sym = CODELEN_COPY PROVE lens[Len(lens)] \in 0 .. CODELEN_MAX_LIT
      <4> HIDE DEF n, value, more, fine
      <4>1. lens # <<>>
        BY <2>4, <3>1
      <4>2. Len(lens) \in 1 .. Len(lens)
        BY <2>6, <4>1
      <4>. QED  BY <2>6, <4>2, ElementType
    <3>. QED  BY <2>2, <3>1, Numbers
  <2> HIDE DEF n, value
  <2>8. more \in Seq(0 .. CODELEN_MAX_LIT)
    BY <2>5, <2>7
  <2> HIDE DEF more
  <2>9. lens' \in Seq(0 .. CODELEN_MAX_LIT)
    BY <2>1, <2>6, <2>8
  <2>10. CodesOK'
    BY <1>0, <2>1, <2>9 DEF IInv, CodesOK
  <2>11. rpos' \in 0 .. Len(os.bits)
    BY <2>1, <2>2, <2>3, <2>4, ReadFacts DEF Has
  <2>12. InputOK' /\ StreamOK' /\ src' = src /\ os' = os
    BY <1>0, <2>1, InputKept
  <2>13. OutputOK'
    BY <2>1, <2>11, <2>12 DEF IInv, OutputOK
  <2>14. PhaseOK'
    BY <1>0, <2>1 DEF PhaseOK
  <2>. QED  BY <2>10, <2>12, <2>13, <2>14 DEF IInv
<1>. QED  BY <1>1, <1>2

LEMMA InitDecodersInv == IInv /\ InitDecoders => IInv'
<1> SUFFICES ASSUME IInv, InitDecoders PROVE IInv'
  OBVIOUS
<1>0. /\ phase = "lens" /\ Reading /\ Len(lens) = num_lens.litlen + num_lens.dist
      /\ codes' = [litlen |-> [s \in 0 .. num_lens.litlen - 1 |-> lens[s + 1]],
                   dist |-> [s \in 0 .. num_lens.dist - 1 |-> lens[num_lens.litlen + s + 1]]]
      /\ phase' = IF huffman_decoder_init(codes'.litlen) /\ huffman_decoder_init(codes'.dist)
                  THEN "body" ELSE "error"
      /\ UNCHANGED <<writing, os, damaged, rpos, bfinal, dst, touched>>
      /\ UNCHANGED <<codelen, lens, num_lens>>
  BY DEF InitDecoders, Reading, header
<1>1. PICK a, b \in Nat : a = num_lens.litlen /\ b = num_lens.dist
  BY DEF IInv, CodesOK
<1>2. lens \in Seq(0 .. CODELEN_MAX_LIT) /\ Len(lens) = a + b
  BY <1>0, <1>1 DEF IInv, CodesOK
<1>3. [s \in 0 .. a - 1 |-> lens[s + 1]] \in Lits(a)
  <2>1. ASSUME NEW s \in 0 .. a - 1 PROVE lens[s + 1] \in 0 .. CODELEN_MAX_LIT
    <3>1. s + 1 \in 1 .. Len(lens)
      BY <1>2
    <3>. QED  BY <1>2, <3>1, ElementType
  <2>. QED  BY <2>1 DEF Lits
<1>4. [s \in 0 .. b - 1 |-> lens[a + s + 1]] \in Lits(b)
  <2>1. ASSUME NEW s \in 0 .. b - 1 PROVE lens[a + s + 1] \in 0 .. CODELEN_MAX_LIT
    <3>1. a + s + 1 \in 1 .. Len(lens)
      BY <1>2
    <3>. QED  BY <1>2, <3>1, ElementType
  <2>. QED  BY <2>1 DEF Lits
<1>5. AreLits(codes'.litlen) /\ AreLits(codes'.dist)
  <2>1. codes'.litlen \in Lits(a) /\ codes'.dist \in Lits(b)
    BY <1>0, <1>1, <1>3, <1>4
  <2>. QED  BY <2>1 DEF AreLits
<1>6. phase' \in {"body", "error"}
      /\ (phase' = "body" => huffman_decoder_init(codes'.litlen) /\ huffman_decoder_init(codes'.dist))
  BY <1>0
<1>7. CodesOK' /\ PhaseOK'
  BY <1>0, <1>5, <1>6 DEF IInv, CodesOK, PhaseOK
<1>8. InputOK' /\ StreamOK' /\ src' = src /\ os' = os
  BY <1>0, <1>6, InputKept
<1>9. OutputOK'
  BY <1>0, <1>8 DEF IInv, OutputOK
<1>. QED  BY <1>7, <1>8, <1>9 DEF IInv

LEMMA BadLitlenInv == IInv /\ BadLitlen(LitlenSym) => IInv'
  BY ErrorInv DEF BadLitlen, Reading

\* What the steps of a body have in common.
LEMMA BodyInv ==
    ASSUME IInv, phase = "body", NEW used \in Nat, Uses(used), Has(os.bits, rpos, used),
           dst' \in Seq(Byte), Len(dst') <= Len(src), touched' \in Nat, touched' <= Len(src),
           phase' \in {phase, "header", "ok", "error"}
    PROVE  IInv'
<1>1. Reading /\ UNCHANGED <<writing, os, damaged, bfinal>> /\ UNCHANGED <<header, codes>>
  BY DEF Reading, Uses
<1>2. rpos' \in Nat /\ rpos' <= Len(os.bits)
  <2>1. rpos' = rpos + used /\ rpos + used <= Len(os.bits)
    BY DEF Uses, Has
  <2>. QED  BY <2>1, ReadFacts
<1>3. phase' # "gave_up"
  BY <1>1 DEF Reading
<1>4. InputOK' /\ StreamOK' /\ OutputOK'
  BY <1>1, <1>2, <1>3, OutputInv
<1>. QED  BY <1>1, <1>4, CodesKept DEF IInv

LEMMA ReadLiteralInv == IInv /\ ReadLiteral(LitlenSym) => IInv'
<1> SUFFICES ASSUME IInv, ReadLiteral(LitlenSym) PROVE IInv'
  OBVIOUS
<1>a. PICK s : s = LitlenSym
  OBVIOUS
<1>0. phase = "body" /\ Reading /\ s.sym \in Byte /\ Has(os.bits, rpos, s.used) /\ s.used \in Nat
  BY <1>a, LitlenSymType DEF ReadLiteral, Reading
<1>1. CASE ~(Len(dst) < Len(src))
  <2>1. Error
    BY <1>1 DEF ReadLiteral
  <2>. QED  BY <1>0, <2>1, ErrorInv
<1>2. CASE Len(dst) < Len(src)
  <2>1. /\ dst' = Append(dst, s.sym) /\ touched' = Max({touched, Len(dst')})
        /\ Uses(s.used) /\ phase' = phase
    BY <1>a, <1>2 DEF ReadLiteral
  <2>2. dst' \in Seq(Byte) /\ Len(dst') = Len(dst) + 1
    BY <1>0, <2>1 DEF IInv, OutputOK
  <2>3. Len(dst') \in Nat /\ Len(dst') <= Len(src)
    BY <1>2, <2>2, ReadFacts
  <2>4. touched' \in Nat /\ touched' <= Len(src)
    <3>1. touched \in Nat /\ touched <= Len(src)
      BY ReadFacts DEF IInv, OutputOK
    <3>. QED  BY <2>1, <2>3, <3>1, LaterOf
  <2>. QED  BY <1>0, <2>1, <2>2, <2>3, <2>4, BodyInv
<1>. QED  BY <1>1, <1>2

LEMMA ReadEOBInv == IInv /\ ReadEOB(LitlenSym) => IInv'
<1> SUFFICES ASSUME IInv, ReadEOB(LitlenSym) PROVE IInv'
  OBVIOUS
<1>a. PICK s : s = LitlenSym
  OBVIOUS
<1>1. /\ phase = "body" /\ Has(os.bits, rpos, s.used) /\ s.used \in Nat
      /\ EndBlock(rpos + s.used, dst) /\ Uses(s.used) /\ dst' = dst /\ touched' = touched
  BY <1>a, LitlenSymType DEF ReadEOB
<1>2. phase' \in {"header", "ok", "error"}
  BY <1>1, EndBlockPhase
<1>3. dst \in Seq(Byte) /\ Len(dst) <= Len(src) /\ touched \in Nat /\ touched <= Len(src)
  BY ReadFacts DEF IInv, OutputOK
<1>. QED  BY <1>1, <1>2, <1>3, BodyInv

\* What a back reference reads: the numbers of the tables and bits of the stream.
LEMMA BackrefType ==
    ASSUME IInv, phase = "body", NEW l, l.base \in Nat, l.ebits \in Nat, NEW n \in Nat,
           NEW d, d.used \in Nat
    PROVE  /\ Backref(l, n + l.ebits, d).len \in Nat
           /\ Backref(l, n + l.ebits, d).dist \in Nat
           /\ Backref(l, n + l.ebits, d).used \in Nat
<1> DEFINE ebits == IF d.sym \in DistSym THEN dist_tbl[d.sym + 1].ebits ELSE 0
           at == n + l.ebits + d.used
           len == l.base + istream_bits(os.bits, rpos + (n + l.ebits) - l.ebits, l.ebits)
           dist == IF d.sym \in DistSym
                   THEN dist_tbl[d.sym + 1].base + istream_bits(os.bits, rpos + at, ebits)
                   ELSE 0
<1>1. Backref(l, n + l.ebits, d) = [len |-> len, dist |-> dist, used |-> at + ebits]
  BY Zenon DEF Backref
<1>2. len \in Nat
  <2>1. rpos + (n + l.ebits) - l.ebits \in Nat
    BY ReadFacts
  <2>2. istream_bits(os.bits, rpos + (n + l.ebits) - l.ebits, l.ebits) \in Nat
    BY <2>1, ReadFacts, ReadBound
  <2>. QED  BY <2>2
<1>3. at \in Nat /\ rpos + at \in Nat
  BY ReadFacts, SMTT(40)
<1>4. d.sym \in DistSym => dist_tbl[d.sym + 1].base \in Nat /\ dist_tbl[d.sym + 1].ebits \in Nat
  <2>1. d.sym \in DistSym => d.sym + 1 \in Symbols(dist_tbl)
    BY Sizes DEF Symbols
  <2>. QED  BY <2>1, Tables
<1>5. ebits \in Nat
  BY <1>4
<1> HIDE DEF at, len, ebits
<1>6. dist \in Nat
  <2>1. istream_bits(os.bits, rpos + at, ebits) \in Nat
    BY <1>3, <1>5, ReadFacts, ReadBound
  <2>. QED  BY <1>4, <2>1
<1> HIDE DEF dist
<1>. QED  BY <1>1, <1>2, <1>3, <1>5, <1>6

LEMMA CopiedType ==
    ASSUME NEW d \in Seq(Byte), NEW dist \in Nat \ {0}, NEW len \in Nat
    PROVE  /\ output_backref(d, dist, len) \in Seq(Byte)
           /\ Len(output_backref(d, dist, len)) = Len(d) + len
<1> DEFINE at(k) == Len(d) - dist + ((k - 1) % dist) + 1
           c == [k \in 1 .. len |-> IF at(k) < 1 THEN 0 ELSE d[at(k)]]
<1>1. ASSUME NEW k \in 1 .. len PROVE (IF at(k) < 1 THEN 0 ELSE d[at(k)]) \in Byte
  <2>1. k - 1 \in Nat
    OBVIOUS
  <2>2. PICK r \in 0 .. dist - 1 : r = (k - 1) % dist
    BY <2>1, DivMod
  <2>3. at(k) \in Int /\ at(k) <= Len(d)
    BY <2>2
  <2> HIDE DEF at
  <2>4. 0 \in Byte
    BY Sizes
  <2>5. at(k) >= 1 => d[at(k)] \in Byte
    BY <2>3, ElementType
  <2>. QED  BY <2>3, <2>4, <2>5
<1> HIDE DEF at
<1>2. c \in Seq(Byte) /\ Len(c) = len
  BY <1>1
<1>3. output_backref(d, dist, len) = d \o c
  BY Zenon DEF output_backref, at
<1> HIDE DEF c
<1>4. d \o c \in Seq(Byte) /\ Len(d \o c) = Len(d) + Len(c)
  BY <1>2
<1>. QED  BY <1>2, <1>3, <1>4

\* Whole chunks are written only where they fit.
LEMMA ChunksFit ==
    ASSUME IInv, NEW dist \in Nat, NEW len \in Nat, len <= Len(src) - Len(dst), InChunks(len)
    PROVE  WrittenTo(dst, dist, len, CHUNK) \in Nat /\ WrittenTo(dst, dist, len, CHUNK) <= Len(src)
<1>1. PICK n \in Nat, m \in Nat, r \in Nat :
        n = Len(dst) /\ m = Len(src) /\ r = round_up(len, CHUNK)
  BY ReadFacts, RoundUp, Numbers
<1>2. WrittenTo(dst, dist, len, CHUNK) = n + (IF len > dist THEN len ELSE r)
  BY <1>1, Zenon DEF WrittenTo, round_up
<1>3. r <= m - n /\ len <= m - n
  BY <1>1 DEF InChunks
<1>. QED  BY <1>1, <1>2, <1>3

LEMMA CopyBackrefInv ==
    ASSUME IInv, phase = "body", NEW r, r.len \in Nat, r.dist \in Nat, r.used \in Nat, CopyBackref(r)
    PROVE  IInv'
<1> DEFINE fine == r.dist \in 1 .. Len(dst) /\ r.len <= Len(src) - Len(dst) /\ Has(os.bits, rpos, r.used)
           upto == IF InChunks(r.len) THEN WrittenTo(dst, r.dist, r.len, CHUNK) ELSE Len(dst')
<1>0. Reading
  BY DEF Reading
<1>1. CASE ~fine
  <2>1. Error
    BY <1>1, Zenon DEF CopyBackref
  <2>. QED  BY <1>0, <2>1, ErrorInv
<1>2. CASE fine
  <2>1. /\ dst' = output_backref(dst, r.dist, r.len) /\ touched' = Max({touched, upto})
        /\ Uses(r.used) /\ phase' = phase
    BY <1>2, Zenon DEF CopyBackref
  <2>2. /\ r.dist \in Nat \ {0} /\ r.len <= Len(src) - Len(dst)
        /\ Has(os.bits, rpos, r.used)
    BY <1>2, ReadFacts
  <2>3. dst' \in Seq(Byte) /\ Len(dst') = Len(dst) + r.len
    BY <2>1, <2>2, CopiedType DEF IInv, OutputOK
  <2>4. Len(dst') \in Nat /\ Len(dst') <= Len(src)
    BY <2>2, <2>3, ReadFacts
  <2>5. upto \in Nat /\ upto <= Len(src)
    <3>1. CASE InChunks(r.len)
      BY <2>2, <3>1, ChunksFit
    <3>2. CASE ~InChunks(r.len)
      BY <2>4, <3>2
    <3>. QED  BY <3>1, <3>2
  <2> HIDE DEF upto
  <2>6. touched' \in Nat /\ touched' <= Len(src)
    <3>1. touched \in Nat /\ touched <= Len(src)
      BY ReadFacts DEF IInv, OutputOK
    <3>. QED  BY <2>1, <2>5, <3>1, LaterOf
  <2>. QED  BY <2>1, <2>2, <2>3, <2>4, <2>6, BodyInv
<1>. QED  BY <1>1, <1>2

LEMMA ReadBackrefInv == IInv /\ ReadBackref(LitlenSym) => IInv'
<1> SUFFICES ASSUME IInv, ReadBackref(LitlenSym) PROVE IInv'
  OBVIOUS
<1>a. PICK s : s = LitlenSym
  OBVIOUS
<1>b. PICK l : l = litlen_tbl[s.sym - LITLEN_EOB]
  OBVIOUS
<1>0. phase = "body" /\ s.sym \in LITLEN_EOB + 1 .. LITLEN_MAX /\ s.used \in Nat
  BY <1>a, LitlenSymType DEF ReadBackref
<1>1. PICK d : d = DistSymAt(s.used + l.ebits)
  OBVIOUS
<1>2. CopyBackref(Backref(l, s.used + l.ebits, d))
  BY <1>a, <1>b, <1>1 DEF ReadBackref
<1>3. l.base \in Nat /\ l.ebits \in Nat
  <2>1. s.sym - LITLEN_EOB \in Symbols(litlen_tbl)
    BY <1>0, Sizes, SMTT(40) DEF Symbols
  <2>. QED  BY <1>b, <2>1, Tables
<1>4. d.used \in Nat
  <2>1. s.used + l.ebits \in Nat
    BY <1>0, <1>3
  <2>. QED  BY <1>0, <1>1, <2>1, DistSymType
<1>5. PICK r : r = Backref(l, s.used + l.ebits, d)
  OBVIOUS
<1>6. r.len \in Nat /\ r.dist \in Nat /\ r.used \in Nat
  BY <1>0, <1>3, <1>4, <1>5, BackrefType
<1>. QED  BY <1>0, <1>2, <1>5, <1>6, CopyBackrefInv

LEMMA UnchangedInv == IInv /\ UNCHANGED vars => IInv'
<1> SUFFICES ASSUME IInv, UNCHANGED vars PROVE IInv'
  OBVIOUS
<1>1. /\ UNCHANGED <<phase, src, pos, block, block_len_bytes, block_src, os, damaged>>
      /\ UNCHANGED <<rpos, bfinal, codelen, lens, num_lens, codes, dst, touched>>
  BY DEF vars, writing, reading, header
<1>. QED  BY <1>1 DEF IInv, InputOK, StreamOK, OutputOK, CodesOK, PhaseOK

LEMMA NextInv == IInv /\ [Next]_vars => IInv'
<1> SUFFICES ASSUME IInv, [Next]_vars PROVE IInv'
  OBVIOUS
<1>1. CASE lit_callback
  BY <1>1, lit_callbackInv
<1>2. CASE backref_callback
  BY <1>2, backref_callbackInv
<1>3. CASE LastBlock
  BY <1>3, LastBlockInv
<1>4. CASE Read
  BY <1>4, ReadInv
<1>5. CASE ReadHeader
  BY <1>5, ReadHeaderInv
<1>6. CASE ReadStored
  BY <1>6, ReadStoredInv
<1>7. CASE ReadDynHeader
  BY <1>7, ReadDynHeaderInv
<1>8. CASE ReadLens(CodelenSym)
  BY <1>8, ReadLensInv
<1>9. CASE InitDecoders
  BY <1>9, InitDecodersInv
<1>10. CASE BadLitlen(LitlenSym)
  BY <1>10, BadLitlenInv
<1>11. CASE ReadLiteral(LitlenSym)
  BY <1>11, ReadLiteralInv
<1>12. CASE ReadEOB(LitlenSym)
  BY <1>12, ReadEOBInv
<1>13. CASE ReadBackref(LitlenSym)
  BY <1>13, ReadBackrefInv
<1>14. CASE UNCHANGED vars
  BY <1>14, UnchangedInv
<1>. QED
  BY <1>1, <1>2, <1>3, <1>4, <1>5, <1>6, <1>7, <1>8, <1>9, <1>10, <1>11, <1>12, <1>13, <1>14 DEF Next

\* The parts of IInv hold in every state: the block is what lies between its
\* beginning and the matcher, what is read and written stays in its buffer, and
\* codes are read with only after their decoder accepted them.
THEOREM InvariantHolds == Spec => []IInv
<1>. QED  BY InitInv, NextInv, PTL DEF Spec

--------------------------------------------------------------------------------
LEMMA LitsRange ==
    ASSUME NEW ls, AreLits(ls) PROVE Range(ls) \subseteq 0 .. CODELEN_MAX_LIT
<1>1. PICK n \in Nat : ls \in [0 .. n - 1 -> 0 .. CODELEN_MAX_LIT]
  BY DEF AreLits, Lits
<1>. QED  BY <1>1 DEF Range

LEMMA InvContained == IInv => Contained
<1> SUFFICES ASSUME IInv PROVE Contained
  OBVIOUS
<1>1. TypeOK
  <2>1. \A k \in {"litlen", "dist"} : Range(codes[k]) \subseteq 0 .. CODELEN_MAX_LIT
    BY LitsRange DEF IInv, CodesOK
  <2>2. os.bits \in Seq({0, 1}) /\ damaged \in BOOLEAN
    BY DEF IInv, StreamOK, Stream, Bit
  <2>. QED  BY <2>1, <2>2 DEF TypeOK, IInv, InputOK, OutputOK, CodesOK, PhaseOK
<1>2. Len(dst) <= Len(src) /\ touched <= Len(src)
  BY ReadFacts DEF IInv, OutputOK
<1>3. phase = "lens" => CodelenSym.sym >= -1
  BY CodelenSymType, Numbers DEF CodelenSyms
<1>4. phase = "body" => LitlenSym.sym >= -1
  BY LitlenSymType
<1>. QED  BY <1>1, <1>2, <1>3, <1>4 DEF Contained

\* Whatever the stream holds, hwinflate writes nothing past the buffer, not even
\* with the whole chunks of lz77_output_backref64, and no decoder yields an entry
\* of its tables that was not filled in.
THEOREM ContainedHolds == Spec => []Contained
<1>. QED  BY InvariantHolds, InvContained, PTL

--------------------------------------------------------------------------------
(***************************************************************************)
(* An uncompressed block, and the kind that is chosen.                     *)
(***************************************************************************)
\* uncomp_block_len is what write_uncomp_block writes.
LEMMA UncompLen ==
    ASSUME InputOK, StreamOK, phase # "gave_up", NEW final, write_uncomp_block(os, final).ok
    PROVE  Len(write_uncomp_block(os, final).bits) - Len(os.bits) = uncomp_block_len(block_len_bytes, Len(os.bits))
<1>1. PICK n \in Nat, len \in Nat, r \in Nat, m \in Nat \ {0} :
        /\ n = Len(os.bits) /\ len = block_len_bytes /\ m = BYTE_BITS
        /\ r = round_up(n + 3, m) /\ r >= n + 3
  <2>1. PICK n \in Nat : n = Len(os.bits)
    BY DEF StreamOK, Stream
  <2>2. block_len_bytes \in Nat
    BY Numbers DEF InputOK
  <2>3. BYTE_BITS \in Nat \ {0} /\ n + 3 \in Nat
    BY Numbers
  <2>4. PICK r \in Nat : r = round_up(n + 3, BYTE_BITS) /\ r >= n + 3
    BY <2>3, RoundUp, Zenon
  <2>. QED  BY <2>1, <2>2, <2>3, <2>4
<1> DEFINE a == Put(os, Head3(final, 0))
           x == Bits(0, r - n - 3)
           y == Bits(len, LEN_BITS)
           z == Bits(2 ^ LEN_BITS - 1 - len, LEN_BITS)
           bytes == SubSeq(src, block_src + 1, block_src + block_len_bytes)
           b == Put(a, x \o y \o z)
<1>2. a \in Stream
  BY HeadLen, PutType DEF StreamOK
<1>3. /\ x \in Seq(Bit) /\ y \in Seq(Bit) /\ z \in Seq(Bit)
      /\ Len(x) = r - n - 3 /\ Len(y) = LEN_BITS /\ Len(z) = LEN_BITS
  <2>1. r - n - 3 \in Nat /\ 0 \in Int /\ len \in Int /\ LEN_BITS \in Nat
    BY <1>1, Numbers
  <2>2. 2 ^ LEN_BITS - 1 - len \in Int
    <3>1. PICK p \in Nat : p = 2 ^ LEN_BITS
      BY Numbers, Power
    <3>. QED  BY <3>1
  <2>. QED  BY <2>1, <2>2, BitsSeq, Zenon
<1>4. bytes \in Seq(Byte) /\ Len(bytes) = len
  <2>1. block_src \in Nat /\ block_src + block_len_bytes \in 0 .. Len(src) /\ src \in Seq(Byte)
    BY DEF InputOK
  <2>2. block_src + 1 >= 1
    BY <2>1
  <2>3. block_src + block_len_bytes <= Len(src)
    BY <2>1
  <2>4. bytes \in Seq(Byte)
    BY <2>1, <2>2, <2>3
  <2>5. Len(bytes) = len
    <3>1. PICK i \in Nat, j \in Nat : i = block_src + 1 /\ j = block_src + len
      BY <2>1
    <3>2. Len(SubSeq(src, i, j)) = IF i <= j THEN j - i + 1 ELSE 0
      BY <2>1, <3>1
    <3>. QED  BY <1>1, <2>1, <3>1, <3>2
  <2>. QED  BY <2>4, <2>5
<1>5. write_uncomp_block(os, final) = ostream_write_bytes_aligned(b, bytes, m)
  BY <1>1, Zenon DEF write_uncomp_block
<1>6. Head3(final, 0) \in Seq(Bit) /\ Len(Head3(final, 0)) = 3
  BY HeadLen
<1> HIDE DEF a, x, y, z, bytes
<1>7. x \o y \o z \in Seq(Bit) /\ Len(x \o y \o z) = (r - n - 3) + LEN_BITS + LEN_BITS
  <2>1. x \o y \in Seq(Bit) /\ Len(x \o y) = (r - n - 3) + LEN_BITS
    BY <1>3, JoinedLen, Zenon
  <2>. QED  BY <1>3, <2>1, JoinedLen, Zenon
<1>8. b \in Stream
  BY <1>2, <1>7, PutType
<1>9. b.ok => a.ok /\ Len(b.bits) = r + 2 * LEN_BITS
  <2>1. b.ok => a.ok /\ Len(b.bits) = Len(a.bits) + ((r - n - 3) + LEN_BITS + LEN_BITS)
    BY <1>2, <1>7, PutLen, Zenon
  <2>2. a.ok => Len(a.bits) = n + 3
    <3>1. os \in Stream
      BY DEF StreamOK
    <3>. QED  BY <1>1, <1>6, <3>1, PutLen, Zenon DEF a
  <2>3. b.ok => a.ok /\ Len(b.bits) = (n + 3) + ((r - n - 3) + LEN_BITS + LEN_BITS)
    BY <2>1, <2>2, Zenon
  <2>4. (n + 3) + ((r - n - 3) + LEN_BITS + LEN_BITS) = r + 2 * LEN_BITS
    <3>1. \A l \in Nat : (n + 3) + ((r - n - 3) + l + l) = r + 2 * l
      OBVIOUS
    <3>. QED  BY <3>1, Numbers, Zenon
  <2>. QED  BY <2>3, <2>4, Zenon
<1> HIDE DEF b
<1>10. b.ok => round_up(Len(b.bits), m) = Len(b.bits)
  <2>1. PICK p \in Nat : LEN_BITS = m * p
    <3>1. LEN_BITS % m = 0
      BY <1>1, DeflateAssumption
    <3>2. LEN_BITS = m * (LEN_BITS \div m) + (LEN_BITS % m) /\ LEN_BITS \div m \in Nat
      BY Numbers, DivMod
    <3>3. PICK q \in Nat : q = LEN_BITS \div m
      BY <3>2
    <3>4. LEN_BITS = m * q + 0
      BY <3>1, <3>2, <3>3, Zenon
    <3>5. PICK j \in Nat : j = m * q
      OBVIOUS
    <3>6. LEN_BITS = m * q
      BY <3>4, <3>5
    <3>. QED  BY <3>6
  <2>2. 2 * (m * p) = m * (2 * p) /\ 2 * p \in Nat /\ n + 3 \in Nat
    OBVIOUS
  <2>3. round_up(r + m * (2 * p), m) = r + m * (2 * p)
    <3>1. round_up(round_up(n + 3, m) + m * (2 * p), m) = round_up(n + 3, m) + m * (2 * p)
      BY <2>2, RoundedUp, Zenon
    <3>. QED  BY <1>1, <3>1, Zenon
  <2>4. b.ok => Len(b.bits) = r + m * (2 * p)
    BY <1>9, <2>1, <2>2, Zenon
  <2>. QED  BY <2>3, <2>4, Zenon
<1>11. b.ok /\ Len(ostream_write_bytes_aligned(b, bytes, m).bits) = Len(b.bits) + len * m
  <2>1. ostream_write_bytes_aligned(b, bytes, m).ok
    BY <1>5, Zenon
  <2>. QED  BY <1>1, <1>4, <1>8, <1>10, <2>1, AlignedLen, Zenon
<1>12. Len(ostream_write_bytes_aligned(b, bytes, m).bits) = (r + 2 * LEN_BITS) + len * m
  BY <1>9, <1>11, Zenon
<1>13. uncomp_block_len(len, n) = 3 + (r - (n + 3)) + 2 * LEN_BITS + len * m
  BY <1>1, Zenon DEF uncomp_block_len
<1>14. ((r + 2 * LEN_BITS) + len * m) - n = 3 + (r - (n + 3)) + 2 * LEN_BITS + len * m
  <2>1. \A l, q \in Nat : ((r + 2 * l) + q) - n = 3 + (r - (n + 3)) + 2 * l + q
    OBVIOUS
  <2>2. len * m \in Nat
    OBVIOUS
  <2>. QED  BY <2>1, <2>2, Numbers, Zenon
<1>. QED  BY <1>1, <1>5, <1>12, <1>13, <1>14, Zenon

LEMMA MinOfThree ==
    ASSUME NEW a \in Int, NEW b \in Int, NEW c \in Int
    PROVE  Min({a, b, c}) = IF a <= c /\ a <= b THEN a ELSE IF b <= c THEN b ELSE c
<1>1. PICK m \in {a, b, c} : m = (IF a <= c /\ a <= b THEN a ELSE IF b <= c THEN b ELSE c)
  OBVIOUS
<1>2. \A y \in {a, b, c} : m <= y
  BY <1>1
<1>3. \A x \in {a, b, c} : (\A y \in {a, b, c} : x <= y) => x = m
  BY <1>2
<1>4. Min({a, b, c}) = m
  BY <1>2, <1>3 DEF Min
<1>. QED  BY <1>1, <1>4

\* The block that write_block chose has the least of the three sizes.
LEMMA WriteBlockLen ==
    ASSUME InputOK, StreamOK, phase # "gave_up", NEW final, write_block(final, DynamicCodes(WithEOB)), os'.ok
    PROVE  Len(os'.bits) - Len(os.bits) =
             Min({uncomp_block_len(block_len_bytes, Len(os.bits)), static_block_len(WithEOB),
                  dyn_block_len(WithEOB, DynamicCodes(WithEOB))})
<1>1. PICK d : d = DynamicCodes(WithEOB)
  OBVIOUS
<1>2. IsDescription(d) /\ WithEOB \in Seq(Tokens)
  BY <1>1, WithEOBType, DynamicType
<1> DEFINE x == write_uncomp_block(os, final)
           w == write_huffman_block(WithEOB, FixedCodes)
           h == Head3(final, 1)
           v == write_dynamic_block(final, WithEOB, d)
<1>3. PICK a, b, c : /\ a = uncomp_block_len(block_len_bytes, Len(os.bits))
                     /\ b = static_block_len(WithEOB)
                     /\ c = dyn_block_len(WithEOB, d)
  OBVIOUS
<1>4. os \in Stream /\ Len(os.bits) \in Nat
  BY DEF StreamOK, Stream
<1>5. x.ok => Len(x.bits) - Len(os.bits) = a
  BY <1>3, UncompLen, Zenon
<1>6. h \o w \in Seq(Bit) /\ Len(h \o w) = b /\ b \in Nat
  <2>1. w \in Seq(Bit) /\ Len(w) = huffman_block_body_len(WithEOB, FixedCodes)
    BY <1>2, FixedFit, BodyLen, Zenon
  <2>2. h \in Seq(Bit) /\ Len(h) = 3
    BY HeadLen
  <2>3. b = 3 + huffman_block_body_len(WithEOB, FixedCodes)
    BY <1>3, Zenon DEF static_block_len
  <2> HIDE DEF h, w
  <2>4. h \o w \in Seq(Bit) /\ Len(h \o w) = Len(h) + Len(w)
    BY <2>1, <2>2, JoinedLen, Zenon
  <2>5. Len(h \o w) \in Nat
    BY <2>4
  <2>. QED  BY <2>1, <2>2, <2>3, <2>4, <2>5, Zenon
<1>7. v \in Seq(Bit) /\ Len(v) = c /\ c \in Nat
  <2>1. v \in Seq(Bit) /\ Len(v) = c
    BY <1>2, <1>3, DynamicLen, Zenon
  <2> HIDE DEF v
  <2>2. Len(v) \in Nat
    BY <2>1
  <2>. QED  BY <2>1, <2>2, Zenon
<1>8. a \in Int
  <2>1. PICK n \in Nat, len \in Nat : n = Len(os.bits) /\ len = block_len_bytes
    BY <1>4, Numbers DEF InputOK
  <2>2. n + 3 \in Nat
    OBVIOUS
  <2>3. PICK r \in Nat : r = round_up(n + 3, BYTE_BITS)
    BY <2>2, Numbers, RoundUp
  <2>4. len * BYTE_BITS \in Nat /\ 2 * LEN_BITS \in Nat
    BY Numbers
  <2>5. a = 3 + (r - (n + 3)) + 2 * LEN_BITS + len * BYTE_BITS
    BY <1>3, <2>1, <2>3, Zenon DEF uncomp_block_len
  <2>. QED  BY <2>4, <2>5
<1>9. Min({a, b, c}) = IF a <= c /\ a <= b THEN a ELSE IF b <= c THEN b ELSE c
  <2>1. b \in Int /\ c \in Int
    BY <1>6, <1>7
  <2>. QED  BY <1>8, <2>1, MinOfThree, Zenon
<1>10. os' = IF a <= c /\ a <= b THEN x ELSE IF b <= c THEN Put(os, h \o w) ELSE Put(os, v)
  BY <1>1, <1>3, Zenon DEF write_block
<1> HIDE DEF x, w, h, v
<1>11. Len(os'.bits) - Len(os.bits) = Min({a, b, c})
  <2>1. CASE a <= c /\ a <= b
    BY <1>5, <1>9, <1>10, <2>1, Zenon
  <2>2. CASE ~(a <= c /\ a <= b) /\ b <= c
    <3>1. os' = Put(os, h \o w) /\ Min({a, b, c}) = b
      BY <1>9, <1>10, <2>2, Zenon
    <3>2. Len(os'.bits) = Len(os.bits) + b
      BY <1>4, <1>6, <3>1, PutLen, Zenon
    <3>. QED  BY <1>4, <1>6, <3>1, <3>2
  <2>3. CASE ~(a <= c /\ a <= b) /\ ~(b <= c)
    <3>1. os' = Put(os, v) /\ Min({a, b, c}) = c
      BY <1>9, <1>10, <2>3, Zenon
    <3>2. Len(os'.bits) = Len(os.bits) + c
      BY <1>4, <1>7, <3>1, PutLen, Zenon
    <3>. QED  BY <1>4, <1>7, <3>1, <3>2
  <2>. QED  BY <2>1, <2>2, <2>3, Zenon
<1>. QED  BY <1>1, <1>3, <1>11, Zenon

LEMMA StepSizes ==
    ASSUME IInv, [Next]_vars, phase = "compress", os' # os, os'.ok
    PROVE  Len(os'.bits) - Len(os.bits) =
             Min({uncomp_block_len(block_len_bytes, Len(os.bits)), static_block_len(WithEOB),
                  dyn_block_len(WithEOB, DynamicCodes(WithEOB))})
<1>1. ASSUME NEW t, NEW n, Token(t, n) PROVE write_block(FALSE, DynamicCodes(WithEOB))
  BY <1>1 DEF Token
<1>2. \E final \in BOOLEAN : write_block(final, DynamicCodes(WithEOB))
  <2>1. CASE lit_callback
    BY <1>1, <2>1 DEF lit_callback
  <2>2. CASE backref_callback
    BY <1>1, <2>2 DEF backref_callback
  <2>3. CASE LastBlock
    BY <2>3 DEF LastBlock
  <2>4. phase \notin {"written", "header", "stored", "dynamic", "lens", "body"}
    OBVIOUS
  <2>5. ~Read /\ ~ReadHeader /\ ~ReadStored /\ ~ReadDynHeader /\ ~InitDecoders
    BY <2>4, Zenon DEF Read, ReadHeader, ReadStored, ReadDynHeader, InitDecoders
  <2>6. ~ReadLens(CodelenSym)
    BY <2>4, Zenon DEF ReadLens
  <2>7. /\ ~BadLitlen(LitlenSym) /\ ~ReadLiteral(LitlenSym) /\ ~ReadEOB(LitlenSym)
        /\ ~ReadBackref(LitlenSym)
    BY <2>4, Zenon DEF BadLitlen, ReadLiteral, ReadEOB, ReadBackref
  <2>8. ~UNCHANGED vars
    BY DEF vars
  <2>. QED  BY <2>1, <2>2, <2>3, <2>5, <2>6, <2>7, <2>8 DEF Next
<1>. QED  BY <1>2, WriteBlockLen DEF IInv

\* The size of a block, computed from the frequencies of its symbols before it is
\* written, is what writing it takes, and the kind that is written takes least.
THEOREM SizesHold == Spec => SizesAreExact
<1>1. IInv /\ [Next]_vars
        => [(phase = "compress" /\ os' # os /\ os'.ok) =>
              Len(os'.bits) - Len(os.bits) =
                Min({uncomp_block_len(block_len_bytes, Len(os.bits)), static_block_len(WithEOB),
                     dyn_block_len(WithEOB, DynamicCodes(WithEOB))})]_vars
  BY StepSizes
<1>. QED  BY <1>1, InvariantHolds, PTL DEF Spec, SizesAreExact
================================================================================
