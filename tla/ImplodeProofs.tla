------------------------------ MODULE ImplodeProofs ------------------------------
(***************************************************************************)
(* Proofs about Implode, for any sizes of bytes, symbols, windows and      *)
(* buffer.  Whatever trees compute_huffman_lengths builds, each symbol has *)
(* a length, so that all that is written are bits.  Whatever bits are      *)
(* read, the lengths in them are at least one; if they are a full tree,    *)
(* HuffmanProofs says that any bits decode to one of the symbols.          *)
(***************************************************************************)
EXTENDS Implode, FiniteSetTheorems, SequenceTheorems, TLAPS

\* What was proved of Huffman codes.
H == INSTANCE HuffmanProofs
     WITH NUM_SYMS <- 0, GIVEN_SYMS <- 0, MaxLens <- {}, freqs <- <<>>, max_len <- 0,
          freq_cap <- 0, nodes <- <<>>, h <- 0, lengths <- <<>>, pc <- "", bits <- 0, result <- 0

LEMMA SameBits ==
    /\ \A x, n : H!Bits(x, n) = Bits(x, n)
    /\ \A bs : H!ValueOf(bs) = ValueOf(bs)
    /\ \A x, n : H!reverse16(x, n) = reverse16(x, n)
  BY Zenon DEF H!Bits, Bits, H!ValueOf, ValueOf, H!reverse16, reverse16

LEMMA SameCardinality == \A S : H!Cardinality(S) = Cardinality(S)
  BY Zenon DEF H!Cardinality, Cardinality

LEMMA SameCount ==
    /\ H!Width = Width /\ H!Room = 2 ^ MAX_HUFFMAN_BITS
    /\ \A x : H!uint16(x) = uint16(x)
    /\ \A ls, l : H!OfLength(ls, l) = OfLength(ls, l) /\ H!count(ls, l) = count(ls, l)
  BY SameCardinality, Zenon DEF H!Width, Width, H!Room, H!uint16, uint16, H!count, count, H!OfLength, OfLength

LEMMA SameFirstCode ==
    \A ls : H!first_code(ls) = first_code(ls)
  BY Zenon DEF H!first_code, first_code, H!uint16, uint16, H!count, count, H!OfLength, OfLength,
               H!Cardinality, Cardinality

LEMMA SameCodeword ==
    \A ls, s : H!CanonicalCode(ls, s) = CanonicalCode(ls, s) /\ H!Codeword(ls, s) = Codeword(ls, s)
  BY SameFirstCode, SameCount, SameBits, SameCardinality, Zenon DEF H!CanonicalCode, CanonicalCode, H!Codeword, Codeword

LEMMA SameInit ==
    \A ls : H!huffman_decoder_init(ls) = huffman_decoder_init(ls)
  BY SameFirstCode, SameCount, Zenon DEF H!huffman_decoder_init, huffman_decoder_init

LEMMA SameTable ==
    \A ls, i : H!table(ls, i) = table(ls, i) /\ H!Lookup(ls, i) = Lookup(ls, i)
<1>1. ASSUME NEW ls, NEW i PROVE H!table(ls, i) = table(ls, i)
  BY SameCodeword, Zenon DEF H!table, table, H!lsb, lsb
<1>. QED  BY <1>1, Zenon DEF H!Lookup, Lookup

LEMMA SameLong ==
    \A ls, bs : H!DecodeLong(ls, bs) = DecodeLong(ls, bs)
<1>1. \A ls, l : H!sentinel_bits(ls, l) = sentinel_bits(ls, l) 
   BY SameFirstCode, SameCount, Zenon DEF H!sentinel_bits, sentinel_bits
<1>2. \A ls, l : H!offset_first_sym_idx(ls, l) = offset_first_sym_idx(ls, l)
   BY SameFirstCode, SameCount, SameCardinality, Zenon DEF H!offset_first_sym_idx, offset_first_sym_idx
<1>3. \A ls, l : H!sym_idx(ls, l) = sym_idx(ls, l)
   BY SameCardinality, Zenon DEF H!sym_idx, sym_idx
<1> SUFFICES ASSUME NEW ls, NEW bs PROVE H!DecodeLong(ls, bs) = DecodeLong(ls, bs)
  OBVIOUS
<1> DEFINE msb == reverse16(bs, MAX_HUFFMAN_BITS)
           hits == {l \in HUFFMAN_LOOKUP_TABLE_BITS + 1 .. MAX_HUFFMAN_BITS : msb < sentinel_bits(ls, l)}
           l == CHOOSE x \in hits : \A y \in hits : x <= y
           idx == uint16(offset_first_sym_idx(ls, l) + msb \div 2 ^ (MAX_HUFFMAN_BITS - l))
           at == {s \in DOMAIN ls : ls[s] # 0 /\ sym_idx(ls, s) = idx}
           hitsH == {k \in HUFFMAN_LOOKUP_TABLE_BITS + 1 .. MAX_HUFFMAN_BITS : msb < H!sentinel_bits(ls, k)}
           any(S) == CHOOSE s \in S : TRUE
           atH(i) == {s \in DOMAIN ls : ls[s] # 0 /\ H!sym_idx(ls, s) = i}
<1>4. hitsH = hits
  BY <1>1, Zenon
<1>5. \A i, k : H!uint16(H!offset_first_sym_idx(ls, k) + i) = uint16(offset_first_sym_idx(ls, k) + i)
  BY <1>2, SameCount, Zenon
<1>6. atH(idx) = at
  BY <1>3, Zenon
<1>7. DecodeLong(ls, bs) = IF hits = {} THEN NoSymbol
                           ELSE IF at = {} THEN [sym |-> -2, used |-> l]
                           ELSE [sym |-> any(at), used |-> l]
  BY Zenon DEF DecodeLong
<1>8. H!DecodeLong(ls, bs) =
        LET lH == CHOOSE x \in hitsH : \A y \in hitsH : x <= y
            idxH == H!uint16(H!offset_first_sym_idx(ls, lH) + msb \div 2 ^ (MAX_HUFFMAN_BITS - lH))
        IN  IF hitsH = {} THEN H!NoSymbol
            ELSE IF atH(idxH) = {} THEN [sym |-> -2, used |-> lH]
            ELSE [sym |-> CHOOSE s \in atH(idxH) : TRUE, used |-> lH]
  <2>1. H!reverse16(bs, MAX_HUFFMAN_BITS) = msb
    BY SameBits
  <2> HIDE DEF msb
  <2>. QED  BY <2>1, Zenon DEF H!DecodeLong
<1>9. H!NoSymbol = NoSymbol
  BY DEF H!NoSymbol, NoSymbol
<1> HIDE DEF hitsH, atH, hits
<1>10. H!DecodeLong(ls, bs) =
         IF hits = {} THEN NoSymbol
         ELSE IF atH(idx) = {} THEN [sym |-> -2, used |-> l]
         ELSE [sym |-> any(atH(idx)), used |-> l]
  BY <1>4, <1>5, <1>8, <1>9, Zenon
<1> HIDE DEF at, any, idx, l
<1>. QED  BY <1>6, <1>7, <1>10

LEMMA SameDecoder ==
    \A ls, bs : H!huffman_decode(ls, bs) = huffman_decode(ls, bs)
  BY SameTable, SameLong, Zenon DEF H!huffman_decode, huffman_decode, H!lsb, lsb

LEMMA FullDecodes ==
    ASSUME NEW n \in Nat, NEW ls \in [0 .. n - 1 -> Width], NEW bs \in 0 .. 2 ^ MAX_HUFFMAN_BITS - 1, TreeFull(ls)
    PROVE  /\ huffman_decoder_init(ls)
           /\ huffman_decode(ls, bs).sym \in 0 .. n - 1 /\ huffman_decode(ls, bs).used \in Width
<1>1. H!RoomOf(ls) = H!Room
  BY Zenon DEF H!RoomOf, H!Room, TreeFull, H!MapThenSumSet, MapThenSumSet, H!MapThenFoldSet, MapThenFoldSet
<1>2. bs \in 0 .. H!Room - 1 /\ ls \in [0 .. n - 1 -> H!Width]
  BY SameCount
<1>3. H!huffman_decoder_init(ls) /\ H!huffman_decode(ls, bs).sym \in 0 .. n - 1 /\ H!huffman_decode(ls, bs).used \in H!Width
  <2>1. (0 \in Nat /\ 0 \in Nat) /\ (\A l \in {} : 2 ^ l >= 0) /\ 2 * 0 <= UINT16_MAX
    BY HuffmanAssumption
  <2>. QED BY <1>1, <1>2, <2>1, HuffmanAssumption, H!FullCodeDecodes, Zenon
<1>. QED  BY <1>3, SameCount, SameInit, SameDecoder

--------------------------------------------------------------------------------
(***************************************************************************)
(* Numbers and recursion, as they were proved with the Huffman decoder.    *)
(***************************************************************************)
\* The assumptions of the instance.
LEMMA Assumed ==
    /\ MAX_HUFFMAN_BITS \in Nat /\ HUFFMAN_LOOKUP_TABLE_BITS \in Nat
    /\ 0 < HUFFMAN_LOOKUP_TABLE_BITS /\ HUFFMAN_LOOKUP_TABLE_BITS < MAX_HUFFMAN_BITS
    /\ UINT16_MAX \in Nat \ {0}
    /\ (0 \in Nat /\ 0 \in Nat) /\ (\A l \in {} : 2 ^ l >= 0) /\ 2 * 0 <= UINT16_MAX
  BY HuffmanAssumption

LEMMA LeastElement ==
    ASSUME NEW S, S \subseteq Nat, S # {}
    PROVE  \E m \in S : \A n \in S : m <= n
  BY Assumed, H!LeastElement, Zenon

LEMMA Climb ==
    ASSUME NEW n \in Nat, NEW T, 0 \in T, \A j \in 0 .. n - 1 : j \in T => j + 1 \in T
    PROVE  \A i \in 0 .. n : i \in T
  BY Assumed, H!Climb, Zenon

LEMMA DivMod ==
    ASSUME NEW a \in Nat, NEW d \in Nat \ {0}
    PROVE  /\ a \div d \in Nat /\ a % d \in 0 .. d - 1
           /\ a = d * (a \div d) + (a % d)
  BY Assumed, H!DivMod, Zenon

LEMMA Power == ASSUME NEW n \in Nat PROVE 2 ^ n \in Nat \ {0}
<1>1. 2 ^ n \in Nat /\ 2 ^ n >= 1
  BY Assumed, H!PowerStep, Zenon
<1>. QED  BY <1>1

LEMMA ValueBound ==
    ASSUME NEW n \in Nat, NEW bs \in [1 .. n -> {0, 1}]
    PROVE  ValueOf(bs) \in 0 .. 2 ^ n - 1
<1>1. H!ValueOf(bs) \in 0 .. 2 ^ n - 1
  BY Assumed, H!ValueBound, Zenon
<1>. QED  BY <1>1, SameBits

LEMMA Recursion ==
    ASSUME NEW n \in Nat, NEW V, NEW z \in V, NEW g \in [V \X (1 .. n) -> V]
    PROVE  \E f \in [0 .. n -> V] : H!Recurs(f, n, z, g)
<1>1. g \in H!Steps(V, n)
  BY Zenon DEF H!Steps
<1>. QED  BY <1>1, Assumed, H!Recursion, Zenon

--------------------------------------------------------------------------------
(***************************************************************************)
(* The constants.                                                          *)
(***************************************************************************)
LEMMA Constants ==
    /\ BYTE_BITS \in Nat /\ SYM_BITS \in Nat /\ NIBBLE \in Nat /\ BYTE_BITS = 2 * NIBBLE
    /\ 2 ^ NIBBLE = MAX_HUFFMAN_BITS /\ 2 ^ BYTE_BITS \in Nat \ {0} /\ 2 ^ SYM_BITS \in Nat \ {0}
    /\ LAST \in Nat /\ Byte = 0 .. 2 ^ BYTE_BITS - 1 /\ Sym = 0 .. LAST /\ BUFFER_CAP \in Nat \ {0}
<1>1. BYTE_BITS \in Nat /\ SYM_BITS \in Nat /\ BYTE_BITS % 2 = 0
  BY ImplodeAssumption
<1>2. NIBBLE \in Nat /\ BYTE_BITS = 2 * NIBBLE
  BY <1>1 DEF NIBBLE
<1>3. 2 ^ BYTE_BITS \in Nat \ {0} /\ 2 ^ SYM_BITS \in Nat \ {0}
  BY <1>1, Power
<1>4. 2 ^ NIBBLE = MAX_HUFFMAN_BITS /\ BUFFER_CAP \in Nat \ {0}
  BY ImplodeAssumption DEF NIBBLE
<1>. QED  BY <1>1, <1>2, <1>3, <1>4 DEF LAST, Byte, Sym

--------------------------------------------------------------------------------
(***************************************************************************)
(* Streams.                                                                *)
(***************************************************************************)
Bit == {0, 1}

LEMMA BitsSeq ==
    ASSUME NEW x \in Int, NEW n \in Nat
    PROVE  Bits(x, n) \in [1 .. n -> Bit] /\ Bits(x, n) \in Seq(Bit) /\ Len(Bits(x, n)) = n
<1>1. \A i \in 1 .. n : (x \div 2 ^ (i - 1)) % 2 \in Bit
  <2> TAKE i \in 1 .. n
  <2>1. PICK d \in Nat \ {0} : d = 2 ^ (i - 1)
    BY Power
  <2>2. x \div d \in Int
    BY <2>1
  <2>. QED  BY <2>1, <2>2 DEF Bit
<1>2. Bits(x, n) \in [1 .. n -> Bit]
  BY <1>1 DEF Bits
<1>. QED  BY <1>2

\* The bits read are a number of so many bits.
LEMMA ReadBound ==
    ASSUME NEW is \in Seq(Bit), NEW at \in Nat, NEW n \in Nat
    PROVE  istream_bits(is, at, n) \in 0 .. 2 ^ n - 1 /\ istream_bits(is, at, n) \in Nat
<1> DEFINE bs == [i \in 1 .. n |-> IF at + i <= Len(is) THEN is[at + i] ELSE 0]
<1>1. \A i \in 1 .. n : (IF at + i <= Len(is) THEN is[at + i] ELSE 0) \in {0, 1}
  BY DEF Bit
<1>2. bs \in [1 .. n -> {0, 1}]
  BY <1>1
<1>3. 2 ^ n \in Nat
  BY Power
<1> HIDE DEF bs
<1>4. ValueOf(bs) \in 0 .. 2 ^ n - 1
  BY <1>2, ValueBound
<1>. QED  BY <1>3, <1>4 DEF istream_bits, bs

LEMMA ReversedNat ==
    ASSUME NEW c \in Nat, NEW n \in Nat PROVE reverse16(c, n) \in Nat
<1> DEFINE r == [i \in 1 .. n |-> Bits(c, n)[n + 1 - i]]
<1>1. Bits(c, n) \in [1 .. n -> Bit]
  BY BitsSeq
<1>2. r \in [1 .. n -> {0, 1}]
  BY <1>1 DEF Bit
<1>3. 2 ^ n \in Nat
  BY Power
<1> HIDE DEF r
<1>4. ValueOf(r) \in 0 .. 2 ^ n - 1
  BY <1>2, ValueBound
<1>. QED  BY <1>3, <1>4 DEF reverse16, r

\* Codes that the compressor may have: a length for each of finitely many symbols.
Codes(D) == [D -> Nat]

LEMMA CodewordNat ==
    ASSUME NEW D, IsFiniteSet(D), NEW ls \in Codes(D), NEW s \in D
    PROVE  Codeword(ls, s) \in Nat
<1>1. DOMAIN ls = D /\ ls[s] \in Nat
  BY DEF Codes
<1>2. H!first_code(ls) \in [Nat -> 0 .. H!Room - 1]
  <2>1. H!IsFiniteSet(DOMAIN ls)
    BY <1>1, Zenon DEF H!IsFiniteSet, IsFiniteSet
  <2>. QED  BY <2>1, Assumed, H!FirstCodeOf, Zenon
<1>3. PICK r \in Nat \ {0} : r = 2 ^ MAX_HUFFMAN_BITS
  BY Power, Assumed
<1>4. first_code(ls)[ls[s]] \in Nat
  BY <1>1, <1>2, <1>3, SameFirstCode, SameCount
<1> DEFINE B == {t \in OfLength(ls, ls[s]) : t < s}
<1>5. Cardinality(B) \in Nat
  <2>1. B \subseteq D
    BY <1>1 DEF OfLength
  <2>. QED  BY <2>1, FS_Subset, FS_CardinalityType
<1> HIDE DEF B
<1>6. \A x \in Nat : uint16(x) \in Nat
  BY <1>3 DEF uint16
<1>7. CanonicalCode(ls, s) \in Nat
  BY <1>4, <1>5, <1>6 DEF CanonicalCode, B
<1>. QED  BY <1>1, <1>7, ReversedNat DEF Codeword

LEMMA CodedSeq ==
    ASSUME NEW D, IsFiniteSet(D), NEW ls \in Codes(D), NEW s \in D
    PROVE  Coded1(ls, s) \in Seq(Bit)
<1>1. PICK n \in Nat : n = ls[s]
  BY DEF Codes
<1>2. PICK c \in Nat : c = Codeword(ls, s)
  BY CodewordNat
<1>3. Bits(c, n) \in [1 .. n -> Bit]
  BY BitsSeq
<1>4. [i \in 1 .. n |-> 1 - Bits(c, n)[i]] \in [1 .. n -> Bit]
  BY <1>3 DEF Bit
<1>5. Coded1(ls, s) = [i \in 1 .. n |-> 1 - Bits(c, n)[i]]
  BY <1>1, <1>2, Zenon DEF Coded1
<1>. QED  BY <1>4, <1>5

\* Sequences joined are a sequence of the same things.
LEMMA Flattened ==
    ASSUME NEW S, NEW ss \in Seq(Seq(S))
    PROVE  FlattenSeq(ss) \in Seq(S)
<1>1. CASE Len(ss) = 0
  <2>1. ss = <<>>
    BY <1>1
  <2>2. FlattenSeq(ss) = ss
    BY <1>1, Zenon DEF FlattenSeq
  <2>3. <<>> \in Seq(S)
    OBVIOUS
  <2>. QED  BY <2>1, <2>2, <2>3, Zenon
<1>2. CASE Len(ss) # 0
  <2>1. PICK n \in Nat \ {0} : n = Len(ss)
    BY <1>2
  <2> DEFINE e(f, i) == IF i = 1 THEN ss[i] ELSE f[i - 1] \o ss[i]
             Is(f) == f = [i \in 1 .. n |-> e(f, i)]
             V == Seq(S)
             g == [p \in V \X (1 .. n) |-> IF p[2] = 1 THEN ss[1] ELSE p[1] \o ss[p[2]]]
  <2>2. \A i \in 1 .. n : ss[i] \in V
    BY <2>1
  <2>3. g \in [V \X (1 .. n) -> V]
    <3>1. ASSUME NEW p \in V \X (1 .. n) PROVE (IF p[2] = 1 THEN ss[1] ELSE p[1] \o ss[p[2]]) \in V
      BY <2>2
    <3>. QED  BY <3>1
  <2> DEFINE z == <<>>
  <2>4. z \in V
    OBVIOUS
  <2> HIDE DEF z
  <2>5. PICK f \in [0 .. n -> V] : f[0] = z /\ \A k \in 1 .. n : f[k] = g[f[k - 1], k]
    <3> HIDE DEF g, V
    <3>1. n \in Nat
      BY <2>1
    <3>2. PICK f \in [0 .. n -> V] : H!Recurs(f, n, z, g)
      BY <2>3, <2>4, <3>1, Recursion
    <3>. QED  BY <3>2, Zenon DEF H!Recurs
  <2> DEFINE h == [i \in 1 .. n |-> f[i]]
  <2>6. \A i \in 1 .. n : h[i] = e(h, i)
    <3> TAKE i \in 1 .. n
    <3>1. f[i] = g[f[i - 1], i] /\ f[i - 1] \in V
      <4> HIDE DEF g, V
      <4>1. i - 1 \in 0 .. n
        OBVIOUS
      <4>. QED  BY <2>5, <4>1, Zenon
    <3>2. g[f[i - 1], i] = IF i = 1 THEN ss[1] ELSE f[i - 1] \o ss[i]
      <4> HIDE DEF V
      <4>. QED  BY <3>1
    <3>3. h[i] = IF i = 1 THEN ss[1] ELSE f[i - 1] \o ss[i]
      <4> HIDE DEF g
      <4>. QED  BY <3>1, <3>2
    <3>4. i # 1 => h[i - 1] = f[i - 1]
      OBVIOUS
    <3> HIDE DEF h
    <3>. QED  BY <3>3, <3>4
  <2>7. Is(h)
    BY <2>6, Zenon
  <2> DEFINE w == CHOOSE x : Is(x)
  <2>8. Is(w)
    BY <2>7, Zenon
  <2>9. FlattenSeq(ss) = w[n]
    BY <2>1, Zenon DEF FlattenSeq
  <2>10. \A i \in 1 .. n : w[i] = e(w, i)
    <3> HIDE DEF w
    <3>. QED  BY <2>8, Zenon
  <2> HIDE DEF w
  <2> DEFINE T == {i \in 0 .. n : i = 0 \/ w[i] \in V}
  <2>11. \A j \in 0 .. n - 1 : j \in T => j + 1 \in T
    <3> SUFFICES ASSUME NEW j \in 0 .. n - 1, j \in T PROVE j + 1 \in T
      OBVIOUS
    <3>1. w[j + 1] = e(w, j + 1) /\ ss[j + 1] \in V /\ j + 1 \in 0 .. n /\ (j + 1) - 1 = j
      BY <2>2, <2>10
    <3>2. CASE j = 0
      BY <3>1, <3>2
    <3>3. CASE j # 0
      <4>1. j + 1 # 1
        BY <3>3
      <4>2. w[j + 1] = w[j] \o ss[j + 1]
        BY <3>1, <4>1, Zenon
      <4>3. w[j] \in V /\ ss[j + 1] \in V
        BY <3>1, <3>3
      <4>4. \A a, b \in V : a \o b \in V
        OBVIOUS
      <4>5. w[j + 1] \in V
        <5> HIDE DEF V
        <5>. QED  BY <4>2, <4>3, <4>4, Zenon
      <4>. QED  BY <3>1, <4>5
    <3>. QED  BY <3>2, <3>3
  <2>12. 0 \in T
    OBVIOUS
  <2>13. n \in T
    <3> DEFINE U == T
    <3>1. n \in Nat /\ n \in 0 .. n
      BY <2>1
    <3>2. 0 \in U /\ \A j \in 0 .. n - 1 : j \in U => j + 1 \in U
      BY <2>11, <2>12
    <3> HIDE DEF U
    <3>3. \A i \in 0 .. n : i \in U
      BY <3>1, <3>2, Climb
    <3>4. n \in U
      BY <3>1, <3>3
    <3>. QED  BY <3>4 DEF U
  <2>. QED  BY <2>9, <2>13
<1>. QED  BY <1>1, <1>2

--------------------------------------------------------------------------------
(***************************************************************************)
(* The codes the compressor makes.                                         *)
(***************************************************************************)
LEMMA DepthsType ==
    ASSUME NEW D, IsFiniteSet(D), NEW freqs, DOMAIN freqs = D, NEW nodes
    PROVE  Depths(freqs, nodes) \in Codes(D)
<1> SUFFICES ASSUME NEW s \in D PROVE Depth(nodes, Cardinality(D), Nth(freqs, s)) \in Nat
  BY DEF Depths, Codes
<1>1. PICK n \in Nat : n = Cardinality(D)
  BY FS_CardinalityType
<1> DEFINE k == Nth(freqs, s)
<1>2. ASSUME NEW path PROVE 1 + Cardinality({j \in 1 .. 2 * n : path[j] # 2}) \in Nat
  <2> DEFINE S == {j \in 1 .. 2 * n : path[j] # 2}
  <2>1. S \subseteq 1 .. 2 * n /\ IsFiniteSet(1 .. 2 * n)
    BY FS_Interval
  <2> HIDE DEF S
  <2>2. Cardinality(S) \in Nat
    BY <2>1, FS_Subset, FS_CardinalityType
  <2>. QED  BY <2>2 DEF S
<1> HIDE DEF k
<1>3. Depth(nodes, n, k) \in Nat
  BY <1>2, Zenon DEF Depth
<1>. QED  BY <1>1, <1>3 DEF k

\* Lower caps of the frequencies are tried until the lengths fit; whatever the
\* trees were like, the result gives each symbol a length.
LEMMA LengthsType ==
    ASSUME NEW D, IsFiniteSet(D), NEW freqs, DOMAIN freqs = D, NEW m
    PROVE  compute_huffman_lengths(freqs, m) \in Codes(D)
<1> DEFINE coded == Cardinality(Coded(freqs))
           A == [1 .. 2 * Cardinality(DOMAIN freqs) -> Nat]
           linked == CHOOSE tree : tree = [t \in A \X (1 .. coded) |->
                         IF t[2] = 1 THEN t[1] ELSE tree[<<Merge(t[1], t[2]), t[2] - 1>>]]
           ls(cap) == Depths(freqs, linked[<<InitNodes(freqs, cap), coded>>])
           again(cap) == TooLong(ls(cap), m) /\ cap # 1
           e(f, cap) == IF again(cap) THEN f[cap \div 2] ELSE ls(cap)
           Is(f) == f = [cap \in 1 .. UINT16_MAX |-> e(f, cap)]
           w == CHOOSE try : Is(try)
<1>1. compute_huffman_lengths(freqs, m) = IF coded < 2 THEN FewLengths(freqs) ELSE w[UINT16_MAX]
  BY DEF compute_huffman_lengths
<1>2. FewLengths(freqs) \in Codes(D)
  BY DEF FewLengths, Codes
<1> HIDE DEF linked, coded
<1>3. \A cap : ls(cap) \in Codes(D)
  BY DepthsType, Zenon
<1>4. PICK n \in Nat \ {0} : n = UINT16_MAX
  BY Assumed
<1> HIDE DEF ls, again
<1> DEFINE Solves(f, k) == \A cap \in 1 .. k : f[cap] = e(f, cap)
           Some(k) == \E f \in [1 .. k -> Codes(D)] : Solves(f, k)
           T == {k \in 0 .. n : Some(k)}
<1>5. 0 \in T
  <2>1. [k \in 1 .. 0 |-> ls(k)] \in [1 .. 0 -> Codes(D)] /\ Solves([k \in 1 .. 0 |-> ls(k)], 0)
    OBVIOUS
  <2>2. \E f \in [1 .. 0 -> Codes(D)] : Solves(f, 0)
    <3> HIDE DEF Solves, ls
    <3>. QED  BY <2>1, Zenon
  <2> HIDE DEF Some
  <2>3. Some(0)
    BY <2>2, Zenon DEF Some
  <2>. QED  BY <2>3
<1>6. \A j \in 0 .. n - 1 : j \in T => j + 1 \in T
  <2> SUFFICES ASSUME NEW j \in 0 .. n - 1, j \in T PROVE j + 1 \in T
    OBVIOUS
  <2>1. PICK f \in [1 .. j -> Codes(D)] : Solves(f, j)
    OBVIOUS
  <2> DEFINE f1 == [cap \in 1 .. j + 1 |-> IF cap <= j THEN f[cap] ELSE e(f, cap)]
  <2>2. \A cap \in 1 .. j + 1 : cap # 1 => cap \div 2 \in 1 .. j
    OBVIOUS
  <2>3. \A cap \in 1 .. j + 1 : again(cap) => cap # 1
    BY DEF again
  <2>4. ASSUME NEW cap \in 1 .. j + 1 PROVE e(f, cap) \in Codes(D)
    BY <1>3, <2>2, <2>3
  <2>5. f1 \in [1 .. j + 1 -> Codes(D)]
    <3>1. \A cap \in 1 .. j + 1 : cap <= j => f[cap] \in Codes(D)
      OBVIOUS
    <3> HIDE DEF e
    <3>. QED  BY <2>4, <3>1
  <2>6. ASSUME NEW cap \in 1 .. j + 1 PROVE f1[cap] = e(f1, cap)
    <3>1. f1[cap] = e(f, cap)
      <4>1. cap <= j => f[cap] = e(f, cap)
        BY <2>1
      <4> HIDE DEF e
      <4>. QED  BY <4>1
    <3>2. again(cap) => f1[cap \div 2] = f[cap \div 2]
      <4>1. again(cap) => cap \div 2 \in 1 .. j
        BY <2>2, <2>3
      <4> HIDE DEF e
      <4>. QED  BY <4>1
    <3> HIDE DEF f1
    <3>. QED  BY <3>1, <3>2, Zenon
  <2>7. Solves(f1, j + 1) /\ j + 1 \in 0 .. n
    BY <2>6
  <2> HIDE DEF Solves, f1
  <2>. QED  BY <2>5, <2>7
<1>7. PICK f \in [1 .. n -> Codes(D)] : Solves(f, n)
  <2> DEFINE U == T
  <2>1. n \in Nat /\ n \in 0 .. n
    BY <1>4
  <2>2. 0 \in U /\ \A j \in 0 .. n - 1 : j \in U => j + 1 \in U
    BY <1>5, <1>6
  <2> HIDE DEF U
  <2>3. n \in U
    BY <2>1, <2>2, Climb
  <2> HIDE DEF Solves
  <2>. QED  BY <2>3 DEF U
<1>8. Is(f)
  <2>1. f = [cap \in 1 .. n |-> f[cap]]
    OBVIOUS
  <2>2. [cap \in 1 .. n |-> f[cap]] = [cap \in 1 .. n |-> e(f, cap)]
    BY <1>7, Zenon
  <2>. QED  BY <1>4, <2>1, <2>2, Zenon
<1>9. Is(w)
  BY <1>8, Zenon
<1> HIDE DEF w
<1>10. \A cap \in 1 .. n : w[cap] = e(w, cap)
  BY <1>4, <1>9, Zenon
<1> DEFINE Bad == {cap \in 1 .. n : w[cap] \notin Codes(D)}
<1>11. Bad = {}
  <2> SUFFICES ASSUME Bad # {} PROVE FALSE
    OBVIOUS
  <2>1. Bad \subseteq Nat
    OBVIOUS
  <2>2. PICK cap \in Bad : \A x \in Bad : cap <= x
    <3> HIDE DEF Bad
    <3>. QED  BY <2>1, LeastElement
  <2>3. cap \in 1 .. n /\ w[cap] \notin Codes(D) /\ w[cap] = e(w, cap)
    BY <1>10
  <2>4. again(cap)
    BY <1>3, <2>3, Zenon
  <2>5. cap # 1 /\ w[cap] = w[cap \div 2]
    BY <2>3, <2>4, Zenon DEF again
  <2>6. cap \div 2 \in 1 .. n /\ cap \div 2 < cap
    BY <2>3, <2>5
  <2>7. cap \div 2 \in Bad
    BY <2>3, <2>5, <2>6
  <2> HIDE DEF Bad
  <2>. QED  BY <2>2, <2>3, <2>6, <2>7
<1>12. w[UINT16_MAX] \in Codes(D)
  BY <1>4, <1>11
<1>. QED  BY <1>1, <1>2, <1>12, Zenon

LEMMA EncoderType ==
    ASSUME NEW D, IsFiniteSet(D), NEW freqs, DOMAIN freqs = D
    PROVE  init_encoder(freqs) \in Codes(D)
<1> DEFINE scale == UINT16_MAX \div (MapThenSumSet(LAMBDA s : freqs[s], DOMAIN freqs)
                                      + Cardinality({s \in DOMAIN freqs : freqs[s] = 0}))
           scaled == [s \in DOMAIN freqs |-> IF freqs[s] = 0 THEN 1 ELSE freqs[s] * scale]
<1>1. init_encoder(freqs) = compute_huffman_lengths(scaled, MAX_HUFFMAN_BITS)
  BY Zenon DEF init_encoder
<1> HIDE DEF scale
<1>2. DOMAIN scaled = D
  OBVIOUS
<1> HIDE DEF scaled
<1>. QED  BY <1>1, <1>2, LengthsType, Zenon

LEMMA Alphabets ==
    /\ IsFiniteSet(Byte) /\ IsFiniteSet(Sym)
  BY Constants, FS_Interval

--------------------------------------------------------------------------------
(***************************************************************************)
(* What is written are bits.                                               *)
(***************************************************************************)
LEMMA HuffmanCodeBits ==
    ASSUME NEW n \in Nat, NEW ls \in Codes(0 .. n - 1)
    PROVE  write_huffman_code(ls) \in Seq(Bit)
<1> DEFINE D == 0 .. n - 1
           starts == RunStarts(ls)
           run(i) == Min({j \in starts \cup {n} : j > i}) - i
           code(k) == IF k - 1 \in starts
                      THEN Bits(ls[k - 1] - 1, NIBBLE) \o Bits(run(k - 1) - 1, NIBBLE)
                      ELSE <<>>
           ss == [k \in 1 .. n |-> code(k)]
<1>1. DOMAIN ls = D /\ \A s \in D : ls[s] \in Nat
  BY DEF Codes
<1>2. IsFiniteSet(D) /\ Cardinality(DOMAIN ls) = n
  <2>1. IsFiniteSet(D) /\ Cardinality(D) = n
    BY FS_Interval
  <2>. QED  BY <1>1, <2>1
<1>3. starts \subseteq D /\ Cardinality(starts) \in Nat
  <2>1. starts \subseteq D
    BY <1>1 DEF RunStarts
  <2> HIDE DEF starts, D
  <2>. QED  BY <1>2, <2>1, FS_Subset, FS_CardinalityType
<1>4. Bits(Cardinality(starts) - 1, BYTE_BITS) \in Seq(Bit)
  <2>1. Cardinality(starts) - 1 \in Int
    BY <1>3
  <2>. QED  BY <2>1, Constants, BitsSeq
<1> HIDE DEF starts
<1>5. ASSUME NEW k \in 1 .. n PROVE code(k) \in Seq(Bit)
  <2>1. k - 1 \in D /\ ls[k - 1] - 1 \in Int
    BY <1>1
  <2> DEFINE S == {j \in starts \cup {n} : j > k - 1}
  <2>2. S \subseteq Nat /\ n \in S
    <3>1. starts \cup {n} \subseteq Nat
      BY <1>3
    <3>2. n > k - 1 /\ n \in starts \cup {n}
      OBVIOUS
    <3>. QED  BY <3>1, <3>2, Zenon
  <2>3. PICK m \in S : \A j \in S : m <= j
    <3> HIDE DEF S
    <3>. QED  BY <2>2, LeastElement
  <2>4. Min(S) \in S
    <3> HIDE DEF S
    <3>. QED  BY <2>3, Zenon DEF Min
  <2>5. run(k - 1) - 1 \in Int
    <3>1. Min(S) \in Nat
      BY <2>2, <2>4
    <3> HIDE DEF S
    <3>2. Min(S) - (k - 1) - 1 \in Int
      BY <3>1
    <3>. QED  BY <3>2 DEF S
  <2>6. PICK a, b \in Int : a = ls[k - 1] - 1 /\ b = run(k - 1) - 1
    <3> HIDE DEF run
    <3>. QED  BY <2>1, <2>5
  <2>7. Bits(a, NIBBLE) \in Seq(Bit) /\ Bits(b, NIBBLE) \in Seq(Bit)
    BY Constants, BitsSeq
  <2>8. Bits(a, NIBBLE) \o Bits(b, NIBBLE) \in Seq(Bit)
    BY <2>7
  <2>9. code(k) = IF k - 1 \in starts THEN Bits(a, NIBBLE) \o Bits(b, NIBBLE) ELSE <<>>
    BY <2>6, Zenon
  <2>10. <<>> \in Seq(Bit)
    OBVIOUS
  <2> HIDE DEF code
  <2>. QED  BY <2>8, <2>9, <2>10, Zenon
<1> HIDE DEF code
<1>6. ss \in Seq(Seq(Bit))
  BY <1>5
<1>7. FlattenSeq(ss) \in Seq(Bit)
  BY <1>6, Flattened
<1>8. write_huffman_code(ls) = Bits(Cardinality(starts) - 1, BYTE_BITS) \o FlattenSeq(ss)
  BY <1>2, Zenon DEF write_huffman_code, starts, code
<1> HIDE DEF ss
<1>. QED  BY <1>4, <1>7, <1>8

LEMMA DivBelow ==
    ASSUME NEW a \in Nat, NEW d \in Nat \ {0}, NEW q \in Nat, a < d * q
    PROVE  a \div d \in 0 .. q - 1
<1> DEFINE t == a \div d
<1>1. t \in Nat /\ a >= d * t
  <2>1. a \div d \in Nat /\ a % d \in 0 .. d - 1 /\ a = d * (a \div d) + (a % d)
    BY DivMod
  <2> DEFINE p == d * (a \div d)
             r == a % d
  <2>2. p \in Nat
    BY <2>1
  <2> HIDE DEF p, r
  <2>3. a = p + r /\ r \in Nat
    BY <2>1 DEF p, r
  <2>4. a >= p
    BY <2>2, <2>3
  <2>. QED  BY <2>1, <2>4 DEF p
<1> HIDE DEF t
<1>2. ~(t >= q)
  <2> SUFFICES ASSUME t >= q PROVE FALSE
    OBVIOUS
  <2>1. PICK u \in Nat : t = q + u
    BY <1>1
  <2>2. d * t = d * q + d * u /\ d * u \in Nat /\ d * q \in Nat
    BY <2>1
  <2>. QED  BY <1>1, <2>2
<1>3. t \in 0 .. q - 1
  BY <1>1, <1>2
<1>. QED  BY <1>3 DEF t

\* Tokens as the matcher gives them.
IsToken(t) ==
    IF t.dist = 0 THEN t.len \in Byte
    ELSE t.dist \in 1 .. max_dist /\ t.len \in Nat /\ t.len >= MIN_LEN

\* Codes that have the symbols of such tokens.
Fits(c) ==
    /\ lit_tree => c.lit \in Codes(Byte)
    /\ c.len \in Codes(Sym) /\ c.dist \in Codes(Sym)

LEMMA WindowBits ==
    /\ LowBits \in Nat /\ max_dist = 2 ^ LowBits * 2 ^ SYM_BITS
    /\ \A flag : MinLen(flag) \in {2, 3}
    /\ min_len \in {2, 3} /\ MIN_LEN \in Nat /\ MIN_LEN >= 3
<1>1. LowBits \in Nat
  BY ImplodeAssumption DEF LowBits
<1>2. 2 ^ (SYM_BITS + LowBits) = 2 ^ SYM_BITS * 2 ^ LowBits
  BY <1>1, Constants, Assumed, H!PowerSum
<1>3. 2 ^ SYM_BITS \in Nat /\ 2 ^ LowBits \in Nat
  BY <1>1, Constants, Power
<1>4. \A flag : MinLen(flag) \in {2, 3}
  BY DEF MinLen
<1>5. MIN_LEN \in Nat /\ MIN_LEN >= 3
  BY ImplodeAssumption, MinLenAssumption
<1>6. min_len \in {2, 3}
  BY <1>4 DEF min_len
<1>. QED  BY <1>1, <1>2, <1>3, <1>4, <1>5, <1>6 DEF max_dist

LEMMA SymsOfToken ==
    ASSUME NEW t, IsToken(t), t.dist # 0
    PROVE  /\ dist_sym(t.dist) \in Sym /\ len_sym(t.len) \in Sym
           /\ t.dist - 1 \in Int /\ t.len - LAST - min_len \in Int
<1>1. PICK d \in Nat \ {0} : d = 2 ^ LowBits
  BY WindowBits, Power
<1>2. PICK q \in Nat \ {0} : q = 2 ^ SYM_BITS
  BY Constants
<1>3. t.dist \in 1 .. d * q /\ t.len \in Nat /\ t.len >= 3
  <2>1. t.dist \in 1 .. max_dist /\ t.len \in Nat /\ t.len >= MIN_LEN
    BY DEF IsToken
  <2>. QED  BY <1>1, <1>2, <2>1, WindowBits
<1>4. t.dist - 1 \in Nat /\ t.dist - 1 < d * q
  BY <1>3
<1>5. dist_sym(t.dist) \in Sym
  <2>1. (t.dist - 1) \div d \in 0 .. q - 1
    BY <1>4, DivBelow
  <2>. QED  BY <1>1, <1>2, <2>1 DEF dist_sym, Sym
<1>6. len_sym(t.len) \in Sym
  BY <1>3, Constants, WindowBits DEF len_sym, AtMost
<1>. QED  BY <1>3, <1>4, <1>5, <1>6, Constants, WindowBits

LEMMA TokenSeq ==
    ASSUME NEW c, Fits(c), NEW t, IsToken(t)
    PROVE  TokenBits(c, t) \in Seq(Bit)
<1> DEFINE S == Seq(Bit)
<1>0. /\ \A a, b \in S : a \o b \in S
      /\ <<0>> \in S /\ <<1>> \in S /\ <<>> \in S
  BY DEF Bit
<1>1. CASE t.dist = 0
  <2>1. t.len \in Byte /\ t.len \in Int
    BY <1>1, Constants DEF IsToken
  <2>2. Bits(t.len, BYTE_BITS) \in S
    BY <2>1, Constants, BitsSeq
  <2>3. lit_tree => Coded1(c.lit, t.len) \in S
    BY <2>1, Alphabets, CodedSeq DEF Fits
  <2> HIDE DEF S
  <2>4. write_lit(c, t.len) \in S
    BY <1>0, <2>2, <2>3, Zenon DEF write_lit
  <2>. QED  BY <1>1, <2>4, Zenon DEF TokenBits, S
<1>2. CASE t.dist # 0
  <2>1. Bits(t.dist - 1, LowBits) \in S /\ Bits(t.len - LAST - min_len, BYTE_BITS) \in S
    BY <1>2, SymsOfToken, WindowBits, Constants, BitsSeq
  <2>2. Coded1(c.dist, dist_sym(t.dist)) \in S /\ Coded1(c.len, len_sym(t.len)) \in S
    BY <1>2, SymsOfToken, Alphabets, CodedSeq DEF Fits
  <2> DEFINE extra == IF len_sym(t.len) = LAST THEN Bits(t.len - LAST - min_len, BYTE_BITS) ELSE <<>>
  <2> HIDE DEF S
  <2>3. extra \in S
    BY <1>0, <2>1, Zenon
  <2>4. write_backref(c, t.dist, t.len) =
          <<0>> \o Bits(t.dist - 1, LowBits) \o Coded1(c.dist, dist_sym(t.dist))
                \o Coded1(c.len, len_sym(t.len)) \o extra
    BY Zenon DEF write_backref
  <2> HIDE DEF extra
  <2>5. write_backref(c, t.dist, t.len) \in S
    <3>1. <<0>> \o Bits(t.dist - 1, LowBits) \in S
      BY <1>0, <2>1
    <3>2. <<0>> \o Bits(t.dist - 1, LowBits) \o Coded1(c.dist, dist_sym(t.dist)) \in S
      BY <1>0, <2>2, <3>1
    <3>3. <<0>> \o Bits(t.dist - 1, LowBits) \o Coded1(c.dist, dist_sym(t.dist)) \o Coded1(c.len, len_sym(t.len)) \in S
      BY <1>0, <2>2, <3>2
    <3>. QED  BY <1>0, <2>3, <2>4, <3>3
  <2>. QED  BY <1>2, <2>5, Zenon DEF TokenBits, S
<1>. QED  BY <1>1, <1>2

LEMMA EncodersFit == ASSUME NEW tk PROVE Fits(Encoders(tk))
<1>1. \A D, syms : DOMAIN Freqs(D, syms) = D
  BY DEF Freqs
<1>2. \A syms : init_encoder(Freqs(Byte, syms)) \in Codes(Byte) /\ init_encoder(Freqs(Sym, syms)) \in Codes(Sym)
  BY <1>1, Alphabets, EncoderType, Zenon
<1> DEFINE lits == SelectSeq(tk, LAMBDA t : t.dist = 0)
           refs == SelectSeq(tk, LAMBDA t : t.dist # 0)
           a == [i \in DOMAIN lits |-> lits[i].len]
           b == [i \in DOMAIN refs |-> len_sym(refs[i].len)]
           d == [i \in DOMAIN refs |-> dist_sym(refs[i].dist)]
<1>3. Encoders(tk) = [lit |-> IF lit_tree THEN init_encoder(Freqs(Byte, a)) ELSE <<>>,
                      len |-> init_encoder(Freqs(Sym, b)), dist |-> init_encoder(Freqs(Sym, d))]
  BY DEF Encoders
<1> HIDE DEF a, b, d
<1>. QED  BY <1>2, <1>3 DEF Fits

\* Everything a flush writes.
FlushBits(c, tk) ==
    (IF lit_tree THEN write_huffman_code(c.lit) ELSE <<>>)
      \o write_huffman_code(c.len) \o write_huffman_code(c.dist)
      \o FlattenSeq([i \in 1 .. Len(tk) |-> TokenBits(c, tk[i])])

LEMMA FlushSeq ==
    ASSUME NEW c, Fits(c), NEW tk, Len(tk) \in Nat, \A i \in 1 .. Len(tk) : IsToken(tk[i])
    PROVE  FlushBits(c, tk) \in Seq(Bit)
<1> DEFINE S == Seq(Bit)
           f == FlattenSeq([i \in 1 .. Len(tk) |-> TokenBits(c, tk[i])])
<1>0. (\A a, b \in S : a \o b \in S) /\ <<>> \in S
  BY DEF Bit
<1>1. write_huffman_code(c.len) \in S /\ write_huffman_code(c.dist) \in S
      /\ (lit_tree => write_huffman_code(c.lit) \in S)
  BY Constants, HuffmanCodeBits DEF Fits, Byte, Sym
<1>2. f \in S
  <2>1. \A i \in 1 .. Len(tk) : TokenBits(c, tk[i]) \in S
    BY TokenSeq
  <2>2. [i \in 1 .. Len(tk) |-> TokenBits(c, tk[i])] \in Seq(S)
    <3> HIDE DEF S
    <3>. QED  BY <2>1
  <2>. QED  BY <2>2, Flattened
<1>3. FlushBits(c, tk) = (IF lit_tree THEN write_huffman_code(c.lit) ELSE <<>>)
                           \o write_huffman_code(c.len) \o write_huffman_code(c.dist) \o f
  BY Zenon DEF FlushBits
<1> HIDE DEF S, f
<1>4. FlushBits(c, tk) \in S
  <2> DEFINE a == IF lit_tree THEN write_huffman_code(c.lit) ELSE <<>>
  <2>1. a \in S
    BY <1>0, <1>1
  <2> HIDE DEF a
  <2>2. a \o write_huffman_code(c.len) \in S
    BY <1>0, <1>1, <2>1
  <2>3. a \o write_huffman_code(c.len) \o write_huffman_code(c.dist) \in S
    BY <1>0, <1>1, <2>2
  <2>. QED  BY <1>0, <1>2, <1>3, <2>3 DEF a
<1>. QED  BY <1>4 DEF S

--------------------------------------------------------------------------------
(***************************************************************************)
(* The invariant: what the stream and the tokens are made of, that the     *)
(* codes have every symbol once the buffer was written, and that the codes *)
(* read so far are full, of the right sizes and as many as the phase says. *)
(***************************************************************************)
Stream == [bits : Seq(Bit), cap : Caps, ok : BOOLEAN]
Tokens == {t \in [dist : Nat, len : Nat] : IsToken(t)}

NumCodes == IF lit_tree THEN 3 ELSE 2
NumSyms(k) == IF lit_tree /\ k = 1 THEN 2 ^ BYTE_BITS ELSE 2 ^ SYM_BITS

ModeOK ==
    /\ large_wnd \in BOOLEAN /\ lit_tree \in BOOLEAN /\ old_pkzip \in BOOLEAN
    /\ src \in Seq(Byte)

WritingOK ==
    /\ pos \in 0 .. Len(src)
    /\ buffer \in Seq(Tokens) /\ Len(buffer) <= BUFFER_CAP /\ buffer_flushed \in BOOLEAN
    /\ ~buffer_flushed => Len(buffer) < BUFFER_CAP
    /\ buffer_flushed => Fits(codes)

StreamOK == os \in Stream /\ intact \in BOOLEAN

OutputOK ==
    /\ pk101_bug_compat \in BOOLEAN /\ rpos \in 0 .. Len(os.bits)
    /\ dst \in Seq(Byte) /\ Len(dst) <= Len(src)

LensOK ==
    /\ Len(lens) \in 0 .. NumCodes /\ DOMAIN lens = 1 .. Len(lens)
    /\ \A k \in 1 .. Len(lens) : lens[k] \in [0 .. NumSyms(k) - 1 -> Width] /\ TreeFull(lens[k])

PhaseOK ==
    /\ phase \in {"compress", "gave_up", "codes", "tokens", "ok", "error"}
    /\ phase = "compress" => rpos = 0 /\ lens = <<>> /\ dst = <<>>
    /\ phase = "codes" => Len(lens) < NumCodes
    /\ phase = "tokens" => Len(lens) = NumCodes

IInv == ModeOK /\ WritingOK /\ StreamOK /\ OutputOK /\ LensOK /\ PhaseOK

LEMMA PutType ==
    ASSUME NEW s \in Stream, NEW b \in Seq(Bit)
    PROVE  Put(s, b) \in Stream
<1>1. s.bits \in Seq(Bit) /\ s.ok \in BOOLEAN
  BY DEF Stream
<1>2. s.bits \o b \in Seq(Bit)
  BY <1>1
<1>3. [s EXCEPT !.bits = s.bits \o b] \in Stream
  <2> DEFINE x == s.bits \o b
  <2> HIDE DEF x
  <2>1. x \in Seq(Bit) => [s EXCEPT !.bits = x] \in Stream
    BY DEF Stream
  <2>. QED  BY <1>2, <2>1 DEF x
<1>4. [s EXCEPT !.ok = FALSE] \in Stream
  BY DEF Stream
<1>. QED  BY <1>3, <1>4, Zenon DEF Put

LEMMA PaddedType ==
    ASSUME NEW b \in Seq(Bit) PROVE Padded(b, BYTE_BITS) \in Seq(Bit)
<1>1. BYTE_BITS \in Nat \ {0}
  <2>1. 2 ^ 0 = 1
    OBVIOUS
  <2>2. NIBBLE # 0
    <3> SUFFICES ASSUME NIBBLE = 0 PROVE FALSE
      OBVIOUS
    <3>1. 2 ^ NIBBLE = 1
      BY <2>1, Zenon
    <3>2. 2 ^ NIBBLE = MAX_HUFFMAN_BITS
      BY Constants
    <3>. QED  BY <3>1, <3>2, Assumed
  <2>. QED  BY <2>2, Constants
<1>2. PICK m \in Nat \ {0}, n \in Nat : m = BYTE_BITS /\ n = Len(b)
  BY <1>1
<1>3. round_up(n, m) - n \in Nat
  <2> DEFINE a == n + m - 1
             q == m * (a \div m)
             r == a % m
  <2>1. a \in Nat /\ a \div m \in Nat
    BY DivMod
  <2>2. a = q + r /\ r \in 0 .. m - 1
    <3> HIDE DEF a
    <3>. QED  BY <2>1, DivMod
  <2>3. q \in Nat
    <3> HIDE DEF a
    <3>. QED  BY <2>1
  <2>4. round_up(n, m) = q
    BY Zenon DEF round_up
  <2> HIDE DEF q, r
  <2>. QED  BY <2>2, <2>3, <2>4
<1>4. Bits(0, round_up(n, m) - n) \in Seq(Bit)
  BY <1>3, BitsSeq
<1>. QED  BY <1>2, <1>4 DEF Padded

LEMMA DamagedType ==
    ASSUME NEW b \in Seq(Bit), NEW d \in Damaged(b) PROVE d \in Seq(Bit)
<1>1. CASE d \in {[b EXCEPT ![i] = 1 - @] : i \in 1 .. Len(b)}
  <2>1. PICK i \in 1 .. Len(b) : d = [b EXCEPT ![i] = 1 - b[i]]
    BY <1>1
  <2>2. 1 - b[i] \in Bit
    BY DEF Bit
  <2>. QED  BY <2>1, <2>2
<1>2. CASE d \in {SubSeq(b, 1, n) : n \in 0 .. Len(b) - 1}
  BY <1>2
<1>. QED  BY <1>1, <1>2 DEF Damaged

\* The lengths that are read are at least one and fit.
LEMMA RunLengthsType ==
    ASSUME os \in Stream, rpos \in Nat
    PROVE  NumRuns \in Nat /\ RunLengths \in Seq(Width)
<1> DEFINE read(at) == istream_bits(os.bits, at, NIBBLE) + 1
           run(k) == [j \in 1 .. read(rpos + k * BYTE_BITS + NIBBLE) |-> read(rpos + k * BYTE_BITS)]
           ss == [k \in 1 .. NumRuns |-> run(k)]
<1>0. os.bits \in Seq(Bit)
  BY DEF Stream
<1>1. NumRuns \in Nat
  <2>1. BYTE_BITS \in Nat
    BY Constants
  <2>2. istream_bits(os.bits, rpos, BYTE_BITS) \in Nat
    BY <1>0, <2>1, ReadBound
  <2>. QED  BY <2>2 DEF NumRuns
<1>2. ASSUME NEW at \in Nat PROVE read(at) \in Width
  <2>1. istream_bits(os.bits, at, NIBBLE) \in 0 .. 2 ^ NIBBLE - 1
    BY <1>0, Constants, ReadBound
  <2>. QED  BY <2>1, Constants, Assumed DEF Width
<1> HIDE DEF read
<1>3. ASSUME NEW k \in 1 .. NumRuns PROVE run(k) \in Seq(Width)
  <2>1. PICK p \in Nat : p = k * BYTE_BITS
    BY <1>1, Constants
  <2>2. PICK x, n \in Width : x = read(rpos + p) /\ n = read(rpos + p + NIBBLE)
    <3>1. rpos + p \in Nat /\ rpos + p + NIBBLE \in Nat
      BY Constants
    <3>. QED  BY <1>2, <3>1
  <2>3. n \in Nat
    BY <2>2, Assumed DEF Width
  <2>4. [j \in 1 .. n |-> x] \in Seq(Width)
    BY <2>3
  <2>. QED  BY <2>1, <2>2, <2>4
<1> HIDE DEF run
<1>4. ss \in Seq(Seq(Width))
  BY <1>1, <1>3
<1> HIDE DEF ss
<1>5. FlattenSeq(ss) \in Seq(Width)
  BY <1>4, Flattened
<1>6. RunLengths = FlattenSeq(ss)
  BY Zenon DEF RunLengths, ss, run, read
<1>. QED  BY <1>1, <1>5, <1>6

\* What is decoded with a full code is one of its symbols.
LEMMA DecodeType ==
    ASSUME os \in Stream, rpos \in Nat, NEW after \in Nat,
           NEW n \in Nat, NEW ls \in [0 .. n - 1 -> Width], TreeFull(ls)
    PROVE  Decode(ls, after).sym \in 0 .. n - 1 /\ Decode(ls, after).used \in Width
<1> DEFINE w == istream_bits(os.bits, rpos + after, MAX_HUFFMAN_BITS)
           bs == 2 ^ MAX_HUFFMAN_BITS - 1 - w
<1>1. w \in 0 .. 2 ^ MAX_HUFFMAN_BITS - 1 /\ w \in Nat
  <2>1. os.bits \in Seq(Bit) /\ rpos + after \in Nat /\ MAX_HUFFMAN_BITS \in Nat
    BY Assumed DEF Stream
  <2>. QED  BY <2>1, ReadBound
<1>2. bs \in 0 .. 2 ^ MAX_HUFFMAN_BITS - 1
  <2>1. PICK r \in Nat : r = 2 ^ MAX_HUFFMAN_BITS
    BY Assumed, Power
  <2> HIDE DEF w
  <2>. QED  BY <1>1, <2>1
<1>3. Decode(ls, after) = huffman_decode(ls, bs)
  BY Zenon DEF Decode
<1> HIDE DEF bs
<1>. QED  BY <1>2, <1>3, FullDecodes, Zenon

LEMMA CopiedType ==
    ASSUME NEW d \in Seq(Byte), NEW dist \in Nat \ {0}, NEW len \in Nat
    PROVE  /\ output_backref(d, dist, len) \in Seq(Byte)
           /\ Len(output_backref(d, dist, len)) = Len(d) + len
<1> DEFINE at(k) == Len(d) - dist + ((k - 1) % dist) + 1
           c == [k \in 1 .. len |-> IF at(k) < 1 THEN 0 ELSE d[at(k)]]
<1>1. ASSUME NEW k \in 1 .. len PROVE (IF at(k) < 1 THEN 0 ELSE d[at(k)]) \in Byte
  <2>1. k - 1 \in Nat
    OBVIOUS
  <2>2. PICK r \in 0 .. dist - 1 : r = (k - 1) % dist
    BY <2>1, DivMod
  <2>3. at(k) \in Int /\ at(k) <= Len(d)
    BY <2>2
  <2> HIDE DEF at
  <2>4. 0 \in Byte
    BY Constants
  <2>5. at(k) >= 1 => d[at(k)] \in Byte
    BY <2>3
  <2>. QED  BY <2>3, <2>4, <2>5
<1> HIDE DEF at
<1>2. c \in Seq(Byte) /\ Len(c) = len
  BY <1>1
<1>3. output_backref(d, dist, len) = d \o c
  BY Zenon DEF output_backref, at
<1> HIDE DEF c
<1>4. d \o c \in Seq(Byte) /\ Len(d \o c) = Len(d) + Len(c)
  BY <1>2
<1>. QED  BY <1>2, <1>3, <1>4

--------------------------------------------------------------------------------
(***************************************************************************)
(* Every step preserves it.                                                *)
(***************************************************************************)
LEMMA InitInv == Init => IInv
<1> SUFFICES ASSUME Init PROVE IInv
  OBVIOUS
<1>1. ModeOK
  BY ImplodeAssumption DEF Init, ModeOK, Byte
<1>2. WritingOK
  <2>1. Len(src) \in Nat
    BY <1>1 DEF ModeOK
  <2>2. buffer = <<>> /\ buffer_flushed = FALSE /\ pos = 0
    BY DEF Init
  <2>3. buffer \in Seq(Tokens) /\ Len(buffer) = 0
    BY <2>2
  <2>4. pos \in 0 .. Len(src)
    BY <2>1, <2>2
  <2>5. Len(buffer) < BUFFER_CAP /\ Len(buffer) <= BUFFER_CAP
    BY <2>3, Constants
  <2>6. buffer_flushed \in BOOLEAN /\ (buffer_flushed => Fits(codes))
    BY <2>2
  <2>. QED  BY <2>3, <2>4, <2>5, <2>6, Zenon DEF WritingOK
<1>3. StreamOK
  <2>1. PICK cap \in Caps : os = [bits |-> <<>>, cap |-> cap, ok |-> TRUE]
    BY DEF Init, ostream
  <2>2. <<>> \in Seq(Bit)
    OBVIOUS
  <2>3. os \in Stream
    BY <2>1, <2>2 DEF Stream
  <2>. QED  BY <2>3 DEF Init, StreamOK
<1>4. OutputOK
  <2>1. Len(src) \in Nat
    BY <1>1 DEF ModeOK
  <2>2. os.bits = <<>>
    BY DEF Init, ostream
  <2>3. dst = <<>> /\ rpos = 0 /\ pk101_bug_compat = FALSE
    BY DEF Init
  <2>4. Len(os.bits) = 0 /\ dst \in Seq(Byte) /\ Len(dst) = 0
    BY <2>2, <2>3
  <2>5. rpos \in 0 .. Len(os.bits) /\ Len(dst) <= Len(src)
    <3> HIDE DEF OutputOK
    <3>1. 0 \in 0 .. 0 /\ 0 <= Len(src)
      BY <2>1
    <3>. QED  BY <2>3, <2>4, <3>1
  <2>. QED  BY <2>3, <2>4, <2>5, Zenon DEF OutputOK
<1>5. LensOK
  BY DEF Init, LensOK, NumCodes
<1>6. PhaseOK
  BY DEF Init, PhaseOK
<1>. QED  BY <1>1, <1>2, <1>3, <1>4, <1>5, <1>6 DEF IInv

LEMMA ModeKept ==
    ASSUME ModeOK, UNCHANGED mode
    PROVE  /\ ModeOK' /\ src' = src /\ lit_tree' = lit_tree
           /\ Tokens' = Tokens /\ NumCodes' = NumCodes
           /\ \A k : NumSyms(k)' = NumSyms(k)
           /\ \A c : Fits(c)' <=> Fits(c)
<1>1. large_wnd' = large_wnd /\ lit_tree' = lit_tree /\ old_pkzip' = old_pkzip /\ src' = src
  BY DEF mode
<1>2. ModeOK' /\ NumCodes' = NumCodes /\ (\A k : NumSyms(k)' = NumSyms(k)) /\ (\A c : Fits(c)' <=> Fits(c))
  BY <1>1 DEF ModeOK, NumCodes, NumSyms, Fits
<1>3. max_dist' = max_dist
  BY <1>1 DEF max_dist, LowBits
<1>4. Tokens' = Tokens
  BY <1>3 DEF Tokens, IsToken
<1>. QED  BY <1>1, <1>2, <1>4

LEMMA ReadingKept ==
    ASSUME IInv, UNCHANGED mode, UNCHANGED reading, phase = "compress", phase' \in {"compress", "gave_up"},
           os' \in Stream
    PROVE  OutputOK' /\ LensOK' /\ PhaseOK'
<1>1. UNCHANGED <<pk101_bug_compat, rpos, lens, dst>>
  BY DEF reading
<1>2. rpos = 0 /\ lens = <<>> /\ dst = <<>>
  BY DEF IInv, PhaseOK
<1>3. src' = src /\ NumCodes' = NumCodes /\ (\A k : NumSyms(k)' = NumSyms(k)) /\ Len(src) \in Nat
  BY ModeKept DEF IInv, ModeOK
<1>4. OutputOK'
  <2>1. Len(os'.bits) \in Nat
    BY DEF Stream
  <2>. QED  BY <1>1, <1>2, <1>3, <2>1 DEF IInv, OutputOK
<1>5. LensOK'
  <2>1. NumCodes \in Nat
    BY DEF NumCodes
  <2>2. Len(lens') = 0 /\ DOMAIN lens' = 1 .. 0
    BY <1>1, <1>2
  <2>. QED  BY <1>3, <2>1, <2>2 DEF LensOK
<1>6. PhaseOK'
  BY <1>1, <1>2 DEF PhaseOK
<1>. QED  BY <1>4, <1>5, <1>6

LEMMA EmitType ==
    ASSUME IInv, phase = "compress", NEW b \in Seq(Bit), Emit(b)
    PROVE  os' \in Stream /\ phase' \in {"compress", "gave_up"}
<1>1. os' = Put(os, b) /\ phase' \in {phase, "gave_up"}
  BY DEF Emit
<1>. QED  BY <1>1, PutType DEF IInv, StreamOK

LEMMA FlushType ==
    ASSUME IInv, phase = "compress", NEW tk \in Seq(Tokens), flush_buffer(tk)
    PROVE  /\ os' \in Stream /\ phase' \in {"compress", "gave_up"}
           /\ buffer_flushed' = TRUE /\ Fits(codes')
<1>1. buffer_flushed' = TRUE /\ codes' = Encoders(tk) /\ Emit(FlushBits(codes', tk))
  BY Zenon DEF flush_buffer, FlushBits
<1>2. PICK c : c = codes'
  OBVIOUS
<1>3. Fits(c)
  BY <1>1, <1>2, EncodersFit
<1>4. Len(tk) \in Nat /\ \A i \in 1 .. Len(tk) : IsToken(tk[i])
  <2>1. \A i \in 1 .. Len(tk) : tk[i] \in Tokens
    OBVIOUS
  <2>. QED  BY <2>1 DEF Tokens
<1>5. FlushBits(c, tk) \in Seq(Bit)
  BY <1>3, <1>4, FlushSeq
<1>6. PICK b \in Seq(Bit) : b = FlushBits(c, tk)
  BY <1>5
<1>7. Emit(b)
  BY <1>1, <1>2, <1>6 DEF Emit
<1>8. os' \in Stream /\ phase' \in {"compress", "gave_up"}
  BY <1>7, EmitType
<1>. QED  BY <1>1, <1>2, <1>3, <1>8

LEMMA TokenInv ==
    ASSUME IInv, NEW t \in Tokens, NEW n \in Nat, pos + n <= Len(src), Token(t, n)
    PROVE  IInv'
<1>0. /\ phase = "compress" /\ UNCHANGED mode /\ intact' = intact /\ UNCHANGED reading
      /\ pos' = IF phase' = "gave_up" THEN pos ELSE pos + n
  BY DEF Token
<1>1. /\ buffer \in Seq(Tokens) /\ Len(buffer) <= BUFFER_CAP /\ buffer_flushed \in BOOLEAN
      /\ (~buffer_flushed => Len(buffer) < BUFFER_CAP) /\ (buffer_flushed => Fits(codes))
      /\ pos \in 0 .. Len(src)
  BY DEF IInv, WritingOK
<1>2. /\ ModeOK' /\ src' = src /\ Tokens' = Tokens /\ \A c : Fits(c)' <=> Fits(c)
  BY <1>0, ModeKept DEF IInv

<1>3. /\ os' \in Stream /\ phase' \in {"compress", "gave_up"}
      /\ buffer' \in Seq(Tokens) /\ Len(buffer') <= BUFFER_CAP /\ buffer_flushed' \in BOOLEAN
      /\ (~buffer_flushed' => Len(buffer') < BUFFER_CAP) /\ (buffer_flushed' => Fits(codes'))
  <2>1. CASE buffer_flushed
    <3>1. PICK b \in Seq(Bit) : b = TokenBits(codes, t)
      BY <1>1, <2>1, TokenSeq DEF Tokens
    <3>2. Emit(b) /\ UNCHANGED <<buffer, buffer_flushed, codes>>
      BY <2>1, <3>1 DEF Token
    <3>3. os' \in Stream /\ phase' \in {"compress", "gave_up"}
      BY <1>0, <3>2, EmitType
    <3>. QED  BY <1>1, <2>1, <3>2, <3>3
  <2>2. CASE ~buffer_flushed
    <3>1. PICK tk : tk = buffer'
      OBVIOUS
    <3>2. tk = Append(buffer, t)
      BY <2>2, <3>1 DEF Token
    <3>3. tk \in Seq(Tokens) /\ Len(tk) = Len(buffer) + 1 /\ Len(buffer) \in Nat
      BY <1>1, <3>2
    <3>4. CASE Len(tk) = BUFFER_CAP
      <4>1. flush_buffer(tk)
        BY <2>2, <3>1, <3>4 DEF Token, flush_buffer, Emit
      <4>2. /\ os' \in Stream /\ phase' \in {"compress", "gave_up"}
            /\ buffer_flushed' = TRUE /\ Fits(codes')
        BY <1>0, <3>3, <4>1, FlushType
      <4>. QED  BY <3>1, <3>3, <3>4, <4>2, Constants
    <3>5. CASE Len(tk) # BUFFER_CAP
      <4>1. UNCHANGED <<phase, os, buffer_flushed, codes>>
        BY <2>2, <3>1, <3>5 DEF Token
      <4>. QED  BY <1>0, <1>1, <2>2, <3>1, <3>3, <3>5, <4>1, Constants DEF IInv, StreamOK
    <3>. QED  BY <3>4, <3>5
  <2>. QED  BY <2>1, <2>2
<1>4. WritingOK'
  <2>1. pos' \in 0 .. Len(src)
    BY <1>0, <1>1
  <2>2. buffer_flushed' => Fits(codes)'
    BY <1>2, <1>3 DEF Fits
  <2>. QED  BY <1>2, <1>3, <2>1, <2>2 DEF WritingOK
<1>5. StreamOK'
  BY <1>0, <1>3 DEF IInv, StreamOK
<1>6. OutputOK' /\ LensOK' /\ PhaseOK'
  BY <1>0, <1>3, ReadingKept
<1>. QED  BY <1>2, <1>4, <1>5, <1>6 DEF IInv

LEMMA lit_callbackInv == IInv /\ lit_callback => IInv'
<1> SUFFICES ASSUME IInv, lit_callback PROVE IInv'
  OBVIOUS
<1>1. pos \in 0 .. Len(src) /\ src \in Seq(Byte) /\ Len(src) \in Nat
  BY DEF IInv, WritingOK, ModeOK
<1>2. PICK t : t = [dist |-> 0, len |-> src[pos + 1]]
  OBVIOUS
<1>3. pos + 1 <= Len(src) /\ Token(t, 1)
  <2>1. pos < Len(src)
    BY DEF lit_callback
  <2>. QED  BY <1>1, <1>2, <2>1 DEF lit_callback
<1>4. t \in Tokens
  <2>1. src[pos + 1] \in Byte /\ src[pos + 1] \in Nat
    BY <1>1, <1>3, Constants
  <2>. QED  BY <1>2, <2>1 DEF Tokens, IsToken
<1>. QED  BY <1>3, <1>4, TokenInv

LEMMA backref_callbackInv == IInv /\ backref_callback => IInv'
<1> SUFFICES ASSUME IInv, backref_callback PROVE IInv'
  OBVIOUS
<1>1. PICK r \in Backrefs(src, pos, max_dist, max_len, TRUE) : Token(r, r.len)
  BY DEF backref_callback
<1>2. pos \in 0 .. Len(src) /\ Len(src) \in Nat
  BY DEF IInv, WritingOK, ModeOK
<1>3. max_dist \in Nat /\ max_len \in Int
  <2>1. PICK a, b \in Nat : a = 2 ^ LowBits /\ b = 2 ^ SYM_BITS
    BY WindowBits, Constants, Power
  <2>2. max_dist \in Nat
    BY <2>1, WindowBits
  <2>. QED  BY <2>2, Constants, WindowBits DEF max_len
<1>4. r \in [dist : 1 .. AtMost(max_dist, pos), len : MIN_LEN .. AtMost(max_len, Len(src) - pos)]
  BY DEF Backrefs
<1>5. AtMost(max_dist, pos) \in Nat /\ AtMost(max_dist, pos) <= max_dist
  BY <1>2, <1>3 DEF AtMost
<1>6. AtMost(max_len, Len(src) - pos) \in Int /\ AtMost(max_len, Len(src) - pos) <= Len(src) - pos
  BY <1>2, <1>3 DEF AtMost
<1>7. r \in [dist : Nat, len : Nat] /\ r.dist \in 1 .. max_dist /\ r.len >= MIN_LEN /\ r.len <= Len(src) - pos
  <2>1. r.dist \in 1 .. AtMost(max_dist, pos) /\ r.len \in MIN_LEN .. AtMost(max_len, Len(src) - pos)
    BY <1>4
  <2>2. r.dist \in 1 .. max_dist /\ r.len \in Nat /\ r.len >= MIN_LEN /\ r.len <= Len(src) - pos
    BY <1>2, <1>3, <1>5, <1>6, <2>1, WindowBits
  <2>. QED  BY <1>4, <2>2
<1>8. r \in Tokens
  BY <1>7 DEF Tokens, IsToken
<1>9. pos + r.len <= Len(src)
  BY <1>2, <1>7
<1>. QED  BY <1>1, <1>7, <1>8, <1>9, TokenInv

LEMMA FlushAtEndInv == IInv /\ FlushAtEnd => IInv'
<1> SUFFICES ASSUME IInv, FlushAtEnd PROVE IInv'
  OBVIOUS
<1>0. phase = "compress" /\ flush_buffer(buffer) /\ UNCHANGED <<mode, pos, buffer, intact, reading>>
  BY DEF FlushAtEnd
<1>1. buffer \in Seq(Tokens) /\ Len(buffer) <= BUFFER_CAP /\ pos \in 0 .. Len(src)
  BY DEF IInv, WritingOK
<1>2. PICK tk \in Seq(Tokens) : tk = buffer
  BY <1>1
<1>3. flush_buffer(tk)
  BY <1>0, <1>2
<1>4. /\ os' \in Stream /\ phase' \in {"compress", "gave_up"}
      /\ buffer_flushed' = TRUE /\ Fits(codes')
  BY <1>0, <1>3, FlushType
<1>5. ModeOK' /\ src' = src /\ Tokens' = Tokens /\ lit_tree' = lit_tree
  BY <1>0, ModeKept DEF IInv
<1>6. WritingOK'
  BY <1>0, <1>1, <1>4, <1>5 DEF WritingOK, Fits
<1>7. StreamOK'
  BY <1>0, <1>4 DEF IInv, StreamOK
<1>8. OutputOK' /\ LensOK' /\ PhaseOK'
  BY <1>0, <1>4, ReadingKept
<1>. QED  BY <1>5, <1>6, <1>7, <1>8 DEF IInv

LEMMA WritingKept ==
    ASSUME IInv, UNCHANGED <<mode, writing>> PROVE ModeOK' /\ WritingOK'
<1>1. UNCHANGED <<pos, buffer, buffer_flushed, codes>>
  BY DEF writing
<1>2. ModeOK' /\ src' = src /\ Tokens' = Tokens /\ lit_tree' = lit_tree
  BY ModeKept DEF IInv
<1>. QED  BY <1>1, <1>2 DEF IInv, WritingOK, Fits

LEMMA LensKept ==
    ASSUME IInv, UNCHANGED mode, lens' = lens PROVE LensOK'
<1>1. NumCodes' = NumCodes /\ \A k : NumSyms(k)' = NumSyms(k)
  BY ModeKept DEF IInv
<1>2. ASSUME NEW k \in 1 .. Len(lens) PROVE lens'[k] \in [0 .. NumSyms(k)' - 1 -> Width] /\ TreeFull(lens'[k])
  BY <1>1 DEF IInv, LensOK
<1>3. Len(lens') \in 0 .. NumCodes' /\ DOMAIN lens' = 1 .. Len(lens')
  BY <1>1 DEF IInv, LensOK
<1>. QED  BY <1>2, <1>3 DEF LensOK, NumSyms

LEMMA WrittenInv == IInv /\ Written => IInv'
<1> SUFFICES ASSUME IInv, Written PROVE IInv'
  OBVIOUS
<1>0. phase = "compress" /\ phase' = "codes" /\ UNCHANGED <<mode, writing, reading>>
  BY DEF Written
<1>1. ModeOK' /\ WritingOK'
  BY <1>0, WritingKept
<1>2. UNCHANGED <<pk101_bug_compat, rpos, lens, dst>>
  BY <1>0 DEF reading
<1>3. rpos = 0 /\ lens = <<>> /\ dst = <<>>
  BY <1>0 DEF IInv, PhaseOK
<1>4. os' \in Stream /\ intact' \in BOOLEAN
  <2> DEFINE p == Padded(os.bits, BYTE_BITS)
  <2>1. \/ os' = [os EXCEPT !.bits = p] /\ UNCHANGED intact
        \/ (\E d \in Damaged(p) : os' = [os EXCEPT !.bits = d]) /\ intact' = FALSE
    BY DEF Written
  <2>2. p \in Seq(Bit) /\ os \in Stream /\ intact \in BOOLEAN
    BY PaddedType DEF IInv, StreamOK, Stream
  <2> HIDE DEF p
  <2>3. \A d \in Seq(Bit) : [os EXCEPT !.bits = d] \in Stream
    BY <2>2 DEF Stream
  <2>4. CASE os' = [os EXCEPT !.bits = p] /\ UNCHANGED intact
    BY <2>2, <2>3, <2>4
  <2>5. CASE (\E d \in Damaged(p) : os' = [os EXCEPT !.bits = d]) /\ intact' = FALSE
    <3>1. PICK d \in Damaged(p) : os' = [os EXCEPT !.bits = d]
      BY <2>5
    <3>2. d \in Seq(Bit)
      BY <2>2, DamagedType
    <3>. QED  BY <2>3, <2>5, <3>1, <3>2
  <2>. QED  BY <2>1, <2>4, <2>5
<1>5. OutputOK'
  <2>1. Len(os'.bits) \in Nat
    BY <1>4 DEF Stream
  <2>2. src' = src
    BY <1>0 DEF mode
  <2>. QED  BY <1>2, <1>3, <2>1, <2>2 DEF IInv, OutputOK
<1>6. LensOK'
  BY <1>0, <1>2, LensKept
<1>7. PhaseOK'
  <2>1. NumCodes' \in {2, 3}
    BY DEF NumCodes
  <2>2. Len(lens') = 0
    BY <1>2, <1>3
  <2>. QED  BY <1>0, <2>1, <2>2 DEF PhaseOK
<1>. QED  BY <1>1, <1>4, <1>5, <1>6, <1>7 DEF IInv, StreamOK

LEMMA ErrorInv ==
    ASSUME IInv, phase # "compress", phase' \in {"ok", "error"}, UNCHANGED <<mode, writing, os, intact, reading>>
    PROVE  IInv'
<1>1. ModeOK' /\ WritingOK'
  BY WritingKept
<1>2. UNCHANGED <<pk101_bug_compat, rpos, lens, dst>>
  BY DEF reading
<1>3. StreamOK'
  BY DEF IInv, StreamOK
<1>4. OutputOK'
  <2>1. src' = src
    BY DEF mode
  <2>. QED  BY <1>2, <2>1 DEF IInv, OutputOK
<1>5. LensOK'
  BY <1>2, LensKept
<1>6. PhaseOK'
  BY DEF PhaseOK
<1>. QED  BY <1>1, <1>3, <1>4, <1>5, <1>6 DEF IInv

LEMMA ReadCodeInv == IInv /\ ReadCode => IInv'
<1> SUFFICES ASSUME IInv, ReadCode PROVE IInv'
  OBVIOUS
<1>0. /\ phase = "codes" /\ UNCHANGED <<mode, writing, os, intact>>
      /\ pk101_bug_compat' = pk101_bug_compat /\ dst' = dst
      /\ lens' = Append(lens, CodeLengths) /\ rpos' = rpos + (1 + NumRuns) * BYTE_BITS
      /\ phase' = IF Len(lens') = (IF lit_tree THEN 3 ELSE 2) THEN "tokens" ELSE "codes"
  BY DEF ReadCode
<1>1. ModeOK' /\ WritingOK'
  BY <1>0, WritingKept
<1>2. Has(os.bits, rpos, (1 + NumRuns) * BYTE_BITS) /\ Len(RunLengths) = NumLens /\ TreeFull(CodeLengths)
  BY DEF ReadCode, CodeReadable
<1>3. os \in Stream /\ rpos \in Nat /\ Len(os.bits) \in Nat
  BY DEF IInv, StreamOK, OutputOK, Stream
<1>4. NumRuns \in Nat /\ RunLengths \in Seq(Width)
  BY <1>3, RunLengthsType
<1>5. src' = src /\ lit_tree' = lit_tree
  BY <1>0 DEF mode
<1>6. OutputOK'
  <2>1. PICK used \in Nat : used = (1 + NumRuns) * BYTE_BITS
    BY <1>4, Constants
  <2>2. rpos' \in 0 .. Len(os.bits)
    BY <1>0, <1>2, <1>3, <2>1 DEF Has
  <2>. QED  BY <1>0, <1>5, <2>2 DEF IInv, OutputOK
<1>7. /\ Len(lens) \in Nat /\ Len(lens) < NumCodes /\ DOMAIN lens = 1 .. Len(lens)
      /\ \A k \in 1 .. Len(lens) : lens[k] \in [0 .. NumSyms(k) - 1 -> Width] /\ TreeFull(lens[k])
  BY <1>0 DEF IInv, LensOK, PhaseOK
<1>8. /\ Len(lens') = Len(lens) + 1 /\ DOMAIN lens' = 1 .. Len(lens')
      /\ \A k \in 1 .. Len(lens) : lens'[k] = lens[k]
      /\ lens'[Len(lens) + 1] = CodeLengths
  BY <1>0, <1>7
<1>9. NumLens = NumSyms(Len(lens) + 1)
  <2>1. lens = <<>> <=> Len(lens) + 1 = 1
    BY <1>7
  <2>. QED  BY <2>1, Zenon DEF NumLens, NumSyms
<1>10. CodeLengths \in [0 .. NumLens - 1 -> Width]
  <2>1. NumLens \in Nat
    BY Constants DEF NumLens
  <2>2. \A s \in 0 .. NumLens - 1 : RunLengths[s + 1] \in Width
    BY <1>2, <1>4, <2>1
  <2>. QED  BY <2>2 DEF CodeLengths
<1>11. LensOK'
  <2>1. NumCodes' = NumCodes /\ NumCodes \in Nat /\ \A k : NumSyms(k)' = NumSyms(k)
    BY <1>5 DEF NumCodes, NumSyms
  <2>2. ASSUME NEW k \in 1 .. Len(lens') PROVE lens'[k] \in [0 .. NumSyms(k)' - 1 -> Width] /\ TreeFull(lens'[k])
    <3>1. CASE k = Len(lens) + 1
      BY <1>2, <1>8, <1>9, <1>10, <2>1, <3>1, Zenon
    <3>2. CASE k # Len(lens) + 1
      <4>1. k \in 1 .. Len(lens)
        BY <1>7, <1>8, <3>2
      <4>. QED  BY <1>7, <1>8, <2>1, <4>1, Zenon
    <3>. QED  BY <3>1, <3>2
  <2>3. Len(lens') \in 0 .. NumCodes'
    BY <1>7, <1>8, <2>1
  <2>. QED  BY <1>8, <2>2, <2>3 DEF LensOK, NumSyms
<1>12. PhaseOK'
  <2>1. NumCodes' = (IF lit_tree THEN 3 ELSE 2) /\ NumCodes' = NumCodes /\ NumCodes \in Nat
    BY <1>5 DEF NumCodes
  <2>. QED  BY <1>0, <1>7, <1>8, <2>1 DEF PhaseOK
<1>13. StreamOK'
  BY <1>0 DEF IInv, StreamOK
<1>. QED  BY <1>1, <1>6, <1>11, <1>12, <1>13 DEF IInv

LEMMA OutputsInv ==
    ASSUME IInv, InTokens, NEW d \in Seq(Byte), Len(d) <= Len(src),
           NEW n \in Nat, Has(os.bits, rpos, n), Outputs(d, n)
    PROVE  IInv'
<1>0. /\ dst' = d /\ rpos' = rpos + n /\ phase' = phase /\ UNCHANGED <<mode, writing, os, intact>>
      /\ pk101_bug_compat' = pk101_bug_compat /\ lens' = lens
  BY DEF Outputs
<1>1. ModeOK' /\ WritingOK'
  BY <1>0, WritingKept
<1>2. src' = src /\ NumCodes' = NumCodes
  BY <1>0 DEF mode, NumCodes
<1>3. OutputOK'
  <2>1. rpos \in Nat /\ Len(os.bits) \in Nat
    BY DEF IInv, OutputOK, StreamOK, Stream
  <2>2. rpos' \in 0 .. Len(os'.bits)
    BY <1>0, <2>1 DEF Has
  <2>. QED  BY <1>0, <1>2, <2>2 DEF IInv, OutputOK
<1>4. LensOK'
  BY <1>0, LensKept
<1>5. PhaseOK'
  BY <1>0, <1>2 DEF IInv, PhaseOK, InTokens
<1>6. StreamOK'
  BY <1>0 DEF IInv, StreamOK
<1>. QED  BY <1>1, <1>3, <1>4, <1>5, <1>6 DEF IInv

\* What is known where a token is read.
LEMMA TokensRead ==
    ASSUME IInv, InTokens
    PROVE  /\ os \in Stream /\ rpos \in Nat /\ dst \in Seq(Byte) /\ src \in Seq(Byte)
           /\ Len(dst) < Len(src)
           /\ Len(lens) = NumCodes /\ lit_tree \in BOOLEAN
           /\ lit_tree => lens[1] \in [0 .. 2 ^ BYTE_BITS - 1 -> Width] /\ TreeFull(lens[1])
           /\ DistCode \in [0 .. 2 ^ SYM_BITS - 1 -> Width] /\ TreeFull(DistCode)
           /\ LenCode \in [0 .. 2 ^ SYM_BITS - 1 -> Width] /\ TreeFull(LenCode)
<1>1. /\ Len(lens) = NumCodes /\ lit_tree \in BOOLEAN
      /\ \A k \in 1 .. Len(lens) : lens[k] \in [0 .. NumSyms(k) - 1 -> Width] /\ TreeFull(lens[k])
  BY DEF IInv, InTokens, PhaseOK, LensOK, ModeOK
<1>2. lit_tree => lens[1] \in [0 .. 2 ^ BYTE_BITS - 1 -> Width] /\ TreeFull(lens[1])
  BY <1>1 DEF NumCodes, NumSyms
<1>3. ASSUME NEW k \in {Len(lens), Len(lens) - 1}
      PROVE  lens[k] \in [0 .. 2 ^ SYM_BITS - 1 -> Width] /\ TreeFull(lens[k])
  <2>1. k \in 1 .. Len(lens) /\ (lit_tree => k # 1)
    BY <1>1 DEF NumCodes
  <2>2. NumSyms(k) = 2 ^ SYM_BITS
    BY <2>1 DEF NumSyms
  <2>. QED  BY <1>1, <2>1, <2>2
<1>. QED  BY <1>1, <1>2, <1>3 DEF IInv, InTokens, StreamOK, OutputOK, ModeOK, DistCode, LenCode

LEMMA LiteralType ==
    ASSUME IInv, InTokens, lit_tree
    PROVE  Decode(lens[1], 1).sym \in Byte /\ Decode(lens[1], 1).used \in Nat
<1>1. Decode(lens[1], 1).sym \in 0 .. 2 ^ BYTE_BITS - 1 /\ Decode(lens[1], 1).used \in Width
  BY TokensRead, DecodeType, Constants
<1>. QED  BY <1>1, Constants DEF Width

LEMMA BackrefType ==
    ASSUME IInv, InTokens
    PROVE  /\ Decode(DistCode, 1 + LowBits).sym \in Sym
           /\ BackrefAt.dist \in Nat \ {0} /\ BackrefAt.len \in Nat /\ BackrefAt.len >= 2
           /\ BackrefAt.used \in Nat
<1> DEFINE hi == Decode(DistCode, 1 + LowBits)
           after == 1 + LowBits + hi.used
           l == Decode(LenCode, after)
           extra == IF l.sym = LAST THEN BYTE_BITS ELSE 0
           least == MinLen(IF pk101_bug_compat THEN large_wnd ELSE lit_tree)
           low == istream_bits(os.bits, rpos + 1, LowBits)
           more == istream_bits(os.bits, rpos + after + l.used, extra)
<1>0. BackrefAt = [dist |-> low + hi.sym * 2 ^ LowBits + 1, len |-> l.sym + least + more, used |-> after + l.used + extra]
  BY Zenon DEF BackrefAt
<1>1. \A ls, a : ls \in [0 .. 2 ^ SYM_BITS - 1 -> Width] /\ TreeFull(ls) /\ a \in Nat =>
        Decode(ls, a).sym \in Sym /\ Decode(ls, a).sym \in Nat /\ Decode(ls, a).used \in Nat
  <2> SUFFICES ASSUME NEW ls \in [0 .. 2 ^ SYM_BITS - 1 -> Width], TreeFull(ls), NEW a \in Nat
               PROVE  Decode(ls, a).sym \in Sym /\ Decode(ls, a).sym \in Nat /\ Decode(ls, a).used \in Nat
    OBVIOUS
  <2>1. Decode(ls, a).sym \in 0 .. 2 ^ SYM_BITS - 1 /\ Decode(ls, a).used \in Width
    BY TokensRead, DecodeType, Constants
  <2>. QED  BY <2>1, Constants DEF Width, Sym
<1>2. 1 + LowBits \in Nat /\ LowBits \in Nat
  BY WindowBits
<1>3. hi.sym \in Sym /\ hi.sym \in Nat /\ hi.used \in Nat
  BY <1>1, <1>2, TokensRead
<1>4. after \in Nat
  <2> HIDE DEF hi
  <2>. QED  BY <1>2, <1>3
<1> HIDE DEF hi, after
<1>5. l.sym \in Nat /\ l.used \in Nat
  BY <1>1, <1>4, TokensRead
<1>6. extra \in Nat
  BY Constants
<1> HIDE DEF l, extra
<1>7. low \in Nat /\ more \in Nat
  <2>1. os.bits \in Seq(Bit) /\ rpos + 1 \in Nat /\ rpos + after + l.used \in Nat
    BY <1>4, <1>5, TokensRead DEF Stream
  <2>. QED  BY <1>2, <1>6, <2>1, ReadBound
<1>8. least \in {2, 3}
  BY WindowBits
<1>9. PICK p \in Nat : p = hi.sym * 2 ^ LowBits
  <2>1. PICK d \in Nat : d = 2 ^ LowBits
    BY <1>2, Power
  <2>. QED  BY <1>3, <2>1
<1> HIDE DEF low, more, least
<1>10. low + p + 1 \in Nat \ {0} /\ l.sym + least + more \in Nat /\ l.sym + least + more >= 2 /\ after + l.used + extra \in Nat
  BY <1>4, <1>5, <1>6, <1>7, <1>8
<1>11. BackrefAt.dist = low + p + 1 /\ BackrefAt.len = l.sym + least + more /\ BackrefAt.used = after + l.used + extra
  BY <1>0, <1>9
<1>. QED  BY <1>3, <1>10, <1>11 DEF hi

LEMMA ReadLiteralInv == IInv /\ ReadLiteral => IInv'
<1> SUFFICES ASSUME IInv, ReadLiteral PROVE IInv'
  OBVIOUS
<1> DEFINE d == IF lit_tree THEN Decode(lens[1], 1)
                ELSE [sym |-> istream_bits(os.bits, rpos + 1, BYTE_BITS), used |-> BYTE_BITS]
<1>1. InTokens /\ IF Has(os.bits, rpos, 1 + d.used) THEN Outputs(Append(dst, d.sym), 1 + d.used) ELSE Error
  BY DEF ReadLiteral
<1>2. d.sym \in Byte /\ d.used \in Nat
  <2>1. CASE lit_tree
    BY <1>1, <2>1, LiteralType
  <2>2. CASE ~lit_tree
    <3>1. os.bits \in Seq(Bit) /\ rpos + 1 \in Nat
      BY <1>1, TokensRead DEF Stream
    <3>2. istream_bits(os.bits, rpos + 1, BYTE_BITS) \in 0 .. 2 ^ BYTE_BITS - 1
      BY <3>1, Constants, ReadBound
    <3>. QED  BY <2>2, <3>2, Constants
  <2>. QED  BY <2>1, <2>2
<1> HIDE DEF d
<1>3. CASE Has(os.bits, rpos, 1 + d.used)
  <2>1. PICK b, n : b = Append(dst, d.sym) /\ n = 1 + d.used
    OBVIOUS
  <2>2. b \in Seq(Byte) /\ Len(b) <= Len(src) /\ n \in Nat
    BY <1>1, <1>2, <2>1, TokensRead
  <2>. QED  BY <1>1, <1>3, <2>1, <2>2, OutputsInv
<1>4. CASE ~Has(os.bits, rpos, 1 + d.used)
  BY <1>1, <1>4, ErrorInv DEF Error, InTokens
<1>. QED  BY <1>3, <1>4

LEMMA ReadBackrefInv == IInv /\ ReadBackref => IInv'
<1> SUFFICES ASSUME IInv, ReadBackref PROVE IInv'
  OBVIOUS
<1> DEFINE r == BackrefAt
           Fine == Has(os.bits, rpos, r.used) /\ r.len <= Len(src) - Len(dst)
<1>1. InTokens /\ IF Fine THEN Outputs(output_backref(dst, r.dist, r.len), r.used) ELSE Error
  BY DEF ReadBackref
<1>2. r.dist \in Nat \ {0} /\ r.len \in Nat /\ r.used \in Nat
  BY <1>1, BackrefType
<1> HIDE DEF r
<1>3. CASE Fine
  <2>1. PICK b : b = output_backref(dst, r.dist, r.len)
    OBVIOUS
  <2>2. b \in Seq(Byte) /\ Len(b) = Len(dst) + r.len
    BY <1>1, <1>2, <2>1, TokensRead, CopiedType
  <2>3. Len(b) <= Len(src)
    BY <1>1, <1>2, <1>3, <2>2, TokensRead
  <2>. QED  BY <1>1, <1>2, <1>3, <2>1, <2>2, <2>3, OutputsInv
<1>4. CASE ~Fine
  BY <1>1, <1>4, ErrorInv DEF Error, InTokens
<1>. QED  BY <1>3, <1>4

LEMMA TryPk101Inv == IInv /\ TryPk101 => IInv'
<1> SUFFICES ASSUME IInv, TryPk101 PROVE IInv'
  OBVIOUS
<1>0. /\ phase' = "codes" /\ pk101_bug_compat' = TRUE /\ rpos' = 0 /\ lens' = <<>> /\ dst' = <<>>
      /\ UNCHANGED <<mode, writing, os, intact>>
  BY DEF TryPk101
<1>1. ModeOK' /\ WritingOK'
  BY <1>0, WritingKept
<1>2. StreamOK'
  BY <1>0 DEF IInv, StreamOK
<1>3. NumCodes' \in {2, 3} /\ Len(lens') = 0 /\ DOMAIN lens' = 1 .. 0
  BY <1>0 DEF NumCodes
<1>4. OutputOK'
  <2>1. src' = src /\ Len(src) \in Nat /\ Len(os.bits) \in Nat
    BY <1>0 DEF mode, IInv, ModeOK, StreamOK, Stream
  <2>2. dst' \in Seq(Byte) /\ Len(dst') = 0
    BY <1>0
  <2>. QED  BY <1>0, <2>1, <2>2 DEF OutputOK
<1>5. LensOK'
  BY <1>3 DEF LensOK
<1>6. PhaseOK'
  BY <1>0, <1>3 DEF PhaseOK
<1>. QED  BY <1>1, <1>2, <1>4, <1>5, <1>6 DEF IInv

LEMMA NextInv == IInv /\ [Next]_vars => IInv'
<1> SUFFICES ASSUME IInv, [Next]_vars PROVE IInv'
  OBVIOUS
<1>1. CASE lit_callback \/ backref_callback \/ FlushAtEnd \/ Written
  BY <1>1, lit_callbackInv, backref_callbackInv, FlushAtEndInv, WrittenInv
<1>2. CASE ReadCode \/ ReadLiteral \/ ReadBackref \/ TryPk101
  BY <1>2, ReadCodeInv, ReadLiteralInv, ReadBackrefInv, TryPk101Inv
<1>3. CASE BadCode
  BY <1>3, ErrorInv DEF BadCode, Error
<1>4. CASE Done
  <2>1. phase # "compress" /\ phase' \in {"ok", "error"} /\ UNCHANGED <<mode, writing, os, intact, reading>>
    BY <1>4 DEF Done
  <2>. QED  BY <2>1, ErrorInv
<1>5. CASE UNCHANGED vars
  <2>1. UNCHANGED <<phase, mode, writing, os, intact, reading>>
    BY <1>5 DEF vars
  <2>2. UNCHANGED <<pk101_bug_compat, rpos, lens, dst>>
    BY <2>1 DEF reading
  <2>3. ModeOK' /\ WritingOK' /\ LensOK'
    BY <2>1, <2>2, WritingKept, LensKept
  <2>4. src' = src /\ NumCodes' = NumCodes
    BY <2>1 DEF mode, NumCodes
  <2>. QED  BY <2>1, <2>2, <2>3, <2>4 DEF IInv, StreamOK, OutputOK, PhaseOK
<1>. QED  BY <1>1, <1>2, <1>3, <1>4, <1>5 DEF Next

\* Throughout hwimplode and hwexplode: bits are written, tokens are held and
\* codes are read as the invariant says.
THEOREM InvariantHolds == Spec => []IInv
  BY InitInv, NextInv, PTL DEF Spec

LEMMA InvTypes == IInv => TypeOK
<1> SUFFICES ASSUME IInv PROVE TypeOK
  OBVIOUS
<1>1. {large_wnd, lit_tree, old_pkzip, buffer_flushed, intact, pk101_bug_compat} \subseteq BOOLEAN
  BY DEF IInv, ModeOK, WritingOK, StreamOK, OutputOK
<1>2. \A i \in DOMAIN buffer : buffer[i].dist \in 0 .. max_dist
  <2> TAKE i \in DOMAIN buffer
  <2>1. buffer[i] \in Tokens
    BY DEF IInv, WritingOK
  <2>2. max_dist \in Nat
    <3>1. PICK a, b \in Nat : a = 2 ^ LowBits /\ b = 2 ^ SYM_BITS
      BY WindowBits, Constants, Power
    <3>. QED  BY <3>1, WindowBits
  <2>3. buffer[i].dist = 0 \/ buffer[i].dist \in 1 .. max_dist
    BY <2>1 DEF Tokens, IsToken
  <2>. QED  BY <2>2, <2>3
<1>3. Len(lens) <= 3 /\ \A k \in DOMAIN lens : Range(lens[k]) \subseteq 1 .. MAX_HUFFMAN_BITS
  <2>1. Len(lens) <= 3
    BY DEF IInv, LensOK, NumCodes
  <2>2. ASSUME NEW k \in DOMAIN lens PROVE Range(lens[k]) \subseteq 1 .. MAX_HUFFMAN_BITS
    <3>1. lens[k] \in [0 .. NumSyms(k) - 1 -> Width]
      BY DEF IInv, LensOK
    <3>. QED  BY <3>1 DEF Range, Width
  <2>. QED  BY <2>1, <2>2
<1>4. os.bits \in Seq({0, 1})
  BY DEF IInv, StreamOK, Stream, Bit
<1>. QED  BY <1>1, <1>2, <1>3, <1>4 DEF IInv, WritingOK, OutputOK, PhaseOK, TypeOK

LEMMA InvAsserts == IInv => NoAssertFails
<1> SUFFICES ASSUME IInv PROVE NoAssertFails
  OBVIOUS
<1>1. TypeOK
  BY InvTypes
<1>2. ASSUME NEW k \in DOMAIN lens PROVE huffman_decoder_init(lens[k])
  <2>1. k \in 1 .. Len(lens) /\ lens[k] \in [0 .. NumSyms(k) - 1 -> Width] /\ TreeFull(lens[k])
    BY DEF IInv, LensOK
  <2>2. NumSyms(k) \in Nat
    BY Constants DEF NumSyms
  <2>3. 0 \in 0 .. 2 ^ MAX_HUFFMAN_BITS - 1
    <3>1. 2 ^ MAX_HUFFMAN_BITS \in Nat \ {0}
      BY Assumed, Power
    <3>. QED  BY <3>1
  <2>. QED  BY <2>1, <2>2, <2>3, FullDecodes, Zenon
<1>3. InTokens /\ IsLiteral /\ lit_tree => Decode(lens[1], 1).sym \in Byte
  BY LiteralType
<1>4. InTokens /\ ~IsLiteral => Decode(DistCode, 1 + LowBits).sym \in Sym /\ BackrefAt.len >= 2
  BY BackrefType
<1>. QED  BY <1>1, <1>2, <1>3, <1>4, Zenon DEF NoAssertFails

\* Whatever is imploded, in whatever window, by whichever version, and however
\* the stream was damaged before it is exploded: codes that pass the check for a
\* full tree are accepted by the decoder and give a symbol for any bits, so that
\* no assertion of hwexplode fails.
THEOREM NoAssertFailsHolds == Spec => []NoAssertFails
  BY InvariantHolds, InvAsserts, PTL
================================================================================
