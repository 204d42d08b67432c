-------------------------------- MODULE HuffmanCode --------------------------------
(***************************************************************************)
(* Huffman codes (huffman.c, huffman.h).  Symbols are 0 .. n - 1; lengths  *)
(* gives each its codeword length, 0 for a symbol that is not coded.       *)
(* Codewords are canonical: by length, then by symbol.  The decoder finds  *)
(* short ones in a table indexed with the next bits and longer ones by     *)
(* comparison with the sentinel of each length.                            *)
(***************************************************************************)
EXTENDS BitStream, Integers, FiniteSets

CONSTANTS
    MAX_HUFFMAN_BITS,            \* 16; also the width of uint16_t
    HUFFMAN_LOOKUP_TABLE_BITS,   \* 8
    UINT16_MAX                   \* 65535: bound of frequencies and of links

ASSUME HuffmanAssumption ==
    /\ MAX_HUFFMAN_BITS \in Nat /\ HUFFMAN_LOOKUP_TABLE_BITS \in Nat
    /\ 0 < HUFFMAN_LOOKUP_TABLE_BITS /\ HUFFMAN_LOOKUP_TABLE_BITS < MAX_HUFFMAN_BITS
    /\ UINT16_MAX \in Nat \ {0}

Width == 1 .. MAX_HUFFMAN_BITS
uint16(x) == x % 2 ^ MAX_HUFFMAN_BITS

OfLength(lengths, l) == {s \in DOMAIN lengths : lengths[s] = l}

\* Codewords of length l; zero-length symbols are ignored.
count(lengths, l) == IF l = 0 THEN 0 ELSE Cardinality(OfLength(lengths, l))

\* The first canonical codeword of every length.
first_code(lengths) ==
    LET code[l \in Nat] ==
          IF l = 0 THEN 0 ELSE uint16((code[l - 1] + count(lengths, l - 1)) * 2)
    IN  code

\* The codeword of s, most significant bit first.
CanonicalCode(lengths, s) ==
    uint16(first_code(lengths)[lengths[s]]
             + Cardinality({t \in OfLength(lengths, lengths[s]) : t < s}))

\* compute_canonical_code: least significant bit first, as it is written.
Codeword(lengths, s) == reverse16(CanonicalCode(lengths, s), lengths[s])

--------------------------------------------------------------------------------
(***************************************************************************)
(* The decoder.                                                            *)
(***************************************************************************)
\* Mutant of huffman_decoder_init: one codeword too many passes.
accepts_one_more(lengths) ==
    \A l \in Width : count(lengths, l) # 0 =>
        first_code(lengths)[l] + count(lengths, l) - 1 <= 2 ^ l

\* huffman_decoder_init returns true: the last codeword of each length fits.
huffman_decoder_init(lengths) ==
    \A l \in Width : count(lengths, l) # 0 =>
        first_code(lengths)[l] + count(lengths, l) - 1 <= 2 ^ l - 1

\* syms: the coded symbols by length, then by symbol.
sym_idx(lengths, s) ==
    Cardinality({t \in DOMAIN lengths :
        \/ 0 < lengths[t] /\ lengths[t] < lengths[s]
        \/ lengths[t] = lengths[s] /\ t < s})

\* The symbols table_insert stored at index: codewords that index starts with.
table(lengths, index) ==
    {s \in DOMAIN lengths :
        /\ lengths[s] \in 1 .. HUFFMAN_LOOKUP_TABLE_BITS
        /\ lsb(index, lengths[s]) = Codeword(lengths, s)}

\* Mutant of sentinel_bits: the last codeword of the length is left out.
sentinel_one_short(lengths, l) ==
    (first_code(lengths)[l] + count(lengths, l) - 1) * 2 ^ (MAX_HUFFMAN_BITS - l)

\* A value of MAX_HUFFMAN_BITS bits, first bit on top, below this starts with a
\* codeword of at most l bits.
sentinel_bits(lengths, l) ==
    (first_code(lengths)[l] + count(lengths, l)) * 2 ^ (MAX_HUFFMAN_BITS - l)

\* The index of the first symbol of length l less its codeword, mod 2^16.
offset_first_sym_idx(lengths, l) ==
    uint16(Cardinality({t \in DOMAIN lengths : lengths[t] \in 1 .. l - 1})
             + 2 ^ MAX_HUFFMAN_BITS - first_code(lengths)[l])

NoSymbol == [sym |-> -1, used |-> 0]

\* The last symbol stored wins.
Lookup(lengths, index) ==
    LET stored == table(lengths, index)
        s == CHOOSE x \in stored : \A y \in stored : y <= x
    IN  [sym |-> s, used |-> lengths[s]]

\* The comparison loop for codewords longer than the table's.
DecodeLong(lengths, bits) ==
    LET msb == reverse16(bits, MAX_HUFFMAN_BITS)
        hits == {l \in HUFFMAN_LOOKUP_TABLE_BITS + 1 .. MAX_HUFFMAN_BITS :
                    msb < sentinel_bits(lengths, l)}
        l == CHOOSE x \in hits : \A y \in hits : x <= y
        idx == uint16(offset_first_sym_idx(lengths, l) + msb \div 2 ^ (MAX_HUFFMAN_BITS - l))
        at == {s \in DOMAIN lengths : lengths[s] # 0 /\ sym_idx(lengths, s) = idx}
    IN  IF hits = {} THEN NoSymbol
        ELSE IF at = {} THEN [sym |-> -2, used |-> l]      \* an entry never filled
        ELSE [sym |-> CHOOSE s \in at : TRUE, used |-> l]

huffman_decode(lengths, bits) ==
    IF table(lengths, lsb(bits, HUFFMAN_LOOKUP_TABLE_BITS)) # {}
    THEN Lookup(lengths, lsb(bits, HUFFMAN_LOOKUP_TABLE_BITS))
    ELSE DecodeLong(lengths, bits)

--------------------------------------------------------------------------------
(***************************************************************************)
(* Codeword lengths from frequencies.  One array holds the heap in its     *)
(* low end and link elements above it; an entry of the heap is a frequency *)
(* and, in its low half, the index of its link element.                    *)
(***************************************************************************)
LINK == UINT16_MAX + 1
Link(node) == node % LINK
FreqPart(node) == node - Link(node)

swap32(nodes, i, j) == [nodes EXCEPT ![i] = nodes[j], ![j] = nodes[i]]

Arrays(nodes) == [DOMAIN nodes -> Nat]

\* Node i moves below its smaller child until none is smaller.
minheap_down(nodes, h, i) ==
    LET sift[s \in Arrays(nodes) \X (1 .. h)] ==
          LET a == s[1]
              j == s[2]
              left == 2 * j
              min == IF left + 1 <= h /\ a[left + 1] < a[left] THEN left + 1 ELSE left
          IN  IF left <= h /\ a[min] < a[j] THEN sift[<<swap32(a, min, j), min>>] ELSE a
    IN  sift[<<nodes, i>>]

minheap_heapify(nodes, h) ==
    LET build[s \in Arrays(nodes) \X (0 .. h \div 2)] ==
          IF s[2] = 0 THEN s[1] ELSE build[<<minheap_down(s[1], h, s[2]), s[2] - 1>>]
    IN  build[<<nodes, h \div 2>>]

Coded(freqs) == {s \in DOMAIN freqs : freqs[s] # 0}

\* The position of s among the coded symbols, from 1.
Nth(freqs, s) == Cardinality({t \in Coded(freqs) : t <= s})

Capped(f, cap) == IF f > cap THEN cap ELSE f

\* The heap of all coded symbols; the rest of the array is not initialized.
InitNodes(freqs, cap) ==
    LET n == Cardinality(DOMAIN freqs)
        h == Cardinality(Coded(freqs))
        sym(k) == CHOOSE s \in Coded(freqs) : Nth(freqs, s) = k
    IN  minheap_heapify(
          [k \in 1 .. 2 * n |-> IF k <= h THEN Capped(freqs[sym(k)], cap) * LINK + n + k ELSE 0],
          h)

\* p is popped, then joined with the new first node, in slot h: what stands in
\* place of the first node, before it is sifted down.
Joined(popped, p, h) ==
    [popped EXCEPT ![1] = FreqPart(p) + FreqPart(popped[1]) + h,
                   ![Link(p)] = h, ![Link(popped[1])] = h]

PopFirst(nodes, h) == minheap_down([nodes EXCEPT ![1] = nodes[h]], h - 1, 1)

\* Mutant of Merge: the combined node is left where it is.
MergeInPlace(nodes, h) == Joined(PopFirst(nodes, h), nodes[1], h)

\* The two lightest of h nodes are joined; slot h becomes their link element.
Merge(nodes, h) == minheap_down(Joined(PopFirst(nodes, h), nodes[1], h), h - 1, 1)

\* Links from the k-th coded symbol to the root, whose link element is 2.
Depth(nodes, n, k) ==
    LET path[j \in 1 .. 2 * n] ==
          IF j = 1 THEN nodes[n + k]
          ELSE LET p == path[j - 1] IN IF p = 2 THEN 2 ELSE nodes[p]
    IN  1 + Cardinality({j \in 1 .. 2 * n : path[j] # 2})

Depths(freqs, nodes) ==
    [s \in DOMAIN freqs |->
        IF freqs[s] = 0 THEN 0
        ELSE Depth(nodes, Cardinality(DOMAIN freqs), Nth(freqs, s))]

\* Fewer than two coded symbols.
FewLengths(freqs) == [s \in DOMAIN freqs |-> IF freqs[s] = 0 THEN 0 ELSE 1]

\* Mutant of TooLong: one bit too many passes.
too_long_late(lengths, max_len) == \E s \in DOMAIN lengths : lengths[s] > max_len + 1

TooLong(lengths, max_len) == \E s \in DOMAIN lengths : lengths[s] > max_len

\* The whole of compute_huffman_lengths, for the compressors that call it.
compute_huffman_lengths(freqs, max_len) ==
    LET coded == Cardinality(Coded(freqs))
        tree[s \in [1 .. 2 * Cardinality(DOMAIN freqs) -> Nat] \X (1 .. coded)] ==
            IF s[2] = 1 THEN s[1] ELSE tree[<<Merge(s[1], s[2]), s[2] - 1>>]
        try[cap \in 1 .. UINT16_MAX] ==
            LET ls == Depths(freqs, tree[<<InitNodes(freqs, cap), coded>>])
            IN  IF TooLong(ls, max_len) /\ cap # 1 THEN try[cap \div 2] ELSE ls
    IN  IF coded < 2 THEN FewLengths(freqs) ELSE try[UINT16_MAX]
================================================================================
