---------------------------------- MODULE Huffman ----------------------------------
(***************************************************************************)
(* compute_huffman_lengths step by step: the heap is built, the two        *)
(* lightest nodes joined until one is left, and the lengths read off the   *)
(* links.  When one is too long, frequencies are capped, at half the last  *)
(* cap, and everything starts again.                                       *)
(*                                                                         *)
(* Other behaviours begin with codeword lengths that were given, as those  *)
(* in a file are: a decoder is initialized with them and asked to decode   *)
(* any bits.                                                               *)
(***************************************************************************)
EXTENDS HuffmanCode, FiniteSetsExt

CONSTANTS
    NUM_SYMS,       \* bound of the model: symbols with frequencies
    GIVEN_SYMS,     \* bound of the model: symbols with lengths that are given
    MaxLens         \* the length limits callers use

\* Frequencies sum up to UINT16_MAX at most; the limit admits a code, and is no
\* more than MAX_HUFFMAN_BITS; links fit.
ASSUME LimitAssumption ==
    /\ NUM_SYMS \in Nat /\ GIVEN_SYMS \in Nat
    /\ \A l \in MaxLens : l \in Width /\ 2 ^ l >= NUM_SYMS
    /\ 2 * NUM_SYMS <= UINT16_MAX

VARIABLES
    freqs, max_len, freq_cap, nodes, h,
    lengths,        \* the codeword lengths
    pc,             \* what runs; "refused" is a result
    bits,           \* the bits given to huffman_decode
    result          \* the symbol and the bits it used

building == <<freqs, max_len, freq_cap, nodes, h>>
decoding == <<bits, result>>
vars == <<building, lengths, pc, decoding>>

Total(f) == MapThenSumSet(LAMBDA s : f[s], DOMAIN f)

Compute ==
    /\ freqs \in {f \in [0 .. NUM_SYMS - 1 -> 0 .. UINT16_MAX] : Total(f) <= UINT16_MAX}
    /\ max_len \in MaxLens
    /\ lengths = <<>> /\ pc = "try_again"

Given ==
    /\ freqs = <<>> /\ max_len = MAX_HUFFMAN_BITS
    /\ lengths \in [0 .. GIVEN_SYMS - 1 -> 0 .. MAX_HUFFMAN_BITS]
    /\ pc = "given"

Init ==
    /\ Compute \/ Given
    /\ freq_cap = UINT16_MAX /\ nodes = <<>> /\ h = 0
    /\ bits = 0 /\ result = NoSymbol

--------------------------------------------------------------------------------
(***************************************************************************)
(* From frequencies to lengths.                                            *)
(***************************************************************************)
InitHeap ==
    /\ pc = "try_again"
    /\ nodes' = InitNodes(freqs, freq_cap)
    /\ h' = Cardinality(Coded(freqs))
    /\ pc' = IF h' < 2 THEN "few" ELSE "build"
    /\ UNCHANGED <<freqs, max_len, freq_cap, lengths, decoding>>

FewSymbols ==
    /\ pc = "few"
    /\ lengths' = FewLengths(freqs)
    /\ pc' = "done"
    /\ UNCHANGED <<building, decoding>>

JoinLightest ==
    /\ pc = "build" /\ h > 1
    /\ nodes' = Merge(nodes, h)
    /\ h' = h - 1
    /\ UNCHANGED <<freqs, max_len, freq_cap, lengths, pc, decoding>>

ReadLengths ==
    /\ pc = "build" /\ h = 1
    /\ lengths' = Depths(freqs, nodes)
    /\ ~TooLong(lengths', max_len)
    /\ pc' = "done"
    /\ UNCHANGED <<building, decoding>>

\* Mutant of LowerCap: everything starts again with the same cap.
KeepCap ==
    /\ pc = "build" /\ h = 1
    /\ TooLong(Depths(freqs, nodes), max_len)
    /\ pc' = "try_again"
    /\ UNCHANGED <<freqs, max_len, freq_cap, nodes, h, lengths, decoding>>

LowerCap ==
    /\ pc = "build" /\ h = 1
    /\ TooLong(Depths(freqs, nodes), max_len)
    /\ freq_cap' = freq_cap \div 2
    /\ pc' = "try_again"
    /\ UNCHANGED <<freqs, max_len, nodes, h, lengths, decoding>>

--------------------------------------------------------------------------------
(***************************************************************************)
(* From lengths to symbols.                                                *)
(***************************************************************************)
InitDecoder ==
    /\ pc = "given"
    /\ pc' = IF huffman_decoder_init(lengths) THEN "ready" ELSE "refused"
    /\ UNCHANGED <<building, lengths, decoding>>

Decode ==
    /\ pc \in {"ready", "decoded"}
    /\ pc' = "decoded"
    /\ bits' \in 0 .. 2 ^ MAX_HUFFMAN_BITS - 1
    /\ result' = huffman_decode(lengths, bits')
    /\ UNCHANGED <<building, lengths>>

compute == InitHeap \/ FewSymbols \/ JoinLightest \/ ReadLengths \/ LowerCap

Next == compute \/ InitDecoder \/ Decode

\* A call runs to its end.
Spec == Init /\ [][Next]_vars /\ WF_vars(compute)

--------------------------------------------------------------------------------
(***************************************************************************)
(* Properties                                                              *)
(***************************************************************************)
TypeOK ==
    /\ pc \in {"try_again", "few", "build", "done", "given", "ready", "refused", "decoded"}
    /\ freq_cap \in 1 .. UINT16_MAX /\ h \in 0 .. NUM_SYMS
    /\ bits \in 0 .. 2 ^ MAX_HUFFMAN_BITS - 1
    /\ \A s \in DOMAIN lengths : lengths[s] \in Nat

Kraft(ls) == MapThenSumSet(LAMBDA s : 2 ^ (MAX_HUFFMAN_BITS - ls[s]), {s \in DOMAIN ls : ls[s] # 0})

Cost(ls) == MapThenSumSet(LAMBDA s : freqs[s] * ls[s], DOMAIN freqs)

\* The complete codes within a limit for a given set of symbols.
CompleteCodes ==
    [S \in SUBSET (0 .. NUM_SYMS - 1), l \in MaxLens |->
        {ls \in [0 .. NUM_SYMS - 1 -> 0 .. l] :
            (\A s \in 0 .. NUM_SYMS - 1 : ls[s] # 0 <=> s \in S) /\ Kraft(ls) = 2 ^ MAX_HUFFMAN_BITS}]

\* All variables have their types; a cap of 1 is never lowered (huffman.c:240).
\* The result codes exactly the symbols that occur, within the limit, and with
\* two or more of them uses up all codewords.  Heap and links share one array,
\* and neither may overwrite what is still needed of the other.
CodeIsComplete ==
    TypeOK /\ (pc = "done" =>
        /\ \A s \in DOMAIN freqs :
              lengths[s] <= max_len /\ (lengths[s] # 0 <=> freqs[s] # 0)
        /\ Cardinality(Coded(freqs)) >= 2 => Kraft(lengths) = 2 ^ MAX_HUFFMAN_BITS)

\* Where no cap was needed, no complete code within the limit takes fewer bits.
CodeIsOptimal ==
    pc = "done" /\ freq_cap = UINT16_MAX /\ Cardinality(Coded(freqs)) >= 2 =>
        \A ls \in CompleteCodes[Coded(freqs), max_len] : Cost(lengths) <= Cost(ls)

\* Lowering the cap always ends in a code that is short enough.
Terminates == pc = "try_again" ~> pc = "done"

\* The part of the code space that the codewords of l bits and less take up,
\* in codewords of MAX_HUFFMAN_BITS bits.
Taken(l) ==
    LET t[k \in 0 .. l] ==
          IF k = 0 THEN 0 ELSE t[k - 1] + count(lengths, k) * 2 ^ (MAX_HUFFMAN_BITS - k)
    IN  t[l]

\* A prefix code with these lengths exists.
IsPrefixCode == Taken(MAX_HUFFMAN_BITS) <= 2 ^ MAX_HUFFMAN_BITS

\* Does the stream bits start with the codeword of s?
StartsWith(s) == lengths[s] # 0 /\ lsb(bits, lengths[s]) = Codeword(lengths, s)

\* Whatever prefix code the decoder was given, table, sentinels and offsets find
\* the symbol whose codeword the encoder would write there, with its length, and
\* find none exactly where no codeword begins.  With lengths that are no prefix
\* code, which can pass, at least no entry that was never filled is read.
DecodesCanonically ==
    pc = "decoded" =>
        /\ result.sym \in DOMAIN lengths \/ result = NoSymbol
        /\ IsPrefixCode => \A s \in DOMAIN lengths :
              StartsWith(s) <=> result = [sym |-> s, used |-> lengths[s]]

\* Every prefix code is accepted, and nothing else as long as no codeword has
\* the full MAX_HUFFMAN_BITS bits: Inflate, whose lengths are below, needs no
\* check of its own.
AcceptsPrefixCodes ==
    /\ pc = "refused" => ~IsPrefixCode
    /\ pc = "ready" /\ OfLength(lengths, MAX_HUFFMAN_BITS) = {} => IsPrefixCode

\* huffman.h:38-40: false if the lengths are not those of a valid prefix code.
RefusesInvalid == pc = "ready" => IsPrefixCode
================================================================================
