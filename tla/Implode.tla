---------------------------------- MODULE Implode ---------------------------------
(***************************************************************************)
(* Method 6: hwimplode and hwexplode of hwzip/implode.c.  Tokens are held  *)
(* in a buffer; when it is full, or at the end, Huffman codes are made     *)
(* from what is in it, in which every symbol has a codeword, and written   *)
(* with the buffer.  Later tokens use the same codes.                      *)
(*                                                                         *)
(* Archives of PKZip 1.01 count lengths from another minimum; the reader   *)
(* (zip_extract_member) tries the documented one first, then theirs.       *)
(***************************************************************************)
EXTENDS HuffmanCode, LzTokens, SequencesExt

CONSTANTS
    BYTE_BITS,         \* 8; a run of codeword lengths is a byte of two halves
    SYM_BITS,          \* 6, length symbols and high bits of distances
    LargeBits,         \* 7, low bits of a distance in a large window
    BUFFER_CAP,        \* 32768
    Inputs, Caps,      \* bounds of the model: inputs, room for the output in bits
    Fragile            \* inputs whose stream may be damaged before it is read, or
                       \* made by PKZip 1.01

\* A match is no shorter than the least length that can be written.
ASSUME ImplodeAssumption ==
    /\ BYTE_BITS \in Nat /\ SYM_BITS \in Nat /\ LargeBits \in Nat
    /\ BYTE_BITS % 2 = 0 /\ MAX_HUFFMAN_BITS = 2 ^ (BYTE_BITS \div 2)
    /\ LargeBits > 1 /\ BUFFER_CAP \in Nat \ {0}
    /\ BUFFER_CAP + 2 ^ BYTE_BITS <= UINT16_MAX
    /\ MIN_LEN >= 3 /\ Inputs \subseteq Seq(0 .. 2 ^ BYTE_BITS - 1)

VARIABLES
    phase,             \* what runs; "gave_up", "ok" and "error" are results
    large_wnd, lit_tree,
    old_pkzip,         \* was the archive made by PKZip 1.01?
    src, pos,          \* the input, and how much of it the matcher has passed
    buffer, buffer_flushed,
    codes,             \* codeword lengths: codes.lit, codes.len, codes.dist
    os,                \* the stream: written, then read
    intact,            \* ... as it was written
    pk101_bug_compat, rpos, lens, dst

mode == <<large_wnd, lit_tree, old_pkzip, src>>
writing == <<pos, buffer, buffer_flushed, codes>>
reading == <<pk101_bug_compat, rpos, lens, dst>>
vars == <<phase, mode, writing, os, intact, reading>>

Byte == 0 .. 2 ^ BYTE_BITS - 1
Sym == 0 .. 2 ^ SYM_BITS - 1
LAST == 2 ^ SYM_BITS - 1
NIBBLE == BYTE_BITS \div 2

LowBits == IF large_wnd THEN LargeBits ELSE LargeBits - 1
max_dist == 2 ^ (SYM_BITS + LowBits)

MinLen(flag) == IF flag THEN 3 ELSE 2
\* The minimum the compressor counts from.
min_len == MinLen(IF old_pkzip THEN large_wnd ELSE lit_tree)
max_len == min_len + LAST + 2 ^ BYTE_BITS - 1

dist_sym(dist) == (dist - 1) \div 2 ^ LowBits
len_sym(len) == AtMost(len - min_len, LAST)

Init ==
    /\ phase = "compress"
    /\ large_wnd \in BOOLEAN /\ lit_tree \in BOOLEAN
    /\ src \in Inputs /\ pos = 0
    /\ old_pkzip \in BOOLEAN /\ (old_pkzip => src \in Fragile)
    /\ buffer = <<>> /\ buffer_flushed = FALSE
    /\ codes = [lit |-> <<>>, len |-> <<>>, dist |-> <<>>]
    /\ os \in {ostream(cap) : cap \in Caps} /\ intact = TRUE
    /\ pk101_bug_compat = FALSE /\ rpos = 0 /\ lens = <<>> /\ dst = <<>>

--------------------------------------------------------------------------------
(***************************************************************************)
(* The compressor.                                                         *)
(***************************************************************************)
\* The codeword lengths: scaled frequencies, at least one for every symbol.
init_encoder(freqs) ==
    LET freq_sum == MapThenSumSet(LAMBDA s : freqs[s], DOMAIN freqs)
        zero_freqs == Cardinality({s \in DOMAIN freqs : freqs[s] = 0})
        scale_factor == UINT16_MAX \div (freq_sum + zero_freqs)
    IN  compute_huffman_lengths(
          [s \in DOMAIN freqs |-> IF freqs[s] = 0 THEN 1 ELSE freqs[s] * scale_factor],
          MAX_HUFFMAN_BITS)

\* Codewords are written with their bits flipped.
Coded1(lengths, s) == [i \in 1 .. lengths[s] |-> 1 - Bits(Codeword(lengths, s), lengths[s])[i]]

write_lit(c, lit) ==
    <<1>> \o IF lit_tree THEN Coded1(c.lit, lit) ELSE Bits(lit, BYTE_BITS)

\* Mutant of write_backref: the last length symbol without its byte where that is 0.
backref_without_zero(c, dist, len) ==
    <<0>> \o Bits(dist - 1, LowBits) \o Coded1(c.dist, dist_sym(dist)) \o Coded1(c.len, len_sym(len))
          \o IF len - min_len > LAST THEN Bits(len - LAST - min_len, BYTE_BITS) ELSE <<>>

write_backref(c, dist, len) ==
    <<0>> \o Bits(dist - 1, LowBits) \o Coded1(c.dist, dist_sym(dist)) \o Coded1(c.len, len_sym(len))
          \o IF len_sym(len) = LAST THEN Bits(len - LAST - min_len, BYTE_BITS) ELSE <<>>

\* Where runs of equal lengths end: at a change and after 2^NIBBLE of them.
RunStarts(lengths) ==
    LET change == {i \in DOMAIN lengths : i = 0 \/ lengths[i] # lengths[i - 1]}
        since(i) == i - Max({j \in change : j <= i})
    IN  {i \in DOMAIN lengths : since(i) % 2 ^ NIBBLE = 0}

\* The number of runs, then length and number of each, all less one.
write_huffman_code(lengths) ==
    LET n == Cardinality(DOMAIN lengths)
        starts == RunStarts(lengths)
        run(i) == Min({j \in starts \cup {n} : j > i}) - i
    IN  Bits(Cardinality(starts) - 1, BYTE_BITS)
          \o FlattenSeq([k \in 1 .. n |->
                IF k - 1 \in starts
                THEN Bits(lengths[k - 1] - 1, NIBBLE) \o Bits(run(k - 1) - 1, NIBBLE)
                ELSE <<>>])

TokenBits(c, t) == IF t.dist = 0 THEN write_lit(c, t.len) ELSE write_backref(c, t.dist, t.len)

\* How often each value occurs.
Freqs(values, syms) ==
    [v \in values |-> Cardinality({i \in DOMAIN syms : syms[i] = v})]

Encoders(tk) ==
    LET lits == SelectSeq(tk, LAMBDA t : t.dist = 0)
        refs == SelectSeq(tk, LAMBDA t : t.dist # 0)
    IN  [lit |-> IF lit_tree THEN init_encoder(Freqs(Byte, [i \in DOMAIN lits |-> lits[i].len]))
                 ELSE <<>>,
         len |-> init_encoder(Freqs(Sym, [i \in DOMAIN refs |-> len_sym(refs[i].len)])),
         dist |-> init_encoder(Freqs(Sym, [i \in DOMAIN refs |-> dist_sym(refs[i].dist)]))]

\* A write that does not fit ends hwimplode.
Emit(bits) ==
    /\ os' = Put(os, bits)
    /\ phase' = IF os'.ok THEN phase ELSE "gave_up"

flush_buffer(tk) ==
    /\ buffer_flushed' = TRUE
    /\ codes' = Encoders(tk)
    /\ Emit((IF lit_tree THEN write_huffman_code(codes'.lit) ELSE <<>>)
              \o write_huffman_code(codes'.len) \o write_huffman_code(codes'.dist)
              \o FlattenSeq([i \in 1 .. Len(tk) |-> TokenBits(codes', tk[i])]))

\* Both callbacks: after the flush a token is written at once.
Token(t, n) ==
    /\ phase = "compress"
    /\ IF buffer_flushed
       THEN Emit(TokenBits(codes, t)) /\ UNCHANGED <<buffer, buffer_flushed, codes>>
       ELSE /\ buffer' = Append(buffer, t)
            /\ IF Len(buffer') = BUFFER_CAP
               THEN flush_buffer(buffer')
               ELSE UNCHANGED <<phase, os, buffer_flushed, codes>>
    /\ pos' = IF phase' = "gave_up" THEN pos ELSE pos + n
    /\ UNCHANGED <<mode, intact, reading>>

lit_callback == pos < Len(src) /\ Token([dist |-> 0, len |-> src[pos + 1]], 1)

backref_callback ==
    \E r \in Backrefs(src, pos, max_dist, max_len, TRUE) : Token(r, r.len)

FlushAtEnd ==
    /\ phase = "compress" /\ pos = Len(src) /\ ~buffer_flushed
    /\ flush_buffer(buffer)
    /\ UNCHANGED <<mode, pos, buffer, intact, reading>>

\* hwimplode returns; the stream is found again, perhaps damaged.
Written ==
    /\ phase = "compress" /\ pos = Len(src) /\ buffer_flushed
    /\ phase' = "codes"
    /\ LET stream == Padded(os.bits, BYTE_BITS)
       IN  \/ os' = [os EXCEPT !.bits = stream] /\ UNCHANGED intact
          \/ /\ src \in Fragile
             /\ \E bits \in Damaged(stream) : os' = [os EXCEPT !.bits = bits]
             /\ intact' = FALSE
    /\ UNCHANGED <<mode, writing, reading>>

--------------------------------------------------------------------------------
(***************************************************************************)
(* The decompressor.                                                       *)
(***************************************************************************)
Error == phase' = "error" /\ UNCHANGED <<mode, writing, os, intact, reading>>

\* read_huffman_code: the runs at rpos, and the lengths they stand for.
NumRuns == istream_bits(os.bits, rpos, BYTE_BITS) + 1

RunLengths ==
    FlattenSeq([k \in 1 .. NumRuns |->
        [j \in 1 .. istream_bits(os.bits, rpos + k * BYTE_BITS + NIBBLE, NIBBLE) + 1 |->
            istream_bits(os.bits, rpos + k * BYTE_BITS, NIBBLE) + 1]])

NumLens == IF lit_tree /\ lens = <<>> THEN 2 ^ BYTE_BITS ELSE 2 ^ SYM_BITS

\* Mutant of TreeFull: codewords may be left over.
TreeNotOverfull(ls) ==
    MapThenSumSet(LAMBDA s : 2 ^ (MAX_HUFFMAN_BITS - ls[s]), DOMAIN ls) <= 2 ^ MAX_HUFFMAN_BITS

\* The loop over avail_codewords ends at zero and is never below.
TreeFull(ls) ==
    MapThenSumSet(LAMBDA s : 2 ^ (MAX_HUFFMAN_BITS - ls[s]), DOMAIN ls) = 2 ^ MAX_HUFFMAN_BITS

\* ... by symbol.
CodeLengths == [s \in 0 .. NumLens - 1 |-> RunLengths[s + 1]]

CodeReadable ==
    /\ Has(os.bits, rpos, (1 + NumRuns) * BYTE_BITS)
    /\ Len(RunLengths) = NumLens /\ TreeFull(CodeLengths)

\* The codes in the order they are read.
ReadCode ==
    /\ phase = "codes" /\ CodeReadable
    /\ lens' = Append(lens, CodeLengths)
    /\ rpos' = rpos + (1 + NumRuns) * BYTE_BITS
    /\ phase' = IF Len(lens') = (IF lit_tree THEN 3 ELSE 2) THEN "tokens" ELSE "codes"
    /\ UNCHANGED <<mode, writing, os, intact, pk101_bug_compat, dst>>

BadCode == phase = "codes" /\ ~CodeReadable /\ Error

\* huffman_decode of the flipped bits after the given number of bits.
Decode(lengths, after) ==
    huffman_decode(lengths, 2 ^ MAX_HUFFMAN_BITS - 1 - istream_bits(os.bits, rpos + after, MAX_HUFFMAN_BITS))

DistCode == lens[Len(lens)]
LenCode == lens[Len(lens) - 1]

InTokens == phase = "tokens" /\ Len(dst) < Len(src)
IsLiteral == istream_bits(os.bits, rpos, 1) = 1

Outputs(bytes, used) ==
    /\ dst' = bytes /\ rpos' = rpos + used
    /\ UNCHANGED <<phase, mode, writing, os, intact, pk101_bug_compat, lens>>

ReadLiteral ==
    /\ InTokens /\ IsLiteral
    /\ LET d == IF lit_tree THEN Decode(lens[1], 1)
                ELSE [sym |-> istream_bits(os.bits, rpos + 1, BYTE_BITS), used |-> BYTE_BITS]
       IN  IF Has(os.bits, rpos, 1 + d.used)
           THEN Outputs(Append(dst, d.sym), 1 + d.used)
           ELSE Error

\* Distance and length of the back reference at rpos, and the bits they take.
BackrefAt ==
    LET hi == Decode(DistCode, 1 + LowBits)
        after == 1 + LowBits + hi.used
        l == Decode(LenCode, after)
        extra == IF l.sym = LAST THEN BYTE_BITS ELSE 0
    IN  [dist |-> istream_bits(os.bits, rpos + 1, LowBits) + hi.sym * 2 ^ LowBits + 1,
         len |-> l.sym + MinLen(IF pk101_bug_compat THEN large_wnd ELSE lit_tree)
                   + istream_bits(os.bits, rpos + after + l.used, extra),
         used |-> after + l.used + extra]

ReadBackref ==
    /\ InTokens /\ ~IsLiteral
    /\ LET r == BackrefAt
       IN  IF Has(os.bits, rpos, r.used) /\ r.len <= Len(src) - Len(dst)
           THEN Outputs(output_backref(dst, r.dist, r.len), r.used)
           ELSE Error

AllUsed == round_up(rpos, BYTE_BITS) = Len(os.bits)

Done ==
    /\ phase = "tokens" /\ Len(dst) >= Len(src)
    /\ phase' = IF AllUsed THEN "ok" ELSE "error"
    /\ UNCHANGED <<mode, writing, os, intact, reading>>

\* Mutant of TryPk101: the second attempt goes on where the first one ended.
TryFromThere ==
    /\ phase = "error" /\ ~pk101_bug_compat
    /\ phase' = "codes" /\ pk101_bug_compat' = TRUE
    /\ UNCHANGED <<mode, writing, os, intact, rpos, lens, dst>>

\* The second call of hwexplode in zip_extract_member.
TryPk101 ==
    /\ phase = "error" /\ ~pk101_bug_compat
    /\ phase' = "codes" /\ pk101_bug_compat' = TRUE
    /\ rpos' = 0 /\ lens' = <<>> /\ dst' = <<>>
    /\ UNCHANGED <<mode, writing, os, intact>>

Next ==
    \/ lit_callback \/ backref_callback \/ FlushAtEnd \/ Written
    \/ ReadCode \/ BadCode \/ ReadLiteral \/ ReadBackref \/ Done \/ TryPk101

Spec == Init /\ [][Next]_vars

--------------------------------------------------------------------------------
(***************************************************************************)
(* Properties                                                              *)
(***************************************************************************)
TypeOK ==
    /\ phase \in {"compress", "gave_up", "codes", "tokens", "ok", "error"}
    /\ {large_wnd, lit_tree, old_pkzip, buffer_flushed, intact, pk101_bug_compat} \subseteq BOOLEAN
    /\ pos \in 0 .. Len(src) /\ rpos \in 0 .. Len(os.bits)
    /\ Len(buffer) <= BUFFER_CAP /\ \A i \in DOMAIN buffer : buffer[i].dist \in 0 .. max_dist
    /\ os.bits \in Seq({0, 1}) /\ dst \in Seq(Byte) /\ Len(dst) <= Len(src)
    /\ Len(lens) <= 3 /\ \A k \in DOMAIN lens : Range(lens[k]) \subseteq 1 .. MAX_HUFFMAN_BITS

\* hwexplode accepts and gives back what hwimplode was given, with codes made from a part of
\* the tokens only and symbols that did not occur in it used afterwards.  Nothing
\* is promised of a damaged stream or of one of PKZip 1.01.
Codec == INSTANCE Lossless WITH
    Bytes <- Byte,
    input <- IF old_pkzip THEN <<>> ELSE SubSeq(src, 1, pos),
    output <- IF intact /\ ~old_pkzip THEN dst ELSE <<>>,
    outcome <- IF old_pkzip THEN "open"
               ELSE IF ~intact THEN "gave_up"
               ELSE CASE phase = "gave_up" -> "gave_up"
                      [] phase = "ok" -> "done"
                      [] phase = "error" -> "refused"
                      [] OTHER -> "open"

ImplementsLossless == Codec!Spec

\* All variables have their types.  Whatever the stream, lengths that pass the check for a full tree are a code
\* that the Huffman decoder accepts and that has a symbol for any bits at all.
NoAssertFails ==
    /\ TypeOK
    /\ \A k \in DOMAIN lens : huffman_decoder_init(lens[k])
    /\ InTokens /\ IsLiteral /\ lit_tree => Decode(lens[1], 1).sym \in Byte
    /\ InTokens /\ ~IsLiteral => Decode(DistCode, 1 + LowBits).sym \in Sym /\ BackrefAt.len >= 2

\* An archive of PKZip 1.01 that the documented minimum does not fit is read in
\* the second attempt; data that is not the file's is taken for it in the first
\* attempt only, where the two minimums differ (its CRC is then wrong).
Pk101Extracted ==
    intact =>
        /\ ~(phase = "error" /\ pk101_bug_compat)
        /\ phase = "ok" /\ dst # src => old_pkzip /\ ~pk101_bug_compat /\ large_wnd # lit_tree
================================================================================
