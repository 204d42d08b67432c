---------------------------------- MODULE Deflate ---------------------------------
(***************************************************************************)
(* Method 8: hwdeflate and hwinflate of hwzip/deflate.c.  Tokens collect   *)
(* in a block until the next one would make it too long; the block is then *)
(* written as it is, with the fixed codes or with codes of its own, which- *)
(* ever takes the fewest bits.  The alphabets and the tables of lengths    *)
(* and distances (tables.c) are parameters.                                *)
(***************************************************************************)
EXTENDS HuffmanCode, LzTokens, SequencesExt

CONSTANTS
    BYTE_BITS,              \* 8
    litlen_tbl, dist_tbl,   \* base and extra bits of every length, distance symbol
    MAX_LEN, MAX_DISTANCE,  \* 258, 32768
    fixed_litlen_lengths, fixed_dist_lengths,
    CODELEN_MAX_LIT,        \* 15, the longest codeword
    CODELEN_LIMIT,          \* 7, the longest codeword of a codeword length
    CODELEN_BITS,           \* 3, the bits it is written with
    codelen_lengths_order,
    HLIT, HDIST, HCLEN,     \* 5, 5, 4: bits of the numbers of lengths
    MIN_CODELEN_LENS,       \* 4
    COPY_MIN, COPY_BITS,    \* 3, 2
    ZEROS_MIN, ZEROS_BITS,  \* 3, 3
    ZEROS2_BITS,            \* 7; the minimum follows the maximum of ZEROS
    LEN_BITS,               \* 16, the length of an uncompressed block
    MAX_BLOCK_LEN_BYTES,    \* 65534
    CHUNK,                  \* 8, the bytes of a 64-bit write
    Inputs, Caps,           \* bounds of the model: inputs, room for the output in bits
    Fragile                 \* inputs whose stream may be damaged before it is read

LITLEN_EOB == 2 ^ BYTE_BITS
LITLEN_MAX == LITLEN_EOB + Len(litlen_tbl)
DISTSYM_MAX == Len(dist_tbl) - 1
Litlen == 0 .. LITLEN_MAX
DistSym == 0 .. DISTSYM_MAX
MIN_LITLEN_LENS == LITLEN_EOB + 1
MAX_CODELEN_LENS == Len(codelen_lengths_order)
CODELEN_COPY == CODELEN_MAX_LIT + 1
CODELEN_ZEROS == CODELEN_MAX_LIT + 2
CODELEN_ZEROS2 == CODELEN_MAX_LIT + 3
COPY_MAX == COPY_MIN + 2 ^ COPY_BITS - 1
ZEROS_MAX == ZEROS_MIN + 2 ^ ZEROS_BITS - 1
ZEROS2_MIN == ZEROS_MAX + 1
ZEROS2_MAX == ZEROS2_MIN + 2 ^ ZEROS2_BITS - 1

Byte == 0 .. LITLEN_EOB - 1

\* Base and extra bits of symbols that begin no later than least.
IsTable(tbl, least) ==
    /\ tbl \in Seq([base : Nat, ebits : Nat])
    /\ \E i \in DOMAIN tbl : tbl[i].base <= least

\* Lengths of a code that the decoder takes, with symbols at least up to last.
IsFixedCode(lengths, last) ==
    LET n == Cardinality(DOMAIN lengths)
    IN  /\ n \in Nat /\ n > last
        /\ lengths \in [0 .. n - 1 -> 0 .. CODELEN_MAX_LIT]
        /\ huffman_decoder_init(lengths)

ASSUME DeflateAssumption ==
    /\ {BYTE_BITS, MAX_LEN, MAX_DISTANCE, CODELEN_BITS, HLIT, HDIST, HCLEN, MIN_CODELEN_LENS, COPY_MIN,
        COPY_BITS, ZEROS_BITS, ZEROS2_BITS, LEN_BITS} \subseteq Nat
    /\ {CODELEN_MAX_LIT, CODELEN_LIMIT, ZEROS_MIN, MAX_BLOCK_LEN_BYTES, CHUNK} \subseteq Nat \ {0}
    /\ IsTable(litlen_tbl, MIN_LEN) /\ IsTable(dist_tbl, 1)
    /\ 2 * (LITLEN_MAX + 1) <= UINT16_MAX /\ 2 * (DISTSYM_MAX + 1) <= UINT16_MAX
    /\ CODELEN_MAX_LIT < MAX_HUFFMAN_BITS
    /\ 2 ^ CODELEN_MAX_LIT > LITLEN_MAX /\ 2 ^ CODELEN_MAX_LIT > DISTSYM_MAX
    /\ IsFixedCode(fixed_litlen_lengths, LITLEN_MAX) /\ IsFixedCode(fixed_dist_lengths, DISTSYM_MAX)
    /\ CODELEN_LIMIT < 2 ^ CODELEN_BITS /\ 2 ^ CODELEN_LIMIT >= MAX_CODELEN_LENS
    /\ 2 ^ CODELEN_BITS <= MAX_HUFFMAN_BITS + 1 /\ 2 * MAX_CODELEN_LENS <= UINT16_MAX
    /\ MAX_CODELEN_LENS = CODELEN_MAX_LIT + 4
    /\ codelen_lengths_order \in Seq(Nat) /\ Range(codelen_lengths_order) = 0 .. MAX_CODELEN_LENS - 1
    /\ MIN_CODELEN_LENS + 2 ^ HCLEN > MAX_CODELEN_LENS
    /\ MAX_BLOCK_LEN_BYTES + 1 <= UINT16_MAX /\ MAX_BLOCK_LEN_BYTES < 2 ^ LEN_BITS
    /\ MAX_LEN <= MAX_BLOCK_LEN_BYTES
    /\ BYTE_BITS > 0 /\ LEN_BITS % BYTE_BITS = 0
    /\ Inputs \subseteq Seq(Byte)

VARIABLES
    phase,                  \* what runs; "gave_up", "ok" and "error" are results
    src, pos,               \* the input, and how much of it the matcher has passed
    block, block_len_bytes, \* the tokens of the block, the bytes they stand for
    block_src,              \* where it begins
    os,                     \* the stream: written, then read
    rpos, bfinal,           \* reader: bits used, is this the last block
    codelen, lens, num_lens, \* reader: the code of codeword lengths, those read so far,
                            \* how many there are of each kind
    codes,                  \* reader: the codeword lengths of the block
    dst,
    touched,                \* bytes of dst written to, with whole chunks
    damaged                 \* is the stream not the one that was written?

writing == <<src, pos, block, block_len_bytes, block_src>>
header == <<codelen, lens, num_lens>>
reading == <<rpos, bfinal, header, codes, dst, touched>>
vars == <<phase, writing, os, damaged, reading>>

Init ==
    /\ phase = "compress"
    /\ src \in Inputs /\ pos = 0
    /\ block = <<>> /\ block_len_bytes = 0 /\ block_src = 0
    /\ os \in {ostream(cap) : cap \in Caps}
    /\ rpos = 0 /\ bfinal = FALSE
    /\ codelen = <<>> /\ lens = <<>> /\ num_lens = [litlen |-> 0, dist |-> 0]
    /\ codes = [litlen |-> <<>>, dist |-> <<>>]
    /\ dst = <<>> /\ touched = 0 /\ damaged = FALSE

--------------------------------------------------------------------------------
(***************************************************************************)
(* Symbols.  A literal, and the end of the block, is a token of distance 0 *)
(* with its symbol as its len.                                             *)
(***************************************************************************)
\* The symbol whose range begins last at or before x: len2litlen, distance2dist.
SymOf(tbl, x) == CHOOSE i \in DOMAIN tbl :
    tbl[i].base <= x /\ \A j \in DOMAIN tbl : tbl[j].base <= x => j <= i

LitlenOf(t) == IF t.dist = 0 THEN t.len ELSE LITLEN_EOB + SymOf(litlen_tbl, t.len)
distance2dist(dist) == SymOf(dist_tbl, dist) - 1

litlen_freqs(blk) == [s \in Litlen |-> Cardinality({i \in DOMAIN blk : LitlenOf(blk[i]) = s})]

dist_freqs(blk) ==
    [s \in DistSym |->
        Cardinality({i \in DOMAIN blk : blk[i].dist # 0 /\ distance2dist(blk[i].dist) = s})]

LitlenEbits(s) == IF s > LITLEN_EOB THEN litlen_tbl[s - LITLEN_EOB].ebits ELSE 0

--------------------------------------------------------------------------------
(***************************************************************************)
(* The codes of a dynamic block, and their description.                    *)
(***************************************************************************)
\* At least two distance symbols get a codeword.
tweak_dist_encoder(ls) ==
    LET used == {s \in DistSym : ls[s] # 0}
    IN  IF Cardinality(used) >= 2 THEN ls
        ELSE IF used \subseteq {0} THEN [ls EXCEPT ![0] = 1, ![1] = 1]
        ELSE [ls EXCEPT ![0] = 1]

\* Number of lengths up to the last one that is not zero, but at least min.
Significant(ls, min) == Max({s + 1 : s \in {t \in DOMAIN ls : ls[t] # 0}} \cup {min})

Prefix(ls, n) == [i \in 1 .. n |-> ls[i - 1]]

Plain(sym) == [sym |-> sym, count |-> 0]

\* Runs of zeros, and copies of the length before, become one symbol each.
encode_lens(lens_) ==
    LET n == Len(lens_)
        run(i, max) == Max({k \in 0 .. AtMost(max, n - i + 1) : \A j \in 0 .. k - 1 : lens_[i + j] = lens_[i]})
        enc[i \in 1 .. n + 1] ==
          IF i > n THEN <<>>
          ELSE IF lens_[i] = 0
          THEN LET k == run(i, ZEROS2_MAX)
               IN  IF k < ZEROS_MIN THEN <<Plain(0)>> \o enc[i + 1]
                   ELSE <<[sym |-> IF k <= ZEROS_MAX THEN CODELEN_ZEROS ELSE CODELEN_ZEROS2,
                           count |-> k]>> \o enc[i + k]
          ELSE LET k == run(i, COPY_MAX + 1) - 1
               IN  <<Plain(lens_[i])>> \o
                   IF k < COPY_MIN THEN enc[i + 1]
                   ELSE <<[sym |-> CODELEN_COPY, count |-> k]>> \o enc[i + 1 + k]
    IN  enc[1]

CodelenEbits(sym) ==
    CASE sym = CODELEN_COPY -> COPY_BITS
      [] sym = CODELEN_ZEROS -> ZEROS_BITS
      [] sym = CODELEN_ZEROS2 -> ZEROS2_BITS
      [] OTHER -> 0

CodelenMin(sym) ==
    CASE sym = CODELEN_COPY -> COPY_MIN
      [] sym = CODELEN_ZEROS -> ZEROS_MIN
      [] sym = CODELEN_ZEROS2 -> ZEROS2_MIN
      [] OTHER -> 0

codelen_freqs(encoded) ==
    [s \in 0 .. MAX_CODELEN_LENS - 1 |-> Cardinality({i \in DOMAIN encoded : encoded[i].sym = s})]

\* count_codelen_lens: in the order they are written, without zeros at the end.
count_codelen_lens(ls) ==
    Max({i \in 1 .. MAX_CODELEN_LENS : ls[codelen_lengths_order[i]] # 0})

\* encode_dist_litlen_lens.
Described(litlen, dist) ==
    LET num_litlen == Significant(litlen, 0)
        num_dist == Significant(dist, 1)
    IN  [litlen |-> litlen, dist |-> dist, num_litlen |-> num_litlen, num_dist |-> num_dist,
         encoded |-> encode_lens(Prefix(litlen, num_litlen) \o Prefix(dist, num_dist))]

WithCodelen(d) ==
    LET codelen_lengths == compute_huffman_lengths(codelen_freqs(d.encoded), CODELEN_LIMIT)
    IN  [k \in DOMAIN d \cup {"codelen"} |-> IF k = "codelen" THEN codelen_lengths ELSE d[k]]

DynamicCodes(blk) ==
    WithCodelen(Described(
        compute_huffman_lengths(litlen_freqs(blk), CODELEN_MAX_LIT),
        tweak_dist_encoder(compute_huffman_lengths(dist_freqs(blk), CODELEN_MAX_LIT))))

FixedCodes == [litlen |-> fixed_litlen_lengths, dist |-> fixed_dist_lengths]

--------------------------------------------------------------------------------
(***************************************************************************)
(* What each kind of block takes, computed from the frequencies.           *)
(***************************************************************************)
uncomp_block_len(nbytes, bit_pos) ==
    3 + (round_up(bit_pos + 3, BYTE_BITS) - (bit_pos + 3)) + 2 * LEN_BITS + nbytes * BYTE_BITS

\* Mutant of huffman_block_body_len: the extra bits of distances are forgotten.
body_len_short(blk, c) ==
    MapThenSumSet(LAMBDA s : litlen_freqs(blk)[s] * (c.litlen[s] + LitlenEbits(s)), Litlen)
      + MapThenSumSet(LAMBDA s : dist_freqs(blk)[s] * c.dist[s], DistSym)

huffman_block_body_len(blk, c) ==
    MapThenSumSet(LAMBDA s : litlen_freqs(blk)[s] * (c.litlen[s] + LitlenEbits(s)), Litlen)
      + MapThenSumSet(LAMBDA s : dist_freqs(blk)[s] * (c.dist[s] + dist_tbl[s + 1].ebits), DistSym)

static_block_len(blk) == 3 + huffman_block_body_len(blk, FixedCodes)

dyn_block_len(blk, d) ==
    3 + HLIT + HDIST + HCLEN + CODELEN_BITS * count_codelen_lens(d.codelen)
      + MapThenSumSet(LAMBDA s : codelen_freqs(d.encoded)[s] * (d.codelen[s] + CodelenEbits(s)),
                      0 .. MAX_CODELEN_LENS - 1)
      + huffman_block_body_len(blk, d)

--------------------------------------------------------------------------------
(***************************************************************************)
(* Writing a block.                                                        *)
(***************************************************************************)
Code(ls, s) == Bits(Codeword(ls, s), ls[s])

TokenBits(c, t) ==
    LET l == SymOf(litlen_tbl, t.len)
        d == SymOf(dist_tbl, t.dist)
    IN  Code(c.litlen, LitlenOf(t)) \o
        IF t.dist = 0 THEN <<>>
        ELSE Bits(t.len - litlen_tbl[l].base, litlen_tbl[l].ebits)
               \o Code(c.dist, d - 1) \o Bits(t.dist - dist_tbl[d].base, dist_tbl[d].ebits)

write_huffman_block(blk, c) == FlattenSeq([i \in 1 .. Len(blk) |-> TokenBits(c, blk[i])])

Head3(final, type) == <<IF final THEN 1 ELSE 0>> \o Bits(type, 2)

write_dynamic_block(final, blk, d) ==
    LET n == count_codelen_lens(d.codelen)
        e(i) == d.encoded[i]
    IN  Head3(final, 2)
          \o Bits(d.num_litlen - MIN_LITLEN_LENS, HLIT) \o Bits(d.num_dist - 1, HDIST)
          \o Bits(n - MIN_CODELEN_LENS, HCLEN)
          \o FlattenSeq([i \in 1 .. n |-> Bits(d.codelen[codelen_lengths_order[i]], CODELEN_BITS)])
          \o FlattenSeq([i \in 1 .. Len(d.encoded) |->
                Code(d.codelen, e(i).sym) \o Bits(e(i).count - CodelenMin(e(i).sym), CodelenEbits(e(i).sym))])
          \o write_huffman_block(blk, d)

write_uncomp_block(stream, final) ==
    ostream_write_bytes_aligned(
        Put(Put(stream, Head3(final, 0)),
            Bits(0, round_up(Len(stream.bits) + 3, BYTE_BITS) - Len(stream.bits) - 3)
              \o Bits(block_len_bytes, LEN_BITS) \o Bits(2 ^ LEN_BITS - 1 - block_len_bytes, LEN_BITS)),
        SubSeq(src, block_src + 1, block_src + block_len_bytes), BYTE_BITS)

WithEOB == Append(block, [dist |-> 0, len |-> LITLEN_EOB])

\* The kind of block that takes the fewest bits; ties go to the simpler one.
\* A write that does not fit ends hwdeflate.
write_block(final, d) ==
    LET uncomp_len == uncomp_block_len(block_len_bytes, Len(os.bits))
        static_len == static_block_len(WithEOB)
        dynamic_len == dyn_block_len(WithEOB, d)
    IN  os' = IF uncomp_len <= dynamic_len /\ uncomp_len <= static_len
              THEN write_uncomp_block(os, final)
              ELSE IF static_len <= dynamic_len
              THEN Put(os, Head3(final, 1) \o write_huffman_block(WithEOB, FixedCodes))
              ELSE Put(os, write_dynamic_block(final, WithEOB, d))

--------------------------------------------------------------------------------
(***************************************************************************)
(* The compressor.                                                         *)
(***************************************************************************)
TooLongWith(n) == block_len_bytes + n > MAX_BLOCK_LEN_BYTES

\* Mutant of NextBlockSrc: the next block begins where this one did.
BlockSrcStays == block_src

NextBlockSrc == block_src + block_len_bytes

\* Both callbacks: the block is written first if the token does not fit into it.
Token(t, n) ==
    /\ phase = "compress"
    /\ IF TooLongWith(n)
       THEN /\ write_block(FALSE, DynamicCodes(WithEOB))
            /\ block_src' = NextBlockSrc
            /\ block' = <<t>> /\ block_len_bytes' = n
       ELSE /\ block' = Append(block, t) /\ block_len_bytes' = block_len_bytes + n
            /\ UNCHANGED <<os, block_src>>
    /\ phase' = IF os'.ok THEN phase ELSE "gave_up"
    /\ pos' = IF os'.ok THEN pos + n ELSE pos
    /\ UNCHANGED <<src, damaged, reading>>

lit_callback == pos < Len(src) /\ Token([dist |-> 0, len |-> src[pos + 1]], 1)

backref_callback ==
    \E r \in Backrefs(src, pos, MAX_DISTANCE, MAX_LEN, TRUE) : Token(r, r.len)

\* hwdeflate after the last token; the stream is found again, perhaps damaged.
LastBlock ==
    /\ phase = "compress" /\ pos = Len(src)
    /\ write_block(TRUE, DynamicCodes(WithEOB))
    /\ phase' = IF os'.ok THEN "written" ELSE "gave_up"
    /\ UNCHANGED <<writing, damaged, reading>>

Read ==
    /\ phase = "written" /\ phase' = "header"
    /\ LET stream == Padded(os.bits, BYTE_BITS)
       IN  \/ os' = [os EXCEPT !.bits = stream] /\ UNCHANGED damaged
          \/ /\ src \in Fragile
             /\ \E bits \in Damaged(stream) : os' = [os EXCEPT !.bits = bits]
             /\ damaged' = TRUE
    /\ UNCHANGED <<writing, reading>>

--------------------------------------------------------------------------------
(***************************************************************************)
(* The decompressor.                                                       *)
(***************************************************************************)
Peek(n) == istream_bits(os.bits, rpos, n)
Error == phase' = "error" /\ UNCHANGED <<writing, os, damaged, reading>>

\* Goes on with the next block, or, after the last one, returns: zip_extract_member
\* then wants all of the stream used and all of the file there.
EndBlock(used, bytes) ==
    phase' = IF ~bfinal THEN "header"
             ELSE IF round_up(used, BYTE_BITS) = Len(os.bits) /\ Len(bytes) = Len(src) THEN "ok"
             ELSE "error"

ReadHeader ==
    /\ phase = "header"
    /\ LET type == istream_bits(os.bits, rpos + 1, 2)
       IN  IF ~Has(os.bits, rpos, 3) \/ type = 3 THEN Error
           ELSE /\ bfinal' = (Peek(1) = 1)
                /\ rpos' = rpos + 3
                /\ phase' = <<"stored", "body", "dynamic">>[type + 1]
                /\ codes' = IF type = 1 THEN FixedCodes ELSE codes
                /\ UNCHANGED <<writing, os, damaged, header, dst, touched>>

\* inf_noncomp_block.
ReadStored ==
    /\ phase = "stored"
    /\ LET at == round_up(rpos, BYTE_BITS)
           len == istream_bits(os.bits, at, LEN_BITS)
           nlen == istream_bits(os.bits, at + LEN_BITS, LEN_BITS)
           data == at + 2 * LEN_BITS
       IN  IF Has(os.bits, data, len * BYTE_BITS) /\ nlen = 2 ^ LEN_BITS - 1 - len
              /\ len <= Len(src) - Len(dst)
           THEN /\ dst' = dst \o [i \in 1 .. len |-> istream_bits(os.bits, data + (i - 1) * BYTE_BITS, BYTE_BITS)]
                /\ rpos' = data + len * BYTE_BITS
                /\ touched' = Max({touched, Len(dst')})
                /\ EndBlock(rpos', dst')
                /\ UNCHANGED <<writing, os, damaged, bfinal, header, codes>>
           ELSE Error

\* init_dyn_decoders up to the code of the codeword lengths.
ReadDynHeader ==
    /\ phase = "dynamic"
    /\ LET n == istream_bits(os.bits, rpos + HLIT + HDIST, HCLEN) + MIN_CODELEN_LENS
           at == rpos + HLIT + HDIST + HCLEN
           place(s) == CHOOSE i \in 1 .. MAX_CODELEN_LENS : codelen_lengths_order[i] = s
           ls == [s \in 0 .. MAX_CODELEN_LENS - 1 |->
                    IF place(s) <= n
                    THEN istream_bits(os.bits, at + (place(s) - 1) * CODELEN_BITS, CODELEN_BITS)
                    ELSE 0]
       IN  IF Has(os.bits, at, n * CODELEN_BITS) /\ n <= MAX_CODELEN_LENS /\ huffman_decoder_init(ls)
           THEN /\ codelen' = ls /\ lens' = <<>>
                /\ num_lens' = [litlen |-> Peek(HLIT) + MIN_LITLEN_LENS,
                                dist |-> istream_bits(os.bits, rpos + HLIT, HDIST) + 1]
                /\ rpos' = at + n * CODELEN_BITS
                /\ phase' = "lens"
                /\ UNCHANGED <<writing, os, damaged, bfinal, codes, dst, touched>>
           ELSE Error

CodelenSym == huffman_decode(codelen, Peek(MAX_HUFFMAN_BITS))

\* The symbol s of the codeword lengths.
ReadLens(s) ==
    /\ phase = "lens" /\ Len(lens) < num_lens.litlen + num_lens.dist
    /\ LET ebits == CodelenEbits(s.sym)
           n == IF s.sym <= CODELEN_MAX_LIT THEN 1
                ELSE istream_bits(os.bits, rpos + s.used, ebits) + CodelenMin(s.sym)
           value == IF s.sym <= CODELEN_MAX_LIT THEN s.sym
                    ELSE IF s.sym = CODELEN_COPY THEN lens[Len(lens)] ELSE 0
       IN  IF /\ s.sym >= 0 /\ Has(os.bits, rpos, s.used + ebits)
              /\ s.sym = CODELEN_COPY => lens # <<>>
              /\ Len(lens) + n <= num_lens.litlen + num_lens.dist
           THEN /\ lens' = lens \o [i \in 1 .. n |-> value]
                /\ rpos' = rpos + s.used + ebits
                /\ UNCHANGED <<phase, writing, os, damaged, bfinal, codelen, num_lens, codes, dst, touched>>
           ELSE Error

\* The two decoders of the block.
InitDecoders ==
    /\ phase = "lens" /\ Len(lens) = num_lens.litlen + num_lens.dist
    /\ codes' = [litlen |-> [s \in 0 .. num_lens.litlen - 1 |-> lens[s + 1]],
                 dist |-> [s \in 0 .. num_lens.dist - 1 |-> lens[num_lens.litlen + s + 1]]]
    /\ phase' = IF huffman_decoder_init(codes'.litlen) /\ huffman_decoder_init(codes'.dist)
                THEN "body" ELSE "error"
    /\ UNCHANGED <<writing, os, damaged, rpos, bfinal, header, dst, touched>>

LitlenSym == huffman_decode(codes.litlen, Peek(MAX_HUFFMAN_BITS))

DistSymAt(after) == huffman_decode(codes.dist, istream_bits(os.bits, rpos + after, MAX_HUFFMAN_BITS))

\* The symbol s is none, or one without a meaning.
BadLitlen(s) ==
    /\ phase = "body"
    /\ s.sym \notin Litlen \/ ~Has(os.bits, rpos, s.used)
    /\ Error

Uses(used) == rpos' = rpos + used /\ UNCHANGED <<writing, os, damaged, bfinal, header, codes>>

ReadLiteral(s) ==
    /\ phase = "body" /\ s.sym \in Byte /\ Has(os.bits, rpos, s.used)
    /\ IF Len(dst) < Len(src)
       THEN /\ dst' = Append(dst, s.sym) /\ touched' = Max({touched, Len(dst')})
            /\ Uses(s.used) /\ UNCHANGED phase
       ELSE Error

ReadEOB(s) ==
    /\ phase = "body" /\ s.sym = LITLEN_EOB /\ Has(os.bits, rpos, s.used)
    /\ EndBlock(rpos + s.used, dst)
    /\ Uses(s.used) /\ UNCHANGED <<dst, touched>>

\* The back reference whose length has the entry l and whose distance follows
\* after len_bits as the symbol d; dist is 0 if that is none.
Backref(l, len_bits, d) ==
    LET ebits == IF d.sym \in DistSym THEN dist_tbl[d.sym + 1].ebits ELSE 0
        at == len_bits + d.used
    IN  [len |-> l.base + istream_bits(os.bits, rpos + len_bits - l.ebits, l.ebits),
         dist |-> IF d.sym \in DistSym
                  THEN dist_tbl[d.sym + 1].base + istream_bits(os.bits, rpos + at, ebits)
                  ELSE 0,
         used |-> at + ebits]

\* Mutant of InChunks: the length is compared as it is.
InChunksIfFits(len) == len <= Len(src) - Len(dst)

InChunks(len) == round_up(len, CHUNK) <= Len(src) - Len(dst)

CopyBackref(r) ==
    IF r.dist \in 1 .. Len(dst) /\ r.len <= Len(src) - Len(dst) /\ Has(os.bits, rpos, r.used)
    THEN /\ dst' = output_backref(dst, r.dist, r.len)
         /\ touched' = Max({touched, IF InChunks(r.len)
                                     THEN WrittenTo(dst, r.dist, r.len, CHUNK)
                                     ELSE Len(dst')})
         /\ Uses(r.used) /\ UNCHANGED phase
    ELSE Error

ReadBackref(s) ==
    /\ phase = "body" /\ s.sym \in LITLEN_EOB + 1 .. LITLEN_MAX
    /\ LET l == litlen_tbl[s.sym - LITLEN_EOB]
       IN  CopyBackref(Backref(l, s.used + l.ebits, DistSymAt(s.used + l.ebits)))

Next ==
    \/ lit_callback \/ backref_callback \/ LastBlock \/ Read
    \/ ReadHeader \/ ReadStored \/ ReadDynHeader \/ ReadLens(CodelenSym) \/ InitDecoders
    \/ BadLitlen(LitlenSym) \/ ReadLiteral(LitlenSym) \/ ReadEOB(LitlenSym)
    \/ ReadBackref(LitlenSym)

Spec == Init /\ [][Next]_vars

--------------------------------------------------------------------------------
(***************************************************************************)
(* Properties                                                              *)
(***************************************************************************)
TypeOK ==
    /\ phase \in {"compress", "gave_up", "written", "header", "stored", "body", "dynamic", "lens",
                  "ok", "error"}
    /\ pos \in 0 .. Len(src) /\ (phase # "gave_up" => block_src + block_len_bytes = pos)
    /\ block_len_bytes \in 0 .. MAX_BLOCK_LEN_BYTES
    /\ rpos \in 0 .. Len(os.bits) /\ os.bits \in Seq({0, 1})
    /\ bfinal \in BOOLEAN /\ damaged \in BOOLEAN
    /\ lens \in Seq(0 .. CODELEN_MAX_LIT) /\ dst \in Seq(Byte)
    /\ \A k \in {"litlen", "dist"} : Range(codes[k]) \subseteq 0 .. CODELEN_MAX_LIT

\* hwinflate accepts and gives back what hwdeflate was given, through blocks of
\* every kind that begin anywhere in a byte, and back references across them.
\* Nothing is promised of a damaged stream.
Codec == INSTANCE Lossless WITH
    Bytes <- Byte,
    input <- SubSeq(src, 1, pos),
    output <- IF damaged THEN <<>> ELSE dst,
    outcome <- IF damaged THEN "gave_up"
               ELSE CASE phase = "gave_up" -> "gave_up"
                      [] phase = "ok" -> "done"
                      [] phase = "error" -> "refused"
                      [] OTHER -> "open"

ImplementsLossless == Codec!Spec

\* The kind of a block is chosen by sizes computed from frequencies; the bits it
\* takes are then exactly the least of them (the assertions of write_block).
SizesAreExact ==
    [][(phase = "compress" /\ os' # os /\ os'.ok) =>
         Len(os'.bits) - Len(os.bits) =
            Min({uncomp_block_len(block_len_bytes, Len(os.bits)), static_block_len(WithEOB),
                 dyn_block_len(WithEOB, DynamicCodes(WithEOB))})]_vars

\* All variables have their types.  Whatever the stream, nothing is written past the buffer, whole chunks included,
\* and the decoders, whose lengths may be any, never yield an entry not filled in.
Contained ==
    /\ TypeOK
    /\ Len(dst) <= Len(src) /\ touched <= Len(src)
    /\ phase = "lens" => CodelenSym.sym >= -1
    /\ phase = "body" => LitlenSym.sym >= -1
================================================================================
