---------------------------------- MODULE Reduce ----------------------------------
(***************************************************************************)
(* Methods 2 to 5: hwreduce and hwexpand of hwzip/reduce.c.  Tokens become *)
(* bytes: a literal stands for itself, DLE begins a back reference.  Those *)
(* bytes are buffered until there are RAW_BYTES_SZ of them; then a set of  *)
(* likely followers is written for each byte value, and each byte of the   *)
(* buffer and each later one is written as its place in the set of the     *)
(* byte before it, or as it is.                                            *)
(***************************************************************************)
EXTENDS BitStream, LzTokens, FiniteSets, SequencesExt

CONSTANTS
    BYTE_BITS,       \* 8
    comp_factor,     \* 1 .. 4
    DLE_BYTE,        \* 144
    MAX_FOLLOWERS,   \* 32, the largest follower set
    SIZE_BITS,       \* 6, the bits of its size
    RAW_BYTES_SZ,    \* 65536
    CHUNK,           \* 8, the bytes of a 64-bit write
    Inputs, Caps,    \* bounds of the model: inputs, room for the output in bits
    Fragile          \* inputs whose stream may be damaged before it is read

\* No match of three bytes: see VByte.
ASSUME ReduceAssumption ==
    /\ BYTE_BITS \in Nat /\ comp_factor \in 1 .. BYTE_BITS - 1
    /\ DLE_BYTE \in 1 .. 2 ^ BYTE_BITS - 1
    /\ SIZE_BITS \in Nat \ {0} /\ MAX_FOLLOWERS \in 0 .. 2 ^ SIZE_BITS - 1
    /\ MAX_FOLLOWERS <= 2 ^ BYTE_BITS
    /\ RAW_BYTES_SZ \in Nat \ {0} /\ CHUNK \in Nat \ {0}
    /\ MIN_LEN > 3
    /\ Inputs \subseteq Seq(0 .. 2 ^ BYTE_BITS - 1) /\ Caps \subseteq Nat

VARIABLES
    phase,           \* what runs; "gave_up", "ok" and "error" are results
    src, pos,        \* the input, and how much of it the matcher has passed
    pending,         \* bytes on their way to write_byte
    raw,             \* raw_bytes, until they are flushed
    flushed,         \* raw_bytes_flushed
    fsets,           \* the follower sets of the compressor
    prev_byte,
    os,              \* the stream: written, then read
    rpos, sets,      \* reader: bits used, follower sets read
    curr_byte, v, len, dst,
    touched,         \* bytes of dst written to, with whole chunks
    damaged          \* is the stream not the one that was written?

writing == <<src, pos, pending, raw, flushed, fsets, prev_byte>>
reading == <<rpos, sets, curr_byte, v, len, dst, touched>>
vars == <<phase, writing, os, damaged, reading>>

BYTE == 2 ^ BYTE_BITS
Byte == 0 .. BYTE - 1
v_len_bits == BYTE_BITS - comp_factor
V_LEN_MAX == 2 ^ v_len_bits - 1
max_len == V_LEN_MAX + (BYTE - 1) + 3
max_dist == (2 ^ comp_factor - 1) * BYTE + (BYTE - 1) + 1

follower_idx_bw(n) == IF n = 0 THEN 0 ELSE CHOOSE b \in 1 .. SIZE_BITS :
                         2 ^ b >= n /\ \A c \in 1 .. b - 1 : 2 ^ c < n

Init ==
    /\ phase = "compress"
    /\ src \in Inputs /\ pos = 0
    /\ pending = <<>> /\ raw = <<>> /\ flushed = FALSE
    /\ fsets = [p \in Byte |-> <<>>] /\ prev_byte = 0
    /\ os \in {ostream(cap) : cap \in Caps}
    /\ rpos = 0 /\ sets = <<>> /\ curr_byte = 0 /\ v = 0 /\ len = 0
    /\ dst = <<>> /\ touched = 0 /\ damaged = FALSE

--------------------------------------------------------------------------------
(***************************************************************************)
(* Follower sets.                                                          *)
(***************************************************************************)
\* follower_count: how often each byte follows p in the buffer; a 0 precedes the
\* first.
follower_count(bytes, p) ==
    LET from == {i \in 1 .. Len(bytes) : p = IF i = 1 THEN 0 ELSE bytes[i - 1]}
    IN  [c \in Byte |-> Cardinality({i \in from : bytes[i] = c})]

\* From here on, counts are the followers of one byte.
Followers(counts) == {c \in Byte : counts[c] > 0}

\* follower_cmp: the place of c.
Place(counts, c) ==
    Cardinality({d \in Byte : counts[d] > counts[c] \/ (counts[d] = counts[c] /\ d < c)})

followers_cost(counts, n) ==
    LET times(C) == MapThenSumSet(LAMBDA c : counts[c], C)
        inSet == {c \in Followers(counts) : Place(counts, c) < n}
    IN  n * BYTE_BITS + times(inSet) * (1 + follower_idx_bw(n))
          + times(Followers(counts) \ inSet) * (IF n = 0 THEN BYTE_BITS ELSE 1 + BYTE_BITS)

\* The smallest size with the lowest cost.
BestSize(counts) ==
    LET cost == [n \in 0 .. MAX_FOLLOWERS |-> followers_cost(counts, n)]
    IN  CHOOSE n \in 0 .. MAX_FOLLOWERS : \A m \in 0 .. MAX_FOLLOWERS :
            cost[n] < cost[m] \/ (cost[n] = cost[m] /\ n <= m)

FollowerSet(counts) ==
    IF Followers(counts) = {} THEN <<>>
    ELSE [k \in 1 .. BestSize(counts) |-> CHOOSE c \in Byte : Place(counts, c) = k - 1]

SetBits(set) ==
    Bits(Len(set), SIZE_BITS) \o FlattenSeq([k \in 1 .. Len(set) |-> Bits(set[k], BYTE_BITS)])

\* From the last byte value to the first.
write_follower_sets(fs) == FlattenSeq([i \in 1 .. BYTE |-> SetBits(fs[BYTE - i])])

--------------------------------------------------------------------------------
(***************************************************************************)
(* The compressor.                                                         *)
(***************************************************************************)
Token(bytes, n) ==
    /\ phase = "compress" /\ pending = <<>>
    /\ pending' = bytes /\ pos' = pos + n
    /\ UNCHANGED <<phase, os, src, raw, flushed, fsets, prev_byte, damaged, reading>>

lit_callback ==
    /\ pos < Len(src)
    /\ Token(IF src[pos + 1] = DLE_BYTE THEN <<DLE_BYTE, 0>> ELSE <<src[pos + 1]>>, 1)

VByte(r) ==
    (IF r.len - 3 < V_LEN_MAX THEN r.len - 3 ELSE V_LEN_MAX)
        + ((r.dist - 1) \div BYTE) * 2 ^ v_len_bits

\* Mutant of BackrefBytes: the extra length byte only where it is not zero.
BackrefBytesShort(r) ==
    <<DLE_BYTE, VByte(r)>>
        \o (IF r.len - 3 > V_LEN_MAX THEN <<r.len - 3 - V_LEN_MAX>> ELSE <<>>)
        \o <<(r.dist - 1) % BYTE>>

BackrefBytes(r) ==
    <<DLE_BYTE, VByte(r)>>
        \o (IF r.len - 3 >= V_LEN_MAX THEN <<r.len - 3 - V_LEN_MAX>> ELSE <<>>)
        \o <<(r.dist - 1) % BYTE>>

backref_callback ==
    \E r \in Backrefs(src, pos, max_dist, max_len, FALSE) : Token(BackrefBytes(r), r.len)

\* A write that does not fit ends hwreduce.
Emit(bits) ==
    /\ os' = Put(os, bits)
    /\ phase' = IF os'.ok THEN phase ELSE "gave_up"

\* flush_raw_bytes: the follower sets are written; the bytes go through
\* write_byte again, ahead of the ones that are waiting.
Flush(bytes, rest) ==
    /\ flushed' = TRUE
    /\ fsets' = [p \in Byte |-> FollowerSet(follower_count(bytes, p))]
    /\ pending' = bytes \o rest
    /\ Emit(write_follower_sets(fsets'))

\* write_byte before the flush, which may come in the middle of a token.
BufferByte ==
    /\ phase = "compress" /\ pending # <<>> /\ ~flushed
    /\ raw' = Append(raw, Head(pending))
    /\ IF Len(raw') = RAW_BYTES_SZ
       THEN Flush(raw', Tail(pending))
       ELSE pending' = Tail(pending) /\ UNCHANGED <<phase, os, flushed, fsets>>
    /\ UNCHANGED <<src, pos, prev_byte, damaged, reading>>

\* hwreduce after the last token.
FlushAtEnd ==
    /\ phase = "compress" /\ pending = <<>> /\ ~flushed /\ pos = Len(src)
    /\ Flush(raw, <<>>)
    /\ UNCHANGED <<src, pos, raw, prev_byte, damaged, reading>>

\* Mutant of ByteBits: the followers of the byte itself are looked up.
ByteBitsOfOwnSet(prev, byte) ==
    LET set == fsets[byte]
    IN  IF \E k \in 1 .. Len(set) : set[k] = byte
        THEN <<0>> \o Bits((CHOOSE k \in 1 .. Len(set) : set[k] = byte) - 1, follower_idx_bw(Len(set)))
        ELSE (IF set = <<>> THEN <<>> ELSE <<1>>) \o Bits(byte, BYTE_BITS)

ByteBits(prev, byte) ==
    LET set == fsets[prev]
    IN  IF \E k \in 1 .. Len(set) : set[k] = byte
        THEN <<0>> \o Bits((CHOOSE k \in 1 .. Len(set) : set[k] = byte) - 1, follower_idx_bw(Len(set)))
        ELSE (IF set = <<>> THEN <<>> ELSE <<1>>) \o Bits(byte, BYTE_BITS)

\* write_byte after the flush.
WriteByte ==
    /\ phase = "compress" /\ pending # <<>> /\ flushed
    /\ prev_byte' = Head(pending)
    /\ pending' = Tail(pending)
    /\ Emit(ByteBits(prev_byte, Head(pending)))
    /\ UNCHANGED <<src, pos, raw, flushed, fsets, damaged, reading>>

\* The stream is padded to whole bytes; hwexpand starts.
Written ==
    /\ phase = "compress" /\ pending = <<>> /\ flushed /\ pos = Len(src)
    /\ phase' = "sets"
    /\ LET stream == Padded(os.bits, BYTE_BITS)
       IN  \/ os' = [os EXCEPT !.bits = stream] /\ UNCHANGED damaged
          \/ /\ src \in Fragile
             /\ \E bits \in Damaged(stream) : os' = [os EXCEPT !.bits = bits]
             /\ damaged' = TRUE
    /\ UNCHANGED <<writing, reading>>

--------------------------------------------------------------------------------
(***************************************************************************)
(* The decompressor.                                                       *)
(***************************************************************************)
Error == phase' = "error" /\ UNCHANGED <<writing, os, damaged, reading>>

\* read_follower_sets, one set: its size, then that many bytes.
SetSize == istream_bits(os.bits, rpos, SIZE_BITS)

SetReadable ==
    SetSize <= MAX_FOLLOWERS /\ Has(os.bits, rpos, SIZE_BITS + SetSize * BYTE_BITS)

ReadSet ==
    /\ phase = "sets" /\ Len(sets) < BYTE /\ SetReadable
    /\ sets' = Append(sets, [k \in 1 .. SetSize |->
                    istream_bits(os.bits, rpos + SIZE_BITS + (k - 1) * BYTE_BITS, BYTE_BITS)])
    /\ rpos' = rpos + SIZE_BITS + SetSize * BYTE_BITS
    /\ phase' = IF Len(sets') = BYTE THEN "item" ELSE "sets"
    /\ UNCHANGED <<writing, os, damaged, curr_byte, v, len, dst, touched>>

BadSet == phase = "sets" /\ ~SetReadable /\ Error

\* The sets came for the last value first.
SetOf(p) == sets[BYTE - p]

\* read_next_byte: which byte, and the bits it takes; a set that is not full has
\* places that stand for nothing.
Literal == SetOf(curr_byte) = <<>> \/ istream_bits(os.bits, rpos, 1) = 1

FollowerIdx == istream_bits(os.bits, rpos + 1, follower_idx_bw(Len(SetOf(curr_byte))))

NextBits ==
    IF SetOf(curr_byte) = <<>> THEN BYTE_BITS
    ELSE 1 + IF Literal THEN BYTE_BITS ELSE follower_idx_bw(Len(SetOf(curr_byte)))

NextByte ==
    IF Literal THEN istream_bits(os.bits, rpos + NextBits - BYTE_BITS, BYTE_BITS)
    ELSE SetOf(curr_byte)[FollowerIdx + 1]

Readable ==
    /\ Literal \/ FollowerIdx < Len(SetOf(curr_byte))
    /\ Has(os.bits, rpos, NextBits)

BadByte ==
    /\ phase \in {"v", "elb", "w"} \/ (phase = "item" /\ Len(dst) < Len(src))
    /\ ~Readable
    /\ Error

Reads(from, to) ==
    /\ phase = from /\ Readable
    /\ curr_byte' = NextByte /\ rpos' = rpos + NextBits
    /\ phase' = to
    /\ UNCHANGED <<writing, os, damaged, sets>>

Output(bytes, upto) ==
    /\ dst' = bytes
    /\ touched' = IF upto > touched THEN upto ELSE touched

ReadLiteral ==
    /\ Len(dst) < Len(src)
    /\ Reads("item", "item") /\ NextByte # DLE_BYTE
    /\ Output(Append(dst, NextByte), Len(dst) + 1)
    /\ UNCHANGED <<v, len>>

ReadDLE ==
    /\ Len(dst) < Len(src)
    /\ Reads("item", "v") /\ NextByte = DLE_BYTE
    /\ UNCHANGED <<v, len, dst, touched>>

ReadLiteralDLE ==
    /\ Reads("v", "item") /\ NextByte = 0
    /\ Output(Append(dst, DLE_BYTE), Len(dst) + 1)
    /\ UNCHANGED <<v, len>>

ReadV ==
    /\ phase = "v" /\ Readable /\ NextByte # 0
    /\ Reads("v", IF lsb(NextByte, v_len_bits) = V_LEN_MAX THEN "elb" ELSE "w")
    /\ v' = NextByte /\ len' = lsb(NextByte, v_len_bits) + 3
    /\ UNCHANGED <<dst, touched>>

ReadExtraLength ==
    /\ Reads("elb", "w")
    /\ len' = len + NextByte
    /\ UNCHANGED <<v, dst, touched>>

\* The distance; len and it are a back reference.
dist == (v \div 2 ^ v_len_bits) * BYTE + NextByte + 1

Room == Len(src) - Len(dst)

\* Mutant of InChunks: the length is compared as it is.
InChunksIfFits == len <= Room /\ dist <= Len(dst)

InChunks == round_up(len, CHUNK) <= Room /\ dist <= Len(dst)

ReadW ==
    /\ Reads("w", "item") /\ len <= Room
    /\ Output(output_backref(dst, dist, len),
              IF InChunks THEN WrittenTo(dst, dist, len, CHUNK) ELSE Len(dst) + len)
    /\ UNCHANGED <<v, len>>

NoRoom == phase = "w" /\ Readable /\ len > Room /\ Error

\* zip_extract_member also wants all bytes of the stream to be used.
Done ==
    /\ phase = "item" /\ Len(dst) >= Len(src)
    /\ phase' = IF round_up(rpos, BYTE_BITS) = Len(os.bits) THEN "ok" ELSE "error"
    /\ UNCHANGED <<writing, os, damaged, reading>>

Compress ==
    \/ lit_callback \/ backref_callback \/ BufferByte \/ FlushAtEnd \/ WriteByte \/ Written

Expand ==
    \/ ReadSet \/ BadSet \/ BadByte \/ ReadLiteral \/ ReadDLE \/ ReadLiteralDLE
    \/ ReadV \/ ReadExtraLength \/ ReadW \/ NoRoom \/ Done

Next == Compress \/ Expand

Spec == Init /\ [][Next]_vars

--------------------------------------------------------------------------------
(***************************************************************************)
(* Properties                                                              *)
(***************************************************************************)
TypeOK ==
    /\ phase \in {"compress", "gave_up", "sets", "item", "v", "elb", "w", "ok", "error"}
    /\ pos \in 0 .. Len(src) /\ rpos \in 0 .. Len(os.bits)
    /\ pending \in Seq(Nat) /\ raw \in Seq(Byte) /\ flushed \in BOOLEAN
    /\ DOMAIN fsets = Byte /\ \A p \in Byte : fsets[p] \in Seq(Byte)
    /\ prev_byte \in Byte /\ curr_byte \in Byte /\ v \in Byte
    /\ len \in 0 .. max_len /\ touched \in Nat
    /\ os.bits \in Seq({0, 1}) /\ dst \in Seq(Byte)
    /\ sets \in Seq(Seq(Byte)) /\ Len(sets) <= BYTE

\* hwexpand accepts and gives back what hwreduce was given, through sets built from the
\* buffer, the flush in the middle of a token and the bytes written after it.
\* Nothing is promised of a damaged stream.
Codec == INSTANCE Lossless WITH
    Bytes <- Byte,
    input <- SubSeq(src, 1, pos),
    output <- IF damaged THEN <<>> ELSE dst,
    outcome <- IF damaged THEN "gave_up"
               ELSE CASE phase = "gave_up" -> "gave_up"
                      [] phase = "ok" -> "done"
                      [] phase = "error" -> "refused"
                      [] OTHER -> "open"

ImplementsLossless == Codec!Spec

\* All variables have their types and no assertion of hwreduce fails: the byte after DLE is zero for a literal DLE
\* only, which holds since lz77.c never passes a match of three bytes; the parts
\* of a back reference are bytes; the buffer is flushed before it overflows.
NoAssertFails ==
    /\ TypeOK
    /\ \A i \in 1 .. Len(pending) : pending[i] \in Byte
    /\ ~flushed => Len(raw) < RAW_BYTES_SZ
    /\ phase = "compress" /\ pending = <<>> => \A r \in Backrefs(src, pos, max_dist, max_len, FALSE) : VByte(r) # 0

\* The size of a follower set is chosen by its cost; that cost is what is written
\* in the end, set and bytes, as long as the buffer held all of them.
CostsAreExact ==
    phase = "compress" /\ flushed /\ pending = <<>> /\ pos = Len(src) /\ Len(raw) < RAW_BYTES_SZ =>
        Len(os.bits) = MapThenSumSet(
            LAMBDA p : SIZE_BITS + followers_cost(follower_count(raw, p), Len(fsets[p])), Byte)

\* Whatever the stream, nothing is written past the buffer of uncomp_len bytes,
\* whole chunks included.
Contained == Len(dst) <= Len(src) /\ touched <= Len(src)
================================================================================
