--------------------------------- MODULE BitStream ---------------------------------
(***************************************************************************)
(* Streams of bits, as bitstream.h and bits.h give them to the             *)
(* compressors: a stream is the sequence of its bits, the least            *)
(* significant bit of a value first.  An input stream is read at a         *)
(* position; an output stream also holds its room and whether a write      *)
(* failed, after which every caller returns.                               *)
(***************************************************************************)
EXTENDS Naturals, Sequences

lsb(x, n) == x % 2 ^ n

round_up(x, m) == m * ((x + m - 1) \div m)

\* The n low bits of x, as ostream_write puts them into the stream.
Bits(x, n) == [i \in 1 .. n |-> (x \div 2 ^ (i - 1)) % 2]

ValueOf(bits) ==
    LET v[i \in 0 .. Len(bits)] == IF i = 0 THEN 0 ELSE v[i - 1] + bits[i] * 2 ^ (i - 1)
    IN  v[Len(bits)]

reverse16(x, n) == LET b == Bits(x, n) IN ValueOf([i \in 1 .. n |-> b[n + 1 - i]])

\* The next n bits after pos, zeros after the end of the stream.
istream_bits(is, pos, n) ==
    ValueOf([i \in 1 .. n |-> IF pos + i <= Len(is) THEN is[pos + i] ELSE 0])

\* istream_advance succeeds.
Has(is, pos, n) == pos + n <= Len(is)

--------------------------------------------------------------------------------
ostream(cap) == [bits |-> <<>>, cap |-> cap, ok |-> TRUE]

Put(os, bits) ==
    IF os.ok /\ Len(os.bits) + Len(bits) <= os.cap
    THEN [os EXCEPT !.bits = @ \o bits]
    ELSE [os EXCEPT !.ok = FALSE]

ostream_write(os, x, n) == Put(os, Bits(x, n))

\* Padding to a byte boundary, then whole bytes, each of size bits.
ostream_write_bytes_aligned(os, bytes, size) ==
    LET pad == round_up(Len(os.bits), size) - Len(os.bits)
        raw == [i \in 1 .. Len(bytes) * size |->
                  Bits(bytes[(i - 1) \div size + 1], size)[((i - 1) % size) + 1]]
    IN  Put(os, [i \in 1 .. pad |-> 0] \o raw)

\* The whole bytes a stream ends up in.
Padded(bits, size) == bits \o Bits(0, round_up(Len(bits), size) - Len(bits))

\* The stream with one bit changed, or cut short.
Damaged(bits) ==
    {[bits EXCEPT ![i] = 1 - @] : i \in 1 .. Len(bits)}
        \cup {SubSeq(bits, 1, n) : n \in 0 .. Len(bits) - 1}
================================================================================
