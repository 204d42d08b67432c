--------------------------------- MODULE LzTokens ---------------------------------
(***************************************************************************)
(* What the compressors get from lz77_compress, and what the decompressors *)
(* do with it (lz77.h).  Module Lz77 models the matcher and shows that its *)
(* tokens are among the ones here; the compressors are checked with all of *)
(* them.                                                                   *)
(***************************************************************************)
EXTENDS Naturals, Sequences

CONSTANTS MIN_LEN    \* 4, the shortest match of lz77.c

ASSUME MinLenAssumption == MIN_LEN \in Nat \ {0}

\* The len bytes after pos are those dist before.
Repeats(src, pos, dist, len) ==
    \A k \in 1 .. len : src[pos + k] = src[pos + k - dist]

AtMost(x, bound) == IF x <= bound THEN x ELSE bound

\* Mutant of Backrefs: matches of three bytes.
BackrefsFromThree(src, pos, max_dist, max_len, allow_overlap) ==
    {r \in [dist : 1 .. AtMost(max_dist, pos), len : MIN_LEN - 1 .. AtMost(max_len, Len(src) - pos)] :
        /\ Repeats(src, pos, r.dist, r.len)
        /\ ~allow_overlap => r.len <= r.dist}

\* The back references a compressor may be given at pos.
Backrefs(src, pos, max_dist, max_len, allow_overlap) ==
    {r \in [dist : 1 .. AtMost(max_dist, pos), len : MIN_LEN .. AtMost(max_len, Len(src) - pos)] :
        /\ Repeats(src, pos, r.dist, r.len)
        /\ ~allow_overlap => r.len <= r.dist}

\* len bytes from dist before the end of dst are appended, one after the other,
\* so that the copy may overlap itself; there are zeros before the beginning.
output_backref(dst, dist, len) ==
    dst \o [k \in 1 .. len |->
              LET i == Len(dst) - dist + ((k - 1) % dist) + 1
              IN  IF i < 1 THEN 0 ELSE dst[i]]

\* How far lz77_output_backref64 writes: whole chunks, if nothing overlaps.
WrittenTo(dst, dist, len, chunk) ==
    Len(dst) + IF len > dist THEN len ELSE chunk * ((len + chunk - 1) \div chunk)
================================================================================
