----------------------------------- MODULE MCZip -----------------------------------
(* Zip for TLC: up to two files, empty, compressible or holding an end record,    *)
(* with names that are relative or not; comments that are none, harmless, hold an *)
(* end record or complete one; and archives whose sizes and offsets are the       *)
(* signature of an end record.  A byte has eight values: NUL, a control           *)
(* character, ' ', '.', '/', '?' and two letters.                                  *)
EXTENDS Zip

slash == 4
odd == 5
P == 6
K == 7

sum(data) == IF data = <<>> THEN 0 ELSE (Len(data) + 64 * data[1] + 512 * data[Len(data)]) % 4096

Number(bytes) == read32le(bytes, 0)

EndSignature == <<P, K, 1, 1>>

Many(b, n) == [k \in 1 .. n |-> b]

File(name, data) == [name |-> name, data |-> data]

\* The 22 bytes of an end record of an empty archive.
End(comment_len) == EndSignature \o Many(0, 16) \o write16le(comment_len)

\* The same as far as a comment can hold it.
Endlike(n) == EndSignature \o Many(1, n)

Datas == {<<>>, <<P, P, P, 2>>, <<K, 1>>, End(0)}

MCCodes ==
    {[method |-> m, data |-> <<P, P, P, 2>>, bytes |-> <<m>> \o b] :
        m \in {ZIP_SHRINK, ZIP_IMPLODE}, b \in {<<>>, <<3, 0>>}} \cup
    {[method |-> ZIP_DEFLATE, data |-> <<K, 1>>, bytes |-> <<K>>]}

One == {<<File(<<P>>, d)>> : d \in Datas} \cup {<<File(n, <<K, 1>>)>> : n \in
    {<<>>, <<slash, P>>, <<P, DOT>>, <<DOT, DOT, slash, P>>, <<P, odd>>, <<P, 1>>, <<DOT, P>>}}

Two == {<<File(<<P, K>>, d), File(n, e)>> : d \in Datas, e \in Datas, n \in {<<P>>, <<slash>>}}

Sturdy == <<File(<<P>>, <<P, P, P, 2>>), File(<<DOT, P>>, <<K, 1>>)>>

\* The directory begins where an end record's signature says, or is as long.
LongData == <<File(<<P>>, Many(K, Number(EndSignature) - 31))>>

LongNames == [k \in 1 .. 7 |-> File(Many(P, IF k = 1 THEN 46 ELSE 45), <<>>)]

MCFileLists ==
    {<<>>, <<File(Many(P, 64), <<>>)>>, <<File(<<P>>, Many(K, 4020))>>} \cup One \cup Two
    \cup {LongData, LongNames, Sturdy}

\* The comment of 62 bytes has PK for its length.
MCComments ==
    {<<>>, <<P, K, 1>>, Endlike(18), Many(P, 3) \o Endlike(20), Many(P, 12), Many(K, 16),
     <<1, 1>> \o Many(P, 60), Many(P, 62), Many(P, 64)}

MCFragile ==
    {<<<<>>, <<>>>>, <<<<File(<<P>>, End(0))>>, <<>>>>, <<Sturdy, <<P, K, 1>>>>}

MCPatches == {<<b>> : b \in Byte} \cup ({0, 1, 4} \X {0, 3}) \cup {EndSignature}
================================================================================
