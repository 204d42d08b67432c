---------------------------------- MODULE MCDeflate --------------------------------
(* Deflate for TLC: eight literals, three lengths, three distances.  The inputs    *)
(* make blocks of all three kinds: short or repetitive ones, ones in which every   *)
(* byte is as likely, and long ones of two values without repetitions in reach.    *)
EXTENDS Deflate

LitlenTbl == <<[base |-> 3, ebits |-> 1], [base |-> 5, ebits |-> 2], [base |-> 8, ebits |-> 0]>>
DistTbl == <<[base |-> 1, ebits |-> 0], [base |-> 2, ebits |-> 1], [base |-> 4, ebits |-> 2]>>
FixedLitlen == [s \in 0 .. 12 |-> IF s < 4 THEN 4 ELSE IF s < 8 THEN 5 ELSE 3]
FixedDist == [s \in 0 .. 3 |-> 2]
Order == <<6, 7, 8, 0, 3, 2, 4, 1, 5>>

Short == UNION {[1 .. n -> {0, 5}] : n \in 0 .. 3}

\* Every four values in a row once in sixteen bytes.
DeBruijn == <<0, 0, 0, 0, 1, 0, 0, 1, 1, 0, 1, 0, 1, 1, 1, 1>>
Two == DeBruijn \o DeBruijn
All == <<0, 1, 2, 3, 4, 5, 6, 7, 1, 3, 5, 7, 0, 2, 4, 6>>

\* Every three of three values in a row once.
Three == <<0,0,0,1,0,0,2,0,1,1,0,1,2,0,2,1,0,2,2,1,1,1,2,1,2,2,2>>

Long == {Two \o <<7>>, All \o SubSeq(Two, 1, 24), SubSeq(All, 1, 13) \o <<0, 2, 4, 6, 0, 2, 4, 6>>,
         SubSeq(Two, 1, 20) \o <<2, 3, 4, 5, 2, 3, 4, 5, 2>> \o SubSeq(Two, 1, 4),
         <<6, 1, 2, 6, 1, 2, 6, 1, 2, 6, 1>>, <<4, 4, 4, 4, 4, 4, 4, 4, 4, 4>>,
         Three, Three \o <<7, 7>> \o SubSeq(Three, 5, 18),
         Two \o <<3>> \o DeBruijn, Two \o <<3, 3, 3, 3, 3, 3, 3, 3>>, SubSeq(Two, 3, 30) \o <<2, 2, 3>>}

MCInputs == Short \cup Long

\* For damaged streams.
Few == {<<5>>, Two \o <<7>>, <<6, 1, 2, 6, 1, 2, 6, 1, 2, 6, 1>>, Three}

MCCaps == {20, 60, 400}
================================================================================
