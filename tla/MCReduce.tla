---------------------------------- MODULE MCReduce ---------------------------------
(* Reduce for TLC: short inputs over a zero, DLE and another byte; inputs that      *)
(* repeat themselves, alone and after forty bytes in which four bytes follow a zero *)
(* equally often, which fill the buffer.                                           *)
EXTENDS Reduce

Short == UNION {[1 .. n -> {0, 1, 9}] : n \in 0 .. 4}

Wide == <<0, 1, 0, 1, 0, 2, 0, 2, 0, 3, 0, 3, 0, 4, 0, 4, 0, 1, 0, 3,
          0, 1, 0, 4, 0, 2, 0, 4, 0, 3, 0, 2, 0, 1, 0, 2, 0, 3, 0, 4>>

Words == {<<0, 9, 9, 0>>, <<1, 5, 9, 7>>, <<9, 9, 9, 9>>, <<1, 2, 3, 1, 9, 15>>, <<0, 1, 2, 3, 4, 5, 6>>,
          <<9, 0, 1, 9, 2, 7, 6, 3, 8, 10, 12, 14, 13, 11, 15, 9, 5>>}

Twice == {w \o w : w \in Words}

\* For damaged streams.
Few == {<<9>>, <<1, 2, 3, 1, 9, 1, 2, 3, 1, 9>>,
        <<0, 0, 0, 0, 0, 0, 0, 0, 0, 0, 0, 0>>, <<3, 3, 3, 3, 3, 3, 3, 3, 9, 1>>}

MCInputs == Short \cup Twice \cup {Wide \o w \o w : w \in {<<0, 9, 9, 0>>, <<1, 2, 3, 1, 9, 15>>}} \cup Few

MCCaps == {70, 400}
================================================================================
