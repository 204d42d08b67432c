---------------------------------- MODULE MCImplode --------------------------------
(* Implode for TLC: inputs that are short, that repeat over and over, and in which *)
(* every literal and distant repetitions come after the buffer is full.            *)
EXTENDS Implode

Short == UNION {[1 .. n -> {0, 9}] : n \in 0 .. 3}

Skewed == <<0, 0, 0, 1, 0, 0, 1, 2, 0, 0, 3>>

Long == {<<7, 7, 7, 7, 7, 7, 7, 7, 7, 7, 7, 7>>,
         <<5, 6, 5, 6, 5, 6, 5, 6, 1>>,
         Skewed \o <<0, 0, 3, 5, 0, 0, 1, 2, 0>>,
         Skewed \o [i \in 1 .. 16 |-> 16 - i]}

\* For archives of PKZip 1.01, and for damaged ones.
Few == {<<9>>, <<5, 6, 5, 6, 5, 6, 5, 6, 1>>}

MCInputs == Short \cup Long

MCCaps == {60, 400}
================================================================================
