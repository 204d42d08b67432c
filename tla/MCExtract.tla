-------------------------------- MODULE MCExtract --------------------------------
(* Extract for TLC: a file and a folder of the same name, two files with one name, *)
(* a file in the folder, and every way in which a member is refused.               *)
EXTENDS Extract

Paths == {<<"a">>, <<"b">>, <<"a", "b">>}

Good(p) == [path |-> p, slash |-> FALSE, is_dir |-> FALSE, relative |-> TRUE,
            readable |-> TRUE, data |-> "good"]

Members == {Good(<<"a">>), Good(<<"b">>), Good(<<"a", "b">>)}
    \cup {[Good(<<"a">>) EXCEPT !.slash = TRUE, !.is_dir = TRUE],   \* a/ as a folder
          [Good(<<"a">>) EXCEPT !.slash = TRUE],                    \* a/ without the attribute
          [Good(<<"a">>) EXCEPT !.relative = FALSE],
          [Good(<<"b">>) EXCEPT !.data = "crc"],
          [Good(<<"b">>) EXCEPT !.data = "undecodable"],
          [Good(<<"b">>) EXCEPT !.readable = FALSE]}
================================================================================
