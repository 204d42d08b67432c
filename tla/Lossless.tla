-------------------------------- MODULE Lossless --------------------------------
(***************************************************************************)
(* What every compression method of hwzip promises, whatever its format:   *)
(* the bytes that come out of the decompressor are the bytes that went     *)
(* into the compressor, in order and complete, unless the compressor gives *)
(* up for want of room (zip_write then stores the file as it is).          *)
(***************************************************************************)
EXTENDS Naturals, Sequences

CONSTANT Bytes

VARIABLES
    input,      \* the bytes given to the compressor so far
    output,     \* the bytes the decompressor has produced
    outcome     \* "open", "done" or "gave_up"

Init == input = <<>> /\ output = <<>> /\ outcome = "open"

Accept ==
    /\ outcome = "open"
    /\ Len(input') > Len(input)
    /\ input' \in Seq(Bytes) /\ SubSeq(input', 1, Len(input)) = input
    /\ UNCHANGED <<output, outcome>>

Deliver ==
    /\ outcome = "open"
    /\ \E n \in Len(output) + 1 .. Len(input) : output' = SubSeq(input, 1, n)
    /\ UNCHANGED <<input, outcome>>

\* The last bytes may come with the verdict.
Finish ==
    /\ outcome = "open" /\ output' = input
    /\ outcome' = "done"
    /\ UNCHANGED input

GiveUp ==
    /\ outcome = "open" /\ outcome' = "gave_up"
    /\ UNCHANGED <<input, output>>

Next == Accept \/ Deliver \/ Finish \/ GiveUp

Spec == Init /\ [][Next]_<<input, output, outcome>>
================================================================================
