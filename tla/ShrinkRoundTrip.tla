----------------------------- MODULE ShrinkRoundTrip -----------------------------
(***************************************************************************)
(* hwshrink and hwunshrink joined by the stream of codes: what zip_write   *)
(* compresses is what zip_extract_member decompresses.                     *)
(*                                                                         *)
(* The program writes the whole stream before it is read.  What the        *)
(* decompressor does with an item depends on the items before it alone, so *)
(* the model lets it read each item as soon as it is written: the stream   *)
(* stays short and the two tables can be compared at every point of it.    *)
(***************************************************************************)
EXTENDS Shrink

CONSTANTS DST_CAP, UNKNOWN_LEN

\* zip_extract_member passes the size of the file that was compressed, for which
\* its caller has allocated; UINT16_MAX is no length of a string.
ASSUME RoundTripAssumption ==
    /\ DST_CAP \in Nat /\ UNKNOWN_LEN \notin Nat
    /\ SRC_MAX <= DST_CAP

VARIABLES d_code_size, codetab, d_queue, prev_code, first_byte, dst, d_status

dvars == <<d_code_size, codetab, d_queue, prev_code, first_byte, dst, d_status>>

D == INSTANCE Unshrink WITH code_size <- d_code_size, queue <- d_queue, status <- d_status

RTInit == Init /\ D!Init

Compress == os = <<>> /\ Next /\ UNCHANGED dvars

Decompressing == d_status = "reading" /\ status # "full"

Take(n) ==
    /\ os' = SubSeq(os, n + 1, Len(os))
    /\ UNCHANGED <<src, table, queue, code_size, curr_code, bitpos, status>>

\* read_code: a control code and its parameter.
ReadControl ==
    /\ Decompressing /\ Len(os) >= 2 /\ os[1].value = CONTROL_CODE
    /\ \/ os[2].value = INC_CODE_SIZE /\ D!ReadIncCodeSize
       \/ os[2].value = PARTIAL_CLEAR /\ D!ReadPartialClear
    /\ Take(2)

ReadCode ==
    /\ Decompressing /\ os # <<>> /\ os[1].value # CONTROL_CODE
    /\ D!FirstCode(os[1].value) \/ D!NextCode(os[1].value)
    /\ Take(1)

\* The padding of the last byte is shorter than a code.
ReadEnd ==
    /\ Decompressing /\ os = <<>> /\ status = "ok"
    /\ D!EndOfStream
    /\ Take(0)

RTNext == Compress \/ ReadControl \/ ReadCode \/ ReadEnd

RTvars == <<vars, dvars>>

RTSpec == RTInit /\ [][RTNext]_RTvars

--------------------------------------------------------------------------------
(***************************************************************************)
(* Properties                                                              *)
(***************************************************************************)
\* The two ends always agree on the width of the next code: one more or one
\* fewer would misread the rest of the stream.
WidthsAgree ==
    d_status = "reading" /\ os # <<>> =>
        /\ os[1].width = d_code_size
        /\ os[1].value = CONTROL_CODE => Len(os) >= 2 /\ os[2].width = d_code_size

\* The strings the decompressor has, in the form of the compressor's table.
Decoded == {[prefix_code |-> codetab[c].prefix_code, ext_byte |-> codetab[c].ext_byte,
             code |-> c] : c \in {d \in Dynamic : D!Valid(codetab, d)}}

\* The decompressor's table and queue are the compressor's, but for the last
\* entry, which it completes with the code that comes next; this holds through
\* partial clearings and codes that are their own prefix.
TablesAgree ==
    os = <<>> /\ prev_code # INVALID_CODE /\ status = "writing" =>
        /\ queue \subseteq d_queue
        /\ Cardinality(d_queue \ queue) <= 1
        /\ Decoded = {e \in table : e.code \notin d_queue}

\* At every point of the stream the compressor's table is sound and both ends
\* know the same table and the same width of codes.
Lockstep == TypeOK /\ CodesUnique /\ CurrCodeInTable /\ WidthsAgree /\ TablesAgree

\* What was read so far is the beginning of what was written, and the end is
\* reached with everything: the round trip is lossless.
Outcome == IF status = "full" THEN "gave_up"
           ELSE IF d_status = "reading" THEN "open"
           ELSE IF d_status = "ok" THEN "done" ELSE d_status

Codec == INSTANCE Lossless
         WITH Bytes <- Byte, input <- src, output <- dst, outcome <- Outcome

ImplementsLossless == Codec!Spec
================================================================================
