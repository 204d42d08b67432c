---------------------------- MODULE MCShrinkRoundTrip ----------------------------
(* ShrinkRoundTrip for TLC: two literal bytes and five codes, so that inputs of *)
(* a dozen bytes fill the table several times.                                  *)
EXTENDS ShrinkRoundTrip
================================================================================
