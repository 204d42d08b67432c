------------------------------- MODULE MCUnshrink -------------------------------
(* Unshrink for TLC: a few literal bytes and codes, an output of a few bytes.    *)
EXTENDS Unshrink

NoLen == -1
================================================================================
