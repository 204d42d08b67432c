--------------------------------- MODULE MCExec ---------------------------------
(* Exec for TLC: two threads. *)
EXTENDS Exec
================================================================================
