--------------------------------- MODULE MCLz77 ---------------------------------
(* Lz77 for TLC: two byte values, matches of two bytes or more, a window of     *)
(* four positions, and a hash under which different strings collide.            *)
EXTENDS Lz77

Product(s) == s[1] * s[2]
================================================================================
