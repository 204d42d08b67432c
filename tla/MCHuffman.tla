---------------------------------- MODULE MCHuffman --------------------------------
(* Huffman for TLC: a limit that leaves no slack and one that does.                *)
EXTENDS Huffman

Limits == {3, 4}
================================================================================
