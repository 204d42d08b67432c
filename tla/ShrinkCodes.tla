------------------------------ MODULE ShrinkCodes ------------------------------
(***************************************************************************)
(* What the Shrink compressor (hwshrink) and decompressor (hwunshrink) of  *)
(* hwzip/shrink.c share: the range of codes, the sizes in bits at which    *)
(* they travel, and the queue of codes that are free to be assigned.       *)
(*                                                                         *)
(* The code is the instance MIN_CODE_SIZE = 9, MAX_CODE_SIZE = 13,         *)
(* CONTROL_CODE = 256; a model scales the three down together.             *)
(***************************************************************************)
EXTENDS Integers, FiniteSets, Sequences

CONSTANTS
    MIN_CODE_SIZE,   \* bits of the first codes of a stream
    MAX_CODE_SIZE,   \* bits of the widest code
    CONTROL_CODE,    \* the code that announces INC_CODE_SIZE or PARTIAL_CLEAR
    MAX_CODE,        \* the largest code
    INVALID_CODE     \* UINT16_MAX in the code: no code at all

ASSUME CodeSizeAssumption ==
    /\ MIN_CODE_SIZE \in Nat /\ MAX_CODE_SIZE \in Nat
    /\ MIN_CODE_SIZE <= MAX_CODE_SIZE

ASSUME CodeAssumption ==
    /\ CONTROL_CODE \in Nat \ {0}
    /\ MAX_CODE \in Nat
    /\ CONTROL_CODE < MAX_CODE
    /\ INVALID_CODE \in Nat
    /\ MAX_CODE < INVALID_CODE

\* The two parameters of a control code.
INC_CODE_SIZE == 1
PARTIAL_CLEAR == 2

\* The largest value of n bits.
MaxOf(n) == 2^n - 1

\* The scaled constants fit each other as the code's do.
ASSUME WidthAssumption ==
    /\ MAX_CODE = MaxOf(MAX_CODE_SIZE)
    /\ CONTROL_CODE <= MaxOf(MIN_CODE_SIZE)
    /\ PARTIAL_CLEAR <= MaxOf(MIN_CODE_SIZE)

\* A literal byte is its own code; UINT8_MAX is CONTROL_CODE - 1.
Byte == 0 .. CONTROL_CODE - 1

\* The codes that can be assigned to a string of two bytes or more.
Dynamic == CONTROL_CODE + 1 .. MAX_CODE

\* Every value that fits in the table of codes.
Code == 0 .. MAX_CODE

(***************************************************************************)
(* The code queue.  code_queue_t is an array of free codes with an         *)
(* end-of-queue marker and the index of the next one.  Both functions that *)
(* fill it do so in ascending order, from index 0, and codes leave it only *)
(* from the front, so the set of the codes still in it says all there is   *)
(* to say: the next code is the smallest.                                  *)
(***************************************************************************)
code_queue_init == Dynamic

\* Taking the smallest element by its definition keeps the module provable.
code_queue_next(q) ==
    IF q = {} THEN INVALID_CODE
              ELSE CHOOSE c \in q : \A d \in q : c <= d

code_queue_remove_next(q) == q \ {code_queue_next(q)}
================================================================================
