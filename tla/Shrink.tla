--------------------------------- MODULE Shrink ---------------------------------
(***************************************************************************)
(* hwshrink of hwzip/shrink.c: the compressor of method 1 (Shrink).  It    *)
(* follows the input as long as the string read so far and the next byte   *)
(* are in the table, writes the string's code when they are not, and gives *)
(* the longer string the next free code.                                   *)
(*                                                                         *)
(* The bytes of the input are chosen as the loop reads them.               *)
(***************************************************************************)
EXTENDS ShrinkCodes

CONSTANTS
    OS_CAP,          \* room in the output stream, in bits
    SRC_MAX          \* bound of the model: the longest input

ASSUME ShrinkAssumption == OS_CAP \in Nat /\ SRC_MAX \in Nat

VARIABLES
    src,             \* the input up to the byte the loop reads
    table,           \* the hash table: entries (prefix_code, ext_byte) -> code
    queue,           \* the free codes
    code_size,       \* bits of the next code
    curr_code,       \* the code of the string read last, INVALID_CODE before
    os,              \* what was written and not yet read: codes and widths
    bitpos,          \* bits written to the output stream
    status           \* "writing", or what the function returned

vars == <<src, table, queue, code_size, curr_code, os, bitpos, status>>

Item(value, width) == [value |-> value, width |-> width]

Init ==
    /\ src = <<>>
    /\ table = {}
    /\ queue = code_queue_init
    /\ code_size = MIN_CODE_SIZE
    /\ curr_code = INVALID_CODE
    /\ os = <<>>
    /\ bitpos = 0
    /\ status = "writing"

(***************************************************************************)
(* The hash table.  hashtab_find probes from the key's slot to the first   *)
(* empty one, and no slot is ever emptied but by building a new table, so  *)
(* an entry is found exactly when it was inserted since.                   *)
(***************************************************************************)
Matches(prefix, byte) == {e \in table : e.prefix_code = prefix /\ e.ext_byte = byte}

hashtab_find(prefix, byte) ==
    IF Matches(prefix, byte) = {} THEN INVALID_CODE
    ELSE (CHOOSE e \in Matches(prefix, byte) : TRUE).code

\* write_code: the width at which a code fits, and what is written to reach
\* it.  The code counts the width up one control code at a time.
WidthFor(code, size) ==
    CHOOSE n \in size .. MAX_CODE_SIZE :
        /\ code <= MaxOf(n)
        /\ \A m \in size .. n - 1 : ~(code <= MaxOf(m))

write_code(code, size) ==
    LET n == WidthFor(code, size)
        control == [k \in 1 .. 2 * (n - size) |->
                       Item(IF k % 2 = 1 THEN CONTROL_CODE ELSE INC_CODE_SIZE,
                            size + (k - 1) \div 2)]
    IN  Append(control, Item(code, n))

\* Bits of a few items.
BitsOf(items) ==
    LET sum[k \in 0 .. Len(items)] == IF k = 0 THEN 0 ELSE sum[k - 1] + items[k].width
    IN  sum[Len(items)]

\* shrink_partial_clear keeps the entries whose code is the prefix of another.
is_prefix == {e.prefix_code : e \in table}

\* Mutant of Freed: the string being followed is kept, as the reader cannot know.
FreedButCurrent == Dynamic \ (is_prefix \cup {curr_code})

\* What shrink_partial_clear leaves in the table, and the codes it queues.
Kept == {e \in table : e.code \in is_prefix}

Freed == Dynamic \ is_prefix

\* ostream_write refuses what does not fit; the compressor then gives up.
Fits(items) == bitpos + BitsOf(items) <= OS_CAP

Write(items) ==
    /\ os' = os \o items
    /\ bitpos' = bitpos + BitsOf(items)

GiveUp ==
    /\ status' = "full"
    /\ UNCHANGED <<src, table, queue, code_size, curr_code, os, bitpos>>

Reads(b) ==
    /\ status = "writing"
    /\ Len(src) < SRC_MAX
    /\ src' = Append(src, b)

FirstByte(b) ==
    /\ Reads(b)
    /\ curr_code = INVALID_CODE
    /\ curr_code' = b
    /\ UNCHANGED <<table, queue, code_size, os, bitpos, status>>

\* The current string and the next byte are in the table.
ExtendString(b) ==
    /\ Reads(b)
    /\ curr_code # INVALID_CODE
    /\ hashtab_find(curr_code, b) # INVALID_CODE
    /\ curr_code' = hashtab_find(curr_code, b)
    /\ UNCHANGED <<table, queue, code_size, os, bitpos, status>>

\* Assign the code new_code, if there is one, to the current string and byte.
Insert(entries, new_code, b) ==
    entries \cup (IF new_code = INVALID_CODE THEN {}
                  ELSE {[prefix_code |-> curr_code, ext_byte |-> b, code |-> new_code]})

\* Write the current code; the string and the byte get the next free code.
EmitCode(b) ==
    LET items == write_code(curr_code, code_size)
    IN  /\ Reads(b)
        /\ curr_code # INVALID_CODE
        /\ hashtab_find(curr_code, b) = INVALID_CODE
        /\ queue # {}
        /\ Fits(items)
        /\ Write(items)
        /\ code_size' = WidthFor(curr_code, code_size)
        /\ table' = Insert(table, code_queue_next(queue), b)
        /\ queue' = code_queue_remove_next(queue)
        /\ curr_code' = b
        /\ UNCHANGED status

\* No code is free: clear the table of strings nothing is built on, tell the
\* reader, and try again.  Every code may turn out to be a prefix.
EmitCodeAndClear(b) ==
    LET n == WidthFor(curr_code, code_size)
        items == write_code(curr_code, code_size)
                     \o <<Item(CONTROL_CODE, n), Item(PARTIAL_CLEAR, n)>>
    IN  /\ Reads(b)
        /\ curr_code # INVALID_CODE
        /\ hashtab_find(curr_code, b) = INVALID_CODE
        /\ queue = {}
        /\ Fits(items)
        /\ Write(items)
        /\ code_size' = n
        /\ table' = Insert(Kept, code_queue_next(Freed), b)
        /\ queue' = code_queue_remove_next(Freed)
        /\ curr_code' = b
        /\ UNCHANGED status

\* The output does not fit (it may not be smaller than the input).
NoRoom(b) ==
    LET items == write_code(curr_code, code_size)
        n == WidthFor(curr_code, code_size)
    IN  /\ status = "writing"
        /\ Len(src) < SRC_MAX
        /\ curr_code # INVALID_CODE
        /\ hashtab_find(curr_code, b) = INVALID_CODE
        /\ \/ ~Fits(items)
           \/ queue = {} /\ ~Fits(items \o <<Item(CONTROL_CODE, n), Item(PARTIAL_CLEAR, n)>>)
        /\ GiveUp

\* The input ends here: write the last code.  An empty input writes nothing.
Finish ==
    LET items == IF curr_code = INVALID_CODE THEN <<>> ELSE write_code(curr_code, code_size)
    IN  /\ status = "writing"
        /\ \/ /\ Fits(items)
              /\ Write(items)
              /\ code_size' = IF curr_code = INVALID_CODE THEN code_size
                              ELSE WidthFor(curr_code, code_size)
              /\ status' = "ok"
              /\ UNCHANGED <<src, table, queue, curr_code>>
           \/ ~Fits(items) /\ GiveUp

Next ==
    \/ \E b \in Byte : FirstByte(b) \/ ExtendString(b) \/ EmitCode(b)
                           \/ EmitCodeAndClear(b) \/ NoRoom(b)
    \/ Finish

Spec == Init /\ [][Next]_vars

--------------------------------------------------------------------------------
(***************************************************************************)
(* Properties                                                              *)
(***************************************************************************)
TableEntry == [prefix_code : Code, ext_byte : Byte, code : Dynamic]

StreamItem == [value : Code, width : MIN_CODE_SIZE .. MAX_CODE_SIZE]

TypeOK ==
    /\ src \in Seq(Byte)
    /\ table \in SUBSET TableEntry
    /\ queue \in SUBSET Dynamic
    /\ code_size \in MIN_CODE_SIZE .. MAX_CODE_SIZE
    /\ curr_code \in (Code \ {CONTROL_CODE}) \cup {INVALID_CODE}
    /\ os \in Seq(StreamItem)
    /\ bitpos \in Nat
    /\ status \in {"writing", "ok", "full"}

\* A code stands for one string, a string has one code, and a free code has
\* no string, through every partial clearing.
CodesUnique ==
    /\ \A e \in table : e.code \notin queue
    /\ \A e, f \in table :
          e.code = f.code \/ (e.prefix_code = f.prefix_code /\ e.ext_byte = f.ext_byte)
              => e = f

\* The compressor only follows strings that are still in the table: the code
\* it is about to write is a literal or belongs to an entry, even when the
\* table was cleared since the string was begun.
CurrCodeInTable ==
    curr_code # INVALID_CODE => curr_code \in Byte \cup {e.code : e \in table}
================================================================================
