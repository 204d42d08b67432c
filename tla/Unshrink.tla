-------------------------------- MODULE Unshrink --------------------------------
(***************************************************************************)
(* hwunshrink of hwzip/shrink.c: the decompressor of method 1 (Shrink), an *)
(* LZW with partial clearing.  Each code of the input stands for a string; *)
(* the table gives a code's string as its prefix code and one more byte,   *)
(* and as a length and a position in the output where it already occurs.   *)
(*                                                                         *)
(* The input is any sequence of codes: a stream written by hwshrink is one *)
(* of them (see ShrinkRoundTrip), a corrupt file is another.               *)
(***************************************************************************)
EXTENDS ShrinkCodes

CONSTANTS
    DST_CAP,         \* room in the output buffer, in bytes
    UNKNOWN_LEN      \* UINT16_MAX in the code: the length is not known yet

ASSUME UnshrinkAssumption == DST_CAP \in Nat /\ UNKNOWN_LEN \notin Nat

VARIABLES
    code_size,       \* bits of the next code
    codetab,         \* the string table, indexed by code
    queue,           \* the free codes
    prev_code,       \* the code read before, INVALID_CODE before the first
    first_byte,      \* the first byte of the string output last
    dst,             \* the output so far; dst_pos is its length
    status           \* "reading", or what the function returned

vars == <<code_size, codetab, queue, prev_code, first_byte, dst, status>>

dst_pos == Len(dst)

\* An entry of codetab.  last_dst_pos counts from 0, as in C.
Entry(prefix, byte, len, pos) ==
    [prefix_code |-> prefix, ext_byte |-> byte, len |-> len, last_dst_pos |-> pos]

\* Literals carry a phony prefix_code.  The fields codetab_init leaves
\* uninitialized are given values no later read may rely on: a position that
\* is past every byte that is ever output.
codetab_init ==
    [c \in Code |-> IF c \in Byte THEN Entry(c, c, 1, DST_CAP)
                                  ELSE Entry(INVALID_CODE, 0, 1, DST_CAP)]

Init ==
    /\ code_size = MIN_CODE_SIZE
    /\ codetab = codetab_init
    /\ queue = code_queue_init
    /\ prev_code = INVALID_CODE
    /\ first_byte = 0
    /\ dst = <<>>
    /\ status = "reading"

Valid(tab, c) == tab[c].prefix_code # INVALID_CODE

--------------------------------------------------------------------------------
(***************************************************************************)
(* read_code: the control codes it handles before it returns a code.       *)
(***************************************************************************)
Return(s) ==
    /\ status' = s
    /\ UNCHANGED <<code_size, codetab, queue, prev_code, first_byte, dst>>

ReadIncCodeSize ==
    /\ status = "reading"
    /\ code_size < MAX_CODE_SIZE
    /\ code_size' = code_size + 1
    /\ UNCHANGED <<codetab, queue, prev_code, first_byte, dst, status>>

\* Codes some entry is built on.
is_prefix == {codetab[c].prefix_code : c \in {d \in Dynamic : Valid(codetab, d)}}

unshrink_partial_clear ==
    /\ codetab' = [c \in Code |->
                      IF c \in Dynamic \ is_prefix
                      THEN [codetab[c] EXCEPT !.prefix_code = INVALID_CODE]
                      ELSE codetab[c]]
    /\ queue' = Dynamic \ is_prefix

ReadPartialClear ==
    /\ status = "reading"
    /\ unshrink_partial_clear
    /\ UNCHANGED <<code_size, prev_code, first_byte, dst, status>>

\* An unknown or truncated control code becomes INVALID_CODE, which both
\* callers refuse.
ReadBadControl == status = "reading" /\ Return("err")

EndOfStream == status = "reading" /\ Return("ok")

\* The codes that can be read now (CONTROL_CODE never leaves read_code).
Readable == {c \in Code : c <= MaxOf(code_size)} \ {CONTROL_CODE}

--------------------------------------------------------------------------------
(***************************************************************************)
(* The first code must be a literal.                                       *)
(***************************************************************************)
FirstCode(c) ==
    /\ status = "reading"
    /\ prev_code = INVALID_CODE
    /\ \/ c \notin Byte /\ Return("err")
       \/ c \in Byte /\ DST_CAP = 0 /\ Return("full")
       \/ /\ c \in Byte
          /\ DST_CAP > 0
          /\ first_byte' = c
          /\ dst' = <<c>>
          /\ codetab' = [codetab EXCEPT ![c].last_dst_pos = 0]
          /\ prev_code' = c
          /\ UNCHANGED <<code_size, queue, status>>

--------------------------------------------------------------------------------
(***************************************************************************)
(* Every later code: the loop of hwunshrink with output_code.              *)
(***************************************************************************)
\* The previous string extended with its own first byte: the entry the next
\* free code is about to get when it is used before it is added (KwKwK).
ExtendPrev(tab) ==
    Entry(prev_code, first_byte, tab[prev_code].len + 1, tab[prev_code].last_dst_pos)

IsKwKwK(c) == c = code_queue_next(queue)

\* The table output_code works on.
KwKwKTab(c) ==
    IF IsKwKwK(c) THEN [codetab EXCEPT ![c] = ExtendPrev(codetab)] ELSE codetab

\* The n bytes copy_from_prev_pos appends, from position pos.  In the KwKwK
\* cases they include the byte that was just stored at dst[dst_pos].
Copy(pos, n) == SubSeq(Append(dst, first_byte), pos + 1, pos + n)

Room == DST_CAP - dst_pos

\* Mutant of Usable: codes that are their own prefix are let through.
ValidOnly(tab, c) == c \in Byte \/ Valid(tab, c)

\* A code that can be output: literals always can.
Usable(tab, c) == c \in Byte \/ (Valid(tab, c) /\ tab[c].prefix_code # c)

\* Mutant of AddCode: the string gets its own first byte.
AddWrongByte(tab, byte) ==
    LET new_code == code_queue_next(queue)
        known == new_code = prev_code \/ Valid(tab, prev_code)
        len == IF known THEN tab[prev_code].len + 1 ELSE UNKNOWN_LEN
    IN  IF new_code = INVALID_CODE
        THEN tab
        ELSE [tab EXCEPT ![new_code] =
                 Entry(prev_code, first_byte, len, tab[prev_code].last_dst_pos)]

\* Add the next free code, if any: the previous string and the first byte of
\* this one.  The length is unknown when prev_code was cleared; the test for
\* that comes after the entry is stored, so an entry that is its own prefix
\* passes it.
AddCode(tab, byte) ==
    LET new_code == code_queue_next(queue)
        known == new_code = prev_code \/ Valid(tab, prev_code)
        len == IF known THEN tab[prev_code].len + 1 ELSE UNKNOWN_LEN
    IN  IF new_code = INVALID_CODE
        THEN tab
        ELSE [tab EXCEPT ![new_code] =
                 Entry(prev_code, byte, len, tab[prev_code].last_dst_pos)]

\* Mutants of Output: the position of c is updated before the new code takes the
\* previous one's; it is not updated at all.
OutputMovesFirst(c, tab, str) ==
    /\ dst' = dst \o str
    /\ first_byte' = str[1]
    /\ codetab' = AddCode([tab EXCEPT ![c].last_dst_pos = dst_pos], str[1])
    /\ queue' = code_queue_remove_next(queue)
    /\ prev_code' = c
    /\ UNCHANGED <<code_size, status>>

OutputStays(c, tab, str) ==
    /\ dst' = dst \o str
    /\ first_byte' = str[1]
    /\ codetab' = AddCode(tab, str[1])
    /\ queue' = code_queue_remove_next(queue)
    /\ prev_code' = c
    /\ UNCHANGED <<code_size, status>>

\* The end of the loop body: c stood for str, tab is the table after output.
Output(c, tab, str) ==
    /\ dst' = dst \o str
    /\ first_byte' = str[1]
    /\ codetab' = [AddCode(tab, str[1]) EXCEPT ![c].last_dst_pos = dst_pos]
    /\ queue' = code_queue_remove_next(queue)
    /\ prev_code' = c
    /\ UNCHANGED <<code_size, status>>

\* The loop body has read c and there is room for a byte.
Reading(c) ==
    /\ status = "reading"
    /\ prev_code # INVALID_CODE
    /\ dst_pos < DST_CAP
    /\ IsKwKwK(c) => Valid(codetab, prev_code)

NoRoom(c) ==
    /\ status = "reading"
    /\ prev_code # INVALID_CODE
    /\ dst_pos = DST_CAP
    /\ Return("full")

\* KwKwK, but the previous code is no longer valid.
RejectKwKwK(c) ==
    /\ status = "reading"
    /\ prev_code # INVALID_CODE
    /\ dst_pos < DST_CAP
    /\ IsKwKwK(c)
    /\ ~Valid(codetab, prev_code)
    /\ Return("err")

OutputLiteral(c) ==
    /\ Reading(c)
    /\ c \in Byte
    /\ Output(c, codetab, <<c>>)

\* Invalid and self-referential codes are refused.
RejectCode(c) ==
    /\ Reading(c)
    /\ ~Usable(KwKwKTab(c), c)
    /\ Return("err")

OutputKnown(c) ==
    LET tab == KwKwKTab(c)
        len == tab[c].len
    IN  /\ Reading(c)
        /\ c \notin Byte
        /\ Usable(tab, c)
        /\ len # UNKNOWN_LEN
        /\ \/ Room < len /\ Return("full")
           \/ Room >= len /\ Output(c, tab, Copy(tab[c].last_dst_pos, len))

\* The length of c was unknown: its prefix had been cleared.  The prefix may
\* have been assigned again since, or be the code about to be assigned.
PrefixTab(c) ==
    LET prefix_code == codetab[c].prefix_code
    IN  IF IsKwKwK(prefix_code)
        THEN [codetab EXCEPT ![prefix_code] = ExtendPrev(codetab)]
        ELSE codetab

IsUnknown(c) ==
    /\ Reading(c)
    /\ c \notin Byte
    /\ Usable(KwKwKTab(c), c)
    /\ KwKwKTab(c)[c].len = UNKNOWN_LEN

\* The prefix code is still invalid.
RejectUnknown(c) ==
    /\ IsUnknown(c)
    /\ ~Valid(PrefixTab(c), codetab[c].prefix_code)
    /\ Return("err")

OutputUnknown(c) ==
    LET tab == PrefixTab(c)
        prefix == tab[codetab[c].prefix_code]
        len == prefix.len + 1
        str == Append(Copy(prefix.last_dst_pos, prefix.len), codetab[c].ext_byte)
    IN  /\ IsUnknown(c)
        /\ Valid(tab, codetab[c].prefix_code)
        /\ \/ Room < len /\ Return("full")
           \/ Room >= len /\ Output(c, [tab EXCEPT ![c].len = len], str)

NextCode(c) ==
    \/ NoRoom(c)
    \/ RejectKwKwK(c)
    \/ OutputLiteral(c)
    \/ RejectCode(c)
    \/ OutputKnown(c)
    \/ RejectUnknown(c)
    \/ OutputUnknown(c)

Next ==
    \/ ReadIncCodeSize
    \/ ReadPartialClear
    \/ ReadBadControl
    \/ EndOfStream
    \/ \E c \in Readable : FirstCode(c) \/ NextCode(c)

Spec == Init /\ [][Next]_vars

--------------------------------------------------------------------------------
(***************************************************************************)
(* Properties                                                              *)
(***************************************************************************)
CodeEntry == [prefix_code : Code \cup {INVALID_CODE}, ext_byte : Byte,
              len : Nat \cup {UNKNOWN_LEN}, last_dst_pos : Nat]

TypeOK ==
    /\ code_size \in MIN_CODE_SIZE .. MAX_CODE_SIZE
    /\ codetab \in [Code -> CodeEntry]
    /\ queue \in SUBSET Dynamic
    /\ prev_code \in (Code \ {CONTROL_CODE}) \cup {INVALID_CODE}
    /\ first_byte \in Byte
    /\ dst \in Seq(Byte) /\ dst_pos <= DST_CAP
    /\ status \in {"reading", "ok", "err", "full"}

SelfRef(c) == codetab[c].prefix_code = c

\* Codes in the table that a stream may still use.
Live == {c \in Dynamic : Valid(codetab, c) /\ ~SelfRef(c)}

Pending == {c \in Live : codetab[c].len = UNKNOWN_LEN}

Known == Live \ Pending

\* A code that can be assigned is in no use: taking it from the queue never
\* overwrites the string of another code (code_queue_remove_next, the clear).
FreeCodesUnused == \A c \in queue : ~Valid(codetab, c)

\* Every string of known length is where last_dst_pos says: it ends inside
\* the output, it is its prefix's string and one byte more, and its prefix is
\* known too.  This is what the walk at the end of the loop of hwunshrink
\* asserts for the code just output, here for every code of the table.  Lengths
\* fall by one along the prefixes, so no string is longer than the number of codes
\* and len, of 16 bits, neither wraps nor meets UNKNOWN_LEN by accident.
StringsInDst ==
    \A c \in Known :
        LET e == codetab[c]
            p == codetab[e.prefix_code]
        IN  /\ e.len = p.len + 1
            /\ e.last_dst_pos + e.len <= dst_pos
            /\ dst[e.last_dst_pos + e.len] = e.ext_byte
            /\ SubSeq(dst, e.last_dst_pos + 1, e.last_dst_pos + p.len)
                  = SubSeq(dst, p.last_dst_pos + 1, p.last_dst_pos + p.len)

\* The only string without a length is the one added first after a partial
\* clearing; while the code before is invalid there is none at all.
AtMostOnePending ==
    /\ \A c, d \in Pending : c = d
    /\ prev_code # INVALID_CODE /\ ~Valid(codetab, prev_code) => Pending = {}

\* What copy_from_prev_pos asserts of a copy of n bytes from pos.
CopyAsserts(pos, n) ==
    /\ pos < dst_pos /\ n > 0 /\ n <= Room
    /\ pos + n > dst_pos =>
          /\ pos + n = dst_pos + 1
          /\ dst[pos + 1] = first_byte

\* Whatever code comes next, no assertion of hwunshrink, output_code or
\* copy_from_prev_pos fails on it.
NoAssertFails ==
    status = "reading" /\ prev_code # INVALID_CODE /\ dst_pos < DST_CAP =>
        /\ codetab[prev_code].last_dst_pos < dst_pos
        /\ \A c \in Readable \ Byte : Reading(c) =>
            /\ IsKwKwK(c) => c # prev_code
            /\ Usable(KwKwKTab(c), c) /\ ~IsUnknown(c) =>
                  LET e == KwKwKTab(c)[c]
                  IN  Room >= e.len => CopyAsserts(e.last_dst_pos, e.len)
            /\ IsUnknown(c) =>
                  LET p == codetab[c].prefix_code
                      e == PrefixTab(c)[p]
                  IN  /\ p > CONTROL_CODE /\ prev_code # c
                      /\ IsKwKwK(p) => Valid(codetab, prev_code)
                      /\ Valid(PrefixTab(c), p) =>
                            /\ e.len # UNKNOWN_LEN
                            /\ Room >= e.len + 1 => CopyAsserts(e.last_dst_pos, e.len)

\* An entry that is its own prefix is never used and never cleared again (the
\* comment at the end of the loop of hwunshrink).
SelfRefIsDead ==
    [][\A c \in Dynamic : SelfRef(c) =>
          codetab'[c] = codetab[c] /\ (prev_code' = c => prev_code = c)]_vars

(***************************************************************************)
(* The inductive invariant behind the properties above, in four parts.     *)
(***************************************************************************)
\* A known string is one byte longer than its prefix and lies in the output;
\* a pending string waits for a code that is invalid, or known again.
TableInv ==
    /\ \A c \in Byte : codetab[c].prefix_code = c /\ codetab[c].len = 1
    /\ \A c \in Known :
          /\ codetab[c].prefix_code \in Byte \cup Known
          /\ codetab[c].len = codetab[codetab[c].prefix_code].len + 1
          /\ codetab[c].last_dst_pos + codetab[c].len <= dst_pos
    /\ \A c \in Pending :
          /\ codetab[c].prefix_code \in Dynamic
          /\ Valid(codetab, codetab[c].prefix_code) => codetab[c].prefix_code \in Known

\* The string of prev_code is the end of the output, even when prev_code was
\* cleared after it was output; before the first code there is no string.
PrevInv ==
    /\ prev_code = INVALID_CODE => Live = {} /\ dst = <<>>
    /\ prev_code # INVALID_CODE =>
          /\ codetab[prev_code].len \in Nat \ {0}
          /\ codetab[prev_code].last_dst_pos + codetab[prev_code].len = dst_pos
          /\ dst[codetab[prev_code].last_dst_pos + 1] = first_byte
          /\ prev_code \in Dynamic => ~SelfRef(prev_code)

IInv == TypeOK /\ FreeCodesUnused /\ TableInv /\ PrevInv /\ AtMostOnePending
================================================================================
