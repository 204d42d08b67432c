----------------------------- MODULE UnshrinkProofs -----------------------------
(***************************************************************************)
(* The decompressor of Shrink never trips one of its assertions, whatever  *)
(* codes it is fed and however many codes, bytes and sizes there are.      *)
(***************************************************************************)
EXTENDS Unshrink, WellFoundedInduction, TLAPS, SequenceTheorems

\* A set of naturals that has an element has a least one.
LEMMA LeastElement ==
    ASSUME NEW S, S \subseteq Nat, S # {}
    PROVE  \E m \in S : \A n \in S : m <= n
<1>1. PICK m \in S : \A n \in S : ~(<<n, m>> \in {ss \in Nat \X Nat : ss[1] < ss[2]})
  BY NatLessThanWellFounded, WFMin, Zenon DEF OpToRel
<1>2. \A n \in S : ~(n < m)
  BY <1>1
<1>. QED  BY <1>2

\* Literals, the control code and the assignable codes are told apart by their
\* value, and INVALID_CODE is none of them.
LEMMA CodeFacts ==
    /\ Byte \subseteq Nat /\ Dynamic \subseteq Nat /\ Code \subseteq Nat
    /\ Byte \subseteq Code /\ Dynamic \subseteq Code
    /\ Byte \cap Dynamic = {}
    /\ CONTROL_CODE \in Code /\ CONTROL_CODE \notin Byte \cup Dynamic
    /\ Code = Byte \cup Dynamic \cup {CONTROL_CODE}
    /\ INVALID_CODE \notin Code
    /\ 0 \in Byte
    /\ \A c \in Dynamic : c > CONTROL_CODE
    /\ \A c \in Byte : c < CONTROL_CODE
  BY CodeAssumption DEF Byte, Dynamic, Code

\* The next code is a free one, or INVALID_CODE when none is left.
LEMMA QueueNext ==
    ASSUME NEW q, q \subseteq Dynamic
    PROVE  /\ q = {} => code_queue_next(q) = INVALID_CODE
           /\ q # {} => code_queue_next(q) \in q
           /\ code_queue_remove_next(q) \subseteq q
           /\ code_queue_next(q) \notin code_queue_remove_next(q)
<1>1. CASE q # {}
  <2>1. \E x \in q : \A y \in q : x <= y
    BY LeastElement, CodeFacts, <1>1
  <2>. QED  BY <2>1, <1>1 DEF code_queue_next, code_queue_remove_next
<1>2. CASE q = {}
  BY <1>2 DEF code_queue_next, code_queue_remove_next
<1>. QED  BY <1>1, <1>2

\* The fields of an entry.
LEMMA EntryFields ==
    ASSUME NEW p, NEW b, NEW l, NEW q
    PROVE  /\ Entry(p, b, l, q).prefix_code = p
           /\ Entry(p, b, l, q).ext_byte = b
           /\ Entry(p, b, l, q).len = l
           /\ Entry(p, b, l, q).last_dst_pos = q
  BY DEF Entry

LEMMA EntryType ==
    ASSUME NEW p \in Code \cup {INVALID_CODE}, NEW b \in Byte,
           NEW l \in Nat \cup {UNKNOWN_LEN}, NEW q \in Nat
    PROVE  Entry(p, b, l, q) \in CodeEntry
  BY DEF Entry, CodeEntry

LEMMA InitInv == Init => IInv
<1> SUFFICES ASSUME Init PROVE IInv
  OBVIOUS
<1> USE CodeFacts, CodeAssumption, UnshrinkAssumption
<1>1. codetab \in [Code -> CodeEntry]
  BY EntryType DEF Init, codetab_init
<1>2. /\ \A c \in Byte : codetab[c].prefix_code = c /\ codetab[c].len = 1
      /\ \A c \in Dynamic : codetab[c].prefix_code = INVALID_CODE
  BY EntryFields DEF Init, codetab_init
<1>3. TypeOK
  <2>1. dst \in Seq(Byte) /\ Len(dst) = 0
    BY EmptySeq DEF Init
  <2>. QED  BY <1>1, <2>1, CodeSizeAssumption DEF Init, TypeOK, code_queue_init, dst_pos
<1>4. Live = {} /\ Pending = {} /\ Known = {}
  BY <1>2 DEF Live, Pending, Known, Valid
<1>5. FreeCodesUnused
  BY <1>2 DEF FreeCodesUnused, Init, code_queue_init, Valid
<1>6. TableInv
  BY <1>2, <1>4 DEF TableInv
<1>7. PrevInv /\ AtMostOnePending
  BY <1>4 DEF PrevInv, AtMostOnePending, Init
<1>. QED  BY <1>3, <1>5, <1>6, <1>7 DEF IInv

--------------------------------------------------------------------------------
(***************************************************************************)
(* Steps that output nothing.                                              *)
(***************************************************************************)
\* Returning, and counting the code size up, change nothing the invariant is
\* about but the type of status and code_size.
LEMMA ReturnInv ==
    ASSUME IInv, UNCHANGED <<codetab, queue, prev_code, first_byte, dst>>,
           code_size' \in MIN_CODE_SIZE .. MAX_CODE_SIZE,
           status' \in {"reading", "ok", "err", "full"}
    PROVE  IInv'
  BY DEF IInv, TypeOK, FreeCodesUnused, TableInv, PrevInv, AtMostOnePending,
         Live, Pending, Known, SelfRef, Valid, dst_pos

\* A partial clearing drops strings no other string is built on: every string
\* that stays keeps its prefix, and the pending one does not stay.
LEMMA PartialClearInv == IInv /\ ReadPartialClear => IInv'
<1> SUFFICES ASSUME IInv, ReadPartialClear PROVE IInv'
  OBVIOUS
<1> USE CodeFacts DEF IInv
<1>1. /\ UNCHANGED <<code_size, prev_code, first_byte, dst, status>>
      /\ queue' = Dynamic \ is_prefix
      /\ codetab' = [c \in Code |->
                        IF c \in Dynamic \ is_prefix
                        THEN [codetab[c] EXCEPT !.prefix_code = INVALID_CODE]
                        ELSE codetab[c]]
  BY DEF ReadPartialClear, unshrink_partial_clear
<1>2. codetab \in [Code -> CodeEntry]
  BY DEF TypeOK
<1>3. \A c \in Code : /\ codetab'[c].len = codetab[c].len
                      /\ codetab'[c].last_dst_pos = codetab[c].last_dst_pos
                      /\ c \in Dynamic \ is_prefix => codetab'[c].prefix_code = INVALID_CODE
                      /\ c \notin Dynamic \ is_prefix => codetab'[c] = codetab[c]
                      /\ codetab'[c] \in CodeEntry
  BY <1>1, <1>2 DEF CodeEntry
<1>4. TypeOK'
  BY <1>1, <1>3 DEF TypeOK, dst_pos
<1>5. Live' \subseteq Live /\ Live' = Live \cap is_prefix
  BY <1>3, ZenonT(30) DEF Live, Valid, SelfRef
<1>6. Pending' \subseteq Pending /\ Known' \subseteq Known /\ Known' = Known \cap Live'
  BY <1>3, <1>5 DEF Pending, Known, Live
<1>7. Pending' = {}
  <2> SUFFICES ASSUME NEW c \in Pending' PROVE FALSE
    OBVIOUS
  <2>1. c \in Pending /\ c \in is_prefix
    BY <1>5, <1>6 DEF Pending
  <2>2. PICK d \in Dynamic : Valid(codetab, d) /\ codetab[d].prefix_code = c
    BY <2>1 DEF is_prefix
  <2>3. c \in Dynamic /\ Valid(codetab, c) /\ ~SelfRef(c) /\ c \notin Known
    BY <2>1 DEF Pending, Live, Known
  <2>4. d \in Live
    BY <2>2, <2>3 DEF Live, SelfRef
  <2>5. CASE d \in Known
    BY <2>5, <2>2, <2>3 DEF TableInv
  <2>6. CASE d \in Pending
    BY <2>6, <2>2, <2>3 DEF TableInv
  <2>. QED  BY <2>4, <2>5, <2>6 DEF Known
<1>8. FreeCodesUnused'
  BY <1>1, <1>3 DEF FreeCodesUnused, Valid
<1>9. TableInv'
  <2>1. \A c \in Byte : codetab'[c].prefix_code = c /\ codetab'[c].len = 1
    BY <1>3 DEF TableInv
  <2>2. ASSUME NEW c \in Known'
        PROVE  /\ codetab'[c].prefix_code \in Byte \cup Known'
               /\ codetab'[c].len = codetab'[codetab'[c].prefix_code].len + 1
               /\ codetab'[c].last_dst_pos + codetab'[c].len <= dst_pos'
    <3>1. c \in Known /\ c \in Dynamic /\ c \in is_prefix /\ Valid(codetab, c)
      BY <1>5, <1>6 DEF Known, Live
    <3>2. codetab'[c] = codetab[c]
      BY <3>1, <1>3
    <3>3. codetab[c].prefix_code \in is_prefix
      BY <3>1 DEF is_prefix
    <3>4. codetab[c].prefix_code \in Byte \cup Known'
      BY <3>1, <3>3, <1>5, <1>6 DEF TableInv, Known
    <3>. QED  BY <3>1, <3>2, <3>4, <1>1, <1>3 DEF TableInv, dst_pos, Known, Live
  <2>. QED  BY <2>1, <2>2, <1>7 DEF TableInv
<1>10. PrevInv'
  <2>1. CASE prev_code = INVALID_CODE
    BY <2>1, <1>1, <1>5 DEF PrevInv
  <2>2. CASE prev_code # INVALID_CODE
    <3>1. prev_code \in Code
      BY <2>2 DEF TypeOK
    <3>2. prev_code \in Dynamic => ~SelfRef(prev_code)'
      BY <1>1, <1>3, <2>2, <3>1 DEF PrevInv, SelfRef
    <3>. QED  BY <2>2, <1>1, <1>3, <3>1, <3>2 DEF PrevInv, dst_pos
  <2>. QED  BY <2>1, <2>2
<1>11. AtMostOnePending'
  BY <1>7 DEF AtMostOnePending
<1>. QED  BY <1>4, <1>8, <1>9, <1>10, <1>11

LEMMA FirstCodeInv == ASSUME NEW c \in Readable, IInv, FirstCode(c) PROVE IInv'
<1> USE CodeFacts, UnshrinkAssumption
<1>1. CASE Return("err") \/ Return("full")
  BY <1>1, ReturnInv DEF Return, IInv, TypeOK
<1>2. CASE /\ c \in Byte /\ DST_CAP > 0
           /\ first_byte' = c /\ dst' = <<c>> /\ prev_code' = c
           /\ codetab' = [codetab EXCEPT ![c].last_dst_pos = 0]
           /\ UNCHANGED <<code_size, queue, status>>
  <2>1. codetab \in [Code -> CodeEntry] /\ c \in Code
    BY <1>2 DEF IInv, TypeOK
  <2>2. /\ codetab' \in [Code -> CodeEntry]
        /\ \A d \in Code : /\ codetab'[d].prefix_code = codetab[d].prefix_code
                            /\ codetab'[d].len = codetab[d].len
        /\ codetab'[c].last_dst_pos = 0
    BY <1>2, <2>1 DEF CodeEntry
  <2>3. dst' \in Seq(Byte) /\ Len(dst') = 1 /\ dst'[1] = c
    BY <1>2
  <2>4. TypeOK'
    BY <1>2, <2>2, <2>3 DEF IInv, TypeOK, dst_pos
  <2>5. prev_code = INVALID_CODE /\ Live = {}
    BY DEF FirstCode, IInv, PrevInv
  <2>6. Live' = {} /\ Known' = {} /\ Pending' = {}
    <3>1. \A d \in Dynamic : ~Valid(codetab', d) \/ SelfRef(d)'
      BY <2>2, <2>5 DEF Live, Valid, SelfRef
    <3>2. Live' = {}
      BY <3>1 DEF Live
    <3>. QED  BY <3>2 DEF Known, Pending
  <2>7. codetab'[c].prefix_code = c /\ codetab'[c].len = 1
    BY <1>2, <2>1, <2>2 DEF IInv, TableInv
  <2>8. TableInv'
    BY <2>2, <2>6 DEF IInv, TableInv
  <2>9. FreeCodesUnused'
    BY <1>2, <2>2 DEF IInv, FreeCodesUnused, Valid, TypeOK
  <2>10. PrevInv'
    BY <1>2, <2>2, <2>3, <2>7 DEF PrevInv, dst_pos
  <2>11. AtMostOnePending'
    BY <2>6 DEF AtMostOnePending
  <2>. QED  BY <2>4, <2>8, <2>9, <2>10, <2>11 DEF IInv
<1>. QED  BY <1>1, <1>2 DEF FirstCode

--------------------------------------------------------------------------------
(***************************************************************************)
(* Steps that output a string.  OutputShape says entry by entry what the   *)
(* three output actions leave in the table: the code just used has its     *)
(* length and position, the code just added is the previous string and one *)
(* byte, and no other entry changed.                                       *)
(***************************************************************************)
AddedLen(new) ==
    IF new = prev_code \/ Valid(codetab, prev_code)
    THEN codetab[prev_code].len + 1 ELSE UNKNOWN_LEN

\* Where the length of a code's string comes from.
LengthOf(c, n) ==
    LET new == code_queue_next(queue)
        p == codetab[c].prefix_code
    IN  \/ c \in Byte /\ n = 1
        \/ c = new /\ Valid(codetab, prev_code) /\ n = codetab[prev_code].len + 1
        \/ c \in Known /\ n = codetab[c].len
        \/ c \in Pending /\ p \in Known /\ n = codetab[p].len + 1
        \/ /\ c \in Pending /\ p = new /\ Valid(codetab, prev_code)
           /\ n = codetab[prev_code].len + 2

Repeats(str, n, pos) == \A i \in 1 .. n : str[i] = dst[pos + i]

\* The string a code stands for, by the entry it comes from.
StringOf(c, str) ==
    LET new == code_queue_next(queue)
        p == codetab[c].prefix_code
        prev == codetab[prev_code]
        n == Len(str)
    IN  \/ c \in Byte /\ str = <<c>>
        \/ /\ c = new /\ Valid(codetab, prev_code) /\ n = prev.len + 1
           /\ Repeats(str, prev.len, prev.last_dst_pos) /\ str[n] = first_byte
        \/ c \in Known /\ n = codetab[c].len /\ Repeats(str, n, codetab[c].last_dst_pos)
        \/ /\ c \in Pending /\ p \in Known /\ n = codetab[p].len + 1
           /\ Repeats(str, codetab[p].len, codetab[p].last_dst_pos)
           /\ str[n] = codetab[c].ext_byte
        \/ /\ c \in Pending /\ p = new /\ Valid(codetab, prev_code) /\ n = prev.len + 2
           /\ Repeats(str, prev.len, prev.last_dst_pos)
           /\ str[prev.len + 1] = first_byte /\ str[n] = codetab[c].ext_byte

LEMMA StringLength ==
    ASSUME NEW c, NEW str, StringOf(c, str) PROVE LengthOf(c, Len(str))
<1>1. str = <<c>> => Len(str) = 1
  OBVIOUS
<1>. QED  BY <1>1, Zenon DEF StringOf, LengthOf

OutputShape(c, str) ==
    LET new == code_queue_next(queue)
    IN  /\ prev_code # INVALID_CODE /\ c \in Byte \cup Dynamic
        /\ str \in Seq(Byte) /\ str # <<>> /\ dst_pos + Len(str) <= DST_CAP
        /\ StringOf(c, str)
        /\ codetab' \in [Code -> CodeEntry]
        /\ \A x \in Code \ {c, new} : codetab'[x] = codetab[x]
        /\ new # INVALID_CODE /\ new # c =>
              /\ codetab'[new].prefix_code = prev_code
              /\ codetab'[new].len = AddedLen(new)
              /\ codetab'[new].last_dst_pos = codetab[prev_code].last_dst_pos
        /\ codetab'[c].prefix_code = IF c = new THEN prev_code ELSE codetab[c].prefix_code
        /\ new # INVALID_CODE => codetab'[new].ext_byte = str[1]
        /\ c # new => codetab'[c].ext_byte = codetab[c].ext_byte
        /\ codetab'[c].len = Len(str)
        /\ codetab'[c].last_dst_pos = dst_pos
        /\ dst' = dst \o str /\ first_byte' = str[1] /\ prev_code' = c
        /\ queue' = code_queue_remove_next(queue)
        /\ UNCHANGED <<code_size, status>>

LEMMA OutputPreserves ==
    ASSUME NEW c, NEW str, IInv, OutputShape(c, str)
    PROVE  IInv'
<1> DEFINE new == code_queue_next(queue)
<1> USE CodeFacts, UnshrinkAssumption
<1>1. /\ prev_code # INVALID_CODE /\ c \in Byte \cup Dynamic
      /\ str \in Seq(Byte) /\ str # <<>> /\ dst_pos + Len(str) <= DST_CAP
      /\ LengthOf(c, Len(str))
      /\ codetab' \in [Code -> CodeEntry]
      /\ \A x \in Code \ {c, new} : codetab'[x] = codetab[x]
      /\ new # INVALID_CODE /\ new # c =>
            /\ codetab'[new].prefix_code = prev_code
            /\ codetab'[new].len = AddedLen(new)
            /\ codetab'[new].last_dst_pos = codetab[prev_code].last_dst_pos
      /\ codetab'[c].prefix_code = IF c = new THEN prev_code ELSE codetab[c].prefix_code
      /\ codetab'[c].len = Len(str)
      /\ codetab'[c].last_dst_pos = dst_pos
      /\ dst' = dst \o str /\ first_byte' = str[1] /\ prev_code' = c
      /\ queue' = code_queue_remove_next(queue)
      /\ UNCHANGED <<code_size, status>>
  BY StringLength, Zenon DEF OutputShape
<1>2. /\ codetab \in [Code -> CodeEntry] /\ queue \subseteq Dynamic
      /\ prev_code \in Byte \cup Dynamic /\ prev_code \in Code
      /\ dst \in Seq(Byte) /\ Len(dst) \in Nat
  BY <1>1, LenProperties DEF IInv, TypeOK
<1>3. /\ new = INVALID_CODE \/ (new \in queue /\ new \in Dynamic)
      /\ queue' \subseteq queue /\ new \notin queue'
  BY <1>1, <1>2, QueueNext
<1>4. new # INVALID_CODE => ~Valid(codetab, new)
  BY <1>3 DEF IInv, FreeCodesUnused
<1>5. \A x \in Code : /\ codetab[x] \in CodeEntry /\ codetab'[x] \in CodeEntry
                      /\ codetab[x].last_dst_pos \in Nat
  BY <1>1, <1>2 DEF CodeEntry
<1>6. /\ dst' \in Seq(Byte) /\ Len(dst') = Len(dst) + Len(str)
      /\ Len(str) \in Nat \ {0} /\ dst'[Len(dst) + 1] = str[1] /\ str[1] \in Byte
  BY <1>1, <1>2, ConcatProperties, LenProperties, EmptySeq, ElementOfSeq
<1>7. TypeOK'
  BY <1>1, <1>2, <1>3, <1>6 DEF IInv, TypeOK, dst_pos
<1>8. /\ codetab[prev_code].len \in Nat \ {0}
      /\ codetab[prev_code].last_dst_pos + codetab[prev_code].len = Len(dst)
      /\ prev_code \in Dynamic => ~SelfRef(prev_code)
  BY <1>1 DEF IInv, PrevInv, dst_pos
<1>9. Valid(codetab, prev_code) => prev_code \in Byte \cup Known /\ prev_code # new
  BY <1>2, <1>4, <1>8, <1>3 DEF Known, Live, Pending
<1>10. \A x \in Known : x # new /\ codetab[x].len \in Nat /\ x \in Dynamic
  BY <1>4, <1>5, <1>3 DEF Known, Live, Pending, CodeEntry
<1>11. \A x \in Pending : x # new /\ x # prev_code /\ codetab[x].len = UNKNOWN_LEN /\ x \in Dynamic
  BY <1>4, <1>3, <1>8 DEF Live, Pending
<1>12. c \in Byte \/ c \in Known \/ c \in Pending \/ (c = new /\ Valid(codetab, prev_code))
  BY <1>1 DEF LengthOf
<1>13. /\ c \in Code /\ Valid(codetab', c) /\ prev_code \in Code
       /\ \A x \in Known : Valid(codetab, x) /\ ~SelfRef(x)
       /\ \A x \in Pending : Valid(codetab, x) /\ ~SelfRef(x)
       /\ \A x \in Byte : Valid(codetab, x) /\ codetab[x].prefix_code = x /\ codetab[x].len = 1
  BY <1>1, <1>2, <1>12 DEF Known, Pending, Live, Valid, IInv, TableInv
<1>14. c \in Dynamic => c \in Known'
  <2>1. CASE c = new
    BY <2>1, <1>1, <1>6, <1>9, <1>12, <1>13 DEF Known, Live, Pending, Valid, SelfRef
  <2>2. CASE c # new
    BY <2>2, <1>1, <1>6, <1>12, <1>13 DEF Known, Live, Pending, Valid, SelfRef
  <2>. QED  BY <2>1, <2>2
<1>15. \A x \in Known : x \in Known'
  <2> SUFFICES ASSUME NEW x \in Known, x # c PROVE x \in Known'
    BY <1>10, <1>14
  <2>1. x \in Code /\ codetab'[x] = codetab[x]
    BY <1>1, <1>10
  <2>. QED  BY <2>1 DEF Known, Live, Pending, Valid, SelfRef
<1>16. new # INVALID_CODE /\ new # c =>
          /\ Valid(codetab, prev_code) => new \in Known' /\ codetab'[new].len = codetab[prev_code].len + 1
          /\ new = prev_code => new \notin Live'
          /\ ~Valid(codetab, prev_code) /\ new # prev_code => codetab'[new].len = UNKNOWN_LEN
  BY <1>1, <1>3, <1>8, <1>9, <1>13, SMTT(30) DEF Known, Live, Pending, Valid, SelfRef, AddedLen
<1>17. \A x \in Pending' : \/ x \in Pending /\ x # c /\ x # new
                           \/ /\ x = new /\ new # c /\ new # INVALID_CODE
                              /\ ~Valid(codetab, prev_code) /\ new # prev_code
  <2> SUFFICES ASSUME NEW x \in Pending' PROVE
         \/ x \in Pending /\ x # c /\ x # new
         \/ /\ x = new /\ new # c /\ new # INVALID_CODE
            /\ ~Valid(codetab, prev_code) /\ new # prev_code
    OBVIOUS
  <2>1. x \in Dynamic /\ x \in Live' /\ x \notin Known' /\ x # c
    BY <1>14 DEF Pending, Known, Live
  <2>2. CASE x = new
    <3>1. new # INVALID_CODE /\ new # c
      BY <2>1, <2>2
    <3>. QED  BY <2>1, <2>2, <3>1, <1>16
  <2>3. CASE x # new
    <3>1. codetab'[x] = codetab[x]
      BY <1>1, <2>1, <2>3
    <3>. QED  BY <2>1, <2>3, <3>1 DEF Pending, Live, Valid, SelfRef
  <2>. QED  BY <2>2, <2>3
<1>18. \A x \in Known' : \/ x \in Known \/ x = c
                         \/ x = new /\ new # INVALID_CODE /\ new # c /\ Valid(codetab, prev_code)
  <2> SUFFICES ASSUME NEW x \in Known', x # c PROVE
         x \in Known \/ (x = new /\ new # INVALID_CODE /\ Valid(codetab, prev_code))
    OBVIOUS
  <2>1. x \in Dynamic /\ x \in Live' /\ codetab'[x].len # UNKNOWN_LEN
    BY DEF Pending, Known, Live
  <2>2. CASE x = new
    BY <2>1, <2>2, <1>16
  <2>3. CASE x # new
    <3>1. codetab'[x] = codetab[x]
      BY <1>1, <2>1, <2>3
    <3>. QED  BY <2>1, <3>1 DEF Pending, Known, Live, Valid, SelfRef
  <2>. QED  BY <2>2, <2>3
<1>19. \A x \in Byte \cup Known : x \in Byte \cup Known' /\ codetab'[x].len = codetab[x].len
  <2> SUFFICES ASSUME NEW x \in Byte \cup Known PROVE codetab'[x].len = codetab[x].len
    BY <1>15
  <2>1. x # new /\ x \in Code
    BY <1>3, <1>10
  <2>2. CASE x # c
    BY <1>1, <2>1, <2>2
  <2>3. CASE x = c
    BY <1>1, <1>10, <1>11, <1>13, <2>1, <2>3 DEF LengthOf, Known
  <2>. QED  BY <2>2, <2>3
<1>20. FreeCodesUnused'
  <2> SUFFICES ASSUME NEW x \in queue' PROVE ~Valid(codetab', x)
    BY DEF FreeCodesUnused, Valid
  <2>1. x \in queue /\ x # new /\ x \in Dynamic /\ ~Valid(codetab, x)
    BY <1>2, <1>3 DEF IInv, FreeCodesUnused
  <2>2. x # c
    BY <2>1, <1>12, <1>13
  <2>. QED  BY <2>1, <2>2, <1>1 DEF Valid
<1>21. TableInv'
  <2>1. ASSUME NEW x \in Byte PROVE codetab'[x].prefix_code = x /\ codetab'[x].len = 1
    <3>1. x # new /\ x \in Code
      BY <1>3
    <3>. QED  BY <3>1, <1>1, <1>13, <1>19
  <2>2. ASSUME NEW x \in Known'
        PROVE  /\ codetab'[x].prefix_code \in Byte \cup Known'
               /\ codetab'[x].len = codetab'[codetab'[x].prefix_code].len + 1
               /\ codetab'[x].last_dst_pos + codetab'[x].len <= Len(dst')
    <3>1. CASE x = new /\ Valid(codetab, prev_code) /\ x # c
      <4>1. new # INVALID_CODE /\ new # c
        BY <3>1 DEF Known, Live
      <4>2. /\ codetab'[new].prefix_code = prev_code
            /\ codetab'[new].len = codetab[prev_code].len + 1
            /\ codetab'[new].last_dst_pos = codetab[prev_code].last_dst_pos
        BY <3>1, <4>1, <1>1, <1>16
      <4>3. prev_code \in Byte \cup Known' /\ codetab'[prev_code].len = codetab[prev_code].len
        BY <3>1, <1>9, <1>19
      <4>4. codetab'[new].last_dst_pos + codetab'[new].len <= Len(dst')
        BY <4>2, <1>2, <1>5, <1>6, <1>8
      <4>. QED  BY <3>1, <4>2, <4>3, <4>4
    <3>2. CASE x \in Known /\ x # c
      <4>1. x \in Code /\ codetab'[x] = codetab[x]
        BY <3>2, <1>1, <1>10
      <4>2. /\ codetab[x].prefix_code \in Byte \cup Known
            /\ codetab[x].len = codetab[codetab[x].prefix_code].len + 1
            /\ codetab[x].last_dst_pos + codetab[x].len <= Len(dst)
        BY <3>2 DEF IInv, TableInv, dst_pos
      <4>3. codetab[x].last_dst_pos + codetab[x].len <= Len(dst')
        <5>1. codetab[x].last_dst_pos \in Nat /\ codetab[x].len \in Nat
          BY <3>2, <4>1, <1>5, <1>10
        <5>. QED  BY <5>1, <4>2, <1>2, <1>6
      <4>. QED  BY <4>1, <4>2, <4>3, <1>19
    <3>3. CASE x = c
      <4>1. codetab'[c].last_dst_pos + codetab'[c].len <= Len(dst') /\ c \in Dynamic
        BY <3>3, <1>1, <1>2, <1>6 DEF dst_pos, Known, Live
      <4>2. CASE c = new
        BY <4>1, <4>2, <3>3, <1>1, <1>9, <1>12, <1>19, <1>13, <1>10, <1>11 DEF LengthOf
      <4>3. CASE c # new
        <5>1. codetab'[c].prefix_code = codetab[c].prefix_code
          BY <4>3, <1>1
        <5>2. CASE c \in Known
          BY <5>1, <5>2, <4>1, <3>3, <1>19, ZenonT(30) DEF IInv, TableInv
        <5>3. CASE c \in Pending
          <6>1. c \notin Known /\ c \notin Byte
            BY <5>3, <1>11 DEF Known
          <6>2. CASE codetab[c].prefix_code \in Known /\ Len(str) = codetab[codetab[c].prefix_code].len + 1
            BY <6>2, <5>1, <4>1, <3>3, <1>1, <1>19
          <6>3. CASE /\ codetab[c].prefix_code = new /\ Valid(codetab, prev_code)
                     /\ Len(str) = codetab[prev_code].len + 2
            <7>1. new \in Dynamic
              BY <5>3, <6>3 DEF IInv, TableInv
            <7>. QED  BY <7>1, <6>3, <5>1, <4>1, <4>3, <3>3, <1>1, <1>8, <1>16, SMTT(30)
          <6>. QED  BY <6>1, <6>2, <6>3, <1>1, <4>3 DEF LengthOf
        <5>. QED  BY <5>2, <5>3, <4>1, <4>3, <1>12
      <4>. QED  BY <4>2, <4>3
    <3>. QED  BY <3>1, <3>2, <3>3, <1>18
  <2>3. ASSUME NEW x \in Pending'
        PROVE  /\ codetab'[x].prefix_code \in Dynamic
               /\ Valid(codetab', codetab'[x].prefix_code) => codetab'[x].prefix_code \in Known'
    <3>1. CASE x \in Pending /\ x # c /\ x # new
      <4> DEFINE p == codetab[x].prefix_code
      <4>1. codetab'[x] = codetab[x]
        BY <3>1, <1>1, <1>11
      <4>2. p \in Dynamic /\ (Valid(codetab, p) => p \in Known) /\ Valid(codetab, prev_code)
        BY <3>1, <1>1 DEF IInv, TableInv, AtMostOnePending
      <4>3. CASE p = c
        BY <4>1, <4>2, <4>3, <1>14
      <4>4. CASE p = new /\ p # c
        BY <4>1, <4>2, <4>4, <1>16
      <4>5. CASE p # new /\ p # c
        <5>1. codetab'[p] = codetab[p]
          BY <4>2, <4>5, <1>1
        <5>. QED  BY <5>1, <4>1, <4>2, <1>15 DEF Valid
      <4>. QED  BY <4>3, <4>4, <4>5
    <3>2. CASE /\ x = new /\ new # c /\ new # INVALID_CODE
               /\ ~Valid(codetab, prev_code) /\ new # prev_code
      <4>1. codetab'[x].prefix_code = prev_code
        BY <3>2, <1>1
      <4>2. prev_code \in Dynamic /\ prev_code # c
        BY <3>2, <1>2, <1>12, <1>13
      <4>3. codetab'[prev_code] = codetab[prev_code]
        BY <3>2, <4>2, <1>1
      <4>. QED  BY <4>1, <4>2, <4>3, <3>2 DEF Valid
    <3>. QED  BY <3>1, <3>2, <1>17
  <2>. QED  BY <2>1, <2>2, <2>3 DEF TableInv, dst_pos
<1>22. PrevInv'
  <2>1. c # INVALID_CODE /\ c \in Dynamic => ~SelfRef(c)'
    BY <1>13, <1>14 DEF Known, Live
  <2>. QED  BY <2>1, <1>1, <1>2, <1>6, <1>13 DEF PrevInv, dst_pos, SelfRef
<1>23. AtMostOnePending'
  <2>1. ASSUME NEW x \in Pending', NEW y \in Pending' PROVE x = y
    <3>1. new \in Pending' => ~Valid(codetab, prev_code) \/ new \in Pending
      BY <1>17
    <3>2. ~Valid(codetab, prev_code) => Pending = {}
      BY <1>1 DEF IInv, AtMostOnePending
    <3>. QED  BY <3>1, <3>2, <1>17 DEF IInv, AtMostOnePending
  <2>. QED  BY <2>1, <1>1, <1>13 DEF AtMostOnePending
<1>. QED  BY <1>7, <1>20, <1>21, <1>22, <1>23 DEF IInv

--------------------------------------------------------------------------------
(***************************************************************************)
(* Every output action has that shape.                                     *)
(***************************************************************************)
\* What is copied: bytes of the output, and in the KwKwK cases the one byte
\* that was stored behind it.
LEMMA CopyFacts ==
    ASSUME TypeOK, NEW pos \in Nat, NEW n \in Nat \ {0}, pos + n <= Len(dst) + 1
    PROVE  /\ Copy(pos, n) \in Seq(Byte)
           /\ Len(Copy(pos, n)) = n
           /\ Copy(pos, n) # <<>>
           /\ \A i \in 1 .. n : Copy(pos, n)[i] = IF pos + i <= Len(dst) THEN dst[pos + i]
                                                  ELSE first_byte
<1> DEFINE buf == Append(dst, first_byte)
<1>1. dst \in Seq(Byte) /\ first_byte \in Byte /\ Len(dst) \in Nat
  BY LenProperties DEF TypeOK
<1>2. /\ buf \in Seq(Byte) /\ Len(buf) = Len(dst) + 1
      /\ \A i \in 1 .. Len(dst) : buf[i] = dst[i]
      /\ buf[Len(dst) + 1] = first_byte
  BY <1>1
<1> HIDE DEF buf
<1>3. \A i \in pos + 1 .. pos + n : i \in 1 .. Len(buf)
  BY <1>1, <1>2
<1>4. \A i \in pos + 1 .. pos + n : buf[i] \in Byte
  BY <1>2, <1>3, ElementOfSeq
<1>5. /\ SubSeq(buf, pos + 1, pos + n) \in Seq(Byte)
      /\ Len(SubSeq(buf, pos + 1, pos + n)) = n
      /\ \A i \in 1 .. n : SubSeq(buf, pos + 1, pos + n)[i] = buf[pos + i]
  <2>1. /\ SubSeq(buf, pos + 1, pos + n) \in Seq(Byte)
        /\ Len(SubSeq(buf, pos + 1, pos + n))
              = IF pos + 1 <= pos + n THEN (pos + n) - (pos + 1) + 1 ELSE 0
        /\ \A i \in 1 .. (pos + n) - (pos + 1) + 1 :
              SubSeq(buf, pos + 1, pos + n)[i] = buf[(pos + 1) + i - 1]
    BY <1>4, SubSeqProperties
  <2>. QED  BY <2>1
<1>6. \A i \in 1 .. n : buf[pos + i] = IF pos + i <= Len(dst) THEN dst[pos + i] ELSE first_byte
  BY <1>1, <1>2
<1>7. Copy(pos, n) = SubSeq(buf, pos + 1, pos + n)
  BY DEF Copy, buf
<1>. QED  BY <1>5, <1>6, <1>7, EmptySeq

LEMMA OutputGivesShape ==
    ASSUME IInv, prev_code # INVALID_CODE,
           NEW c \in Byte \cup Dynamic, NEW tab \in [Code -> CodeEntry], NEW str \in Seq(Byte),
           str # <<>>, dst_pos + Len(str) <= DST_CAP,
           tab[prev_code] = codetab[prev_code],
           \A x \in Code \ {c, code_queue_next(queue)} : tab[x] = codetab[x],
           IF c = code_queue_next(queue)
           THEN Valid(codetab, prev_code) /\ Len(str) = codetab[prev_code].len + 1
           ELSE /\ tab[c].prefix_code = codetab[c].prefix_code /\ tab[c].len = Len(str)
                /\ tab[c].ext_byte = codetab[c].ext_byte,
           StringOf(c, str),
           Output(c, tab, str)
    PROVE  OutputShape(c, str)
<1> DEFINE new == code_queue_next(queue)
           added == AddCode(tab, str[1])
           entry == Entry(prev_code, str[1], AddedLen(new), codetab[prev_code].last_dst_pos)
<1> USE CodeFacts, UnshrinkAssumption
<1>1. /\ prev_code \in Code /\ codetab[prev_code] \in CodeEntry /\ queue \subseteq Dynamic
      /\ c \in Code /\ str[1] \in Byte /\ dst_pos \in Nat
  BY ElementOfSeq, LenProperties, EmptySeq DEF IInv, TypeOK, dst_pos
<1>2. new = INVALID_CODE \/ new \in Dynamic
  BY <1>1, QueueNext
<1>3. codetab[prev_code].len \in Nat /\ codetab[prev_code].last_dst_pos \in Nat
  BY <1>1 DEF IInv, PrevInv, CodeEntry
<1>4. added = IF new = INVALID_CODE THEN tab ELSE [tab EXCEPT ![new] = entry]
  BY Zenon DEF AddCode, AddedLen, Valid
<1>5. entry \in CodeEntry
  <2>1. AddedLen(new) \in Nat \cup {UNKNOWN_LEN}
    BY <1>3 DEF AddedLen
  <2>2. prev_code \in Code \cup {INVALID_CODE}
    BY <1>1
  <2>. QED  BY <2>1, <2>2, <1>1, <1>3, EntryType, Zenon
<1> HIDE DEF added, new
<1>6. added \in [Code -> CodeEntry]
  BY <1>4, <1>5, <1>2
<1>7. /\ \A x \in Code : x # new => added[x] = tab[x]
      /\ new # INVALID_CODE => added[new] = entry
  BY <1>2, <1>4
<1>8. codetab' = [added EXCEPT ![c].last_dst_pos = dst_pos]
  BY DEF Output, added
<1>9. /\ codetab' \in [Code -> CodeEntry]
      /\ \A x \in Code : x # c => codetab'[x] = added[x]
      /\ codetab'[c].prefix_code = added[c].prefix_code
      /\ codetab'[c].ext_byte = added[c].ext_byte
      /\ codetab'[c].len = added[c].len
      /\ codetab'[c].last_dst_pos = dst_pos
  <2> DEFINE e == [added[c] EXCEPT !.last_dst_pos = dst_pos]
  <2>1. added[c] \in CodeEntry
    BY <1>1, <1>6
  <2>2. /\ e \in CodeEntry /\ e.prefix_code = added[c].prefix_code
        /\ e.ext_byte = added[c].ext_byte
        /\ e.len = added[c].len /\ e.last_dst_pos = dst_pos
    BY <2>1, <1>1 DEF CodeEntry
  <2>3. codetab' = [added EXCEPT ![c] = e]
    BY <1>8
  <2> HIDE DEF e
  <2>4. codetab'[c] = e /\ \A x \in Code : x # c => codetab'[x] = added[x]
    BY <2>3, <1>1, <1>6
  <2>. QED  BY <2>2, <2>3, <2>4, <1>1, <1>6
<1>10. new # INVALID_CODE => /\ added[new].prefix_code = prev_code
                            /\ added[new].ext_byte = str[1]
                            /\ added[new].len = AddedLen(new)
                            /\ added[new].last_dst_pos = codetab[prev_code].last_dst_pos
  BY <1>7, EntryFields
<1>11. /\ codetab'[c].prefix_code = IF c = new THEN prev_code ELSE codetab[c].prefix_code
       /\ codetab'[c].len = Len(str)
  BY <1>1, <1>7, <1>9, <1>10 DEF AddedLen, new
<1>12. \A x \in Code \ {c, new} : codetab'[x] = codetab[x]
  BY <1>7, <1>9 DEF new
<1>13. new # INVALID_CODE /\ new # c =>
          /\ codetab'[new].prefix_code = prev_code
          /\ codetab'[new].len = AddedLen(new)
          /\ codetab'[new].last_dst_pos = codetab[prev_code].last_dst_pos
  BY <1>2, <1>9, <1>10
<1>14. /\ new # INVALID_CODE => codetab'[new].ext_byte = str[1]
       /\ c # new => codetab'[c].ext_byte = codetab[c].ext_byte
  BY <1>1, <1>2, <1>7, <1>9, <1>10 DEF new
<1>. QED  BY <1>9, <1>11, <1>12, <1>13, <1>14 DEF OutputShape, Output, new

\* What the invariant says of the code read before, in the terms the proofs
\* below use it.
LEMMA PrevFacts ==
    ASSUME IInv, prev_code # INVALID_CODE
    PROVE  /\ prev_code \in Code /\ prev_code \in Byte \cup Dynamic
           /\ codetab[prev_code].len \in Nat \ {0}
           /\ codetab[prev_code].last_dst_pos \in Nat
           /\ codetab[prev_code].last_dst_pos + codetab[prev_code].len = Len(dst)
           /\ code_queue_next(queue) = INVALID_CODE
                \/ (code_queue_next(queue) \in Dynamic /\ ~Valid(codetab, code_queue_next(queue)))
           /\ codetab \in [Code -> CodeEntry] /\ Len(dst) \in Nat /\ first_byte \in Byte
           /\ \A c \in Known : codetab[c].len \in Nat \ {0} /\ codetab[c].last_dst_pos \in Nat
                              /\ codetab[c].last_dst_pos + codetab[c].len <= Len(dst)
<1> USE CodeFacts, UnshrinkAssumption
<1>1. /\ prev_code \in Code /\ prev_code \in Byte \cup Dynamic
      /\ codetab \in [Code -> CodeEntry] /\ queue \subseteq Dynamic
      /\ Len(dst) \in Nat /\ first_byte \in Byte
  BY LenProperties DEF IInv, TypeOK
<1>2. code_queue_next(queue) = INVALID_CODE
        \/ (code_queue_next(queue) \in Dynamic /\ ~Valid(codetab, code_queue_next(queue)))
  BY <1>1, QueueNext DEF IInv, FreeCodesUnused
<1>3. /\ codetab[prev_code].len \in Nat \ {0}
      /\ codetab[prev_code].last_dst_pos + codetab[prev_code].len = Len(dst)
  BY DEF IInv, PrevInv, dst_pos
<1>4. \A c \in Code : codetab[c].last_dst_pos \in Nat /\ codetab[c].len \in Nat \cup {UNKNOWN_LEN}
  BY <1>1 DEF CodeEntry
<1>5. ASSUME NEW c \in Known
      PROVE  /\ codetab[c].len \in Nat \ {0}
             /\ codetab[c].last_dst_pos + codetab[c].len <= Len(dst)
  <2>1. c \in Code /\ codetab[c].len \in Nat
    BY <1>4 DEF Known, Live, Pending
  <2>2. /\ codetab[c].prefix_code \in Byte \cup Known
        /\ codetab[c].len = codetab[codetab[c].prefix_code].len + 1
        /\ codetab[c].last_dst_pos + codetab[c].len <= Len(dst)
    BY DEF IInv, TableInv, dst_pos
  <2>3. codetab[codetab[c].prefix_code].len \in Nat
    <3>1. \A b \in Byte : codetab[b].len = 1
      BY DEF IInv, TableInv
    <3>2. \A k \in Known : codetab[k].len \in Nat
      BY <1>4 DEF Known, Live, Pending
    <3>3. \A p \in Byte \cup Known : codetab[p].len \in Nat
      BY <3>1, <3>2
    <3>. QED  BY <3>3, <2>2, Zenon
  <2>. QED  BY <2>1, <2>2, <2>3
<1>. QED  BY <1>1, <1>2, <1>3, <1>4, <1>5 DEF Known, Live

LEMMA ReadableFacts == ASSUME NEW c \in Readable PROVE c \in Byte \cup Dynamic /\ c \in Code
  BY CodeFacts DEF Readable

LEMMA LiteralShape ==
    ASSUME IInv, NEW c \in Readable, OutputLiteral(c) PROVE OutputShape(c, <<c>>)
<1> USE CodeFacts, UnshrinkAssumption
<1>1. /\ prev_code # INVALID_CODE /\ dst_pos < DST_CAP /\ c \in Byte
      /\ Output(c, codetab, <<c>>)
  BY DEF OutputLiteral, Reading
<1>2. <<c>> \in Seq(Byte) /\ Len(<<c>>) = 1 /\ <<c>> # <<>>
  BY <1>1
<1>3. c # code_queue_next(queue) /\ codetab \in [Code -> CodeEntry] /\ Len(dst) \in Nat
  BY <1>1, PrevFacts
<1>4. codetab[c].len = 1
  BY <1>1 DEF IInv, TableInv
<1>5. StringOf(c, <<c>>)
  BY <1>1 DEF StringOf
<1>6. dst_pos + 1 <= DST_CAP
  BY <1>1, <1>3 DEF dst_pos
<1>. QED  BY <1>1, <1>2, <1>3, <1>4, <1>5, <1>6, OutputGivesShape

\* A usable code is known, pending, or the one about to be added.
LEMMA UsableCases ==
    ASSUME IInv, NEW c \in Dynamic, Reading(c), Usable(KwKwKTab(c), c)
    PROVE  \/ /\ IsKwKwK(c) /\ Valid(codetab, prev_code) /\ c # prev_code
              /\ KwKwKTab(c) = [codetab EXCEPT ![c] = ExtendPrev(codetab)]
              /\ KwKwKTab(c)[c] = ExtendPrev(codetab)
           \/ /\ ~IsKwKwK(c) /\ KwKwKTab(c) = codetab
              /\ c \in Known \/ c \in Pending
<1> USE CodeFacts, UnshrinkAssumption
<1>1. prev_code # INVALID_CODE /\ (IsKwKwK(c) => Valid(codetab, prev_code))
  BY DEF Reading
<1>2. CASE IsKwKwK(c)
  <2>1. KwKwKTab(c) = [codetab EXCEPT ![c] = ExtendPrev(codetab)]
    BY <1>2 DEF KwKwKTab
  <2>2. c # prev_code
    BY <1>1, <1>2, PrevFacts DEF IsKwKwK
  <2>. QED  BY <1>1, <1>2, <2>1, <2>2, PrevFacts
<1>3. CASE ~IsKwKwK(c)
  <2>1. KwKwKTab(c) = codetab /\ Valid(codetab, c) /\ ~SelfRef(c)
    BY <1>3 DEF KwKwKTab, Usable, SelfRef
  <2>. QED  BY <1>3, <2>1 DEF Known, Pending, Live
<1>. QED  BY <1>2, <1>3

\* The entry of a code about to be added is well formed.
LEMMA ExtendPrevFacts ==
    ASSUME IInv, prev_code # INVALID_CODE
    PROVE  /\ ExtendPrev(codetab) \in CodeEntry
           /\ ExtendPrev(codetab).prefix_code = prev_code
           /\ ExtendPrev(codetab).len = codetab[prev_code].len + 1
           /\ ExtendPrev(codetab).last_dst_pos = codetab[prev_code].last_dst_pos
           /\ ExtendPrev(codetab).len \in Nat \ {0}
<1>1. /\ prev_code \in Code \cup {INVALID_CODE} /\ first_byte \in Byte
      /\ codetab[prev_code].len + 1 \in Nat \cup {UNKNOWN_LEN}
      /\ codetab[prev_code].len + 1 \in Nat \ {0}
      /\ codetab[prev_code].last_dst_pos \in Nat
  BY PrevFacts
<1>2. ExtendPrev(codetab) \in CodeEntry
  BY <1>1, EntryType, Zenon DEF ExtendPrev
<1>3. /\ ExtendPrev(codetab).prefix_code = prev_code
      /\ ExtendPrev(codetab).len = codetab[prev_code].len + 1
      /\ ExtendPrev(codetab).last_dst_pos = codetab[prev_code].last_dst_pos
  BY DEF ExtendPrev, Entry
<1>. QED  BY <1>1, <1>2, <1>3

LEMMA KnownShape ==
    ASSUME IInv, NEW c \in Readable, OutputKnown(c), status' = "reading"
    PROVE  \E str : OutputShape(c, str)
<1> DEFINE tab == KwKwKTab(c)
           len == tab[c].len
           str == Copy(tab[c].last_dst_pos, len)
<1> USE CodeFacts, UnshrinkAssumption
<1>1. /\ Reading(c) /\ c \notin Byte /\ Usable(tab, c) /\ len # UNKNOWN_LEN
      /\ prev_code # INVALID_CODE
      /\ Room >= len /\ Output(c, tab, str)
  BY DEF OutputKnown, Return, Reading
<1>2. c \in Dynamic /\ c \in Code
  BY <1>1, ReadableFacts
<1>3. TypeOK
  BY DEF IInv
<1>4. CASE /\ IsKwKwK(c) /\ Valid(codetab, prev_code) /\ c # prev_code
           /\ tab = [codetab EXCEPT ![c] = ExtendPrev(codetab)]
           /\ tab[c] = ExtendPrev(codetab)
  <2>1. /\ len = codetab[prev_code].len + 1 /\ len \in Nat \ {0}
        /\ tab[c].last_dst_pos = codetab[prev_code].last_dst_pos
        /\ tab[c].last_dst_pos \in Nat /\ tab[c].last_dst_pos + len <= Len(dst) + 1
    BY <1>1, <1>4, PrevFacts, ExtendPrevFacts
  <2>2. str \in Seq(Byte) /\ Len(str) = len /\ str # <<>>
    BY <2>1, <1>3, CopyFacts
  <2>3. /\ tab \in [Code -> CodeEntry] /\ tab[prev_code] = codetab[prev_code]
        /\ \A x \in Code \ {c} : tab[x] = codetab[x]
    BY <1>1, <1>2, <1>4, PrevFacts, ExtendPrevFacts
  <2>4. dst_pos + Len(str) <= DST_CAP
    BY <1>1, <2>1, <2>2, PrevFacts DEF Room, dst_pos
  <2>5. c = code_queue_next(queue) /\ Len(str) = codetab[prev_code].len + 1
    BY <1>4, <2>1, <2>2 DEF IsKwKwK
  <2>6. StringOf(c, str)
    <3>1. /\ codetab[prev_code].last_dst_pos \in Nat /\ codetab[prev_code].len \in Nat \ {0}
          /\ codetab[prev_code].last_dst_pos + codetab[prev_code].len = Len(dst)
          /\ Len(dst) \in Nat
      BY <1>1, PrevFacts
    <3>2. \A i \in 1 .. len : str[i] = IF codetab[prev_code].last_dst_pos + i <= Len(dst)
                                      THEN dst[codetab[prev_code].last_dst_pos + i] ELSE first_byte
      <4>1. \A i \in 1 .. len : str[i] = IF tab[c].last_dst_pos + i <= Len(dst)
                                       THEN dst[tab[c].last_dst_pos + i] ELSE first_byte
        BY <2>1, <1>3, CopyFacts
      <4> HIDE DEF tab, len, str
      <4>. QED  BY <2>1, <4>1
    <3> HIDE DEF tab, len, str
    <3>3. Repeats(str, codetab[prev_code].len, codetab[prev_code].last_dst_pos)
      <4>1. PICK n \in Nat, pos \in Nat, m \in Nat :
                n = codetab[prev_code].len /\ pos = codetab[prev_code].last_dst_pos /\ m = Len(dst) /\ pos + n = m /\ len = n + 1
        BY <2>1, <3>1
      <4>2. \A i \in 1 .. n : i \in 1 .. len /\ pos + i <= Len(dst)
        BY <4>1
      <4>. QED  BY <3>2, <4>1, <4>2 DEF Repeats
    <3>4. str[Len(str)] = first_byte
      <4>1. Len(str) = len /\ len \in 1 .. len
        BY <2>1, <2>2
      <4>2. ~(codetab[prev_code].last_dst_pos + len <= Len(dst))
        BY <2>1, <3>1
      <4>. QED  BY <3>2, <4>1, <4>2
    <3>. QED  BY <1>4, <2>5, <3>3, <3>4 DEF StringOf
  <2> HIDE DEF tab, len, str
  <2>7. OutputShape(c, str)
    BY <1>1, <1>2, <1>4, <2>1, <2>2, <2>3, <2>4, <2>5, <2>6, OutputGivesShape
  <2>. QED  BY <2>7
<1>5. CASE ~IsKwKwK(c) /\ tab = codetab /\ c \in Known \cup Pending
  <2>1. c \in Known
    BY <1>1, <1>5 DEF Pending
  <2>2. /\ len = codetab[c].len /\ len \in Nat \ {0}
        /\ tab[c].last_dst_pos \in Nat /\ tab[c].last_dst_pos + len <= Len(dst)
        /\ tab[c].last_dst_pos = codetab[c].last_dst_pos /\ Len(dst) \in Nat
    BY <2>1, <1>1, <1>5, PrevFacts
  <2>3. str \in Seq(Byte) /\ Len(str) = len /\ str # <<>>
    BY <2>2, <1>3, CopyFacts
  <2>4. tab \in [Code -> CodeEntry]
    BY <1>1, <1>5, PrevFacts
  <2>5. dst_pos + Len(str) <= DST_CAP
    BY <1>1, <2>2, <2>3, PrevFacts DEF Room, dst_pos
  <2>6. c # code_queue_next(queue) /\ StringOf(c, str)
    <3>1. \A i \in 1 .. len : str[i] = dst[codetab[c].last_dst_pos + i]
      <4>1. tab[c].last_dst_pos + len <= Len(dst) + 1
        BY <2>2
      <4>2. \A i \in 1 .. len : str[i] = IF tab[c].last_dst_pos + i <= Len(dst)
                                       THEN dst[tab[c].last_dst_pos + i] ELSE first_byte
        BY <2>2, <4>1, <1>3, CopyFacts
      <4> HIDE DEF tab, len, str
      <4>. QED  BY <2>2, <4>2
    <3>. QED  BY <1>5, <2>1, <2>2, <2>3, <3>1 DEF IsKwKwK, StringOf, Repeats
  <2>7. tab = codetab /\ tab[c].len = len
    BY <1>5
  <2> HIDE DEF tab, len, str
  <2>8. OutputShape(c, str)
    BY <1>1, <1>2, <2>3, <2>4, <2>5, <2>6, <2>7, OutputGivesShape
  <2>. QED  BY <2>8
<1>. QED  BY <1>1, <1>2, <1>4, <1>5, UsableCases

\* A code of unknown length is pending, and so the code before is valid; its
\* prefix is about to be added, or known, or still invalid.
LEMMA UnknownCases ==
    ASSUME IInv, NEW c \in Dynamic, IsUnknown(c)
    PROVE  LET p == codetab[c].prefix_code
           IN  /\ c \in Pending /\ ~IsKwKwK(c) /\ c # prev_code /\ c # p
               /\ p \in Dynamic /\ Valid(codetab, prev_code)
               /\ IsKwKwK(p) => /\ PrefixTab(c) = [codetab EXCEPT ![p] = ExtendPrev(codetab)]
                                /\ PrefixTab(c)[p] = ExtendPrev(codetab)
                                /\ p # prev_code
               /\ ~IsKwKwK(p) => /\ PrefixTab(c) = codetab
                                 /\ Valid(codetab, p) => p \in Known
<1> DEFINE p == codetab[c].prefix_code
<1> USE CodeFacts, UnshrinkAssumption
<1>1. /\ Reading(c) /\ prev_code # INVALID_CODE
      /\ Usable(KwKwKTab(c), c) /\ KwKwKTab(c)[c].len = UNKNOWN_LEN
  BY DEF IsUnknown, Reading
<1>2. ~IsKwKwK(c) /\ KwKwKTab(c) = codetab /\ c \in Known \cup Pending
  BY <1>1, UsableCases, ExtendPrevFacts
<1>3. c \in Pending /\ c \notin Known
  BY <1>1, <1>2 DEF Known, Pending
<1>4. c # prev_code /\ c # p
  BY <1>1, <1>2, PrevFacts, <1>3 DEF Pending, Live, SelfRef
<1>5. p \in Dynamic /\ (Valid(codetab, p) => p \in Known)
  BY <1>3 DEF IInv, TableInv
<1>6. Valid(codetab, prev_code)
  BY <1>1, <1>3 DEF IInv, AtMostOnePending
<1>7. CASE IsKwKwK(p)
  <2>1. PrefixTab(c) = [codetab EXCEPT ![p] = ExtendPrev(codetab)]
    BY <1>7 DEF PrefixTab
  <2>2. p # prev_code
    BY <1>1, <1>5, <1>6, <1>7, PrevFacts DEF IsKwKwK
  <2>3. PrefixTab(c)[p] = ExtendPrev(codetab)
    BY <1>1, <1>5, <2>1, PrevFacts
  <2>. QED  BY <1>2, <1>3, <1>4, <1>5, <1>6, <1>7, <2>1, <2>2, <2>3
<1>8. CASE ~IsKwKwK(p)
  BY <1>2, <1>3, <1>4, <1>5, <1>6, <1>8 DEF PrefixTab
<1>. QED  BY <1>7, <1>8

LEMMA UnknownShape ==
    ASSUME IInv, NEW c \in Readable, OutputUnknown(c), status' = "reading"
    PROVE  \E str : OutputShape(c, str)
<1> DEFINE p == codetab[c].prefix_code
           tab == PrefixTab(c)
           prefix == tab[p]
           len == prefix.len + 1
           copy == Copy(prefix.last_dst_pos, prefix.len)
           str == Append(copy, codetab[c].ext_byte)
           tab2 == [tab EXCEPT ![c].len = len]
<1> USE CodeFacts, UnshrinkAssumption
<1>1. /\ IsUnknown(c) /\ c \notin Byte /\ Valid(tab, p)
      /\ prev_code # INVALID_CODE
      /\ Room >= len /\ Output(c, tab2, str)
  BY DEF OutputUnknown, IsUnknown, Reading, Return
<1>2. c \in Dynamic /\ c \in Code /\ TypeOK
  BY <1>1, ReadableFacts DEF IInv
<1>3. /\ c \in Pending /\ ~IsKwKwK(c) /\ c # prev_code /\ c # p
      /\ p \in Dynamic /\ Valid(codetab, prev_code)
      /\ IsKwKwK(p) => /\ tab = [codetab EXCEPT ![p] = ExtendPrev(codetab)]
                       /\ prefix = ExtendPrev(codetab)
                       /\ p # prev_code
      /\ ~IsKwKwK(p) => /\ tab = codetab
                        /\ Valid(codetab, p) => p \in Known
  BY <1>1, <1>2, UnknownCases
<1>4. /\ prefix.len \in Nat \ {0} /\ prefix.last_dst_pos \in Nat
      /\ prefix.last_dst_pos + prefix.len <= Len(dst) + 1
      /\ IF IsKwKwK(p)
         THEN /\ prefix.len = codetab[prev_code].len + 1
              /\ prefix.last_dst_pos = codetab[prev_code].last_dst_pos
         ELSE /\ p \in Known /\ prefix.len = codetab[p].len
              /\ prefix.last_dst_pos = codetab[p].last_dst_pos
  <2>1. CASE IsKwKwK(p)
    <3>1. prefix = ExtendPrev(codetab)
      BY <1>3, <2>1
    <3> HIDE DEF prefix
    <3>. QED  BY <1>1, <2>1, <3>1, PrevFacts, ExtendPrevFacts
  <2>2. CASE ~IsKwKwK(p)
    <3>1. p \in Known /\ prefix = codetab[p]
      BY <1>1, <1>3, <2>2
    <3> HIDE DEF prefix, p
    <3>. QED  BY <1>1, <2>2, <3>1, PrevFacts
  <2>. QED  BY <2>1, <2>2
<1>5. /\ copy \in Seq(Byte) /\ Len(copy) = prefix.len
      /\ \A i \in 1 .. prefix.len :
            copy[i] = IF prefix.last_dst_pos + i <= Len(dst) THEN dst[prefix.last_dst_pos + i]
                      ELSE first_byte
  <2> HIDE DEF prefix
  <2>. QED  BY <1>2, <1>4, CopyFacts
<1>6. codetab[c].ext_byte \in Byte
  BY <1>2 DEF TypeOK, CodeEntry
<1>7. /\ str \in Seq(Byte) /\ Len(str) = len /\ str # <<>>
      /\ \A i \in 1 .. prefix.len : str[i] = copy[i]
      /\ str[len] = codetab[c].ext_byte
  <2> HIDE DEF copy, prefix
  <2>1. /\ str \in Seq(Byte) /\ Len(str) = Len(copy) + 1
        /\ \A i \in 1 .. Len(copy) : str[i] = copy[i]
        /\ str[Len(copy) + 1] = codetab[c].ext_byte
    BY <1>5, <1>6
  <2> HIDE DEF str
  <2>. QED  BY <1>4, <1>5, <2>1, EmptySeq
<1>8. /\ tab \in [Code -> CodeEntry] /\ tab[prev_code] = codetab[prev_code]
      /\ \A x \in Code \ {code_queue_next(queue)} : tab[x] = codetab[x]
      /\ tab[c] = codetab[c]
  <2>1. CASE IsKwKwK(p)
    <3>1. tab = [codetab EXCEPT ![p] = ExtendPrev(codetab)] /\ p = code_queue_next(queue)
      BY <1>3, <2>1 DEF IsKwKwK
    <3> HIDE DEF tab, p
    <3>. QED  BY <1>1, <1>2, <1>3, <2>1, <3>1, PrevFacts, ExtendPrevFacts
  <2>2. CASE ~IsKwKwK(p)
    BY <1>1, <1>3, <2>2, PrevFacts
  <2>. QED  BY <2>1, <2>2
<1>9. /\ tab2 \in [Code -> CodeEntry] /\ tab2[prev_code] = codetab[prev_code]
      /\ \A x \in Code \ {c, code_queue_next(queue)} : tab2[x] = codetab[x]
      /\ tab2[c].prefix_code = codetab[c].prefix_code /\ tab2[c].len = len
      /\ tab2[c].ext_byte = codetab[c].ext_byte
  <2> DEFINE e == [tab[c] EXCEPT !.len = len]
  <2>1. len \in Nat
    <3> HIDE DEF prefix
    <3>. QED  BY <1>4
  <2>2. tab[c] \in CodeEntry /\ tab[c] = codetab[c]
    BY <1>2, <1>8
  <2> HIDE DEF tab, len
  <2>3. /\ e \in CodeEntry /\ e.prefix_code = codetab[c].prefix_code /\ e.len = len
        /\ e.ext_byte = codetab[c].ext_byte
    BY <2>1, <2>2 DEF CodeEntry
  <2>4. tab2 = [tab EXCEPT ![c] = e]
    OBVIOUS
  <2> HIDE DEF e, tab2
  <2>. QED  BY <1>1, <1>2, <1>3, <1>8, <2>3, <2>4, PrevFacts
<1>10. dst_pos + Len(str) <= DST_CAP
  <2> HIDE DEF prefix, str
  <2>. QED  BY <1>1, <1>4, <1>7, PrevFacts, SMTT(30) DEF Room, dst_pos
<1>11. c # code_queue_next(queue) /\ StringOf(c, str)
  <2>1. Len(str) = prefix.len + 1 /\ str[Len(str)] = codetab[c].ext_byte
    BY <1>7
  <2>2. \A i \in 1 .. prefix.len :
           str[i] = IF prefix.last_dst_pos + i <= Len(dst) THEN dst[prefix.last_dst_pos + i]
                    ELSE first_byte
    <3> HIDE DEF copy, str, prefix
    <3>. QED  BY <1>5, <1>7
  <2>3. c # code_queue_next(queue)
    BY <1>3 DEF IsKwKwK
  <2> DEFINE q == codetab[prev_code]
  <2> HIDE DEF prefix, str
  <2>4. CASE IsKwKwK(p)
    <3>1. /\ q.len \in Nat \ {0} /\ q.last_dst_pos \in Nat /\ q.last_dst_pos + q.len = Len(dst)
          /\ Len(dst) \in Nat
      BY <1>1, PrevFacts
    <3>2. prefix.len = q.len + 1 /\ prefix.last_dst_pos = q.last_dst_pos
      BY <1>4, <2>4
    <3>3. p = code_queue_next(queue) /\ Valid(codetab, prev_code) /\ c \in Pending
      BY <1>3, <2>4 DEF IsKwKwK
    <3> HIDE DEF q, p
    <3>4. \A i \in 1 .. q.len + 1 :
             str[i] = IF q.last_dst_pos + i <= Len(dst) THEN dst[q.last_dst_pos + i]
                      ELSE first_byte
      BY <2>2, <3>2, Zenon
    <3>5. Len(str) = q.len + 2
      BY <2>1, <3>1, <3>2
    <3>6. str[q.len + 1] = first_byte
      BY <3>1, <3>4
    <3>7. \A i \in 1 .. q.len : str[i] = dst[q.last_dst_pos + i]
      BY <3>1, <3>4
    <3>. QED  BY <2>1, <2>3, <3>3, <3>5, <3>6, <3>7 DEF StringOf, Repeats, q, p
  <2>5. CASE ~IsKwKwK(p)
    <3>1. /\ p \in Known /\ c \in Pending
          /\ prefix.len = codetab[p].len /\ prefix.last_dst_pos = codetab[p].last_dst_pos
      BY <1>3, <1>4, <2>5
    <3>2. /\ codetab[p].len \in Nat \ {0} /\ codetab[p].last_dst_pos \in Nat
          /\ codetab[p].last_dst_pos + codetab[p].len <= Len(dst) /\ Len(dst) \in Nat
      BY <1>1, <3>1, PrevFacts
    <3> HIDE DEF p
    <3>3. \A i \in 1 .. codetab[p].len : str[i] = dst[codetab[p].last_dst_pos + i]
      BY <2>2, <3>1, <3>2
    <3>. QED  BY <2>1, <2>3, <3>1, <3>3 DEF StringOf, Repeats, p
  <2>. QED  BY <2>4, <2>5
<1> HIDE DEF tab, tab2, len, str, prefix, copy
<1>12. OutputShape(c, str)
  BY <1>1, <1>2, <1>7, <1>9, <1>10, <1>11, OutputGivesShape
<1>. QED  BY <1>12

--------------------------------------------------------------------------------
(***************************************************************************)
(* The theorems.                                                           *)
(***************************************************************************)
LEMMA NextInv == IInv /\ [Next]_vars => IInv'
<1> SUFFICES ASSUME IInv, [Next]_vars PROVE IInv'
  OBVIOUS
<1>1. code_size \in MIN_CODE_SIZE .. MAX_CODE_SIZE
  BY DEF IInv, TypeOK
<1>2. ASSUME NEW s \in {"err", "full", "ok"}, Return(s) PROVE IInv'
  BY <1>1, <1>2, ReturnInv DEF Return
<1>3. CASE ReadIncCodeSize
  <2>1. code_size' \in MIN_CODE_SIZE .. MAX_CODE_SIZE
    BY <1>1, <1>3, CodeSizeAssumption DEF ReadIncCodeSize
  <2>. QED  BY <1>3, <2>1, ReturnInv DEF ReadIncCodeSize
<1>4. CASE ReadPartialClear
  BY <1>4, PartialClearInv
<1>5. CASE ReadBadControl
  BY <1>5, <1>2 DEF ReadBadControl
<1>6. CASE EndOfStream
  BY <1>6, <1>2 DEF EndOfStream
<1>7. ASSUME NEW c \in Readable, FirstCode(c) PROVE IInv'
  BY <1>7, FirstCodeInv
<1>8. ASSUME NEW c \in Readable, NextCode(c) PROVE IInv'
  <2>1. CASE NoRoom(c)
    BY <2>1, <1>2 DEF NoRoom
  <2>2. CASE RejectKwKwK(c)
    BY <2>2, <1>2 DEF RejectKwKwK
  <2>3. CASE OutputLiteral(c)
    BY <2>3, LiteralShape, OutputPreserves
  <2>4. CASE RejectCode(c)
    BY <2>4, <1>2 DEF RejectCode
  <2>5. CASE OutputKnown(c)
    <3>1. CASE Return("full")
      BY <3>1, <1>2
    <3>2. CASE ~Return("full")
      <4>1. status' = "reading"
        BY <2>5, <3>2 DEF OutputKnown, Output, Reading
      <4>. QED  BY <4>1, <2>5, KnownShape, OutputPreserves
    <3>. QED  BY <3>1, <3>2
  <2>6. CASE RejectUnknown(c)
    BY <2>6, <1>2 DEF RejectUnknown
  <2>7. CASE OutputUnknown(c)
    <3>1. CASE Return("full")
      BY <3>1, <1>2
    <3>2. CASE ~Return("full")
      <4>1. status' = "reading"
        BY <2>7, <3>2 DEF OutputUnknown, Output, IsUnknown, Reading
      <4>. QED  BY <4>1, <2>7, UnknownShape, OutputPreserves
    <3>. QED  BY <3>1, <3>2
  <2>. QED  BY <1>8, <2>1, <2>2, <2>3, <2>4, <2>5, <2>6, <2>7 DEF NextCode
<1>9. CASE UNCHANGED vars
  <2>1. status \in {"reading", "ok", "err", "full"}
    BY DEF IInv, TypeOK
  <2>. QED  BY <1>1, <1>9, <2>1, ReturnInv DEF vars
<1>. QED  BY <1>3, <1>4, <1>5, <1>6, <1>7, <1>8, <1>9 DEF Next

\* The inductive invariant holds in every reachable state of hwunshrink,
\* whatever the input: the table, the queue, the previous code and the output
\* always fit each other.
THEOREM InvariantHolds == Spec => []IInv
  BY InitInv, NextInv, PTL DEF Spec

\* The variables of hwunshrink keep their types, and dst_pos stays within
\* dst_cap.
THEOREM TypeCorrect == Spec => []TypeOK
<1>1. IInv => TypeOK
  BY DEF IInv
<1>. QED  BY <1>1, InvariantHolds, PTL

\* hwunshrink never assigns a code that is in use.
THEOREM FreeCodesAreUnused == Spec => []FreeCodesUnused
<1>1. IInv => FreeCodesUnused
  BY DEF IInv
<1>. QED  BY <1>1, InvariantHolds, PTL

\* At most one string of the table waits for its length.
THEOREM OnePending == Spec => []AtMostOnePending
<1>1. IInv => AtMostOnePending
  BY DEF IInv
<1>. QED  BY <1>1, InvariantHolds, PTL

--------------------------------------------------------------------------------
(***************************************************************************)
(* No assertion fails.                                                     *)
(***************************************************************************)
\* A copy of the previous string and one byte is the overlap the code allows.
LEMMA CopyPrevOk ==
    ASSUME IInv, prev_code # INVALID_CODE, Room >= codetab[prev_code].len + 1
    PROVE  CopyAsserts(codetab[prev_code].last_dst_pos, codetab[prev_code].len + 1)
<1>1. dst[codetab[prev_code].last_dst_pos + 1] = first_byte
  BY DEF IInv, PrevInv
<1>2. Room \in Int
  BY PrevFacts, UnshrinkAssumption DEF Room, dst_pos
<1>. QED  BY <1>1, <1>2, PrevFacts DEF CopyAsserts, dst_pos

\* A copy of a known string does not overlap.
LEMMA CopyKnownOk ==
    ASSUME IInv, prev_code # INVALID_CODE, NEW c \in Known, Room >= codetab[c].len
    PROVE  CopyAsserts(codetab[c].last_dst_pos, codetab[c].len)
  BY PrevFacts DEF CopyAsserts, dst_pos

LEMMA AssertsFollow == IInv => NoAssertFails
<1> SUFFICES ASSUME IInv, status = "reading", prev_code # INVALID_CODE, dst_pos < DST_CAP
             PROVE  NoAssertFails
  BY DEF NoAssertFails
<1> USE CodeFacts, UnshrinkAssumption
<1>1. codetab[prev_code].last_dst_pos < dst_pos
  BY PrevFacts DEF dst_pos
<1>2. ASSUME NEW c \in Readable \ Byte, Reading(c)
      PROVE  IsKwKwK(c) => c # prev_code
  BY <1>2, PrevFacts DEF IsKwKwK, Reading
<1>3. ASSUME NEW c \in Readable \ Byte, Reading(c), Usable(KwKwKTab(c), c), ~IsUnknown(c),
             Room >= KwKwKTab(c)[c].len
      PROVE  CopyAsserts(KwKwKTab(c)[c].last_dst_pos, KwKwKTab(c)[c].len)
  <2>1. c \in Dynamic /\ KwKwKTab(c)[c].len # UNKNOWN_LEN
    BY <1>3, ReadableFacts DEF IsUnknown
  <2>2. CASE KwKwKTab(c)[c] = ExtendPrev(codetab)
    BY <1>3, <2>2, ExtendPrevFacts, CopyPrevOk
  <2>3. CASE KwKwKTab(c) = codetab /\ c \in Known \cup Pending
    <3>1. c \in Known
      BY <2>1, <2>3 DEF Pending
    <3>. QED  BY <1>3, <2>3, <3>1, CopyKnownOk
  <2>. QED  BY <1>3, <2>1, <2>2, <2>3, UsableCases
<1>4. ASSUME NEW c \in Readable \ Byte, IsUnknown(c)
      PROVE  LET p == codetab[c].prefix_code
                 e == PrefixTab(c)[p]
             IN  /\ p > CONTROL_CODE /\ prev_code # c
                 /\ IsKwKwK(p) => Valid(codetab, prev_code)
                 /\ Valid(PrefixTab(c), p) =>
                       /\ e.len # UNKNOWN_LEN
                       /\ Room >= e.len + 1 => CopyAsserts(e.last_dst_pos, e.len)
  <2> DEFINE p == codetab[c].prefix_code
             e == PrefixTab(c)[p]
  <2>1. c \in Dynamic
    BY ReadableFacts
  <2>2. /\ c # prev_code /\ p \in Dynamic /\ Valid(codetab, prev_code)
        /\ IsKwKwK(p) => e = ExtendPrev(codetab)
        /\ ~IsKwKwK(p) => /\ PrefixTab(c) = codetab
                          /\ Valid(codetab, p) => p \in Known
    BY <1>4, <2>1, UnknownCases
  <2>3. p > CONTROL_CODE
    BY <2>2
  <2>4. ASSUME Valid(PrefixTab(c), p)
        PROVE  /\ e.len # UNKNOWN_LEN
               /\ Room >= e.len + 1 => CopyAsserts(e.last_dst_pos, e.len)
    <3>0. Room \in Int
      BY PrevFacts DEF Room, dst_pos
    <3>1. CASE IsKwKwK(p)
      <4>1. /\ e.len = codetab[prev_code].len + 1 /\ e.len \in Nat
            /\ e.last_dst_pos = codetab[prev_code].last_dst_pos
        BY <2>2, <3>1, ExtendPrevFacts
      <4> HIDE DEF e
      <4>. QED  BY <3>0, <4>1, CopyPrevOk
    <3>2. CASE ~IsKwKwK(p)
      <4>1. p \in Known /\ e = codetab[p]
        BY <2>2, <2>4, <3>2
      <4>2. codetab[p].len \in Nat
        BY <4>1, PrevFacts
      <4> HIDE DEF e, p
      <4>. QED  BY <3>0, <4>1, <4>2, CopyKnownOk
    <3>. QED  BY <3>1, <3>2
  <2>. QED  BY <2>2, <2>3, <2>4
<1>. QED  BY <1>1, <1>2, <1>3, <1>4 DEF NoAssertFails

\* Whatever the input, no assertion of hwunshrink, output_code or
\* copy_from_prev_pos about positions, lengths or codes fails: the two KwKwK
\* cases overlap by one byte that repeats the first, and a pending string is
\* never built on another pending one.
THEOREM NoAssertionFails == Spec => []NoAssertFails
  BY AssertsFollow, InvariantHolds, PTL

--------------------------------------------------------------------------------
(***************************************************************************)
(* Self-referential codes.                                                 *)
(***************************************************************************)
LEMMA OutputKeepsSelfRef ==
    ASSUME IInv, NEW c, NEW str, OutputShape(c, str), NEW d \in Dynamic, SelfRef(d)
    PROVE  codetab'[d] = codetab[d] /\ prev_code' # d
<1> USE CodeFacts
<1>1. /\ prev_code # INVALID_CODE /\ prev_code' = c /\ LengthOf(c, Len(str))
      /\ \A x \in Code \ {c, code_queue_next(queue)} : codetab'[x] = codetab[x]
  BY StringLength, Zenon DEF OutputShape
<1>2. Valid(codetab, d) /\ d # code_queue_next(queue)
  BY <1>1, PrevFacts DEF Valid, SelfRef
<1>3. d # c
  BY <1>1, <1>2 DEF LengthOf, Known, Pending, Live
<1>. QED  BY <1>1, <1>2, <1>3

LEMMA SelfRefStep ==
    ASSUME IInv, [Next]_vars, NEW d \in Dynamic, SelfRef(d)
    PROVE  codetab'[d] = codetab[d] /\ (prev_code' = d => prev_code = d)
<1> USE CodeFacts
<1>1. codetab \in [Code -> CodeEntry] /\ Valid(codetab, d)
  BY DEF IInv, TypeOK, Valid, SelfRef
<1>2. CASE UNCHANGED <<codetab, prev_code>>
  BY <1>2
<1>3. CASE ReadPartialClear
  <2>1. d \in is_prefix
    BY <1>1 DEF is_prefix, SelfRef
  <2>. QED  BY <1>3, <2>1 DEF ReadPartialClear, unshrink_partial_clear
<1>4. ASSUME NEW c \in Readable, FirstCode(c), ~UNCHANGED <<codetab, prev_code>>
      PROVE  codetab'[d] = codetab[d] /\ prev_code' # d
  <2>1. c \in Byte /\ codetab' = [codetab EXCEPT ![c].last_dst_pos = 0] /\ prev_code' = c
    BY <1>4 DEF FirstCode, Return
  <2>. QED  BY <1>1, <2>1
<1>5. ASSUME NEW c \in Readable, NextCode(c), ~UNCHANGED <<codetab, prev_code>>
      PROVE  codetab'[d] = codetab[d] /\ prev_code' # d
  <2>1. OutputLiteral(c) \/ OutputKnown(c) \/ OutputUnknown(c)
    BY <1>5 DEF NextCode, NoRoom, RejectKwKwK, RejectCode, RejectUnknown, Return
  <2>2. status' = "reading"
    BY <1>5, <2>1 DEF OutputLiteral, OutputKnown, OutputUnknown, Output, Reading, IsUnknown, Return
  <2>. QED  BY <2>1, <2>2, LiteralShape, KnownShape, UnknownShape, OutputKeepsSelfRef
<1>6. CASE ReadIncCodeSize \/ ReadBadControl \/ EndOfStream \/ UNCHANGED vars
  BY <1>6, <1>2 DEF ReadIncCodeSize, ReadBadControl, EndOfStream, Return, vars
<1>. QED  BY <1>2, <1>3, <1>4, <1>5, <1>6 DEF Next

\* An entry that is its own prefix, as a partial clearing can leave it, is
\* never changed, cleared or output again.
THEOREM SelfRefStaysDead == Spec => SelfRefIsDead
<1>1. IInv /\ [Next]_vars =>
        [\A c \in Dynamic : SelfRef(c) =>
            codetab'[c] = codetab[c] /\ (prev_code' = c => prev_code = c)]_vars
  BY SelfRefStep
<1>. QED  BY <1>1, InvariantHolds, PTL DEF Spec, SelfRefIsDead

--------------------------------------------------------------------------------
(***************************************************************************)
(* The table of the decompressor never lies: every string of known length  *)
(* is where its entry says, however often codes were cleared, assigned     *)
(* again and moved to a later position of the output.                      *)
(***************************************************************************)
\* A literal that was output is where its entry says.
LiteralsInv ==
    \A b \in Byte : \/ codetab[b].last_dst_pos = DST_CAP
                    \/ /\ codetab[b].last_dst_pos < Len(dst)
                       /\ dst[codetab[b].last_dst_pos + 1] = b

\* The string of a known code is its prefix's, which was output, and ext_byte.
EntryInDst(tab, out, c) ==
    LET e == tab[c]
        p == tab[e.prefix_code]
    IN  /\ p.last_dst_pos < Len(out)
        /\ \A i \in 1 .. p.len : out[e.last_dst_pos + i] = out[p.last_dst_pos + i]
        /\ out[e.last_dst_pos + e.len] = e.ext_byte

StringInv == \A c \in Known : EntryInDst(codetab, dst, c)

SInv == IInv /\ LiteralsInv /\ StringInv

LEMMA InitStrings == Init => SInv
<1> SUFFICES ASSUME Init PROVE SInv
  OBVIOUS
<1> USE CodeFacts, CodeAssumption, UnshrinkAssumption
<1>1. IInv
  BY InitInv
<1>2. Known = {}
  BY <1>1 DEF IInv, PrevInv, Init, Known
<1>3. \A b \in Byte : codetab[b].last_dst_pos = DST_CAP
  BY EntryFields DEF Init, codetab_init
<1>. QED  BY <1>1, <1>2, <1>3 DEF SInv, LiteralsInv, StringInv

LEMMA ReturnStrings ==
    ASSUME SInv, IInv', UNCHANGED <<codetab, dst>> PROVE SInv'
  BY DEF SInv, LiteralsInv, StringInv, EntryInDst, Known, Pending, Live, SelfRef, Valid

LEMMA PartialClearStrings == ASSUME SInv, ReadPartialClear PROVE SInv'
<1> USE CodeFacts
<1>1. IInv /\ IInv'
  BY PartialClearInv DEF SInv
<1>2. /\ codetab \in [Code -> CodeEntry] /\ dst' = dst
      /\ codetab' = [c \in Code |->
                        IF c \in Dynamic \ is_prefix
                        THEN [codetab[c] EXCEPT !.prefix_code = INVALID_CODE]
                        ELSE codetab[c]]
  BY <1>1 DEF ReadPartialClear, unshrink_partial_clear, IInv, TypeOK
<1>3. \A c \in Code : /\ codetab'[c].len = codetab[c].len
                      /\ codetab'[c].ext_byte = codetab[c].ext_byte
                      /\ codetab'[c].last_dst_pos = codetab[c].last_dst_pos
                      /\ \/ codetab'[c].prefix_code = INVALID_CODE
                         \/ codetab'[c].prefix_code = codetab[c].prefix_code
  BY <1>2 DEF CodeEntry
<1>4. Known' \subseteq Known /\ Known' \subseteq Code
  BY <1>3 DEF Known, Pending, Live, SelfRef, Valid
<1>5. ASSUME NEW c \in Known' PROVE EntryInDst(codetab', dst', c)
  <2>1. c \in Known /\ codetab'[c].prefix_code = codetab[c].prefix_code
    BY <1>3, <1>4 DEF Known, Live, Valid
  <2>2. codetab[c].prefix_code \in Code
    BY <2>1, <1>1 DEF IInv, TableInv, Known, Live
  <2>. QED  BY <2>1, <2>2, <1>2, <1>3, <1>4 DEF SInv, StringInv, EntryInDst
<1>6. LiteralsInv'
  BY <1>2, <1>3 DEF SInv, LiteralsInv
<1>. QED  BY <1>1, <1>5, <1>6 DEF SInv, StringInv

LEMMA FirstCodeStrings == ASSUME NEW c \in Readable, SInv, FirstCode(c) PROVE SInv'
<1> USE CodeFacts, UnshrinkAssumption
<1>1. IInv /\ IInv'
  BY FirstCodeInv DEF SInv
<1>2. CASE Return("err") \/ Return("full")
  BY <1>1, <1>2, ReturnStrings DEF Return
<1>3. CASE /\ c \in Byte /\ dst' = <<c>>
           /\ codetab' = [codetab EXCEPT ![c].last_dst_pos = 0]
  <2>1. /\ codetab \in [Code -> CodeEntry] /\ c \in Code /\ dst = <<>>
        /\ prev_code = INVALID_CODE /\ Live = {}
    BY <1>1, <1>3 DEF IInv, TypeOK, PrevInv, FirstCode
  <2>2. \A d \in Code : codetab'[d].prefix_code = codetab[d].prefix_code
    BY <1>3, <2>1 DEF CodeEntry
  <2>3. /\ \A d \in Code : d # c => codetab'[d] = codetab[d]
        /\ codetab'[c].last_dst_pos = 0
    BY <1>3, <2>1 DEF CodeEntry
  <2>4. Known' = {}
    <3>1. \A d \in Dynamic : ~Valid(codetab', d) \/ SelfRef(d)'
      BY <2>1, <2>2 DEF Live, Valid, SelfRef
    <3>2. Live' = {}
      BY <3>1 DEF Live
    <3>. QED  BY <3>2 DEF Known
  <2>5. Len(dst') = 1 /\ dst'[1] = c /\ Len(dst) = 0
    BY <1>3, <2>1
  <2>6. ASSUME NEW b \in Byte
        PROVE  \/ codetab'[b].last_dst_pos = DST_CAP
               \/ codetab'[b].last_dst_pos < Len(dst') /\ dst'[codetab'[b].last_dst_pos + 1] = b
    <3>1. CASE b = c
      BY <3>1, <2>5, <2>3
    <3>2. CASE b # c
      <4>1. codetab'[b] = codetab[b] /\ codetab[b].last_dst_pos \in Nat
        <5>1. b \in Code /\ codetab[b] \in CodeEntry
          BY <2>1
        <5>. QED  BY <5>1, <3>2, <2>3 DEF CodeEntry
      <4>2. codetab[b].last_dst_pos = DST_CAP \/ codetab[b].last_dst_pos < Len(dst)
        BY DEF SInv, LiteralsInv
      <4>. QED  BY <4>1, <4>2, <2>5
    <3>. QED  BY <3>1, <3>2
  <2>. QED  BY <1>1, <2>4, <2>6 DEF SInv, LiteralsInv, StringInv
<1>. QED  BY <1>2, <1>3 DEF FirstCode

--------------------------------------------------------------------------------
(***************************************************************************)
(* Steps that output a string.                                             *)
(***************************************************************************)
LEMMA OutputStrings ==
    ASSUME NEW c, NEW str, SInv, OutputShape(c, str)
    PROVE  SInv'
<1> DEFINE new == code_queue_next(queue)
           prev == codetab[prev_code]
<1> USE CodeFacts, UnshrinkAssumption
<1>1. /\ prev_code # INVALID_CODE /\ c \in Byte \cup Dynamic /\ c \in Code
      /\ str \in Seq(Byte) /\ str # <<>> /\ Len(dst) + Len(str) <= DST_CAP
      /\ StringOf(c, str)
      /\ \A x \in Code \ {c, new} : codetab'[x] = codetab[x]
      /\ new # INVALID_CODE /\ new # c =>
            /\ codetab'[new].prefix_code = prev_code
            /\ codetab'[new].len = AddedLen(new)
            /\ codetab'[new].last_dst_pos = codetab[prev_code].last_dst_pos
      /\ codetab'[c].prefix_code = IF c = new THEN prev_code ELSE codetab[c].prefix_code
      /\ new # INVALID_CODE => codetab'[new].ext_byte = str[1]
      /\ c # new => codetab'[c].ext_byte = codetab[c].ext_byte
      /\ codetab'[c].len = Len(str)
      /\ codetab'[c].last_dst_pos = Len(dst)
      /\ dst' = dst \o str
  BY Zenon DEF OutputShape, dst_pos
<1>2. IInv /\ IInv'
  BY OutputPreserves DEF SInv
<1>3. /\ prev_code \in Byte \cup Dynamic /\ prev_code \in Code
      /\ codetab \in [Code -> CodeEntry] /\ Len(dst) \in Nat /\ dst \in Seq(Byte)
      /\ prev.len \in Nat \ {0} /\ prev.last_dst_pos \in Nat
      /\ prev.last_dst_pos + prev.len = Len(dst)
      /\ new = INVALID_CODE \/ (new \in Dynamic /\ ~Valid(codetab, new))
      /\ \A x \in Known : codetab[x].len \in Nat \ {0} /\ codetab[x].last_dst_pos \in Nat
                          /\ codetab[x].last_dst_pos + codetab[x].len <= Len(dst)
  BY <1>1, <1>2, PrevFacts DEF IInv, TypeOK
<1>4. /\ dst[prev.last_dst_pos + 1] = first_byte
      /\ prev_code \in Dynamic => ~SelfRef(prev_code)
  BY <1>1, <1>2 DEF IInv, PrevInv
<1>5. /\ Len(str) \in Nat \ {0} /\ Len(dst') = Len(dst) + Len(str)
      /\ \A i \in 1 .. Len(dst) : dst'[i] = dst[i]
      /\ \A i \in 1 .. Len(str) : dst'[Len(dst) + i] = str[i]
  BY <1>1, <1>3, LenProperties, EmptySeq
<1>6. \A b \in Byte : /\ codetab[b].prefix_code = b /\ codetab[b].len = 1 /\ b \in Code /\ b # new
                      /\ codetab[b].last_dst_pos \in Nat
                      /\ b \notin Known /\ b \notin Pending
  BY <1>2, <1>3 DEF IInv, TableInv, CodeEntry, Known, Pending, Live
<1>7. \A x \in Known : /\ x \in Dynamic /\ x \in Code /\ x # new /\ x \notin Pending
                       /\ ~SelfRef(x) /\ Valid(codetab, x)
                       /\ codetab[x].prefix_code \in Byte \cup Known
                       /\ codetab[x].len = codetab[codetab[x].prefix_code].len + 1
  BY <1>2, <1>3 DEF IInv, TableInv, Known, Pending, Live
<1>8. \A x \in Pending : x \in Dynamic /\ x # new /\ x # prev_code /\ ~SelfRef(x)
                         /\ codetab[x].prefix_code \in Dynamic
  <2>1. \A x \in Pending : codetab[x].len = UNKNOWN_LEN /\ x \in Dynamic /\ x # new /\ ~SelfRef(x)
    BY <1>3 DEF Pending, Live
  <2>. QED  BY <2>1, <1>2, <1>3 DEF IInv, TableInv
<1>9. Valid(codetab, prev_code) => prev_code \in Byte \cup Known /\ prev_code # new
  BY <1>3, <1>4, <1>8 DEF Known, Pending, Live
\* What was output stays; what is added follows it.
<1>10. ASSUME NEW k \in Nat, NEW n \in Nat, k + n <= Len(dst), NEW i \in 1 .. n
       PROVE  dst'[k + i] = dst[k + i]
  <2>1. k + i \in 1 .. Len(dst)
    BY <1>10, <1>3
  <2>. QED  BY <2>1, <1>5
<1>11. /\ dst'[Len(dst) + 1] = str[1] /\ dst'[Len(dst) + Len(str)] = str[Len(str)]
       /\ Len(dst) < Len(dst')
  BY <1>3, <1>5
<1>12. /\ Len(dst) \in Nat /\ prev.len \in Nat \ {0} /\ prev.last_dst_pos \in Nat
       /\ prev.last_dst_pos + prev.len = Len(dst)
  BY <1>3
<1>13. \A i \in 1 .. prev.len : dst'[prev.last_dst_pos + i] = dst[prev.last_dst_pos + i]
  <2>1. prev.len \in Nat /\ prev.last_dst_pos + prev.len <= Len(dst)
    BY <1>12
  <2> HIDE DEF prev
  <2>. QED  BY <2>1, <1>10, <1>12
<1>14. dst'[prev.last_dst_pos + (prev.len + 1)] = str[1] /\ prev.last_dst_pos < Len(dst')
       /\ prev.last_dst_pos < Len(dst)
  <2> HIDE DEF prev
  <2>1. prev.last_dst_pos + (prev.len + 1) = Len(dst) + 1 /\ prev.last_dst_pos < Len(dst)
    BY <1>12
  <2>2. Len(dst') \in Nat
    BY <1>3, <1>5
  <2>. QED  BY <2>1, <2>2, <1>11, <1>12
\* A literal or known code other than c keeps its entry.
<1>15. \A x \in Byte \cup Known : x # c => codetab'[x] = codetab[x] /\ x # new
  BY <1>1, <1>6, <1>7
\* Where the strings of such codes were, they still are; c's are also at its
\* new position.
<1>16. ASSUME NEW x \in Byte \cup Known, codetab[x].last_dst_pos < Len(dst)
       PROVE  /\ codetab[x].len \in Nat /\ codetab[x].last_dst_pos \in Nat
              /\ codetab'[x].len = codetab[x].len
              /\ codetab'[x].last_dst_pos < Len(dst')
              /\ \A i \in 1 .. codetab[x].len :
                    /\ codetab[x].last_dst_pos + i \in 1 .. Len(dst)
                    /\ dst'[codetab'[x].last_dst_pos + i] = dst[codetab[x].last_dst_pos + i]
  <2>1. /\ codetab[x].len \in Nat /\ codetab[x].last_dst_pos \in Nat
        /\ \A i \in 1 .. codetab[x].len : codetab[x].last_dst_pos + i \in 1 .. Len(dst)
    BY <1>3, <1>6, <1>16, SMTT(30)
  <2>2. CASE x # c
    <3>1. codetab'[x] = codetab[x] /\ codetab[x].last_dst_pos + codetab[x].len <= Len(dst)
      BY <2>2, <1>3, <1>6, <1>15, <1>16
    <3>2. \A i \in 1 .. codetab[x].len :
             dst'[codetab[x].last_dst_pos + i] = dst[codetab[x].last_dst_pos + i]
      BY <2>1, <3>1, <1>10
    <3>3. codetab[x].last_dst_pos < Len(dst')
      BY <2>1, <1>3, <1>5, <1>16
    <3>. QED  BY <2>1, <3>1, <3>2, <3>3
  <2>3. CASE x = c /\ c \in Byte
    <3>1. codetab[x].last_dst_pos # DST_CAP
      BY <1>1, <1>3, <1>5, <1>16
    <3>2. str = <<c>> /\ dst[codetab[x].last_dst_pos + 1] = c
      BY <2>3, <3>1, <1>1, <1>6, <1>7, <1>8, <1>3 DEF SInv, LiteralsInv, StringOf
    <3>3. Len(str) = 1 /\ str[1] = c
      BY <3>2
    <3>4. /\ codetab[x].len = 1 /\ codetab'[x].len = 1 /\ codetab'[x].last_dst_pos = Len(dst)
      BY <2>3, <3>3, <1>1, <1>6
    <3>5. dst'[Len(dst) + 1] = dst[codetab[x].last_dst_pos + 1]
      BY <3>2, <3>3, <1>11
    <3>6. \A i \in 1 .. 1 : i = 1
      OBVIOUS
    <3>. QED  BY <2>1, <3>4, <3>5, <3>6, <1>11
  <2>4. CASE x = c /\ c \in Known
    <3>1. /\ Len(str) = codetab[c].len
          /\ \A i \in 1 .. Len(str) : str[i] = dst[codetab[c].last_dst_pos + i]
      BY <2>4, <1>1, <1>6, <1>7 DEF StringOf, Repeats
    <3>2. codetab'[x].len = codetab[x].len /\ codetab'[x].last_dst_pos = Len(dst)
      BY <2>4, <3>1, <1>1
    <3>3. \A i \in 1 .. codetab[x].len : dst'[Len(dst) + i] = dst[codetab[x].last_dst_pos + i]
      BY <2>4, <3>1, <1>5
    <3>. QED  BY <2>1, <3>2, <3>3, <1>11
  <2>. QED  BY <2>2, <2>3, <2>4
<1>17. LiteralsInv'
  <2> SUFFICES ASSUME NEW b \in Byte
               PROVE  \/ codetab'[b].last_dst_pos = DST_CAP
                      \/ /\ codetab'[b].last_dst_pos < Len(dst')
                         /\ dst'[codetab'[b].last_dst_pos + 1] = b
    BY DEF LiteralsInv
  <2>1. CASE codetab[b].last_dst_pos = DST_CAP /\ b # c
    BY <2>1, <1>15
  <2>2. CASE codetab[b].last_dst_pos # DST_CAP
    <3>1. codetab[b].last_dst_pos < Len(dst) /\ dst[codetab[b].last_dst_pos + 1] = b
      BY <2>2 DEF SInv, LiteralsInv
    <3>. QED  BY <3>1, <1>6, <1>16
  <2>3. CASE b = c
    <3>1. str = <<c>>
      BY <2>3, <1>1, <1>6, <1>3 DEF StringOf
    <3>2. Len(str) = 1 /\ str[1] = c
      BY <3>1
    <3>. QED  BY <2>3, <3>2, <1>1, <1>3, <1>5
  <2>. QED  BY <2>1, <2>2, <2>3
<1>18. ASSUME NEW x \in Known' PROVE EntryInDst(codetab', dst', x)
  <2>1. x \in Dynamic /\ x \in Code
    BY DEF Known, Live
  <2>2. CASE x \in Known /\ x # c
    <3> DEFINE p == codetab[x].prefix_code
    <3>1. /\ codetab'[x] = codetab[x] /\ p \in Byte \cup Known
          /\ codetab[x].len = codetab[p].len + 1
          /\ codetab[x].len \in Nat \ {0} /\ codetab[x].last_dst_pos \in Nat
          /\ codetab[x].last_dst_pos + codetab[x].len <= Len(dst)
      BY <2>2, <1>3, <1>7, <1>15
    <3>2. /\ codetab[p].last_dst_pos < Len(dst)
          /\ \A i \in 1 .. codetab[p].len :
                dst[codetab[x].last_dst_pos + i] = dst[codetab[p].last_dst_pos + i]
          /\ dst[codetab[x].last_dst_pos + codetab[x].len] = codetab[x].ext_byte
      BY <2>2 DEF SInv, StringInv, EntryInDst
    <3> HIDE DEF p
    <3>3. /\ codetab'[p].len = codetab[p].len /\ codetab'[p].last_dst_pos < Len(dst')
          /\ \A i \in 1 .. codetab[p].len :
                dst'[codetab'[p].last_dst_pos + i] = dst[codetab[p].last_dst_pos + i]
      BY <3>1, <3>2, <1>16
    <3>4. \A i \in 1 .. codetab[x].len :
             dst'[codetab[x].last_dst_pos + i] = dst[codetab[x].last_dst_pos + i]
      BY <3>1, <1>10
    <3>5. codetab[p].len \in Nat
      BY <3>1, <3>2, <1>16
    <3>6. \A i \in 1 .. codetab'[p].len :
             dst'[codetab'[x].last_dst_pos + i] = dst'[codetab'[p].last_dst_pos + i]
      BY <3>1, <3>2, <3>3, <3>4, <3>5
    <3>7. dst'[codetab'[x].last_dst_pos + codetab'[x].len] = codetab'[x].ext_byte
      BY <3>1, <3>2, <3>4
    <3>8. codetab'[x].prefix_code = p
      BY <3>1 DEF p
    <3>. QED  BY <3>3, <3>6, <3>7, <3>8 DEF EntryInDst
  <2>3. CASE x = new /\ new # c /\ Valid(codetab, prev_code)
    <3>1. new # INVALID_CODE /\ prev_code # new /\ prev_code \in Byte \cup Known
      BY <2>1, <2>3, <1>9
    <3>2. /\ codetab'[x].prefix_code = prev_code /\ codetab'[x].len = prev.len + 1
          /\ codetab'[x].last_dst_pos = prev.last_dst_pos /\ codetab'[x].ext_byte = str[1]
      BY <2>3, <3>1, <1>1 DEF AddedLen
    <3>3. prev.last_dst_pos < Len(dst)
      BY <1>3
    <3> HIDE DEF prev
    <3>4. /\ codetab'[prev_code].len = prev.len /\ codetab'[prev_code].last_dst_pos < Len(dst')
          /\ \A i \in 1 .. prev.len :
                dst'[codetab'[prev_code].last_dst_pos + i] = dst[prev.last_dst_pos + i]
      BY <3>1, <3>3, <1>16 DEF prev
    <3>. QED  BY <3>2, <3>4, <1>13, <1>14 DEF EntryInDst
  <2>4. CASE x = c /\ c = new
    <3>1. /\ Valid(codetab, prev_code) /\ Len(str) = prev.len + 1
          /\ \A i \in 1 .. prev.len : str[i] = dst[prev.last_dst_pos + i]
          /\ str[Len(str)] = first_byte
      BY <2>1, <2>4, <1>1, <1>6, <1>7, <1>8 DEF StringOf, Repeats
    <3>2. /\ prev_code \in Byte \cup Known /\ prev_code # c
          /\ codetab'[prev_code] = prev
      BY <2>4, <3>1, <1>9, <1>15
    <3>3. /\ codetab'[c].prefix_code = prev_code /\ codetab'[c].ext_byte = str[1]
          /\ codetab'[c].len = prev.len + 1 /\ codetab'[c].last_dst_pos = Len(dst)
      BY <2>1, <2>4, <3>1, <1>1
    <3> HIDE DEF prev
    <3>4. \A i \in 1 .. prev.len : i \in 1 .. Len(str)
      BY <3>1, <1>12
    <3>5. \A i \in 1 .. prev.len : dst'[Len(dst) + i] = dst[prev.last_dst_pos + i]
      BY <3>1, <3>4, <1>5
    <3>6. str[1] = first_byte
      BY <3>1, <1>12, <1>4, SMTT(30) DEF prev
    <3>7. dst'[Len(dst) + (prev.len + 1)] = first_byte
      BY <3>1, <1>11
    <3>. QED  BY <2>4, <3>2, <3>3, <3>5, <3>6, <3>7, <1>13, <1>14 DEF EntryInDst
  <2>5. CASE x = c /\ c # new /\ c \in Known
    <3> DEFINE p == codetab[c].prefix_code
    <3>1. /\ Len(str) = codetab[c].len
          /\ \A i \in 1 .. Len(str) : str[i] = dst[codetab[c].last_dst_pos + i]
      BY <2>5, <1>1, <1>6, <1>7 DEF StringOf, Repeats
    <3>2. /\ p \in Byte \cup Known /\ p # c /\ codetab[c].len = codetab[p].len + 1
          /\ codetab'[p] = codetab[p]
      BY <2>5, <1>7, <1>15 DEF SelfRef
    <3>3. /\ codetab[p].last_dst_pos < Len(dst)
          /\ \A i \in 1 .. codetab[p].len :
                dst[codetab[c].last_dst_pos + i] = dst[codetab[p].last_dst_pos + i]
          /\ dst[codetab[c].last_dst_pos + codetab[c].len] = codetab[c].ext_byte
      BY <2>5 DEF SInv, StringInv, EntryInDst
    <3>4. /\ codetab'[c].prefix_code = p /\ codetab'[c].ext_byte = codetab[c].ext_byte
          /\ codetab'[c].len = Len(str) /\ codetab'[c].last_dst_pos = Len(dst)
      BY <2>5, <1>1
    <3> HIDE DEF p
    <3>5. /\ codetab[p].len \in Nat
          /\ codetab'[p].last_dst_pos < Len(dst')
          /\ \A i \in 1 .. codetab[p].len :
                dst'[codetab'[p].last_dst_pos + i] = dst[codetab[p].last_dst_pos + i]
      BY <3>2, <3>3, <1>16
    <3>6. \A i \in 1 .. codetab[p].len : dst'[Len(dst) + i] = dst[codetab[c].last_dst_pos + i]
      <4>1. \A i \in 1 .. codetab[p].len : i \in 1 .. Len(str)
        BY <3>1, <3>2, <3>5, <1>5
      <4>. QED  BY <3>1, <4>1, <1>5
    <3>7. dst'[Len(dst) + Len(str)] = codetab[c].ext_byte
      <4>1. str[Len(str)] = dst[codetab[c].last_dst_pos + Len(str)]
        BY <3>1, <1>5
      <4>. QED  BY <3>1, <3>3, <4>1, <1>11
    <3>8. codetab'[p].len = codetab[p].len
      BY <3>2
    <3>. QED  BY <2>5, <3>3, <3>4, <3>5, <3>6, <3>7, <3>8 DEF EntryInDst
  <2>6. CASE x = c /\ c \in Pending
    <3> DEFINE p == codetab[c].prefix_code
    <3>1. c # new /\ p # c /\ p \in Dynamic /\ c # prev_code
      BY <2>6, <1>8 DEF SelfRef
    <3>2. /\ codetab'[c].prefix_code = p /\ codetab'[c].ext_byte = codetab[c].ext_byte
          /\ codetab'[c].len = Len(str) /\ codetab'[c].last_dst_pos = Len(dst)
      BY <3>1, <1>1
    <3>3. c \notin Byte /\ c \notin Known
      BY <2>6, <1>6, <1>7
    <3>4. CASE /\ p \in Known /\ Len(str) = codetab[p].len + 1
               /\ \A i \in 1 .. codetab[p].len : str[i] = dst[codetab[p].last_dst_pos + i]
               /\ str[Len(str)] = codetab[c].ext_byte
      <4> HIDE DEF p
      <4>1. /\ codetab[p].len \in Nat \ {0} /\ codetab[p].last_dst_pos \in Nat
            /\ codetab[p].last_dst_pos + codetab[p].len <= Len(dst)
            /\ codetab'[p] = codetab[p]
        BY <3>1, <3>4, <1>3, <1>15
      <4>2. codetab[p].last_dst_pos < Len(dst)
        BY <4>1, <1>3
      <4>3. /\ codetab'[p].last_dst_pos < Len(dst')
            /\ \A i \in 1 .. codetab[p].len :
                  dst'[codetab'[p].last_dst_pos + i] = dst[codetab[p].last_dst_pos + i]
        BY <3>4, <4>2, <1>16
      <4>4. \A i \in 1 .. codetab[p].len : dst'[Len(dst) + i] = str[i]
        BY <3>4, <4>1, <1>5
      <4>5. dst'[Len(dst) + Len(str)] = codetab[c].ext_byte
        <5>1. Len(str) \in 1 .. Len(str) /\ str[Len(str)] = codetab[c].ext_byte
          BY <3>4, <4>1
        <5>. QED  BY <5>1, <1>5, Zenon
      <4>6. \A i \in 1 .. codetab'[p].len : dst'[Len(dst) + i] = dst'[codetab'[p].last_dst_pos + i]
        BY <3>4, <4>1, <4>3, <4>4
      <4>. QED  BY <2>6, <3>2, <4>3, <4>5, <4>6 DEF EntryInDst
    <3>5. CASE /\ p = new /\ Valid(codetab, prev_code) /\ Len(str) = prev.len + 2
               /\ \A i \in 1 .. prev.len : str[i] = dst[prev.last_dst_pos + i]
               /\ str[prev.len + 1] = first_byte /\ str[Len(str)] = codetab[c].ext_byte
      <4>1. new # INVALID_CODE
        BY <3>1, <3>5
      <4>2. codetab'[p].len = prev.len + 1 /\ codetab'[p].last_dst_pos = prev.last_dst_pos
        BY <3>1, <3>5, <4>1, <1>1 DEF AddedLen
      <4> HIDE DEF p, prev
      <4>3. str[1] = first_byte
        BY <3>5, <1>3, <1>4, SMTT(30)
      <4>4. \A i \in 1 .. prev.len + 1 : i \in 1 .. Len(str)
        BY <3>5, <1>12
      <4>5. \A i \in 1 .. prev.len + 1 : i \in 1 .. prev.len \/ i = prev.len + 1
        BY <1>12
      <4>6. \A i \in 1 .. prev.len + 1 : dst'[Len(dst) + i] = str[i]
        BY <4>4, <1>5
      <4>7. \A i \in 1 .. prev.len : dst'[prev.last_dst_pos + i] = str[i]
        BY <3>5, <1>13
      <4>8. dst'[prev.last_dst_pos + (prev.len + 1)] = str[prev.len + 1]
        BY <3>5, <4>3, <1>14
      <4>9. \A i \in 1 .. prev.len + 1 : dst'[Len(dst) + i] = dst'[prev.last_dst_pos + i]
        BY <4>5, <4>6, <4>7, <4>8, Zenon
      <4>10. dst'[Len(dst) + Len(str)] = codetab[c].ext_byte
        BY <3>5, <1>11
      <4>. QED  BY <2>6, <3>2, <4>2, <4>9, <4>10, <1>14 DEF EntryInDst
    <3>. QED  BY <3>1, <3>3, <3>4, <3>5, <1>1 DEF StringOf, Repeats
  <2>7. \/ x = c /\ c = new
        \/ x = c /\ c # new /\ (c \in Known \/ c \in Pending)
        \/ x # c /\ x \in Known
        \/ x # c /\ x = new /\ Valid(codetab, prev_code)
    <3>1. CASE x = c
      BY <2>1, <3>1, <1>1 DEF StringOf
    <3>2. CASE x # c /\ x # new
      <4>1. codetab'[x] = codetab[x]
        BY <2>1, <3>2, <1>1
      <4>. QED  BY <3>2, <4>1 DEF Known, Pending, Live, Valid, SelfRef
    <3>3. CASE x # c /\ x = new /\ ~Valid(codetab, prev_code)
      <4>1. /\ new # INVALID_CODE /\ codetab'[new].prefix_code = prev_code
            /\ codetab'[new].len = AddedLen(new)
        BY <2>1, <3>3, <1>1
      <4>2. codetab'[x].len # UNKNOWN_LEN /\ codetab'[x].prefix_code # x
        BY DEF Known, Pending, Live, SelfRef
      <4>3. new # prev_code
        BY <3>3, <4>1, <4>2
      <4>. QED  BY <3>3, <4>1, <4>2, <4>3 DEF AddedLen
    <3>. QED  BY <3>1, <3>2, <3>3
  <2>. QED  BY <2>2, <2>3, <2>4, <2>5, <2>6, <2>7
<1>. QED  BY <1>2, <1>17, <1>18 DEF SInv, StringInv

LEMMA NextStrings == SInv /\ [Next]_vars => SInv'
<1> SUFFICES ASSUME SInv, [Next]_vars PROVE SInv'
  OBVIOUS
<1>1. IInv /\ IInv'
  BY NextInv DEF SInv
<1>2. CASE UNCHANGED <<codetab, dst>>
  BY <1>1, <1>2, ReturnStrings
<1>3. CASE ReadPartialClear
  BY <1>3, PartialClearStrings
<1>4. ASSUME NEW c \in Readable, FirstCode(c) PROVE SInv'
  BY <1>4, FirstCodeStrings
<1>5. ASSUME NEW c \in Readable, NextCode(c), ~UNCHANGED <<codetab, dst>> PROVE SInv'
  <2>1. OutputLiteral(c) \/ OutputKnown(c) \/ OutputUnknown(c)
    BY <1>5 DEF NextCode, NoRoom, RejectKwKwK, RejectCode, RejectUnknown, Return
  <2>2. status' = "reading"
    BY <1>5, <2>1 DEF OutputLiteral, OutputKnown, OutputUnknown, Output, Reading, IsUnknown, Return
  <2>. QED  BY <1>1, <2>1, <2>2, LiteralShape, KnownShape, UnknownShape, OutputStrings
<1>6. CASE ReadIncCodeSize \/ ReadBadControl \/ EndOfStream \/ UNCHANGED vars
  BY <1>6, <1>2 DEF ReadIncCodeSize, ReadBadControl, EndOfStream, Return, vars
<1>. QED  BY <1>2, <1>3, <1>4, <1>5, <1>6 DEF Next

--------------------------------------------------------------------------------
\* Two parts of a sequence that agree element by element are equal.
LEMMA SameParts ==
    \A s \in Seq(Byte), a, b, n \in Nat :
       /\ a + n <= Len(s) /\ b + n <= Len(s) /\ \A i \in 1 .. n : s[a + i] = s[b + i]
       => SubSeq(s, a + 1, a + n) = SubSeq(s, b + 1, b + n)
<1> SUFFICES ASSUME NEW s \in Seq(Byte), NEW a \in Nat, NEW b \in Nat, NEW n \in Nat,
                    a + n <= Len(s), b + n <= Len(s), \A i \in 1 .. n : s[a + i] = s[b + i]
             PROVE  SubSeq(s, a + 1, a + n) = SubSeq(s, b + 1, b + n)
  OBVIOUS
<1>1. ASSUME NEW k \in Nat, k + n <= Len(s)
      PROVE  /\ SubSeq(s, k + 1, k + n) \in Seq(Byte)
             /\ Len(SubSeq(s, k + 1, k + n)) = n
             /\ \A i \in 1 .. n : SubSeq(s, k + 1, k + n)[i] = s[k + i]
  <2>1. \A i \in k + 1 .. k + n : s[i] \in Byte
    BY <1>1, LenProperties, ElementOfSeq
  <2>2. /\ SubSeq(s, k + 1, k + n) \in Seq(Byte)
        /\ Len(SubSeq(s, k + 1, k + n))
              = IF k + 1 <= k + n THEN (k + n) - (k + 1) + 1 ELSE 0
        /\ \A i \in 1 .. (k + n) - (k + 1) + 1 :
              SubSeq(s, k + 1, k + n)[i] = s[(k + 1) + i - 1]
    BY <2>1, SubSeqProperties
  <2>3. k + 1 <= k + n \/ n = 0
    OBVIOUS
  <2>4. (k + n) - (k + 1) + 1 = n /\ \A i \in 1 .. n : (k + 1) + i - 1 = k + i
    OBVIOUS
  <2>. QED  BY <2>2, <2>3, <2>4
<1> DEFINE x == SubSeq(s, a + 1, a + n)
           y == SubSeq(s, b + 1, b + n)
<1>2. x \in Seq(Byte) /\ Len(x) = n /\ \A i \in 1 .. n : x[i] = s[a + i]
  BY <1>1
<1>3. y \in Seq(Byte) /\ Len(y) = n /\ \A i \in 1 .. n : y[i] = s[b + i]
  BY <1>1
<1> HIDE DEF x, y
<1>4. x = y
  <2>1. \A i \in 1 .. Len(x) : x[i] = y[i]
    BY <1>2, <1>3
  <2>. QED  BY <2>1, <1>2, <1>3, SeqEqual
<1>. QED  BY <1>4 DEF x, y

LEMMA StringsFollow == SInv => StringsInDst
<1> SUFFICES ASSUME SInv, NEW c \in Known
             PROVE  LET e == codetab[c]
                        p == codetab[e.prefix_code]
                    IN  /\ e.len = p.len + 1
                        /\ e.last_dst_pos + e.len <= dst_pos
                        /\ dst[e.last_dst_pos + e.len] = e.ext_byte
                        /\ SubSeq(dst, e.last_dst_pos + 1, e.last_dst_pos + p.len)
                              = SubSeq(dst, p.last_dst_pos + 1, p.last_dst_pos + p.len)
  BY DEF StringsInDst
<1> DEFINE e == codetab[c]
           p == codetab[e.prefix_code]
<1>1. IInv /\ prev_code # INVALID_CODE
  BY DEF SInv, IInv, PrevInv, Known
<1>2. /\ dst \in Seq(Byte) /\ Len(dst) \in Nat /\ codetab \in [Code -> CodeEntry]
      /\ \A x \in Known : codetab[x].len \in Nat \ {0} /\ codetab[x].last_dst_pos \in Nat
                          /\ codetab[x].last_dst_pos + codetab[x].len <= Len(dst)
  BY <1>1, PrevFacts, CodeFacts DEF IInv, TypeOK
<1>3. /\ e.prefix_code \in Byte \cup Known /\ e.len = p.len + 1
      /\ e.last_dst_pos + e.len <= Len(dst) /\ e.last_dst_pos \in Nat /\ e.len \in Nat
  BY <1>1, <1>2, CodeFacts DEF IInv, TableInv, dst_pos
<1>4. /\ p.last_dst_pos < Len(dst)
      /\ \A i \in 1 .. p.len : dst[e.last_dst_pos + i] = dst[p.last_dst_pos + i]
      /\ dst[e.last_dst_pos + e.len] = e.ext_byte
  BY DEF SInv, StringInv, EntryInDst
<1>5. p.last_dst_pos \in Nat /\ p.len \in Nat /\ p.last_dst_pos + p.len <= Len(dst)
  <2>1. CASE e.prefix_code \in Known
    BY <2>1, <1>2
  <2>2. CASE e.prefix_code \in Byte
    <3>1. p.len = 1 /\ p.last_dst_pos \in Nat
      BY <2>2, <1>1, <1>2, CodeFacts DEF IInv, TableInv, CodeEntry
    <3> HIDE DEF p
    <3>. QED  BY <3>1, <1>2, <1>4
  <2>. QED  BY <2>1, <2>2, <1>3
<1> HIDE DEF e, p
<1>6. SubSeq(dst, e.last_dst_pos + 1, e.last_dst_pos + p.len)
         = SubSeq(dst, p.last_dst_pos + 1, p.last_dst_pos + p.len)
  <2>1. e.last_dst_pos + p.len <= Len(dst)
    BY <1>2, <1>3, <1>5
  <2> DEFINE x == e.last_dst_pos
             y == p.last_dst_pos
             n == p.len
  <2>2. /\ x \in Nat /\ y \in Nat /\ n \in Nat /\ x + n <= Len(dst) /\ y + n <= Len(dst)
        /\ \A i \in 1 .. n : dst[x + i] = dst[y + i]
    BY <2>1, <1>3, <1>4, <1>5
  <2>3. dst \in Seq(Byte)
    BY <1>2
  <2> HIDE DEF x, y, n
  <2>4. SubSeq(dst, x + 1, x + n) = SubSeq(dst, y + 1, y + n)
    BY <2>2, <2>3, SameParts
  <2>. QED  BY <2>4 DEF x, y, n
<1>. QED  BY <1>3, <1>4, <1>6 DEF e, p, dst_pos

\* Whatever the input, every string of the table is in the output where its
\* entry says, with the length it says: what hwunshrink copies for a code is
\* the string the code was given for, even after clearings, reuse of codes and
\* moves of the position to later occurrences.
THEOREM StringsAreInDst == Spec => []StringsInDst
<1>1. Init => SInv
  BY InitStrings
<1>2. SInv /\ [Next]_vars => SInv'
  BY NextStrings
<1>3. SInv => StringsInDst
  BY StringsFollow
<1>. QED  BY <1>1, <1>2, <1>3, PTL DEF Spec
================================================================================
