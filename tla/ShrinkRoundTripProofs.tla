-------------------------- MODULE ShrinkRoundTripProofs --------------------------
(***************************************************************************)
(* Shrink is lossless: for every input, every table size and every room in *)
(* the output, what hwunshrink makes of the stream of hwshrink is the      *)
(* input, or hwshrink has given up.                                        *)
(***************************************************************************)
EXTENDS ShrinkRoundTrip, WellFoundedInduction, TLAPS, SequenceTheorems, FiniteSetTheorems

\* A set of naturals that has an element has a least one.
LEMMA LeastElement ==
    ASSUME NEW S, S \subseteq Nat, S # {}
    PROVE  \E m \in S : \A n \in S : m <= n
<1>1. PICK m \in S : \A n \in S : ~(<<n, m>> \in {ss \in Nat \X Nat : ss[1] < ss[2]})
  BY NatLessThanWellFounded, WFMin, Zenon DEF OpToRel
<1>2. \A n \in S : ~(n < m)
  BY <1>1
<1>. QED  BY <1>2

\* The decompressor with what was proved about it.
P == INSTANCE UnshrinkProofs
     WITH code_size <- d_code_size, queue <- d_queue, status <- d_status

\* The facts about codes hold of both ends, which have the same codes.
LEMMA CodeFacts ==
    /\ Byte \subseteq Nat /\ Dynamic \subseteq Nat /\ Code \subseteq Nat
    /\ Byte \subseteq Code /\ Dynamic \subseteq Code
    /\ Byte \cap Dynamic = {}
    /\ CONTROL_CODE \in Code /\ CONTROL_CODE \notin Byte \cup Dynamic
    /\ Code = Byte \cup Dynamic \cup {CONTROL_CODE}
    /\ INVALID_CODE \notin Code
    /\ 0 \in Byte
    /\ \A c \in Dynamic : c > CONTROL_CODE
    /\ \A c \in Byte : c < CONTROL_CODE
  BY CodeAssumption DEF Byte, Dynamic, Code

LEMMA QueueNext ==
    ASSUME NEW q, q \subseteq Dynamic
    PROVE  /\ q = {} => code_queue_next(q) = INVALID_CODE
           /\ q # {} => code_queue_next(q) \in q
           /\ code_queue_remove_next(q) \subseteq q
           /\ code_queue_next(q) \notin code_queue_remove_next(q)
<1>1. CASE q # {}
  <2>1. \E x \in q : \A y \in q : x <= y
    BY LeastElement, CodeFacts, <1>1
  <2>. QED  BY <2>1, <1>1 DEF code_queue_next, code_queue_remove_next
<1>2. CASE q = {}
  BY <1>2 DEF code_queue_next, code_queue_remove_next
<1>. QED  BY <1>1, <1>2

--------------------------------------------------------------------------------
(***************************************************************************)
(* What the compressor writes.                                             *)
(***************************************************************************)
LEMMA SizeFacts ==
    /\ MIN_CODE_SIZE \in Nat /\ MAX_CODE_SIZE \in Nat /\ MIN_CODE_SIZE <= MAX_CODE_SIZE
    /\ CONTROL_CODE \in Code /\ INC_CODE_SIZE \in Code /\ PARTIAL_CLEAR \in Code
  BY CodeSizeAssumption, CodeAssumption DEF Code, INC_CODE_SIZE, PARTIAL_CLEAR

\* The width at which a code is written is one it fits in.
LEMMA WidthForFacts ==
    ASSUME NEW c \in Code, NEW size \in MIN_CODE_SIZE .. MAX_CODE_SIZE
    PROVE  /\ WidthFor(c, size) \in size .. MAX_CODE_SIZE
           /\ c <= MaxOf(WidthFor(c, size))
<1> DEFINE S == {n \in size .. MAX_CODE_SIZE : c <= MaxOf(n)}
<1>1. size \in Nat /\ MAX_CODE_SIZE \in Nat /\ S \subseteq Nat
  BY SizeFacts
<1>2. MAX_CODE_SIZE \in S
  BY <1>1, WidthAssumption, CodeAssumption DEF Code
<1>3. PICK m \in S : \A n \in S : m <= n
  <2> HIDE DEF S
  <2>. QED  BY <1>1, <1>2, LeastElement
<1>4. \A k \in size .. m - 1 : ~(c <= MaxOf(k))
  <2> SUFFICES ASSUME NEW k \in size .. m - 1, c <= MaxOf(k) PROVE FALSE
    OBVIOUS
  <2>1. k \in S /\ k < m
    BY <1>1
  <2> HIDE DEF S
  <2>. QED  BY <1>1, <1>3, <2>1
<1>5. \E n \in size .. MAX_CODE_SIZE :
         c <= MaxOf(n) /\ \A k \in size .. n - 1 : ~(c <= MaxOf(k))
  BY <1>3, <1>4
<1>. QED  BY <1>5 DEF WidthFor

\* s adds the widths of the first n items up.
Adds(s, items, n) ==
    s = [k \in 0 .. n |-> IF k = 0 THEN 0 ELSE s[k - 1] + items[k].width]

LEMMA AddsExists ==
    ASSUME NEW items PROVE \A n \in Nat : \E s : Adds(s, items, n)
<1> DEFINE Bad == {n \in Nat : ~\E s : Adds(s, items, n)}
<1> SUFFICES ASSUME Bad # {} PROVE FALSE
  OBVIOUS
<1>1. PICK n \in Bad : \A k \in Bad : n <= k
  BY LeastElement
<1>2. CASE n = 0
  <2>1. Adds([k \in 0 .. 0 |-> 0], items, 0)
    BY DEF Adds
  <2>. QED  BY <1>1, <1>2, <2>1
<1>3. CASE n # 0
  <2>1. n - 1 \in Nat /\ n \in Nat /\ n - 1 \notin Bad
    BY <1>1, <1>3
  <2>2. PICK f : Adds(f, items, n - 1)
    BY <2>1
  <2> DEFINE g == [k \in 0 .. n |-> IF k = n THEN f[n - 1] + items[n].width ELSE f[k]]
             e(k) == IF k = 0 THEN 0 ELSE f[k - 1] + items[k].width
  <2>3. \A k \in 0 .. n - 1 : f[k] = e(k)
    <3>1. f = [k \in 0 .. n - 1 |-> e(k)]
      BY <2>2 DEF Adds
    <3> HIDE DEF e
    <3>. QED  BY <3>1
  <2>4. \A k \in 0 .. n : g[k] = IF k = 0 THEN 0 ELSE g[k - 1] + items[k].width
    <3> SUFFICES ASSUME NEW k \in 0 .. n
                 PROVE  g[k] = IF k = 0 THEN 0 ELSE g[k - 1] + items[k].width
      OBVIOUS
    <3>1. CASE k = n
      <4>1. g[n - 1] = f[n - 1] /\ g[n] = f[n - 1] + items[n].width
        BY <1>3, <2>1
      <4>. QED  BY <4>1, <3>1, <1>3
    <3>2. CASE k # n
      <4>1. k \in 0 .. n - 1 /\ g[k] = f[k] /\ (k # 0 => g[k - 1] = f[k - 1])
        BY <3>2, <2>1
      <4>. QED  BY <4>1, <2>3
    <3>. QED  BY <3>1, <3>2
  <2>5. g = [k \in 0 .. n |-> IF k = 0 THEN 0 ELSE g[k - 1] + items[k].width]
    <3> DEFINE h(k) == IF k = 0 THEN 0 ELSE g[k - 1] + items[k].width
    <3>1. g = [k \in 0 .. n |-> g[k]]
      OBVIOUS
    <3>2. \A k \in 0 .. n : g[k] = h(k)
      BY <2>4
    <3> HIDE DEF g, h
    <3>3. g = [k \in 0 .. n |-> h(k)]
      BY <3>1, <3>2, Zenon
    <3>. QED  BY <3>3 DEF h
  <2>6. Adds(g, items, n)
    <3> HIDE DEF g
    <3>. QED  BY <2>5 DEF Adds
  <2>. QED  BY <1>1, <2>6
<1>. QED  BY <1>2, <1>3

LEMMA BitsOfNat ==
    ASSUME NEW items \in Seq(StreamItem) PROVE BitsOf(items) \in Nat
<1> DEFINE n == Len(items)
           sum == CHOOSE s : Adds(s, items, n)
<1>1. n \in Nat /\ \A k \in 1 .. n : items[k].width \in Nat
  <2>1. \A k \in 1 .. n : items[k] \in StreamItem
    BY ElementOfSeq
  <2>. QED  BY <2>1, SizeFacts, LenProperties DEF StreamItem
<1>2. Adds(sum, items, n)
  <2> HIDE DEF n
  <2>. QED  BY <1>1, AddsExists
<1>3. BitsOf(items) = sum[n]
  BY DEF BitsOf, Adds
<1> HIDE DEF sum, n
<1>4. \A k \in 0 .. n : sum[k] = IF k = 0 THEN 0 ELSE sum[k - 1] + items[k].width
  <2> DEFINE e(k) == IF k = 0 THEN 0 ELSE sum[k - 1] + items[k].width
  <2>1. sum = [k \in 0 .. n |-> e(k)]
    BY <1>2 DEF Adds
  <2> HIDE DEF e
  <2>2. \A k \in 0 .. n : sum[k] = e(k)
    BY <2>1
  <2>. QED  BY <2>2 DEF e
<1>5. \A k \in 0 .. n : sum[k] \in Nat
  <2> DEFINE Bad == {k \in 0 .. n : sum[k] \notin Nat}
  <2> SUFFICES ASSUME Bad # {} PROVE FALSE
    OBVIOUS
  <2>1. Bad \subseteq Nat
    BY <1>1
  <2>2. PICK k \in Bad : \A j \in Bad : k <= j
    <3> HIDE DEF Bad
    <3>. QED  BY <2>1, LeastElement
  <2>3. k # 0 /\ k - 1 \in 0 .. n /\ k \in 1 .. n /\ k - 1 \notin Bad
    BY <1>1, <1>4, <2>2
  <2>4. sum[k - 1] \in Nat /\ sum[k] = sum[k - 1] + items[k].width
    BY <1>4, <2>3
  <2>. QED  BY <1>1, <2>2, <2>3, <2>4
<1>. QED  BY <1>1, <1>3, <1>5

\* What write_code writes: pairs that widen the codes, then the code.
LEMMA WriteCodeFacts ==
    ASSUME NEW c \in Code, NEW size \in MIN_CODE_SIZE .. MAX_CODE_SIZE
    PROVE  LET items == write_code(c, size)
               n == WidthFor(c, size)
               m == n - size
           IN  /\ items \in Seq(StreamItem) /\ m \in 0 .. MAX_CODE_SIZE
               /\ Len(items) = 2 * m + 1
               /\ \A k \in 1 .. 2 * m :
                     items[k] = Item(IF k % 2 = 1 THEN CONTROL_CODE ELSE INC_CODE_SIZE,
                                     size + (k - 1) \div 2)
               /\ items[2 * m + 1] = Item(c, n)
<1> DEFINE n == WidthFor(c, size)
           m == n - size
           e(k) == Item(IF k % 2 = 1 THEN CONTROL_CODE ELSE INC_CODE_SIZE, size + (k - 1) \div 2)
           control == [k \in 1 .. 2 * m |-> e(k)]
<1>1. /\ n \in size .. MAX_CODE_SIZE /\ size \in Nat /\ MIN_CODE_SIZE \in Nat /\ MAX_CODE_SIZE \in Nat
      /\ MIN_CODE_SIZE <= size
  BY WidthForFacts, SizeFacts
<1> HIDE DEF n
<1>2. m \in 0 .. MAX_CODE_SIZE /\ 2 * m \in Nat
  BY <1>1
<1>3. \A k \in 1 .. 2 * m : e(k) \in StreamItem
  <2> SUFFICES ASSUME NEW k \in 1 .. 2 * m PROVE e(k) \in StreamItem
    OBVIOUS
  <2>1. (k - 1) \div 2 \in 0 .. m - 1
    BY <1>2
  <2>2. size + (k - 1) \div 2 \in MIN_CODE_SIZE .. MAX_CODE_SIZE
    BY <1>1, <2>1
  <2>. QED  BY <2>2, SizeFacts DEF Item, StreamItem
<1>4. Item(c, n) \in StreamItem
  BY <1>1 DEF Item, StreamItem
<1> HIDE DEF e
<1>5. control \in Seq(StreamItem) /\ Len(control) = 2 * m
      /\ \A k \in 1 .. 2 * m : control[k] = e(k)
  <2>1. control \in [1 .. 2 * m -> StreamItem]
    BY <1>3
  <2>. QED  BY <2>1, <1>2
<1>6. write_code(c, size) = Append(control, Item(c, n))
  BY DEF write_code, n, e
<1> HIDE DEF control, m
<1>7. /\ Append(control, Item(c, n)) \in Seq(StreamItem)
      /\ Len(Append(control, Item(c, n))) = 2 * m + 1
      /\ \A k \in 1 .. 2 * m : Append(control, Item(c, n))[k] = control[k]
      /\ Append(control, Item(c, n))[2 * m + 1] = Item(c, n)
  BY <1>2, <1>4, <1>5, AppendProperties
<1>. QED  BY <1>2, <1>5, <1>6, <1>7 DEF m, n, e

--------------------------------------------------------------------------------
(***************************************************************************)
(* The compressor's table is sound.                                        *)
(***************************************************************************)
CInv == TypeOK /\ CodesUnique /\ CurrCodeInTable

\* hashtab_find finds an entry with the prefix and the byte, if there is one.
LEMMA FindFacts ==
    ASSUME TypeOK, NEW c, NEW b
    PROVE  LET found == hashtab_find(c, b)
           IN  /\ found = INVALID_CODE => \A e \in table : e.prefix_code # c \/ e.ext_byte # b
               /\ found # INVALID_CODE =>
                     found \in Dynamic
                     /\ \E e \in table : e.prefix_code = c /\ e.ext_byte = b /\ e.code = found
<1>1. \A e \in table : e.code \in Dynamic /\ e.code # INVALID_CODE
  BY CodeFacts DEF TypeOK, TableEntry
<1>2. CASE Matches(c, b) = {}
  BY <1>2 DEF hashtab_find, Matches
<1>3. CASE Matches(c, b) # {}
  <2>1. (CHOOSE e \in Matches(c, b) : TRUE) \in Matches(c, b)
    BY <1>3
  <2>2. hashtab_find(c, b) = (CHOOSE e \in Matches(c, b) : TRUE).code
    BY <1>3 DEF hashtab_find
  <2>. QED  BY <1>1, <2>1, <2>2 DEF Matches
<1>. QED  BY <1>2, <1>3

\* A sound table stays so when the current string and a byte get a free code.
LEMMA InsertSound ==
    ASSUME CInv, NEW entries \in SUBSET table, NEW free \in SUBSET Dynamic, NEW b \in Byte,
           \A e \in entries : e.code \notin free,
           curr_code # INVALID_CODE, hashtab_find(curr_code, b) = INVALID_CODE,
           table' = Insert(entries, code_queue_next(free), b),
           queue' = code_queue_remove_next(free)
    PROVE  /\ table' \in SUBSET TableEntry /\ queue' \in SUBSET Dynamic
           /\ CodesUnique'
<1> DEFINE new == code_queue_next(free)
           added == [prefix_code |-> curr_code, ext_byte |-> b, code |-> new]
<1>1. /\ free = {} => new = INVALID_CODE
      /\ free # {} => new \in free
      /\ queue' \subseteq free /\ new \notin queue'
  BY QueueNext
<1>2. /\ \A e \in table : e.code \in Dynamic /\ (e.prefix_code # curr_code \/ e.ext_byte # b)
      /\ table \subseteq TableEntry /\ curr_code \in Code
      /\ \A e \in table : e.code # INVALID_CODE
      /\ \A e, f \in table :
          e.code = f.code \/ (e.prefix_code = f.prefix_code /\ e.ext_byte = f.ext_byte)
              => e = f
  BY FindFacts, CodeFacts DEF CInv, TypeOK, TableEntry, CodesUnique
<1> HIDE DEF new
<1>3. CASE new = INVALID_CODE
  <2>1. table' = entries
    BY <1>3 DEF Insert, new
  <2>. QED  BY <1>1, <1>2, <2>1 DEF CodesUnique
<1>4. CASE new # INVALID_CODE
  <2>1. table' = entries \cup {added} /\ new \in free
    BY <1>1, <1>4 DEF Insert, new
  <2>2. added \in TableEntry
    BY <1>2, <2>1 DEF TableEntry
  <2>3. /\ added.prefix_code = curr_code /\ added.ext_byte = b /\ added.code = new
    OBVIOUS
  <2> HIDE DEF added
  <2>4. \A e \in table' : e.code \notin queue'
    BY <1>1, <2>1, <2>3
  <2>5. \A e \in entries : e.code # new /\ (e.prefix_code # curr_code \/ e.ext_byte # b)
    BY <1>2, <2>1
  <2>6. ASSUME NEW e \in table', NEW f \in table',
               e.code = f.code \/ (e.prefix_code = f.prefix_code /\ e.ext_byte = f.ext_byte)
        PROVE  e = f
    BY <1>2, <2>1, <2>3, <2>5, <2>6
  <2>. QED  BY <1>1, <1>2, <2>1, <2>2, <2>4, <2>6 DEF CodesUnique
<1>. QED  BY <1>3, <1>4

\* What is written is a sequence of items, and bitpos a number of bits.
LEMMA WriteType ==
    ASSUME TypeOK, NEW items \in Seq(StreamItem), Write(items)
    PROVE  os' \in Seq(StreamItem) /\ bitpos' \in Nat
<1>1. BitsOf(items) \in Nat
  BY BitsOfNat
<1>. QED  BY <1>1, ConcatProperties DEF TypeOK, Write

LEMMA CurrFacts ==
    ASSUME TypeOK, curr_code # INVALID_CODE
    PROVE  /\ curr_code \in Code /\ curr_code # CONTROL_CODE
           /\ WidthFor(curr_code, code_size) \in MIN_CODE_SIZE .. MAX_CODE_SIZE
           /\ curr_code <= MaxOf(WidthFor(curr_code, code_size))
           /\ write_code(curr_code, code_size) \in Seq(StreamItem)
<1>1. curr_code \in Code /\ curr_code # CONTROL_CODE
      /\ code_size \in MIN_CODE_SIZE .. MAX_CODE_SIZE
  BY DEF TypeOK
<1>2. WidthFor(curr_code, code_size) \in code_size .. MAX_CODE_SIZE
      /\ curr_code <= MaxOf(WidthFor(curr_code, code_size))
  BY <1>1, WidthForFacts
<1>3. write_code(curr_code, code_size) \in Seq(StreamItem)
  BY <1>1, WriteCodeFacts
<1>. QED  BY <1>1, <1>2, <1>3, SizeFacts

\* The items that announce a partial clearing.
ClearItems(w) == <<Item(CONTROL_CODE, w), Item(PARTIAL_CLEAR, w)>>

LEMMA ClearItemsFacts ==
    ASSUME NEW w \in MIN_CODE_SIZE .. MAX_CODE_SIZE
    PROVE  /\ ClearItems(w) \in Seq(StreamItem) /\ Len(ClearItems(w)) = 2
           /\ ClearItems(w)[1] = Item(CONTROL_CODE, w)
           /\ ClearItems(w)[2] = Item(PARTIAL_CLEAR, w)
<1>1. Item(CONTROL_CODE, w) \in StreamItem /\ Item(PARTIAL_CLEAR, w) \in StreamItem
  BY SizeFacts DEF Item, StreamItem
<1>. QED  BY <1>1 DEF ClearItems

LEMMA EmitInv == ASSUME CInv, NEW b \in Byte, EmitCode(b) PROVE CInv'
<1>1. /\ curr_code # INVALID_CODE /\ hashtab_find(curr_code, b) = INVALID_CODE
      /\ src' = Append(src, b) /\ curr_code' = b /\ status' = status
      /\ Write(write_code(curr_code, code_size))
      /\ code_size' = WidthFor(curr_code, code_size)
      /\ table' = Insert(table, code_queue_next(queue), b)
      /\ queue' = code_queue_remove_next(queue)
  BY DEF EmitCode, Reads
<1>2. TypeOK /\ queue \in SUBSET Dynamic /\ \A e \in table : e.code \notin queue
  BY DEF CInv, TypeOK, CodesUnique
<1>3. /\ table' \in SUBSET TableEntry /\ queue' \in SUBSET Dynamic /\ CodesUnique'
  BY <1>1, <1>2, InsertSound
<1>4. /\ WidthFor(curr_code, code_size) \in MIN_CODE_SIZE .. MAX_CODE_SIZE
      /\ os' \in Seq(StreamItem) /\ bitpos' \in Nat
  BY <1>1, <1>2, CurrFacts, WriteType
<1>5. b \in Code /\ b # CONTROL_CODE /\ src' \in Seq(Byte)
  BY <1>1, <1>2, CodeFacts, AppendProperties DEF TypeOK
<1>6. TypeOK'
  BY <1>1, <1>2, <1>3, <1>4, <1>5 DEF TypeOK
<1>. QED  BY <1>1, <1>3, <1>6 DEF CInv, CurrCodeInTable

LEMMA EmitAndClearInv == ASSUME CInv, NEW b \in Byte, EmitCodeAndClear(b) PROVE CInv'
<1> DEFINE w == WidthFor(curr_code, code_size)
           items == write_code(curr_code, code_size) \o ClearItems(w)
<1>1. /\ curr_code # INVALID_CODE /\ hashtab_find(curr_code, b) = INVALID_CODE
      /\ src' = Append(src, b) /\ curr_code' = b /\ status' = status
      /\ Write(items) /\ code_size' = w
      /\ table' = Insert(Kept, code_queue_next(Freed), b)
      /\ queue' = code_queue_remove_next(Freed)
  BY DEF EmitCodeAndClear, Reads, ClearItems
<1>2. TypeOK /\ Kept \in SUBSET table /\ Freed \in SUBSET Dynamic
      /\ \A e \in Kept : e.code \notin Freed
  BY DEF CInv, Kept, Freed
<1>3. /\ table' \in SUBSET TableEntry /\ queue' \in SUBSET Dynamic /\ CodesUnique'
  BY <1>1, <1>2, InsertSound
<1>4. w \in MIN_CODE_SIZE .. MAX_CODE_SIZE /\ write_code(curr_code, code_size) \in Seq(StreamItem)
  BY <1>1, <1>2, CurrFacts
<1>5. os' \in Seq(StreamItem) /\ bitpos' \in Nat
  <2>1. ClearItems(w) \in Seq(StreamItem)
    BY <1>4, ClearItemsFacts
  <2>2. items \in Seq(StreamItem)
    BY <1>4, <2>1, ConcatProperties
  <2> HIDE DEF items
  <2>. QED  BY <1>1, <1>2, <2>2, WriteType
<1>6. b \in Code /\ b # CONTROL_CODE /\ src' \in Seq(Byte)
  BY <1>1, <1>2, CodeFacts, AppendProperties DEF TypeOK
<1>7. TypeOK'
  BY <1>1, <1>2, <1>3, <1>4, <1>5, <1>6 DEF TypeOK
<1>. QED  BY <1>1, <1>3, <1>7 DEF CInv, CurrCodeInTable

LEMMA FinishInv == ASSUME CInv, Finish PROVE CInv'
<1> DEFINE items == IF curr_code = INVALID_CODE THEN <<>> ELSE write_code(curr_code, code_size)
<1>1. TypeOK
  BY DEF CInv
<1>2. CASE GiveUp
  BY <1>1, <1>2 DEF GiveUp, CInv, TypeOK, CodesUnique, CurrCodeInTable
<1>3. CASE /\ Write(items) /\ status' = "ok"
           /\ code_size' = IF curr_code = INVALID_CODE THEN code_size
                           ELSE WidthFor(curr_code, code_size)
           /\ UNCHANGED <<src, table, queue, curr_code>>
  <2>1. items \in Seq(StreamItem)
    BY <1>1, CurrFacts, EmptySeq
  <2> HIDE DEF items
  <2>2. os' \in Seq(StreamItem) /\ bitpos' \in Nat
    BY <1>1, <1>3, <2>1, WriteType
  <2>3. code_size' \in MIN_CODE_SIZE .. MAX_CODE_SIZE
    BY <1>1, <1>3, CurrFacts DEF TypeOK
  <2>4. TypeOK'
    BY <1>1, <1>3, <2>2, <2>3 DEF TypeOK
  <2>. QED  BY <1>3, <2>4 DEF CInv, CodesUnique, CurrCodeInTable
<1>. QED  BY <1>2, <1>3 DEF Finish

LEMMA CompressorInv == ASSUME CInv, Next PROVE CInv'
<1>1. TypeOK /\ src \in Seq(Byte)
  BY DEF CInv, TypeOK
<1>2. ASSUME NEW b \in Byte, FirstByte(b) PROVE CInv'
  <2>1. src' \in Seq(Byte) /\ b \in Code \ {CONTROL_CODE}
    BY <1>1, <1>2, CodeFacts, AppendProperties DEF FirstByte, Reads
  <2>. QED  BY <1>1, <1>2, <2>1 DEF FirstByte, CInv, TypeOK, CodesUnique, CurrCodeInTable
<1>3. ASSUME NEW b \in Byte, ExtendString(b) PROVE CInv'
  <2>1. src' \in Seq(Byte)
    BY <1>1, <1>3, AppendProperties DEF ExtendString, Reads
  <2>2. curr_code' \in Dynamic /\ \E e \in table : e.code = curr_code'
    BY <1>1, <1>3, FindFacts DEF ExtendString
  <2>3. curr_code' \in Code \ {CONTROL_CODE}
    BY <2>2, CodeFacts
  <2>. QED  BY <1>1, <1>3, <2>1, <2>2, <2>3
            DEF ExtendString, CInv, TypeOK, CodesUnique, CurrCodeInTable
<1>4. ASSUME NEW b \in Byte, NoRoom(b) PROVE CInv'
  BY <1>1, <1>4 DEF NoRoom, GiveUp, CInv, TypeOK, CodesUnique, CurrCodeInTable
<1>. QED  BY <1>2, <1>3, <1>4, EmitInv, EmitAndClearInv, FinishInv DEF Next

LEMMA CompressorInit == Init => CInv
<1> SUFFICES ASSUME Init PROVE CInv
  OBVIOUS
<1>1. TypeOK
  BY SizeFacts, EmptySeq DEF Init, TypeOK, code_queue_init
<1>. QED  BY <1>1 DEF Init, CInv, CodesUnique, CurrCodeInTable

\* The reader takes items away.
LEMMA TakeInv ==
    ASSUME CInv, NEW n \in 0 .. Len(os), Take(n)
    PROVE  /\ CInv' /\ os' \in Seq(StreamItem) /\ Len(os') = Len(os) - n
           /\ \A k \in 1 .. Len(os') : os'[k] = os[n + k]
<1>1. os \in Seq(StreamItem) /\ Len(os) \in Nat /\ os' = SubSeq(os, n + 1, Len(os))
  BY DEF CInv, TypeOK, Take
<1>2. /\ os' \in Seq(StreamItem) /\ Len(os') = Len(os) - n
      /\ \A k \in 1 .. Len(os') : os'[k] = os[n + k]
  BY <1>1, SubSeqProperties
<1>3. CInv'
  BY <1>2 DEF Take, CInv, TypeOK, CodesUnique, CurrCodeInTable
<1>. QED  BY <1>2, <1>3

--------------------------------------------------------------------------------
(***************************************************************************)
(* The decompressor D takes the steps of the one the proofs are about.     *)
(***************************************************************************)
LEMMA SameCodes ==
    /\ P!Byte = Byte /\ P!Dynamic = Dynamic /\ P!Code = Code
    /\ \A q : P!code_queue_next(q) = code_queue_next(q)
              /\ P!code_queue_remove_next(q) = code_queue_remove_next(q)
    /\ \A n : P!MaxOf(n) = MaxOf(n)
  BY DEF P!Byte, Byte, P!Dynamic, Dynamic, P!Code, Code, P!code_queue_next, code_queue_next,
         P!code_queue_remove_next, code_queue_remove_next, P!MaxOf, MaxOf

LEMMA SameInit == D!Init => P!Init
  BY DEF D!Init, P!Init, D!codetab_init, P!codetab_init, D!code_queue_init, P!code_queue_init,
         D!Entry, P!Entry, D!Byte, P!Byte, D!Code, P!Code, D!Dynamic, P!Dynamic

LEMMA SameControl ==
    /\ D!ReadIncCodeSize => P!ReadIncCodeSize
    /\ D!ReadPartialClear => P!ReadPartialClear
    /\ D!EndOfStream => P!EndOfStream
  BY DEF D!ReadIncCodeSize, P!ReadIncCodeSize, D!ReadPartialClear, P!ReadPartialClear,
         D!EndOfStream, P!EndOfStream, D!Return, P!Return,
         D!unshrink_partial_clear, P!unshrink_partial_clear, D!is_prefix, P!is_prefix,
         D!Valid, P!Valid, D!Code, P!Code, D!Dynamic, P!Dynamic

LEMMA SameFirstCode == ASSUME NEW c PROVE D!FirstCode(c) => P!FirstCode(c)
  BY DEF D!FirstCode, P!FirstCode, D!Return, P!Return, D!Byte, P!Byte

LEMMA SameNextCode == ASSUME NEW c PROVE D!NextCode(c) => P!NextCode(c)
  BY Zenon DEF D!NextCode, P!NextCode, D!NoRoom, P!NoRoom, D!RejectKwKwK, P!RejectKwKwK,
         D!OutputLiteral, P!OutputLiteral, D!RejectCode, P!RejectCode, D!OutputKnown, P!OutputKnown,
         D!RejectUnknown, P!RejectUnknown, D!OutputUnknown, P!OutputUnknown, D!Return, P!Return,
         D!IsKwKwK, P!IsKwKwK, D!KwKwKTab, P!KwKwKTab, D!ExtendPrev, P!ExtendPrev, D!Entry, P!Entry,
         D!Valid, P!Valid, D!Usable, P!Usable, D!Reading, P!Reading, D!Output, P!Output,
         D!AddCode, P!AddCode, D!Copy, P!Copy, D!Room, P!Room, D!dst_pos, P!dst_pos,
         D!PrefixTab, P!PrefixTab, D!IsUnknown, P!IsUnknown, D!Byte, P!Byte,
         D!code_queue_next, P!code_queue_next, D!code_queue_remove_next, P!code_queue_remove_next

--------------------------------------------------------------------------------
(***************************************************************************)
(* The inductive invariant.  The compressor is one entry ahead: it gives   *)
(* the string it writes and the byte that follows a code at once; the      *)
(* decompressor adds that entry when it has read the next code.            *)
(***************************************************************************)
\* The table tab with the entry that is about to be added: the next code of q
\* gets the string of prev and byte.
AheadOf(tab, q, prev, byte) ==
    LET new == code_queue_next(q)
        known == new = prev \/ tab[prev].prefix_code # INVALID_CODE
        len == IF known THEN tab[prev].len + 1 ELSE UNKNOWN_LEN
    IN  IF prev = INVALID_CODE \/ new = INVALID_CODE THEN tab
        ELSE [tab EXCEPT ![new] = P!Entry(prev, byte, len, tab[prev].last_dst_pos)]

Ahead == AheadOf(codetab, d_queue, prev_code, src[Len(dst) + 1])

AheadQueue == IF prev_code = INVALID_CODE THEN d_queue ELSE code_queue_remove_next(d_queue)

\* The valid codes of a table in the form of the compressor's entries.
Ent(prefix, byte, c) == [prefix_code |-> prefix, ext_byte |-> byte, code |-> c]

EntriesOf(tab) == {Ent(tab[c].prefix_code, tab[c].ext_byte, c) :
                      c \in {d \in Dynamic : tab[d].prefix_code # INVALID_CODE}}

LiveIn(tab) == {c \in Dynamic : tab[c].prefix_code # INVALID_CODE /\ tab[c].prefix_code # c}

KnownIn(tab) == {c \in LiveIn(tab) : tab[c].len # UNKNOWN_LEN}

\* The input goes on, behind the output, with the string of c, of len bytes.
Repeats(tab, c, len) ==
    /\ tab[c].len = len
    /\ \A i \in 1 .. len : src[Len(dst) + i] = src[tab[c].last_dst_pos + i]

\* Code c stands for the bytes of src from the end of dst up to n.
StandsFor(tab, c, n) ==
    \/ c \in Byte /\ n = Len(dst) + 1 /\ src[n] = c
    \/ c \in KnownIn(tab) /\ Repeats(tab, c, n - Len(dst))
    \/ /\ c \in LiveIn(tab) \ KnownIn(tab)
       /\ tab[c].prefix_code \in KnownIn(tab)
       /\ Repeats(tab, tab[c].prefix_code, n - Len(dst) - 1)
       /\ src[n] = tab[c].ext_byte

Holds(c, n) == n \in Nat /\ Len(dst) < n /\ n <= Len(src) /\ StandsFor(Ahead, c, n)

\* A partial clearing, as the compressor does it.
PrefixesOf(entries) == {e.prefix_code : e \in entries}
KeptOf(entries) == {e \in entries : e.code \in PrefixesOf(entries)}
FreedOf(entries) == Dynamic \ PrefixesOf(entries)
With(entries, c, b, new) ==
    entries \cup (IF new = INVALID_CODE THEN {} ELSE {Ent(c, b, new)})

Cleared(entries, c) ==
    /\ table = With(KeptOf(entries), c, src[Len(src)], code_queue_next(FreedOf(entries)))
    /\ queue = code_queue_remove_next(FreedOf(entries))

\* Everything written was read: the tables differ by the entry ahead, and
\* curr_code stands for the input that was not written yet.
Idle ==
    /\ os = <<>> /\ status = "writing" /\ d_code_size = code_size
    /\ table = EntriesOf(Ahead) /\ queue = AheadQueue
    /\ curr_code = INVALID_CODE => src = <<>> /\ prev_code = INVALID_CODE
    /\ curr_code # INVALID_CODE => Holds(curr_code, Len(src))

\* What is in the stream: m control codes that widen the codes to the width of
\* c, then c, and perhaps a partial clearing.
Written(m, c, clear) ==
    /\ d_code_size + m = code_size
    /\ Len(os) = 2 * m + 1 + (IF clear THEN 2 ELSE 0)
    /\ \A k \in 1 .. 2 * m :
          os[k] = Item(IF k % 2 = 1 THEN CONTROL_CODE ELSE INC_CODE_SIZE,
                       d_code_size + (k - 1) \div 2)
    /\ os[2 * m + 1] = Item(c, code_size)
    /\ clear => /\ os[2 * m + 2] = Item(CONTROL_CODE, code_size)
                /\ os[2 * m + 3] = Item(PARTIAL_CLEAR, code_size)
    /\ c <= MaxOf(code_size)

\* Code c and perhaps a partial clearing were not read yet: the compressor has
\* moved on to the next byte, or c is the last code.
Outstanding(c, clear) ==
    \/ status = "ok" /\ ~clear /\ Holds(c, Len(src))
    \/ /\ status = "writing" /\ Holds(c, Len(src) - 1) /\ curr_code = src[Len(src)]
       /\ ~clear =>
             /\ AheadQueue # {}
             /\ table = With(EntriesOf(Ahead), c, curr_code, code_queue_next(AheadQueue))
             /\ queue = code_queue_remove_next(AheadQueue)
       /\ clear => Cleared(EntriesOf(Ahead), c)

Coded == \E m \in 0 .. MAX_CODE_SIZE, c \in Byte \cup Dynamic, clear \in BOOLEAN :
            Written(m, c, clear) /\ Outstanding(c, clear)

\* Only the partial clearing was not read yet.
Clearing ==
    /\ Len(os) = 2 /\ os[1] = Item(CONTROL_CODE, d_code_size)
    /\ os[2] = Item(PARTIAL_CLEAR, d_code_size)
    /\ status = "writing" /\ d_code_size = code_size
    /\ prev_code # INVALID_CODE
    /\ Len(src) = Len(dst) + 1 /\ curr_code = src[Len(src)]
    /\ Cleared(EntriesOf(codetab), prev_code)

Finished == os = <<>> /\ status = "ok" /\ dst = src

\* The output is the beginning of the input.
Begins == Len(dst) <= Len(src) /\ \A i \in 1 .. Len(dst) : dst[i] = src[i]

RTInv ==
    /\ CInv /\ P!SInv /\ Begins /\ Len(src) <= SRC_MAX
    /\ d_status \in {"reading", "ok"}
    /\ d_status = "ok" => Finished
    /\ status = "full" => os = <<>>
    /\ d_status = "reading" /\ status # "full" => Idle \/ Coded \/ Clearing \/ Finished

--------------------------------------------------------------------------------
(***************************************************************************)
(* The table ahead.                                                        *)
(***************************************************************************)
\* Known strings lie in the input up to the byte behind the output, each its
\* prefix's and one more byte; a pending one waits for an invalid or known code.
GoodTable(tab) ==
    /\ tab \in [Code -> P!CodeEntry]
    /\ \A c \in Byte : /\ tab[c].prefix_code = c /\ tab[c].len = 1
                       /\ tab[c].last_dst_pos < Len(dst) => src[tab[c].last_dst_pos + 1] = c
    /\ \A c \in KnownIn(tab) :
          LET e == tab[c]
              p == tab[e.prefix_code]
          IN  /\ e.prefix_code \in Byte \cup KnownIn(tab)
              /\ e.prefix_code \in Byte => p.last_dst_pos < Len(dst)
              /\ p.len \in Nat \ {0} /\ e.len = p.len + 1 /\ e.last_dst_pos \in Nat
              /\ e.last_dst_pos + e.len <= Len(dst) + 1
              /\ \A i \in 1 .. p.len : src[e.last_dst_pos + i] = src[p.last_dst_pos + i]
              /\ src[e.last_dst_pos + e.len] = e.ext_byte
    /\ \A c \in LiveIn(tab) \ KnownIn(tab) :
          /\ tab[c].prefix_code \in Dynamic
          /\ tab[tab[c].prefix_code].prefix_code # INVALID_CODE
                => tab[c].prefix_code \in KnownIn(tab)

LEMMA EntryFields ==
    ASSUME NEW p, NEW b, NEW l, NEW q
    PROVE  /\ P!Entry(p, b, l, q).prefix_code = p
           /\ P!Entry(p, b, l, q).ext_byte = b
           /\ P!Entry(p, b, l, q).len = l
           /\ P!Entry(p, b, l, q).last_dst_pos = q
  BY DEF P!Entry

\* What is known about the decompressor, in the names of this module.
LEMMA DFacts ==
    ASSUME P!SInv
    PROVE  /\ codetab \in [Code -> P!CodeEntry] /\ d_queue \in SUBSET Dynamic
           /\ first_byte \in Byte /\ dst \in Seq(Byte) /\ Len(dst) \in Nat /\ Len(dst) <= DST_CAP
           /\ prev_code # INVALID_CODE => prev_code \in Byte \cup Dynamic
           /\ \A c \in d_queue : codetab[c].prefix_code = INVALID_CODE
           /\ P!Live = LiveIn(codetab) /\ P!Known = KnownIn(codetab)
           /\ P!Pending = LiveIn(codetab) \ KnownIn(codetab)
           /\ \A c \in Code : /\ codetab[c].prefix_code \in Code \cup {INVALID_CODE}
                              /\ codetab[c].ext_byte \in Byte
                              /\ codetab[c].len \in Nat \cup {UNKNOWN_LEN}
                              /\ codetab[c].last_dst_pos \in Nat
<1>1. /\ codetab \in [Code -> P!CodeEntry] /\ d_queue \in SUBSET Dynamic
      /\ first_byte \in Byte /\ dst \in Seq(Byte) /\ Len(dst) <= DST_CAP
      /\ prev_code \in (Code \ {CONTROL_CODE}) \cup {INVALID_CODE}
      /\ \A c \in d_queue : codetab[c].prefix_code = INVALID_CODE
  BY SameCodes DEF P!SInv, P!IInv, P!TypeOK, P!FreeCodesUnused, P!Valid, P!dst_pos
<1>2. P!Live = LiveIn(codetab)
  BY SameCodes DEF P!Live, P!Valid, P!SelfRef, LiveIn
<1>3. P!Known = KnownIn(codetab) /\ P!Pending = LiveIn(codetab) \ KnownIn(codetab)
  BY <1>2 DEF P!Known, P!Pending, KnownIn
<1>4. \A c \in Code : /\ codetab[c].prefix_code \in Code \cup {INVALID_CODE}
                      /\ codetab[c].ext_byte \in Byte
                      /\ codetab[c].len \in Nat \cup {UNKNOWN_LEN}
                      /\ codetab[c].last_dst_pos \in Nat
  <2>1. \A c \in Code : codetab[c] \in P!CodeEntry
    BY <1>1
  <2>. QED  BY <2>1, SameCodes DEF P!CodeEntry
<1>. QED  BY <1>1, <1>2, <1>3, <1>4, CodeFacts, LenProperties

\* The string of the code before is the end of the output.
LEMMA PrevFacts ==
    ASSUME P!SInv, prev_code # INVALID_CODE
    PROVE  /\ prev_code \in Code /\ prev_code \in Byte \cup Dynamic
           /\ codetab[prev_code].len \in Nat \ {0} /\ codetab[prev_code].last_dst_pos \in Nat
           /\ codetab[prev_code].last_dst_pos + codetab[prev_code].len = Len(dst)
           /\ dst[codetab[prev_code].last_dst_pos + 1] = first_byte
           /\ codetab[prev_code].prefix_code = INVALID_CODE => P!Pending = {}
           /\ codetab[prev_code].prefix_code # INVALID_CODE =>
                 prev_code \in Byte \cup KnownIn(codetab)
<1>1. /\ prev_code \in Byte \cup Dynamic /\ prev_code \in Code
      /\ codetab[prev_code].last_dst_pos \in Nat
  BY DFacts, CodeFacts
<1>2. /\ codetab[prev_code].len \in Nat \ {0}
      /\ codetab[prev_code].last_dst_pos + codetab[prev_code].len = Len(dst)
      /\ dst[codetab[prev_code].last_dst_pos + 1] = first_byte
      /\ prev_code \in Dynamic => codetab[prev_code].prefix_code # prev_code
      /\ codetab[prev_code].prefix_code = INVALID_CODE => P!Pending = {}
  BY SameCodes DEF P!SInv, P!IInv, P!PrevInv, P!SelfRef, P!AtMostOnePending, P!Valid, P!dst_pos
<1>3. codetab[prev_code].prefix_code # INVALID_CODE => prev_code \in Byte \cup KnownIn(codetab)
  BY <1>1, <1>2, RoundTripAssumption DEF LiveIn, KnownIn
<1>. QED  BY <1>1, <1>2, <1>3

\* The next code to be added is free, if there is one.
LEMMA AddedFacts ==
    ASSUME P!SInv
    PROVE  LET new == code_queue_next(d_queue)
           IN  /\ new = INVALID_CODE <=> d_queue = {}
               /\ new # INVALID_CODE =>
                     /\ new \in d_queue /\ new \in Dynamic /\ new \in Code
                     /\ codetab[new].prefix_code = INVALID_CODE
  BY DFacts, QueueNext, CodeFacts

LEMMA GoodNow == ASSUME P!SInv, Begins PROVE GoodTable(codetab)
<1>1. /\ codetab \in [Code -> P!CodeEntry] /\ Len(dst) \in Nat
      /\ P!Live = LiveIn(codetab) /\ P!Known = KnownIn(codetab)
      /\ P!Pending = LiveIn(codetab) \ KnownIn(codetab)
  BY DFacts
<1>2. /\ \A c \in Byte : codetab[c].prefix_code = c /\ codetab[c].len = 1
      /\ \A c \in KnownIn(codetab) :
            /\ codetab[c].prefix_code \in Byte \cup KnownIn(codetab)
            /\ codetab[c].len = codetab[codetab[c].prefix_code].len + 1
            /\ codetab[c].last_dst_pos + codetab[c].len <= Len(dst)
      /\ \A c \in LiveIn(codetab) \ KnownIn(codetab) :
            /\ codetab[c].prefix_code \in Dynamic
            /\ codetab[codetab[c].prefix_code].prefix_code # INVALID_CODE
                  => codetab[c].prefix_code \in KnownIn(codetab)
  BY <1>1, SameCodes DEF P!SInv, P!IInv, P!TableInv, P!Valid, P!dst_pos
<1>3. \A c \in KnownIn(codetab) :
         LET e == codetab[c]
             p == codetab[e.prefix_code]
         IN  /\ p.last_dst_pos < Len(dst)
             /\ \A i \in 1 .. p.len : dst[e.last_dst_pos + i] = dst[p.last_dst_pos + i]
             /\ dst[e.last_dst_pos + e.len] = e.ext_byte
  BY <1>1 DEF P!SInv, P!StringInv, P!EntryInDst
<1>4. ASSUME NEW c \in Byte, codetab[c].last_dst_pos < Len(dst)
      PROVE  src[codetab[c].last_dst_pos + 1] = c
  <2>1. codetab[c].last_dst_pos \in Nat
    BY DFacts, CodeFacts
  <2>2. dst[codetab[c].last_dst_pos + 1] = c
    BY <1>4, <2>1, DFacts, SameCodes DEF P!SInv, P!LiteralsInv
  <2>. QED  BY <2>1, <2>2, <1>1, <1>4 DEF Begins
<1>5. ASSUME NEW c \in KnownIn(codetab)
      PROVE  LET e == codetab[c]
                 p == codetab[e.prefix_code]
             IN  /\ p.len \in Nat \ {0} /\ e.last_dst_pos \in Nat
                 /\ \A i \in 1 .. p.len : src[e.last_dst_pos + i] = src[p.last_dst_pos + i]
                 /\ src[e.last_dst_pos + e.len] = e.ext_byte
  <2> DEFINE e == codetab[c]
             p == codetab[e.prefix_code]
  <2>1. /\ c \in Code /\ e.prefix_code \in Byte \cup KnownIn(codetab) /\ e.prefix_code \in Code
    BY <1>2, CodeFacts DEF KnownIn, LiveIn
  <2>2. /\ e.len \in Nat /\ e.last_dst_pos \in Nat /\ p.last_dst_pos \in Nat /\ p.len \in Nat \ {0}
    <3>1. \A d \in KnownIn(codetab) : codetab[d].len \in Nat /\ codetab[d].last_dst_pos \in Nat
      BY DFacts, CodeFacts DEF KnownIn, LiveIn
    <3>2. \A d \in KnownIn(codetab) : codetab[d].len # 0
      <4> SUFFICES ASSUME NEW d \in KnownIn(codetab), codetab[d].len = 0 PROVE FALSE
        OBVIOUS
      <4>1. codetab[d].prefix_code \in Byte \cup KnownIn(codetab)
            /\ codetab[d].len = codetab[codetab[d].prefix_code].len + 1
        BY <1>2
      <4>2. codetab[codetab[d].prefix_code].len \in Nat
        BY <4>1, <1>2, <3>1
      <4>. QED  BY <4>1, <4>2
    <3>. QED  BY <2>1, <3>1, <3>2, <1>2, DFacts
  <2>3. p.last_dst_pos + p.len <= Len(dst) /\ e.last_dst_pos + e.len <= Len(dst)
        /\ e.len = p.len + 1
    BY <2>1, <2>2, <1>1, <1>2, <1>3
  <2>4. /\ \A i \in 1 .. p.len : dst[e.last_dst_pos + i] = dst[p.last_dst_pos + i]
        /\ dst[e.last_dst_pos + e.len] = e.ext_byte
    BY <1>3
  <2> HIDE DEF e, p
  <2>5. ASSUME NEW i \in 1 .. p.len PROVE src[e.last_dst_pos + i] = src[p.last_dst_pos + i]
    <3> DEFINE x == e.last_dst_pos
               y == p.last_dst_pos
               n == p.len
    <3>0. /\ Len(dst) \in Nat /\ x \in Nat /\ y \in Nat /\ n \in Nat /\ i \in 1 .. n
          /\ y + n <= Len(dst) /\ x + (n + 1) <= Len(dst)
      BY <1>1, <2>2, <2>3
    <3> HIDE DEF x, y, n
    <3>1. x + i \in 1 .. Len(dst) /\ y + i \in 1 .. Len(dst)
      BY <3>0
    <3>2. dst[e.last_dst_pos + i] = dst[p.last_dst_pos + i]
      BY <2>4
    <3>. QED  BY <3>1, <3>2 DEF Begins, x, y
  <2>6. src[e.last_dst_pos + e.len] = e.ext_byte
    BY <1>1, <2>2, <2>3, <2>4 DEF Begins
  <2>. QED  BY <2>2, <2>5, <2>6 DEF e, p
<1>6. \A c \in KnownIn(codetab) : codetab[c].last_dst_pos + codetab[c].len <= Len(dst) + 1
  <2>1. \A c \in KnownIn(codetab) : codetab[c].last_dst_pos \in Nat /\ codetab[c].len \in Nat
    BY DFacts, CodeFacts DEF KnownIn, LiveIn
  <2>. QED  BY <1>1, <1>2, <2>1
<1>. QED  BY <1>1, <1>2, <1>3, <1>4, <1>5, <1>6 DEF GoodTable

\* The table ahead is the decompressor's but for the entry that is to be added.
LEMMA AheadFacts ==
    ASSUME P!SInv, src \in Seq(Byte), Len(dst) < Len(src)
    PROVE  LET new == code_queue_next(d_queue)
               adds == prev_code # INVALID_CODE /\ new # INVALID_CODE
               valid == codetab[prev_code].prefix_code # INVALID_CODE
           IN  /\ Ahead \in [Code -> P!CodeEntry]
               /\ \A c \in Code : c # new \/ ~adds => Ahead[c] = codetab[c]
               /\ adds => /\ Ahead[new].prefix_code = prev_code
                          /\ Ahead[new].ext_byte = src[Len(dst) + 1]
                          /\ Ahead[new].last_dst_pos = codetab[prev_code].last_dst_pos
                          /\ Ahead[new].len = IF new = prev_code \/ valid
                                              THEN codetab[prev_code].len + 1 ELSE UNKNOWN_LEN
<1> DEFINE new == code_queue_next(d_queue)
           valid == codetab[prev_code].prefix_code # INVALID_CODE
           len == IF new = prev_code \/ valid THEN codetab[prev_code].len + 1 ELSE UNKNOWN_LEN
           entry == P!Entry(prev_code, src[Len(dst) + 1], len, codetab[prev_code].last_dst_pos)
<1>1. codetab \in [Code -> P!CodeEntry] /\ src[Len(dst) + 1] \in Byte
  <2>1. Len(dst) \in Nat /\ Len(src) \in Nat /\ Len(dst) + 1 \in 1 .. Len(src)
    BY DFacts, LenProperties
  <2>. QED  BY <2>1, DFacts, ElementOfSeq
<1>2. CASE prev_code = INVALID_CODE \/ new = INVALID_CODE
  BY <1>1, <1>2 DEF Ahead, AheadOf
<1>3. CASE prev_code # INVALID_CODE /\ new # INVALID_CODE
  <2>1. new \in Code /\ new \in Dynamic
    BY <1>3, AddedFacts
  <2>2. entry \in P!CodeEntry
    <3>1. prev_code \in Code /\ codetab[prev_code].last_dst_pos \in Nat
          /\ codetab[prev_code].len + 1 \in Nat
      BY <1>3, PrevFacts
    <3>2. len \in Nat \cup {UNKNOWN_LEN}
      BY <3>1
    <3> HIDE DEF len
    <3>. QED  BY <1>1, <3>1, <3>2, SameCodes DEF P!Entry, P!CodeEntry
  <2>3. Ahead = [codetab EXCEPT ![new] = entry]
    BY <1>3 DEF Ahead, AheadOf
  <2>4. /\ entry.prefix_code = prev_code /\ entry.ext_byte = src[Len(dst) + 1]
        /\ entry.last_dst_pos = codetab[prev_code].last_dst_pos /\ entry.len = len
    BY EntryFields
  <2> HIDE DEF entry, len, new
  <2>5. /\ Ahead \in [Code -> P!CodeEntry] /\ Ahead[new] = entry
        /\ \A c \in Code : c # new => Ahead[c] = codetab[c]
    BY <1>1, <2>1, <2>2, <2>3
  <2>. QED  BY <1>3, <2>4, <2>5 DEF len, new
<1>. QED  BY <1>2, <1>3

LEMMA AheadGood ==
    ASSUME P!SInv, Begins, src \in Seq(Byte), Len(dst) < Len(src)
    PROVE  GoodTable(Ahead)
<1> DEFINE new == code_queue_next(d_queue)
           T == Ahead
           valid == codetab[prev_code].prefix_code # INVALID_CODE
<1>1. GoodTable(codetab)
  BY GoodNow
<1>2. CASE prev_code = INVALID_CODE \/ new = INVALID_CODE
  BY <1>1, <1>2 DEF Ahead, AheadOf
<1>3. CASE prev_code # INVALID_CODE /\ new # INVALID_CODE
  <2>1. /\ T \in [Code -> P!CodeEntry]
        /\ \A c \in Code \ {new} : T[c] = codetab[c]
        /\ T[new].prefix_code = prev_code /\ T[new].ext_byte = src[Len(dst) + 1]
        /\ T[new].last_dst_pos = codetab[prev_code].last_dst_pos
        /\ T[new].len = IF new = prev_code \/ valid
                        THEN codetab[prev_code].len + 1 ELSE UNKNOWN_LEN
    BY <1>3, AheadFacts
  <2>2. new \in Dynamic /\ new \in Code /\ codetab[new].prefix_code = INVALID_CODE
    BY <1>3, AddedFacts
  <2>3. /\ prev_code \in Code /\ prev_code \in Byte \cup Dynamic /\ Len(dst) \in Nat
        /\ codetab[prev_code].len \in Nat \ {0} /\ codetab[prev_code].last_dst_pos \in Nat
        /\ codetab[prev_code].last_dst_pos + codetab[prev_code].len = Len(dst)
        /\ valid => prev_code \in Byte \cup KnownIn(codetab)
        /\ ~valid => LiveIn(codetab) \ KnownIn(codetab) = {}
    BY <1>3, PrevFacts, DFacts
  <2> HIDE DEF T, new
  <2>4. /\ LiveIn(T) \ {new} = LiveIn(codetab) /\ KnownIn(T) \ {new} = KnownIn(codetab)
        /\ new \notin LiveIn(codetab)
    BY <2>1, <2>2, CodeFacts DEF LiveIn, KnownIn
  <2>5. new \in KnownIn(T) <=> valid /\ new # prev_code
    BY <2>1, <2>2, <2>3, CodeFacts, RoundTripAssumption, SMTT(30) DEF LiveIn, KnownIn
  <2>6. ASSUME NEW c \in Byte
        PROVE  /\ T[c].prefix_code = c /\ T[c].len = 1
               /\ T[c].last_dst_pos < Len(dst) => src[T[c].last_dst_pos + 1] = c
    BY <1>1, <2>1, <2>2, CodeFacts DEF GoodTable
  <2>7. ASSUME NEW c \in KnownIn(T)
        PROVE  LET e == T[c]
                   p == T[e.prefix_code]
               IN  /\ e.prefix_code \in Byte \cup KnownIn(T)
                   /\ e.prefix_code \in Byte => p.last_dst_pos < Len(dst)
                   /\ p.len \in Nat \ {0} /\ e.len = p.len + 1 /\ e.last_dst_pos \in Nat
                   /\ e.last_dst_pos + e.len <= Len(dst) + 1
                   /\ \A i \in 1 .. p.len : src[e.last_dst_pos + i] = src[p.last_dst_pos + i]
                   /\ src[e.last_dst_pos + e.len] = e.ext_byte
    <3>1. CASE c # new
      <4>1. c \in KnownIn(codetab) /\ c \in Code
        BY <3>1, <2>4, CodeFacts DEF KnownIn, LiveIn
      <4>2. T[c] = codetab[c] /\ codetab[c].prefix_code \in Byte \cup KnownIn(codetab)
        BY <3>1, <4>1, <2>1, <1>1 DEF GoodTable
      <4>3. codetab[c].prefix_code # new /\ codetab[c].prefix_code \in Code
        BY <4>2, <2>2, <2>4, CodeFacts DEF KnownIn, LiveIn
      <4>4. T[T[c].prefix_code] = codetab[codetab[c].prefix_code]
        BY <4>2, <4>3, <2>1
      <4> DEFINE e == codetab[c]
                 p == codetab[e.prefix_code]
      <4>5. /\ e.prefix_code \in Byte => p.last_dst_pos < Len(dst)
            /\ p.len \in Nat \ {0} /\ e.len = p.len + 1 /\ e.last_dst_pos \in Nat
            /\ e.last_dst_pos + e.len <= Len(dst) + 1
            /\ \A i \in 1 .. p.len : src[e.last_dst_pos + i] = src[p.last_dst_pos + i]
            /\ src[e.last_dst_pos + e.len] = e.ext_byte
        BY <1>1, <4>1 DEF GoodTable
      <4>6. T[c] = e /\ T[T[c].prefix_code] = p
        BY <4>2, <4>4
      <4>7. e.prefix_code \in Byte \cup KnownIn(T)
        BY <4>2, <2>4
      <4> HIDE DEF e, p
      <4>. QED  BY <4>5, <4>6, <4>7
    <3>2. CASE c = new
      <4>1. valid /\ new # prev_code /\ prev_code \in Byte \cup KnownIn(T)
        BY <3>2, <2>3, <2>4, <2>5
      <4>2. T[prev_code] = codetab[prev_code] /\ T[c].prefix_code = prev_code
            /\ T[c].len = codetab[prev_code].len + 1
            /\ T[c].last_dst_pos = codetab[prev_code].last_dst_pos
            /\ T[c].ext_byte = src[Len(dst) + 1]
        BY <3>2, <4>1, <2>1, <2>3
      <4>3. codetab[prev_code].last_dst_pos < Len(dst)
            /\ T[c].last_dst_pos + T[c].len = Len(dst) + 1
        BY <4>2, <2>3
      <4>. QED  BY <4>1, <4>2, <4>3, <2>3
    <3>. QED  BY <3>1, <3>2
  <2>8. ASSUME NEW c \in LiveIn(T) \ KnownIn(T)
        PROVE  /\ T[c].prefix_code \in Dynamic
               /\ T[T[c].prefix_code].prefix_code # INVALID_CODE
                     => T[c].prefix_code \in KnownIn(T)
    <3>1. CASE c = new
      <4>1. T[c].prefix_code = prev_code /\ prev_code # new /\ T[prev_code] = codetab[prev_code]
        BY <3>1, <2>1, <2>3 DEF LiveIn
      <4>2. ~valid
        BY <3>1, <4>1, <2>5
      <4>3. \A b \in Byte : codetab[b].prefix_code # INVALID_CODE
        <5>1. \A b \in Byte : codetab[b].prefix_code = b /\ b # INVALID_CODE
          BY <1>1, CodeFacts DEF GoodTable
        <5>. QED  BY <5>1
      <4>4. prev_code \notin Byte
        BY <4>2, <4>3
      <4>. QED  BY <4>1, <4>2, <4>4, <2>3
    <3>2. CASE c # new
      <4>1. c \in LiveIn(codetab) \ KnownIn(codetab) /\ T[c] = codetab[c]
        BY <3>2, <2>1, <2>4, CodeFacts DEF LiveIn
      <4>2. valid /\ new # prev_code
        BY <4>1, <2>2, <2>3
      <4>3. /\ codetab[c].prefix_code \in Dynamic
            /\ codetab[codetab[c].prefix_code].prefix_code # INVALID_CODE
                  => codetab[c].prefix_code \in KnownIn(codetab)
        BY <4>1, <1>1 DEF GoodTable
      <4>. QED  BY <4>1, <4>2, <4>3, <2>1, <2>4, <2>5, CodeFacts
    <3>. QED  BY <3>1, <3>2
  <2>9. GoodTable(T)
    BY <2>1, <2>6, <2>7, <2>8 DEF GoodTable
  <2>. QED  BY <2>9 DEF T
<1>. QED  BY <1>2, <1>3

\* The entry ahead is one more entry of the compressor's table.
LEMMA AddedEntry ==
    ASSUME NEW tab, NEW q, NEW prev \in Code, NEW byte,
           tab \in [Code -> P!CodeEntry], q \subseteq Dynamic,
           \A c \in q : tab[c].prefix_code = INVALID_CODE
    PROVE  EntriesOf(AheadOf(tab, q, prev, byte))
              = With(EntriesOf(tab), prev, byte, code_queue_next(q))
<1> DEFINE new == code_queue_next(q)
           next == AheadOf(tab, q, prev, byte)
<1>1. prev # INVALID_CODE
  BY CodeFacts
<1>2. CASE new = INVALID_CODE
  BY <1>2 DEF AheadOf, With
<1>3. CASE new # INVALID_CODE
  <2>1. new \in q /\ new \in Dynamic /\ new \in Code /\ tab[new].prefix_code = INVALID_CODE
    BY <1>3, QueueNext, CodeFacts
  <2>2. \E len, pos : next = [tab EXCEPT ![new] = P!Entry(prev, byte, len, pos)]
    BY <1>1, <1>3 DEF AheadOf
  <2>3. /\ next[new].prefix_code = prev /\ next[new].ext_byte = byte
        /\ \A c \in Code : c # new => next[c] = tab[c]
    <3>1. PICK len, pos : next = [tab EXCEPT ![new] = P!Entry(prev, byte, len, pos)]
      BY <2>2
    <3> HIDE DEF next, new
    <3>2. next[new] = P!Entry(prev, byte, len, pos) /\ \A c \in Code : c # new => next[c] = tab[c]
      BY <2>1, <3>1
    <3>. QED  BY <3>2, EntryFields
  <2> HIDE DEF next, new
  <2>4. ASSUME NEW e PROVE e \in EntriesOf(next) <=> e \in EntriesOf(tab) \cup {Ent(prev, byte, new)}
    <3>1. ASSUME e \in EntriesOf(next) PROVE e \in EntriesOf(tab) \cup {Ent(prev, byte, new)}
      <4>1. PICK c \in Dynamic : /\ next[c].prefix_code # INVALID_CODE
                                 /\ e = Ent(next[c].prefix_code, next[c].ext_byte, c)
        BY <3>1 DEF EntriesOf
      <4>2. c \in Code
        BY CodeFacts
      <4>3. CASE c = new
        BY <4>1, <4>3, <2>3
      <4>4. CASE c # new
        BY <4>1, <4>2, <4>4, <2>3 DEF EntriesOf
      <4>. QED  BY <4>3, <4>4
    <3>2. ASSUME e \in EntriesOf(tab) PROVE e \in EntriesOf(next)
      <4>1. PICK c \in Dynamic : /\ tab[c].prefix_code # INVALID_CODE
                                 /\ e = Ent(tab[c].prefix_code, tab[c].ext_byte, c)
        BY <3>2 DEF EntriesOf
      <4>2. c \in Code /\ c # new
        BY <4>1, <2>1, CodeFacts
      <4>3. next[c] = tab[c]
        BY <4>2, <2>3
      <4>. QED  BY <4>1, <4>3 DEF EntriesOf
    <3>3. Ent(prev, byte, new) \in EntriesOf(next)
      <4>1. next[new].prefix_code # INVALID_CODE
        BY <1>1, <2>3
      <4>2. Ent(next[new].prefix_code, next[new].ext_byte, new) \in EntriesOf(next)
        BY <2>1, <4>1 DEF EntriesOf
      <4>. QED  BY <4>2, <2>3
    <3>. QED  BY <3>1, <3>2, <3>3
  <2>5. EntriesOf(next) = EntriesOf(tab) \cup {Ent(prev, byte, new)}
    BY <2>4
  <2>. QED  BY <1>3, <2>5 DEF With, next, new
<1>. QED  BY <1>2, <1>3

--------------------------------------------------------------------------------
(***************************************************************************)
(* What the compressor's steps keep and make.                              *)
(***************************************************************************)
\* The compressor reads byte b.
ReadsByte(b) == src' = Append(src, b) /\ UNCHANGED dvars

LEMMA ReadsFacts ==
    ASSUME P!SInv, src \in Seq(Byte), NEW b \in Byte, ReadsByte(b)
    PROVE  /\ dst' = dst /\ Len(dst) \in Nat /\ Len(src) \in Nat
           /\ src' \in Seq(Byte) /\ Len(src') = Len(src) + 1
           /\ \A i \in 1 .. Len(src) : src'[i] = src[i]
           /\ src'[Len(src) + 1] = b
           /\ Begins => Begins'
           /\ AheadQueue' = AheadQueue
           /\ Len(dst) < Len(src) => Ahead' = Ahead
<1>1. /\ dst' = dst /\ Len(dst) \in Nat /\ Len(src) \in Nat
      /\ UNCHANGED <<codetab, d_queue, prev_code>>
  BY DFacts, LenProperties DEF ReadsByte, dvars
<1>2. /\ src' \in Seq(Byte) /\ Len(src') = Len(src) + 1
      /\ \A i \in 1 .. Len(src) : src'[i] = src[i]
      /\ src'[Len(src) + 1] = b
  BY AppendProperties DEF ReadsByte
<1>3. Begins => Begins'
  BY <1>1, <1>2 DEF Begins
<1>4. AheadQueue' = AheadQueue
  BY <1>1 DEF AheadQueue
<1>5. ASSUME Len(dst) < Len(src) PROVE Ahead' = Ahead
  <2>1. src'[Len(dst') + 1] = src[Len(dst) + 1]
    <3>1. Len(dst) + 1 \in 1 .. Len(src)
      BY <1>1, <1>5
    <3>. QED  BY <1>1, <1>2, <3>1
  <2>. QED  BY <1>1, <2>1 DEF Ahead
<1>. QED  BY <1>1, <1>2, <1>3, <1>4, <1>5

\* A string that repeats what was there before still does with more input.
LEMMA RepeatsStays ==
    ASSUME P!SInv, src \in Seq(Byte), NEW b \in Byte, ReadsByte(b), Len(dst) < Len(src),
           NEW tab, GoodTable(tab), NEW c \in KnownIn(tab), NEW len,
           Repeats(tab, c, len), Len(dst) + len <= Len(src)
    PROVE  \A i \in 1 .. len : src'[Len(dst) + i] = src'[tab[c].last_dst_pos + i]
<1> DEFINE pos == tab[c].last_dst_pos
<1>1. /\ tab[c].len = len /\ len \in Nat /\ pos \in Nat /\ pos + len <= Len(dst) + 1
  BY DEF GoodTable, Repeats
<1>2. /\ Len(dst) \in Nat /\ Len(src) \in Nat /\ \A i \in 1 .. Len(src) : src'[i] = src[i]
  BY ReadsFacts
<1>3. \A i \in 1 .. len : src[Len(dst) + i] = src[pos + i]
  BY DEF Repeats
<1> HIDE DEF pos
<1>4. \A i \in 1 .. len : Len(dst) + i \in 1 .. Len(src) /\ pos + i \in 1 .. Len(src)
  BY <1>1, <1>2
<1>. QED  BY <1>2, <1>3, <1>4 DEF pos

LEMMA HoldsStays ==
    ASSUME P!SInv, Begins, src \in Seq(Byte), NEW b \in Byte, ReadsByte(b),
           NEW c, NEW n, Holds(c, n)
    PROVE  /\ n \in Nat /\ Len(dst) < n /\ n <= Len(src) /\ n <= Len(src')
           /\ StandsFor(Ahead, c, n)'
<1>1. /\ n \in Nat /\ Len(dst) < n /\ n <= Len(src) /\ StandsFor(Ahead, c, n)
      /\ Len(dst) \in Nat /\ Len(src) \in Nat /\ Len(src') = Len(src) + 1
      /\ \A i \in 1 .. Len(src) : src'[i] = src[i]
      /\ dst' = dst
  BY ReadsFacts DEF Holds
<1>2. Len(dst) < Len(src)
  BY <1>1
<1>3. Ahead' = Ahead
  BY <1>2, ReadsFacts
<1>4. GoodTable(Ahead)
  BY <1>2, AheadGood
<1> DEFINE T == Ahead
<1>5. src'[n] = src[n] /\ n <= Len(src')
  BY <1>1
<1>6. CASE c \in Byte /\ n = Len(dst) + 1 /\ src[n] = c
  BY <1>1, <1>5, <1>6 DEF StandsFor
<1>7. CASE c \in KnownIn(T) /\ Repeats(T, c, n - Len(dst))
  <2>1. \A i \in 1 .. n - Len(dst) : src'[Len(dst) + i] = src'[T[c].last_dst_pos + i]
    <3>1. PICK m \in Nat : m = n - Len(dst) /\ Len(dst) + m <= Len(src)
      BY <1>1
    <3> HIDE DEF T
    <3>2. Repeats(T, c, m) /\ GoodTable(T) /\ c \in KnownIn(T)
      BY <1>4, <1>7, <3>1 DEF T
    <3>. QED  BY <1>2, <3>1, <3>2, RepeatsStays
  <2>2. c \in KnownIn(T)' /\ Repeats(T, c, n - Len(dst))'
    BY <2>1, <1>1, <1>3, <1>7 DEF KnownIn, LiveIn, Repeats
  <2>. QED  BY <1>1, <1>5, <2>2 DEF StandsFor
<1>8. CASE /\ c \in LiveIn(T) \ KnownIn(T)
           /\ T[c].prefix_code \in KnownIn(T)
           /\ Repeats(T, T[c].prefix_code, n - Len(dst) - 1)
           /\ src[n] = T[c].ext_byte
  <2> DEFINE p == T[c].prefix_code
             m == n - Len(dst) - 1
  <2>1. Len(dst) + m <= Len(src) /\ p \in KnownIn(T) /\ Repeats(T, p, m)
    BY <1>1, <1>8
  <2>2. \A i \in 1 .. m : src'[Len(dst) + i] = src'[T[p].last_dst_pos + i]
    <3> HIDE DEF m, p
    <3>. QED  BY <2>1, <1>2, <1>4, RepeatsStays
  <2>3. /\ (c \in LiveIn(T) \ KnownIn(T))' /\ (T[c].prefix_code \in KnownIn(T))'
        /\ Repeats(T, T[c].prefix_code, n - Len(dst) - 1)'
        /\ src'[n] = T[c].ext_byte'
    BY <2>2, <1>1, <1>3, <1>5, <1>8 DEF KnownIn, LiveIn, Repeats
  <2>. QED  BY <1>1, <1>5, <2>3 DEF StandsFor
<1>. QED  BY <1>1, <1>5, <1>6, <1>7, <1>8 DEF StandsFor

\* The code of an entry stands for its prefix's string and one more byte.
LEMMA Extends ==
    ASSUME P!SInv, Begins, src \in Seq(Byte), NEW b \in Byte, ReadsByte(b),
           NEW c \in Code, Holds(c, Len(src)),
           NEW d \in Dynamic, Ahead[d].prefix_code = c, Ahead[d].ext_byte = b
    PROVE  Holds(d, Len(src))'
<1> DEFINE T == Ahead
<1>0. PICK n : n = Len(src)
  OBVIOUS
<1>1. /\ n \in Nat /\ Len(dst) < n /\ n = Len(src) /\ StandsFor(T, c, n)
      /\ Len(dst) \in Nat /\ Len(src') = n + 1
      /\ \A i \in 1 .. n : src'[i] = src[i]
      /\ src'[n + 1] = b
      /\ dst' = dst /\ T' = T
  BY <1>0, ReadsFacts DEF Holds
<1>2. GoodTable(T)
  BY <1>1, AheadGood
<1>3. c # INVALID_CODE /\ c # d
  BY CodeFacts, <1>1 DEF StandsFor, KnownIn, LiveIn
<1>4. d \in LiveIn(T)
  BY <1>3 DEF LiveIn
<1>5. (c \in Byte => c \notin LiveIn(T)) /\ (c \in LiveIn(T) => c \in Dynamic)
  BY CodeFacts DEF LiveIn
<1>6. ASSUME d \in KnownIn(T)
      PROVE  d \in KnownIn(T)' /\ Repeats(T, d, n + 1 - Len(dst))'
  <2> DEFINE e == T[d]
             p == T[c]
  <2>1. /\ c \in Byte \cup KnownIn(T)
        /\ c \in Byte => p.last_dst_pos < Len(dst)
        /\ p.len \in Nat \ {0} /\ e.len = p.len + 1 /\ e.last_dst_pos \in Nat
        /\ e.last_dst_pos + e.len <= Len(dst) + 1
        /\ \A i \in 1 .. p.len : src[e.last_dst_pos + i] = src[p.last_dst_pos + i]
        /\ src[e.last_dst_pos + e.len] = b
    BY <1>2, <1>6 DEF GoodTable
  <2>2. Len(dst) + p.len = n /\ \A i \in 1 .. p.len : src[Len(dst) + i] = src[p.last_dst_pos + i]
    <3>1. CASE c \in Byte
      <4>1. n = Len(dst) + 1 /\ src[n] = c
        BY <3>1, <1>1, <1>5 DEF StandsFor, KnownIn
      <4>2. p.len = 1 /\ src[p.last_dst_pos + 1] = c
        BY <3>1, <2>1, <1>2 DEF GoodTable
      <4> HIDE DEF p
      <4>. QED  BY <4>1, <4>2, <1>1
    <3>2. CASE c \in KnownIn(T)
      <4>1. Repeats(T, c, n - Len(dst))
        BY <3>2, <1>1, <1>5 DEF StandsFor, KnownIn
      <4>. QED  BY <4>1, <1>1 DEF Repeats
    <3>. QED  BY <3>1, <3>2, <2>1
  <2> HIDE DEF e, p
  <2>3. ASSUME NEW i \in 1 .. e.len
        PROVE  src'[Len(dst) + i] = src'[e.last_dst_pos + i]
    <3> DEFINE x == e.last_dst_pos
               m == p.len
    <3>0. /\ x \in Nat /\ m \in Nat \ {0} /\ Len(dst) \in Nat /\ n \in Nat /\ i \in 1 .. m + 1
          /\ x + (m + 1) <= Len(dst) + 1 /\ Len(dst) + m = n /\ e.len = m + 1
      BY <1>1, <2>1, <2>2
    <3> HIDE DEF x, m
    <3>1. CASE i = m + 1
      <4>1. x + i \in 1 .. n /\ Len(dst) + i = n + 1
        BY <3>0, <3>1
      <4>2. src[x + i] = b
        BY <2>1, <3>0, <3>1 DEF x
      <4>. QED  BY <4>1, <4>2, <1>1 DEF x
    <3>2. CASE i \in 1 .. m
      <4>1. x + i \in 1 .. n /\ Len(dst) + i \in 1 .. n
        BY <3>0, <3>2
      <4>2. src[Len(dst) + i] = src[x + i]
        BY <3>2, <2>1, <2>2 DEF x, m
      <4>. QED  BY <4>1, <4>2, <1>1 DEF x
    <3>. QED  BY <3>0, <3>1, <3>2
  <2>4. e.len = n + 1 - Len(dst)
    BY <1>1, <2>1, <2>2
  <2>5. d \in KnownIn(T)'
    BY <1>1, <1>6 DEF KnownIn, LiveIn
  <2>6. Repeats(T, d, n + 1 - Len(dst))'
    BY <1>1, <2>3, <2>4 DEF Repeats, e
  <2>. QED  BY <2>5, <2>6
<1>7. ASSUME d \notin KnownIn(T)
      PROVE  /\ (d \in LiveIn(T) \ KnownIn(T))' /\ (T[d].prefix_code \in KnownIn(T))'
             /\ Repeats(T, T[d].prefix_code, n + 1 - Len(dst) - 1)'
             /\ src'[n + 1] = T[d].ext_byte'
  <2>1. c \in Dynamic /\ (T[c].prefix_code # INVALID_CODE => c \in KnownIn(T))
    BY <1>2, <1>4, <1>7 DEF GoodTable
  <2>2. c \in KnownIn(T) /\ Repeats(T, c, n - Len(dst))
    BY <1>1, <2>1, CodeFacts DEF StandsFor, KnownIn, LiveIn
  <2>3. \A i \in 1 .. n - Len(dst) : src'[Len(dst) + i] = src'[T[c].last_dst_pos + i]
    BY <1>1, <1>2, <2>2, RepeatsStays
  <2>4. n + 1 - Len(dst) - 1 = n - Len(dst)
    BY <1>1
  <2>5. Repeats(T, c, n - Len(dst))'
    BY <1>1, <2>2, <2>3 DEF Repeats
  <2>6. d \in LiveIn(T)' /\ d \notin KnownIn(T)' /\ c \in KnownIn(T)'
    BY <1>1, <1>4, <1>7, <2>2 DEF KnownIn, LiveIn
  <2>. QED  BY <1>1, <2>4, <2>5, <2>6
<1>8. StandsFor(Ahead, d, n + 1)'
  BY <1>1, <1>6, <1>7 DEF StandsFor
<1>. QED  BY <1>1, <1>8 DEF Holds

\* What the compressor writes when everything was read: the code and rest.
LEMMA WrittenCode ==
    ASSUME TypeOK, os = <<>>, d_code_size = code_size, curr_code # INVALID_CODE,
           NEW rest \in Seq(StreamItem), Write(write_code(curr_code, code_size) \o rest),
           code_size' = WidthFor(curr_code, code_size), d_code_size' = d_code_size
    PROVE  LET m == code_size' - d_code_size
           IN  /\ m \in 0 .. MAX_CODE_SIZE /\ d_code_size' + m = code_size'
               /\ Len(os') = 2 * m + 1 + Len(rest)
               /\ \A k \in 1 .. 2 * m :
                     os'[k] = Item(IF k % 2 = 1 THEN CONTROL_CODE ELSE INC_CODE_SIZE,
                                   d_code_size' + (k - 1) \div 2)
               /\ os'[2 * m + 1] = Item(curr_code, code_size')
               /\ \A k \in 1 .. Len(rest) : os'[2 * m + 1 + k] = rest[k]
               /\ curr_code <= MaxOf(code_size')
<1> DEFINE w == write_code(curr_code, code_size)
           m == code_size' - d_code_size
<1>1. /\ curr_code \in Code /\ code_size \in MIN_CODE_SIZE .. MAX_CODE_SIZE
      /\ code_size' \in MIN_CODE_SIZE .. MAX_CODE_SIZE
      /\ curr_code <= MaxOf(code_size')
  BY CurrFacts DEF TypeOK
<1>2. /\ w \in Seq(StreamItem) /\ m \in 0 .. MAX_CODE_SIZE /\ Len(w) = 2 * m + 1
      /\ \A k \in 1 .. 2 * m :
            w[k] = Item(IF k % 2 = 1 THEN CONTROL_CODE ELSE INC_CODE_SIZE,
                        d_code_size + (k - 1) \div 2)
      /\ w[2 * m + 1] = Item(curr_code, code_size')
  BY <1>1, WriteCodeFacts
<1> HIDE DEF w
<1>3. /\ os' = w \o rest /\ Len(rest) \in Nat /\ Len(os') = Len(w) + Len(rest)
      /\ \A k \in 1 .. Len(w) + Len(rest) :
            os'[k] = IF k <= Len(w) THEN w[k] ELSE rest[k - Len(w)]
  <2>1. os' = <<>> \o (w \o rest)
    BY DEF Write, w
  <2>2. w \o rest \in Seq(StreamItem)
    BY <1>2, ConcatProperties
  <2>3. os' = w \o rest
    BY <2>1, <2>2, ConcatEmptySeq
  <2>. QED  BY <2>3, <1>2, ConcatProperties, LenProperties
<1>4. d_code_size' + m = code_size'
  BY <1>1, SizeFacts
<1>5. CONTROL_CODE \in Nat
  BY CodeAssumption
<1> HIDE DEF m
<1>6. /\ \A k \in 1 .. 2 * m : os'[k] = w[k]
      /\ os'[2 * m + 1] = w[2 * m + 1]
      /\ \A k \in 1 .. Len(rest) : os'[2 * m + 1 + k] = rest[k]
  BY <1>2, <1>3
<1>. QED  BY <1>1, <1>2, <1>3, <1>4, <1>6 DEF m

LEMMA FirstByteStep ==
    ASSUME CInv, P!SInv, Begins, Idle, NEW b \in Byte, FirstByte(b), UNCHANGED dvars
    PROVE  Idle' /\ Begins'
<1>1. /\ src = <<>> /\ prev_code = INVALID_CODE /\ ReadsByte(b) /\ curr_code' = b
      /\ UNCHANGED <<table, queue, code_size, os, bitpos, status>>
  BY DEF FirstByte, Reads, Idle, ReadsByte
<1>2. src \in Seq(Byte) /\ Len(src) = 0
  BY <1>1, EmptySeq
<1>3. /\ dst' = dst /\ Len(dst) = 0 /\ Len(src') = 1 /\ src'[1] = b /\ Begins'
      /\ AheadQueue' = AheadQueue
  BY <1>1, <1>2, ReadsFacts DEF Begins
<1>4. Ahead' = Ahead
  BY <1>1 DEF Ahead, AheadOf, dvars
<1>5. Holds(b, Len(src))'
  BY <1>3 DEF Holds, StandsFor
<1>6. curr_code' # INVALID_CODE
  BY <1>1, CodeFacts
<1>. QED  BY <1>1, <1>3, <1>4, <1>5, <1>6 DEF Idle, dvars

LEMMA ExtendStep ==
    ASSUME CInv, P!SInv, Begins, Idle, NEW b \in Byte, ExtendString(b), UNCHANGED dvars
    PROVE  Idle' /\ Begins'
<1>1. /\ ReadsByte(b) /\ curr_code # INVALID_CODE
      /\ hashtab_find(curr_code, b) # INVALID_CODE /\ curr_code' = hashtab_find(curr_code, b)
      /\ UNCHANGED <<table, queue, code_size, os, bitpos, status>>
  BY DEF ExtendString, Reads, ReadsByte
<1>2. TypeOK /\ src \in Seq(Byte) /\ curr_code \in Code
  BY <1>1 DEF CInv, TypeOK
<1>3. Holds(curr_code, Len(src)) /\ table = EntriesOf(Ahead)
  BY <1>1 DEF Idle
<1>4. PICK e \in table : /\ e.prefix_code = curr_code /\ e.ext_byte = b
                         /\ e.code = curr_code' /\ curr_code' \in Dynamic
  BY <1>1, <1>2, FindFacts
<1>5. PICK d \in Dynamic : e = Ent(Ahead[d].prefix_code, Ahead[d].ext_byte, d)
  BY <1>3, <1>4 DEF EntriesOf
<1>6. curr_code' = d /\ Ahead[d].prefix_code = curr_code /\ Ahead[d].ext_byte = b
  BY <1>4, <1>5 DEF Ent
<1>7. Holds(curr_code, Len(src))'
  <2>1. Holds(d, Len(src))'
    BY <1>1, <1>2, <1>3, <1>6, Extends
  <2>. QED  BY <2>1, <1>6 DEF Holds, StandsFor
<1>8. Ahead' = Ahead /\ AheadQueue' = AheadQueue /\ Begins'
  BY <1>1, <1>2, <1>3, ReadsFacts DEF Holds
<1>9. curr_code' # INVALID_CODE
  BY <1>1
<1>. QED  BY <1>1, <1>7, <1>8, <1>9 DEF Idle, dvars

LEMMA EmitStep ==
    ASSUME CInv, P!SInv, Begins, Idle, NEW b \in Byte, EmitCode(b), UNCHANGED dvars
    PROVE  Coded' /\ Begins'
<1>1. /\ ReadsByte(b) /\ curr_code # INVALID_CODE /\ queue # {} /\ curr_code' = b
      /\ Write(write_code(curr_code, code_size)) /\ status' = status
      /\ code_size' = WidthFor(curr_code, code_size)
      /\ table' = Insert(table, code_queue_next(queue), b)
      /\ queue' = code_queue_remove_next(queue)
  BY DEF EmitCode, Reads, ReadsByte
<1>2. TypeOK /\ src \in Seq(Byte) /\ curr_code \in Code /\ curr_code \in Byte \cup Dynamic
  BY <1>1, CodeFacts DEF CInv, TypeOK
<1>3. /\ os = <<>> /\ status = "writing" /\ d_code_size = code_size
      /\ table = EntriesOf(Ahead) /\ queue = AheadQueue /\ Holds(curr_code, Len(src))
  BY <1>1 DEF Idle
<1>4. UNCHANGED <<d_code_size, dst>>
  BY DEF dvars
<1>5. PICK c \in Byte \cup Dynamic : c = curr_code
  BY <1>2
<1>6. PICK n : n = Len(src)
  OBVIOUS
<1>7. PICK m : m = code_size' - d_code_size
  OBVIOUS
<1>8. Written(m, c, FALSE)' /\ m \in 0 .. MAX_CODE_SIZE
  <2>1. <<>> \in Seq(StreamItem) /\ Len(<<>>) = 0
    BY EmptySeq
  <2>2. Write(write_code(curr_code, code_size) \o <<>>)
    <3>1. write_code(curr_code, code_size) \in Seq(StreamItem)
      BY <1>1, <1>2, CurrFacts
    <3>. QED  BY <3>1, <1>1, ConcatEmptySeq
  <2>3. /\ m \in 0 .. MAX_CODE_SIZE /\ d_code_size' + m = code_size'
        /\ Len(os') = 2 * m + 1 + 0
        /\ \A k \in 1 .. 2 * m :
              os'[k] = Item(IF k % 2 = 1 THEN CONTROL_CODE ELSE INC_CODE_SIZE,
                            d_code_size' + (k - 1) \div 2)
        /\ os'[2 * m + 1] = Item(c, code_size')
        /\ c <= MaxOf(code_size')
    BY <2>1, <2>2, <1>1, <1>2, <1>3, <1>4, <1>5, <1>7, WrittenCode
  <2>. QED  BY <2>3 DEF Written
<1>9. /\ Ahead' = Ahead /\ AheadQueue' = AheadQueue /\ Begins'
      /\ Len(src') - 1 = n /\ src'[Len(src')] = b
  BY <1>1, <1>2, <1>3, <1>6, ReadsFacts DEF Holds
<1>10. Holds(c, Len(src) - 1)'
  <2>1. /\ n \in Nat /\ Len(dst) < n /\ n <= Len(src') /\ StandsFor(Ahead, c, n)'
    BY <1>1, <1>2, <1>3, <1>5, <1>6, HoldsStays
  <2>. QED  BY <2>1, <1>4, <1>9 DEF Holds
<1>11. table' = With(EntriesOf(Ahead'), c, b, code_queue_next(AheadQueue'))
  BY <1>1, <1>3, <1>5, <1>9 DEF Insert, With, Ent
<1>12. Outstanding(c, FALSE)'
  BY <1>1, <1>3, <1>9, <1>10, <1>11 DEF Outstanding
<1>. QED  BY <1>8, <1>9, <1>12 DEF Coded

LEMMA EmitAndClearStep ==
    ASSUME CInv, P!SInv, Begins, Idle, NEW b \in Byte, EmitCodeAndClear(b), UNCHANGED dvars
    PROVE  Coded' /\ Begins'
<1>1. /\ ReadsByte(b) /\ curr_code # INVALID_CODE /\ curr_code' = b /\ status' = status
      /\ code_size' = WidthFor(curr_code, code_size)
      /\ Write(write_code(curr_code, code_size) \o ClearItems(code_size'))
      /\ table' = Insert(Kept, code_queue_next(Freed), b)
      /\ queue' = code_queue_remove_next(Freed)
  BY DEF EmitCodeAndClear, Reads, ReadsByte, ClearItems
<1>2. TypeOK /\ src \in Seq(Byte) /\ curr_code \in Code /\ curr_code \in Byte \cup Dynamic
  BY <1>1, CodeFacts DEF CInv, TypeOK
<1>3. /\ os = <<>> /\ status = "writing" /\ d_code_size = code_size
      /\ table = EntriesOf(Ahead) /\ Holds(curr_code, Len(src))
  BY <1>1 DEF Idle
<1>4. UNCHANGED <<d_code_size, dst>>
  BY DEF dvars
<1>5. PICK c \in Byte \cup Dynamic : c = curr_code
  BY <1>2
<1>6. PICK n : n = Len(src)
  OBVIOUS
<1>7. PICK m : m = code_size' - d_code_size
  OBVIOUS
<1>8. Written(m, c, TRUE)' /\ m \in 0 .. MAX_CODE_SIZE
  <2>1. /\ ClearItems(code_size') \in Seq(StreamItem) /\ Len(ClearItems(code_size')) = 2
        /\ ClearItems(code_size')[1] = Item(CONTROL_CODE, code_size')
        /\ ClearItems(code_size')[2] = Item(PARTIAL_CLEAR, code_size')
    BY <1>1, <1>2, CurrFacts, ClearItemsFacts
  <2>2. /\ m \in 0 .. MAX_CODE_SIZE /\ d_code_size' + m = code_size'
        /\ Len(os') = 2 * m + 1 + 2
        /\ \A k \in 1 .. 2 * m :
              os'[k] = Item(IF k % 2 = 1 THEN CONTROL_CODE ELSE INC_CODE_SIZE,
                            d_code_size' + (k - 1) \div 2)
        /\ os'[2 * m + 1] = Item(c, code_size')
        /\ \A k \in 1 .. 2 : os'[2 * m + 1 + k] = ClearItems(code_size')[k]
        /\ c <= MaxOf(code_size')
    BY <2>1, <1>1, <1>2, <1>3, <1>4, <1>5, <1>7, WrittenCode
  <2>3. /\ os'[2 * m + 2] = Item(CONTROL_CODE, code_size')
        /\ os'[2 * m + 3] = Item(PARTIAL_CLEAR, code_size')
    <3>1. os'[2 * m + 1 + 1] = ClearItems(code_size')[1]
          /\ os'[2 * m + 1 + 2] = ClearItems(code_size')[2]
      BY <2>2
    <3>2. 2 * m + 1 + 1 = 2 * m + 2 /\ 2 * m + 1 + 2 = 2 * m + 3
      BY <2>2, SizeFacts
    <3>. QED  BY <3>1, <3>2, <2>1
  <2>. QED  BY <2>2, <2>3 DEF Written
<1>9. /\ Ahead' = Ahead /\ Begins' /\ Len(src') - 1 = n /\ src'[Len(src')] = b
  BY <1>1, <1>2, <1>3, <1>6, ReadsFacts DEF Holds
<1>10. Holds(c, Len(src) - 1)'
  <2>1. /\ n \in Nat /\ Len(dst) < n /\ n <= Len(src') /\ StandsFor(Ahead, c, n)'
    BY <1>1, <1>2, <1>3, <1>5, <1>6, HoldsStays
  <2>. QED  BY <2>1, <1>4, <1>9 DEF Holds
<1>11. Cleared(EntriesOf(Ahead), c)'
  <2>1. Kept = KeptOf(EntriesOf(Ahead')) /\ Freed = FreedOf(EntriesOf(Ahead'))
    BY <1>3, <1>9 DEF Kept, Freed, KeptOf, FreedOf, is_prefix, PrefixesOf
  <2>. QED  BY <2>1, <1>1, <1>5, <1>9 DEF Insert, With, Ent, Cleared
<1>12. Outstanding(c, TRUE)'
  BY <1>1, <1>3, <1>9, <1>10, <1>11 DEF Outstanding
<1>. QED  BY <1>8, <1>9, <1>12 DEF Coded

LEMMA FinishStep ==
    ASSUME CInv, P!SInv, Begins, Idle, Finish, UNCHANGED dvars
    PROVE  status' = "full" \/ Finished' \/ Coded'
<1>1. CASE GiveUp
  BY <1>1 DEF GiveUp
<1>2. CASE ~GiveUp
  <2>1. /\ Write(IF curr_code = INVALID_CODE THEN <<>> ELSE write_code(curr_code, code_size))
        /\ code_size' = IF curr_code = INVALID_CODE THEN code_size
                        ELSE WidthFor(curr_code, code_size)
        /\ status' = "ok"
        /\ UNCHANGED <<src, table, queue, curr_code>>
    BY <1>2 DEF Finish
  <2>2. TypeOK /\ src \in Seq(Byte) /\ dst \in Seq(Byte) /\ UNCHANGED <<d_code_size, dst>>
    BY DFacts DEF CInv, TypeOK, dvars
  <2>3. os = <<>> /\ d_code_size = code_size
    BY DEF Idle
  <2>4. CASE curr_code = INVALID_CODE
    <3>1. src = <<>> /\ os' = <<>>
      <4>1. os' = <<>> \o <<>> /\ <<>> \in Seq(StreamItem)
        BY <2>1, <2>3, <2>4, EmptySeq DEF Write
      <4>2. os' = <<>>
        BY <4>1, ConcatEmptySeq
      <4>. QED  BY <4>2, <2>4 DEF Idle
    <3>2. dst = <<>>
      <4>1. Len(dst) <= 0
        BY <3>1, EmptySeq DEF Begins
      <4>. QED  BY <4>1, <2>2, EmptySeq
    <3>. QED  BY <3>1, <3>2, <2>1, <2>2 DEF Finished
  <2>5. CASE curr_code # INVALID_CODE
    <3>1. PICK c \in Byte \cup Dynamic : c = curr_code
      BY <2>2, <2>5, CodeFacts DEF TypeOK
    <3>2. PICK m : m = code_size' - d_code_size
      OBVIOUS
    <3>3. Written(m, c, FALSE)' /\ m \in 0 .. MAX_CODE_SIZE
      <4>1. <<>> \in Seq(StreamItem) /\ Len(<<>>) = 0
        BY EmptySeq
      <4>2. Write(write_code(curr_code, code_size) \o <<>>)
        <5>1. write_code(curr_code, code_size) \in Seq(StreamItem)
          BY <2>2, <2>5, CurrFacts
        <5>. QED  BY <5>1, <2>1, <2>5, ConcatEmptySeq
      <4>3. /\ m \in 0 .. MAX_CODE_SIZE /\ d_code_size' + m = code_size'
            /\ Len(os') = 2 * m + 1 + 0
            /\ \A k \in 1 .. 2 * m :
                  os'[k] = Item(IF k % 2 = 1 THEN CONTROL_CODE ELSE INC_CODE_SIZE,
                                d_code_size' + (k - 1) \div 2)
            /\ os'[2 * m + 1] = Item(c, code_size')
            /\ c <= MaxOf(code_size')
        BY <4>1, <4>2, <2>1, <2>2, <2>3, <2>5, <3>1, <3>2, WrittenCode
      <4>. QED  BY <4>3 DEF Written
    <3>4. Holds(c, Len(src))
      BY <2>5, <3>1 DEF Idle
    <3>5. Ahead' = Ahead
      BY <2>1 DEF Ahead, AheadOf, dvars
    <3>6. Holds(c, Len(src))'
      BY <3>4, <3>5, <2>1, <2>2 DEF Holds, StandsFor, Repeats, KnownIn, LiveIn
    <3>. QED  BY <3>3, <3>6, <2>1 DEF Coded, Outstanding
  <2>. QED  BY <2>4, <2>5
<1>. QED  BY <1>1, <1>2

--------------------------------------------------------------------------------
(***************************************************************************)
(* What the decompressor makes of a code that stands for the input up to   *)
(* n: no test of hwunshrink refuses it, and its string is that input.      *)
(***************************************************************************)
\* How the entries of the two tables are related for a code that is held.
LEMMA HeldCases ==
    ASSUME P!SInv, Begins, src \in Seq(Byte), prev_code # INVALID_CODE,
           NEW c \in Byte \cup Dynamic, NEW n, Holds(c, n)
    PROVE  LET new == code_queue_next(d_queue)
               prev == codetab[prev_code]
               p == codetab[c].prefix_code
               Twice(k) == \A i \in 1 .. k : src[Len(dst) + i] = src[prev.last_dst_pos + i]
           IN  \/ c \in Byte /\ n = Len(dst) + 1 /\ src[n] = c
               \/ /\ c = new /\ c \in Dynamic /\ c # prev_code
                  /\ prev.prefix_code # INVALID_CODE
                  /\ n = Len(dst) + (prev.len + 1) /\ Twice(prev.len + 1)
               \/ /\ c \in KnownIn(codetab) /\ c # new
                  /\ n = Len(dst) + codetab[c].len
                  /\ \A i \in 1 .. codetab[c].len :
                        src[Len(dst) + i] = src[codetab[c].last_dst_pos + i]
               \/ /\ c \in LiveIn(codetab) \ KnownIn(codetab) /\ c # new
                  /\ src[n] = codetab[c].ext_byte
                  /\ \/ /\ p \in KnownIn(codetab) /\ p # new
                        /\ n = Len(dst) + (codetab[p].len + 1)
                        /\ \A i \in 1 .. codetab[p].len :
                              src[Len(dst) + i] = src[codetab[p].last_dst_pos + i]
                     \/ /\ p = new /\ p \in Dynamic /\ p # prev_code
                        /\ prev.prefix_code # INVALID_CODE
                        /\ n = Len(dst) + (prev.len + 2) /\ Twice(prev.len + 1)
<1> DEFINE new == code_queue_next(d_queue)
           prev == codetab[prev_code]
           T == Ahead
<1>1. /\ n \in Nat /\ Len(dst) \in Nat /\ Len(dst) < Len(src) /\ StandsFor(T, c, n)
      /\ codetab \in [Code -> P!CodeEntry]
  BY DFacts, LenProperties DEF Holds
<1>2. /\ prev_code \in Code /\ prev.len \in Nat \ {0} /\ prev.last_dst_pos \in Nat
  BY PrevFacts
<1>3. /\ \A x \in Code : x # new \/ new = INVALID_CODE => T[x] = codetab[x]
      /\ new # INVALID_CODE => /\ T[new].prefix_code = prev_code
                               /\ T[new].last_dst_pos = prev.last_dst_pos
                               /\ T[new].len = IF new = prev_code \/ prev.prefix_code # INVALID_CODE
                                               THEN prev.len + 1 ELSE UNKNOWN_LEN
  BY <1>1, AheadFacts
<1>4. /\ new # INVALID_CODE => new \in Dynamic /\ new \in Code
                               /\ codetab[new].prefix_code = INVALID_CODE
  BY AddedFacts
<1>5. GoodTable(T)
  BY <1>1, AheadGood
<1> HIDE DEF T, new, prev
<1>6. \A x \in LiveIn(T) : x # new => x \in LiveIn(codetab) /\ T[x] = codetab[x]
                                      /\ (x \in KnownIn(T) <=> x \in KnownIn(codetab))
  BY <1>3, CodeFacts DEF LiveIn, KnownIn
<1>7. new \in LiveIn(T) =>
         /\ new # INVALID_CODE /\ new # prev_code
         /\ T[new].last_dst_pos = prev.last_dst_pos
         /\ new \in KnownIn(T) => prev.prefix_code # INVALID_CODE /\ T[new].len = prev.len + 1
         /\ T[prev_code] = prev
  BY <1>2, <1>3, CodeFacts DEF LiveIn, KnownIn, prev
<1>8. CASE c \in Byte
  <2>1. c \notin LiveIn(T) /\ c \notin KnownIn(T)
    BY <1>8, CodeFacts DEF LiveIn, KnownIn
  <2>. QED  BY <2>1, <1>1, <1>8 DEF StandsFor
<1>9. CASE c \in KnownIn(T) /\ Repeats(T, c, n - Len(dst))
  <2>1. /\ c \in LiveIn(T) /\ c \in Dynamic /\ T[c].len = n - Len(dst)
        /\ \A i \in 1 .. n - Len(dst) : src[Len(dst) + i] = src[T[c].last_dst_pos + i]
    BY <1>9 DEF KnownIn, LiveIn, Repeats
  <2>2. CASE c = new
    <3>1. /\ c # prev_code /\ prev.prefix_code # INVALID_CODE /\ n - Len(dst) = prev.len + 1
          /\ T[c].last_dst_pos = prev.last_dst_pos
      BY <1>7, <1>9, <2>1, <2>2
    <3>2. n = Len(dst) + (prev.len + 1)
      BY <3>1, <1>1, <1>2
    <3>. QED  BY <3>1, <3>2, <2>1, <2>2 DEF prev, new
  <2>3. CASE c # new
    <3>1. c \in KnownIn(codetab) /\ T[c] = codetab[c]
      BY <1>6, <1>9, <2>1, <2>3
    <3>2. n - Len(dst) = codetab[c].len
      BY <2>1, <3>1
    <3>3. n = Len(dst) + codetab[c].len
      BY <3>2, <1>1
    <3>. QED  BY <3>1, <3>2, <3>3, <2>1, <2>3 DEF new
  <2>. QED  BY <2>2, <2>3
<1>10. CASE /\ c \in LiveIn(T) \ KnownIn(T)
            /\ T[c].prefix_code \in KnownIn(T)
            /\ Repeats(T, T[c].prefix_code, n - Len(dst) - 1)
            /\ src[n] = T[c].ext_byte
  <2>1. c # new
    <3> SUFFICES ASSUME c = new PROVE FALSE
      OBVIOUS
    <3>1. new # INVALID_CODE /\ new # prev_code /\ T[prev_code] = prev
          /\ prev_code \in KnownIn(T)
      BY <1>3, <1>7, <1>10
    <3>2. prev.prefix_code # INVALID_CODE
      BY <3>1 DEF KnownIn, LiveIn
    <3>3. T[new].len = prev.len + 1 /\ prev.len + 1 \in Nat
      BY <3>1, <3>2, <1>2, <1>3
    <3>. QED  BY <3>3, <1>10, RoundTripAssumption DEF KnownIn
  <2>2. c \in LiveIn(codetab) \ KnownIn(codetab) /\ T[c] = codetab[c]
    BY <2>1, <1>6, <1>10
  <2> DEFINE p == codetab[c].prefix_code
  <2>3. /\ p \in KnownIn(T) /\ p \in LiveIn(T) /\ p \in Dynamic /\ T[p].len = n - Len(dst) - 1
        /\ \A i \in 1 .. n - Len(dst) - 1 : src[Len(dst) + i] = src[T[p].last_dst_pos + i]
        /\ src[n] = codetab[c].ext_byte
    BY <1>10, <2>2 DEF KnownIn, LiveIn, Repeats
  <2> HIDE DEF p
  <2>4. CASE p = new
    <3>1. /\ p # prev_code /\ prev.prefix_code # INVALID_CODE
          /\ n - Len(dst) - 1 = prev.len + 1 /\ T[p].last_dst_pos = prev.last_dst_pos
      BY <1>7, <2>3, <2>4
    <3>2. n = Len(dst) + (prev.len + 2)
      BY <3>1, <1>1, <1>2, SMTT(30)
    <3>. QED  BY <3>1, <3>2, <2>1, <2>2, <2>3, <2>4 DEF prev, new, p
  <2>5. CASE p # new
    <3>1. p \in KnownIn(codetab) /\ T[p] = codetab[p]
      BY <1>6, <2>3, <2>5
    <3>2. n - Len(dst) - 1 = codetab[p].len
      BY <2>3, <3>1
    <3>3. n = Len(dst) + (codetab[p].len + 1)
      BY <3>2, <1>1
    <3>. QED  BY <3>1, <3>2, <3>3, <2>1, <2>2, <2>3, <2>5 DEF new, p
  <2>. QED  BY <2>4, <2>5
<1>. QED  BY <1>1, <1>8, <1>9, <1>10 DEF StandsFor

LEMMA HeldIsOutput ==
    ASSUME P!SInv, Begins, src \in Seq(Byte), Len(src) <= DST_CAP, prev_code # INVALID_CODE,
           NEW c \in Byte \cup Dynamic, NEW n, Holds(c, n), c <= MaxOf(d_code_size),
           P!NextCode(c)
    PROVE  \E str : P!OutputShape(c, str)
<1> DEFINE new == code_queue_next(d_queue)
           prev == codetab[prev_code]
           p == codetab[c].prefix_code
<1>1. /\ n \in Nat /\ Len(dst) \in Nat /\ Len(dst) < n /\ n <= Len(src) /\ Len(src) \in Nat
      /\ P!dst_pos = Len(dst) /\ DST_CAP \in Nat
  BY DFacts, LenProperties, RoundTripAssumption DEF Holds, P!dst_pos
<1>2. P!dst_pos < DST_CAP /\ P!Room \in Nat /\ \A k \in Nat : Len(dst) + k = n => P!Room >= k
  BY <1>1 DEF P!Room
<1>3. ~P!NoRoom(c)
  BY <1>2, <1>1 DEF P!NoRoom
<1>4. c \in P!Readable /\ c \in Code
  BY CodeFacts, SameCodes DEF P!Readable
<1>5. /\ P!IInv /\ codetab \in [Code -> P!CodeEntry]
      /\ P!Known = KnownIn(codetab) /\ P!Pending = LiveIn(codetab) \ KnownIn(codetab)
  BY DFacts DEF P!SInv
<1>6. prev.len \in Nat /\ prev_code \in Code
  BY PrevFacts
<1>7. \A x : P!IsKwKwK(x) <=> x = new
  BY SameCodes DEF P!IsKwKwK
<1>8. \A x : P!Valid(codetab, x) <=> codetab[x].prefix_code # INVALID_CODE
  BY DEF P!Valid
<1>9. P!ExtendPrev(codetab).prefix_code = prev_code /\ P!ExtendPrev(codetab).len = prev.len + 1
  BY EntryFields DEF P!ExtendPrev
<1>10. UNKNOWN_LEN \notin Nat
  BY RoundTripAssumption
<1>11. CASE c \in Byte /\ n = Len(dst) + 1
  <2>1. c # new
    BY <1>11, AddedFacts, CodeFacts
  <2>2. ~P!RejectKwKwK(c) /\ ~P!RejectCode(c) /\ ~P!OutputKnown(c) /\ ~P!IsUnknown(c)
    BY <1>7, <1>11, <2>1, SameCodes
       DEF P!RejectKwKwK, P!RejectCode, P!Usable, P!OutputKnown, P!IsUnknown
  <2>3. P!OutputLiteral(c)
    BY <1>3, <2>2 DEF P!NextCode, P!RejectUnknown, P!OutputUnknown
  <2>. QED  BY <1>4, <1>5, <2>3, P!LiteralShape,
               CodeAssumption, CodeSizeAssumption, WidthAssumption, RoundTripAssumption
            DEF MaxOf, P!MaxOf, PARTIAL_CLEAR, P!PARTIAL_CLEAR
\* A string whose length is in its entry is copied.
<1>12. ASSUME c \in Dynamic, P!Usable(P!KwKwKTab(c), c), c = new => prev.prefix_code # INVALID_CODE,
              P!KwKwKTab(c)[c].len \in Nat, Len(dst) + P!KwKwKTab(c)[c].len = n
       PROVE  \E str : P!OutputShape(c, str)
  <2>1. c \notin Byte /\ P!KwKwKTab(c)[c].len # UNKNOWN_LEN
        /\ P!Room >= P!KwKwKTab(c)[c].len /\ P!Room \in Nat
    BY <1>2, <1>10, <1>12, CodeFacts
  <2>2. ~P!RejectKwKwK(c) /\ ~P!OutputLiteral(c) /\ ~P!RejectCode(c) /\ ~P!IsUnknown(c)
    BY <1>7, <1>8, <1>12, <2>1, SameCodes
       DEF P!RejectKwKwK, P!OutputLiteral, P!RejectCode, P!IsUnknown
  <2>3. P!OutputKnown(c)
    BY <1>3, <2>2 DEF P!NextCode, P!RejectUnknown, P!OutputUnknown
  <2>4. d_status' = "reading"
    <3>1. PICK tab, size, room : tab = P!KwKwKTab(c) /\ size = tab[c].len /\ room = P!Room
      OBVIOUS
    <3>2. /\ P!Reading(c)
          /\ \/ room < size /\ P!Return("full")
             \/ room >= size /\ P!Output(c, tab, P!Copy(tab[c].last_dst_pos, size))
      BY <2>3, <3>1 DEF P!OutputKnown
    <3>3. ~(room < size)
      BY <1>12, <2>1, <3>1
    <3>. QED  BY <3>2, <3>3 DEF P!Output, P!Reading
  <2>. QED  BY <1>4, <1>5, <2>3, <2>4, P!KnownShape,
               CodeAssumption, CodeSizeAssumption, WidthAssumption, RoundTripAssumption
            DEF MaxOf, P!MaxOf, PARTIAL_CLEAR, P!PARTIAL_CLEAR
<1>13. CASE /\ c = new /\ c \in Dynamic /\ c # prev_code
            /\ prev.prefix_code # INVALID_CODE /\ n = Len(dst) + (prev.len + 1)
  <2>1. P!KwKwKTab(c)[c] = P!ExtendPrev(codetab)
    BY <1>4, <1>5, <1>7, <1>13 DEF P!KwKwKTab
  <2>2. P!Usable(P!KwKwKTab(c), c)
    BY <1>9, <1>13, <2>1 DEF P!Usable, P!Valid
  <2>. QED  BY <1>6, <1>9, <1>12, <1>13, <2>1, <2>2
<1>14. CASE c \in KnownIn(codetab) /\ c # new /\ n = Len(dst) + codetab[c].len
  <2>1. P!KwKwKTab(c) = codetab
    BY <1>7, <1>14 DEF P!KwKwKTab
  <2>2. c \in Dynamic /\ P!Usable(P!KwKwKTab(c), c)
    BY <1>14, <2>1 DEF P!Usable, P!Valid, KnownIn, LiveIn
  <2>3. codetab[c].len \in Nat
    BY <1>4, <1>14, DFacts DEF KnownIn
  <2>. QED  BY <1>12, <1>14, <2>1, <2>2, <2>3
<1>15. CASE /\ c \in LiveIn(codetab) \ KnownIn(codetab) /\ c # new
            /\ \/ /\ p \in KnownIn(codetab) /\ p # new
                  /\ n = Len(dst) + (codetab[p].len + 1)
               \/ /\ p = new /\ p \in Dynamic /\ p # prev_code
                  /\ prev.prefix_code # INVALID_CODE /\ n = Len(dst) + (prev.len + 2)
  <2>1. P!KwKwKTab(c) = codetab
    BY <1>7, <1>15 DEF P!KwKwKTab
  <2>2. /\ c \in Dynamic /\ c \notin Byte /\ codetab[c].len = UNKNOWN_LEN
        /\ P!Usable(P!KwKwKTab(c), c)
    BY <1>15, <2>1, CodeFacts DEF P!Usable, P!Valid, KnownIn, LiveIn
  <2>3. ~P!RejectKwKwK(c) /\ ~P!OutputLiteral(c) /\ ~P!RejectCode(c) /\ ~P!OutputKnown(c)
    BY <1>7, <1>15, <2>1, <2>2, SameCodes
       DEF P!RejectKwKwK, P!OutputLiteral, P!RejectCode, P!OutputKnown
  <2>4. /\ P!PrefixTab(c)[p].len \in Nat /\ Len(dst) + (P!PrefixTab(c)[p].len + 1) = n
        /\ P!Valid(P!PrefixTab(c), p)
    <3>1. CASE p = new /\ p \in Dynamic /\ n = Len(dst) + (prev.len + 2)
      <4>1. P!PrefixTab(c)[p] = P!ExtendPrev(codetab)
        BY <1>5, <1>7, <3>1, CodeFacts DEF P!PrefixTab
      <4>2. P!PrefixTab(c)[p].prefix_code = prev_code /\ P!PrefixTab(c)[p].len = prev.len + 1
        BY <4>1, <1>9
      <4>3. Len(dst) + (prev.len + 1 + 1) = n /\ prev.len + 1 \in Nat
        <5> HIDE DEF prev
        <5>. QED  BY <1>1, <1>6, <3>1
      <4>. QED  BY <4>2, <4>3 DEF P!Valid
    <3>2. CASE p \in KnownIn(codetab) /\ p # new /\ n = Len(dst) + (codetab[p].len + 1)
      <4>1. P!PrefixTab(c) = codetab
        BY <1>7, <3>2 DEF P!PrefixTab
      <4>2. codetab[p].len \in Nat /\ codetab[p].prefix_code # INVALID_CODE
        BY <3>2, DFacts, CodeFacts DEF KnownIn, LiveIn
      <4>. QED  BY <3>2, <4>1, <4>2 DEF P!Valid
    <3>. QED  BY <1>15, <3>1, <3>2
  <2>5. ~P!RejectUnknown(c)
    BY <2>4 DEF P!RejectUnknown
  <2>6. P!OutputUnknown(c)
    BY <1>3, <2>3, <2>5 DEF P!NextCode
  <2>7. d_status' = "reading"
    <3> DEFINE k == P!PrefixTab(c)[p].len + 1
    <3>1. k \in Nat /\ Len(dst) + k = n
      BY <2>4
    <3>2. ~(P!Room < k)
      <4> HIDE DEF k
      <4>1. P!Room >= k /\ P!Room \in Nat
        BY <1>2, <3>1
      <4>. QED  BY <3>1, <4>1
    <3>. QED  BY <2>6, <3>2 DEF P!OutputUnknown, P!Output, P!IsUnknown, P!Reading
  <2>. QED  BY <1>4, <1>5, <2>6, <2>7, P!UnknownShape,
               CodeAssumption, CodeSizeAssumption, WidthAssumption, RoundTripAssumption
            DEF MaxOf, P!MaxOf, PARTIAL_CLEAR, P!PARTIAL_CLEAR
<1>. QED  BY <1>11, <1>13, <1>14, <1>15, HeldCases

\* The string that is output is the input up to n.
LEMMA OutputIsInput ==
    ASSUME P!SInv, Begins, src \in Seq(Byte), prev_code # INVALID_CODE,
           NEW c \in Byte \cup Dynamic, NEW n, Holds(c, n),
           NEW str \in Seq(Byte), P!StringOf(c, str)
    PROVE  /\ n = Len(dst) + Len(str)
           /\ \A i \in 1 .. Len(str) : str[i] = src[Len(dst) + i]
<1> DEFINE new == code_queue_next(d_queue)
           prev == codetab[prev_code]
           p == codetab[c].prefix_code
           Repeat(m, pos) == \A i \in 1 .. m : str[i] = dst[pos + i]
           Twice == \A i \in 1 .. prev.len + 1 : src[Len(dst) + i] = src[prev.last_dst_pos + i]
<1>1. /\ Len(dst) \in Nat /\ n \in Nat /\ Len(str) \in Nat /\ Len(dst) < n /\ n <= Len(src)
      /\ Len(src) \in Nat /\ \A i \in 1 .. Len(dst) : dst[i] = src[i]
  BY DFacts, LenProperties DEF Holds, Begins
<1>2. \/ c \in Byte /\ str = <<c>>
      \/ /\ c = new /\ Len(str) = prev.len + 1
         /\ Repeat(prev.len, prev.last_dst_pos) /\ str[Len(str)] = first_byte
      \/ /\ c \in KnownIn(codetab) /\ Len(str) = codetab[c].len
         /\ Repeat(Len(str), codetab[c].last_dst_pos)
      \/ /\ c \in LiveIn(codetab) \ KnownIn(codetab)
         /\ p \in KnownIn(codetab) /\ Len(str) = codetab[p].len + 1
         /\ Repeat(codetab[p].len, codetab[p].last_dst_pos)
         /\ str[Len(str)] = codetab[c].ext_byte
      \/ /\ c \in LiveIn(codetab) \ KnownIn(codetab)
         /\ p = new /\ Len(str) = prev.len + 2
         /\ Repeat(prev.len, prev.last_dst_pos)
         /\ str[prev.len + 1] = first_byte /\ str[Len(str)] = codetab[c].ext_byte
  <2>1. P!Known = KnownIn(codetab) /\ P!Pending = LiveIn(codetab) \ KnownIn(codetab)
    BY DFacts
  <2>. QED  BY <2>1, SameCodes, Zenon DEF P!StringOf, P!Repeats
<1>3. /\ prev.len \in Nat \ {0} /\ prev.last_dst_pos \in Nat
      /\ prev.last_dst_pos + prev.len = Len(dst)
      /\ dst[prev.last_dst_pos + 1] = first_byte
  BY PrevFacts
<1>4. \A x \in KnownIn(codetab) :
         /\ codetab[x].len \in Nat /\ codetab[x].last_dst_pos \in Nat
         /\ codetab[x].last_dst_pos + codetab[x].len <= Len(dst)
  <2>1. P!Known = KnownIn(codetab) /\ \A x \in KnownIn(codetab) : x \in Code /\ codetab[x].len # UNKNOWN_LEN
    BY DFacts, CodeFacts DEF KnownIn, LiveIn
  <2>2. \A x \in P!Known : codetab[x].last_dst_pos + codetab[x].len <= Len(dst)
    BY DEF P!SInv, P!IInv, P!TableInv, P!dst_pos
  <2>. QED  BY <2>1, <2>2, DFacts
<1>5. /\ new \notin Byte /\ new \notin LiveIn(codetab) /\ KnownIn(codetab) \subseteq LiveIn(codetab)
      /\ Byte \cap LiveIn(codetab) = {}
  BY AddedFacts, CodeFacts DEF LiveIn, KnownIn
\* A string in the output is in the input.
<1>6. ASSUME NEW m \in Nat, NEW pos \in Nat, pos + m <= Len(dst), Repeat(m, pos),
             \A i \in 1 .. m : src[Len(dst) + i] = src[pos + i]
      PROVE  \A i \in 1 .. m : str[i] = src[Len(dst) + i]
  <2>1. \A i \in 1 .. m : pos + i \in 1 .. Len(dst)
    BY <1>1, <1>6
  <2>. QED  BY <1>1, <1>6, <2>1
\* The byte behind the previous string is the first of the next one.
<1>7. ASSUME Twice, Repeat(prev.len, prev.last_dst_pos)
      PROVE  /\ \A i \in 1 .. prev.len : str[i] = src[Len(dst) + i]
             /\ src[Len(dst) + (prev.len + 1)] = first_byte
  <2> DEFINE m == prev.len
             pos == prev.last_dst_pos
  <2>1. m \in Nat \ {0} /\ pos \in Nat /\ pos + m = Len(dst) /\ Len(dst) \in Nat
    BY <1>1, <1>3
  <2>2. /\ dst[pos + 1] = first_byte /\ Repeat(m, pos)
        /\ \A i \in 1 .. m + 1 : src[Len(dst) + i] = src[pos + i]
    BY <1>3, <1>7
  <2> HIDE DEF m, pos, Twice
  <2>3. \A i \in 1 .. m : str[i] = src[Len(dst) + i]
    <3>1. pos + m <= Len(dst) /\ \A i \in 1 .. m : i \in 1 .. m + 1
      BY <2>1
    <3> HIDE DEF Repeat
    <3>. QED  BY <2>1, <2>2, <3>1, <1>6
  <2>4. src[Len(dst) + (m + 1)] = src[Len(dst) + 1] /\ src[Len(dst) + 1] = src[pos + 1]
    <3>1. pos + (m + 1) = Len(dst) + 1 /\ 1 \in 1 .. m + 1 /\ m + 1 \in 1 .. m + 1
      BY <2>1
    <3>. QED  BY <2>2, <3>1
  <2>5. src[pos + 1] = first_byte
    <3>1. pos + 1 \in 1 .. Len(dst)
      BY <2>1
    <3>. QED  BY <1>1, <2>2, <3>1
  <2>. QED  BY <2>3, <2>4, <2>5 DEF m, pos
<1> HIDE DEF new, prev, p
<1>8. \/ c \in Byte /\ n = Len(dst) + 1 /\ src[n] = c
      \/ c = new /\ c \in Dynamic /\ n = Len(dst) + (prev.len + 1) /\ Twice
      \/ /\ c \in KnownIn(codetab) /\ c # new /\ n = Len(dst) + codetab[c].len
         /\ \A i \in 1 .. codetab[c].len :
               src[Len(dst) + i] = src[codetab[c].last_dst_pos + i]
      \/ /\ c \in LiveIn(codetab) \ KnownIn(codetab) /\ c # new /\ src[n] = codetab[c].ext_byte
         /\ p \in KnownIn(codetab) /\ p # new /\ n = Len(dst) + (codetab[p].len + 1)
         /\ \A i \in 1 .. codetab[p].len :
               src[Len(dst) + i] = src[codetab[p].last_dst_pos + i]
      \/ /\ c \in LiveIn(codetab) \ KnownIn(codetab) /\ c # new /\ src[n] = codetab[c].ext_byte
         /\ p = new /\ n = Len(dst) + (prev.len + 2) /\ Twice
  BY HeldCases DEF new, prev, p
<1>9. CASE c \in Byte /\ n = Len(dst) + 1 /\ src[n] = c
  <2>1. str = <<c>>
    BY <1>2, <1>5, <1>9
  <2>. QED  BY <1>9, <2>1
<1>10. CASE c = new /\ c \in Dynamic /\ n = Len(dst) + (prev.len + 1) /\ Twice
  <2>1. /\ Len(str) = prev.len + 1 /\ str[Len(str)] = first_byte
        /\ Repeat(prev.len, prev.last_dst_pos)
    BY <1>2, <1>5, <1>10
  <2>2. /\ \A i \in 1 .. prev.len : str[i] = src[Len(dst) + i]
        /\ src[Len(dst) + (prev.len + 1)] = first_byte
    BY <1>7, <1>10, <2>1
  <2>3. \A i \in 1 .. Len(str) : i \in 1 .. prev.len \/ i = prev.len + 1
    BY <1>3, <2>1
  <2>. QED  BY <1>10, <2>1, <2>2, <2>3
<1>11. CASE /\ c \in KnownIn(codetab) /\ c # new /\ n = Len(dst) + codetab[c].len
            /\ \A i \in 1 .. codetab[c].len :
                  src[Len(dst) + i] = src[codetab[c].last_dst_pos + i]
  <2>1. Len(str) = codetab[c].len /\ Repeat(Len(str), codetab[c].last_dst_pos)
    BY <1>2, <1>5, <1>11
  <2>. QED  BY <1>4, <1>6, <1>11, <2>1
<1>12. CASE /\ c \in LiveIn(codetab) \ KnownIn(codetab) /\ c # new /\ src[n] = codetab[c].ext_byte
            /\ p \in KnownIn(codetab) /\ p # new /\ n = Len(dst) + (codetab[p].len + 1)
            /\ \A i \in 1 .. codetab[p].len :
                  src[Len(dst) + i] = src[codetab[p].last_dst_pos + i]
  <2>1. /\ Len(str) = codetab[p].len + 1 /\ str[Len(str)] = codetab[c].ext_byte
        /\ Repeat(codetab[p].len, codetab[p].last_dst_pos)
    BY <1>2, <1>5, <1>12
  <2>2. \A i \in 1 .. codetab[p].len : str[i] = src[Len(dst) + i]
    BY <1>4, <1>6, <1>12, <2>1
  <2>3. codetab[p].len \in Nat
    BY <1>4, <1>12
  <2>4. \A i \in 1 .. Len(str) : i \in 1 .. codetab[p].len \/ i = Len(str)
    BY <2>1, <2>3
  <2>. QED  BY <1>12, <2>1, <2>2, <2>4
<1>13. CASE /\ c \in LiveIn(codetab) \ KnownIn(codetab) /\ c # new /\ src[n] = codetab[c].ext_byte
            /\ p = new /\ n = Len(dst) + (prev.len + 2) /\ Twice
  <2>1. /\ Len(str) = prev.len + 2 /\ str[Len(str)] = codetab[c].ext_byte
        /\ str[prev.len + 1] = first_byte /\ Repeat(prev.len, prev.last_dst_pos)
    BY <1>2, <1>5, <1>13
  <2>2. /\ \A i \in 1 .. prev.len : str[i] = src[Len(dst) + i]
        /\ src[Len(dst) + (prev.len + 1)] = first_byte
    BY <1>7, <1>13, <2>1
  <2>3. \A i \in 1 .. Len(str) : i \in 1 .. prev.len \/ i = prev.len + 1 \/ i = Len(str)
    BY <1>3, <2>1, SMTT(30)
  <2>. QED  BY <1>13, <2>1, <2>2, <2>3
<1>. QED  BY <1>8, <1>9, <1>10, <1>11, <1>12, <1>13

\* What the decompressor has after it has read code c, which stood for the
\* input up to n: that input, and the table the compressor had before it.
Decodes(c, n) ==
    /\ d_queue' = AheadQueue /\ EntriesOf(codetab') = EntriesOf(Ahead)
    /\ prev_code' = c /\ Len(dst') = n /\ Begins'
    /\ UNCHANGED <<d_code_size, d_status>>

LEMMA OutputDecodes ==
    ASSUME P!SInv, Begins, src \in Seq(Byte), src' = src, prev_code # INVALID_CODE,
           NEW c \in Byte \cup Dynamic, NEW n, Holds(c, n), NEW str, P!OutputShape(c, str)
    PROVE  Decodes(c, n)
<1> DEFINE new == code_queue_next(d_queue)
           T == Ahead
<1>1. /\ str \in Seq(Byte) /\ str # <<>> /\ P!StringOf(c, str)
      /\ \A x \in Code \ {c, new} : codetab'[x] = codetab[x]
      /\ new # INVALID_CODE /\ new # c => codetab'[new].prefix_code = prev_code
      /\ codetab'[c].prefix_code = IF c = new THEN prev_code ELSE codetab[c].prefix_code
      /\ new # INVALID_CODE => codetab'[new].ext_byte = str[1]
      /\ c # new => codetab'[c].ext_byte = codetab[c].ext_byte
      /\ dst' = dst \o str /\ prev_code' = c
      /\ d_queue' = code_queue_remove_next(d_queue)
      /\ UNCHANGED <<d_code_size, d_status>>
  BY SameCodes, Zenon DEF P!OutputShape
<1>2. /\ n = Len(dst) + Len(str) /\ \A i \in 1 .. Len(str) : str[i] = src[Len(dst) + i]
  BY <1>1, OutputIsInput
<1>3. /\ dst \in Seq(Byte) /\ Len(dst) \in Nat /\ Len(str) \in Nat \ {0}
      /\ n <= Len(src) /\ Len(src) \in Nat /\ Len(dst) < Len(src)
      /\ codetab \in [Code -> P!CodeEntry]
  BY <1>1, DFacts, LenProperties, EmptySeq DEF Holds
<1>4. d_queue' = AheadQueue
  BY <1>1 DEF AheadQueue
<1>5. Len(dst') = n /\ Begins'
  <2>1. Len(dst') = n
    BY <1>1, <1>2, <1>3, ConcatProperties
  <2>2. ASSUME NEW i \in 1 .. n PROVE dst'[i] = src[i]
    <3>1. i \in 1 .. Len(dst) + Len(str)
      BY <1>2
    <3>2. CASE i <= Len(dst)
      <4>1. dst'[i] = dst[i]
        BY <1>1, <1>3, <3>1, <3>2, ConcatProperties
      <4>. QED  BY <4>1, <1>3, <3>2 DEF Begins
    <3>3. CASE ~(i <= Len(dst))
      <4>1. dst'[i] = str[i - Len(dst)] /\ i - Len(dst) \in 1 .. Len(str)
        BY <1>1, <1>3, <3>1, <3>3, ConcatProperties
      <4>2. Len(dst) + (i - Len(dst)) = i
        BY <1>3
      <4>. QED  BY <4>1, <4>2, <1>2
    <3>. QED  BY <3>2, <3>3
  <2>. QED  BY <2>1, <2>2, <1>3 DEF Begins
<1>6. /\ \A x \in Code : x # new \/ new = INVALID_CODE => T[x] = codetab[x]
      /\ new # INVALID_CODE => T[new].prefix_code = prev_code
                               /\ T[new].ext_byte = src[Len(dst) + 1]
  BY <1>3, AheadFacts
<1>7. str[1] = src[Len(dst) + 1]
  BY <1>2, <1>3
<1>8. new # INVALID_CODE => new \in Code
  BY AddedFacts
<1> HIDE DEF T, new
<1>9. \A x \in Dynamic : /\ codetab'[x].prefix_code = T[x].prefix_code
                         /\ codetab'[x].ext_byte = T[x].ext_byte
  <2> SUFFICES ASSUME NEW x \in Dynamic
               PROVE  /\ codetab'[x].prefix_code = T[x].prefix_code
                      /\ codetab'[x].ext_byte = T[x].ext_byte
    OBVIOUS
  <2>1. x \in Code /\ x # INVALID_CODE
    BY CodeFacts
  <2>2. CASE x = new
    BY <1>1, <1>6, <1>7, <2>1, <2>2
  <2>3. CASE x # new /\ x # c
    BY <1>1, <1>6, <2>1, <2>3
  <2>4. CASE x # new /\ x = c
    BY <1>1, <1>6, <2>1, <2>4
  <2>. QED  BY <2>2, <2>3, <2>4
<1>10. EntriesOf(codetab') = EntriesOf(T)
  BY <1>9 DEF EntriesOf
<1>. QED  BY <1>1, <1>4, <1>5, <1>10 DEF Decodes, T

LEMMA FirstDecodes ==
    ASSUME P!SInv, Begins, src \in Seq(Byte), src' = src, Len(src) <= DST_CAP,
           NEW c \in Byte \cup Dynamic, NEW n, Holds(c, n), P!FirstCode(c)
    PROVE  Decodes(c, n)
<1>1. prev_code = INVALID_CODE /\ codetab \in [Code -> P!CodeEntry]
      /\ dst = <<>> /\ LiveIn(codetab) = {}
  BY DFacts DEF P!FirstCode, P!SInv, P!IInv, P!PrevInv
<1>2. Ahead = codetab /\ AheadQueue = d_queue
  BY <1>1 DEF Ahead, AheadOf, AheadQueue
<1>3. c \in Byte /\ n = 1 /\ src[1] = c /\ 1 <= Len(src) /\ Len(src) \in Nat
  <2>1. Len(dst) = 0 /\ Len(src) \in Nat
    BY <1>1, EmptySeq, LenProperties
  <2>. QED  BY <1>1, <1>2, <2>1 DEF Holds, StandsFor, KnownIn
<1>4. /\ dst' = <<c>> /\ codetab' = [codetab EXCEPT ![c].last_dst_pos = 0]
      /\ prev_code' = c /\ UNCHANGED <<d_code_size, d_queue, d_status>>
  <2>1. DST_CAP # 0
    BY <1>3, RoundTripAssumption
  <2>. QED  BY <1>3, <2>1, SameCodes DEF P!FirstCode
<1>5. Len(dst') = 1 /\ Begins'
  <2>1. Len(dst') = 1 /\ dst'[1] = c
    BY <1>4
  <2>. QED  BY <2>1, <1>3 DEF Begins
<1>6. \A x \in Dynamic : codetab'[x] = codetab[x]
  BY <1>1, <1>3, <1>4, CodeFacts
<1>7. EntriesOf(codetab') = EntriesOf(codetab)
  BY <1>6 DEF EntriesOf
<1>. QED  BY <1>2, <1>3, <1>4, <1>5, <1>7 DEF Decodes

\* The decompressor's invariant is kept whatever it reads.
LEMMA DNext ==
    ASSUME P!SInv, P!Next \/ UNCHANGED P!vars PROVE P!SInv'
  BY P!NextStrings, CodeAssumption, CodeSizeAssumption, WidthAssumption, RoundTripAssumption
  DEF MaxOf, P!MaxOf, PARTIAL_CLEAR, P!PARTIAL_CLEAR

LEMMA CodeDecodes ==
    ASSUME P!SInv, Begins, src \in Seq(Byte), src' = src, Len(src) <= DST_CAP,
           NEW c \in Byte \cup Dynamic, NEW n, Holds(c, n), c <= MaxOf(d_code_size),
           D!FirstCode(c) \/ D!NextCode(c)
    PROVE  Decodes(c, n) /\ P!SInv'
<1>1. P!FirstCode(c) \/ P!NextCode(c)
  BY SameFirstCode, SameNextCode
<1>2. P!SInv'
  <2>1. c \in P!Readable
    BY CodeFacts, SameCodes DEF P!Readable
  <2>. QED  BY <1>1, <2>1, DNext DEF P!Next
<1>3. CASE P!FirstCode(c)
  BY <1>2, <1>3, FirstDecodes
<1>4. CASE P!NextCode(c)
  <2>1. prev_code # INVALID_CODE
    BY <1>4 DEF P!NextCode, P!NoRoom, P!RejectKwKwK, P!OutputLiteral, P!RejectCode, P!OutputKnown,
                P!RejectUnknown, P!OutputUnknown, P!IsUnknown, P!Reading
  <2>2. PICK str : P!OutputShape(c, str)
    BY <1>4, <2>1, HeldIsOutput
  <2>. QED  BY <1>2, <2>1, <2>2, OutputDecodes
<1>. QED  BY <1>1, <1>3, <1>4

--------------------------------------------------------------------------------
(***************************************************************************)
(* What the decompressor's steps make.                                     *)
(***************************************************************************)
\* The next byte was read and its entry is the one the decompressor adds next.
LEMMA IdleAgain ==
    ASSUME P!SInv', Len(dst') \in Nat, src' \in Seq(Byte), NEW c \in Byte \cup Dynamic,
           prev_code' = c, Len(src') = Len(dst') + 1, curr_code' = src'[Len(src')],
           os' = <<>>, status' = "writing", d_code_size' = code_size',
           table' = With(EntriesOf(codetab'), c, curr_code', code_queue_next(d_queue')),
           queue' = code_queue_remove_next(d_queue')
    PROVE  Idle'
<1>1. c \in Code /\ c # INVALID_CODE /\ curr_code' \in Byte
  <2>1. Len(src') \in 1 .. Len(src')
    OBVIOUS
  <2>. QED  BY <2>1, CodeFacts, ElementOfSeq
<1>2. /\ codetab' \in [Code -> P!CodeEntry] /\ d_queue' \subseteq Dynamic
      /\ \A x \in d_queue' : codetab'[x].prefix_code = INVALID_CODE
  BY SameCodes DEF P!SInv, P!IInv, P!TypeOK, P!FreeCodesUnused, P!Valid
<1>3. EntriesOf(AheadOf(codetab', d_queue', c, curr_code'))
         = With(EntriesOf(codetab'), c, curr_code', code_queue_next(d_queue'))
  BY <1>1, <1>2, AddedEntry
<1>4. Ahead' = AheadOf(codetab', d_queue', c, curr_code')
  BY DEF Ahead
<1>5. AheadQueue' = code_queue_remove_next(d_queue')
  BY <1>1 DEF AheadQueue
<1>6. Holds(curr_code, Len(src))'
  BY <1>1 DEF Holds, StandsFor
<1>7. curr_code' # INVALID_CODE
  BY <1>1, CodeFacts
<1>. QED  BY <1>3, <1>4, <1>5, <1>6, <1>7 DEF Idle

\* A control code counts the width of codes up to that of the code that follows.
LEMMA WidenStep ==
    ASSUME CInv, P!SInv, NEW m \in 1 .. MAX_CODE_SIZE, NEW c \in Byte \cup Dynamic,
           NEW clear \in BOOLEAN, Written(m, c, clear), Outstanding(c, clear),
           D!ReadIncCodeSize, Take(2)
    PROVE  Coded'
<1>1. /\ d_code_size' = d_code_size + 1
      /\ UNCHANGED <<codetab, d_queue, prev_code, first_byte, dst, d_status>>
  BY DEF D!ReadIncCodeSize
<1>2. UNCHANGED <<src, table, queue, code_size, curr_code, bitpos, status>>
  BY DEF Take
<1>3. /\ code_size \in Nat /\ Len(os) \in Nat /\ MAX_CODE_SIZE \in Nat /\ m \in Nat
  BY SizeFacts, LenProperties DEF CInv, TypeOK
<1>4. PICK e : e = IF clear THEN 2 ELSE 0
  OBVIOUS
<1>5. /\ d_code_size + m = code_size /\ Len(os) = 2 * m + 1 + e
      /\ \A k \in 1 .. 2 * m :
            os[k] = Item(IF k % 2 = 1 THEN CONTROL_CODE ELSE INC_CODE_SIZE,
                         d_code_size + (k - 1) \div 2)
      /\ os[2 * m + 1] = Item(c, code_size)
      /\ clear => /\ os[2 * m + 2] = Item(CONTROL_CODE, code_size)
                  /\ os[2 * m + 3] = Item(PARTIAL_CLEAR, code_size)
      /\ c <= MaxOf(code_size)
  BY <1>4 DEF Written
<1>6. /\ Len(os') = Len(os) - 2 /\ \A k \in 1 .. Len(os') : os'[k] = os[2 + k]
  <2>1. 2 \in 0 .. Len(os)
    BY <1>3, <1>4, <1>5
  <2>. QED  BY <2>1, TakeInv
<1>7. d_code_size \in Nat
  BY SizeFacts DEF P!SInv, P!IInv, P!TypeOK
<1>8. PICK j \in Nat : j = m - 1
  BY <1>3
<1>9. Written(j, c, clear)'
  <2>1. d_code_size' + j = code_size' /\ Len(os') = 2 * j + 1 + e
    <3>1. /\ m \in Nat /\ j \in Nat /\ e \in Nat /\ m = j + 1 /\ d_code_size + m = code_size
          /\ Len(os) = 2 * m + 1 + e /\ Len(os') = Len(os) - 2
      BY <1>3, <1>4, <1>5, <1>6, <1>8
    <3>2. 2 * m = 2 * j + 2
      BY <3>1
    <3>. QED  BY <1>1, <1>2, <1>7, <3>1, <3>2
  <2>2. /\ \A k \in 1 .. 2 * j : k \in 1 .. Len(os') /\ 2 + k \in 1 .. 2 * m
        /\ 2 * j + 1 \in 1 .. Len(os') /\ 2 + (2 * j + 1) = 2 * m + 1
        /\ clear => /\ 2 * j + 2 \in 1 .. Len(os') /\ 2 + (2 * j + 2) = 2 * m + 2
                    /\ 2 * j + 3 \in 1 .. Len(os') /\ 2 + (2 * j + 3) = 2 * m + 3
    BY <1>4, <1>8, <2>1
  <2>3. ASSUME NEW k \in 1 .. 2 * j
        PROVE  os'[k] = Item(IF k % 2 = 1 THEN CONTROL_CODE ELSE INC_CODE_SIZE,
                             d_code_size' + (k - 1) \div 2)
    <3>1. (2 + k) % 2 = k % 2 /\ ((2 + k) - 1) \div 2 = (k - 1) \div 2 + 1
      BY <1>8
    <3>2. (k - 1) \div 2 \in Nat
      BY <1>8
    <3>3. d_code_size + ((2 + k) - 1) \div 2 = d_code_size' + (k - 1) \div 2
      BY <1>1, <1>7, <3>1, <3>2
    <3>. QED  BY <1>5, <1>6, <2>2, <3>1, <3>3
  <2>4. os'[2 * j + 1] = Item(c, code_size')
    BY <1>2, <1>5, <1>6, <2>2
  <2>5. clear => /\ os'[2 * j + 2] = Item(CONTROL_CODE, code_size')
                 /\ os'[2 * j + 3] = Item(PARTIAL_CLEAR, code_size')
    BY <1>2, <1>5, <1>6, <2>2
  <2>6. c <= MaxOf(code_size')
    BY <1>2, <1>5
  <2>. QED  BY <1>4, <2>1, <2>3, <2>4, <2>5, <2>6 DEF Written
<1>10. Outstanding(c, clear)'
  <2>1. Ahead' = Ahead /\ AheadQueue' = AheadQueue
    BY <1>1, <1>2 DEF Ahead, AheadQueue
  <2>2. Holds(c, Len(src))' = Holds(c, Len(src)) /\ Holds(c, Len(src) - 1)' = Holds(c, Len(src) - 1)
    BY <2>1, <1>1, <1>2 DEF Holds, StandsFor, KnownIn, LiveIn, Repeats
  <2>. QED  BY <2>1, <2>2, <1>2 DEF Outstanding, Cleared
<1>11. j \in 0 .. MAX_CODE_SIZE
  BY <1>3, <1>8
<1>. QED  BY <1>9, <1>10, <1>11 DEF Coded

\* The decompressor clears what the compressor cleared.
LEMMA ClearStep ==
    ASSUME CInv, P!SInv, Begins, Clearing, D!ReadPartialClear, Take(2)
    PROVE  Idle'
<1> DEFINE E == EntriesOf(codetab)
<1>1. P!ReadPartialClear /\ P!SInv'
  <2>1. P!ReadPartialClear
    BY SameControl
  <2>. QED  BY <2>1, DNext DEF P!Next
<1>2. /\ UNCHANGED <<d_code_size, prev_code, first_byte, dst, d_status>>
      /\ UNCHANGED <<src, table, queue, code_size, curr_code, bitpos, status>>
  BY <1>1 DEF P!ReadPartialClear, Take
<1>3. os' = <<>>
  <2>1. os \in Seq(StreamItem) /\ Len(os) = 2
    BY DEF CInv, TypeOK, Clearing
  <2>2. os' = SubSeq(os, 2 + 1, Len(os)) /\ Len(os) < 2 + 1
    BY <2>1 DEF Take
  <2>. QED  BY <2>1, <2>2, SubSeqEmpty
<1>4. /\ Len(dst) \in Nat /\ src \in Seq(Byte) /\ codetab \in [Code -> P!CodeEntry]
  BY DFacts DEF CInv, TypeOK
<1>5. P!is_prefix = PrefixesOf(E)
  <2>1. \A x : x \in P!is_prefix
                 <=> \E c \in Dynamic : codetab[c].prefix_code # INVALID_CODE /\ x = codetab[c].prefix_code
    BY SameCodes DEF P!is_prefix, P!Valid
  <2>2. \A x : x \in PrefixesOf(E)
                 <=> \E c \in Dynamic : codetab[c].prefix_code # INVALID_CODE /\ x = codetab[c].prefix_code
    <3>1. \A p, b, c : Ent(p, b, c).prefix_code = p
      BY DEF Ent
    <3>2. ASSUME NEW x \in PrefixesOf(E)
          PROVE  \E c \in Dynamic : codetab[c].prefix_code # INVALID_CODE /\ x = codetab[c].prefix_code
      <4>1. PICK e \in E : x = e.prefix_code
        BY DEF PrefixesOf
      <4>2. PICK c \in Dynamic : /\ codetab[c].prefix_code # INVALID_CODE
                                 /\ e = Ent(codetab[c].prefix_code, codetab[c].ext_byte, c)
        BY <4>1 DEF EntriesOf
      <4>. QED  BY <3>1, <4>1, <4>2
    <3>3. ASSUME NEW c \in Dynamic, codetab[c].prefix_code # INVALID_CODE
          PROVE  codetab[c].prefix_code \in PrefixesOf(E)
      <4>1. Ent(codetab[c].prefix_code, codetab[c].ext_byte, c) \in E
        BY <3>3 DEF EntriesOf
      <4>. QED  BY <3>1, <4>1 DEF PrefixesOf
    <3>. QED  BY <3>2, <3>3
  <2>. QED  BY <2>1, <2>2
<1>6. /\ d_queue' = FreedOf(E)
      /\ \A c \in Dynamic : IF c \in PrefixesOf(E) THEN codetab'[c] = codetab[c]
                            ELSE codetab'[c].prefix_code = INVALID_CODE
  <2>1. /\ d_queue' = Dynamic \ PrefixesOf(E)
        /\ codetab' = [c \in Code |-> IF c \in Dynamic \ PrefixesOf(E)
                                      THEN [codetab[c] EXCEPT !.prefix_code = INVALID_CODE]
                                      ELSE codetab[c]]
    BY <1>1, <1>5, SameCodes DEF P!ReadPartialClear, P!unshrink_partial_clear
  <2> HIDE DEF E
  <2>2. \A c \in Dynamic : c \in Code /\ codetab[c] \in P!CodeEntry
    BY <1>4, CodeFacts
  <2>. QED  BY <2>1, <2>2 DEF FreedOf, P!CodeEntry
<1>7. EntriesOf(codetab') = KeptOf(E)
  <2>1. ASSUME NEW e \in EntriesOf(codetab') PROVE e \in KeptOf(E)
    <3>1. PICK c \in Dynamic : /\ codetab'[c].prefix_code # INVALID_CODE
                               /\ e = Ent(codetab'[c].prefix_code, codetab'[c].ext_byte, c)
      BY <2>1 DEF EntriesOf
    <3>2. c \in PrefixesOf(E) /\ codetab'[c] = codetab[c]
      BY <1>6, <3>1
    <3>3. e \in E /\ e.code = c
      BY <3>1, <3>2 DEF EntriesOf, Ent
    <3>. QED  BY <3>2, <3>3 DEF KeptOf
  <2>2. ASSUME NEW e \in KeptOf(E) PROVE e \in EntriesOf(codetab')
    <3>1. e \in E /\ e.code \in PrefixesOf(E)
      BY DEF KeptOf
    <3>2. PICK c \in Dynamic : /\ codetab[c].prefix_code # INVALID_CODE
                               /\ e = Ent(codetab[c].prefix_code, codetab[c].ext_byte, c)
      BY <3>1 DEF EntriesOf
    <3>3. c \in PrefixesOf(E)
      BY <3>1, <3>2 DEF Ent
    <3>4. codetab'[c] = codetab[c]
      BY <1>6, <3>3
    <3>. QED  BY <3>2, <3>4 DEF EntriesOf
  <2>. QED  BY <2>1, <2>2
<1>8. /\ prev_code # INVALID_CODE /\ status = "writing" /\ d_code_size = code_size
      /\ Len(src) = Len(dst) + 1 /\ curr_code = src[Len(src)]
      /\ table = With(KeptOf(E), prev_code, curr_code, code_queue_next(FreedOf(E)))
      /\ queue = code_queue_remove_next(FreedOf(E))
  BY DEF Clearing, Cleared
<1>9. PICK c \in Byte \cup Dynamic : c = prev_code
  BY <1>8, DFacts
<1>. QED  BY <1>1, <1>2, <1>3, <1>4, <1>6, <1>7, <1>8, <1>9, IdleAgain

\* The string of the code is output and the tables agree again, up to a
\* clearing that is still to be read.
LEMMA CodeStep ==
    ASSUME CInv, P!SInv, Begins, Len(src) <= SRC_MAX,
           NEW c \in Byte \cup Dynamic, NEW clear \in BOOLEAN,
           Written(0, c, clear), Outstanding(c, clear),
           D!FirstCode(c) \/ D!NextCode(c), Take(1)
    PROVE  /\ P!SInv' /\ Begins' /\ d_status' = d_status
           /\ Len(dst) < Len(dst') /\ Len(dst') <= Len(src)
           /\ Idle' \/ Clearing' \/ Finished'
<1>1. /\ UNCHANGED <<src, table, queue, code_size, curr_code, bitpos, status>>
      /\ src \in Seq(Byte) /\ Len(src) \in Nat /\ Len(src) <= DST_CAP
      /\ code_size \in MIN_CODE_SIZE .. MAX_CODE_SIZE /\ Len(os) \in Nat
  BY RoundTripAssumption, ShrinkAssumption, LenProperties DEF CInv, TypeOK, Take
<1>2. /\ d_code_size = code_size /\ Len(os) = 1 + (IF clear THEN 2 ELSE 0)
      /\ clear => /\ os[2] = Item(CONTROL_CODE, code_size)
                  /\ os[3] = Item(PARTIAL_CLEAR, code_size)
      /\ c <= MaxOf(d_code_size)
  <2>1. /\ d_code_size + 0 = code_size /\ Len(os) = 2 * 0 + 1 + (IF clear THEN 2 ELSE 0)
        /\ clear => /\ os[2 * 0 + 2] = Item(CONTROL_CODE, code_size)
                    /\ os[2 * 0 + 3] = Item(PARTIAL_CLEAR, code_size)
        /\ c <= MaxOf(code_size)
    BY DEF Written
  <2>2. d_code_size \in Nat
    BY SizeFacts DEF P!SInv, P!IInv, P!TypeOK
  <2>. QED  BY <2>1, <2>2
<1>3. /\ Len(os') = Len(os) - 1 /\ \A k \in 1 .. Len(os') : os'[k] = os[1 + k]
      /\ os' \in Seq(StreamItem)
  <2>1. 1 \in 0 .. Len(os)
    BY <1>1, <1>2
  <2>. QED  BY <2>1, TakeInv
<1>4. PICK n : n = IF status = "ok" THEN Len(src) ELSE Len(src) - 1
  OBVIOUS
<1>5. Holds(c, n) /\ n \in Nat /\ Len(dst) < n /\ n <= Len(src)
  BY <1>4 DEF Outstanding, Holds
<1>6. Decodes(c, n) /\ P!SInv'
  BY <1>1, <1>2, <1>5, CodeDecodes
<1>7. /\ d_queue' = AheadQueue /\ EntriesOf(codetab') = EntriesOf(Ahead)
      /\ prev_code' = c /\ Len(dst') = n /\ Begins'
      /\ UNCHANGED <<d_code_size, d_status>>
  BY <1>6 DEF Decodes
<1>8. dst' \in Seq(Byte)
  BY <1>6, SameCodes DEF P!SInv, P!IInv, P!TypeOK
<1>9. CASE status = "ok"
  <2>1. ~clear
    BY <1>9 DEF Outstanding
  <2>2. os' = <<>>
    BY <1>2, <1>3, <2>1, EmptySeq
  <2>3. dst' = src'
    BY <1>1, <1>4, <1>7, <1>8, <1>9, SeqEqual DEF Begins
  <2>4. Finished'
    BY <1>1, <1>9, <2>2, <2>3 DEF Finished
  <2>. QED  BY <1>5, <1>6, <1>7, <2>4
<1>10. CASE status = "writing"
  <2>1. /\ Len(src') = Len(dst') + 1 /\ Len(dst') \in Nat /\ curr_code' = src'[Len(src')]
    BY <1>1, <1>4, <1>5, <1>7, <1>10 DEF Outstanding
  <2>2. CASE ~clear
    <3>1. os' = <<>>
      BY <1>2, <1>3, <2>2, EmptySeq
    <3>2. /\ table' = With(EntriesOf(codetab'), c, curr_code', code_queue_next(d_queue'))
          /\ queue' = code_queue_remove_next(d_queue')
      BY <1>1, <1>7, <1>10, <2>2 DEF Outstanding
    <3>3. Idle'
      BY <1>1, <1>2, <1>6, <1>7, <1>10, <2>1, <3>1, <3>2, IdleAgain
    <3>. QED  BY <1>5, <1>6, <1>7, <3>3
  <2>3. CASE clear
    <3>1. Cleared(EntriesOf(Ahead), c)
      BY <1>10, <2>3 DEF Outstanding
    <3>2. Cleared(EntriesOf(codetab), prev_code)'
      BY <3>1, <1>1, <1>7 DEF Cleared
    <3>3. Len(os') = 2 /\ os'[1] = os[2] /\ os'[2] = os[3]
      <4>1. Len(os') = 2
        BY <1>2, <1>3, <2>3
      <4>2. 1 \in 1 .. Len(os') /\ 2 \in 1 .. Len(os') /\ 1 + 1 = 2 /\ 1 + 2 = 3
        BY <4>1
      <4>. QED  BY <1>3, <4>1, <4>2
    <3>4. prev_code' # INVALID_CODE
      BY <1>7, CodeFacts
    <3>5. Clearing'
      BY <1>1, <1>2, <1>7, <1>10, <2>1, <2>3, <3>2, <3>3, <3>4 DEF Clearing
    <3>. QED  BY <1>5, <1>6, <1>7, <3>5
  <2>. QED  BY <2>2, <2>3
<1>. QED  BY <1>9, <1>10 DEF Outstanding

--------------------------------------------------------------------------------
(***************************************************************************)
(* The invariant is inductive.                                             *)
(***************************************************************************)
LEMMA InitRT == RTInit => RTInv
<1> SUFFICES ASSUME RTInit PROVE RTInv
  OBVIOUS
<1>1. CInv
  BY CompressorInit DEF RTInit
<1>2. P!SInv
  BY SameInit, P!InitStrings, CodeAssumption, CodeSizeAssumption, WidthAssumption, RoundTripAssumption
  DEF MaxOf, P!MaxOf, PARTIAL_CLEAR, P!PARTIAL_CLEAR, RTInit
<1>3. /\ src = <<>> /\ table = {} /\ queue = Dynamic /\ code_size = MIN_CODE_SIZE
      /\ curr_code = INVALID_CODE /\ os = <<>> /\ status = "writing"
  BY DEF RTInit, Init, code_queue_init
<1>4. /\ d_code_size = MIN_CODE_SIZE /\ d_queue = Dynamic /\ prev_code = INVALID_CODE
      /\ dst = <<>> /\ d_status = "reading"
      /\ \A c \in Dynamic : codetab[c].prefix_code = INVALID_CODE
  <2>1. P!Init
    BY SameInit DEF RTInit
  <2>2. \A c \in Dynamic : codetab[c].prefix_code = INVALID_CODE
    BY <2>1, SameCodes, CodeFacts, EntryFields DEF P!Init, P!codetab_init
  <2>. QED  BY <2>1, <2>2, SameCodes DEF P!Init, P!code_queue_init
<1>5. Ahead = codetab /\ AheadQueue = d_queue /\ EntriesOf(codetab) = {}
  BY <1>4 DEF Ahead, AheadOf, AheadQueue, EntriesOf
<1>6. Idle
  BY <1>3, <1>4, <1>5 DEF Idle
<1>7. Len(src) = 0 /\ Len(dst) = 0
  BY <1>3, <1>4, EmptySeq
<1>. QED  BY <1>1, <1>2, <1>3, <1>4, <1>6, <1>7, ShrinkAssumption DEF RTInv, Begins

\* When there is nothing to read, the compressor is at rest or done.
LEMMA NothingToRead ==
    ASSUME RTInv, d_status = "reading", status # "full", os = <<>> PROVE Idle \/ Finished
<1>1. Len(os) = 0
  BY EmptySeq
<1>2. ~Clearing
  BY <1>1 DEF Clearing
<1>3. ~Coded
  <2> SUFFICES ASSUME NEW m \in 0 .. MAX_CODE_SIZE, NEW c, NEW clear, Written(m, c, clear)
               PROVE  FALSE
    BY DEF Coded
  <2>1. m \in Nat /\ Len(os) = 2 * m + 1 + (IF clear THEN 2 ELSE 0)
    BY SizeFacts DEF Written
  <2>. QED  BY <1>1, <2>1
<1>. QED  BY <1>2, <1>3 DEF RTInv

LEMMA CompressKeeps == ASSUME RTInv, Compress PROVE RTInv'
<1>1. /\ CInv /\ P!SInv /\ Begins /\ Len(src) <= SRC_MAX /\ os = <<>> /\ Next
      /\ UNCHANGED dvars
  BY DEF RTInv, Compress
<1>2. status = "writing"
  BY <1>1 DEF Next, FirstByte, ExtendString, EmitCode, EmitCodeAndClear, NoRoom, Finish, Reads
<1>3. d_status = "reading" /\ Idle
  <2>1. d_status = "reading"
    BY <1>2 DEF RTInv, Finished
  <2>. QED  BY <1>1, <1>2, <2>1, NothingToRead DEF Finished
<1>4. CInv'
  BY <1>1, CompressorInv
<1>5. P!SInv' /\ d_status' = "reading"
  BY <1>1, <1>3, DNext DEF dvars, P!vars
<1>6. src \in Seq(Byte) /\ Len(src) \in Nat /\ SRC_MAX \in Nat
  BY <1>1, ShrinkAssumption, LenProperties DEF CInv, TypeOK
<1>7. ASSUME NEW b \in Byte, Reads(b)
      PROVE  Len(src') <= SRC_MAX
  <2>1. Len(src) < SRC_MAX /\ src' = Append(src, b)
    BY <1>7 DEF Reads
  <2>2. Len(src') = Len(src) + 1
    BY <1>6, <2>1, AppendProperties
  <2>. QED  BY <1>6, <2>1, <2>2
<1>8. ASSUME src' = src PROVE Begins' /\ Len(src') <= SRC_MAX
  BY <1>1, <1>8 DEF Begins, dvars
<1>9. status' = "full" => os' = <<>>
  BY <1>1, <1>2
  DEF Next, FirstByte, ExtendString, EmitCode, EmitCodeAndClear, NoRoom, Finish, GiveUp
<1>10. ASSUME NEW b \in Byte, FirstByte(b) PROVE RTInv'
  <2>1. Idle' /\ Begins' /\ Len(src') <= SRC_MAX
    BY <1>1, <1>3, <1>7, <1>10, FirstByteStep DEF FirstByte
  <2>. QED  BY <1>4, <1>5, <1>9, <2>1 DEF RTInv
<1>11. ASSUME NEW b \in Byte, ExtendString(b) PROVE RTInv'
  <2>1. Idle' /\ Begins' /\ Len(src') <= SRC_MAX
    BY <1>1, <1>3, <1>7, <1>11, ExtendStep DEF ExtendString
  <2>. QED  BY <1>4, <1>5, <1>9, <2>1 DEF RTInv
<1>12. ASSUME NEW b \in Byte, EmitCode(b) PROVE RTInv'
  <2>1. Coded' /\ Begins' /\ Len(src') <= SRC_MAX
    BY <1>1, <1>3, <1>7, <1>12, EmitStep DEF EmitCode
  <2>. QED  BY <1>4, <1>5, <1>9, <2>1 DEF RTInv
<1>13. ASSUME NEW b \in Byte, EmitCodeAndClear(b) PROVE RTInv'
  <2>1. Coded' /\ Begins' /\ Len(src') <= SRC_MAX
    BY <1>1, <1>3, <1>7, <1>13, EmitAndClearStep DEF EmitCodeAndClear
  <2>. QED  BY <1>4, <1>5, <1>9, <2>1 DEF RTInv
<1>14. ASSUME NEW b \in Byte, NoRoom(b) PROVE RTInv'
  <2>1. src' = src /\ status' = "full"
    BY <1>14 DEF NoRoom, GiveUp
  <2>. QED  BY <1>4, <1>5, <1>8, <1>9, <2>1 DEF RTInv
<1>15. ASSUME Finish PROVE RTInv'
  <2>1. src' = src
    BY <1>15 DEF Finish, GiveUp
  <2>2. status' = "full" \/ Finished' \/ Coded'
    BY <1>1, <1>3, <1>15, FinishStep
  <2>. QED  BY <1>4, <1>5, <1>8, <1>9, <2>1, <2>2 DEF RTInv
<1>. QED  BY <1>1, <1>10, <1>11, <1>12, <1>13, <1>14, <1>15 DEF Next

LEMMA ControlKeeps == ASSUME RTInv, ReadControl PROVE RTInv' /\ UNCHANGED <<src, dst, Outcome>>
<1>1. /\ CInv /\ P!SInv /\ Begins /\ Len(src) <= SRC_MAX
      /\ d_status = "reading" /\ status # "full"
      /\ Len(os) >= 2 /\ os[1].value = CONTROL_CODE /\ Take(2)
      /\ \/ os[2].value = INC_CODE_SIZE /\ D!ReadIncCodeSize
         \/ os[2].value = PARTIAL_CLEAR /\ D!ReadPartialClear
  BY DEF RTInv, ReadControl, Decompressing
<1>2. P!SInv' /\ UNCHANGED <<src, status, dst, d_status>>
  <2>1. P!Next
    BY <1>1, SameControl DEF P!Next
  <2>. QED  BY <1>1, <2>1, DNext DEF Take, D!ReadIncCodeSize, D!ReadPartialClear
<1>3. CInv'
  <2>1. Len(os) \in Nat
    BY <1>1, LenProperties DEF CInv, TypeOK
  <2>2. 2 \in 0 .. Len(os)
    BY <1>1, <2>1
  <2>. QED  BY <1>1, <2>2, TakeInv
<1>4. \A v, w : Item(v, w).value = v
  BY DEF Item
<1>5. Coded \/ Clearing
  <2>1. os # <<>>
    <3>1. os = <<>> => Len(os) = 0
      BY EmptySeq
    <3>. QED  BY <1>1, <3>1
  <2>. QED  BY <1>1, <2>1 DEF RTInv, Idle, Finished
<1>6. CASE Coded
  <2>1. PICK m \in 0 .. MAX_CODE_SIZE, c \in Byte \cup Dynamic, clear \in BOOLEAN :
           Written(m, c, clear) /\ Outstanding(c, clear)
    BY <1>6 DEF Coded
  <2>2. m # 0
    <3> SUFFICES ASSUME m = 0 PROVE FALSE
      OBVIOUS
    <3>1. os[2 * 0 + 1] = Item(c, code_size)
      BY <2>1 DEF Written
    <3>2. os[1].value = c
      BY <1>4, <3>1
    <3>. QED  BY <1>1, <3>2, CodeFacts
  <2>3. m \in 1 .. MAX_CODE_SIZE /\ m \in Nat
    BY <2>2, SizeFacts
  <2>4. os[2].value = INC_CODE_SIZE
    <3>1. 2 \in 1 .. 2 * m /\ 2 % 2 # 1
      BY <2>3
    <3>2. os[2] = Item(INC_CODE_SIZE, d_code_size + (2 - 1) \div 2)
      BY <2>1, <3>1 DEF Written
    <3>. QED  BY <1>4, <3>2
  <2>5. D!ReadIncCodeSize
    BY <1>1, <2>4 DEF INC_CODE_SIZE, PARTIAL_CLEAR
  <2>6. Coded'
    BY <1>1, <2>1, <2>3, <2>5, WidenStep
  <2>. QED  BY <1>1, <1>2, <1>3, <2>6 DEF RTInv, Begins, Outcome
<1>7. CASE Clearing
  <2>1. os[2].value = PARTIAL_CLEAR
    BY <1>4, <1>7 DEF Clearing
  <2>2. D!ReadPartialClear
    BY <1>1, <2>1 DEF INC_CODE_SIZE, PARTIAL_CLEAR
  <2>3. Idle'
    BY <1>1, <1>7, <2>2, ClearStep
  <2>. QED  BY <1>1, <1>2, <1>3, <2>3 DEF RTInv, Begins, Outcome
<1>. QED  BY <1>5, <1>6, <1>7

LEMMA CodeKeeps ==
    ASSUME RTInv, ReadCode
    PROVE  /\ RTInv' /\ UNCHANGED <<src, Outcome>> /\ Outcome = "open"
           /\ Len(dst) < Len(dst') /\ Len(dst') <= Len(src)
<1>1. /\ CInv /\ P!SInv /\ Begins /\ Len(src) <= SRC_MAX
      /\ d_status = "reading" /\ status # "full"
      /\ os # <<>> /\ os[1].value # CONTROL_CODE /\ Take(1)
      /\ D!FirstCode(os[1].value) \/ D!NextCode(os[1].value)
  BY DEF RTInv, ReadCode, Decompressing
<1>2. UNCHANGED <<src, status>>
  BY <1>1 DEF Take
<1>3. CInv'
  <2>1. 1 \in 0 .. Len(os)
    BY <1>1, EmptySeq DEF CInv, TypeOK
  <2>. QED  BY <1>1, <2>1, TakeInv
<1>4. \A v, w : Item(v, w).value = v
  BY DEF Item
<1>5. Coded
  BY <1>1, <1>4 DEF RTInv, Idle, Finished, Clearing
<1>6. PICK m \in 0 .. MAX_CODE_SIZE, c \in Byte \cup Dynamic, clear \in BOOLEAN :
         Written(m, c, clear) /\ Outstanding(c, clear)
  BY <1>5 DEF Coded
<1>7. m = 0
  <2> SUFFICES ASSUME m # 0 PROVE FALSE
    OBVIOUS
  <2>1. 1 \in 1 .. 2 * m /\ 1 % 2 = 1
    BY SizeFacts
  <2>2. os[1] = Item(CONTROL_CODE, d_code_size + (1 - 1) \div 2)
    BY <1>6, <2>1 DEF Written
  <2>. QED  BY <1>1, <1>4, <2>2
<1>8. os[1].value = c
  <2>1. os[2 * 0 + 1] = Item(c, code_size)
    BY <1>6, <1>7 DEF Written
  <2>. QED  BY <1>4, <2>1
<1>9. /\ P!SInv' /\ Begins' /\ d_status' = d_status
      /\ Len(dst) < Len(dst') /\ Len(dst') <= Len(src)
      /\ Idle' \/ Clearing' \/ Finished'
  BY <1>1, <1>6, <1>7, <1>8, CodeStep
<1>. QED  BY <1>1, <1>2, <1>3, <1>9 DEF RTInv, Outcome

LEMMA EndKeeps ==
    ASSUME RTInv, ReadEnd
    PROVE  /\ RTInv' /\ UNCHANGED <<src, dst>> /\ dst = src
           /\ Outcome = "open" /\ Outcome' = "done"
<1>1. /\ CInv /\ P!SInv /\ Begins /\ Len(src) <= SRC_MAX
      /\ d_status = "reading" /\ os = <<>> /\ status = "ok" /\ D!EndOfStream /\ Take(0)
  BY DEF RTInv, ReadEnd, Decompressing
<1>2. Finished
  BY <1>1, NothingToRead DEF Idle
<1>3. P!SInv'
  BY <1>1, SameControl, DNext DEF P!Next
<1>4. d_status' = "ok" /\ UNCHANGED <<src, dst, status>>
  BY <1>1 DEF D!EndOfStream, D!Return, Take
<1>5. CInv' /\ os' = <<>>
  <2>1. 0 \in 0 .. Len(os) /\ Len(os) = 0
    BY <1>1, EmptySeq
  <2>2. CInv' /\ Len(os') = 0 /\ os' \in Seq(StreamItem)
    BY <1>1, <2>1, TakeInv
  <2>. QED  BY <2>2, EmptySeq
<1>6. Finished'
  BY <1>1, <1>2, <1>4, <1>5 DEF Finished
<1>. QED  BY <1>1, <1>2, <1>3, <1>4, <1>5, <1>6 DEF RTInv, Begins, Finished, Outcome

LEMMA StutterKeeps == ASSUME RTInv, UNCHANGED RTvars PROVE RTInv'
<1>1. UNCHANGED <<src, table, queue, code_size, curr_code, os, bitpos, status>>
      /\ UNCHANGED <<d_code_size, codetab, d_queue, prev_code, first_byte, dst, d_status>>
  BY DEF RTvars, vars, dvars
<1>2. P!SInv'
  BY <1>1, DNext DEF P!vars, RTInv
<1>3. CInv'
  BY <1>1 DEF RTInv, CInv, TypeOK, CodesUnique, CurrCodeInTable
<1>4. Ahead' = Ahead /\ AheadQueue' = AheadQueue
  BY <1>1 DEF Ahead, AheadQueue
<1>5. \A c, n : StandsFor(Ahead, c, n)' <=> StandsFor(Ahead, c, n)
  BY <1>1, <1>4 DEF StandsFor, KnownIn, LiveIn, Repeats
<1>6. Idle => Idle'
  BY <1>1, <1>4, <1>5 DEF Idle, Holds
<1>7. Coded => Coded'
  BY <1>1, <1>4, <1>5 DEF Coded, Written, Outstanding, Holds, Cleared
<1>8. (Clearing => Clearing') /\ (Finished => Finished')
  BY <1>1 DEF Clearing, Finished, Cleared
<1>. QED  BY <1>1, <1>2, <1>3, <1>6, <1>7, <1>8 DEF RTInv, Begins

LEMMA NextRT == RTInv /\ [RTNext]_RTvars => RTInv'
  BY CompressKeeps, ControlKeeps, CodeKeeps, EndKeeps, StutterKeeps DEF RTNext

--------------------------------------------------------------------------------
(***************************************************************************)
(* What the invariant says about the two ends.                             *)
(***************************************************************************)
LEMMA WidthsFollow == RTInv => WidthsAgree
<1> SUFFICES ASSUME RTInv, d_status = "reading", os # <<>>
             PROVE  /\ os[1].width = d_code_size
                    /\ os[1].value = CONTROL_CODE => Len(os) >= 2 /\ os[2].width = d_code_size
  BY DEF WidthsAgree
<1>1. \A v, w : Item(v, w).value = v /\ Item(v, w).width = w
  BY DEF Item
<1>2. Coded \/ Clearing
  BY DEF RTInv, Idle, Finished
<1>3. CASE Clearing
  <2>1. Len(os) >= 2
    BY <1>3 DEF Clearing
  <2>. QED  BY <1>1, <1>3, <2>1 DEF Clearing
<1>4. CASE Coded
  <2>1. PICK m \in 0 .. MAX_CODE_SIZE, c \in Byte \cup Dynamic, clear \in BOOLEAN :
           Written(m, c, clear)
    BY <1>4 DEF Coded
  <2>2. d_code_size \in Nat
    BY SizeFacts DEF RTInv, P!SInv, P!IInv, P!TypeOK
  <2>3. CASE m = 0
    <3>1. os[2 * 0 + 1] = Item(c, code_size) /\ d_code_size + 0 = code_size
      BY <2>1, <2>3 DEF Written
    <3>2. os[1] = Item(c, code_size) /\ d_code_size = code_size
      BY <2>2, <3>1
    <3>. QED  BY <1>1, <3>2, CodeFacts
  <2>4. CASE m # 0
    <3>1. m \in Nat \ {0} /\ 1 \in 1 .. 2 * m /\ 2 \in 1 .. 2 * m
          /\ (1 - 1) \div 2 = 0 /\ (2 - 1) \div 2 = 0
      BY <2>4, SizeFacts
    <3>2. \A k \in 1 .. 2 * m : os[k].width = d_code_size + (k - 1) \div 2
      BY <1>1, <2>1 DEF Written
    <3>3. os[1].width = d_code_size /\ os[2].width = d_code_size
      BY <2>2, <3>1, <3>2
    <3>4. Len(os) >= 2
      <4>1. Len(os) = 2 * m + 1 + (IF clear THEN 2 ELSE 0)
        BY <2>1 DEF Written
      <4>. QED  BY <3>1, <4>1
    <3>. QED  BY <3>3, <3>4
  <2>. QED  BY <2>3, <2>4
<1>. QED  BY <1>2, <1>3, <1>4

LEMMA TablesFollow == RTInv => TablesAgree
<1> SUFFICES ASSUME RTInv, os = <<>>, prev_code # INVALID_CODE, status = "writing"
             PROVE  /\ queue \subseteq d_queue
                    /\ Cardinality(d_queue \ queue) <= 1
                    /\ Decoded = {e \in table : e.code \notin d_queue}
  BY DEF TablesAgree
<1> DEFINE new == code_queue_next(d_queue)
           byte == src[Len(dst) + 1]
<1>1. P!SInv /\ Idle
  <2>1. d_status = "reading"
    BY DEF RTInv, Finished
  <2>. QED  BY <2>1, NothingToRead DEF RTInv, Finished
<1>2. /\ codetab \in [Code -> P!CodeEntry] /\ d_queue \subseteq Dynamic /\ prev_code \in Code
      /\ \A c \in d_queue : codetab[c].prefix_code = INVALID_CODE
  BY <1>1, DFacts, PrevFacts
<1>3. queue = d_queue \ {new}
  BY <1>1 DEF Idle, AheadQueue, code_queue_remove_next
<1>4. Cardinality(d_queue \ queue) <= 1
  <2>1. d_queue \ queue = {} \/ d_queue \ queue = {new}
    BY <1>3
  <2>2. CASE d_queue \ queue = {}
    <3>1. Cardinality(d_queue \ queue) = 0
      BY <2>2, FS_EmptySet
    <3>. QED  BY <3>1
  <2>3. CASE d_queue \ queue = {new}
    <3>1. Cardinality(d_queue \ queue) = 1
      BY <2>3, FS_Singleton
    <3>. QED  BY <3>1
  <2>. QED  BY <2>1, <2>2, <2>3
<1>5. Decoded = EntriesOf(codetab)
  BY SameCodes DEF Decoded, EntriesOf, Ent, D!Valid
<1>6. table = With(EntriesOf(codetab), prev_code, byte, new)
  <2>1. table = EntriesOf(AheadOf(codetab, d_queue, prev_code, byte))
    BY <1>1 DEF Idle, Ahead
  <2>. QED  BY <1>2, <2>1, AddedEntry
<1>7. \A e \in EntriesOf(codetab) : e.code \notin d_queue
  BY <1>2 DEF EntriesOf, Ent
<1>8. new # INVALID_CODE => Ent(prev_code, byte, new).code \in d_queue
  BY <1>1, AddedFacts DEF Ent
<1> HIDE DEF new, byte
<1>9. EntriesOf(codetab) = {e \in table : e.code \notin d_queue}
  BY <1>6, <1>7, <1>8 DEF With
<1>. QED  BY <1>3, <1>4, <1>5, <1>9

\* Whatever the input and however small or large the tables are, the compressor's
\* table stays sound, both ends agree on the width of every code, and the
\* decompressor has the compressor's strings but for the one it adds next:
\* partial clearings and codes used before they are known do not part them.
THEOREM BothEndsInLockstep == RTSpec => []Lockstep
<1>1. RTInit => RTInv
  BY InitRT
<1>2. RTInv /\ [RTNext]_RTvars => RTInv'
  BY NextRT
<1>3. RTInv => Lockstep
  <2> SUFFICES ASSUME RTInv PROVE Lockstep
    OBVIOUS
  <2>1. WidthsAgree /\ TablesAgree
    BY WidthsFollow, TablesFollow
  <2>. QED  BY <2>1 DEF Lockstep, RTInv, CInv
<1>. QED  BY <1>1, <1>2, <1>3, PTL DEF RTSpec

--------------------------------------------------------------------------------
(***************************************************************************)
(* Every step is a step of the abstract specification, or changes nothing  *)
(* it speaks of.                                                           *)
(***************************************************************************)
cvars == <<src, dst, Outcome>>

LEMMA CompressImplements ==
    ASSUME RTInv, Compress PROVE Codec!Next \/ UNCHANGED cvars
<1>1. CInv /\ Next /\ UNCHANGED <<dst, d_status>>
  BY DEF RTInv, Compress, dvars
<1>2. status = "writing" /\ d_status = "reading"
  <2>1. status = "writing"
    BY <1>1 DEF Next, FirstByte, ExtendString, EmitCode, EmitCodeAndClear, NoRoom, Finish, Reads
  <2>. QED  BY <2>1 DEF RTInv, Finished
<1>3. Outcome = "open"
  BY <1>2 DEF Outcome
<1>4. ASSUME NEW b \in Byte, Reads(b), status' = status PROVE Codec!Accept
  <2>1. src \in Seq(Byte) /\ src' = Append(src, b) /\ Len(src) \in Nat
    BY <1>1, <1>4, LenProperties DEF CInv, TypeOK, Reads
  <2>2. /\ src' \in Seq(Byte) /\ Len(src') = Len(src) + 1 /\ Len(src) < Len(src')
        /\ \A i \in 1 .. Len(src) : src'[i] = src[i]
    BY <2>1, AppendProperties
  <2>3. SubSeq(src', 1, Len(src)) = src
    <3> DEFINE t == SubSeq(src', 1, Len(src))
    <3>1. \A i \in 1 .. Len(src) : src'[i] \in Byte
      BY <2>1, <2>2, ElementOfSeq
    <3>2. /\ t \in Seq(Byte) /\ Len(t) = IF 1 <= Len(src) THEN Len(src) - 1 + 1 ELSE 0
          /\ \A i \in 1 .. Len(src) - 1 + 1 : t[i] = src'[1 + i - 1]
      BY <2>1, <3>1, SubSeqProperties
    <3> HIDE DEF t
    <3>3. Len(t) = Len(src) /\ \A i \in 1 .. Len(t) : t[i] = src[i]
      BY <2>1, <2>2, <3>2
    <3>4. t = src
      BY <2>1, <3>2, <3>3, SeqEqual
    <3>. QED  BY <3>4 DEF t
  <2>4. Outcome' = Outcome
    BY <1>1, <1>4 DEF Outcome
  <2>. QED  BY <1>1, <1>3, <2>1, <2>2, <2>3, <2>4 DEF Codec!Accept
<1>5. ASSUME GiveUp PROVE Codec!GiveUp
  BY <1>1, <1>3, <1>5 DEF GiveUp, Codec!GiveUp, Outcome
<1>6. CASE Finish
  <2>1. CASE GiveUp
    BY <1>5, <2>1 DEF Codec!Next
  <2>2. CASE status' = "ok" /\ src' = src
    BY <1>1, <1>2, <2>2 DEF Outcome, cvars
  <2>. QED  BY <1>6, <2>1, <2>2 DEF Finish
<1>7. CASE \E b \in Byte : NoRoom(b)
  BY <1>5, <1>7 DEF NoRoom, Codec!Next
<1>8. CASE \E b \in Byte : FirstByte(b) \/ ExtendString(b) \/ EmitCode(b) \/ EmitCodeAndClear(b)
  BY <1>4, <1>8 DEF FirstByte, ExtendString, EmitCode, EmitCodeAndClear, Codec!Next
<1>. QED  BY <1>1, <1>6, <1>7, <1>8 DEF Next

LEMMA CodeImplements == ASSUME RTInv, ReadCode PROVE Codec!Next
<1>1. /\ RTInv' /\ UNCHANGED <<src, Outcome>> /\ Outcome = "open"
      /\ Len(dst) < Len(dst') /\ Len(dst') <= Len(src)
  BY CodeKeeps
<1>2. /\ src \in Seq(Byte) /\ Len(src) \in Nat /\ Len(dst) \in Nat
  BY DFacts, LenProperties DEF RTInv, CInv, TypeOK
<1>3. dst' \in Seq(Byte) /\ Len(dst') \in Nat /\ \A i \in 1 .. Len(dst') : dst'[i] = src[i]
  <2>1. dst' \in Seq(Byte)
    BY <1>1, SameCodes DEF RTInv, P!SInv, P!IInv, P!TypeOK
  <2>. QED  BY <1>1, <2>1, LenProperties DEF RTInv, Begins
<1>4. PICK n \in Nat : n = Len(dst')
  BY <1>3
<1>5. dst' = SubSeq(src, 1, n)
  <2> DEFINE t == SubSeq(src, 1, n)
  <2>1. \A i \in 1 .. n : src[i] \in Byte
    <3>1. \A i \in 1 .. n : i \in 1 .. Len(src)
      BY <1>1, <1>2, <1>4
    <3>. QED  BY <1>2, <3>1, ElementOfSeq
  <2>2. /\ t \in Seq(Byte) /\ Len(t) = IF 1 <= n THEN n - 1 + 1 ELSE 0
        /\ \A i \in 1 .. n - 1 + 1 : t[i] = src[1 + i - 1]
    BY <2>1, SubSeqProperties
  <2> HIDE DEF t
  <2>3. Len(t) = n /\ \A i \in 1 .. n : t[i] = src[i]
    BY <2>2
  <2>4. dst' = t
    BY <1>3, <1>4, <2>2, <2>3, SeqEqual
  <2>. QED  BY <2>4 DEF t
<1>6. n \in Len(dst) + 1 .. Len(src)
  BY <1>1, <1>2, <1>4
<1>7. Codec!Deliver
  BY <1>1, <1>5, <1>6 DEF Codec!Deliver
<1>. QED  BY <1>7 DEF Codec!Next

LEMMA EndImplements == ASSUME RTInv, ReadEnd PROVE Codec!Next
<1>1. UNCHANGED <<src, dst>> /\ dst = src /\ Outcome = "open" /\ Outcome' = "done"
  BY EndKeeps
<1>. QED  BY <1>1 DEF Codec!Next, Codec!Finish

\* Shrink is lossless, for every input and every size of codes, table and
\* output: hwunshrink delivers the input of hwshrink in order, always a beginning
\* of it, and is done with all of it, unless hwshrink gave up for want of room.
THEOREM ShrinkIsLossless == RTSpec => ImplementsLossless
<1>1. RTInit => RTInv
  BY InitRT
<1>2. RTInv /\ [RTNext]_RTvars => RTInv'
  BY NextRT
<1>3. RTInit => Codec!Init
  BY DEF RTInit, Init, D!Init, Codec!Init, Outcome
<1>4. RTInv /\ [RTNext]_RTvars => [Codec!Next]_<<src, dst, Outcome>>
  <2> SUFFICES ASSUME RTInv, [RTNext]_RTvars
               PROVE  Codec!Next \/ UNCHANGED <<src, dst, Outcome>>
    OBVIOUS
  <2>1. CASE Compress
    BY <2>1, CompressImplements DEF cvars
  <2>2. CASE ReadControl
    BY <2>2, ControlKeeps
  <2>3. CASE ReadCode
    BY <2>3, CodeImplements
  <2>4. CASE ReadEnd
    BY <2>4, EndImplements
  <2>5. CASE UNCHANGED RTvars
    BY <2>5 DEF RTvars, vars, dvars, Outcome
  <2>. QED  BY <2>1, <2>2, <2>3, <2>4, <2>5 DEF RTNext
<1>. QED  BY <1>1, <1>2, <1>3, <1>4, PTL DEF RTSpec, ImplementsLossless, Codec!Spec
================================================================================
