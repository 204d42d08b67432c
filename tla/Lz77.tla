---------------------------------- MODULE Lz77 ----------------------------------
(***************************************************************************)
(* lz77_compress of hwzip/lz77.c: the input is turned into literals and    *)
(* back references, each passed to a callback.  Earlier occurrences are    *)
(* found along chains of positions with equal hashes; a match is only used *)
(* when the next position has no longer one (lazy matching).               *)
(*                                                                         *)
(* Positions count from 0, as in C.  Reduce, Implode and Deflate call it   *)
(* with their own limits.                                                  *)
(***************************************************************************)
EXTENDS Integers, Sequences

CONSTANTS
    Bytes,           \* the values of a byte
    MIN_LEN,         \* 4 in the code: the shortest back reference
    LZ_WND_SIZE,     \* 32768 in the code: positions kept in the chains
    HashValue,       \* the hash values
    hash4(_),        \* the hash of MIN_LEN bytes
    NO_POS,          \* SIZE_MAX in the code: the end of a chain
    JUNK,            \* what an uninitialized slot of prev holds
    MAX_STEPS,       \* 4096 in the code: candidates tried for one match
    GOOD_LEN,        \* 32 in the code: a match for which fewer are tried
    MaxDists,        \* the values of max_dist callers use
    MaxLens,         \* the values of max_len callers use
    SRC_MAX          \* bound of the model: the longest input

ASSUME Lz77Assumption ==
    /\ MIN_LEN \in Nat \ {0, 1} /\ LZ_WND_SIZE \in Nat \ {0}
    /\ NO_POS \notin Nat /\ JUNK \notin Nat /\ NO_POS # JUNK
    /\ MAX_STEPS \in Nat \ {0} /\ GOOD_LEN \in Nat
    /\ MaxLens \subseteq Nat /\ SRC_MAX \in Nat

\* No caller asks for more than the window: Deflate 32768, Implode 8192,
\* Reduce at most 4096.
ASSUME WindowAssumption == MaxDists \subseteq 1 .. LZ_WND_SIZE

ASSUME HashAssumption == \A s \in [1 .. MIN_LEN -> Bytes] : hash4(s) \in HashValue

VARIABLES
    src, max_dist, max_len, allow_overlap,   \* the arguments
    pc,              \* where the function is
    i,               \* the loop variable
    head,            \* the last position with each hash
    prev,            \* for the last positions, the one before with the same hash
    prev_match_len,  \* the deferred match of position i - 1, 0 if there is none
    prev_match_pos,
    cand,            \* find_match: the position looked at
    steps,           \* find_match: max_match_steps
    match_len,       \* find_match: the best so far, 0 if there is none
    match_pos,
    j,               \* positions below j are in the chains
    dst,             \* what the tokens passed to the callbacks stand for
    backref          \* the last back reference passed to its callback

args == <<src, max_dist, max_len, allow_overlap>>
find == <<cand, steps, match_len, match_pos>>
chains == <<head, prev, j>>
deferred == <<prev_match_len, prev_match_pos>>
tokens == <<dst, backref>>
vars == <<args, pc, i, find, chains, deferred, tokens>>

Inputs == UNION {[1 .. n -> Bytes] : n \in 0 .. SRC_MAX}

NoBackref == [dist |-> 0, len |-> 0]

Init ==
    /\ src \in Inputs /\ max_dist \in MaxDists /\ max_len \in MaxLens
    /\ allow_overlap \in BOOLEAN
    /\ pc = "loop" /\ i = 0 /\ j = 0
    /\ head = [h \in HashValue |-> NO_POS]
    /\ prev = [s \in 0 .. LZ_WND_SIZE - 1 |-> JUNK]
    /\ prev_match_len = 0 /\ prev_match_pos = NO_POS
    /\ cand = NO_POS /\ steps = 0 /\ match_len = 0 /\ match_pos = NO_POS
    /\ dst = <<>> /\ backref = NoBackref

src_len == Len(src)
Lower(a, b) == IF a < b THEN a ELSE b

\* hash4(&src[p])
HashAt(p) == hash4(SubSeq(src, p + 1, p + MIN_LEN))

\* Positions from which MIN_LEN bytes can be read.
Hashable(p) == p + MIN_LEN - 1 < src_len

--------------------------------------------------------------------------------
(***************************************************************************)
(* find_match.                                                             *)
(***************************************************************************)
max_match_len == Lower(max_len, src_len - i)

\* What a match must exceed at first: the deferred one, or the length that is
\* just too short; and from then on the best so far.
Need == IF prev_match_len = 0 THEN MIN_LEN - 1 ELSE prev_match_len

ToBeat == IF match_len = 0 THEN Need ELSE match_len

StartFind ==
    /\ pc = "loop" /\ Hashable(i)
    /\ match_len' = 0
    /\ IF Need >= max_match_len
       THEN pc' = "decide" /\ UNCHANGED <<cand, steps>>
       ELSE /\ pc' = "walk"
            /\ cand' = head[HashAt(i)]
            /\ steps' = IF Need >= GOOD_LEN THEN MAX_STEPS \div 4 ELSE MAX_STEPS
    /\ UNCHANGED <<args, i, match_pos, chains, deferred, tokens>>

Found(l) ==
    /\ match_len' = l /\ match_pos' = cand

Slot(p) == p % LZ_WND_SIZE

NextCand == cand' = prev[Slot(cand)] /\ steps' = steps - 1

InReach == cand # NO_POS /\ steps > 0 /\ i - cand <= max_dist

WalkEnds ==
    /\ pc = "walk" /\ ~InReach
    /\ pc' = "decide"
    /\ UNCHANGED <<args, i, find, chains, deferred, tokens>>

\* Mutant of max_cmp: a match may run into itself.
max_cmp_overlapping(p) == max_match_len

\* The length a match with position p may have.
max_cmp(p) == IF allow_overlap THEN max_match_len ELSE Lower(max_match_len, i - p)

\* cmp: how many bytes from p are those from i, up to max.
Common(p, max) ==
    CHOOSE l \in 0 .. max :
        /\ \A k \in 1 .. l : src[p + k] = src[i + k]
        /\ l < max => src[p + l + 1] # src[i + l + 1]

\* Mutant of WalkPasses: a candidate that is too close is tried again and again.
WalkPassesNobody ==
    /\ pc = "walk" /\ InReach
    /\ max_cmp(cand) <= ToBeat \/ Common(cand, max_cmp(cand)) <= ToBeat
    /\ IF max_cmp(cand) <= ToBeat THEN UNCHANGED <<cand, steps>> ELSE NextCand
    /\ UNCHANGED <<args, pc, i, match_len, match_pos, chains, deferred, tokens>>

\* Not longer than what there is: too close, or different within that length.
WalkPasses ==
    /\ pc = "walk" /\ InReach
    /\ max_cmp(cand) <= ToBeat \/ Common(cand, max_cmp(cand)) <= ToBeat
    /\ NextCand
    /\ UNCHANGED <<args, pc, i, match_len, match_pos, chains, deferred, tokens>>

\* Mutant of WalkFinds: the first match that is long enough is taken.
WalkFindsFirst ==
    LET l == Common(cand, max_cmp(cand))
    IN  /\ pc = "walk" /\ InReach
        /\ max_cmp(cand) > ToBeat /\ l > ToBeat
        /\ Found(l)
        /\ pc' = "decide"
        /\ UNCHANGED <<args, i, cand, steps, chains, deferred, tokens>>

WalkFinds ==
    LET l == Common(cand, max_cmp(cand))
    IN  /\ pc = "walk" /\ InReach
        /\ max_cmp(cand) > ToBeat /\ l > ToBeat
        /\ Found(l)
        /\ IF l = max_match_len THEN pc' = "decide" /\ UNCHANGED <<cand, steps>>
                                ELSE NextCand /\ UNCHANGED pc
        /\ UNCHANGED <<args, i, chains, deferred, tokens>>

--------------------------------------------------------------------------------
(***************************************************************************)
(* The loop of lz77_compress, after find_match.                            *)
(***************************************************************************)
\* Mutant of insert_hash: head is set before it is read.
insert_hash_head_first(p) ==
    /\ head' = [head EXCEPT ![HashAt(p)] = p]
    /\ prev' = [prev EXCEPT ![Slot(p)] = p]
    /\ j' = p + 1

insert_hash(p) ==
    /\ prev' = [prev EXCEPT ![Slot(p)] = head[HashAt(p)]]
    /\ head' = [head EXCEPT ![HashAt(p)] = p]
    /\ j' = p + 1

OutputLit(p) == dst' = Append(dst, src[p + 1]) /\ UNCHANGED backref

\* lz77_output_backref copies byte by byte, so a reference that overlaps what
\* it produces repeats it.
OutputBackref(dist, len) ==
    /\ dst' = dst \o [k \in 1 .. len |-> dst[Len(dst) - dist + 1 + ((k - 1) % dist)]]
    /\ backref' = [dist |-> dist, len |-> len]

\* Mutant of UsePrevious: one byte too far, as if the match began at i.
UsePreviousFromHere ==
    /\ pc = "decide" /\ prev_match_len # 0 /\ prev_match_len >= match_len
    /\ OutputBackref((i - 1) - prev_match_pos, prev_match_len)
    /\ insert_hash(i)
    /\ i' = Lower(i + prev_match_len, src_len)
    /\ prev_match_len' = 0
    /\ pc' = "skip"
    /\ UNCHANGED <<args, find, prev_match_pos>>

\* The deferred match is at least as good as the current: the loop goes on
\* behind it.
UsePrevious ==
    /\ pc = "decide" /\ prev_match_len # 0 /\ prev_match_len >= match_len
    /\ OutputBackref((i - 1) - prev_match_pos, prev_match_len)
    /\ insert_hash(i)
    /\ i' = (i - 1) + prev_match_len
    /\ prev_match_len' = 0
    /\ pc' = "skip"
    /\ UNCHANGED <<args, find, prev_match_pos>>

\* The positions inside the match go into the chains too.
InsertSkipped ==
    /\ pc = "skip"
    /\ IF j < Lower(i, src_len - (MIN_LEN - 1))
       THEN insert_hash(j) /\ UNCHANGED pc
       ELSE pc' = "loop" /\ UNCHANGED chains
    /\ UNCHANGED <<args, i, find, deferred, tokens>>

NoMatch ==
    /\ pc = "decide" /\ prev_match_len = 0 /\ match_len = 0
    /\ OutputLit(i)
    /\ insert_hash(i)
    /\ i' = i + 1
    /\ pc' = "loop"
    /\ UNCHANGED <<args, find, deferred>>

\* The current match is better than the deferred one: that one's first byte
\* becomes a literal, and the current match is deferred in turn.
DeferMatch ==
    /\ pc = "decide" /\ match_len > prev_match_len
    /\ IF prev_match_len # 0 THEN OutputLit(i - 1) ELSE UNCHANGED tokens
    /\ insert_hash(i)
    /\ prev_match_len' = match_len /\ prev_match_pos' = match_pos
    /\ i' = i + 1
    /\ pc' = "loop"
    /\ UNCHANGED <<args, find>>

\* Too few bytes left for a match: the deferred one, then literals.
LoopEnds ==
    /\ pc = "loop" /\ ~Hashable(i)
    /\ pc' = "rest"
    /\ prev_match_len' = 0
    /\ IF prev_match_len # 0
       THEN /\ OutputBackref((i - 1) - prev_match_pos, prev_match_len)
            /\ i' = (i - 1) + prev_match_len
       ELSE UNCHANGED <<i, tokens>>
    /\ UNCHANGED <<args, find, chains, prev_match_pos>>

Rest ==
    /\ pc = "rest"
    /\ IF i < src_len
       THEN OutputLit(i) /\ i' = i + 1 /\ UNCHANGED pc
       ELSE pc' = "done" /\ UNCHANGED <<i, tokens>>
    /\ UNCHANGED <<args, find, chains, deferred>>

\* A callback returns false (its output is full): the function returns at once.
CallbackFails ==
    /\ \/ pc = "decide" /\ (prev_match_len # 0 \/ match_len = 0)
       \/ pc = "loop" /\ ~Hashable(i) /\ prev_match_len # 0
       \/ pc = "rest" /\ i < src_len
    /\ pc' = "failed"
    /\ UNCHANGED <<args, i, find, chains, deferred, tokens>>

Next ==
    \/ StartFind \/ WalkEnds \/ WalkPasses \/ WalkFinds
    \/ UsePrevious \/ InsertSkipped \/ NoMatch \/ DeferMatch
    \/ LoopEnds \/ Rest \/ CallbackFails

\* A loop that runs to its end.
Spec == Init /\ [][Next]_vars /\ WF_vars(Next)

--------------------------------------------------------------------------------
(***************************************************************************)
(* Properties                                                              *)
(***************************************************************************)
Positions == 0 .. src_len

TypeOK ==
    /\ src \in Inputs /\ max_dist \in MaxDists /\ max_len \in MaxLens
    /\ allow_overlap \in BOOLEAN
    /\ pc \in {"loop", "walk", "decide", "skip", "rest", "done", "failed"}
    /\ i \in Positions /\ j \in Positions
    /\ head \in [HashValue -> Positions \cup {NO_POS}]
    /\ prev \in [0 .. LZ_WND_SIZE - 1 -> Positions \cup {NO_POS, JUNK}]
    /\ prev_match_len \in Nat /\ match_len \in Nat
    /\ prev_match_pos \in Positions \cup {NO_POS}
    /\ match_pos \in Positions \cup {NO_POS}
    /\ cand \in Positions \cup {NO_POS}
    /\ steps \in 0 .. MAX_STEPS
    /\ dst \in Seq(Bytes)
    /\ backref \in [dist : Nat, len : Nat]

\* The bytes of l positions from p and from q are the same.
Same(p, q, l) == \A k \in 1 .. l : src[p + k] = src[q + k]

\* The tokens stand for the input up to the position of the loop, less the one
\* byte whose match is deferred; in the end for the whole input.  No byte is
\* lost or doubled when a match is dropped for a better one or skipped over.
Covered ==
    /\ dst = SubSeq(src, 1, Len(dst))
    /\ pc # "failed" => Len(dst) = (IF prev_match_len # 0 THEN i - 1 ELSE i)
    /\ pc = "done" => dst = src

\* What the callbacks of Reduce, Implode and Deflate rely on: a back reference
\* points into the output, within the limits they asked for, and does not
\* overlap itself when that is not allowed.
BackrefsLegal ==
    backref # NoBackref =>
        /\ backref.dist \in 1 .. max_dist
        /\ backref.dist <= Len(dst) - backref.len
        /\ backref.len \in MIN_LEN .. max_len
        /\ allow_overlap \/ backref.len <= backref.dist

Tokens == INSTANCE LzTokens

\* What the callbacks get are tokens as module LzTokens has them, with which the
\* compressors are checked: the next byte, or a back reference within the limits
\* asked for that repeats earlier bytes; and dst is what a decompressor makes of
\* them.
TokensLegal ==
    [][\/ Len(dst) < src_len /\ dst' = Append(dst, src[Len(dst) + 1])
       \/ \E r \in Tokens!Backrefs(src, Len(dst), max_dist, max_len, allow_overlap) :
             dst' = Tokens!output_backref(dst, r.dist, r.len)]_dst

(***************************************************************************)
(* The inductive invariant behind Covered and BackrefsLegal.               *)
(***************************************************************************)
\* A match the callers accept: the l bytes from q also start at p.
MatchAt(q, p, l) ==
    /\ p \in 0 .. q - 1 /\ q - p <= max_dist
    /\ l \in MIN_LEN .. max_len /\ q + l <= src_len
    /\ allow_overlap \/ l <= q - p
    /\ Same(p, q, l)

\* The best match so far is one for this position, the deferred one for the
\* position before.
MatchesInv ==
    /\ pc \in {"walk", "decide"} /\ match_len # 0 => MatchAt(i, match_pos, match_len)
    /\ prev_match_len # 0 => MatchAt(i - 1, prev_match_pos, prev_match_len)
    /\ pc \in {"skip", "rest", "done"} => prev_match_len = 0

\* Every position below j is in the chains, so its slot was written, and the
\* chains hold nothing from j on: a walk only sees earlier positions.
ChainsInv ==
    /\ j <= i
    /\ pc \in {"walk", "decide"} => Hashable(i)
    /\ pc \in {"loop", "walk", "decide"} /\ Hashable(i) => j = i
    /\ \A h \in HashValue : head[h] \in (0 .. j - 1) \cup {NO_POS}
    /\ \A p \in 0 .. j - 1 : prev[Slot(p)] \in (0 .. j - 1) \cup {NO_POS}
    /\ cand \in (0 .. j - 1) \cup {NO_POS}

IInv == TypeOK /\ ChainsInv /\ MatchesInv /\ Covered /\ BackrefsLegal

\* The last position before p with the same hash.
Before(p, h) ==
    LET earlier == {q \in 0 .. p - 1 : HashAt(q) = h}
    IN  IF earlier = {} THEN NO_POS ELSE CHOOSE q \in earlier : \A r \in earlier : r <= q

\* The chains hold every position once, newest first; a slot that was used
\* again is out of reach before it could lead a walk into another chain or
\* forward, and no slot is read before it was written.
ChainsExact ==
    /\ \A h \in HashValue : head[h] = Before(j, h)
    /\ \A p \in 0 .. j - 1 : p >= j - LZ_WND_SIZE => prev[Slot(p)] = Before(p, HashAt(p))
    /\ pc \in {"loop", "walk", "decide"} => j = Lower(i, src_len - (MIN_LEN - 1)) \/ i = 0
    /\ pc = "walk" /\ InReach => cand < i /\ cand >= j - LZ_WND_SIZE

\* find_match returns the longest match in reach that is long enough, and of
\* these the most recent, unless it ran out of steps: hashing, chains and the
\* comparison from the far end skip no candidate.
FindsLongest ==
    LET reach == {p \in 0 .. i - 1 : i - p <= max_dist}
        length(p) == Common(p, max_cmp(p))
        long == {p \in reach : length(p) > Need}
    IN  pc = "decide" =>
            /\ match_len = 0 => long = {} \/ steps = 0
            /\ match_len # 0 =>
                  /\ match_pos \in long /\ length(match_pos) = match_len
                  /\ steps > 0 =>
                        \A p \in long : length(p) < match_len
                                        \/ (length(p) = match_len /\ p <= match_pos)

(***************************************************************************)
(* The inductive invariant behind ChainsExact and FindsLongest.            *)
(***************************************************************************)
\* The inner loop has not gone past the last position that can be hashed.
SkipInv == pc = "skip" => j <= src_len - (MIN_LEN - 1)

\* The walk is on the chain of position i, and of the candidates it has passed
\* none is longer than the best so far, nor as long and more recent.
WalkInv ==
    LET passed == {p \in 0 .. i - 1 : i - p <= max_dist /\ (cand = NO_POS \/ p > cand)}
        length(p) == Common(p, max_cmp(p))
    IN  pc = "walk" =>
            /\ cand # NO_POS => HashAt(cand) = HashAt(i)
            /\ match_len # 0 =>
                  /\ match_pos \in passed /\ length(match_pos) = match_len
                  /\ match_len > Need
            /\ \A p \in passed :
                  /\ length(p) <= ToBeat
                  /\ match_len # 0 /\ length(p) = match_len => p <= match_pos

LongestInv == IInv /\ ChainsExact /\ SkipInv /\ WalkInv /\ FindsLongest

\* lz77_compress always returns.
Returns == <>(pc \in {"done", "failed"})
================================================================================
