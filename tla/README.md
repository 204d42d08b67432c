# TLA+ models of UnzipAndro

UnzipAndro is an Android application that extracts ZIP archives.  A Java
activity calls a native method which runs the C program `hwzip` in a child
process and shows what it prints.  `hwzip` lists, extracts and creates archives;
it has its own implementation of the compression methods Shrink, Reduce,
Implode and Deflate.

## 1. Inventory

Paths are below `src/app/src/main/`; `hwzip/` is `cpp/hwzip/`.

| Component | Code | State | Operations | What makes it correct |
|---|---|---|---|---|
| Android front end | `java/.../MainActivity.java` | `running`, `txt`, label, scheduler | click, run, ticker, result, recreation | every accepted click ends with its result in the label; results in order; the flag does not stay set |
| JNI bridge | `cpp/native-lib.c` | pipe, child, buffer | `exec` | no output lost, the buffer fits, every call returns, also when a read fails |
| Command line tool | `hwzip/hwzip.c` | the archive in memory, files on disk | list, extract, create | what is written to disk passed its CRC; what is created can be extracted |
| Folder layer | `hwzip/folder.c` | directory stream | open, read, close, make | parents exist before files are written |
| ZIP container | `hwzip/zip.c` | the archive, offsets of its headers | `zip_read`, `zip_member`, `zip_extract_member`, `zip_write`, `zip_max_size` | accepted archives are read without running out of the file; what is written fits and is read back |
| Shrink (1) | `hwzip/shrink.c` | code table, queue of free codes, code size | `hwshrink`, `hwunshrink` | lossless; the two tables in step; no assertion fails on any stream |
| Reduce (2-5) | `hwzip/reduce.c` | follower sets, escape state | `hwreduce`, `hwexpand` | lossless |
| Implode (6) | `hwzip/implode.c` | buffer of tokens, three codes | `hwimplode`, `hwexplode` | lossless |
| Deflate (8) | `hwzip/deflate.c` | block of tokens, two codes | `hwdeflate`, `hwinflate` | lossless; block type chosen by size fits |
| LZ77 | `hwzip/lz77.c` | hash chains | `lz77_compress` | tokens stand for the input; distances and lengths within the limits |
| Huffman | `hwzip/huffman.c` | lengths, codewords, tables | encoder, decoder | prefix codes; what is encoded is decoded |
| Bit streams | `hwzip/bitstream.h`, `bits.h` | bit position | read, write, align | bits come out in the order they went in |
| CRC-32, tables, Android glue, tests | `crc32.c`, `tables.c`, `generate_tables.c`, `android.c`, `*_test.c`, ... | none | | |

How they interact: the click handler schedules a task on the activity's
scheduler thread; the task calls `exec`, which forks `hwzip extract` and reads
its standard output through a pipe; text and result travel back to the main
thread as posted messages.  `hwzip` reads the whole archive, checks every
header once (`zip_read`), then extracts member by member, in order: decompress,
compare the CRC, make the folder, write the file, or exit at the first error.

The hard behaviours are: the unsynchronised flag and text shared by two
threads and several activities; descriptors inherited between children;
the Shrink table, in which codes are cleared and reused independently at both
ends; the codes of variable size; and, in the compressors, giving up for want
of room at any point.

## 2. The modules

| Module | Models | Code |
|---|---|---|
| `Lossless` | abstract: what a codec promises | |
| `ShrinkCodes` | the codes of Shrink and the queue of free codes, common to both ends | `shrink.c` |
| `Unshrink` | `hwunshrink`, for any stream of codes | `shrink.c` |
| `Shrink` | `hwshrink`, for any input and any room | `shrink.c` |
| `ShrinkRoundTrip` | `Shrink` and `Unshrink` joined by the stream; implements `Lossless` | `shrink.c`, `zip.c` |
| `BitStream` | bits written with a bound, read with zeros past the end | `bitstream.h`, `bits.h` |
| `Lz77` | `lz77_compress` with `find_match`, its chains and its callbacks | `lz77.c`, `lz77.h` |
| `LzTokens` | what the compressors get from `Lz77`, and the copy of a back reference | `lz77.h` |
| `HuffmanCode` | canonical codes, encoder, decoder, and lengths from frequencies, as operators | `huffman.c`, `huffman.h` |
| `Huffman` | `compute_huffman_lengths` step by step; the decoder on any lengths | `huffman.c`, `huffman.h` |
| `Reduce` | `hwreduce` and `hwexpand` joined by the bits; implements `Lossless` | `reduce.c` |
| `Implode` | `hwimplode` and `hwexplode` in all formats; implements `Lossless` | `implode.c`, `zip.c` |
| `Deflate` | `hwdeflate` and `hwinflate`; implements `Lossless` | `deflate.c` |
| `Zip` | `zip_max_size`, `zip_write`, `zip_read`, `zip_member`, `zip_extract_member`; implements `Lossless`, its "bytes" being files | `zip.c`, `hwzip.c` |
| `Extract` | `extract_zip` with the file system it leaves behind | `hwzip.c`, `zip.c`, `folder.c` |
| `MainActivity` | click, scheduler thread, ticker, result, recreation | `MainActivity.java` |
| `Exec` | the native `exec`, several threads at once | `native-lib.c` |
| `UnshrinkProofs`, `ShrinkRoundTripProofs` | the theorems about `Unshrink` and about the round trip of Shrink | |
| `Lz77Proofs` | the theorems about `Lz77` | |
| `ReduceProofs` | the theorems about `Reduce` | |
| `HuffmanProofs` | the theorems about `Huffman` | |
| `ImplodeProofs` | the theorems about `Implode` | |
| `DeflateProofs` | the theorems about `Deflate` | |
| `AppProofs` | the theorems about `Zip`, `Extract`, `MainActivity` and `Exec` | |

How they compose: `ShrinkRoundTrip` extends both ends of Shrink.  `Reduce`,
`Implode` and `Deflate` extend `BitStream` and `LzTokens`; the last two also
`HuffmanCode`, whose calculation of lengths `Huffman` repeats one step at a time.
The names of the specification of `Exec` begin with `Exec`, those of `Extract` with
`Extract` and those of `MainActivity` with `Activity`, so that `AppProofs` can extend
the three and `Zip`.  `Zip` treats a compressor as what `Lossless` says of it: its data comes
back, or it gives up.  `Extract` takes from `Zip` whether headers and data are
good.

`MC...` modules and the `.cfg` files give the constants small values for TLC.
An operator commented "Mutant of X" is X with a plausible mistake; no
specification uses it.  `PROJECT.json` maps every definition to the lines it
stands for.

### Shrink and unshrink

Codes below `CONTROL_CODE` are literal bytes; those above are given to strings
and taken back by a partial clearing.  `MIN_CODE_SIZE`, `MAX_CODE_SIZE`,
`CONTROL_CODE` and `MAX_CODE` are parameters (9, 13, 256 and 8191 in the code),
so that TLC can exhaust instances in which every code is used, cleared and used
again.

* `queue` is the set of codes in the code queue.  The array in the code is
  sorted, so the next code is the least; an empty queue is `INVALID_CODE`.
* In the compressor, `table` is the contents of the hash table.  `hashtab_find`
  probes from the key's slot to the first empty one, and only
  `shrink_partial_clear` removes entries, by building a new table; so an entry
  is found exactly if it was inserted since.
* In the decompressor, `codetab` keeps the four fields of an entry, including
  the length that may be unknown (`UINT16_MAX` in the code, `UNKNOWN_LEN`
  here) and the position at which the string already occurs in the output.
  `copy_from_prev_pos` really copies from there, so a wrong position gives
  wrong output.  Fields `codetab_init` leaves uninitialized get a position
  behind all output, which every check would notice.
* `Unshrink` takes any code at each step: corrupt streams are included.
* The stream is a sequence of items with their width in bits, `bitpos` counts
  the bits written against the room `OS_CAP`.
* `ShrinkRoundTrip` lets the decompressor read as soon as an item is written.
  What it does with an item depends on earlier items only, so nothing is lost by
  this, and the two tables can be compared at every point of the stream.

### LZ77

One action per exit of the loops: `StartFind` looks up the chain, `WalkPasses`,
`WalkFinds` and `WalkEnds` follow it, `UsePrevious`, `NoMatch` and `DeferMatch`
are the three cases of the main loop, `InsertSkipped` the inner loop, `LoopEnds`
and `Rest` the end.  `prev` is the ring of `LZ_WND_SIZE` slots, each `JUNK`
until written, as the code does not initialize it.  `dst` is what the tokens
stand for, computed as `lz77_output_backref` does, byte by byte modulo the
distance.  The hash is a parameter; the code's multiplicative hash is one
instance.  `CallbackFails` is the callback's refusal, possible at each call.

The three compressors that use LZ77 are not checked with `Lz77` but with
`LzTokens.Backrefs`: at each position either the literal or any back reference
within the limits that repeats earlier bytes.  `Lz77` shows (`Covered`,
`TokensLegal`, both proved) that its tokens are among these, so the
compressors are checked with more sequences of tokens than they can meet.

### Bits and Huffman codes

`BitStream` is a sequence of bits.  `Put` drops what does not fit and clears
`ok`, the result the callers look at; reading past the end gives zeros, as
`istream_bits` does, and only advancing past it fails.  Reading and writing
eight bytes at a time is below this.

`HuffmanCode` writes out canonical codewords, the reversal of their bits, the
lookup table, and the sentinels and offsets of longer codes, with
`MAX_HUFFMAN_BITS` (16), `HUFFMAN_LOOKUP_TABLE_BITS` (8) and the width of
`code[l]` (`UINT16_MAX`) as parameters.  In `Huffman`, `compute` builds the
tree: `InitHeap`, `FewSymbols`, `JoinLightest` (two minima become one node; the
slot the heap gives up becomes the link), `ReadLengths`, or
`LowerCap`, which is the `goto try_again` with a lower cap on the frequencies.
Nodes and links share one array, as in the code: the heap in its low end, the
link elements above it, `minheap_down` deciding ties as the code does.  The
other half gives any lengths to the decoder, and any bits.

### The compressors with a decompressor

`Reduce`, `Implode` and `Deflate` have one shape.  `phase` says what runs.  The
compressor takes the input token by token, buffers, and appends bits to `os`
until it is done or has no room (`gave_up`).  `Written` is the end of the
file; the stream may then be damaged if the input is one of `Fragile`: one bit
is inverted, or its end is cut off.  The decompressor then reads bits at
`rpos`.  Sizes are scaled: bytes have 3 or 4 bits.

* `Reduce`: `pending` holds the bytes on their way through `write_byte`, so that
  a flush can come between two bytes of a token, as in the code, where
  `flush_raw_bytes` calls `write_byte` for the buffered bytes ahead of it.  The
  reader is `hwexpand`'s state machine, one action per state: literal, `DLE`,
  `V`, extra length, `W`.
* `Implode`: codes are made once, from the tokens buffered first, and each
  symbol counts at least once.  `old_pkzip` makes the archive with the minimal
  lengths of PKZip 1.01; `TryPk101` is the second attempt of
  `zip_extract_member`, which starts over with the other minimum.
* `Deflate`: `write_block` compares the sizes of a stored, a fixed and a dynamic
  block.  A token that does not fit the block ends it before the token.
  Codeword lengths are written as `encode_lens` and the order of
  `tables.c` prescribe, and read back by `ReadDynHeader`, with every check of
  `init_dyn_decoders`.  The tables of lengths and distances are parameters.
* `touched` is the last byte of the output written to, by copies in chunks of
  eight bytes (`CHUNK`); it may not pass the end of the buffer.

### The container

An archive is a sequence of bytes: every field of every header stands at the
offset and in the width it has in `zip.c`, and `find_eocdr` compares bytes at every
offset, so that a signature inside a field, or in part of a field and part of
the comment, is found like any other.  Only the number of values of a byte
(`BYTE`) is a parameter, and with it the signatures and `MAX_BACK_OFFSET`, which has to
exceed the longest comment.  `WriteCompressed` and `WriteStored` are the two
outcomes of a member, `StartDirectory` and `WriteEntry` rebuild the directory
from the local headers just written, `WriteEnd` adds the end record.  `Damage`
cuts the file short, puts bytes before it, or writes other bytes over some of its
bytes.  `ReadEnd` looks for the end record from the end, `ReadHeader` is one
round of `zip_read`, `ExtractMember` one round of `extract_zip`: `zip_member`, then
a folder, a member left out because `is_relative` refuses its name, or
`zip_extract_member` and the CRC.  `zip_member` and `zip_write` assert that the
headers they read are there; where they are not, the model goes to `aborted`.

`create_zip` archives files under names that `extract_zip` then leaves out
(`../x`, `/x`), and nothing keeps a comment from holding an end record, or from
completing one together with its own length.  `ImplementsLossless` says that
nothing else is lost: `Due` is what has to become of each file, `Ambiguous` the
archives whose end record may not be found.

### Extraction

The archive is a sequence of members, each known by what matters to
`extract_zip`: its path, whether its attributes say directory, whether
`is_relative` accepts its name, whether `zip_read` accepts its headers, and
whether its data decodes and matches its CRC.  The disk maps paths to nothing,
a folder, or a file with a known origin; `Partial` is a file that `fopen`
emptied and nobody finished writing.  `Killed` ends the program at any point.

### Front end and bridge

`MainActivity` has the main looper (`posted` in order, `delayed` ticks), and for
each activity a scheduler with one thread, `worker`.  An activity that is
destroyed keeps its thread until its tasks are done.  `running` and `txt` are
plain fields shared by the two threads; the comment in the module says why atomic
accesses lose nothing.  `exec` returns or throws an `Exception` (`ExecReturns`), or it
ends in an `Error` (`ExecThrowsError`): that leaves the Runnable without
clearing `running`, the scheduler keeps it in a future nobody asks, and the
thread is free for the next task in its queue (`failed`).  `Exec` is what the
thread calls: a pipe, a fork, the loop of `waitpid` and `read`.  A read may fail
(`ReadFails`); its -1 is then added to `llen` like any count, as in the code.  Descriptors are sets, since a child inherits
every descriptor open at its fork.  `read_ends` only grows: the code never
closes `link[0]`.

## 3. What is checked

| Run | Question | Bounds and why they are enough |
|---|---|---|
| `unshrink` | does any stream, valid or not, make an assertion fail or a table entry lie? | 2 literals, 5 codes, widths 2 and 3, 8 bytes of output: every code is assigned, cleared, its own prefix, unknown in length, and the output fills up |
| `shrink_round_trip` | is the pair lossless, with the two tables in step? | inputs of up to 15 bytes over 2 values, 5 codes, 41 bits of room: the table fills, is cleared and fills again, the width grows, and the room ends at every kind of code |
| `lz77` | do the tokens stand for the input, and are they the best legal ones? | inputs of up to 9 bytes over 2 values, matches from 2 bytes, a ring of 4 slots that is reused twice, colliding hashes, two values of each limit, overlap allowed or not |
| `huffman` | is the code the best within the limit, and does the decoder accept and decode exactly the canonical one? | codewords of up to 4 bits, tables of 2, 16 values in a `code[l]`; 5 symbols with every frequencies whose sum is at most `UINT16_MAX` (15), which need a lower cap under a limit of 3 but not under 4; the first halving of the cap already changes frequencies, as in (8, 1, 1, 2, 3); the decoder gets every vector of 4 lengths and every 4 bits, so both its paths, incomplete and over-subscribed codes occur |
| `huffman_invalid` | are lengths of no prefix code refused, as `huffman.h` says? | 5 lengths, the least with which `code[4]` wraps |
| `reduce` | are the sets, flushes and tokens read back? | bytes of 4 bits, a buffer of 44 bytes, inputs of up to 52: inputs end before, at and after the flush, also within a token; sets of every size up to 4; two rooms |
| `implode` | are tokens read back in all four formats, and archives of PKZip 1.01 at all? | a buffer of 7 tokens, inputs of up to 27 bytes whose later symbols did not occur before the flush |
| `deflate` | are blocks of every kind read back, and as long as was computed? | bytes of 3 bits, blocks of up to 36 bytes, inputs of up to 49: one and two blocks, stored, fixed, dynamic, with all codes of runs; three rooms |
| `zip` | is what was written found again, and does no file make the reader run out of it? | bytes of 8 values, so headers of the true lengths with 64 values in a 16-bit field; up to 2 files, empty, compressed, stored, or archives themselves, under 8 kinds of names, relative or not; names, sizes and comments above their limits; comments that hold an end record, end in its signature, or complete one with the length before them, and archives whose directory is as long as the signature says, or begins there; three archives cut at every byte, shifted, and with every byte changed to every value, also two at a time |
| `extract` | what is on disk, whatever ends the program? | up to 3 members out of 9 kinds over 3 paths, every earlier content of the folder: a file in a folder's place, the reverse, and two files of one name are all included |
| `main_activity` | does every click end with its result in the label? | 3 accepted clicks, 2 activities, any run ending in an `Error`: a click before the flag is set, tickers that live on in the next run, and a task that starts after its activity was destroyed all occur |
| `exec` | is output lost, the buffer overrun, a call stuck? | 2 threads, 2 calls each, one failed read in each call, reads, outputs and pipes of up to 2 bytes, 4 descriptors: a child holds another call's pipe, the buffer grows after a full read, a read begins before the buffer, the descriptors run out |

The properties that say most:

* `ImplementsLossless` (five times): what comes out is what went in, unless the
  compressor gave up or the data was damaged.  In `Zip` it is about whole
  archives: every file whose name is relative, in order and under its name,
  and the comment.
* `NoAssertFails` (Unshrink): the assertions of `hwunshrink`, `output_code` and
  `copy_from_prev_pos` hold for every next code.  `StringsInDst` says for every
  entry of the table what the walk in debug builds asserts for the code just
  output.  `SelfRefIsDead`: the code that became its own prefix is never used.
  `NoAssertFails` of `Reduce` does the same for the assertions of `hwreduce`, and that
  of `Implode` for those of `hwexplode` on damaged streams.  The assertions of the
  writer in `implode.c` (lines 120, 167, 194, 215 and 287-290) are no conjuncts of
  it; what they need, legal tokens and codes for the whole alphabet, is part of the
  inductive invariant (`WritingOK`, section 4).
* `Lockstep` (ShrinkRoundTrip): the decompressor's table is the compressor's less
  its last entry, codes are unique, and both know the width of the next code.
* `CodeIsComplete` (Huffman): whatever the frequencies, a complete code of exactly
  the symbols that occur, within the limit, and no cap below 1 is tried;
  `CodeIsOptimal`: the cheapest where no frequency had to be capped;
  `Terminates`: lowering the cap gets there.  `DecodesCanonically`
  and `AcceptsPrefixCodes`: table, sentinels and offsets together decode what
  the canonical code says, and refuse no prefix code.
* `Covered`, `TokensLegal`, `ChainsExact`, `FindsLongest` (Lz77): the tokens stand
  for the input; each is one `LzTokens` allows; the walk along a chain visits
  exactly the earlier positions of equal hash inside the window, and takes the
  longest match there is, the nearest of equals.
* `CostsAreExact` (Reduce), `SizesAreExact` (Deflate): the sizes by which sets
  and kinds of blocks are chosen are the numbers of bits written.
* `Contained` (Reduce, Deflate): no copy in chunks, on any stream tried, writes
  behind the output.  The copy at `implode.c:508`, which has the same guard, is
  modelled byte by byte.
* `Pk101Extracted` (Implode): an archive of PKZip 1.01 is read by the first
  attempt or the second; a failed first attempt leaves nothing behind.  The
  first attempt could in principle succeed with wrong bytes (only the CRC would
  tell); with bytes of 4 bits it does not, as no literal is shorter than the
  padding of the last byte.
* `RoomSuffices`, `MembersInside` (Zip): `zip_max_size` is a bound; what
  `zip_read` accepted, `zip_member` finds inside the file, even if the two
  headers of a member disagree.
* `OnlyCheckedData` and `Extracted` (Extract): a file is what it was, or all the
  data of a member whose CRC matched; only the one being written when the
  program ends can be cut short.  With status 0 every file is there.
* `NoOutputLost` and `WaitsForOthersOnly` (Exec): all the child wrote is
  returned unless a read failed, each of which takes one byte off, and a reader
  waits for no pipe end its own process holds.
* `ShowsLastResult`, `ResultsInOrder`, `FlagIsCleared`, `EveryRunEnds` and
  `TickersStop` (MainActivity).  `FlagIsCleared` and `EveryRunEnds` hold whatever
  `exec` returns and whichever `Exception` it throws, and name the `Error` as the
  one thing they do not hold for.  The result of a run whose activity was destroyed
  goes to a label that is on no screen.  Nothing is said of the files two children
  of two activities extract into one folder at once.

Type invariants are not listed on their own: they are the first conjunct of an
invariant a run does name (`OnlyCheckedData`, `BufferFits`, `ShowsLastResult`,
`Lockstep`, `CodeIsComplete`, `Contained` of `Deflate`, `RoomSuffices`, and
`NoAssertFails` of `Reduce` and `Implode`); those of `Unshrink` and `Lz77` are
proved (section 4).
Every property fails on the mutant `PROJECT.json` names for it.

Fairness.  `Lz77` and the computation of `Huffman` are sequential loops: a step
that can be taken is taken.  `MainActivity` assumes it of the looper and of each
scheduler's thread, which Android runs for as long as the process lives, and of
no click or recreation.  `Exec` assumes it of each thread in `exec` and of the
children: a child is `hwzip extract`, a loop over the members of one archive
that leaves at the first error.  The other modules state safety and assume
nothing.

Deadlock checking is off where the system stops: each function returns, and
clicks and calls are bounded.

### Findings

* `huffman_invalid`: `huffman.h:38-40` says `huffman_decoder_init` refuses
  lengths that are no prefix code.  `code[16]` is a `uint16_t`
  (`huffman.c:60`): when shorter codewords use up the code space it
  wraps to 0 and more 16-bit lengths are accepted.  Neither caller is affected:
  the lengths of Deflate are at most 15, and `hwexplode` checks its trees itself
  (`implode.c:389-403`).

Three observations without a run.  A click is told "Already running... please wait."
(`MainActivity.java:224`) although nothing runs, when an earlier run ended in an
`Error`, such as an `OutOfMemoryError` of `NewStringUTF`: the Runnable catches
`Exception` only (line 251), so that `running = false` (line 254) is never reached, and
this activity refuses every later click.  `FlagIsCleared` names the exception.

What follows a failed read (`native-lib.c:181-182`) is in `NoOutputLost` and
`BufferFits` as the code has it.  A byte already collected is written over, the
next read may begin before the buffer, and the output ends early if the child was
reaped before.  Nothing in the repository says otherwise.

`hwzip_test.sh:49-50` expects the directories of an archive and the files in them
to be skipped; `extract_zip` makes the directories and extracts the files
(`hwzip.c:254`), as `CreateDir` and `MakeFolder` do.

## 4. What is proved

For every value of the constants that meets the named assumptions:

* `UnshrinkProofs`: `TypeOK`, `FreeCodesUnused`, `AtMostOnePending`,
  `NoAssertFails`, `SelfRefIsDead` and `StringsInDst` of `Unshrink`.  Assumed:
  `CodeAssumption` (literals lie below the control code, codes above it) and
  `UnshrinkAssumption`.
* `ShrinkRoundTripProofs`: `Lockstep` and `ImplementsLossless` of
  `ShrinkRoundTrip`, from `CodeAssumption`, `CodeSizeAssumption`,
  `WidthAssumption` and `RoundTripAssumption`: the input fits the buffer it is
  decompressed to, which `zip_extract_member` makes as large as the file.
* `Lz77Proofs`: `TypeOK`, `Covered`, `ChainsExact`, `FindsLongest` and
  `TokensLegal` of `Lz77`.
* `ReduceProofs`: `Contained`, `NoAssertFails` (with `TypeOK`), `CostsAreExact` and
  `ImplementsLossless` of `Reduce`, from `ReduceAssumption`: `hwreduce` gives
  `lz77_compress` no way to find a match of three bytes (`MIN_LEN`), and the size of
  a follower set fits its bits.
* `AppProofs`, of the container: `MembersInside`, `RoomSuffices` (with `TypeOK`) and
  `ImplementsLossless` of `Zip`, from `ZipAssumption` (a byte has at least the
  values of the version numbers written, and a comment of the greatest length is
  within `MAX_BACK_OFFSET`), `InputAssumption` (names and comments are C strings;
  fewer than 65536 files) and `CodesAssumption` (a compressor's bytes are those of
  one file of that length).
* `HuffmanProofs`: `CodeIsComplete` (with `TypeOK`), `DecodesCanonically` and
  `AcceptsPrefixCodes` of `Huffman`, from `HuffmanAssumption` (a lookup table
  narrower than the codewords) and `LimitAssumption`: there are no more symbols
  than codewords of the greatest length allowed, which is within
  `MAX_HUFFMAN_BITS` (both are assertions, `huffman.c:166` and `286`), and the links to
  all nodes fit the low half of an entry.  Frequencies are any whose sum is at most
  `UINT16_MAX`, which the code asserts.  So they hold of 288 symbols,
  codewords of 16 bits and a table of 8, the sizes `huffman.h` has, which no run
  reaches.
* `AppProofs`, of the front end: `ShowsLastResult` (with `ActivityTypeOK`) and `ResultsInOrder` of
  `MainActivity`, from `ActivityAssumption`; `NoOutputLost`, `BufferFits` (with
  `ExecTypeOK`) and `WaitsForOthersOnly` of `Exec`, from `ExecAssumption`.
* `AppProofs`, of what ends up on disk: `OnlyCheckedData` (with `ExtractTypeOK`) and
  `Extracted` of `Extract`, from `MemberAssumption`, `PathAssumption` and `BoundAssumption`.
* `ImplodeProofs`: `NoAssertFails` (with `TypeOK`) of `Implode`, from
  `ImplodeAssumption` (the inputs are bytes, a match has at least three of them,
  four in `lz77.c`, and the sizes are numbers) and what `LzTokens` and
  `HuffmanCode` assume.
* `DeflateProofs`: `Contained` (with `TypeOK`) and `SizesAreExact` of `Deflate`, from `DeflateAssumption`:
  the tables begin at the shortest length and at distance 1; the codes of both
  alphabets, and that of the codeword lengths, have room for all their symbols within
  their limits (15 and 7 bits in the code), and those limits fit the fields they are
  written to and the decoder; the order of the codeword lengths names each symbol of
  that alphabet once; the decoder accepts the fixed codes, which have all symbols; a
  block fits the field of its length.  All hold of the constants of
  `deflate.c` and `tables.c`.

**Unshrink.**  `NoAssertFails` is not inductive: that a copy stays inside the
output depends on the lengths and positions of all prefixes.  The invariant
`IInv` adds `TableInv` (a string of known length is one byte longer than its
prefix, its prefix is known and it ends inside the output; a string of unknown
length waits for a prefix that is invalid or known again), `PrevInv` (the string
of the code before is the end of the output, even if that code was cleared
since) and `AtMostOnePending` (at most one string has an unknown length at a
time, and none while the code before is invalid).  The last is the argument the
code only hints at: a partial clearing leaves one string that cannot be given
a length at once, and the next code either settles it or is refused.
`OutputPreserves` shows that a step of one general shape keeps `IInv`; the lemmas
named `...Shape` show that each way of outputting a code has that shape; one
lemma per action follows.

`StringsInDst` needs more about the bytes, in `SInv`: `LiteralsInv` (a literal
that was output is where its entry says) and `StringInv` (the prefix of an entry
was output, and the bytes at the entry's place are its prefix's bytes followed by
its own).  The shape of a step therefore also says, as `StringOf`, where the
bytes it appends come from.  Output is only appended, so old places keep their
bytes; the string whose place moves to the end is found at both places.

**Lz77.**  `Covered` rests on the match in hand being one: `MatchesInv` says
that the best match so far is a match for position `i` and the deferred one for
`i - 1`.  That needs the candidates of a walk to be earlier positions, for the
copy of a back reference reads its own output: `ChainsInv` says that every
position below `j` has its slot written, with an earlier position or the end of
the chain.  `Periodic` and `BackrefExtends` show that copying modulo the distance
gives the bytes of the input also when a reference overlaps itself.  That part
does not need `LZ_WND_SIZE` to be as large as `max_dist`.  `ChainsExact` does
(`WindowAssumption`): positions less than the window apart have different slots
(`SlotsApart`), so no slot of the ring a walk can still reach was written over.
For `FindsLongest`, `WalkInv` says of a walk in progress that no position it has
passed, on the chain or not, matches longer than the best so far; `LongestInv`, its
conjunction with `ChainsExact` and `FindsLongest`, was checked by TLC as an
invariant before it was proved.

**The round trip of Shrink.**  The compressor is one entry ahead: it adds a string
as it writes a code, the decompressor when it has read the code after.  `Ahead` is
the decompressor's table with that entry, `AheadQueue` what is then left of its
queue.  `Idle` says that with nothing unread these are the compressor's table and
queue, and that `curr_code` stands for the input not written yet (`Holds`); `Coded`
and `Clearing` say the same of the states in which a code with the control codes
that widen it, or a partial clearing, is still to be read.  The delicate entry is
one whose length is unknown after a clearing: `StandsFor` says that the compressor
uses it only when its prefix is known again.  From `RTInv` every code read is one
the decompressor accepts, and its string is what the input goes on with, which is
`ImplementsLossless`, step by step.  `RTInv` was checked by TLC as an invariant
before it was proved.

**Reduce.**  What `hwexpand` does on any stream follows from `Inv`: a back reference
begins only where a byte of output is missing, and the room it needs is compared,
rounded up, before it is copied.  The assertions of `hwreduce` are arithmetic:
`VOfFacts` says that the byte after `DLE` has the low bits of the length and the high
bits of the distance, is a byte, and is zero only for a match of three bytes.

The round trip has two formulas.  `Writing`, of the compressor: the bytes given to
`write_byte` so far are tokens for the input so far (`Tokens`, with the place each
begins at in bytes and in input); before the flush they are `raw` and `pending`;
after it each follower set and each byte written stands in the stream from a known
bit to a known bit (`Stream`).  Here a flush in the middle of a token needs no case
of its own, since tokens speak of bytes, written or not.  `Reading`, of the
decompressor: the same of the whole padded stream (`Layout`), and the reader is
before a set, between two tokens, after a `DLE`, or in a back reference, the output
being the input up to that token.  `NextSet` and `NextRead` are the two arguments of
decoding: `ReadsNumber` (a number read where its bits were written is that number)
and, for a byte in a set, that its place in the set fits the bits the set's size
gives (`IndexWidth`).  From there every action of `hwexpand` keeps `Reading`, none
can refuse (`NothingRefused`), and the stream is used up when the output is complete
(`DoneWell`).  `RoundTrip` joins the two.

`CostsAreExact` needs no more of the state than `Writing` says: `SpentSoFar` shows, along
the bytes, that the k-th ends where the sets and the first k bytes of the buffer have
been paid for (`CostsSoFar`: each makes one count one higher; `BitsOfByte`: it takes
what `followers_cost` charges for that count).  Sums over sets of bytes (`Total`) are
sums over the numbers of the bytes, so that they can be compared without induction;
`FoldedExists` shows that the sum of the community modules is such a sum.

**Zip.**  The properties speak of the reader at one offset; the invariant `ZInv` says
what the whole archive is.  While it is written there are rising offsets `L` at
which the members lie, and `D` at which the central headers made from them lie
(`Members`, `Entries`), each byte for byte what `write_lfh` and `write_cfh` give for
that file, its method and its data (`StoredAt`, `EntryAt`).  That the fields are read
back as they were written is arithmetic, done once: a 16-bit number is two digits
(`TwoDigits`), and `LfhWritten`, `CfhWritten` and `EndWritten` take a header apart
field by field from its end (`Peel16`, `Peel32`).  Later writes leave what was
written alone (`Agree`, `MembersAgree`, `EntriesAgree`).  Of any file, damaged ones
included, `Accepted` says that `zip_read` has accepted the headers at the offsets
`O`, each behind the one before; `offset` and the number of members passed so far
go along `O`, so `zip_member` meets exactly these headers again: `MembersInside`.
For an archive that is as it was written, `OwnInv` adds that the reader is at the
offsets `D` and that what became of each member is what was due: `EndFound` (an end
record that occurs only once behind its beginning is the one found, `ReadCut`
carrying the comparison of bytes over from the end of the archive), `EntryIsRead`
(each header is accepted and leads to its member) and `BodyIsExtracted` are the
three arguments.  `RoomInv` bounds the room used so far by sums over the files: that
the sum `zip_max_size` computes, in whatever order its fold takes the files, is
that of the offsets is `AnyOrder`.

The attempt to prove `ImplementsLossless` found an error in the models: the mapping's
`CASE` had guards that overlap, and then TLA+ leaves open which value it has, although
TLC takes the first.  The mappings of `Zip`, `Reduce`, `Implode` and `Deflate` now
have no overlapping guards.

**Huffman.**  The invariant `IInv` only says that what the decoder did is what the
functions return on the lengths it was given; the proof is about the functions, and
its argument is one of room.  `Fills` counts how much of the code space
(`Room`, `2 ^ MAX_HUFFMAN_BITS`) the codewords up to each length take up, as a
function `T` of the length, and `TakenIsFilled` shows that the sum in
`IsPrefixCode` is `T` of the greatest length.  As long as that is not exceeded,
`first_code` does not wrap and is `T[l - 1]` without its trailing zeros
(`FirstFits`, `LengthFacts`), so a prefix code passes `huffman_decoder_init`
(`PrefixCodePasses`).  The other way, the check at each length leaves out only
that at the full width (`InitLeavesRoom`, `PassesPrefixCode`): the code's tolerance
of `huffman_invalid` above is exactly the exception the property makes.

For decoding, the sentinel of a length is `T` of it (`Sentinel`), and the bits,
reversed, are a number `m`.  `m` lies between two neighbouring sentinels just when a
codeword of the upper one's length begins the bits (`SomeBegins`, `BeginsWithin`), and
there is at most one such codeword (`OneLength`, `OneBegins`).  A short codeword was
entered in the table under every index it begins (`TableHolds`, `TableEntry`), with
`ReverseTwice`, `TopBits` and `CodewordBits` for the bits reversed on the way; a
long one is found by the first sentinel above `m` (`LongHits`), and its
`sym_idx` is computed with an offset that wraps below zero and wraps back
(`Wraps`, `OffsetLeads`), leading to the symbol whose rank the codeword is
(`SymIdx`, `OneSymbol`).  `DecodesSome` and `DecodesNone` are the two halves of
`DecodesCanonically`.  The recursive functions that reverse bits and number first
codes are shown to exist by `Recursion`, from the greatest argument up to which there
is such a function, for the library's theorems about recursion need an operator as a
parameter.

`CodeIsComplete` is about the array in which `compute_huffman_lengths` keeps heap,
links and nodes.  `minheap_down` and `minheap_heapify` only permute the heap
(`Permutes`), and leave the lightest node at its root (`MinheapHeapify`).  What is
above the heap are links: `Forest` says that each entry of the heap points to a slot of its own, that every
other slot links to a joined node below it, and that two slots link to each of those.
Joining the two lightest keeps that (`MergeForest`), because the slot that becomes
the link element is the one the heap has just given up.  At the end there is one
root (`OneRoot`), and each leaf has a depth, the number of links to the root
(`DepthExists`, `DepthIs`).  That the code is complete is a telescope:
take the nodes in the order of their slots, the root first; the slots whose parent
has been passed and that have not been passed themselves fill the room of the root
at every time, for passing a node replaces its room by two halves (`FrontKeeps`,
`LeavesFill`, `KraftIs`).  If the lengths do not fit, the cap is halved; with a cap
of 1 all leaves weigh the same and the heap joins them level by level: the weights
in it are `2 ^ k` and `2 ^ (k + 1)`, but for one in between (`Balanced`, `LevelUp`,
`MergeBalanced`), so that the tree is no deeper than the least `l` with `2 ^ l`
leaves or more (`BalancedDepth`): the limit is met, and the assertion that the cap
is not 1 holds (`CapOneFits`).

`FullCodeDecodes` is the decoder's argument for a reader of untrusted lengths that has no
codewords to compare with: a code whose lengths use up all the room, which is what
`read_huffman_code` of Implode demands, passes `huffman_decoder_init`, and any bits
decode to one of its symbols, with its length.  `SumIsRoom` shows that the sum the
model takes with the community modules is that room.

**Implode.**  `NoAssertFails` says of any stream being read, damaged or not, that the
codes read pass `huffman_decoder_init` and that any bits are a literal or a match.
The invariant `IInv` is about the writer too: what was written are bits, the tokens
buffered are legal, the codes in use cover their alphabet once the buffer was
flushed (`WritingOK`); the codes read are of the right size, full, and as many as the
phase says (`LensOK`, `PhaseOK`).  TLC checked `IInv` on the run of `Implode` before
it was proved.  For writing, the argument is `LengthsType`: whatever trees are built
from whatever frequencies, optimal or not, each symbol is given a length, so that
what `HuffmanCodeBits` and `FlushSeq` write are bits; how long the codewords are does
not matter to it.  For reading, it is `FullCodeDecodes`, brought over from
`HuffmanProofs` by an instance of it: `DecodeType` concludes that any bits decode to
a symbol of the alphabet, so that a literal is a byte (`LiteralType`) and the length
and the distance of a match, with their extra bits, are positive (`BackrefType`).

**Deflate.**  `Contained` is about any stream, but a state of the decompressor begins
with one the compressor wrote, so the invariant `IInv` is about both.  Of the
compressor it says that the block is what lies between its beginning and the matcher
(`InputOK`), that its tokens have symbols, and that what was written are bits; that
`WriteBlockType` keeps the latter is most of the proof.  The stored block is a
number of whole bytes behind its padding (`UncompType`, `AlignedType`); the fixed codes have all
symbols; and for the codes of the block, `LengthsFromFrequencies` of `HuffmanProofs`
says that what `compute_huffman_lengths` returns is within the limit and that a
symbol has a codeword if and only if it occurs (`MadeLengths`).  The lengths become the runs
of `encode_lens`, whose every step is typed in `EncStep` and `EncodedType`, and
those symbols a third code with a limit of its own (`DynamicType`).  Of the
decompressor, `CodesOK` says that a code is read with only after `huffman_decoder_init`
accepted it, with lengths that fit the decoder; `DecodesSymbols`, brought over from
`HuffmanProofs` like the above, then says that any bits decode to a symbol or to none,
so that no entry is used that was not filled (`DecodeType`).  `OutputOK` is the bound
on the output: `ChunksFit` shows that a copy in whole chunks stays inside because the
length is compared rounded up.  TLC checked `IInv` on the run of `Deflate` before it
was proved.

`SizesAreExact` compares two ways to count.  The code computes the size of a block
before it is written, symbol by symbol, as frequency times bits; what is written is
token after token.  `DoubleCount` shows for any sequence over any alphabet that the
sums agree: one more element adds its bits to the share of one symbol
(`TotalOneMore`).  The sums of the code are folds over sets (`MapThenSumSet`); they
are unfolded along the numbers of the alphabet (`FoldedTotal`), and the partial sums
they need exist by `SumsExist`.  It is used three times: for the symbols of literals
and lengths and for those of distances, each with its extra bits (`BodyLen`), and for the symbols
of the codeword lengths (`EncodedLen`), whatever runs `encode_lens` made of them.
`DynamicLen` and `UncompLen` add the headers and the padding, and `WriteBlockLen` that
the kind that is chosen takes the least of the three.

**Exec.**  The invariant is one formula per call, `CallInv`: what the child
wrote is what was collected plus what was just read plus what is in the pipe, and
one more for each read that failed;
the pid is positive until the child was waited for; only a running child holds
pipes, and the reader's process does not hold the write end of the pipe it reads
from.  `FreshPipes` says that nothing was written to the pipes of calls to come.
`CallsKeep` is the argument of locality: although children inherit each other's
descriptors, a step of one thread leaves what the formula of another call says.
`GrownFacts` gives the size of the buffer after any number of reallocations.

**MainActivity.**  `OrderInv` says that the runs on their way through an activity
(queue, thread, text, label) are in the order of the clicks; `FlagInv` that the
flag is up exactly while the thread is in a run or its last run ended in an `Error`; `TickInv` that each tick belongs
to a run of its own, counted with the lemmas about `TickPos`; `ResultInv` that a
posted result finds a text; `Settled` that an activity with nothing on the way
shows its text.  `OthersKeep`: a step of one activity leaves the others' formulas.

**Extract.**  `PlaceInv` says that a file is opened only for a member that is
relative, no folder, and passed its CRC, of an archive all of whose headers were
accepted; with it the two properties are inductive.  `mkfldr` is a recursive
function over the prefixes of a path; that there is such a function is shown from
the least length at which there would be none.  `DiskGrown` is what the rest needs
of it: folders appear only where nothing was.

**Checked, not proved.**  `CodeIsOptimal` of `Huffman`: that no code is shorter is an
induction over trees.  `ImplementsLossless` of `Implode` and `Deflate`, and
`Pk101Extracted` of `Implode`: what decodes a codeword is proved, but not that a whole
stream is read back, for which the invariants would have to say of every bit written
what it belongs to, as `Layout` does for `Reduce`.
Liveness (`Returns`, `Terminates`, `CallReturns`, `FlagIsCleared`,
`EveryRunEnds`, `TickersStop`) is out of the proof system's reach, and so is
what a recursive definition computes for every input, such as an optimal code.

## 5. What is not modelled

* CRC-32 (`crc32.c`): a pure sum over a generated table.  The models know only
  whether a sum matches.
* `tables.c`, `generate_tables.c`: constant data and the program that prints it.
  The tables are parameters where a model needs one.
* Dates (`dos2ctime`, `ctime2dos`): arithmetic on broken-down time that nothing
  else depends on.
* The creation side of `hwzip.c` and `folder.c` (`expand_folders`, `readfldr`,
  `openfldr`), the listing and the command line: what `create_zip` passes to
  `zip_write` is an input of `Zip`.
* `android.c`: includes `hwzip.c` and replaces checked libc functions.
* Tests, fuzzers, benchmarks: read as documentation.
* In `MainActivity`, listing the Downloads folder, permissions and layout: no
  state shared between threads.
* `_spawnvp` and `bld__exec` in `native-lib.c`: not called.
* Below the models: words of eight bytes in `bitstream.h`, and the probing of
  Shrink's hash table, with the assertion that it ends (`shrink.c:71`).

## 6. What could follow

1. `Create`: `expand_folders`, `readfldr` and `create_zip`, and `Extract` of
   what was created; the value `mkfldr` returns against `folder.h`.
2. The round trips of `Implode` and `Deflate` as theorems.  That `HuffmanCode` decodes
   what it encodes is `DecodesPrefixCode` in `HuffmanProofs`, and that the lengths from
   frequencies are a complete code within the limit is `CodeIsCompleteHolds`; what is
   missing is the layout of the stream, as `Reading` has it for `Reduce`.
