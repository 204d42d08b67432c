------------------------------------ MODULE Zip ------------------------------------
(***************************************************************************)
(* The container: zip_max_size, zip_write, zip_read, zip_member and        *)
(* zip_extract_member of hwzip/zip.c, as create_zip, list_zip and          *)
(* extract_zip call them.                                                  *)
(*                                                                         *)
(* An archive is a sequence of bytes, with every field of every header at  *)
(* the offset and in the width it has in the code; only the number of      *)
(* values of a byte is a parameter.  Offsets count from 0.                 *)
(***************************************************************************)
EXTENDS Integers, SequencesExt, FiniteSetsExt

CONSTANTS
    BYTE,              \* 256 in the code: how many values a byte has
    EOCDR_SIGNATURE, CFH_SIGNATURE, LFH_SIGNATURE,
    MAX_BACK_OFFSET,   \* how far before the end the end record is looked for
    SPACE, DOT,        \* the bytes is_relative treats on their own,
    Roots,             \* those it does not let a name begin with,
    Unfit,             \* and those it does not let a name hold
    mod_time, mod_date,
    crc32(_),
    Codes,             \* bound: what the compressors make of which data
    FileLists,         \* bound: what is put into the archive, names and data
    Comments,          \* bound: the archive comments
    Fragile,           \* bound: the files and comments of archives that may be damaged,
    Patches            \* bound: and what may be written over their bytes

Byte == 0 .. BYTE - 1

UINT16_MAX == BYTE * BYTE - 1
UINT32_MAX == BYTE * BYTE * (BYTE * BYTE) - 1

ZIP_STORE == 0
ZIP_SHRINK == 1
ZIP_REDUCE4 == 5
ZIP_IMPLODE == 6
ZIP_DEFLATE == 8

\* Bytes above 24 are enough for the version numbers that are written.
ASSUME ZipAssumption ==
    /\ BYTE \in Nat /\ BYTE >= 5
    /\ {EOCDR_SIGNATURE, CFH_SIGNATURE, LFH_SIGNATURE} \subseteq 0 .. UINT32_MAX
    /\ MAX_BACK_OFFSET \in Nat /\ MAX_BACK_OFFSET >= UINT16_MAX
    /\ {SPACE, DOT} \subseteq Byte /\ Roots \subseteq Byte /\ Unfit \subseteq Byte
    /\ {mod_time, mod_date} \subseteq 0 .. UINT16_MAX

\* Names and comments are C strings.  Files with their sizes are what create_zip
\* lets through: less than MAX_FILES of them.
ASSUME InputAssumption ==
    /\ \A l \in FileLists :
          /\ l \in Seq([name : Seq(Byte \ {0}), data : Seq(Byte)]) /\ Len(l) <= UINT16_MAX
          /\ \A i \in DOMAIN l : crc32(l[i].data) \in 0 .. UINT32_MAX
    /\ Comments \subseteq Seq(Byte \ {0})
    /\ Patches \subseteq Seq(Byte)

\* The methods are lossless (see Lossless): the bytes and the size tell the data.
ASSUME CodesAssumption ==
    /\ Codes \subseteq [method : {ZIP_SHRINK, ZIP_REDUCE4, ZIP_IMPLODE, ZIP_DEFLATE},
                        data : Seq(Byte), bytes : Seq(Byte)]
    /\ \A k, m \in Codes :
          k.method = m.method /\ k.bytes = m.bytes /\ Len(k.data) = Len(m.data) => k = m

VARIABLES
    phase,             \* what runs; "not_possible", "done", "refused" and "aborted" are results
    files, comment, method,
    dst, p, i,         \* zip_write: the archive, its length so far, the member
    lfh_offset, cd_offset,
    intact,            \* is the archive as it was written?
    eocdr, members_end,
    offset,            \* the central header zip_read, then the caller, is at
    extracted          \* what became of each member, with its name

given == <<files, comment, method>>
writing == <<dst, p, lfh_offset, cd_offset, intact>>
reading == <<eocdr, members_end, offset, extracted>>
vars == <<phase, given, writing, i, reading>>

LFH_BASE_SZ == 30
CFH_BASE_SZ == 46
EOCDR_BASE_SZ == 22

\* What xmalloc left in a byte that was never written: no byte at all.
JUNK == BYTE

\* s with the bytes at an offset, whatever was there.
Put(s, at, bytes) ==
    [k \in 1 .. Max({Len(s), at + Len(bytes)}) |->
        IF k - at \in DOMAIN bytes THEN bytes[k - at]
        ELSE IF k <= Len(s) THEN s[k] ELSE JUNK]

Cut(s, at, n) == SubSeq(s, at + 1, at + n)

\* Little-endian numbers.
write16le(n) == <<n % BYTE, n \div BYTE>>
write32le(n) == write16le(n % (BYTE * BYTE)) \o write16le(n \div (BYTE * BYTE))

read16le(s, at) == s[at + 1] + BYTE * s[at + 2]
read32le(s, at) == read16le(s, at) + BYTE * BYTE * read16le(s, at + 2)

--------------------------------------------------------------------------------
(***************************************************************************)
(* The headers, with the names that follow them.                           *)
(***************************************************************************)
write_lfh(l, name) ==
    write32le(LFH_SIGNATURE) \o write16le(l.extract_ver) \o write16le(l.gp_flag) \o
    write16le(l.method) \o write16le(l.mod_time) \o write16le(l.mod_date) \o
    write32le(l.crc32) \o write32le(l.comp_size) \o write32le(l.uncomp_size) \o
    write16le(l.name_len) \o write16le(l.extra_len) \o name

read_lfh(s, at) ==
    [extract_ver |-> read16le(s, at + 4), gp_flag |-> read16le(s, at + 6),
     method |-> read16le(s, at + 8), mod_time |-> read16le(s, at + 10),
     mod_date |-> read16le(s, at + 12), crc32 |-> read32le(s, at + 14),
     comp_size |-> read32le(s, at + 18), uncomp_size |-> read32le(s, at + 22),
     name_len |-> read16le(s, at + 26), extra_len |-> read16le(s, at + 28)]

IsLfh(s, at) ==
    /\ at + LFH_BASE_SZ <= Len(s) /\ read32le(s, at) = LFH_SIGNATURE
    /\ LET l == read_lfh(s, at) IN at + LFH_BASE_SZ + l.name_len + l.extra_len <= Len(s)

write_cfh(c, name) ==
    write32le(CFH_SIGNATURE) \o write16le(c.made_by_ver) \o write16le(c.extract_ver) \o
    write16le(c.gp_flag) \o write16le(c.method) \o write16le(c.mod_time) \o
    write16le(c.mod_date) \o write32le(c.crc32) \o write32le(c.comp_size) \o
    write32le(c.uncomp_size) \o write16le(c.name_len) \o write16le(c.extra_len) \o
    write16le(c.comment_len) \o write16le(c.disk_nbr_start) \o write16le(c.int_attrs) \o
    write32le(c.ext_attrs) \o write32le(c.lfh_offset) \o name

read_cfh(s, at) ==
    [made_by_ver |-> read16le(s, at + 4), extract_ver |-> read16le(s, at + 6),
     gp_flag |-> read16le(s, at + 8), method |-> read16le(s, at + 10),
     mod_time |-> read16le(s, at + 12), mod_date |-> read16le(s, at + 14),
     crc32 |-> read32le(s, at + 16), comp_size |-> read32le(s, at + 20),
     uncomp_size |-> read32le(s, at + 24), name_len |-> read16le(s, at + 28),
     extra_len |-> read16le(s, at + 30), comment_len |-> read16le(s, at + 32),
     disk_nbr_start |-> read16le(s, at + 34), int_attrs |-> read16le(s, at + 36),
     ext_attrs |-> read32le(s, at + 38), lfh_offset |-> read32le(s, at + 42)]

\* Where the header after that at `at` begins.
NextCfh(s, at) ==
    LET c == read_cfh(s, at)
    IN  at + CFH_BASE_SZ + c.name_len + c.extra_len + c.comment_len

IsCfh(s, at) ==
    /\ at + CFH_BASE_SZ <= Len(s) /\ read32le(s, at) = CFH_SIGNATURE
    /\ NextCfh(s, at) <= Len(s)

write_eocdr(e, text) ==
    write32le(EOCDR_SIGNATURE) \o write16le(e.disk_nbr) \o write16le(e.cd_start_disk) \o
    write16le(e.disk_cd_entries) \o write16le(e.cd_entries) \o write32le(e.cd_size) \o
    write32le(e.cd_offset) \o write16le(e.comment_len) \o text

read_eocdr(s, at) ==
    [disk_nbr |-> read16le(s, at + 4), cd_start_disk |-> read16le(s, at + 6),
     disk_cd_entries |-> read16le(s, at + 8), cd_entries |-> read16le(s, at + 10),
     cd_size |-> read32le(s, at + 12), cd_offset |-> read32le(s, at + 16),
     comment_len |-> read16le(s, at + 20)]

--------------------------------------------------------------------------------
(***************************************************************************)
(* Writing                                                                 *)
(***************************************************************************)
\* Mutant of zip_max_size: a name counts once, although both headers hold it.
max_size_of_one_name ==
    FoldSeq(LAMBDA f, n : n + CFH_BASE_SZ + LFH_BASE_SZ + Len(f.name) + Len(f.data),
            EOCDR_BASE_SZ + Len(comment), files)

\* 0 means that the archive cannot be written.
zip_max_size ==
    LET total == FoldSeq(LAMBDA f, n : n + CFH_BASE_SZ + LFH_BASE_SZ + 2 * Len(f.name) + Len(f.data),
                         EOCDR_BASE_SZ + Len(comment), files)
    IN  IF Len(comment) > UINT16_MAX \/ total > UINT32_MAX
           \/ \E k \in DOMAIN files : Len(files[k].name) > UINT16_MAX
        THEN 0 ELSE total

Init ==
    /\ files \in FileLists /\ comment \in Comments
    /\ method \in {ZIP_STORE, ZIP_SHRINK, ZIP_REDUCE4, ZIP_IMPLODE, ZIP_DEFLATE}
    /\ phase = IF zip_max_size = 0 THEN "not_possible" ELSE "members"
    /\ dst = <<>> /\ p = 0 /\ i = 1 /\ lfh_offset = 0 /\ cd_offset = 0
    /\ intact = TRUE /\ eocdr = [cd_entries |-> 0] /\ members_end = 0 /\ offset = 0
    /\ extracted = <<>>

\* Bit 1 is large_wnd, or the effort of Deflate; bit 2 is lit_tree.
gp_flag(how) == CASE how = ZIP_IMPLODE -> 6 [] how = ZIP_DEFLATE -> 2 [] OTHER -> 0

lfh(f, how, comp_size) ==
    [extract_ver |-> IF how = ZIP_DEFLATE THEN 20 ELSE 10, gp_flag |-> gp_flag(how),
     method |-> how, mod_time |-> mod_time, mod_date |-> mod_date,
     crc32 |-> crc32(f.data), comp_size |-> comp_size, uncomp_size |-> Len(f.data),
     name_len |-> Len(f.name), extra_len |-> 0]

Member(how, comp_size, data) ==
    LET f == files[i]
    IN  /\ dst' = Put(Put(dst, p + LFH_BASE_SZ + Len(f.name), data), p,
                      write_lfh(lfh(f, how, comp_size), f.name))
        /\ p' = p + LFH_BASE_SZ + Len(f.name) + comp_size
        /\ i' = i + 1
        /\ UNCHANGED <<phase, given, lfh_offset, cd_offset, intact, reading>>

\* A compressor has one byte less than the file and may leave other bytes in it
\* behind its own.
WriteCompressed ==
    /\ phase = "members" /\ i <= Len(files)
    /\ \E k \in Codes :
          LET n == Len(k.bytes)
              room == Len(files[i].data) - 1
          IN  /\ k.method = method /\ k.data = files[i].data /\ n <= room
              /\ Member(method, n, k.bytes \o [j \in 1 .. room - n |-> JUNK])

\* Also when the compressor gave up: memcpy covers all it wrote.
WriteStored ==
    /\ phase = "members" /\ i <= Len(files)
    /\ Member(ZIP_STORE, Len(files[i].data), files[i].data)

StartDirectory ==
    /\ phase = "members" /\ i > Len(files)
    /\ phase' = "directory" /\ i' = 1 /\ cd_offset' = p
    /\ UNCHANGED <<given, dst, p, lfh_offset, intact, reading>>

EXT_ATTR_ARC == 32

cfh(l) ==
    [made_by_ver |-> l.extract_ver, extract_ver |-> l.extract_ver, gp_flag |-> l.gp_flag,
     method |-> l.method, mod_time |-> l.mod_time, mod_date |-> l.mod_date,
     crc32 |-> l.crc32, comp_size |-> l.comp_size, uncomp_size |-> l.uncomp_size,
     name_len |-> l.name_len, extra_len |-> 0, comment_len |-> 0, disk_nbr_start |-> 0,
     int_attrs |-> 0, ext_attrs |-> EXT_ATTR_ARC, lfh_offset |-> lfh_offset]

\* Mutant of NextLfh: the name is forgotten.
NextLfhNameless(l) == lfh_offset + LFH_BASE_SZ + l.comp_size

NextLfh(l) == lfh_offset + LFH_BASE_SZ + l.name_len + l.comp_size

\* The central directory is made from the local headers written before.
WriteEntry ==
    /\ phase = "directory" /\ i <= Len(files)
    /\ UNCHANGED <<given, cd_offset, intact, reading>>
    /\ IF IsLfh(dst, lfh_offset)
       THEN LET l == read_lfh(dst, lfh_offset)
                bytes == write_cfh(cfh(l), Cut(dst, lfh_offset + LFH_BASE_SZ, l.name_len))
            IN  /\ dst' = Put(dst, p, bytes) /\ p' = p + Len(bytes)
                /\ lfh_offset' = NextLfh(l) /\ i' = i + 1
                /\ UNCHANGED phase
       ELSE phase' = "aborted" /\ UNCHANGED <<dst, p, lfh_offset, i>>

WriteEnd ==
    /\ phase = "directory" /\ i > Len(files)
    /\ LET end == [disk_nbr |-> 0, cd_start_disk |-> 0, disk_cd_entries |-> Len(files),
                   cd_entries |-> Len(files), cd_size |-> p - cd_offset,
                   cd_offset |-> cd_offset, comment_len |-> Len(comment)]
       IN  dst' = Put(dst, p, write_eocdr(end, comment))
    /\ p' = p + EOCDR_BASE_SZ + Len(comment)
    /\ phase' = "written"
    /\ UNCHANGED <<given, lfh_offset, cd_offset, intact, i, reading>>

\* The file holds as many bytes as zip_write returns.
Archive == Cut(dst, 0, p)

--------------------------------------------------------------------------------
(***************************************************************************)
(* Archives of any origin: the file is cut short, something is put before  *)
(* it, or some of its bytes are others.                                    *)
(***************************************************************************)
Damaged(s) ==
    {SubSeq(s, 1, n) : n \in 0 .. Len(s) - 1} \cup {b \o s : b \in Patches} \cup
    UNION {{Put(s, at, b) : at \in 0 .. Len(s) - Len(b)} : b \in Patches}

Damage ==
    /\ phase = "written" /\ intact /\ <<files, comment>> \in Fragile
    /\ \E s \in Damaged(Archive) : s # Archive /\ dst' = s /\ p' = Len(s)
    /\ intact' = FALSE
    /\ UNCHANGED <<phase, given, lfh_offset, cd_offset, i, reading>>

--------------------------------------------------------------------------------
(***************************************************************************)
(* Reading                                                                 *)
(***************************************************************************)
\* How far before the end each end record lies that find_eocdr can meet.
EndRecords(s) ==
    {b \in 0 .. Min({MAX_BACK_OFFSET, Len(s) - EOCDR_BASE_SZ}) :
        read32le(s, Len(s) - EOCDR_BASE_SZ - b) = EOCDR_SIGNATURE}

back_offset(s) == Min(EndRecords(s))

EndFields(s) == read_eocdr(s, Len(s) - EOCDR_BASE_SZ - back_offset(s))

find_eocdr(s) == EndRecords(s) # {} /\ EndFields(s).comment_len <= back_offset(s)

OneVolume(e) == e.disk_nbr = 0 /\ e.cd_start_disk = 0 /\ e.disk_cd_entries = e.cd_entries

ReadEnd ==
    /\ phase = "written"
    /\ UNCHANGED <<given, writing, members_end, extracted>>
    /\ IF find_eocdr(Archive) /\ OneVolume(EndFields(Archive))
       THEN /\ eocdr' = EndFields(Archive)
            /\ offset' = eocdr'.cd_offset /\ i' = 1
            /\ phase' = "read"
       ELSE phase' = "refused" /\ UNCHANGED <<eocdr, offset, i>>

\* Where the data of a member begins: behind what its local header says.
comp_data(s, at) ==
    LET l == read_lfh(s, at) IN at + LFH_BASE_SZ + l.name_len + l.extra_len

Name(s, at) == Cut(s, at + CFH_BASE_SZ, read_cfh(s, at).name_len)

Supported(s, at) ==
    LET c == read_cfh(s, at)
    IN  /\ c.gp_flag % 2 = 0 /\ c.disk_nbr_start = 0
        /\ c.method \in 0 .. ZIP_IMPLODE \cup {ZIP_DEFLATE}
        /\ c.method = ZIP_STORE => c.uncomp_size = c.comp_size
        /\ ~Contains(Name(s, at), 0)

\* Mutant of DataFits: the data is taken to begin behind the name as the central
\* header knows it.
DataFitsByEntry(s, c) == c.lfh_offset + LFH_BASE_SZ + c.name_len + c.comp_size <= Len(s)

DataFits(s, c) == comp_data(s, c.lfh_offset) + c.comp_size <= Len(s)

HeaderAccepted(s, at) ==
    /\ IsCfh(s, at) /\ Supported(s, at)
    /\ LET c == read_cfh(s, at) IN IsLfh(s, c.lfh_offset) /\ DataFits(s, c)

ReadHeader ==
    /\ phase = "read" /\ i <= eocdr.cd_entries
    /\ UNCHANGED <<given, writing, eocdr, members_end, extracted>>
    /\ IF HeaderAccepted(Archive, offset)
       THEN offset' = NextCfh(Archive, offset) /\ i' = i + 1 /\ UNCHANGED phase
       ELSE phase' = "refused" /\ UNCHANGED <<offset, i>>

AllRead ==
    /\ phase = "read" /\ i > eocdr.cd_entries
    /\ phase' = "extract" /\ offset' = eocdr.cd_offset /\ members_end' = offset
    /\ UNCHANGED <<given, writing, i, eocdr, extracted>>

CompData(s, c) == Cut(s, comp_data(s, c.lfh_offset), c.comp_size)

\* The data a member decompresses to as far as it is known: of bytes that no
\* compressor wrote, anything or nothing may come.
zip_extract_member(c, bytes) ==
    IF c.method = ZIP_STORE THEN {bytes}
    ELSE {k.data : k \in {m \in Codes :
            /\ m.method = c.method /\ m.bytes = bytes /\ Len(m.data) = c.uncomp_size
            /\ m.method = ZIP_IMPLODE => c.gp_flag \div 2 % 4 = 3}}

\* zip_member asserts what zip_read checked.
MemberHolds(s, at) ==
    /\ at < members_end /\ IsCfh(s, at) /\ IsLfh(s, read_cfh(s, at).lfh_offset)
    /\ NextCfh(s, at) <= members_end

\* Neither absolute, nor with a step upwards or an odd character in it.
is_relative(name) ==
    /\ name # <<>> /\ name[1] \notin Roots
    /\ \A k \in DOMAIN name :
          /\ name[k] \notin Unfit
          /\ IF name[k] = DOT THEN k < Len(name) => name[k + 1] # DOT ELSE name[k] >= SPACE
    /\ name[Len(name)] \notin {SPACE, DOT}

\* EXT_ATTR_DIR
is_dir(c) == c.ext_attrs \div 16 % 2 = 1

Became(what, name, data) == [what |-> what, name |-> name, data |-> data]

GoOn(became) ==
    /\ extracted' = Append(extracted, became)
    /\ offset' = NextCfh(Archive, offset)
    /\ UNCHANGED phase

\* extract_zip: make a folder, leave a member out, or extract a file.
ExtractMember ==
    /\ phase = "extract" /\ offset # members_end
    /\ UNCHANGED <<given, writing, i, eocdr, members_end>>
    /\ IF MemberHolds(Archive, offset)
       THEN LET c == read_cfh(Archive, offset)
                name == Name(Archive, offset)
                data == zip_extract_member(c, CompData(Archive, c))
            IN  \/ ~is_relative(name) /\ GoOn(Became("skipped", name, <<>>))
                \/ is_relative(name) /\ is_dir(c) /\ GoOn(Became("folder", name, <<>>))
                \/ /\ is_relative(name) /\ ~is_dir(c)
                   /\ \/ \E d \in data : crc32(d) = c.crc32 /\ GoOn(Became("file", name, d))
                      \/ data = {} /\ GoOn(Became("file", name, <<JUNK>>))
                      \/ /\ \A d \in data : crc32(d) # c.crc32
                         /\ phase' = "refused" /\ UNCHANGED <<extracted, offset>>
       ELSE phase' = "aborted" /\ UNCHANGED <<extracted, offset>>

Done ==
    /\ phase = "extract" /\ offset = members_end
    /\ phase' = "done"
    /\ UNCHANGED <<given, writing, i, reading>>

Next ==
    \/ WriteCompressed \/ WriteStored \/ StartDirectory \/ WriteEntry \/ WriteEnd \/ Damage
    \/ ReadEnd \/ ReadHeader \/ AllRead \/ ExtractMember \/ Done

Spec == Init /\ [][Next]_vars

--------------------------------------------------------------------------------
(***************************************************************************)
(* Properties                                                              *)
(***************************************************************************)
TypeOK ==
    /\ phase \in {"not_possible", "members", "directory", "written", "read", "refused", "extract",
                  "aborted", "done"}
    /\ {p, lfh_offset, cd_offset, offset, members_end, i} \subseteq Nat
    /\ dst \in Seq(0 .. JUNK) /\ p <= Len(dst) /\ intact \in BOOLEAN
    /\ \A k \in DOMAIN extracted : DOMAIN extracted[k] = {"what", "name", "data"}

\* All variables have their types, and zip_write never needs more room than
\* zip_max_size promised, nor do the compressors it gives parts of that room to.
RoomSuffices ==
    /\ TypeOK
    /\ intact /\ phase # "not_possible" => Len(dst) <= zip_max_size

\* Whatever the file, what zip_read accepted is what zip_member finds: as many
\* members as the end record says, none of the assertions failing, with data
\* that lies inside the file even where local and central header differ.
MembersInside ==
    /\ phase # "aborted"
    /\ phase = "extract" /\ offset # members_end =>
          LET c == read_cfh(Archive, offset)
          IN  comp_data(Archive, c.lfh_offset) + c.comp_size <= p
    /\ phase = "done" => Len(extracted) = eocdr.cd_entries

zip_comment == Cut(Archive, p - back_offset(Archive), eocdr.comment_len)

Reading == phase \in {"written", "read", "extract", "refused", "aborted", "done"}

\* The end record and the comment, as they were written.
EndOfArchive == Cut(Archive, p - EOCDR_BASE_SZ - Len(comment), EOCDR_BASE_SZ + Len(comment))

\* Does the signature of an end record occur once more behind the beginning of
\* the one that was written, be it in a field of it, in the comment, or in part
\* of the one and part of the other, with room for a record up to the end?
Ambiguous == \E k \in 1 .. Len(comment) : read32le(EndOfArchive, k) = EOCDR_SIGNATURE

\* What create_zip put into an archive comes out of it again: each file under its
\* name, in order, with all its data, and the comment; only files whose names are
\* not relative are left out.  It does not when the file was changed, or when the
\* end record is ambiguous.
Promised == Reading /\ intact /\ ~Ambiguous

Due(f) == IF is_relative(f.name) THEN Became("file", f.name, f.data)
          ELSE Became("skipped", f.name, <<>>)

AllDue(s) == [k \in DOMAIN s |-> Due(s[k])]

Input ==
    CASE phase = "not_possible" -> <<>>
      [] phase = "members" -> AllDue(SubSeq(files, 1, i - 1))
      [] OTHER -> AllDue(files)

Output == IF Promised THEN extracted ELSE <<>>

Outcome ==
    IF ~Reading THEN "open"
    ELSE IF ~Promised THEN "gave_up"
    ELSE CASE phase \in {"refused", "aborted"} -> "refused"
           [] phase = "done" -> IF zip_comment = comment THEN "done" ELSE "refused"
           [] OTHER -> "open"

Codec == INSTANCE Lossless WITH
    Bytes <- {Due(f) : f \in UNION {Range(l) : l \in FileLists}},
    input <- Input, output <- Output, outcome <- Outcome

ImplementsLossless == Codec!Spec
================================================================================
