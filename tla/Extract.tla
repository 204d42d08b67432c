--------------------------------- MODULE Extract ---------------------------------
(***************************************************************************)
(* hwzip extract (extract_zip of hwzip.c, with zip_read and                *)
(* zip_extract_member of zip.c and mkfldr of folder.c): the whole archive  *)
(* is read and its headers checked, then its members are decompressed,     *)
(* checked against their CRC and written to disk, in order.  The first     *)
(* error ends the program; so may the system, at any time.                 *)
(*                                                                         *)
(* Names are paths of components separated by '/'.                         *)
(***************************************************************************)
EXTENDS Naturals, Sequences

CONSTANTS
    Path,            \* the relative paths of the model, closed under prefixes
    ZipMember,       \* the members archives are made of
    MAX_MEMBERS      \* bound of the model: members of an archive

\* A member: its path; whether its name ends in '/'; whether its attributes say
\* directory; whether its name is relative and clean (is_relative); whether its
\* headers are acceptable to zip_read; and what becomes of its data: "good",
\* "undecodable", or decoded but not matching its "crc".
ASSUME MemberAssumption ==
    ZipMember \subseteq [path : Path, slash : BOOLEAN, is_dir : BOOLEAN, relative : BOOLEAN,
                      readable : BOOLEAN, data : {"good", "undecodable", "crc"}]

ASSUME PathAssumption ==
    /\ Path \subseteq Seq(STRING)
    /\ \A p \in Path : Len(p) > 0 /\ \A k \in 1 .. Len(p) : SubSeq(p, 1, k) \in Path

ASSUME BoundAssumption == MAX_MEMBERS \in Nat

VARIABLES
    archive,         \* the members of the archive
    old,             \* the destination folder before
    disk,            \* the destination folder
    it,              \* the member being extracted
    place,              \* where the program is
    status           \* its exit status

extract_vars == <<archive, old, disk, it, place, status>>

\* What a path can be.  Files hold the data of a member, named by its position,
\* or data from before; a file cut short is in neither state.
Nothing == [kind |-> "none", member |-> 0]
Dir == [kind |-> "dir", member |-> 0]
OldFile == [kind |-> "file", member |-> 0]
Partial == [kind |-> "partial", member |-> 0]
File(n) == [kind |-> "file", member |-> n]

Archives == UNION {[1 .. n -> ZipMember] : n \in 0 .. MAX_MEMBERS}

Parent(p) == SubSeq(p, 1, Len(p) - 1)

\* Can something be made at p: its parent is a folder.
HasParent(d, p) == IF Len(p) = 1 THEN TRUE ELSE d[Parent(p)] = Dir

Folders == {d \in [Path -> {Nothing, Dir, OldFile}] :
              \A p \in Path : d[p] # Nothing => HasParent(d, p)}

ExtractInit ==
    /\ archive \in Archives
    /\ old \in Folders /\ disk = old
    /\ it = 1
    /\ place = "zip_read" /\ status = "running"

memb == archive[it]

Exit(s) == status' = s /\ UNCHANGED <<archive, old, disk, it, place>>

ContinueAt(label) == place' = label /\ UNCHANGED <<archive, old, disk, it, status>>

--------------------------------------------------------------------------------
mkdir(d, p) == IF d[p] = Nothing /\ HasParent(d, p) THEN [d EXCEPT ![p] = Dir] ELSE d

\* Every prefix in turn; an error does not stop it and is not looked at.
mkfldr(d, p) ==
    LET made[k \in 0 .. Len(p)] == IF k = 0 THEN d ELSE mkdir(made[k - 1], SubSeq(p, 1, k))
    IN  made[Len(p)]

\* The archive cannot be read, or a header is not acceptable (an encrypted
\* member, an unknown method, data out of the file): nothing is extracted.
ZipReadFails ==
    /\ place = "zip_read" /\ status = "running"
    /\ Exit("1")

ZipRead ==
    /\ place = "zip_read" /\ status = "running"
    /\ \A n \in 1 .. Len(archive) : archive[n].readable
    /\ ContinueAt("member")

NextMember == it' = it + 1 /\ place' = "member"

AtMember == place = "member" /\ status = "running" /\ it <= Len(archive)

\* Unclean names are skipped, folders and files alike.
Skip ==
    /\ AtMember /\ ~memb.relative
    /\ NextMember
    /\ UNCHANGED <<archive, old, disk, status>>

CreateDir ==
    /\ AtMember /\ memb.relative /\ memb.is_dir
    /\ disk' = mkfldr(disk, memb.path)
    /\ NextMember
    /\ UNCHANGED <<archive, old, status>>

\* Mutant of BadData: the error is printed, the member skipped.
BadDataGoesOn ==
    /\ AtMember /\ memb.relative /\ ~memb.is_dir
    /\ memb.data # "good"
    /\ NextMember
    /\ UNCHANGED <<archive, old, disk, status>>

\* zip_extract_member fails, or the CRC-32 does not match.
BadData ==
    /\ AtMember /\ memb.relative /\ ~memb.is_dir
    /\ memb.data # "good"
    /\ Exit("1")

\* Mutant of MakeFolder: the CRC is not compared.
MakeFolderUnchecked ==
    /\ AtMember /\ memb.relative /\ ~memb.is_dir
    /\ memb.data # "undecodable"
    /\ disk' = mkfldr(disk, IF memb.slash THEN memb.path ELSE Parent(memb.path))
    /\ place' = "fopen"
    /\ UNCHANGED <<archive, old, it, status>>

\* make_folder, for the part of the name before its last '/'.
MakeFolder ==
    /\ AtMember /\ memb.relative /\ ~memb.is_dir
    /\ memb.data = "good"
    /\ disk' = mkfldr(disk, IF memb.slash THEN memb.path ELSE Parent(memb.path))
    /\ place' = "fopen"
    /\ UNCHANGED <<archive, old, it, status>>

CanOpen == ~memb.slash /\ HasParent(disk, memb.path) /\ disk[memb.path] # Dir

\* Opening a file for writing empties it.
OpenFile ==
    /\ place = "fopen" /\ status = "running"
    /\ CanOpen
    /\ disk' = [disk EXCEPT ![memb.path] = Partial]
    /\ place' = "fwrite"
    /\ UNCHANGED <<archive, old, it, status>>

\* A folder is in the way, or a file where a folder should be, or the name ends
\* in '/'; or the system refuses.
OpenFails == place = "fopen" /\ status = "running" /\ Exit("1")

WriteFile ==
    /\ place = "fwrite" /\ status = "running"
    /\ disk' = [disk EXCEPT ![memb.path] = File(it)]
    /\ NextMember
    /\ UNCHANGED <<archive, old, status>>

\* No room on the disk, for instance.
WriteFails == place = "fwrite" /\ status = "running" /\ Exit("1")

AllDone ==
    /\ place = "member" /\ status = "running" /\ it > Len(archive)
    /\ Exit("0")

\* The system may end the process at any time.
Killed == status = "running" /\ Exit("killed")

Step ==
    \/ ZipReadFails \/ ZipRead \/ Skip \/ CreateDir \/ BadData
    \/ MakeFolder \/ OpenFile \/ OpenFails \/ WriteFile \/ WriteFails \/ AllDone

ExtractNext == Step \/ Killed

ExtractSpec == ExtractInit /\ [][ExtractNext]_extract_vars

--------------------------------------------------------------------------------
(***************************************************************************)
(* Properties                                                              *)
(***************************************************************************)
Status == {"running", "0", "1", "killed"}

ExtractTypeOK ==
    /\ archive \in Archives
    /\ old \in Folders
    /\ disk \in [Path -> {Nothing, Dir, OldFile, Partial} \cup {File(n) : n \in 1 .. MAX_MEMBERS}]
    /\ it \in 1 .. Len(archive) + 1
    /\ place \in {"zip_read", "member", "fopen", "fwrite"}
    /\ status \in Status

\* The members before n that extract_zip writes to p.
Writers(p, n) == {k \in 1 .. n - 1 : archive[k].path = p /\ ~archive[k].is_dir
                                        /\ archive[k].relative}

\* Whatever ends the program, a file on disk is what it was before, or all the
\* data of a member that passed its check; only the file of the member at which
\* it ended may be cut short.  A member whose data is bad never touches the file
\* an earlier version of it left, and an archive with one header that is not
\* acceptable leaves the whole folder alone.
OnlyCheckedData ==
    /\ ExtractTypeOK
    /\ \A p \in Path :
        \/ disk[p] = old[p]
        \/ old[p] = Nothing /\ disk[p] = Dir
        \/ /\ \A n \in 1 .. Len(archive) : archive[n].readable
           /\ \/ \E n \in Writers(p, it) : archive[n].data = "good" /\ disk[p] = File(n)
              \/ place = "fwrite" /\ p = memb.path /\ disk[p] = Partial

\* At any time the folder holds every file of the members before the current
\* one; of several members with one name, the last.  In particular exit status
\* 0 means that every file of the archive is there, and a later member never
\* undoes an earlier one but by carrying its name.
Extracted ==
    \A p \in Path :
        LET done == Writers(p, it)
        IN  done # {} =>
                \/ disk[p] = File(CHOOSE n \in done : \A k \in done : k <= n)
                \/ place = "fwrite" /\ p = memb.path

================================================================================
