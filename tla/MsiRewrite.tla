----------------------------- MODULE MsiRewrite -----------------------------
(***************************************************************************)
(* rewrite_msi_payload (src/src/msi_recursive.cpp) on the package adapters   *)
(* (src/src/msi_package_posix.cpp, src/src/msi_package_win32.cpp).  The      *)
(* staged copy of an installer is checked completely, its unsigned PE files  *)
(* are signed through the caller's callback, changed cabinets are rebuilt,   *)
(* and everything is committed at the end.  SignFile has all of it as the    *)
(* step RewritePayload.                                                      *)
(*                                                                         *)
(* A payload is known by its identity, whether it starts with "MZ", its      *)
(* signature and its length; a hash by the payload it was computed from; a   *)
(* cabinet by its members and by the verdict on its layout.                  *)
(***************************************************************************)
EXTENDS Integers, FiniteSets, Sequences

CONSTANTS
  Contents,        \* what payloads hold, apart from their signatures
  Packages,        \* the installers to be rewritten
  ExpansionLimit,  \* expansion_limit
  MemberLimit,     \* member_limit
  MaxFileSize,     \* the largest int32_t
  Damaged          \* a staged copy after a commit that failed

ASSUME LimitsAssumption ==
  /\ ExpansionLimit \in Nat
  /\ MemberLimit \in Nat
  /\ MaxFileSize \in Nat

\* A file of the installer: whether it starts with "MZ", and the signature it has
\* none of, had when it came or got here.
PayloadFiles == [id: Contents, pe: BOOLEAN, signature: {"none", "given", "new"}, length: Nat]

CabinetMember == [name: STRING, size: Nat, meta: STRING, payload: PayloadFiles]
CabinetStream ==
  [regular: BOOLEAN, made: {"given", "mszip"}, expands: Nat, members: Seq(CabinetMember)]

\* The tables and streams that are read.
IsPackage(p) ==
  /\ DOMAIN p = {"storages", "compressed", "code", "media", "file", "streams", "binary", "hash"}
  /\ p.storages \in BOOLEAN /\ p.compressed \in BOOLEAN /\ p.code \in {"given", "renewed"}
  /\ p.media \in Seq([cabinet: STRING, last: Int, embedded: BOOLEAN])
  /\ p.file \in Seq([id: STRING, size: Int, sequence: Int, attributes: SUBSET STRING,
                     version: BOOLEAN])
  /\ \A c \in DOMAIN p.streams : p.streams[c] \in CabinetStream
  /\ p.binary \in Seq([name: STRING, payload: PayloadFiles])
  /\ p.hash \in Seq([id: STRING, options: Int, of: PayloadFiles])

\* Nothing in it was signed by this rewrite.
Untouched(p) ==
  /\ p.code = "given"
  /\ \A c \in DOMAIN p.streams : \A j \in DOMAIN p.streams[c].members :
       p.streams[c].members[j].payload.signature # "new"
  /\ \A b \in DOMAIN p.binary : p.binary[b].payload.signature # "new"

ASSUME PackagesAssumption ==
  /\ Damaged \notin Packages
  /\ \A p \in Packages : IsPackage(p) /\ Untouched(p)

\* Attaching a signature makes a file longer.
Size(payload) == payload.length + (IF payload.signature = "new" THEN 1 ELSE 0)

\* The sum of a function's values: how many pairs <<k, u>> there are, u standing for
\* the u-th unit of f[k].
Units(f) == UNION {{k} \X (1 .. f[k]) : k \in DOMAIN f}
Total(f) == Cardinality(Units(f))

TotalSize(payloads) == Total([k \in DOMAIN payloads |-> Size(payloads[k])])
TotalDeclared(members) == Total([k \in DOMAIN members |-> members[k].size])

VARIABLES
  original,   \* the staged copy as the caller made it
  windows,    \* which adapter
  disk,       \* the staged copy
  db,         \* the database as its open transaction sees it
  cabinets,   \* cabinets: one record per Media row
  work,       \* the files payload-0, payload-1, ... of the workspace
  expanded,   \* bytes accounted for
  binaries,   \* how many Binary rows have been read
  at,         \* place in the signing loops: <<cabinet, member>>
  calls,      \* calls of sign_if_unsigned
  result,     \* MsiRewriteResult
  step,       \* the next step
  outcome     \* "running", "done", "rejected" (the package) or "failed"

input == <<original, windows>>
rewriteVars == <<input, disk, db, cabinets, work, expanded, binaries, at, calls,
                 result, step, outcome>>

\* The workspace is new and the database is opened in a transaction.
RewriteInit ==
  /\ original \in Packages
  /\ windows \in BOOLEAN
  /\ disk = original
  /\ db = original
  /\ cabinets = <<>>
  /\ work = <<>>
  /\ expanded = 0
  /\ binaries = 0
  /\ at = <<1, 1>>
  /\ calls = 0
  /\ result = [signed |-> 0, preserved |-> 0]
  /\ step = "media"
  /\ outcome = "running"

Goto(from, to) == step = from /\ step' = to /\ UNCHANGED <<input, disk, outcome>>

\* An exception: the database is closed without a commit and the workspace is
\* removed.
Leave(from, how) ==
  /\ step = from
  /\ step' = "end"
  /\ outcome' = how
  /\ work' = <<>>
  /\ db' = disk
  /\ UNCHANGED <<input, disk, cabinets, expanded, binaries, at, result>>

Invalid(from) == Leave(from, "rejected") /\ UNCHANGED calls

-----------------------------------------------------------------------------
\* Preflight.

Previous(i) == IF i = 1 THEN 0 ELSE db.media[i - 1].last

\* No embedded storages; Media rows in order, each with a cabinet of its own that
\* is a stream of the database.
MediaInvalid ==
  \/ db.storages
  \/ \E i \in 1 .. Len(db.media) : db.media[i].last < Previous(i) \/ ~db.media[i].embedded
  \/ \E i, j \in 1 .. Len(db.media) : i # j /\ db.media[i].cabinet = db.media[j].cabinet

ReadMedia ==
  \/ MediaInvalid /\ Invalid("media")
  \/ /\ ~MediaInvalid
     /\ Goto("media", "files")
     /\ cabinets' = [i \in 1 .. Len(db.media) |->
                       [name |-> db.media[i].cabinet, first |-> Previous(i) + 1,
                        last |-> db.media[i].last, members |-> <<>>, changed |-> FALSE]]
     /\ UNCHANGED <<db, work, expanded, binaries, at, calls, result>>

\* A file outside the cabinets, a sequence or a size that cannot be, an
\* identifier twice.
FilesInvalid ==
  \/ \E i \in 1 .. Len(db.file) :
       \/ "noncompressed" \in db.file[i].attributes
       \/ "compressed" \notin db.file[i].attributes /\ ~db.compressed
       \/ db.file[i].sequence <= 0
       \/ db.file[i].size < 0
  \/ \E i, j \in 1 .. Len(db.file) :
       i # j /\ (db.file[i].sequence = db.file[j].sequence \/ db.file[i].id = db.file[j].id)

ReadFiles ==
  \/ FilesInvalid /\ Invalid("files")
  \/ /\ ~FilesInvalid
     /\ Goto("files", "cabinets")
     /\ UNCHANGED <<db, cabinets, work, expanded, binaries, at, calls, result>>

\* inspect_cabinet: the layout of the header, the folders and the data, disjoint
\* members within the folders' data, distinct names, and the two limits.
Inspects(stream) ==
  /\ stream.regular
  /\ TotalDeclared(stream.members) <= stream.expands
  /\ \A j, k \in 1 .. Len(stream.members) : j # k => stream.members[j].name # stream.members[k].name
  /\ Len(stream.members) <= MemberLimit - Len(work)
  /\ stream.expands <= ExpansionLimit - expanded

\* FileRow::found: the rows whose member is in a cabinet already read.
Found == UNION {{cabinets[i].members[j].name : j \in DOMAIN cabinets[i].members} :
                  i \in DOMAIN cabinets}

\* Mutant: the cabinet of a file does not matter.
Maps_AnyCabinet(i, members) ==
  \A j \in 1 .. Len(members) : \E r \in 1 .. Len(db.file) :
    /\ db.file[r].id = members[j].name
    /\ db.file[r].id \notin Found
    /\ db.file[r].size = members[j].size

\* Every member has a File row that no other member has, in the cabinet's range
\* of sequence numbers and of the same size.
Maps(i, members) ==
  \A j \in 1 .. Len(members) : \E r \in 1 .. Len(db.file) :
    /\ db.file[r].id = members[j].name
    /\ db.file[r].id \notin Found
    /\ db.file[r].sequence \in cabinets[i].first .. cabinets[i].last
    /\ db.file[r].size = members[j].size

\* Both libraries decompress the members to their paths and check them against
\* the list from inspect_cabinet, which is the same directory.  The FDI callbacks
\* also stop at a member that is longer or shorter than the directory says; with
\* GCab only the size of the extracted file tells.
SizesHold(members) == \A j \in 1 .. Len(members) : Size(members[j].payload) = members[j].size

FdiExtracts(members) == SizesHold(members)
GcabExtracts(members) == TRUE

\* The first cabinet that has not been looked at.
Unread == {i \in 1 .. Len(cabinets) : i >= at[1]}

PreflightCabinet ==
  /\ step = "cabinets"
  /\ Unread # {}
  /\ LET i == at[1]
         known == cabinets[i].name \in DOMAIN db.streams
         stream == db.streams[cabinets[i].name]
         fits == /\ known
                 /\ Inspects(stream)
                 /\ Maps(i, stream.members)
                 /\ IF windows THEN FdiExtracts(stream.members) ELSE GcabExtracts(stream.members)
                 /\ SizesHold(stream.members)
     IN \/ ~fits /\ Invalid("cabinets")
        \/ /\ fits
           /\ Goto("cabinets", "cabinets")
           /\ cabinets' = [cabinets EXCEPT ![i].members =
                [j \in 1 .. Len(stream.members) |->
                   [name |-> stream.members[j].name, size |-> stream.members[j].size,
                    meta |-> stream.members[j].meta, path |-> Len(work) + j]]]
           /\ work' = work \o [j \in 1 .. Len(stream.members) |-> stream.members[j].payload]
           /\ expanded' = expanded + stream.expands
           /\ at' = <<i + 1, 1>>
           /\ UNCHANGED <<db, binaries, calls, result>>

\* Every File row has its member.
CheckRows ==
  /\ Unread = {}
  /\ IF \E i \in 1 .. Len(db.file) : db.file[i].id \notin Found
     THEN Invalid("cabinets")
     ELSE /\ Goto("cabinets", "binaries")
          /\ at' = <<1, 1>>
          /\ UNCHANGED <<db, cabinets, work, expanded, binaries, calls, result>>

\* extract_stream stops when the stream is longer than it may be.
TooLong(payload, limit) == Size(payload) > limit

\* Binary streams share the limits with the cabinets.
NoRoom(payload) == Len(work) >= MemberLimit \/ TooLong(payload, ExpansionLimit - expanded)

PreflightBinary ==
  /\ step = "binaries"
  /\ binaries < Len(db.binary)
  /\ LET payload == db.binary[binaries + 1].payload
     IN IF NoRoom(payload)
        THEN Invalid("binaries")
        ELSE /\ Goto("binaries", "binaries")
             /\ work' = Append(work, payload)
             /\ expanded' = expanded + Size(payload)
             /\ binaries' = binaries + 1
             /\ UNCHANGED <<db, cabinets, at, calls, result>>

ReadHashes ==
  /\ binaries = Len(db.binary)
  /\ IF \E i \in 1 .. Len(db.hash) : db.hash[i].options # 0
     THEN Invalid("binaries")
     ELSE /\ Goto("binaries", "sign")
          /\ UNCHANGED <<db, cabinets, work, expanded, binaries, at, calls, result>>

-----------------------------------------------------------------------------
\* Signing.

Signed(payload) == [payload EXCEPT !.signature = "new"]

\* The next payload: of a cabinet's member or, after the last cabinet, of a
\* Binary row.
InCabinet == at[1] <= Len(cabinets) /\ at[2] <= Len(cabinets[at[1]].members)
InBinary == at[1] > Len(cabinets) /\ at[2] <= Len(db.binary)
Path == IF InCabinet THEN cabinets[at[1]].members[at[2]].path
                     ELSE Len(work) - Len(db.binary) + at[2]

NextPayload == at' = <<at[1], at[2] + 1>>

\* Not a PE file: nothing to do.
SkipPayload ==
  /\ step = "sign"
  /\ InCabinet \/ InBinary
  /\ ~work[Path].pe
  /\ Goto("sign", "sign")
  /\ NextPayload
  /\ UNCHANGED <<db, cabinets, work, expanded, binaries, calls, result>>

\* pe_candidate, and the callback's own question.
Unsigned(payload) == payload.pe /\ payload.signature = "none"

\* The callback finds a signature and returns false.
PreservePayload ==
  /\ step = "sign"
  /\ InCabinet \/ InBinary
  /\ work[Path].pe
  /\ ~Unsigned(work[Path])
  /\ Goto("sign", "sign")
  /\ NextPayload
  /\ calls' = calls + 1
  /\ result' = [result EXCEPT !.preserved = @ + 1]
  /\ UNCHANGED <<db, cabinets, work, expanded, binaries>>

\* Mutant: a file that grows is not charged for.
Charge_Once(before, after) == expanded

\* expanded with the payload's old size replaced by its new one.
Charge(before, after) == expanded - Size(before) + Size(after)

\* Mutant: the size in the File table stays.
UpdateFile_SizeStays(id, payload) == db.file

\* UPDATE `File` SET `FileSize`
UpdateFile(id, payload) ==
  [r \in DOMAIN db.file |->
     IF db.file[r].id = id THEN [db.file[r] EXCEPT !.size = Size(payload)] ELSE db.file[r]]

\* Whether the row's Version is empty.
Unversioned(package, id) ==
  \E r \in DOMAIN package.file : package.file[r].id = id /\ ~package.file[r].version

\* UPDATE `MsiFileHash`: existing rows of unversioned files.
UpdateHash(id, payload) ==
  [r \in DOMAIN db.hash |->
     IF db.hash[r].id = id /\ Unversioned(db, id)
     THEN [db.hash[r] EXCEPT !.of = payload] ELSE db.hash[r]]

\* The second check cannot fail: expansion_limit is below the range of FileSize.
Overflows(before, after) ==
  \/ Size(after) > ExpansionLimit - (expanded - Size(before))
  \/ InCabinet /\ Size(after) > MaxFileSize

\* The callback has signed the file at its path.
SignPayload ==
  /\ step = "sign"
  /\ InCabinet \/ InBinary
  /\ Unsigned(work[Path])
  /\ calls' = calls + 1
  /\ LET before == work[Path]
         after == Signed(before)
     IN \/ Overflows(before, after) /\ Leave("sign", "rejected")
        \/ /\ ~Overflows(before, after)
           /\ Goto("sign", "sign")
           /\ NextPayload
           /\ work' = [work EXCEPT ![Path] = after]
           /\ expanded' = Charge(before, after)
           /\ result' = [result EXCEPT !.signed = @ + 1]
           /\ IF InCabinet
              THEN LET id == cabinets[at[1]].members[at[2]].name IN
                   /\ cabinets' = [cabinets EXCEPT ![at[1]].changed = TRUE]
                   /\ db' = [db EXCEPT !.file = UpdateFile(id, after), !.hash = UpdateHash(id, after)]
              ELSE /\ db' = [db EXCEPT !.binary[at[2]].payload = after]
                   /\ UNCHANGED cabinets
           /\ UNCHANGED binaries

\* The libraries write one folder with the files at the members' paths, and may
\* write other dates and attributes than they were given.
CreateCabinet(members) ==
  [regular |-> TRUE, made |-> "mszip",
   expands |-> TotalSize([j \in DOMAIN members |-> work[members[j].path]]),
   members |-> [j \in DOMAIN members |->
                  [name |-> members[j].name, size |-> Size(work[members[j].path]),
                   meta |-> "normalised", payload |-> work[members[j].path]]]]

\* Mutant: the libraries' metadata stay.
PreserveMetadata_No(stream, members) == stream

\* preserve_cabinet_metadata
PreserveMetadata(stream, members) ==
  [stream EXCEPT !.members = [j \in DOMAIN members |-> [@[j] EXCEPT !.meta = members[j].meta]]]

\* A cabinet with a signed member is rebuilt, and its stream replaced.
Rebuilt(i) ==
  IF cabinets[i].changed
  THEN [db EXCEPT !.streams[cabinets[i].name] =
          PreserveMetadata(CreateCabinet(cabinets[i].members), cabinets[i].members)]
  ELSE db

FinishCabinet ==
  /\ at[1] <= Len(cabinets)
  /\ at[2] > Len(cabinets[at[1]].members)
  /\ Goto("sign", "sign")
  /\ db' = Rebuilt(at[1])
  /\ at' = <<at[1] + 1, 1>>
  /\ UNCHANGED <<cabinets, work, expanded, binaries, calls, result>>

-----------------------------------------------------------------------------
\* The end.

AllDone == step = "sign" /\ at[1] > Len(cabinets) /\ at[2] > Len(db.binary)

Return(file) ==
  /\ step' = "end"
  /\ outcome' = "done"
  /\ disk' = file
  /\ db' = file
  /\ work' = <<>>
  /\ UNCHANGED <<input, cabinets, expanded, binaries, at, calls, result>>

NothingSigned == result.signed = 0

\* renew_package_code, commit
Commit == AllDone /\ ~NothingSigned /\ Return([db EXCEPT !.code = "renewed"])

ReturnUnchanged == AllDone /\ NothingSigned /\ Return(disk)

\* What a failed commit leaves of the staged copy is up to the library.
CommitFails ==
  /\ AllDone
  /\ ~NothingSigned
  /\ step' = "end"
  /\ outcome' = "failed"
  /\ disk' = Damaged
  /\ work' = <<>>
  /\ UNCHANGED <<input, db, cabinets, expanded, binaries, at, calls, result>>

\* A query, an extraction, a rebuild, an update fails.
Fail == step # "end" /\ Leave(step, "failed") /\ UNCHANGED calls

\* The callback throws: the signature it finds is malformed, or signing fails.
CallbackThrows ==
  /\ step = "sign"
  /\ InCabinet \/ InBinary
  /\ work[Path].pe
  /\ Leave("sign", "failed")
  /\ calls' = calls + 1

Returned == step = "end" /\ UNCHANGED rewriteVars

RewriteNext ==
  \/ ReadMedia
  \/ ReadFiles
  \/ PreflightCabinet
  \/ CheckRows
  \/ PreflightBinary
  \/ ReadHashes
  \/ SkipPayload
  \/ PreservePayload
  \/ SignPayload
  \/ FinishCabinet
  \/ Commit
  \/ ReturnUnchanged
  \/ CommitFails
  \/ Fail
  \/ CallbackThrows
  \/ Returned

RewriteSpec == RewriteInit /\ [][RewriteNext]_rewriteVars

-----------------------------------------------------------------------------
\* Properties.

\* The counters and places stay in their ranges.
TypeOK ==
  /\ disk \in {original, Damaged} \/ disk.code = "renewed"
  /\ expanded \in 0 .. ExpansionLimit
  /\ Len(work) <= MemberLimit
  /\ binaries \in 0 .. Len(original.binary)
  /\ at[1] \in 1 .. Len(original.media) + 1
  /\ at[2] \in Nat \ {0}
  /\ calls \in 0 .. MemberLimit
  /\ result.signed + result.preserved <= calls
  /\ step \in {"media", "files", "cabinets", "binaries", "sign", "end"}
  /\ outcome \in {"running", "done", "rejected", "failed"}

\* What an installer must be like, as Windows Installer reads it: a file is in
\* the cabinet of the first Media row whose LastSequence is not below its
\* sequence number.
CabinetOf(p, seq) == {i \in DOMAIN p.media :
  seq <= p.media[i].last /\ \A k \in DOMAIN p.media : seq <= p.media[k].last => i <= k}

Streams(p) == {p.media[i].cabinet : i \in DOMAIN p.media}

\* All places of members, as pairs of a Media row and a position.
Members(p) == {m \in (DOMAIN p.media) \X (1 .. MemberLimit) :
                 m[2] <= Len(p.streams[p.media[m[1]].cabinet].members)}

Member(p, m) == p.streams[p.media[m[1]].cabinet].members[m[2]]

MemberCount(p) == Total([i \in DOMAIN p.media |-> Len(p.streams[p.media[i].cabinet].members)])

Expands(p) ==
  Total([i \in DOMAIN p.media |-> p.streams[p.media[i].cabinet].expands])
    + Total([b \in DOMAIN p.binary |-> Size(p.binary[b].payload)])

TablesSound(p) ==
  /\ ~p.storages
  /\ \A i \in DOMAIN p.media :
       /\ p.media[i].embedded
       /\ p.media[i].last >= 0
       /\ \A k \in 1 .. i - 1 : p.media[k].last <= p.media[i].last
       /\ \A k \in 1 .. i - 1 : p.media[k].cabinet # p.media[i].cabinet
  /\ \A r \in DOMAIN p.file :
       /\ "noncompressed" \notin p.file[r].attributes
       /\ p.compressed \/ "compressed" \in p.file[r].attributes
       /\ p.file[r].sequence > 0
       /\ \A s \in 1 .. r - 1 : p.file[s].sequence # p.file[r].sequence
  /\ \A r \in DOMAIN p.hash : p.hash[r].options = 0

\* File rows and members correspond one to one, by name, cabinet and size.
PayloadSound(p) ==
  /\ \A i \in DOMAIN p.media :
       /\ p.media[i].cabinet \in DOMAIN p.streams
       /\ p.streams[p.media[i].cabinet].regular
       /\ TotalDeclared(p.streams[p.media[i].cabinet].members)
            <= p.streams[p.media[i].cabinet].expands
       /\ Len(p.streams[p.media[i].cabinet].members) <= MemberLimit
  /\ \A m \in Members(p) :
       /\ Size(Member(p, m).payload) = Member(p, m).size
       /\ \E r \in DOMAIN p.file :
            /\ p.file[r].id = Member(p, m).name
            /\ p.file[r].size = Member(p, m).size
            /\ CabinetOf(p, p.file[r].sequence) = {m[1]}
  /\ \A r \in DOMAIN p.file :
       \E m \in Members(p) :
         /\ Member(p, m).name = p.file[r].id
         /\ \A n \in Members(p) \ {m} : Member(p, n).name # p.file[r].id
         /\ \A s \in DOMAIN p.file \ {r} : p.file[s].id # p.file[r].id
  /\ MemberCount(p) + Len(p.binary) <= MemberLimit
  /\ Expands(p) <= ExpansionLimit

Sound(p) == TablesSound(p) /\ PayloadSound(p)

\* "Every CAB and Binary stream is preflighted before the first callback"
\* (msi_recursive.hpp): when the first file is signed the whole package has been
\* found in order, and no package that is in order is refused before that.
PreflightFirst ==
  /\ calls > 0 \/ outcome = "done" => Sound(original)
  /\ outcome = "rejected" /\ calls = 0 => ~Sound(original)

\* A payload with the signature that this rewrite added taken away again.
Stripped(payload) == IF payload.signature = "new" THEN [payload EXCEPT !.signature = "none"]
                                                  ELSE payload

\* The installer holds what it held before, in the same order, under the same
\* names, dates and attributes, but for new signatures on unsigned PE files; a
\* cabinet without one is the same stream.
SamePayload(p, q) ==
  /\ \A c \in DOMAIN q.streams :
       LET old == q.streams[c].members
           new == p.streams[c].members
       IN /\ Len(new) = Len(old)
          /\ \A j \in DOMAIN old :
               /\ Stripped(new[j].payload) = old[j].payload
               /\ new[j].name = old[j].name /\ new[j].meta = old[j].meta
          /\ (\A j \in DOMAIN old : new[j].payload = old[j].payload) => p.streams[c] = q.streams[c]
  /\ \A b \in DOMAIN q.binary :
       p.binary[b].name = q.binary[b].name /\ Stripped(p.binary[b].payload) = q.binary[b].payload

\* No PE file of the installer is without a signature.
AllSigned(p) ==
  /\ \A m \in Members(p) : ~(Member(p, m).payload.pe /\ Member(p, m).payload.signature = "none")
  /\ \A b \in DOMAIN p.binary : ~(p.binary[b].payload.pe /\ p.binary[b].payload.signature = "none")

\* "applicable existing installer hash rows are updated" (README): the hash of an
\* unversioned file that was right is right again.
HashesHold(p, q) ==
  \A r \in DOMAIN q.hash : \A m \in Members(q) :
    /\ Member(q, m).name = q.hash[r].id
    /\ Unversioned(q, q.hash[r].id)
    /\ q.hash[r].of = Member(q, m).payload
    => p.hash[r].of = Member(p, m).payload

\* A successful rewrite leaves an installer in which every PE file is signed,
\* that has a new PackageCode if a payload changed, and that is in order itself:
\* rewriting it again would find nothing to refuse and nothing to do.
RewrittenWhole ==
  outcome = "done" =>
    /\ AllSigned(disk)
    /\ Sound(disk)
    /\ HashesHold(disk, original)
    /\ (disk.code = "renewed") = (disk # original)

\* "Existing signed payload PEs are preserved byte-for-byte ... Non-PE files ...
\* remain unchanged" (README).
OthersPreserved == outcome = "done" => SamePayload(disk, original)

\* expanded never falls behind the bytes in the workspace: the limit on expansion
\* bounds them, and "expanded - before" (msi_recursive.cpp) does not wrap; the
\* members and the calls stay within their limits.
BudgetHolds ==
  /\ TypeOK
  /\ TotalSize(work) <= expanded
  /\ expanded <= ExpansionLimit
=============================================================================
