----------------------------- MODULE PrivateFile -----------------------------
(***************************************************************************)
(* atomic_write_private_file and remove_file (src/src/posix.cpp and          *)
(* win32.cpp) on one path: the fixed sibling "<path>.tmp" is truncated,      *)
(* written and renamed over the path, while readers open the path and read.  *)
(* Files are inodes, so a descriptor keeps what it opened when the name      *)
(* moves on.  A text is written and read in two halves.  Each writer is an   *)
(* aas-sign process and writes its own text; it may fail or be killed at any *)
(* step, and the machine may lose power.  Then the path leads to what it led *)
(* to when the kernel last wrote the directory back (nothing here flushes    *)
(* it), and a file nobody flushed may be found empty or damaged.             *)
(*                                                                         *)
(* The specification is FileSpec: TokenCache is the one about what is in the *)
(* files.                                                                    *)
(***************************************************************************)
EXTENDS Naturals, FiniteSets

CONSTANTS
  Writers, Readers, \* processes
  Old,              \* the text the path may hold at the start
  Inodes,           \* enough for the names and descriptors, and for a new file
  Overlap           \* BOOLEAN: may two writers be at work at once?

None == "none"
Blank == "blank"
Torn == "torn"
Lost == "lost"      \* what a loss of power leaves of a file not flushed

Texts == Writers \cup {Old}

ASSUME FileAssumption ==
  /\ Old \notin Writers
  /\ None \notin Inodes
  /\ {None, Blank, Torn, Lost} \cap Texts = {}
  /\ IsFiniteSet(Inodes) /\ IsFiniteSet(Writers) /\ IsFiniteSet(Readers)
  /\ Cardinality(Inodes) >= IF Overlap THEN 2 + Cardinality(Writers) + Cardinality(Readers)
                                       ELSE 3 + Cardinality(Readers)
  /\ Overlap \in BOOLEAN

VARIABLES
  windows,      \* win32.cpp, or posix.cpp? (fixed)
  final, tmp,   \* the inodes the two names lead to, or None
  data,         \* per inode: its two halves
  onDisk,       \* the inode the path leads to on disk, or None
  synced,       \* the inodes whose content is known to be on disk
  unflushed,    \* (history) the inodes whose writer's flush failed or was not tried
  wpc, wfd,     \* per writer: its next step, its descriptor
  rpc, rfd,     \* per reader: its next step, its descriptor
  buf           \* per reader: the halves it has read

files == <<windows, final, tmp, data, onDisk, synced, unflushed>>
writers == <<wpc, wfd>>
readers == <<rpc, rfd, buf>>
fileVars == <<files, writers, readers>>

Whole(t) == [h \in {1, 2} |-> t]

\* What a parser makes of two halves.
Text(d) == IF d[1] = d[2] /\ d[1] # Blank THEN d[1] ELSE Torn

InUse ==
  {final, tmp, onDisk} \cup {wfd[w] : w \in Writers} \cup {rfd[r] : r \in Readers}

FileInit ==
  /\ windows \in BOOLEAN
  /\ \E i \in Inodes :
       /\ final \in {None, i}
       /\ data = [k \in Inodes |-> Whole(IF k = i THEN Old ELSE Blank)]
       /\ synced = {i}
  /\ onDisk = final
  /\ unflushed = {}
  /\ tmp = None
  /\ wpc = [w \in Writers |-> "open"]
  /\ wfd = [w \in Writers |-> None]
  /\ rpc = [r \in Readers |-> "open"]
  /\ rfd = [r \in Readers |-> None]
  /\ buf = [r \in Readers |-> Whole(Blank)]

-----------------------------------------------------------------------------
\* Writers.

WriterGoto(w, from, to) ==
  /\ wpc[w] = from
  /\ wpc' = [wpc EXCEPT ![w] = to]
  /\ UNCHANGED <<windows, readers>>

Busy(w) == wpc[w] # "open"

\* Share mode 0: while one process has the file open no other may open it or
\* move it.  POSIX has no such thing.
Unshared == windows => \A w \in Writers : wfd[w] = None \/ wfd[w] # tmp

\* Mutant: the path itself is opened and written in place.
OpenTmp_InPlace(w) ==
  /\ WriterGoto(w, "open", "half 1")
  /\ \A v \in Writers : ~Busy(v)
  /\ \E i \in Inodes :
       /\ IF final # None THEN i = final ELSE i \notin InUse
       /\ final' = i
       /\ data' = [data EXCEPT ![i] = Whole(Blank)]
       /\ synced' = synced \ {i}
       /\ unflushed' = unflushed \ {i}
       /\ wfd' = [wfd EXCEPT ![w] = i]
  /\ UNCHANGED <<tmp, onDisk>>

\* open O_CREAT|O_TRUNC, CreateFileW CREATE_ALWAYS: an existing .tmp, whoever
\* made it, is emptied and reused.  (Inodes nothing leads to are blank again.)
OpenTmp(w) ==
  /\ WriterGoto(w, "open", "half 1")
  /\ Overlap \/ \A v \in Writers : ~Busy(v)
  /\ Unshared
  /\ \E i \in Inodes :
       /\ IF tmp # None THEN i = tmp ELSE i \notin InUse
       /\ tmp' = i
       /\ data' = [k \in Inodes |-> IF k \in InUse \ {i} THEN data[k] ELSE Whole(Blank)]
       /\ synced' = (synced \cap InUse) \ {i}
       /\ unflushed' = (unflushed \cap InUse) \ {i}
       /\ wfd' = [wfd EXCEPT ![w] = i]
  /\ UNCHANGED <<final, onDisk>>

Put(w, half) ==
  /\ data' = [data EXCEPT ![wfd[w]][half] = w]
  /\ synced' = synced \ {wfd[w]}
  /\ UNCHANGED <<final, tmp, onDisk, unflushed, wfd>>

\* The write loop.
WriteHalf1(w) == WriterGoto(w, "half 1", "half 2") /\ Put(w, 1)
WriteHalf2(w) == WriterGoto(w, "half 2", "close") /\ Put(w, 2)

\* Mutant: no fsync.
SyncAndClose_NoFsync(w) ==
  /\ WriterGoto(w, "close", "rename")
  /\ wfd' = [wfd EXCEPT ![w] = None]
  /\ UNCHANGED files

\* fsync, then close.  Windows does not flush; on POSIX the result of fsync is
\* not looked at, so the file is renamed whether it is on disk or not.
SyncAndClose(w) ==
  /\ WriterGoto(w, "close", "rename")
  /\ \/ ~windows /\ synced' = synced \cup {wfd[w]} /\ UNCHANGED unflushed
     \/ unflushed' = unflushed \cup {wfd[w]} /\ UNCHANGED synced
  /\ wfd' = [wfd EXCEPT ![w] = None]
  /\ UNCHANGED <<final, tmp, data, onDisk>>

\* rename, MoveFileExW: whatever .tmp is by now gets the path's name.
Rename(w) ==
  /\ WriterGoto(w, "rename", "open")
  /\ Unshared
  /\ tmp # None
  /\ final' = tmp
  /\ tmp' = None
  /\ UNCHANGED <<data, onDisk, synced, unflushed, wfd>>

\* Any of the calls fails and throws, or the process is killed: the descriptor
\* is closed and .tmp stays behind.  A later command of the user starts afresh.
Fail(w) ==
  /\ Busy(w)
  /\ wpc' = [wpc EXCEPT ![w] = "open"]
  /\ wfd' = [wfd EXCEPT ![w] = None]
  /\ UNCHANGED <<files, readers>>

\* remove_file: a missing file is no error.
RemoveFile ==
  /\ Overlap \/ \A v \in Writers : ~Busy(v)
  /\ final # None
  /\ final' = None
  /\ UNCHANGED <<windows, tmp, data, onDisk, synced, unflushed, writers, readers>>

-----------------------------------------------------------------------------
\* Readers: std::ifstream on the path.

ReaderGoto(r, from, to) ==
  /\ rpc[r] = from
  /\ rpc' = [rpc EXCEPT ![r] = to]
  /\ UNCHANGED <<files, writers>>

\* A missing file ends the read: there is no cache, there are no defaults.
OpenRead(r) ==
  /\ ReaderGoto(r, "open", IF final = None THEN "open" ELSE "half 1")
  /\ rfd' = [rfd EXCEPT ![r] = final]
  /\ buf' = [buf EXCEPT ![r] = Whole(Blank)]

ReadHalf(r, half) ==
  /\ buf' = [buf EXCEPT ![r][half] = data[rfd[r]][half]]
  /\ UNCHANGED rfd

ReadHalf1(r) == ReaderGoto(r, "half 1", "half 2") /\ ReadHalf(r, 1)
ReadHalf2(r) == ReaderGoto(r, "half 2", "read") /\ ReadHalf(r, 2)

\* The stream is destroyed, the text was parsed; the process may read again.
CloseRead(r) ==
  /\ ReaderGoto(r, "read", "open")
  /\ rfd' = [rfd EXCEPT ![r] = None]
  /\ UNCHANGED buf

\* The kernel writes the directory back, whenever it likes.
WriteBack ==
  /\ onDisk' = final
  /\ UNCHANGED <<windows, final, tmp, data, synced, unflushed, writers, readers>>

\* The power fails while nobody is reading: every process is gone, a rename or a
\* removal not yet written back is undone, and a file not flushed may be lost.
\* Whether .tmp is still there makes no difference: the next writer empties it.
PowerCut ==
  /\ \A r \in Readers : rpc[r] = "open"
  /\ wpc' = [w \in Writers |-> "open"]
  /\ wfd' = [w \in Writers |-> None]
  /\ final' = onDisk
  /\ tmp' \in {None, tmp}
  /\ \E lost \in SUBSET ((Inodes \ synced) \cap {onDisk, tmp}) :
       /\ data' = [i \in Inodes |-> IF i \in lost THEN Whole(Lost) ELSE data[i]]
       /\ synced' = (Inodes \cap {onDisk, tmp}) \ lost
  /\ UNCHANGED <<windows, onDisk, unflushed, readers>>

Writer(w) ==
  OpenTmp(w) \/ WriteHalf1(w) \/ WriteHalf2(w) \/ SyncAndClose(w) \/ Rename(w) \/ Fail(w)
Reader(r) == OpenRead(r) \/ ReadHalf1(r) \/ ReadHalf2(r) \/ CloseRead(r)

FileNext ==
  \/ \E w \in Writers : Writer(w)
  \/ \E r \in Readers : Reader(r)
  \/ RemoveFile
  \/ WriteBack
  \/ PowerCut

FileSpec == FileInit /\ [][FileNext]_fileVars

-----------------------------------------------------------------------------
\* Properties.

FileTypeOK ==
  /\ windows \in BOOLEAN
  /\ {final, tmp, onDisk} \subseteq Inodes \cup {None}
  /\ data \in [Inodes -> [{1, 2} -> Texts \cup {Blank, Lost}]]
  /\ synced \subseteq Inodes /\ unflushed \subseteq Inodes
  /\ wpc \in [Writers -> {"open", "half 1", "half 2", "close", "rename"}]
  /\ wfd \in [Writers -> Inodes \cup {None}]
  /\ rpc \in [Readers -> {"open", "half 1", "half 2", "read"}]
  /\ rfd \in [Readers -> Inodes \cup {None}]
  /\ buf \in [Readers -> [{1, 2} -> Texts \cup {Blank, Lost}]]

\* "A concurrent reader sees either the old contents or the new -- never a torn
\* write": whatever the writers do meanwhile, a finished read is no mixture.
NeverTorn ==
  \A r \in Readers : rpc[r] = "read" => Text(buf[r]) # Torn

\* The path is absent or leads to one whole text, and after a loss of power too,
\* unless the flush of that very text failed or was not tried: fsync comes between
\* the last write and the rename.  The other variables keep their types.
PathWhole ==
  /\ FileTypeOK
  /\ final # None =>
       /\ Text(data[final]) # Torn
       /\ Text(data[final]) = Lost => final \in unflushed

\* What the path holds if it leads to i, and whether a loss of power may damage it.
Held(i) ==
  [text |-> IF i = None THEN None ELSE Text(data[i]), solid |-> i = None \/ i \in synced]

\* What a reader is going to return: fixed when it opens the path.
Got ==
  [r \in Readers |->
     IF rfd[r] # None THEN Text(data[rfd[r]])
     ELSE IF buf[r] = Whole(Blank) THEN None ELSE Text(buf[r])]

Abstract == INSTANCE Register WITH
  Values <- Texts, Absent <- None, Damaged <- Lost,
  file <- Held(final), disk <- Held(onDisk), got <- Got

\* One writer at a time makes the path an atomic register: reads take effect at
\* their open, writes at their rename, and a loss of power brings back what the
\* path held when the directory was last written back.
ActsAsRegister == Abstract!Spec
=============================================================================
