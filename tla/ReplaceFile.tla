---------------------------- MODULE ReplaceFile ----------------------------
(***************************************************************************)
(* platform::atomic_replace_file (src/src/posix.cpp, src/src/win32.cpp): how *)
(* the completed stages of several jobs take the place of one input, call by *)
(* call.  Any call may fail, the process may be killed between two calls,    *)
(* and a loss of power undoes what was not flushed: the names lead again to  *)
(* what they led to when the directory last reached the disk, and a file not *)
(* flushed is lost.  SignFile's ReplaceInput is this operation seen as one   *)
(* step.                                                                     *)
(*                                                                           *)
(* On Windows ReplaceFileW (external) renames the target to the backup name  *)
(* and then the stage to the target; the code's comment says that it may     *)
(* fail in between.                                                          *)
(***************************************************************************)
EXTENDS Naturals, FiniteSets

CONSTANTS
  Jobs,       \* calls of atomic_replace_file on the same destination
  Original,   \* the file that was there before
  Aliases,    \* the jobs whose stage is the destination itself or no regular file
  None        \* no file

Files == Jobs \cup {Original}

ASSUME ReplaceAssumption ==
  /\ Aliases \subseteq Jobs
  /\ Original \notin Jobs
  /\ None \notin Files

VARIABLES
  windows,    \* win32.cpp, or posix.cpp? (fixed)
  target,     \* the file the destination's name leads to, or None
  backup,     \* per job: the file its backup name leads to, or None
  kept,       \* the files that have the original's owner and permissions
  flushed,    \* the files whose content is on disk
  disk,       \* the destination's name and the backup names, as they are on disk
  pc,         \* per job: its next call
  result,     \* per job: "running", "ok", "threw" or "stranded"
  alive       \* FALSE after a kill or a loss of power

vars == <<windows, target, backup, kept, flushed, disk, pc, result, alive>>

Names == [target |-> target, backup |-> backup]

Init ==
  /\ windows \in BOOLEAN
  /\ target = Original
  /\ backup = [j \in Jobs |-> None]
  /\ kept = {Original}
  /\ flushed = {Original}
  /\ disk = Names
  /\ pc = [j \in Jobs |-> "inspect"]
  /\ result = [j \in Jobs |-> "running"]
  /\ alive = TRUE

Goto(j, from, to) ==
  /\ alive
  /\ pc[j] = from
  /\ pc' = [pc EXCEPT ![j] = to]
  /\ UNCHANGED <<windows, alive>>

Return(j, from, r) ==
  /\ Goto(j, from, "returned")
  /\ result' = [result EXCEPT ![j] = r]

\* lstat and open O_NOFOLLOW, or GetFileAttributesW and the exclusive open: both
\* must be regular files, and not the same one.
Inspect(j) ==
  /\ Goto(j, "inspect", IF windows THEN "flush" ELSE "chmod")
  /\ target # None
  /\ j \notin Aliases
  /\ UNCHANGED <<target, backup, kept, flushed, result, disk>>

\* POSIX: fchown and fchmod with what lstat said of the destination.
SetMode(j) ==
  /\ Goto(j, "chmod", "flush")
  /\ kept' = kept \cup {j}
  /\ UNCHANGED <<target, backup, flushed, result, disk>>

\* Mutant: the stage is not flushed.
Flush_Skipped(j) ==
  /\ Goto(j, "flush", IF windows THEN "replace" ELSE "rename")
  /\ UNCHANGED <<target, backup, kept, flushed, result, disk>>

\* fsync, FlushFileBuffers.
Flush(j) ==
  /\ Goto(j, "flush", IF windows THEN "replace" ELSE "rename")
  /\ flushed' = flushed \cup {j}
  /\ UNCHANGED <<target, backup, kept, result, disk>>

\* Mutant: a rename that failed is not noticed.
Rename_Unchecked(j) ==
  /\ Goto(j, "rename", "sync dir")
  /\ target' \in {target, j}
  /\ UNCHANGED <<backup, kept, flushed, result, disk>>

\* POSIX: rename is the commit point.
Rename(j) ==
  /\ Goto(j, "rename", "sync dir")
  /\ target' = j
  /\ UNCHANGED <<backup, kept, flushed, result, disk>>

\* The directory's open or fsync may fail; the result is not looked at.
SyncDirectory(j) ==
  /\ Return(j, "sync dir", "ok")
  /\ disk' \in {disk, Names}
  /\ UNCHANGED <<target, backup, kept, flushed>>

-----------------------------------------------------------------------------
\* Windows.

\* Mutant: there is no backup to begin with.
SetAside_NoBackup(j) ==
  /\ Goto(j, "replace", "move in")
  /\ target # None
  /\ target' = None
  /\ UNCHANGED <<backup, kept, flushed, result, disk>>

\* ReplaceFileW's first half: the target gets the backup's name.
SetAside(j) ==
  /\ Goto(j, "replace", "move in")
  /\ target # None
  /\ backup' = [backup EXCEPT ![j] = target]
  /\ target' = None
  /\ UNCHANGED <<kept, flushed, result, disk>>

\* Its second half; the target's ACL and attributes are carried over.
MoveIn(j) ==
  /\ Goto(j, "move in", "delete backup")
  /\ target' = j
  /\ kept' = kept \cup {j}
  /\ UNCHANGED <<backup, flushed, result, disk>>

\* ERROR_UNABLE_TO_MOVE_REPLACEMENT_2: the second half has failed.
CannotMoveIn(j) ==
  /\ Goto(j, "move in", "restore")
  /\ UNCHANGED <<target, backup, kept, flushed, result, disk>>

\* Mutant: the error is thrown without moving the backup back.
Restore_Skipped(j) ==
  /\ Return(j, "restore", "threw")
  /\ UNCHANGED <<target, backup, kept, flushed, disk>>

\* MoveFileExW of the backup to the target's name, which must be free; then the
\* error is thrown.
Restore(j) ==
  /\ Return(j, "restore", "threw")
  /\ target = None
  /\ target' = backup[j]
  /\ backup' = [backup EXCEPT ![j] = None]
  /\ UNCHANGED <<kept, flushed, disk>>

\* ... which may fail too: another error, which says where the original is.
CannotRestore(j) ==
  /\ Return(j, "restore", "stranded")
  /\ UNCHANGED <<target, backup, kept, flushed, disk>>

\* DeleteFileW; a failure is ignored.
DeleteBackup(j) ==
  /\ Return(j, "delete backup", "ok")
  /\ \/ backup' = [backup EXCEPT ![j] = None]
     \/ backup' = backup
  /\ UNCHANGED <<target, kept, flushed, disk>>

-----------------------------------------------------------------------------

\* Every call before the commit may fail; a ReplaceFileW that fails otherwise
\* than CannotMoveIn has changed nothing.
Throw(j) ==
  /\ \E step \in {"inspect", "chmod", "flush", "rename", "replace"} : Return(j, step, "threw")
  /\ UNCHANGED <<target, backup, kept, flushed, disk>>

\* The directory reaches the disk, whenever the kernel likes.
WriteBack ==
  /\ alive
  /\ disk' = Names
  /\ UNCHANGED <<windows, target, backup, kept, flushed, pc, result, alive>>

\* The process is killed.
Kill ==
  /\ alive
  /\ alive' = FALSE
  /\ UNCHANGED <<windows, target, backup, kept, flushed, disk, pc, result>>

Lost == "lost"

Survivor(f) == IF f \in flushed \cup {None} THEN f ELSE Lost

\* The power fails: the names lead to what they led to on disk, and of those files
\* one that was not flushed is an empty one now.
PowerCut ==
  /\ alive
  /\ alive' = FALSE
  /\ target' = Survivor(disk.target)
  /\ backup' = [j \in Jobs |-> Survivor(disk.backup[j])]
  /\ UNCHANGED <<windows, kept, flushed, disk, pc, result>>

Step(j) ==
  \/ Inspect(j)  \/ SetMode(j) \/ Flush(j)        \/ Rename(j)  \/ SyncDirectory(j)
  \/ SetAside(j) \/ MoveIn(j)  \/ CannotMoveIn(j) \/ Restore(j) \/ CannotRestore(j)
  \/ DeleteBackup(j) \/ Throw(j)

Next == (\E j \in Jobs : Step(j)) \/ WriteBack \/ Kill \/ PowerCut

Spec == Init /\ [][Next]_vars

-----------------------------------------------------------------------------
\* Properties.

TypeOK ==
  /\ windows \in BOOLEAN
  /\ target \in Files \cup {None, Lost}
  /\ backup \in [Jobs -> Files \cup {None, Lost}]
  /\ disk \in [target: Files \cup {None, Lost}, backup: [Jobs -> Files \cup {None, Lost}]]
  /\ kept \subseteq Files
  /\ flushed \subseteq Files
  /\ pc \in [Jobs -> {"inspect", "chmod", "flush", "rename", "sync dir", "replace", "move in",
                      "restore", "delete backup", "returned"}]
  /\ result \in [Jobs -> {"running", "ok", "threw", "stranded"}]
  /\ alive \in BOOLEAN

\* At every moment, after a kill or a loss of power too, the destination is the
\* original or one of the completed files, with the original's permissions
\* (posix.cpp; ReplaceFileW does not promise it).
DestinationPresent == ~windows => target \in Files /\ target \in kept

\* "A failed pre-commit operation leaves the destination unchanged": a call that
\* threw has not put its file there, and if all calls threw the original is
\* still there.
FailureLeavesDestination ==
  /\ \A j \in Jobs : result[j] \in {"threw", "stranded"} => target # j
  /\ (alive /\ \A j \in Jobs : result[j] \in {"threw", "stranded"}) => target = Original

\* Some call could not move back the file it had set aside (win32.cpp).
Stranded == \E j \in Jobs : result[j] = "stranded"

\* A failed replacement leaves the destination as it was, unless its error says
\* that the original could not be moved back (atomic_replace_file).
FailureRestores == ~Stranded => FailureLeavesDestination

\* Whatever fails and whenever the machine stops, some whole version of the file
\* can still be found, at the destination or under a backup name (win32.cpp); the
\* variables keep their types.
NothingLost == TypeOK /\ \E f \in Files : target = f \/ \E j \in Jobs : backup[j] = f

\* The refinement mapping: the version that counts is the one at the destination
\* or, while that name is free, what the call that freed it holds as its backup.
Holding == {j \in Jobs : pc[j] \in {"move in", "restore"} \/ result[j] = "stranded"}
Newest  == IF target # None THEN target
           ELSE IF Holding # {} THEN backup[CHOOSE j \in Holding : TRUE] ELSE None

Outcome(call, r) == CASE call \in {"sync dir", "delete backup"} -> "committed"
                      [] r \in {"threw", "stranded"} -> "failed"
                      [] r = "ok" -> "ok"
                      [] OTHER -> "pending"
Status == [j \in Jobs |-> Outcome(pc[j], result[j])]

Abstract == INSTANCE AtomicSign WITH
  Paths <- {"destination"}, Target <- [j \in Jobs |-> "destination"],
  owner <- [p \in {"destination"} |-> Newest], status <- Status

\* Every file at the destination or under a backup name is the original or that of
\* a call that has committed, never that of one that threw or is still at work.
Traced ==
  \A f \in ({target} \cup {backup[j] : j \in Jobs}) \ {None} :
    f = Original \/ (f \in Jobs /\ Status[f] \in {"committed", "ok"})

\* To whoever looks for the newest version, the calls of one replacement are the
\* single step that SignFile takes it for, on both platforms: that version changes
\* once for each call that returns normally, to its file, and never for one that
\* throws, whatever fails or is killed in between.  A loss of power may take it
\* back, even past calls that returned normally (the directory's fsync may have
\* failed unnoticed), but only to the original or to another version that was
\* committed.
ReplacesAtomically ==
  /\ Abstract!Init
  /\ [][Abstract!Next \/ (PowerCut /\ UNCHANGED Status /\ Traced')]_(Abstract!vars)
=============================================================================
