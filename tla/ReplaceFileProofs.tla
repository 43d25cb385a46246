------------------------- MODULE ReplaceFileProofs -------------------------
(***************************************************************************)
(* ReplaceFile for any number of calls: what is at the destination, and    *)
(* under a backup name, is always the original or the completed file of a  *)
(* call that has committed; and the calls implement AtomicSign's one step. *)
(***************************************************************************)
EXTENDS ReplaceFile, TLAPS

\* The call is between the two halves of ReplaceFileW, or about to undo the first.
Between(j) == pc[j] \in {"move in", "restore"}

\* The call has put its file at the destination.
Committed(j) == pc[j] \in {"sync dir", "delete backup"} \/ result[j] = "ok"

\* What a call has established before each of its steps.
Prepared(j) ==
  /\ pc[j] \in {"rename", "sync dir", "replace", "move in"} => j \in flushed
  /\ pc[j] \in {"chmod", "rename", "sync dir"} => ~windows
  /\ pc[j] \in {"flush", "rename"} /\ ~windows => j \in kept
  /\ pc[j] \in {"replace", "move in", "restore", "delete backup"} => windows
  /\ result[j] = "stranded" => windows
  /\ (result[j] = "running") = (pc[j] # "returned")

\* The destination and the backups are whole files, or names that are free.
Whole ==
  /\ target \in flushed \cup {None}
  /\ \A j \in Jobs : backup[j] \in flushed \cup {None}
  /\ ~windows => target \in kept /\ target # None

\* The name of the destination is free only while one call holds what was there
\* under its backup name, or after it could not move it back.
Held(j) == Between(j) \/ result[j] = "stranded"

OneHolder ==
  /\ \A j \in Jobs : Held(j) => target = None /\ backup[j] \in Files
  /\ \A i, j \in Jobs : Held(i) /\ Held(j) => i = j
  /\ target = None => \E j \in Jobs : Held(j)

\* A file found at a name is the original, if nobody has committed, or that of a
\* call that has.
OfCommitted ==
  /\ \A j \in Jobs : target = j => Committed(j)
  /\ \A i, j \in Jobs : backup[i] = j => Committed(j)
  /\ \A j \in Jobs : Committed(j) => target # Original
  /\ \A i, j \in Jobs : Committed(j) /\ Held(i) => backup[i] # Original

\* What holds until the power fails: a kill leaves the names alone.
RunInv ==
  /\ TypeOK
  /\ \A j \in Jobs : Prepared(j)
  /\ Whole
  /\ OneHolder
  /\ OfCommitted

\* The directory with destination t and backups b: whole files of calls that have
\* committed, or the original, and one of them at least.
Sound(t, b) ==
  /\ t \in flushed \cup {None}
  /\ \A j \in Jobs : b[j] \in flushed \cup {None}
  /\ ~windows => t \in kept /\ t # None
  /\ \A j \in Jobs : t = j => Committed(j)
  /\ \A i, j \in Jobs : b[i] = j => Committed(j)
  /\ \E f \in Files : t = f \/ \E j \in Jobs : b[j] = f

\* The inductive invariant: the directory is sound, on disk too, so that it still is
\* when a loss of power has brought that one back.
ReplaceInv ==
  /\ TypeOK
  /\ \A j \in Jobs : Prepared(j)
  /\ Sound(target, backup)
  /\ Sound(disk.target, disk.backup)
  /\ alive => RunInv

LEMMA InspectKeeps ==
  ASSUME NEW j \in Jobs, RunInv, Inspect(j)
  PROVE  RunInv'
<1>1. TypeOK'
  BY DEF RunInv, Inspect, Goto, TypeOK, Files
<1>2. ASSUME NEW i \in Jobs
      PROVE  Prepared(i)' /\ (Held(i)' <=> Held(i)) /\ (Committed(i)' <=> Committed(i))
  <2>1. CASE i = j
    BY <2>1 DEF RunInv, Inspect, Goto, TypeOK, Prepared, Held, Between, Committed
  <2>2. CASE i # j
    BY <2>2 DEF RunInv, Inspect, Goto, TypeOK, Prepared, Held, Between, Committed
  <2>3. QED
    BY <2>1, <2>2
<1>3. Whole'
  BY ReplaceAssumption DEF RunInv, Inspect, Goto, TypeOK, Prepared, Whole, Files
<1>4. OneHolder'
  BY <1>2, ReplaceAssumption DEF RunInv, Inspect, Goto, TypeOK, Whole, OneHolder, Files
<1>5. OfCommitted'
  BY <1>2, ReplaceAssumption DEF RunInv, Inspect, Goto, TypeOK, OneHolder, OfCommitted, Files
<1>6. QED
  BY <1>1, <1>2, <1>3, <1>4, <1>5 DEF RunInv


LEMMA SetModeKeeps ==
  ASSUME NEW j \in Jobs, RunInv, SetMode(j)
  PROVE  RunInv'
<1>1. TypeOK'
  BY DEF RunInv, SetMode, Goto, TypeOK, Files
<1>2. ASSUME NEW i \in Jobs
      PROVE  Prepared(i)' /\ (Held(i)' <=> Held(i)) /\ (Committed(i)' <=> Committed(i))
  <2>1. CASE i = j
    BY <2>1 DEF RunInv, SetMode, Goto, TypeOK, Prepared, Held, Between, Committed
  <2>2. CASE i # j
    BY <2>2 DEF RunInv, SetMode, Goto, TypeOK, Prepared, Held, Between, Committed
  <2>3. QED
    BY <2>1, <2>2
<1>3. Whole'
  BY ReplaceAssumption DEF RunInv, SetMode, Goto, TypeOK, Prepared, Whole, Files
<1>4. OneHolder'
  BY <1>2, ReplaceAssumption DEF RunInv, SetMode, Goto, TypeOK, Whole, OneHolder, Files
<1>5. OfCommitted'
  BY <1>2, ReplaceAssumption DEF RunInv, SetMode, Goto, TypeOK, OneHolder, OfCommitted, Files
<1>6. QED
  BY <1>1, <1>2, <1>3, <1>4, <1>5 DEF RunInv


LEMMA FlushKeeps ==
  ASSUME NEW j \in Jobs, RunInv, Flush(j)
  PROVE  RunInv'
<1>1. TypeOK'
  BY DEF RunInv, Flush, Goto, TypeOK, Files
<1>2. ASSUME NEW i \in Jobs
      PROVE  Prepared(i)' /\ (Held(i)' <=> Held(i)) /\ (Committed(i)' <=> Committed(i))
  <2>1. CASE i = j /\ windows
    BY <2>1 DEF RunInv, Flush, Goto, TypeOK, Prepared, Held, Between, Committed
  <2>2. CASE i = j /\ ~windows
    BY <2>2 DEF RunInv, Flush, Goto, TypeOK, Prepared, Held, Between, Committed
  <2>3. CASE i # j
    BY <2>3 DEF RunInv, Flush, Goto, TypeOK, Prepared, Held, Between, Committed
  <2>4. QED
    BY <2>1, <2>2, <2>3
<1>3. Whole'
  BY ReplaceAssumption DEF RunInv, Flush, Goto, TypeOK, Prepared, Whole, Files
<1>4. OneHolder'
  BY <1>2, ReplaceAssumption DEF RunInv, Flush, Goto, TypeOK, Whole, OneHolder, Files
<1>5. OfCommitted'
  BY <1>2, ReplaceAssumption DEF RunInv, Flush, Goto, TypeOK, OneHolder, OfCommitted, Files
<1>6. QED
  BY <1>1, <1>2, <1>3, <1>4, <1>5 DEF RunInv


LEMMA RenameKeeps ==
  ASSUME NEW j \in Jobs, RunInv, Rename(j)
  PROVE  RunInv'
<1>1. TypeOK'
  BY DEF RunInv, Rename, Goto, TypeOK, Files
<1>2. ASSUME NEW i \in Jobs
      PROVE  Prepared(i)' /\ (Held(i)' <=> Held(i)) /\ (Committed(i)' <=> Committed(i) \/ i = j)
  <2>1. CASE i = j
    BY <2>1 DEF RunInv, Rename, Goto, TypeOK, Prepared, Held, Between, Committed
  <2>2. CASE i # j
    BY <2>2 DEF RunInv, Rename, Goto, TypeOK, Prepared, Held, Between, Committed
  <2>3. QED
    BY <2>1, <2>2
<1>3. Whole'
  BY ReplaceAssumption DEF RunInv, Rename, Goto, TypeOK, Prepared, Whole, Files
<1>4. target # None /\ target' = j /\ backup' = backup /\ j # None /\ j # Original
  BY ReplaceAssumption DEF RunInv, Rename, Goto, TypeOK, Prepared, Whole, Files
<1>5. \A i \in Jobs : ~Held(i) /\ ~Held(i)'
  BY <1>2, <1>4 DEF RunInv, OneHolder
<1>6. OneHolder'
  BY <1>4, <1>5 DEF OneHolder
<1>7. OfCommitted'
  BY <1>2, <1>4, <1>5 DEF RunInv, OfCommitted
<1>8. QED
  BY <1>1, <1>2, <1>3, <1>6, <1>7 DEF RunInv


LEMMA NamesTyped ==
  ASSUME TypeOK
  PROVE  Names \in [target: Files \cup {None, Lost}, backup: [Jobs -> Files \cup {None, Lost}]]
<1>1. target \in Files \cup {None, Lost} /\ backup \in [Jobs -> Files \cup {None, Lost}]
  BY DEF TypeOK
<1> HIDE DEF Files
<1> QED
  BY <1>1 DEF Names

LEMMA SyncDirectoryKeeps ==
  ASSUME NEW j \in Jobs, RunInv, SyncDirectory(j)
  PROVE  RunInv'
<1>1. TypeOK'
  <2>1. disk' \in [target: Files \cup {None, Lost}, backup: [Jobs -> Files \cup {None, Lost}]]
    BY NamesTyped DEF RunInv, SyncDirectory, TypeOK
  <2> QED
    BY <2>1 DEF RunInv, SyncDirectory, Goto, Return, TypeOK, Files
<1>2. ASSUME NEW i \in Jobs
      PROVE  Prepared(i)' /\ (Held(i)' <=> Held(i)) /\ (Committed(i)' <=> Committed(i))
  <2>1. CASE i = j
    BY <2>1 DEF RunInv, SyncDirectory, Goto, Return, TypeOK, Prepared, Held, Between, Committed
  <2>2. CASE i # j
    BY <2>2 DEF RunInv, SyncDirectory, Goto, Return, TypeOK, Prepared, Held, Between, Committed
  <2>3. QED
    BY <2>1, <2>2
<1>3. Whole'
  BY ReplaceAssumption DEF RunInv, SyncDirectory, Goto, Return, TypeOK, Prepared, Whole, Files
<1>4. OneHolder'
  BY <1>2, ReplaceAssumption DEF RunInv, SyncDirectory, Goto, Return, TypeOK, Whole, OneHolder, Files
<1>5. OfCommitted'
  BY <1>2, ReplaceAssumption DEF RunInv, SyncDirectory, Goto, Return, TypeOK, OneHolder, OfCommitted, Files
<1>6. QED
  BY <1>1, <1>2, <1>3, <1>4, <1>5 DEF RunInv


LEMMA SetAsideKeeps ==
  ASSUME NEW j \in Jobs, RunInv, SetAside(j)
  PROVE  RunInv'
<1>1. TypeOK'
  BY DEF RunInv, SetAside, Goto, TypeOK, Files
<1>2. ASSUME NEW i \in Jobs
      PROVE  Prepared(i)' /\ (Held(i)' <=> Held(i) \/ i = j) /\ (Committed(i)' <=> Committed(i))
  <2>1. CASE i = j
    BY <2>1 DEF RunInv, SetAside, Goto, TypeOK, Prepared, Held, Between, Committed
  <2>2. CASE i # j
    BY <2>2 DEF RunInv, SetAside, Goto, TypeOK, Prepared, Held, Between, Committed
  <2>3. QED
    BY <2>1, <2>2
<1>3. Whole'
  BY ReplaceAssumption DEF RunInv, SetAside, Goto, TypeOK, Prepared, Whole, Files
<1>4. OneHolder'
  BY <1>2, ReplaceAssumption DEF RunInv, SetAside, Goto, TypeOK, Whole, OneHolder, Files
<1>5. /\ target # None /\ target' = None /\ None # Original /\ None \notin Jobs
      /\ \A i \in Jobs : ~Held(i) /\ backup'[i] = IF i = j THEN target ELSE backup[i]
  BY ReplaceAssumption DEF RunInv, SetAside, Goto, TypeOK, OneHolder, Files
<1>6. OfCommitted'
  BY <1>2, <1>5 DEF RunInv, OfCommitted
<1>7. QED
  BY <1>1, <1>2, <1>3, <1>4, <1>6 DEF RunInv


LEMMA MoveInKeeps ==
  ASSUME NEW j \in Jobs, RunInv, MoveIn(j)
  PROVE  RunInv'
<1>1. TypeOK'
  BY DEF RunInv, MoveIn, Goto, TypeOK, Files
<1>2. ASSUME NEW i \in Jobs
      PROVE  Prepared(i)' /\ (Held(i)' <=> Held(i) /\ i # j) /\ (Committed(i)' <=> Committed(i) \/ i = j)
  <2>1. CASE i = j
    BY <2>1 DEF RunInv, MoveIn, Goto, TypeOK, Prepared, Held, Between, Committed
  <2>2. CASE i # j
    BY <2>2 DEF RunInv, MoveIn, Goto, TypeOK, Prepared, Held, Between, Committed
  <2>3. QED
    BY <2>1, <2>2
<1>3. Whole'
  BY ReplaceAssumption DEF RunInv, MoveIn, Goto, TypeOK, Prepared, Whole, Files
<1>4. Held(j) /\ target' = j /\ backup' = backup /\ j # None /\ j # Original
  BY ReplaceAssumption DEF RunInv, MoveIn, Goto, Held, Between, Files
<1>5. \A i \in Jobs : ~Held(i)'
  BY <1>2, <1>4 DEF RunInv, OneHolder
<1>6. OneHolder'
  BY <1>4, <1>5 DEF OneHolder
<1>7. OfCommitted'
  BY <1>2, <1>4, <1>5 DEF RunInv, OfCommitted
<1>8. QED
  BY <1>1, <1>2, <1>3, <1>6, <1>7 DEF RunInv


LEMMA CannotMoveInKeeps ==
  ASSUME NEW j \in Jobs, RunInv, CannotMoveIn(j)
  PROVE  RunInv'
<1>1. TypeOK'
  BY DEF RunInv, CannotMoveIn, Goto, TypeOK, Files
<1>2. ASSUME NEW i \in Jobs
      PROVE  Prepared(i)' /\ (Held(i)' <=> Held(i)) /\ (Committed(i)' <=> Committed(i))
  <2>1. CASE i = j
    BY <2>1 DEF RunInv, CannotMoveIn, Goto, TypeOK, Prepared, Held, Between, Committed
  <2>2. CASE i # j
    BY <2>2 DEF RunInv, CannotMoveIn, Goto, TypeOK, Prepared, Held, Between, Committed
  <2>3. QED
    BY <2>1, <2>2
<1>3. Whole'
  BY ReplaceAssumption DEF RunInv, CannotMoveIn, Goto, TypeOK, Prepared, Whole, Files
<1>4. OneHolder'
  BY <1>2, ReplaceAssumption DEF RunInv, CannotMoveIn, Goto, TypeOK, Whole, OneHolder, Files
<1>5. OfCommitted'
  BY <1>2, ReplaceAssumption DEF RunInv, CannotMoveIn, Goto, TypeOK, OneHolder, OfCommitted, Files
<1>6. QED
  BY <1>1, <1>2, <1>3, <1>4, <1>5 DEF RunInv


LEMMA RestoreKeeps ==
  ASSUME NEW j \in Jobs, RunInv, Restore(j)
  PROVE  RunInv'
<1>1. TypeOK'
  BY DEF RunInv, Restore, Goto, Return, TypeOK, Files
<1>2. ASSUME NEW i \in Jobs
      PROVE  Prepared(i)' /\ (Held(i)' <=> Held(i) /\ i # j) /\ (Committed(i)' <=> Committed(i))
  <2>1. CASE i = j
    BY <2>1 DEF RunInv, Restore, Goto, Return, TypeOK, Prepared, Held, Between, Committed
  <2>2. CASE i # j
    BY <2>2 DEF RunInv, Restore, Goto, Return, TypeOK, Prepared, Held, Between, Committed
  <2>3. QED
    BY <2>1, <2>2
<1>3. Whole'
  BY ReplaceAssumption DEF RunInv, Restore, Goto, Return, TypeOK, Prepared, Whole, Files
<1>4. /\ Held(j) /\ target' = backup[j]
      /\ \A i \in Jobs : backup'[i] = IF i = j THEN None ELSE backup[i]
  BY DEF RunInv, Restore, Return, Goto, TypeOK, Held, Between
<1>5. \A i \in Jobs : ~Held(i)'
  BY <1>2, <1>4 DEF RunInv, OneHolder
<1>6. backup[j] \in Files /\ None \notin Files
  BY <1>4, ReplaceAssumption DEF RunInv, OneHolder
<1>7. OneHolder'
  BY <1>4, <1>5, <1>6 DEF OneHolder
<1>8. OfCommitted'
  BY <1>2, <1>4, <1>5, <1>6 DEF RunInv, OfCommitted, Files
<1>9. QED
  BY <1>1, <1>2, <1>3, <1>7, <1>8 DEF RunInv


LEMMA CannotRestoreKeeps ==
  ASSUME NEW j \in Jobs, RunInv, CannotRestore(j)
  PROVE  RunInv'
<1>1. TypeOK'
  BY DEF RunInv, CannotRestore, Goto, Return, TypeOK, Files
<1>2. ASSUME NEW i \in Jobs
      PROVE  Prepared(i)' /\ (Held(i)' <=> Held(i)) /\ (Committed(i)' <=> Committed(i))
  <2>1. CASE i = j
    BY <2>1 DEF RunInv, CannotRestore, Goto, Return, TypeOK, Prepared, Held, Between, Committed
  <2>2. CASE i # j
    BY <2>2 DEF RunInv, CannotRestore, Goto, Return, TypeOK, Prepared, Held, Between, Committed
  <2>3. QED
    BY <2>1, <2>2
<1>3. Whole'
  BY ReplaceAssumption DEF RunInv, CannotRestore, Goto, Return, TypeOK, Prepared, Whole, Files
<1>4. OneHolder'
  BY <1>2, ReplaceAssumption DEF RunInv, CannotRestore, Goto, Return, TypeOK, Whole, OneHolder, Files
<1>5. OfCommitted'
  BY <1>2, ReplaceAssumption DEF RunInv, CannotRestore, Goto, Return, TypeOK, OneHolder, OfCommitted, Files
<1>6. QED
  BY <1>1, <1>2, <1>3, <1>4, <1>5 DEF RunInv


LEMMA DeleteBackupKeeps ==
  ASSUME NEW j \in Jobs, RunInv, DeleteBackup(j)
  PROVE  RunInv'
<1>1. TypeOK'
  BY DEF RunInv, DeleteBackup, Goto, Return, TypeOK, Files
<1>2. ASSUME NEW i \in Jobs
      PROVE  Prepared(i)' /\ (Held(i)' <=> Held(i)) /\ (Committed(i)' <=> Committed(i))
  <2>1. CASE i = j
    BY <2>1 DEF RunInv, DeleteBackup, Goto, Return, TypeOK, Prepared, Held, Between, Committed
  <2>2. CASE i # j
    BY <2>2 DEF RunInv, DeleteBackup, Goto, Return, TypeOK, Prepared, Held, Between, Committed
  <2>3. QED
    BY <2>1, <2>2
<1>3. Whole'
  BY ReplaceAssumption DEF RunInv, DeleteBackup, Goto, Return, TypeOK, Prepared, Whole, Files
<1>4. /\ ~Held(j) /\ target' = target
      /\ \A i \in Jobs : backup'[i] = backup[i] \/ (i = j /\ backup'[i] = None)
  BY DEF RunInv, DeleteBackup, Return, Goto, TypeOK, Prepared, Held, Between
<1>5. OneHolder'
  BY <1>2, <1>4 DEF RunInv, OneHolder
<1>6. None \notin Jobs
  BY ReplaceAssumption DEF Files
<1>7. OfCommitted'
  BY <1>2, <1>4, <1>6 DEF RunInv, OfCommitted
<1>8. QED
  BY <1>1, <1>2, <1>3, <1>5, <1>7 DEF RunInv


LEMMA ThrowKeeps ==
  ASSUME NEW j \in Jobs, RunInv, Throw(j)
  PROVE  RunInv'
<1>0. PICK step \in {"inspect", "chmod", "flush", "rename", "replace"} : Return(j, step, "threw")
  BY DEF Throw
<1>a. UNCHANGED <<windows, alive, target, backup, kept, flushed, disk>> /\ pc[j] = step
      /\ pc' = [pc EXCEPT ![j] = "returned"] /\ result' = [result EXCEPT ![j] = "threw"]
  BY <1>0 DEF Throw, Return, Goto
<1>1. TypeOK'
  BY <1>a DEF RunInv, TypeOK, Files
<1>2. ASSUME NEW i \in Jobs
      PROVE  Prepared(i)' /\ (Held(i)' <=> Held(i)) /\ (Committed(i)' <=> Committed(i))
  <2>1. CASE i = j
    BY <1>a, <2>1 DEF RunInv, TypeOK, Prepared, Held, Between, Committed
  <2>2. CASE i # j
    BY <1>a, <2>2 DEF RunInv, TypeOK, Prepared, Held, Between, Committed
  <2>3. QED
    BY <2>1, <2>2
<1>3. Whole'
  BY <1>a, ReplaceAssumption DEF RunInv, TypeOK, Prepared, Whole, Files
<1>4. OneHolder'
  BY <1>a, <1>2, ReplaceAssumption DEF RunInv, TypeOK, Whole, OneHolder, Files
<1>5. OfCommitted'
  BY <1>a, <1>2, ReplaceAssumption DEF RunInv, TypeOK, OneHolder, OfCommitted, Files
<1>6. QED
  BY <1>1, <1>2, <1>3, <1>4, <1>5 DEF RunInv

LEMMA StepKeeps ==
  ASSUME NEW j \in Jobs, RunInv, Step(j)
  PROVE  RunInv'
  BY InspectKeeps, SetModeKeeps, FlushKeeps, RenameKeeps, SyncDirectoryKeeps, SetAsideKeeps,
     MoveInKeeps, CannotMoveInKeeps, RestoreKeeps, CannotRestoreKeeps, DeleteBackupKeeps, ThrowKeeps
     DEF Step

\* What has been flushed, given its permissions or committed stays so.
Grown ==
  /\ windows' = windows /\ flushed \subseteq flushed' /\ kept \subseteq kept'
  /\ \A i \in Jobs : Committed(i) => Committed(i)'

LEMMA StepGrows ==
  ASSUME NEW j \in Jobs, RunInv, Step(j)
  PROVE  Grown /\ alive /\ alive' /\ disk' \in {disk, Names}
<1>0. disk' \in {disk, Names}
  BY DEF Step, Inspect, SetMode, Flush, Rename, SyncDirectory, SetAside, MoveIn, CannotMoveIn,
     Restore, CannotRestore, DeleteBackup, Throw
<1>1. flushed \subseteq flushed' /\ kept \subseteq kept'
  BY DEF Step, Inspect, SetMode, Flush, Rename, SyncDirectory, SetAside, MoveIn, CannotMoveIn,
     Restore, CannotRestore, DeleteBackup, Throw
<1>2. alive /\ UNCHANGED <<windows, alive>>
  <2>1. CASE Inspect(j) \/ SetMode(j) \/ Flush(j) \/ Rename(j)
    BY <2>1 DEF Inspect, SetMode, Flush, Rename, Goto
  <2>2. CASE SetAside(j) \/ MoveIn(j) \/ CannotMoveIn(j)
    BY <2>2 DEF SetAside, MoveIn, CannotMoveIn, Goto
  <2>3. CASE SyncDirectory(j) \/ Restore(j) \/ CannotRestore(j) \/ DeleteBackup(j)
    BY <2>3 DEF SyncDirectory, Restore, CannotRestore, DeleteBackup, Return, Goto
  <2>4. CASE Throw(j)
    BY <2>4 DEF Throw, Return, Goto
  <2> QED
    BY <2>1, <2>2, <2>3, <2>4 DEF Step
<1>3. /\ pc \in [Jobs -> {"inspect", "chmod", "flush", "rename", "sync dir", "replace", "move in",
                          "restore", "delete backup", "returned"}]
      /\ result \in [Jobs -> {"running", "ok", "threw", "stranded"}]
      /\ Prepared(j)
  BY DEF RunInv, TypeOK
<1>4. \A i \in Jobs : i # j => pc'[i] = pc[i] /\ result'[i] = result[i]
  <2>1. ASSUME NEW i \in Jobs, i # j PROVE pc'[i] = pc[i] /\ result'[i] = result[i]
    <3>1. CASE Inspect(j) \/ SetMode(j) \/ Flush(j) \/ Rename(j)
      BY <1>3, <2>1, <3>1 DEF Inspect, SetMode, Flush, Rename, Goto
    <3>2. CASE SetAside(j) \/ MoveIn(j) \/ CannotMoveIn(j)
      BY <1>3, <2>1, <3>2 DEF SetAside, MoveIn, CannotMoveIn, Goto
    <3>3. CASE SyncDirectory(j) \/ Restore(j) \/ CannotRestore(j) \/ DeleteBackup(j)
      BY <1>3, <2>1, <3>3 DEF SyncDirectory, Restore, CannotRestore, DeleteBackup, Return, Goto
    <3>4. CASE Throw(j)
      BY <1>3, <2>1, <3>4 DEF Throw, Return, Goto
    <3> QED
      BY <3>1, <3>2, <3>3, <3>4 DEF Step
  <2> QED
    BY <2>1
<1>5. Committed(j) => Committed(j)'
  <2> SUFFICES ASSUME Committed(j) PROVE Committed(j)'
    OBVIOUS
  <2>1. pc[j] # "returned"
    BY DEF Step, Inspect, SetMode, Flush, Rename, SyncDirectory, SetAside, MoveIn, CannotMoveIn,
       Restore, CannotRestore, DeleteBackup, Throw, Return, Goto
  <2>2. pc[j] \in {"sync dir", "delete backup"}
    BY <1>3, <2>1 DEF Committed, Prepared
  <2>3. SyncDirectory(j) \/ DeleteBackup(j)
    BY <2>2 DEF Step, Inspect, SetMode, Flush, Rename, SetAside, MoveIn, CannotMoveIn,
       Restore, CannotRestore, Throw, Return, Goto
  <2> QED
    BY <1>3, <2>3 DEF SyncDirectory, DeleteBackup, Return, Committed
<1> QED
  BY <1>0, <1>1, <1>2, <1>4, <1>5 DEF Grown, Committed

\* A sound directory stays one.
LEMMA SoundStays ==
  ASSUME NEW t, NEW b, Sound(t, b), Grown
  PROVE  /\ t \in flushed' \cup {None}
         /\ \A j \in Jobs : b[j] \in flushed' \cup {None}
         /\ ~windows' => t \in kept' /\ t # None
         /\ \A j \in Jobs : t = j => Committed(j)'
         /\ \A i, j \in Jobs : b[i] = j => Committed(j)'
         /\ \E f \in Files : t = f \/ \E j \in Jobs : b[j] = f
  BY DEF Sound, Grown

LEMMA RunSound ==
  ASSUME RunInv
  PROVE  Sound(target, backup)
<1>1. \E f \in Files : target = f \/ \E j \in Jobs : backup[j] = f
  BY DEF RunInv, Whole, OneHolder, TypeOK
<1> QED
  BY <1>1 DEF RunInv, Whole, OfCommitted, Sound

LEMMA RunSoundThen ==
  ASSUME RunInv'
  PROVE  Sound(target, backup)'
<1>1. \E f \in Files : target' = f \/ \E j \in Jobs : backup'[j] = f
  BY DEF RunInv, Whole, OneHolder, TypeOK
<1> QED
  BY <1>1 DEF RunInv, Whole, OfCommitted, Sound

LEMMA InvStep ==
  ASSUME NEW j \in Jobs, ReplaceInv, Step(j)
  PROVE  ReplaceInv'
<1>1. alive /\ RunInv
  BY DEF ReplaceInv, Step, Inspect, SetMode, Flush, Rename, SyncDirectory, SetAside, MoveIn,
     CannotMoveIn, Restore, CannotRestore, DeleteBackup, Throw, Return, Goto
<1>2. RunInv' /\ Grown /\ disk' \in {disk, Names}
  BY <1>1, StepKeeps, StepGrows
<1>3. Sound(target, backup)'
  BY <1>2, RunSoundThen
<1>4. Sound(disk'.target, disk'.backup)
  BY <1>1, <1>2, RunSound DEF ReplaceInv, Names
<1>5. Sound(disk.target, disk.backup)'
  BY <1>2, <1>4, SoundStays DEF Sound
<1> QED
  BY <1>2, <1>3, <1>5 DEF ReplaceInv, RunInv

\* A kill, the directory's way to the disk, and no step at all.
LEMMA StopKeeps ==
  ASSUME ReplaceInv, Kill \/ WriteBack \/ UNCHANGED vars
  PROVE  ReplaceInv' /\ (RunInv => RunInv')
<1>1. /\ UNCHANGED <<windows, target, backup, kept, flushed, pc, result>>
      /\ alive' \in {alive, FALSE} /\ (disk' = disk \/ (alive /\ disk' = Names))
  BY DEF Kill, WriteBack, vars, ReplaceInv, TypeOK
<1>2. TypeOK'
  <2>1. alive' \in BOOLEAN
    BY <1>1 DEF ReplaceInv, TypeOK
  <2>2. disk' \in [target: Files \cup {None, Lost}, backup: [Jobs -> Files \cup {None, Lost}]]
    BY <1>1, NamesTyped DEF ReplaceInv, TypeOK
  <2> QED
    BY <1>1, <2>1, <2>2 DEF ReplaceInv, TypeOK
<1>3. \A j \in Jobs : (Prepared(j) <=> Prepared(j)') /\ (Committed(j) <=> Committed(j)')
                    /\ (Held(j) <=> Held(j)')
  BY <1>1 DEF Prepared, Committed, Held, Between
<1>4. RunInv => RunInv'
  BY <1>1, <1>2, <1>3 DEF RunInv, Whole, OneHolder, OfCommitted
<1>5. Grown
  BY <1>1, <1>3 DEF Grown
<1>6. Sound(target, backup)'
  BY <1>1, <1>5, SoundStays DEF ReplaceInv, Sound
<1>7. Sound(disk'.target, disk'.backup)
  BY <1>1 DEF ReplaceInv, Names
<1>8. Sound(disk.target, disk.backup)'
  BY <1>5, <1>7, SoundStays DEF Sound
<1>9. (alive' => RunInv') /\ \A j \in Jobs : Prepared(j)'
  <2>1. alive' => alive
    BY <1>1 DEF ReplaceInv, TypeOK
  <2>2. alive => RunInv
    BY DEF ReplaceInv
  <2>3. \A j \in Jobs : Prepared(j)
    BY DEF ReplaceInv
  <2> QED
    BY <1>3, <1>4, <2>1, <2>2, <2>3
<1> QED
  BY <1>2, <1>4, <1>6, <1>8, <1>9 DEF ReplaceInv

\* A loss of power leaves the directory as it was on disk, where every file is whole.
LEMMA PowerCutKeeps ==
  ASSUME ReplaceInv, PowerCut
  PROVE  /\ ReplaceInv' /\ alive /\ alive' = FALSE /\ UNCHANGED <<pc, result>>
         /\ target' = disk.target /\ \A j \in Jobs : backup'[j] = disk.backup[j]
<1>1. /\ UNCHANGED <<windows, kept, flushed, disk, pc, result>> /\ alive /\ alive' = FALSE
      /\ target' = Survivor(disk.target)
      /\ backup' = [j \in Jobs |-> Survivor(disk.backup[j])]
  BY DEF PowerCut
<1>2. Sound(disk.target, disk.backup)
  BY DEF ReplaceInv
<1>3. target' = disk.target /\ \A j \in Jobs : backup'[j] = disk.backup[j]
  BY <1>1, <1>2 DEF Sound, Survivor
<1>4. TypeOK'
  BY <1>1, <1>3 DEF ReplaceInv, TypeOK
<1>5. \A j \in Jobs : Prepared(j)' /\ (Committed(j) <=> Committed(j)')
  BY <1>1 DEF ReplaceInv, Prepared, Committed
<1>6. Grown
  BY <1>1, <1>5 DEF Grown
<1>7. Sound(disk.target, disk.backup)'
  BY <1>1, <1>2, <1>6, SoundStays DEF Sound
<1>8. Sound(target, backup)'
  BY <1>1, <1>3, <1>7 DEF Sound
<1> QED
  BY <1>1, <1>3, <1>4, <1>5, <1>7, <1>8 DEF ReplaceInv

LEMMA InitHolds ==
  ASSUME Init
  PROVE  ReplaceInv
<1>1. TypeOK
  BY DEF Init, TypeOK, Files, Names
<1>2. \A j \in Jobs : Prepared(j) /\ ~Held(j) /\ ~Committed(j)
  BY DEF Init, Prepared, Held, Between, Committed
<1>3. target = Original /\ Original # None /\ Original \notin Jobs /\ None \notin Jobs
      /\ \A j \in Jobs : backup[j] = None
  BY ReplaceAssumption DEF Init, Files
<1>4. Whole
  BY <1>3 DEF Init, Whole
<1>5. OneHolder /\ OfCommitted
  BY <1>2, <1>3 DEF OneHolder, OfCommitted
<1>6. RunInv
  BY <1>1, <1>2, <1>4, <1>5 DEF RunInv
<1>7. Sound(target, backup) /\ Sound(disk.target, disk.backup)
  BY <1>6, RunSound DEF Init, Names
<1> QED
  BY <1>1, <1>2, <1>6, <1>7 DEF ReplaceInv

\* The invariant holds of every behaviour of atomic_replace_file, however many
\* calls there are and whatever fails.
THEOREM ReplaceCorrect == Spec => []ReplaceInv
<1>1. Init => ReplaceInv
  BY InitHolds
<1>2. ReplaceInv /\ [Next]_vars => ReplaceInv'
  BY InvStep, StopKeeps, PowerCutKeeps DEF Next
<1>3. QED
  BY <1>1, <1>2, PTL DEF Spec

LEMMA Consequences ==
  ASSUME ReplaceInv
  PROVE  DestinationPresent /\ NothingLost /\ FailureRestores
<1>1. DestinationPresent
  BY DEF ReplaceInv, Sound, TypeOK, DestinationPresent
<1>2. NothingLost
  BY DEF ReplaceInv, Sound, NothingLost
<1>3. ASSUME ~Stranded, alive
      PROVE  target \in Files \/ \E j \in Jobs : pc[j] # "returned"
  BY <1>3 DEF ReplaceInv, RunInv, Whole, OneHolder, Held, Between, Stranded, TypeOK
<1>4. \A j \in Jobs : result[j] # "running" => pc[j] = "returned"
  BY DEF ReplaceInv, Prepared
<1>5. \A j \in Jobs : target = j /\ result[j] # "running" => result[j] = "ok"
  BY <1>4 DEF ReplaceInv, Sound, Committed
<1>6. FailureRestores
  BY <1>3, <1>4, <1>5 DEF FailureRestores, FailureLeavesDestination, Files
<1>7. QED
  BY <1>1, <1>2, <1>6

\* On POSIX there is always a whole file with the original's permissions at the
\* destination, after a loss of power too, whether or not the directory's fsync has
\* worked (atomic_replace_file, posix.cpp).
THEOREM DestinationAlwaysPresent == Spec => []DestinationPresent
<1>1. ReplaceInv => DestinationPresent
  BY Consequences
<1>2. QED
  BY <1>1, ReplaceCorrect, PTL

\* On either platform some whole version is always at one of the names.
THEOREM NeverLost == Spec => []NothingLost
<1>1. ReplaceInv => NothingLost
  BY Consequences
<1>2. QED
  BY <1>1, ReplaceCorrect, PTL

\* A call of atomic_replace_file that throws has not replaced anything, unless its
\* error says that the original could not be moved back.
THEOREM FailuresRestore == Spec => []FailureRestores
<1>1. ReplaceInv => FailureRestores
  BY Consequences
<1>2. QED
  BY <1>1, ReplaceCorrect, PTL

-----------------------------------------------------------------------------
\* The replacement as one step.

\* The version that counts, now and after a step.
LEMMA NewestNow ==
  ASSUME RunInv
  PROVE  /\ target # None => Newest = target
         /\ \A j \in Jobs : Held(j) => Newest = backup[j]
<1>1. Holding = {j \in Jobs : Held(j)}
  BY DEF Holding, Held, Between
<1>2. \A j \in Jobs : Held(j) => target = None /\ Holding = {j}
  BY <1>1 DEF RunInv, OneHolder
<1> QED BY <1>2 DEF Newest

LEMMA NewestThen ==
  ASSUME RunInv'
  PROVE  /\ target' # None => Newest' = target'
         /\ \A j \in Jobs : Held(j)' => Newest' = backup'[j]
<1>1. Holding' = {j \in Jobs : Held(j)'}
  BY DEF Holding, Held, Between
<1>2. \A j \in Jobs : Held(j)' => target' = None /\ Holding' = {j}
  BY <1>1 DEF RunInv, OneHolder
<1> QED BY <1>2 DEF Newest

\* A step that leaves the names alone leaves the version that counts alone, if
\* the same calls hold a backup.
LEMMA NewestStays ==
  ASSUME RunInv, RunInv', UNCHANGED <<target, backup>>,
         \A j \in Jobs : Held(j)' <=> Held(j)
  PROVE  Newest' = Newest
<1>1. CASE target # None
  BY <1>1, NewestNow, NewestThen
<1>2. CASE target = None
  <2>1. PICK j \in Jobs : Held(j)
    BY <1>2 DEF RunInv, OneHolder
  <2> QED BY <2>1, NewestNow, NewestThen
<1> QED BY <1>1, <1>2

\* A call goes on to another step, or returns.
Goes(j, to, r) == pc' = [pc EXCEPT ![j] = to] /\ result' = [result EXCEPT ![j] = r]

\* It leaves the outcome of the other calls alone.
LEMMA StatusOfOne ==
  ASSUME NEW j \in Jobs, NEW to, NEW r, Goes(j, to, r), RunInv
  PROVE  Status' = [Status EXCEPT ![j] = Outcome(to, r)]
<1>1. /\ \A i \in Jobs : i # j => pc'[i] = pc[i] /\ result'[i] = result[i]
      /\ pc'[j] = to /\ result'[j] = r
  BY DEF Goes, RunInv, TypeOK
<1>2. \A i \in Jobs : Status'[i] = IF i = j THEN Outcome(to, r) ELSE Status[i]
  BY <1>1 DEF Status
<1>3. Status' = [Status EXCEPT ![j] = Outcome(to, r)]
  BY <1>2 DEF Status
<1> QED BY <1>3

\* The four outcomes.
LEMMA Outcomes ==
  /\ \A call \in {"sync dir", "delete backup"} : Outcome(call, "running") = "committed"
  /\ \A call \in {"inspect", "chmod", "flush", "rename", "replace", "move in", "restore"} :
       Outcome(call, "running") = "pending"
  /\ \A r \in {"threw", "stranded"} : Outcome("returned", r) = "failed"
  /\ Outcome("returned", "ok") = "ok"
<1>1. \A call \in {"sync dir", "delete backup"} : Outcome(call, "running") = "committed"
  BY DEF Outcome
<1>2. \A call \in {"inspect", "chmod", "flush", "rename", "replace", "move in", "restore"} :
        Outcome(call, "running") = "pending"
  BY DEF Outcome
<1>3. \A r \in {"threw", "stranded"} : Outcome("returned", r) = "failed"
  BY DEF Outcome
<1>4. Outcome("returned", "ok") = "ok"
  BY DEF Outcome
<1> QED BY <1>1, <1>2, <1>3, <1>4

\* Preparing a call, and finding that the second half cannot be done, is nothing
\* to the outside.
LEMMA PreparingStutters ==
  ASSUME NEW j \in Jobs, RunInv, RunInv',
         Inspect(j) \/ SetMode(j) \/ Flush(j) \/ CannotMoveIn(j)
  PROVE  Newest' = Newest /\ Status' = Status /\ alive' = alive
<1>1. /\ UNCHANGED <<target, backup, result, alive>>
      /\ \E to \in {"chmod", "flush", "rename", "replace", "restore"} :
           pc' = [pc EXCEPT ![j] = to] /\ (to = "restore" <=> pc[j] = "move in")
      /\ pc[j] \in {"inspect", "chmod", "flush", "move in"}
  BY DEF Inspect, SetMode, Flush, CannotMoveIn, Goto
<1>2. pc \in [Jobs -> {"inspect", "chmod", "flush", "rename", "sync dir", "replace", "move in",
                       "restore", "delete backup", "returned"}]
  BY DEF RunInv, TypeOK
<1>3. \A i \in Jobs : Held(i)' <=> Held(i)
  BY <1>1, <1>2 DEF Held, Between
<1>4. Status' = Status
  <2>1. PICK to \in {"chmod", "flush", "rename", "replace", "restore"} : pc' = [pc EXCEPT ![j] = to]
    BY <1>1
  <2>2. result' = [result EXCEPT ![j] = "running"] /\ result[j] = "running"
    BY <1>1 DEF RunInv, TypeOK, Prepared
  <2>3. Status[j] = "pending"
    BY <1>1, <2>2, Outcomes DEF Status
  <2>4. Status' = [Status EXCEPT ![j] = "pending"]
    <3>1. Goes(j, to, "running")
      BY <2>1, <2>2 DEF Goes
    <3>2. Outcome(to, "running") = "pending"
      BY Outcomes
    <3> QED BY <3>1, <3>2, StatusOfOne
  <2> QED BY <2>3, <2>4 DEF Status
<1> QED BY <1>1, <1>3, <1>4, NewestStays

\* ReplaceFileW's first half leaves the version that counts under the backup name,
\* which the abstract replacement does not see.
LEMMA SetAsideStutters ==
  ASSUME NEW j \in Jobs, RunInv, RunInv', SetAside(j)
  PROVE  Newest' = Newest /\ Status' = Status /\ alive' = alive
<1>1. /\ UNCHANGED <<result, alive>> /\ pc[j] = "replace" /\ pc' = [pc EXCEPT ![j] = "move in"]
      /\ target # None /\ backup' = [backup EXCEPT ![j] = target]
      /\ pc \in [Jobs -> {"inspect", "chmod", "flush", "rename", "sync dir", "replace", "move in",
                          "restore", "delete backup", "returned"}]
      /\ backup \in [Jobs -> Files \cup {None, Lost}]
  BY DEF SetAside, Goto, RunInv, TypeOK
<1>2. Held(j)' /\ backup'[j] = target
  BY <1>1 DEF Held, Between
<1>3. Newest' = Newest
  BY <1>1, <1>2, NewestNow, NewestThen
<1>4. Status' = Status
  <2>1. result' = [result EXCEPT ![j] = "running"] /\ result[j] = "running"
    BY <1>1 DEF RunInv, TypeOK, Prepared
  <2>2. Status[j] = "pending"
    BY <1>1, <2>1, Outcomes DEF Status
  <2>3. Status' = [Status EXCEPT ![j] = "pending"]
    <3>1. Goes(j, "move in", "running")
      BY <1>1, <2>1 DEF Goes
    <3>2. Outcome("move in", "running") = "pending"
      BY Outcomes
    <3>3. Status' = [Status EXCEPT ![j] = Outcome("move in", "running")]
      BY <3>1, StatusOfOne
    <3> QED BY <3>2, <3>3
  <2> QED BY <2>2, <2>3 DEF Status
<1> QED BY <1>1, <1>3, <1>4

\* Moving the stage in, by rename or by ReplaceFileW's second half, is the commit.
LEMMA MovingInCommits ==
  ASSUME NEW j \in Jobs, RunInv, RunInv', Rename(j) \/ MoveIn(j)
  PROVE  /\ alive /\ alive' = alive /\ Newest' = j
         /\ Status[j] = "pending" /\ Status' = [Status EXCEPT ![j] = "committed"]
<1>1. /\ UNCHANGED <<result, alive>> /\ alive /\ pc[j] \in {"rename", "move in"} /\ target' = j
      /\ \E to \in {"sync dir", "delete backup"} : pc' = [pc EXCEPT ![j] = to]
      /\ pc \in [Jobs -> {"inspect", "chmod", "flush", "rename", "sync dir", "replace", "move in",
                          "restore", "delete backup", "returned"}]
      /\ result[j] = "running" /\ j # None
  BY ReplaceAssumption DEF Rename, MoveIn, Goto, RunInv, TypeOK, Prepared, Files
<1>2. Newest' = j
  BY <1>1, NewestThen
<1>3. Status[j] = "pending" /\ Status' = [Status EXCEPT ![j] = "committed"]
  <2>1. Status[j] = "pending"
    BY <1>1, Outcomes DEF Status
  <2>2. PICK to \in {"sync dir", "delete backup"} : pc' = [pc EXCEPT ![j] = to]
    BY <1>1
  <2>3. result' = [result EXCEPT ![j] = "running"]
    BY <1>1 DEF RunInv, TypeOK
  <2>4. Status' = [Status EXCEPT ![j] = "committed"]
    <3>1. Goes(j, to, "running")
      BY <2>2, <2>3 DEF Goes
    <3>2. Outcome(to, "running") = "committed"
      BY Outcomes
    <3>3. Status' = [Status EXCEPT ![j] = Outcome(to, "running")]
      BY <3>1, StatusOfOne
    <3> QED BY <3>2, <3>3
  <2> QED BY <2>1, <2>4
<1> QED BY <1>1, <1>2, <1>3

\* What follows the commit, and whether the backup can be deleted, is the report.
LEMMA ReturningReports ==
  ASSUME NEW j \in Jobs, RunInv, RunInv', SyncDirectory(j) \/ DeleteBackup(j)
  PROVE  /\ alive /\ alive' = alive /\ Newest' = Newest
         /\ Status[j] = "committed" /\ Status' = [Status EXCEPT ![j] = "ok"]
<1>1. /\ UNCHANGED <<target, alive>> /\ alive /\ pc[j] \in {"sync dir", "delete backup"}
      /\ pc' = [pc EXCEPT ![j] = "returned"] /\ result' = [result EXCEPT ![j] = "ok"]
      /\ \A i \in Jobs : i # j => backup'[i] = backup[i]
  BY DEF SyncDirectory, DeleteBackup, Return, Goto, RunInv, TypeOK
<1>2. /\ pc \in [Jobs -> {"inspect", "chmod", "flush", "rename", "sync dir", "replace", "move in",
                          "restore", "delete backup", "returned"}]
      /\ result \in [Jobs -> {"running", "ok", "threw", "stranded"}]
      /\ result[j] = "running"
  BY <1>1 DEF RunInv, TypeOK, Prepared
<1>3. ~Held(j) /\ \A i \in Jobs : Held(i)' <=> Held(i)
  BY <1>1, <1>2 DEF Held, Between
<1>4. Newest' = Newest
  <2>1. CASE target # None
    BY <1>1, <2>1, NewestNow, NewestThen
  <2>2. CASE target = None
    <3>1. PICK i \in Jobs : Held(i)
      BY <2>2 DEF RunInv, OneHolder
    <3>2. i # j /\ Held(i)'
      BY <1>3, <3>1
    <3>3. Newest = backup[i] /\ Newest' = backup'[i]
      BY <3>1, <3>2, NewestNow, NewestThen
    <3> QED BY <1>1, <3>2, <3>3
  <2> QED BY <2>1, <2>2
<1>5. Status[j] = "committed" /\ Status' = [Status EXCEPT ![j] = "ok"]
  <2>1. Status[j] = "committed"
    BY <1>1, <1>2, Outcomes DEF Status
  <2>2. Status' = [Status EXCEPT ![j] = "ok"]
    <3>1. Goes(j, "returned", "ok")
      BY <1>1 DEF Goes
    <3>2. Outcome("returned", "ok") = "ok"
      BY Outcomes
    <3> QED BY <3>1, <3>2, StatusOfOne
  <2> QED BY <2>1, <2>2
<1> QED BY <1>1, <1>4, <1>5

\* Every exception is a failure that has changed nothing: before the commit, after
\* the backup has been moved back, or when it could not be and still counts.
LEMMA ThrowingFails ==
  ASSUME NEW j \in Jobs, RunInv, RunInv', Throw(j) \/ Restore(j) \/ CannotRestore(j)
  PROVE  /\ alive /\ alive' = alive /\ Newest' = Newest
         /\ Status[j] = "pending" /\ Status' = [Status EXCEPT ![j] = "failed"]
<1>1. /\ alive /\ alive' = alive
      /\ pc[j] \in {"inspect", "chmod", "flush", "rename", "replace", "restore"}
      /\ pc' = [pc EXCEPT ![j] = "returned"]
      /\ \E r \in {"threw", "stranded"} : result' = [result EXCEPT ![j] = r]
  BY DEF Throw, Restore, CannotRestore, Return, Goto
<1>2. /\ pc \in [Jobs -> {"inspect", "chmod", "flush", "rename", "sync dir", "replace", "move in",
                          "restore", "delete backup", "returned"}]
      /\ result \in [Jobs -> {"running", "ok", "threw", "stranded"}]
      /\ result[j] = "running"
  BY <1>1 DEF RunInv, TypeOK, Prepared
<1>3. Status[j] = "pending" /\ Status' = [Status EXCEPT ![j] = "failed"]
  <2>1. Status[j] = "pending"
    BY <1>1, <1>2, Outcomes DEF Status
  <2>2. PICK r \in {"threw", "stranded"} : result' = [result EXCEPT ![j] = r]
    BY <1>1
  <2>3. Status' = [Status EXCEPT ![j] = "failed"]
    <3>1. Goes(j, "returned", r)
      BY <1>1, <2>2 DEF Goes
    <3>2. Outcome("returned", r) = "failed"
      BY Outcomes
    <3> QED BY <3>1, <3>2, StatusOfOne
  <2> QED BY <2>1, <2>3
<1>4. CASE Restore(j)
  <2>1. Held(j) /\ target' = backup[j]
    BY <1>4 DEF Restore, Return, Goto, Held, Between
  <2>2. backup[j] # None
    BY <2>1, ReplaceAssumption DEF RunInv, OneHolder
  <2>3. Newest' = Newest
    BY <2>1, <2>2, NewestNow, NewestThen
  <2> QED BY <1>1, <1>3, <2>3
<1>5. CASE Throw(j)
  <2>1. /\ UNCHANGED <<target, backup>> /\ pc[j] \in {"inspect", "chmod", "flush", "rename", "replace"}
        /\ result' = [result EXCEPT ![j] = "threw"]
    BY <1>5 DEF Throw, Return, Goto
  <2>2. \A i \in Jobs : Held(i)' <=> Held(i)
    BY <1>1, <1>2, <2>1 DEF Held, Between
  <2> QED BY <1>1, <1>3, <2>1, <2>2, NewestStays
<1>6. CASE CannotRestore(j)
  <2>1. /\ UNCHANGED <<target, backup>> /\ pc[j] = "restore"
        /\ result' = [result EXCEPT ![j] = "stranded"]
    BY <1>6 DEF CannotRestore, Return, Goto
  <2>2. \A i \in Jobs : Held(i)' <=> Held(i)
    BY <1>1, <1>2, <2>1 DEF Held, Between
  <2> QED BY <1>1, <1>3, <2>1, <2>2, NewestStays
<1> QED BY <1>4, <1>5, <1>6

\* A kill changes none of the names.
LEMMA KillStops ==
  ASSUME RunInv, RunInv', Kill
  PROVE  alive /\ alive' = FALSE /\ Newest' = Newest /\ Status' = Status
<1>1. UNCHANGED <<target, backup, pc, result>> /\ alive /\ alive' = FALSE
  BY DEF Kill
<1>3. Status' = Status /\ \A i \in Jobs : Held(i)' <=> Held(i)
  BY <1>1 DEF Status, Held, Between
<1> QED BY <1>1, <1>3, NewestStays

\* After a loss of power every file found is the original or that of a call that had
\* committed.
LEMMA PowerCutTraced ==
  ASSUME ReplaceInv, PowerCut
  PROVE  UNCHANGED Status /\ Traced'
<1>1. /\ ReplaceInv' /\ UNCHANGED <<pc, result>>
  BY PowerCutKeeps
<1>2. Status' = Status
  BY <1>1 DEF Status
<1>3. Sound(target, backup)' /\ TypeOK' /\ \A j \in Jobs : Prepared(j)'
  BY <1>1 DEF ReplaceInv
<1>4. ASSUME NEW j \in Jobs, Committed(j)' PROVE Status'[j] \in {"committed", "ok"}
  <2>1. Status'[j] = Outcome(pc'[j], result'[j])
    BY DEF Status, Outcome
  <2>2. CASE pc'[j] \in {"sync dir", "delete backup"}
    <3>1. result'[j] = "running"
      BY <1>3, <2>2 DEF Prepared
    <3> QED
      BY <2>1, <2>2, <3>1, Outcomes
  <2>3. CASE result'[j] = "ok"
    <3>1. pc'[j] = "returned"
      BY <1>3, <2>3 DEF Prepared
    <3> QED
      BY <2>1, <2>3, <3>1, Outcomes
  <2> QED
    BY <1>4, <2>2, <2>3 DEF Committed
<1>5. ASSUME NEW f \in ({target'} \cup {backup'[j] : j \in Jobs}) \ {None}
      PROVE  f = Original \/ (f \in Jobs /\ Status'[f] \in {"committed", "ok"})
  <2>1. f \in flushed' /\ f # None
    BY <1>3 DEF Sound
  <2>2. f \in Jobs \/ f = Original
    BY <1>3, <2>1 DEF TypeOK, Files
  <2>3. f \in Jobs => Committed(f)'
    BY <1>3 DEF Sound
  <2> QED
    BY <1>4, <2>2, <2>3
<1>6. Traced'
  BY <1>5 DEF Traced
<1> QED
  BY <1>2, <1>6

\* Every call the code makes is a step of AtomicSign or none, and so is a kill.
LEMMA StepRefines ==
  ASSUME ReplaceInv, [Next]_vars
  PROVE  \/ Abstract!Next \/ UNCHANGED Abstract!vars
         \/ PowerCut /\ UNCHANGED Status /\ Traced'
<1>1. ASSUME NEW j \in Jobs, Step(j) PROVE Abstract!Next \/ UNCHANGED Abstract!vars
  <2>0. RunInv /\ RunInv'
    <3>1. alive
      BY <1>1 DEF Step, Inspect, SetMode, Flush, Rename, SyncDirectory, SetAside, MoveIn,
         CannotMoveIn, Restore, CannotRestore, DeleteBackup, Throw, Return, Goto
    <3> QED
      BY <1>1, <3>1, StepKeeps DEF ReplaceInv
  <2>1. CASE Rename(j) \/ MoveIn(j)
    <3>1. /\ alive /\ alive' = alive /\ Newest' = j
          /\ Status[j] = "pending" /\ Status' = [Status EXCEPT ![j] = "committed"]
      BY <2>0, <2>1, MovingInCommits
    <3> QED BY <3>1 DEF Abstract!Next, Abstract!Commit, Abstract!Move
  <2>2. CASE SyncDirectory(j) \/ DeleteBackup(j)
    <3>1. /\ alive /\ alive' = alive /\ Newest' = Newest
          /\ Status[j] = "committed" /\ Status' = [Status EXCEPT ![j] = "ok"]
      BY <2>0, <2>2, ReturningReports
    <3> QED BY <3>1 DEF Abstract!Next, Abstract!Report, Abstract!Move
  <2>3. CASE Throw(j) \/ Restore(j) \/ CannotRestore(j)
    <3>1. /\ alive /\ alive' = alive /\ Newest' = Newest
          /\ Status[j] = "pending" /\ Status' = [Status EXCEPT ![j] = "failed"]
      BY <2>0, <2>3, ThrowingFails
    <3> QED BY <3>1 DEF Abstract!Next, Abstract!Fail, Abstract!Move
  <2>4. CASE SetAside(j) \/ Inspect(j) \/ SetMode(j) \/ Flush(j) \/ CannotMoveIn(j)
    <3>1. Newest' = Newest /\ Status' = Status /\ alive' = alive
      BY <2>0, <2>4, SetAsideStutters, PreparingStutters
    <3> QED BY <3>1 DEF Abstract!vars
  <2> QED
    BY <1>1, <2>1, <2>2, <2>3, <2>4 DEF Step
<1>2. CASE Kill
  <2>1. RunInv /\ RunInv'
    BY <1>2, StopKeeps DEF ReplaceInv, Kill
  <2>2. alive /\ alive' = FALSE /\ Newest' = Newest /\ Status' = Status
    BY <1>2, <2>1, KillStops
  <2> QED BY <2>2 DEF Abstract!Next, Abstract!Crash
<1>3. CASE WriteBack \/ UNCHANGED vars
  <2>1. UNCHANGED <<target, backup, pc, result, alive>>
    BY <1>3 DEF WriteBack, vars
  <2> QED
    BY <2>1 DEF Abstract!vars, Newest, Holding, Status
<1>4. CASE PowerCut
  BY <1>4, PowerCutTraced
<1> QED
  BY <1>1, <1>2, <1>3, <1>4 DEF Next

\* atomic_replace_file, call by call on either platform, implements the single step
\* of AtomicSign that SignFile takes it for: failures and kills between two of its
\* calls never show, and a loss of power, the directory's unchecked fsync included,
\* takes the destination back to a committed version or the original at most.
THEOREM ReplacementIsAtomic == Spec => ReplacesAtomically
<1>1. Init => Abstract!Init
  <2> SUFFICES ASSUME Init PROVE Abstract!Init
    OBVIOUS
  <2>1. Newest = Original
    BY ReplaceAssumption DEF Init, Newest, Files
  <2>2. Status = [j \in Jobs |-> "pending"]
    BY Outcomes DEF Init, Status
  <2> QED BY <2>1, <2>2 DEF Init, Abstract!Init
<1>2. ReplaceInv /\ [Next]_vars
        => [Abstract!Next \/ (PowerCut /\ UNCHANGED Status /\ Traced')]_(Abstract!vars)
  BY StepRefines
<1> QED
  BY <1>1, <1>2, ReplaceCorrect, PTL
  DEF Spec, ReplacesAtomically
=============================================================================
