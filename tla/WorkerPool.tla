----------------------------- MODULE WorkerPool -----------------------------
(***************************************************************************)
(* The batch part of sign_main (src/src/main.cpp): the main thread starts    *)
(* min(max_parallel, n_files) worker threads, every worker claims file       *)
(* indices from an atomic counter, announces the file, signs it and flushes  *)
(* its buffered log, and the main thread joins them, counts the results and  *)
(* chooses the exit code.  Signing one file is AtomicSign, which SignFile    *)
(* implements.                                                               *)
(*                                                                           *)
(* platform::write_stderr loops over write(2), so a text may reach stderr in *)
(* several pieces: a flushed block takes two here.  retry_transient writes   *)
(* its message from inside a signing call, without the log mutex.            *)
(***************************************************************************)
EXTENDS Integers, Sequences, FiniteSets

CONSTANTS
  MaxFiles,        \* the largest number of file arguments
  MaxParallel,     \* the largest --max-parallel
  MaxRetries,      \* how many retry messages one file's requests may print
  Paths, Target,   \* the files, and which one each argument names
  Original         \* the owner of a path nobody has signed yet

Jobs == 0 .. MaxFiles - 1        \* indices into `files` and `results`
Workers == 1 .. MaxParallel      \* names for the worker threads

ASSUME PoolAssumption ==
  /\ MaxFiles \in Nat \ {0}
  /\ MaxParallel \in Nat \ {0}
  /\ MaxRetries \in Nat
  /\ Target \in [Jobs -> Paths]
  /\ Original \notin Jobs

None == -1                       \* no index, no holder, no exit code yet

VARIABLES
  n_files, max_parallel,   \* from the command line
  owner, status, alive,    \* AtomicSign: what signing has done so far
  next,                    \* the atomic counter
  spawned,                 \* how many worker threads have been started
  wpc,                     \* per worker: its next step
  idx,                     \* per worker: the index it works on
  log_mu,                  \* the worker that holds the log mutex, or None
  retries,                 \* per file: retry messages printed
  stderr,                  \* what has been written, piece by piece
  results,                 \* results[i], "empty" until a worker stores it
  mpc,                     \* the main thread's next step
  exit_code                \* what the process returns

signVars == <<owner, status, alive>>
cmdVars == <<n_files, max_parallel>>
workerVars == <<next, wpc, idx, log_mu, retries, results>>
mainVars == <<spawned, mpc, exit_code>>
vars == <<cmdVars, signVars, workerVars, mainVars, stderr>>

Sign == INSTANCE AtomicSign

\* Mutant: one thread per file.
n_workers_PerFile == n_files

n_workers == IF max_parallel < n_files THEN max_parallel ELSE n_files

LogPiece ==
  [file: Jobs \cup {None},
   piece: {"starting", "block head", "block tail", "retry", "summary"}]

Write(i, what) == stderr' = Append(stderr, [file |-> i, piece |-> what])

Init ==
  /\ Sign!Init
  /\ n_files \in 1 .. MaxFiles
  /\ max_parallel \in 1 .. MaxParallel
  /\ next = 0
  /\ spawned = 0
  /\ wpc = [w \in Workers |-> "unborn"]
  /\ idx = [w \in Workers |-> None]
  /\ log_mu = None
  /\ retries = [i \in Jobs |-> 0]
  /\ stderr = <<>>
  /\ results = [i \in Jobs |-> "empty"]
  /\ mpc = IF n_files = 1 THEN "single" ELSE "spawn"
  /\ exit_code = None

-----------------------------------------------------------------------------
\* The main thread.

MainGoto(from, to) ==
  /\ alive
  /\ mpc = from
  /\ mpc' = to
  /\ UNCHANGED <<cmdVars, signVars>>

\* workers.emplace_back, in a loop over n_workers
Spawn ==
  /\ MainGoto("spawn", IF spawned + 1 = n_workers THEN "join" ELSE "spawn")
  /\ spawned' = spawned + 1
  /\ wpc' = [wpc EXCEPT ![spawned + 1] = "claim"]
  /\ UNCHANGED <<next, idx, log_mu, retries, stderr, results, exit_code>>

\* Mutant: the summary is computed while a worker may still be at work.
Join_FirstWorker ==
  /\ MainGoto("join", "summary")
  /\ \E w \in 1 .. spawned : wpc[w] = "exited"
  /\ UNCHANGED <<workerVars, stderr, spawned, exit_code>>

\* The jthreads' destructors: every worker has returned.
Join ==
  /\ MainGoto("join", "summary")
  /\ \A w \in 1 .. spawned : wpc[w] = "exited"
  /\ UNCHANGED <<workerVars, stderr, spawned, exit_code>>

\* Count the results, print the summary, choose the exit code.
Summary ==
  /\ MainGoto("summary", "exited")
  /\ exit_code' = IF \A i \in 0 .. n_files - 1 : results[i] = "ok" THEN 0 ELSE 1
  /\ Write(None, "summary")
  /\ UNCHANGED <<workerVars, spawned>>

\* The single-file path: sign_one_file on the main thread, logging directly.
SingleReturn ==
  /\ MainGoto("single", "exited")
  /\ status[0] \in {"ok", "failed"}
  /\ results' = [results EXCEPT ![0] = status[0]]
  /\ exit_code' = IF status[0] = "ok" THEN 0 ELSE 1
  /\ UNCHANGED <<next, wpc, idx, log_mu, retries, stderr, spawned>>

-----------------------------------------------------------------------------
\* The worker threads.

WorkerGoto(w, from, to) ==
  /\ alive
  /\ wpc[w] = from
  /\ wpc' = [wpc EXCEPT ![w] = to]
  /\ UNCHANGED <<cmdVars, mainVars>>

\* Mutant: the counter is read and written back separately.
Claim_NotAtomic(w) ==
  /\ WorkerGoto(w, "claim", IF next < n_files THEN "announce" ELSE "exited")
  /\ next' \in {next, next + 1}
  /\ idx' = [idx EXCEPT ![w] = IF next < n_files THEN next ELSE None]
  /\ UNCHANGED <<signVars, log_mu, retries, stderr, results>>

\* while ((idx = next.fetch_add(1)) < n_files)
Claim(w) ==
  /\ WorkerGoto(w, "claim", IF next < n_files THEN "announce" ELSE "exited")
  /\ next' = next + 1
  /\ idx' = [idx EXCEPT ![w] = IF next < n_files THEN next ELSE None]
  /\ UNCHANGED <<signVars, log_mu, retries, stderr, results>>

\* The "starting" line, written under the log mutex; it is short.
Announce(w) ==
  /\ WorkerGoto(w, "announce", "sign")
  /\ log_mu = None
  /\ Write(idx[w], "starting")
  /\ UNCHANGED <<signVars, next, idx, log_mu, retries, results>>

\* results[idx] = sign_one_file(...): the call returns a result, never throws.
StoreResult(w) ==
  /\ WorkerGoto(w, "sign", "flush")
  /\ status[idx[w]] \in {"ok", "failed"}
  /\ results' = [results EXCEPT ![idx[w]] = status[idx[w]]]
  /\ UNCHANGED <<signVars, next, idx, log_mu, retries, stderr>>

\* Mutant: the block is written without the mutex.
FlushBegin_Unlocked(w) ==
  /\ WorkerGoto(w, "flush", "flushing")
  /\ Write(idx[w], "block head")
  /\ UNCHANGED <<signVars, next, idx, log_mu, retries, results>>

\* fl.flush(log_mu): lock, and the first piece of the block.
FlushBegin(w) ==
  /\ WorkerGoto(w, "flush", "flushing")
  /\ log_mu = None
  /\ log_mu' = w
  /\ Write(idx[w], "block head")
  /\ UNCHANGED <<signVars, next, idx, retries, results>>

\* Mutant: a worker that has flushed its log does not release the mutex.
FlushEnd_KeepsLock(w) ==
  /\ WorkerGoto(w, "flushing", "claim")
  /\ Write(idx[w], "block tail")
  /\ idx' = [idx EXCEPT ![w] = None]
  /\ UNCHANGED <<signVars, next, log_mu, retries, results>>

\* ... the rest of it, and unlock.
FlushEnd(w) ==
  /\ WorkerGoto(w, "flushing", "claim")
  /\ log_mu' = None
  /\ Write(idx[w], "block tail")
  /\ idx' = [idx EXCEPT ![w] = None]
  /\ UNCHANGED <<signVars, next, retries, results>>

-----------------------------------------------------------------------------
\* Signing, on whichever thread holds the index.

Signing(i) ==
  \/ mpc = "single" /\ i = 0
  \/ \E w \in Workers : wpc[w] = "sign" /\ idx[w] = i

SignCommit(i) == Signing(i) /\ Sign!Commit(i) /\ UNCHANGED <<cmdVars, workerVars, mainVars, stderr>>
SignReport(i) == Signing(i) /\ Sign!Report(i) /\ UNCHANGED <<cmdVars, workerVars, mainVars, stderr>>
SignFail(i)   == Signing(i) /\ Sign!Fail(i)   /\ UNCHANGED <<cmdVars, workerVars, mainVars, stderr>>

\* retry_transient: the message goes to stderr at once, mutex or not.
RetryMessage(i) ==
  /\ alive
  /\ Signing(i)
  /\ status[i] = "pending"
  /\ retries[i] < MaxRetries
  /\ retries' = [retries EXCEPT ![i] = @ + 1]
  /\ Write(i, "retry")
  /\ UNCHANGED <<cmdVars, signVars, mainVars, next, wpc, idx, log_mu, results>>

\* Killed, or std::terminate because a jthread could not be started.
Crash ==
  /\ mpc # "exited"
  /\ Sign!Crash
  /\ UNCHANGED <<cmdVars, workerVars, mainVars, stderr>>

Stopped ==
  /\ ~alive \/ mpc = "exited"
  /\ UNCHANGED vars

Main == Spawn \/ Join \/ Summary \/ SingleReturn
Worker(w) == Claim(w) \/ Announce(w) \/ StoreResult(w) \/ FlushBegin(w) \/ FlushEnd(w)
Call(i) == SignCommit(i) \/ SignReport(i) \/ SignFail(i)

Next ==
  \/ Main
  \/ \E w \in Workers : Worker(w)
  \/ \E i \in Jobs : Call(i) \/ RetryMessage(i)
  \/ Crash
  \/ Stopped

Spec == Init /\ [][Next]_vars

\* Threads are scheduled, and signing calls return: JobsSettle of SignFile, under
\* what it assumes of the companion and the network.
FairSpec ==
  /\ Spec
  /\ WF_vars(Main)
  /\ \A w \in Workers : WF_vars(Worker(w))
  /\ \A i \in Jobs : WF_vars(Call(i))

-----------------------------------------------------------------------------
\* Properties.

Files == 0 .. n_files - 1

TypeOK ==
  /\ n_files \in 1 .. MaxFiles
  /\ max_parallel \in 1 .. MaxParallel
  /\ owner \in [Paths -> Jobs \cup {Original}]
  /\ status \in [Jobs -> {"pending", "committed", "ok", "failed"}]
  /\ alive \in BOOLEAN
  /\ next \in Nat
  /\ spawned \in Nat
  /\ wpc \in [Workers -> {"unborn", "claim", "announce", "sign", "flush", "flushing", "exited"}]
  /\ idx \in [Workers -> Jobs \cup {None}]
  /\ log_mu \in Workers \cup {None}
  /\ retries \in [Jobs -> 0 .. MaxRetries]
  /\ stderr \in Seq(LogPiece)
  /\ results \in [Jobs -> {"empty", "ok", "failed"}]
  /\ mpc \in {"single", "spawn", "join", "summary", "exited"}
  /\ exit_code \in {None, 0, 1}

\* No two workers ever hold the same index (next.fetch_add).
ClaimedOnce ==
  \A w, v \in Workers : w # v /\ idx[w] # None => idx[w] # idx[v]

\* What the exit code says is what happened on disk: the process exits only when
\* every argument has been settled, with 0 exactly when all calls succeeded, and
\* then no argument is left unsigned ("exits non-zero if any file failed").
ExitCodeHonest ==
  mpc = "exited" =>
    /\ \A i \in Files : status[i] \in {"ok", "failed"} /\ results[i] = status[i]
    /\ exit_code = 0 <=> \A i \in Files : status[i] = "ok"
    /\ exit_code = 0 => \A i \in Files : owner[Target[i]] # Original

\* --max-parallel bounds the files being signed at any moment, and no file past
\* the last argument is ever signed.
ConcurrencyBound ==
  /\ Cardinality({i \in Jobs : Signing(i)}) <= max_parallel
  /\ \A i \in Jobs : Signing(i) => i \in Files

\* Of the output s[1], ..., s[n]: the block that begins at k has no end yet ...
Unfinished(s, n, k) ==
  s[k].piece = "block head" /\ \A l \in k + 1 .. n : s[l].piece = "retry"

\* ... and what comes after the head of a block, retry messages aside, is its tail.
Apart(s, n) ==
  \A k, m \in 1 .. n :
    k < m /\ Unfinished(s, m - 1, k) /\ s[m].piece # "retry" =>
      s[m] = [file |-> s[k].file, piece |-> "block tail"]

\* The mutex keeps the files' own narratives apart: apart from retry messages, no
\* other output falls inside a file's block (FileLogger::flush).
NarrativesApart == Apart(stderr, Len(stderr))

\* A worker that flushes holds the mutex, and a block without an end is the one of
\* the file that the mutex's holder flushes.
MutexInv ==
  /\ \A w \in Workers : wpc[w] = "flushing" => log_mu = w
  /\ \A k \in 1 .. Len(stderr) : Unfinished(stderr, Len(stderr), k) =>
       log_mu \in Workers /\ wpc[log_mu] = "flushing" /\ idx[log_mu] = stderr[k].file

Holds(w) == wpc[w] \in {"announce", "sign", "flush", "flushing"}

Settled(i) == status[i] \in {"ok", "failed"} /\ results[i] = status[i]

\* A worker holds an index below the counter exactly while it works on a file, and
\* exits only when the counter has passed the last one.
WorkerInv(w) ==
  /\ idx[w] # None <=> Holds(w)
  /\ Holds(w) => idx[w] \in Files /\ idx[w] < next
  /\ w > spawned => wpc[w] = "unborn"
  /\ wpc[w] = "exited" => next >= n_files
  /\ mpc \in {"single", "summary", "exited"} => wpc[w] \in {"unborn", "exited"}

\* An index below the counter is settled, or in the hands of a worker that has
\* not stored its result.
Accounted(i) ==
  i < next =>
    \/ Settled(i)
    \/ \E w \in Workers : wpc[w] \in {"announce", "sign"} /\ idx[w] = i

MainInv ==
  /\ mpc = "single" => n_files = 1
  /\ mpc = "spawn" => spawned < n_workers
  /\ mpc \in {"join", "summary"} => spawned = n_workers
  /\ mpc = "summary" => next >= n_files

\* The inductive invariant of the pool: no index is held twice, none is lost, and
\* a file whose call has committed is on disk.
PoolInv ==
  /\ ClaimedOnce
  /\ \A w \in Workers : WorkerInv(w)
  /\ \A i \in Files : Accounted(i)
  /\ \A i \in Jobs : status[i] \in {"committed", "ok"} => owner[Target[i]] # Original
  /\ MainInv
  /\ ExitCodeHonest

\* The batch ends: no worker waits for the mutex or for another worker forever.
BatchTerminates == <>(mpc = "exited" \/ ~alive)
=============================================================================
