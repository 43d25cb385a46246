-------------------------- MODULE WorkerPoolProofs --------------------------
(***************************************************************************)
(* sign_main.  The worker pool for every number of files, workers and retry  *)
(* messages: the type invariant, that no index is claimed twice or lost, so  *)
(* that the exit code says what happened, and that the log mutex keeps the   *)
(* files' narratives apart.  And what comes before the pool: the target and  *)
(* the token that SignMain resolves.                                         *)
(***************************************************************************)
EXTENDS WorkerPool, SignMain, FiniteSetTheorems, TLAPS

\* The sign actions seen from the pool.
LEMMA CallEffect ==
  ASSUME NEW i \in Jobs, Call(i)
  PROVE  /\ Signing(i) /\ alive
         /\ UNCHANGED <<cmdVars, workerVars, mainVars, stderr, alive>>
         /\ \/ /\ status[i] = "pending" /\ status' = [status EXCEPT ![i] = "committed"]
               /\ owner' = [owner EXCEPT ![Target[i]] = i]
            \/ /\ status[i] = "committed" /\ status' = [status EXCEPT ![i] = "ok"]
               /\ owner' = owner
            \/ /\ status[i] = "pending" /\ status' = [status EXCEPT ![i] = "failed"]
               /\ owner' = owner
  BY DEF Call, SignCommit, SignReport, SignFail, Sign!Commit, Sign!Report, Sign!Fail, Sign!Move

\* What is written is appended.
LEMMA AppendIsSeq ==
  ASSUME NEW S, NEW t \in Seq(S), NEW x \in S
  PROVE  Append(t, x) \in Seq(S)
  OBVIOUS

\* Every variable of the pool keeps its type (sign_main, lines 457-505).
THEOREM TypeCorrect == Spec => []TypeOK
<1> USE PoolAssumption
<1>1. Init => TypeOK
  BY DEF Init, TypeOK, Sign!Init
<1>2. TypeOK /\ [Next]_vars => TypeOK'
  <2> SUFFICES ASSUME TypeOK, [Next]_vars PROVE TypeOK'
    OBVIOUS
  <2> DEFINE Text(i, what) == Append(stderr, [file |-> i, piece |-> what])
  <2>0. ASSUME NEW i \in Jobs \cup {None},
               NEW what \in {"starting", "block head", "block tail", "retry", "summary"}
        PROVE  Text(i, what) \in Seq(LogPiece)
    <3>1. [file |-> i, piece |-> what] \in LogPiece
      BY DEF LogPiece
    <3>2. stderr \in Seq(LogPiece)
      BY DEF TypeOK
    <3> QED
      BY <3>1, <3>2, AppendIsSeq
  <2>1. CASE Spawn
    <3>1. mpc' \in {"join", "spawn"} /\ spawned' \in Nat
      BY <2>1 DEF TypeOK, Spawn, MainGoto
    <3> QED
      BY <2>1, <3>1 DEF TypeOK, Spawn, MainGoto, cmdVars, signVars
  <2>2. CASE Join
    BY <2>2 DEF TypeOK, Join, MainGoto, cmdVars, signVars, workerVars
  <2>3. CASE Summary
    <3>1. stderr' \in Seq(LogPiece)
      BY <2>0, <2>3 DEF Summary, Write
    <3> QED
      BY <2>3, <3>1 DEF TypeOK, Summary, MainGoto, cmdVars, signVars, workerVars
  <2>4. CASE SingleReturn
    BY <2>4 DEF TypeOK, SingleReturn, MainGoto, cmdVars, signVars
  <2>5. ASSUME NEW w \in Workers, Worker(w) PROVE TypeOK'
    <3>1. CASE Claim(w)
      <4>1. (IF next < n_files THEN next ELSE None) \in Jobs \cup {None}
        BY DEF TypeOK, Jobs
      <4>2. idx' \in [Workers -> Jobs \cup {None}]
        BY <3>1, <4>1 DEF TypeOK, Claim
      <4> QED
        BY <3>1, <4>2 DEF TypeOK, Claim, WorkerGoto, cmdVars, signVars, mainVars
    <3>2. CASE Announce(w)
      <4>1. stderr' \in Seq(LogPiece)
        BY <2>0, <3>2 DEF Announce, Write, TypeOK
      <4> QED
        BY <3>2, <4>1 DEF TypeOK, Announce, WorkerGoto, cmdVars, signVars, mainVars
    <3>3. CASE StoreResult(w)
      BY <3>3 DEF TypeOK, StoreResult, WorkerGoto, cmdVars, signVars, mainVars
    <3>4. CASE FlushBegin(w)
      <4>1. stderr' \in Seq(LogPiece)
        BY <2>0, <3>4 DEF FlushBegin, Write, TypeOK
      <4> QED
        BY <3>4, <4>1 DEF TypeOK, FlushBegin, WorkerGoto, cmdVars, signVars, mainVars
    <3>5. CASE FlushEnd(w)
      <4>1. stderr' \in Seq(LogPiece)
        BY <2>0, <3>5 DEF FlushEnd, Write, TypeOK
      <4> QED
        BY <3>5, <4>1 DEF TypeOK, FlushEnd, WorkerGoto, cmdVars, signVars, mainVars
    <3> QED
      BY <2>5, <3>1, <3>2, <3>3, <3>4, <3>5 DEF Worker
  <2>6. ASSUME NEW i \in Jobs, Call(i) PROVE TypeOK'
    <3>1. status' \in [Jobs -> {"pending", "committed", "ok", "failed"}]
      BY <2>6, CallEffect DEF TypeOK
    <3>2. owner' \in [Paths -> Jobs \cup {Original}]
      BY <2>6, CallEffect DEF TypeOK
    <3>3. UNCHANGED <<cmdVars, workerVars, mainVars, stderr, alive>>
      BY <2>6, CallEffect
    <3> QED
      BY <3>1, <3>2, <3>3 DEF TypeOK, cmdVars, workerVars, mainVars
  <2>7. ASSUME NEW i \in Jobs, RetryMessage(i) PROVE TypeOK'
    <3>1. stderr' \in Seq(LogPiece)
      BY <2>0, <2>7 DEF RetryMessage, Write
    <3>2. retries' \in [Jobs -> 0 .. MaxRetries]
      BY <2>7 DEF RetryMessage, TypeOK
    <3> QED
      BY <2>7, <3>1, <3>2 DEF TypeOK, RetryMessage, cmdVars, signVars, mainVars
  <2>8. CASE Crash
    BY <2>8 DEF TypeOK, Crash, Sign!Crash, cmdVars, workerVars, mainVars
  <2>9. CASE Stopped \/ UNCHANGED vars
    BY <2>9 DEF TypeOK, Stopped, vars, cmdVars, signVars, workerVars, mainVars
  <2> QED
    BY <2>1, <2>2, <2>3, <2>4, <2>5, <2>6, <2>7, <2>8, <2>9 DEF Next, Main
<1> QED
  BY <1>1, <1>2, PTL DEF Spec

-----------------------------------------------------------------------------
\* The number of worker threads is between one and both of its bounds.
LEMMA WorkerCount ==
  ASSUME TypeOK
  PROVE  /\ n_workers \in Nat
         /\ 1 <= n_workers /\ n_workers <= max_parallel /\ n_workers <= n_files
         /\ \A w \in 1 .. n_workers : w \in Workers
         /\ Files \subseteq Jobs
  BY PoolAssumption DEF TypeOK, n_workers, Workers, Files, Jobs

\* A settled file stays settled: no call touches a finished status.
LEMMA CallKeepsSettled ==
  ASSUME TypeOK, NEW i \in Jobs, Call(i), NEW k \in Jobs, Settled(k)
  PROVE  Settled(k)'
  BY CallEffect DEF TypeOK, Settled, workerVars

\* PoolInv is inductive.
LEMMA PoolInductive ==
  TypeOK /\ TypeOK' /\ PoolInv /\ [Next]_vars => PoolInv'
<1> SUFFICES ASSUME TypeOK, TypeOK', PoolInv, [Next]_vars PROVE PoolInv'
  OBVIOUS
<1> USE PoolAssumption
<1>0. /\ n_workers \in Nat /\ 1 <= n_workers
      /\ n_workers <= max_parallel /\ n_workers <= n_files
      /\ Files \subseteq Jobs
  BY WorkerCount
<1> DEFINE OnDisk == \A i \in Jobs : status[i] \in {"committed", "ok"} => owner[Target[i]] # Original
<1>1. CASE Spawn
  <2>1. /\ UNCHANGED <<n_files, max_parallel, status, owner, next, idx, results, exit_code>>
        /\ mpc = "spawn" /\ mpc' \in {"spawn", "join"}
        /\ spawned' = spawned + 1 /\ wpc' = [wpc EXCEPT ![spawned + 1] = "claim"]
        /\ mpc' = "spawn" => spawned + 1 # n_workers
        /\ mpc' = "join" => spawned + 1 = n_workers
    BY <1>1 DEF Spawn, MainGoto, cmdVars, signVars
  <2>2. spawned \in Nat /\ spawned < n_workers /\ n_workers' = n_workers /\ Files' = Files
    BY <2>1 DEF TypeOK, PoolInv, MainInv, n_workers, Files
  <2>3. spawned + 1 \in Workers /\ wpc[spawned + 1] = "unborn"
    <3>1. spawned + 1 \in Workers
      BY <1>0, <2>2 DEF TypeOK, Workers
    <3>2. WorkerInv(spawned + 1)
      BY <3>1 DEF PoolInv
    <3> QED
      BY <2>2, <3>1, <3>2 DEF WorkerInv
  <2>4. ClaimedOnce'
    BY <2>1 DEF PoolInv, ClaimedOnce
  <2>5. ASSUME NEW w \in Workers PROVE WorkerInv(w)'
    <3>1. WorkerInv(w) /\ w \in Nat
      BY DEF PoolInv, Workers
    <3> QED
      BY <2>1, <2>2, <2>3, <3>1 DEF TypeOK, WorkerInv, Holds
  <2>6. ASSUME NEW i \in Files' PROVE Accounted(i)'
    BY <2>1, <2>2, <2>3 DEF TypeOK, PoolInv, Accounted, Settled
  <2>7. MainInv' /\ ExitCodeHonest' /\ OnDisk'
    BY <1>0, <2>1, <2>2 DEF PoolInv, MainInv, ExitCodeHonest
  <2> QED
    BY <2>4, <2>5, <2>6, <2>7 DEF PoolInv
<1>2. CASE Join
  <2>1. /\ UNCHANGED <<n_files, max_parallel, status, owner, next, idx, wpc, results, spawned>>
        /\ mpc = "join" /\ mpc' = "summary"
        /\ \A w \in 1 .. spawned : wpc[w] = "exited"
    BY <1>2 DEF Join, MainGoto, cmdVars, signVars, workerVars
  <2>2. n_workers' = n_workers /\ Files' = Files /\ spawned = n_workers
    BY <2>1 DEF PoolInv, MainInv, n_workers, Files
  <2>3. ClaimedOnce'
    BY <2>1 DEF PoolInv, ClaimedOnce
  <2>4. ASSUME NEW w \in Workers PROVE WorkerInv(w)'
    <3>1. WorkerInv(w) /\ w \in Nat /\ w >= 1
      BY DEF PoolInv, Workers
    <3> QED
      BY <1>0, <2>1, <2>2, <3>1 DEF TypeOK, WorkerInv, Holds
  <2>5. ASSUME NEW i \in Files' PROVE Accounted(i)'
    BY <2>1, <2>2 DEF PoolInv, Accounted, Settled
  <2>6. next >= n_files
    <3>1. 1 \in Workers /\ wpc[1] = "exited"
      BY <1>0, <2>1, <2>2 DEF Workers
    <3> QED
      BY <3>1 DEF PoolInv, WorkerInv
  <2>7. MainInv' /\ ExitCodeHonest' /\ OnDisk'
    BY <2>1, <2>2, <2>6 DEF PoolInv, MainInv, ExitCodeHonest
  <2> QED
    BY <2>3, <2>4, <2>5, <2>7 DEF PoolInv
<1>3. CASE Summary
  <2>1. /\ UNCHANGED <<n_files, max_parallel, status, owner, next, idx, wpc, results, spawned>>
        /\ mpc = "summary" /\ mpc' = "exited"
        /\ exit_code' = IF \A i \in 0 .. n_files - 1 : results[i] = "ok" THEN 0 ELSE 1
    BY <1>3 DEF Summary, MainGoto, cmdVars, signVars, workerVars
  <2>2. Files' = Files
    BY <2>1 DEF Files
  <2>3. ASSUME NEW i \in Files PROVE Settled(i) /\ i \in Jobs
    <3>1. i < next
      BY <2>1 DEF PoolInv, MainInv, TypeOK, Files
    <3>2. \A w \in Workers : wpc[w] \notin {"announce", "sign"}
      BY <2>1 DEF PoolInv, WorkerInv
    <3> QED
      BY <1>0, <3>1, <3>2 DEF PoolInv, Accounted
  <2>4. ExitCodeHonest'
    BY <2>1, <2>2, <2>3 DEF ExitCodeHonest, Settled, Files, PoolInv
  <2>5. ClaimedOnce' /\ MainInv' /\ OnDisk'
    BY <2>1 DEF PoolInv, ClaimedOnce, MainInv
  <2>6. ASSUME NEW w \in Workers PROVE WorkerInv(w)'
    BY <2>1, <2>2 DEF PoolInv, WorkerInv, Holds
  <2>7. ASSUME NEW i \in Files' PROVE Accounted(i)'
    BY <2>1, <2>2 DEF PoolInv, Accounted, Settled
  <2> QED
    BY <2>4, <2>5, <2>6, <2>7 DEF PoolInv
<1>4. CASE SingleReturn
  <2>1. /\ UNCHANGED <<n_files, max_parallel, status, owner, next, idx, wpc, spawned>>
        /\ mpc = "single" /\ mpc' = "exited" /\ n_files = 1
        /\ status[0] \in {"ok", "failed"}
        /\ results' = [results EXCEPT ![0] = status[0]]
        /\ exit_code' = IF status[0] = "ok" THEN 0 ELSE 1
    BY <1>4 DEF SingleReturn, MainGoto, cmdVars, signVars, PoolInv, MainInv
  <2>2. Files = {0} /\ Files' = Files /\ 0 \in Jobs
    BY <1>0, <2>1 DEF Files
  <2>3. results'[0] = status[0]
    BY <2>1, <2>2 DEF TypeOK
  <2>4. ExitCodeHonest'
    BY <2>1, <2>2, <2>3 DEF ExitCodeHonest, PoolInv
  <2>5. ClaimedOnce' /\ MainInv' /\ OnDisk'
    BY <2>1 DEF PoolInv, ClaimedOnce, MainInv
  <2>6. ASSUME NEW w \in Workers PROVE WorkerInv(w)'
    BY <2>1, <2>2 DEF PoolInv, WorkerInv, Holds
  <2>7. ASSUME NEW i \in Files' PROVE Accounted(i)'
    BY <2>1, <2>2, <2>3 DEF Accounted, Settled
  <2> QED
    BY <2>4, <2>5, <2>6, <2>7 DEF PoolInv
<1>5. ASSUME NEW w \in Workers, Worker(w) PROVE PoolInv'
  <2>0. /\ UNCHANGED <<n_files, max_parallel, status, owner, spawned, mpc, exit_code>>
        /\ wpc[w] \notin {"unborn", "exited"}
        /\ WorkerInv(w) /\ w \in Nat
    <3>1. WorkerInv(w) /\ w \in Nat
      BY DEF PoolInv, Workers
    <3>2. /\ UNCHANGED <<n_files, max_parallel, status, owner, spawned, mpc, exit_code>>
          /\ wpc[w] \in {"claim", "announce", "sign", "flush", "flushing"}
      BY <1>5 DEF Worker, Claim, Announce, StoreResult, FlushBegin, FlushEnd, WorkerGoto,
         cmdVars, signVars, mainVars
    <3> QED
      BY <3>1, <3>2
  <2>1. /\ n_workers' = n_workers /\ Files' = Files
        /\ mpc \notin {"single", "summary", "exited"}
    BY <2>0 DEF n_workers, Files, WorkerInv
  <2>2. OnDisk' /\ ExitCodeHonest'
    BY <2>0, <2>1 DEF PoolInv, ExitCodeHonest
  <2>3. CASE Claim(w)
    <3>1. /\ UNCHANGED results /\ next \in Nat /\ next' = next + 1 /\ wpc[w] = "claim"
          /\ idx' = [idx EXCEPT ![w] = IF next < n_files THEN next ELSE None]
          /\ wpc' = [wpc EXCEPT ![w] = IF next < n_files THEN "announce" ELSE "exited"]
      BY <2>3 DEF Claim, WorkerGoto, TypeOK
    <3>2. /\ next < n_files => /\ next \in Files /\ next # None
                               /\ wpc'[w] = "announce" /\ idx'[w] = next
          /\ ~(next < n_files) => wpc'[w] = "exited" /\ idx'[w] = None
      BY <3>1 DEF TypeOK, Files, None
    <3>3. ASSUME NEW v \in Workers, v # w
          PROVE  wpc'[v] = wpc[v] /\ idx'[v] = idx[v] /\ idx[v] # next
      <4>1. WorkerInv(v)
        BY DEF PoolInv
      <4> QED
        BY <3>1, <3>3, <4>1 DEF TypeOK, WorkerInv, Files, None
    <3>4. ClaimedOnce'
      BY <3>2, <3>3 DEF PoolInv, ClaimedOnce
    <3>5. ASSUME NEW v \in Workers PROVE WorkerInv(v)'
      <4>1. WorkerInv(v) /\ n_files \in Nat
        BY DEF PoolInv, TypeOK
      <4>2. CASE v = w
        BY <2>0, <2>1, <3>1, <3>2, <4>1, <4>2 DEF WorkerInv, Holds
      <4>3. CASE v # w
        <5>1. Holds(v)' = Holds(v)
          BY <3>3, <4>3 DEF Holds
        <5>2. Holds(v) => idx[v] < next'
          BY <3>1, <4>1 DEF WorkerInv, Files
        <5>3. next >= n_files => next' >= n_files
          BY <3>1, <4>1
        <5> QED
          BY <2>0, <2>1, <3>3, <4>1, <4>3, <5>1, <5>2, <5>3 DEF WorkerInv
      <4> QED
        BY <4>2, <4>3
    <3>6. ASSUME NEW i \in Files', (i < next)'
          PROVE  Settled(i)' \/ \E v \in Workers : (wpc[v] \in {"announce", "sign"} /\ idx[v] = i)'
      <4>0. i \in Files /\ i \in Nat /\ n_files \in Nat
        <5>1. i \in Files /\ n_files \in Nat
          BY <2>1 DEF TypeOK
        <5> QED
          BY <5>1 DEF Files
      <4>1. CASE i = next
        BY <3>1, <3>2, <4>0, <4>1 DEF Files
      <4>2. CASE i < next
        <5>1. Settled(i) => Settled(i)'
          BY <2>0, <3>1 DEF Settled
        <5>2. ASSUME NEW v \in Workers, wpc[v] \in {"announce", "sign"}, idx[v] = i
              PROVE  (wpc[v] \in {"announce", "sign"} /\ idx[v] = i)'
          BY <3>1, <3>3, <5>2
        <5> QED
          BY <4>0, <4>2, <5>1, <5>2 DEF PoolInv, Accounted
      <4> QED
        BY <3>1, <3>6, <4>0, <4>1, <4>2
    <3>7. MainInv'
      BY <2>0, <2>1 DEF PoolInv, MainInv
    <3> QED
      BY <2>2, <3>4, <3>5, <3>6, <3>7 DEF PoolInv, Accounted
  <2>4. CASE Announce(w) \/ FlushBegin(w)
    <3>1. /\ UNCHANGED <<results, next, idx>>
          /\ \/ wpc[w] = "announce" /\ wpc' = [wpc EXCEPT ![w] = "sign"]
             \/ wpc[w] = "flush" /\ wpc' = [wpc EXCEPT ![w] = "flushing"]
      BY <2>4 DEF Announce, FlushBegin, WorkerGoto
    <3>2. ClaimedOnce' /\ MainInv'
      BY <2>0, <2>1, <3>1 DEF PoolInv, ClaimedOnce, MainInv
    <3>3. ASSUME NEW v \in Workers PROVE WorkerInv(v)'
      BY <2>0, <2>1, <3>1 DEF TypeOK, PoolInv, WorkerInv, Holds
    <3>4. ASSUME NEW i \in Files' PROVE Accounted(i)'
      <4>1. i \in Files /\ Accounted(i)
        BY <2>1 DEF PoolInv
      <4>2. wpc \in [Workers -> {"unborn", "claim", "announce", "sign", "flush", "flushing", "exited"}]
        BY DEF TypeOK
      <4> QED
        BY <2>0, <3>1, <4>1, <4>2 DEF Accounted, Settled
    <3> QED
      BY <2>2, <3>2, <3>3, <3>4 DEF PoolInv
  <2>5. CASE StoreResult(w)
    <3>1. /\ UNCHANGED <<next, idx>>
          /\ wpc[w] = "sign" /\ wpc' = [wpc EXCEPT ![w] = "flush"]
          /\ status[idx[w]] \in {"ok", "failed"}
          /\ results' = [results EXCEPT ![idx[w]] = status[idx[w]]]
      BY <2>5 DEF StoreResult, WorkerGoto
    <3>2. idx[w] \in Files /\ idx[w] \in Jobs
      BY <1>0, <2>0, <3>1 DEF WorkerInv, Holds
    <3>3. ClaimedOnce' /\ MainInv'
      BY <2>0, <2>1, <3>1 DEF PoolInv, ClaimedOnce, MainInv
    <3>4. ASSUME NEW v \in Workers PROVE WorkerInv(v)'
      BY <2>0, <2>1, <3>1 DEF TypeOK, PoolInv, WorkerInv, Holds
    <3>5. ASSUME NEW i \in Files' PROVE Accounted(i)'
      <4>1. i \in Files /\ i \in Jobs /\ Accounted(i)
        BY <1>0, <2>1 DEF PoolInv
      <4>2. CASE i = idx[w]
        BY <2>0, <3>1, <3>2, <4>2 DEF TypeOK, Accounted, Settled
      <4>3. CASE i # idx[w]
        BY <2>0, <3>1, <3>2, <4>1, <4>3 DEF TypeOK, Accounted, Settled
      <4> QED
        BY <4>2, <4>3
    <3> QED
      BY <2>2, <3>3, <3>4, <3>5 DEF PoolInv
  <2>6. CASE FlushEnd(w)
    <3>1. /\ UNCHANGED <<next, results>>
          /\ wpc[w] = "flushing" /\ wpc' = [wpc EXCEPT ![w] = "claim"]
          /\ idx' = [idx EXCEPT ![w] = None]
      BY <2>6 DEF FlushEnd, WorkerGoto
    <3>2. ClaimedOnce' /\ MainInv'
      BY <2>0, <2>1, <3>1 DEF TypeOK, PoolInv, ClaimedOnce, MainInv
    <3>3. ASSUME NEW v \in Workers PROVE WorkerInv(v)'
      BY <2>0, <2>1, <3>1 DEF TypeOK, PoolInv, WorkerInv, Holds
    <3>4. ASSUME NEW i \in Files' PROVE Accounted(i)'
      <4>1. i \in Files /\ Accounted(i)
        BY <2>1 DEF PoolInv
      <4> QED
        BY <2>0, <3>1, <4>1 DEF TypeOK, Accounted, Settled
    <3> QED
      BY <2>2, <3>2, <3>3, <3>4 DEF PoolInv
  <2> QED
    BY <1>5, <2>3, <2>4, <2>5, <2>6 DEF Worker
<1>6. ASSUME NEW i \in Jobs, Call(i) PROVE PoolInv'
  <2>1. UNCHANGED <<n_files, max_parallel, next, wpc, idx, results, spawned, mpc, exit_code>>
    BY <1>6, CallEffect DEF cmdVars, workerVars, mainVars
  <2>2. n_workers' = n_workers /\ Files' = Files
    BY <2>1 DEF n_workers, Files
  <2>3. ClaimedOnce' /\ MainInv'
    BY <2>1, <2>2 DEF PoolInv, ClaimedOnce, MainInv
  <2>4. ASSUME NEW w \in Workers PROVE WorkerInv(w)'
    BY <2>1, <2>2 DEF PoolInv, WorkerInv, Holds
  <2>5. ASSUME NEW k \in Files' PROVE Accounted(k)'
    <3>1. k \in Files /\ k \in Jobs /\ Accounted(k)
      BY <1>0, <2>2 DEF PoolInv
    <3>2. Settled(k) => Settled(k)'
      BY <1>6, <3>1, CallKeepsSettled
    <3> QED
      BY <2>1, <3>1, <3>2 DEF Accounted
  <2>0. /\ status \in [Jobs -> {"pending", "committed", "ok", "failed"}]
        /\ owner \in [Paths -> Jobs \cup {Original}]
        /\ \/ /\ status[i] = "pending" /\ status' = [status EXCEPT ![i] = "committed"]
              /\ owner' = [owner EXCEPT ![Target[i]] = i]
           \/ /\ status[i] = "committed" /\ status' = [status EXCEPT ![i] = "ok"]
              /\ owner' = owner
           \/ /\ status[i] = "pending" /\ status' = [status EXCEPT ![i] = "failed"]
              /\ owner' = owner
    BY <1>6, CallEffect DEF TypeOK
  <2>6. OnDisk'
    BY <2>0 DEF PoolInv
  <2>7. ExitCodeHonest'
    <3>1. CASE mpc = "exited"
      <4>1. \A k \in Files : Settled(k) /\ k \in Jobs
        BY <1>0, <3>1 DEF PoolInv, ExitCodeHonest, Settled
      <4>2. \A k \in Files : status'[k] = status[k]
        BY <2>0, <4>1 DEF Settled
      <4>3. \A k \in Files : owner[Target[k]] # Original => owner'[Target[k]] # Original
        BY <2>0, <4>1
      <4> QED
        BY <2>1, <2>2, <3>1, <4>2, <4>3 DEF PoolInv, ExitCodeHonest
    <3>2. CASE mpc # "exited"
      BY <2>1, <3>2 DEF ExitCodeHonest
    <3> QED
      BY <3>1, <3>2
  <2> QED
    BY <2>3, <2>4, <2>5, <2>6, <2>7 DEF PoolInv
<1>7. CASE (\E i \in Jobs : RetryMessage(i)) \/ Crash \/ Stopped \/ UNCHANGED vars
  <2>1. UNCHANGED <<n_files, max_parallel, next, wpc, idx, results, spawned, mpc, exit_code,
                    status, owner>>
    BY <1>7 DEF RetryMessage, Crash, Sign!Crash, Stopped, vars, cmdVars, signVars, workerVars,
       mainVars
  <2>2. n_workers' = n_workers /\ Files' = Files
    BY <2>1 DEF n_workers, Files
  <2>3. ClaimedOnce' /\ MainInv' /\ OnDisk' /\ ExitCodeHonest'
    BY <2>1, <2>2 DEF PoolInv, ClaimedOnce, MainInv, ExitCodeHonest
  <2>4. ASSUME NEW w \in Workers PROVE WorkerInv(w)'
    BY <2>1, <2>2 DEF PoolInv, WorkerInv, Holds
  <2>5. ASSUME NEW k \in Files' PROVE Accounted(k)'
    BY <2>1, <2>2 DEF PoolInv, Accounted, Settled
  <2> QED
    BY <2>3, <2>4, <2>5 DEF PoolInv
<1> QED
  BY <1>1, <1>2, <1>3, <1>4, <1>5, <1>6, <1>7 DEF Next, Main

\* For any number of files and any --max-parallel, no index is signed by two
\* workers and none is lost (sign_main's next.fetch_add loop).
THEOREM PoolCorrect == Spec => []PoolInv
<1>1. Init => PoolInv
  <2> SUFFICES ASSUME Init PROVE PoolInv
    OBVIOUS
  <2>1. ClaimedOnce /\ \A w \in Workers : WorkerInv(w)
    BY DEF Init, ClaimedOnce, WorkerInv, Holds
  <2>2. \A i \in Files : Accounted(i)
    BY DEF Init, Accounted, Files
  <2>3. \A i \in Jobs : status[i] \in {"committed", "ok"} => owner[Target[i]] # Original
    BY DEF Init, Sign!Init
  <2>4. MainInv /\ ExitCodeHonest
    BY PoolAssumption DEF Init, MainInv, ExitCodeHonest, n_workers
  <2> QED
    BY <2>1, <2>2, <2>3, <2>4 DEF PoolInv
<1> QED
  BY <1>1, TypeCorrect, PoolInductive, PTL DEF Spec

\* The exit code is honest: 0 exactly when every call succeeded, with every
\* argument settled and, on success, every named file signed.
THEOREM ExitCodeCorrect == Spec => [](ClaimedOnce /\ ExitCodeHonest)
<1>1. PoolInv => ClaimedOnce /\ ExitCodeHonest
  BY DEF PoolInv
<1> QED
  BY <1>1, PoolCorrect, PTL

\* --max-parallel bounds the files being signed at any moment (README,
\* "Concurrency"), whatever its value and however many files are given.
THEOREM ConcurrencyBounded == Spec => []ConcurrencyBound
<1>1. TypeOK /\ PoolInv => ConcurrencyBound
  <2> SUFFICES ASSUME TypeOK, PoolInv PROVE ConcurrencyBound
    OBVIOUS
  <2> USE PoolAssumption
  <2> DEFINE S == {i \in Jobs : Signing(i)}
             T == 1 .. max_parallel
  <2>0. max_parallel \in Nat /\ 1 <= max_parallel
    BY DEF TypeOK
  <2>1. IsFiniteSet(T) /\ Cardinality(T) = max_parallel
    BY <2>0, FS_Interval
  <2>2. CASE mpc = "single"
    <3>1. \A i \in S : i = 0
      BY <2>2 DEF Signing, PoolInv, WorkerInv
    <3>2. 0 \in Files
      BY <2>2 DEF PoolInv, MainInv, Files
    <3> DEFINE f == [i \in S |-> 1]
    <3>3. f \in Injection(S, T)
      BY <2>0, <3>1 DEF Injection, IsInjective
    <3>4. Cardinality(S) <= max_parallel
      BY <2>1, <3>3, FS_Injection
    <3> QED
      BY <3>1, <3>2, <3>4 DEF ConcurrencyBound
  <2>3. CASE mpc # "single"
    <3> DEFINE At(i, w) == wpc[w] = "sign" /\ idx[w] = i
    <3>1. ASSUME NEW i \in S PROVE \E w \in T : At(i, w)
      <4>1. PICK w \in Workers : At(i, w)
        BY <2>3 DEF Signing
      <4>2. WorkerInv(w)
        BY DEF PoolInv
      <4>3. mpc \in {"spawn", "join"} /\ ~(w > spawned)
        BY <4>1, <4>2 DEF WorkerInv, TypeOK
      <4>4. w <= spawned /\ spawned <= n_workers /\ n_workers <= max_parallel
        <5>1. w \in Nat /\ 1 <= w /\ spawned \in Nat /\ n_workers \in Nat
          BY WorkerCount DEF Workers, TypeOK
        <5> QED
          BY <4>3, <5>1, WorkerCount DEF PoolInv, MainInv
      <4> QED
        BY <2>0, <4>1, <4>4, WorkerCount DEF Workers, TypeOK
    <3> DEFINE f == [i \in S |-> CHOOSE w \in T : At(i, w)]
    <3>2. \A i \in S : f[i] \in T /\ idx[f[i]] = i
      BY <3>1
    <3> HIDE DEF f
    <3>3. f \in [S -> T]
      BY <3>2 DEF f
    <3>4. f \in Injection(S, T)
      BY <3>2, <3>3 DEF Injection, IsInjective
    <3>5. Cardinality(S) <= max_parallel
      BY <2>1, <3>4, FS_Injection
    <3>6. \A i \in Jobs : Signing(i) => i \in Files
      BY <2>3 DEF Signing, PoolInv, WorkerInv, Holds
    <3> QED
      BY <3>5, <3>6 DEF ConcurrencyBound
  <2> QED
    BY <2>2, <2>3
<1> QED
  BY <1>1, TypeCorrect, PoolCorrect, PTL
-----------------------------------------------------------------------------
\* The log.

\* t is s with one more piece.
Extends(t, s, n, x) == (\A k \in 1 .. n : t[k] = s[k]) /\ t[n + 1] = x

LEMMA AppendExtends ==
  ASSUME NEW S, NEW s \in Seq(S), NEW x \in S
  PROVE  /\ Len(s) \in Nat /\ Len(Append(s, x)) = Len(s) + 1
         /\ Extends(Append(s, x), s, Len(s), x)
  BY DEF Extends

LEMMA LastOrBefore ==
  ASSUME NEW n \in Nat, NEW k \in 1 .. n + 1
  PROVE  k = n + 1 \/ k \in 1 .. n
  OBVIOUS

LEMMA Between ==
  ASSUME NEW n \in Nat, NEW k \in 1 .. n + 1, NEW m \in 1 .. n + 1, k < m
  PROVE  k \in 1 .. n /\ (\A l \in k + 1 .. m - 1 : l \in 1 .. n) /\ (m = n + 1 => m - 1 = n)
  OBVIOUS

\* What it does to the blocks without an end: a retry message leaves them, anything
\* else closes them, and a head opens one.
Follows(t, s, n, x) ==
  \A k \in 1 .. n + 1 : Unfinished(t, n + 1, k) =>
    \/ k = n + 1 /\ x.piece = "block head" /\ t[k] = x
    \/ k \in 1 .. n /\ Unfinished(s, n, k) /\ x.piece = "retry" /\ t[k] = s[k]

LEMMA ExtendsFollows ==
  ASSUME NEW s, NEW t, NEW n \in Nat, NEW x, Extends(t, s, n, x)
  PROVE  Follows(t, s, n, x)
<1> SUFFICES ASSUME NEW k \in 1 .. n + 1, Unfinished(t, n + 1, k)
             PROVE  \/ k = n + 1 /\ x.piece = "block head" /\ t[k] = x
                    \/ k \in 1 .. n /\ Unfinished(s, n, k) /\ x.piece = "retry" /\ t[k] = s[k]
  BY DEF Follows
<1>1. CASE k = n + 1
  BY <1>1 DEF Extends, Unfinished
<1>2. CASE k \in 1 .. n
  <2>1. n + 1 \in k + 1 .. n + 1 /\ \A l \in k + 1 .. n : l \in 1 .. n /\ l \in k + 1 .. n + 1
    BY <1>2
  <2>2. x.piece = "retry"
    BY <2>1 DEF Extends, Unfinished
  <2>3. Unfinished(s, n, k) /\ t[k] = s[k]
    BY <1>2, <2>1 DEF Extends, Unfinished
  <2> QED
    BY <1>2, <2>2, <2>3
<1> QED
  BY <1>1, <1>2, LastOrBefore

\* A write that continues every block without an end keeps the narratives apart.
LEMMA ExtendsApart ==
  ASSUME NEW s, NEW t, NEW n \in Nat, NEW x, Extends(t, s, n, x), Apart(s, n),
         \A k \in 1 .. n : Unfinished(s, n, k) =>
           x.piece = "retry" \/ x = [file |-> s[k].file, piece |-> "block tail"]
  PROVE  Apart(t, n + 1)
<1> SUFFICES ASSUME NEW k \in 1 .. n + 1, NEW m \in 1 .. n + 1, k < m,
                    Unfinished(t, m - 1, k), t[m].piece # "retry"
             PROVE  t[m] = [file |-> t[k].file, piece |-> "block tail"]
  BY DEF Apart
<1>1. k \in 1 .. n /\ (\A l \in k + 1 .. m - 1 : l \in 1 .. n) /\ (m = n + 1 => m - 1 = n)
  BY Between
<1>2. t[k] = s[k] /\ Unfinished(s, m - 1, k)
  BY <1>1 DEF Extends, Unfinished
<1>3. CASE m = n + 1
  <2>1. Unfinished(s, n, k)
    BY <1>1, <1>2, <1>3
  <2>2. t[m] = x
    BY <1>3 DEF Extends
  <2> QED
    BY <1>1, <1>2, <2>1, <2>2
<1>4. CASE m \in 1 .. n
  <2>1. t[m] = s[m]
    BY <1>4 DEF Extends
  <2> QED
    BY <1>1, <1>2, <1>4, <2>1 DEF Apart
<1> QED
  BY <1>3, <1>4, LastOrBefore

\* The narratives are apart, and the mutex's holder writes the only open block.
LogInv == NarrativesApart /\ MutexInv

Open(k) == Unfinished(stderr, Len(stderr), k)

\* One write seen by the log's invariant: with every open block continued by what is
\* written, the narratives stay apart; and which blocks are open afterwards.
LEMMA WriteEffect ==
  ASSUME stderr \in Seq(LogPiece), NEW i \in Jobs \cup {None},
         NEW what \in {"starting", "block head", "block tail", "retry", "summary"},
         Write(i, what), NarrativesApart,
         \A k \in 1 .. Len(stderr) : Open(k) =>
           what = "retry" \/ (what = "block tail" /\ i = stderr[k].file)
  PROVE  /\ NarrativesApart'
         /\ \A k \in 1 .. Len(stderr') : Open(k)' =>
              \/ what = "block head" /\ stderr'[k].file = i
              \/ /\ what = "retry" /\ k \in 1 .. Len(stderr)
                 /\ Open(k) /\ stderr'[k] = stderr[k]
<1> DEFINE x == [file |-> i, piece |-> what]
           t == Append(stderr, x)
           n == Len(stderr)
<1>1. x \in LogPiece /\ x.piece = what /\ x.file = i
  BY DEF LogPiece
<1>2. \A k \in 1 .. n : Unfinished(stderr, n, k) =>
        x.piece = "retry" \/ x = [file |-> stderr[k].file, piece |-> "block tail"]
  BY DEF Open
<1>3. stderr' = t
  BY DEF Write
<1> HIDE DEF x
<1>4. n \in Nat /\ Len(t) = n + 1 /\ Extends(t, stderr, n, x)
  BY <1>1, AppendExtends
<1> HIDE DEF n, t
<1>5. Apart(t, n + 1)
  BY <1>2, <1>4, ExtendsApart DEF NarrativesApart, n
<1>6. NarrativesApart'
  BY <1>3, <1>4, <1>5 DEF NarrativesApart
<1>7. Follows(t, stderr, n, x)
  BY <1>4, ExtendsFollows
<1>8. ASSUME NEW k \in 1 .. Len(stderr'), Open(k)'
      PROVE  \/ what = "block head" /\ stderr'[k].file = i
             \/ what = "retry" /\ k \in 1 .. n /\ Open(k) /\ stderr'[k] = stderr[k]
  <2>1. k \in 1 .. n + 1 /\ Unfinished(t, n + 1, k)
    BY <1>3, <1>4, <1>8 DEF Open
  <2> QED
    BY <1>1, <1>3, <1>7, <2>1 DEF Follows, Open, n
<1> QED
  BY <1>6, <1>8 DEF n

LEMMA LogInductive ==
  TypeOK /\ PoolInv /\ LogInv /\ [Next]_vars => LogInv'
<1> SUFFICES ASSUME TypeOK, PoolInv, LogInv, [Next]_vars PROVE LogInv'
  OBVIOUS
<1>0. /\ stderr \in Seq(LogPiece) /\ NarrativesApart
      /\ wpc \in [Workers -> {"unborn", "claim", "announce", "sign", "flush", "flushing", "exited"}]
      /\ idx \in [Workers -> Jobs \cup {None}]
  BY DEF LogInv, TypeOK
<1>m. /\ \A w \in Workers : wpc[w] = "flushing" => log_mu = w
      /\ \A k \in 1 .. Len(stderr) : Open(k) =>
           log_mu \in Workers /\ wpc[log_mu] = "flushing" /\ idx[log_mu] = stderr[k].file
  BY DEF LogInv, MutexInv, Open
<1>n. None \notin Workers
  BY PoolAssumption DEF Workers, None
<1>b. ASSUME \A w \in Workers : wpc'[w] = "flushing" => log_mu' = w,
             \A k \in 1 .. Len(stderr') : Open(k)' =>
               log_mu' \in Workers /\ wpc'[log_mu'] = "flushing" /\ idx'[log_mu'] = stderr'[k].file
      PROVE  MutexInv'
  BY <1>b DEF MutexInv, Open
<1>u. ASSUME UNCHANGED stderr
      PROVE  NarrativesApart' /\ Len(stderr') = Len(stderr) /\ \A k : Open(k)' <=> Open(k)
  BY <1>0, <1>u DEF NarrativesApart, Open
<1>1. CASE Spawn
  <2>1. UNCHANGED <<idx, log_mu, stderr>> /\ wpc' = [wpc EXCEPT ![spawned + 1] = "claim"]
    BY <1>1 DEF Spawn
  <2>2. spawned \in Nat /\ \A w \in Workers : w = spawned + 1 => wpc[w] = "unborn"
    <3>1. spawned \in Nat /\ \A w \in Workers : w \in Nat /\ WorkerInv(w)
      BY DEF TypeOK, PoolInv, Workers
    <3> QED
      BY <3>1 DEF WorkerInv
  <2>3. \A w \in Workers : wpc'[w] = "flushing" <=> wpc[w] = "flushing"
    BY <1>0, <2>1, <2>2
  <2> QED
    BY <1>m, <1>b, <1>u, <2>1, <2>3 DEF LogInv
<1>2. CASE Summary
  <2>1. UNCHANGED <<idx, log_mu, wpc>> /\ mpc = "summary" /\ Write(None, "summary")
    BY <1>2 DEF Summary, MainGoto, workerVars
  <2>2. \A w \in Workers : wpc[w] # "flushing"
    BY <2>1 DEF PoolInv, WorkerInv
  <2>3. NarrativesApart' /\ \A k \in 1 .. Len(stderr') : ~Open(k)'
    BY <1>0, <1>m, <2>1, <2>2, WriteEffect
  <2> QED
    BY <1>b, <2>1, <2>2, <2>3 DEF LogInv
<1>3. ASSUME NEW w \in Workers, Worker(w) PROVE LogInv'
  <2>0. idx[w] \in Jobs \cup {None}
    BY <1>0
  <2>1. CASE Claim(w) \/ StoreResult(w)
    <3>1. /\ UNCHANGED <<log_mu, stderr>> /\ wpc[w] \in {"claim", "sign"}
          /\ \E to \in {"announce", "exited", "flush"} : wpc' = [wpc EXCEPT ![w] = to]
          /\ \A v \in Workers \ {w} : idx'[v] = idx[v]
      BY <1>0, <2>1 DEF Claim, StoreResult, WorkerGoto
    <3>2. \A v \in Workers : wpc'[v] = "flushing" <=> wpc[v] = "flushing"
      BY <1>0, <3>1
    <3> QED
      BY <1>m, <1>b, <1>u, <3>1, <3>2 DEF LogInv
  <2>2. CASE Announce(w)
    <3>1. /\ UNCHANGED <<log_mu, idx>> /\ log_mu = None /\ Write(idx[w], "starting")
          /\ wpc[w] = "announce" /\ wpc' = [wpc EXCEPT ![w] = "sign"]
      BY <2>2 DEF Announce, WorkerGoto
    <3>2. NarrativesApart' /\ \A k \in 1 .. Len(stderr') : ~Open(k)'
      BY <1>0, <1>m, <1>n, <2>0, <3>1, WriteEffect
    <3>3. \A v \in Workers : wpc'[v] = "flushing" => log_mu' = v
      BY <1>0, <1>m, <3>1
    <3> QED
      BY <1>b, <3>2, <3>3 DEF LogInv
  <2>3. CASE FlushBegin(w)
    <3>1. /\ UNCHANGED idx /\ log_mu = None /\ log_mu' = w /\ Write(idx[w], "block head")
          /\ wpc' = [wpc EXCEPT ![w] = "flushing"]
      BY <2>3 DEF FlushBegin, WorkerGoto
    <3>2. NarrativesApart' /\ \A k \in 1 .. Len(stderr') : Open(k)' => stderr'[k].file = idx[w]
      BY <1>0, <1>m, <1>n, <2>0, <3>1, WriteEffect
    <3>3. \A v \in Workers : wpc'[v] = "flushing" => log_mu' = v
      BY <1>0, <1>m, <1>n, <3>1
    <3>4. log_mu' \in Workers /\ wpc'[log_mu'] = "flushing" /\ idx'[log_mu'] = idx[w]
      BY <1>0, <3>1
    <3> QED
      BY <1>b, <3>2, <3>3, <3>4 DEF LogInv
  <2>4. CASE FlushEnd(w)
    <3>1. /\ log_mu' = None /\ wpc[w] = "flushing" /\ wpc' = [wpc EXCEPT ![w] = "claim"]
          /\ Write(idx[w], "block tail")
      BY <2>4 DEF FlushEnd, WorkerGoto
    <3>2. \A k \in 1 .. Len(stderr) : Open(k) => idx[w] = stderr[k].file
      BY <1>m, <3>1
    <3>3. NarrativesApart' /\ \A k \in 1 .. Len(stderr') : ~Open(k)'
      BY <1>0, <2>0, <3>1, <3>2, WriteEffect
    <3>4. \A v \in Workers : wpc'[v] # "flushing"
      BY <1>0, <1>m, <3>1
    <3> QED
      BY <1>b, <3>3, <3>4 DEF LogInv
  <2> QED
    BY <1>3, <2>1, <2>2, <2>3, <2>4 DEF Worker
<1>4. ASSUME NEW i \in Jobs, RetryMessage(i) PROVE LogInv'
  <2>1. UNCHANGED <<log_mu, wpc, idx>> /\ Write(i, "retry")
    BY <1>4 DEF RetryMessage
  <2>2. /\ NarrativesApart'
        /\ \A k \in 1 .. Len(stderr') : Open(k)' =>
             k \in 1 .. Len(stderr) /\ Open(k) /\ stderr'[k] = stderr[k]
    BY <1>0, <2>1, WriteEffect
  <2> QED
    BY <1>m, <1>b, <2>1, <2>2 DEF LogInv
<1>5. CASE Join \/ SingleReturn \/ (\E i \in Jobs : Call(i)) \/ Crash \/ Stopped \/ UNCHANGED vars
  <2>1. UNCHANGED <<log_mu, wpc, idx, stderr>>
    BY <1>5 DEF Join, SingleReturn, Call, SignCommit, SignReport, SignFail, Crash, Stopped, vars,
       workerVars
  <2> QED
    BY <1>m, <1>b, <1>u, <2>1 DEF LogInv
<1> QED
  BY <1>1, <1>2, <1>3, <1>4, <1>5 DEF Next, Main

\* Whatever the number of workers, files and retry messages, no other file's line
\* and no summary falls inside a file's block (FileLogger::flush under log_mu).
THEOREM LogReadable == Spec => []NarrativesApart
<1>1. Init => LogInv
  BY DEF Init, LogInv, NarrativesApart, Apart, MutexInv
<1>2. LogInv => NarrativesApart
  BY DEF LogInv
<1> QED
  BY <1>1, <1>2, LogInductive, TypeCorrect, PoolCorrect, PTL DEF Spec

-----------------------------------------------------------------------------
\* The first half of sign_main, before the pool: SignMain.

\* The source that a field must come from, and the token that must be used.
Strongest(f) ==
  IF args.as = "valid" THEN "tuple" ELSE IF f \in args.flags THEN "flag" ELSE "config"

Best ==
  IF args.token THEN "flag" ELSE IF env.access_token THEN "env"
  ELSE IF OidcConfigured THEN "oidc" ELSE "cached"

Fetching == {"oidc", "mint", "exchange", "cached"}
Checking == {"require", "dump", "sign"}

\* What the steps up to pc have established about the target ...
TargetKnown ==
  /\ pc = "tuple" => \A f \in Fields : target[f] = IF f \in args.flags THEN "flag" ELSE "empty"
  /\ pc \notin {"tuple", "exit"} => args.as # "invalid" /\ (args.as = "valid" => args.flags = {})
  /\ pc = "defaults" => \A f \in Fields : target[f] \in {"empty", Strongest(f)} \ {"config"}
  /\ pc = "defaults" => \A f \in Fields : target[f] = "empty" => Strongest(f) = "config"
  /\ pc \notin {"tuple", "exit"} => \A f \in Fields : target[f] \in {"empty", Strongest(f)}
  /\ pc \in {"environment"} \cup Fetching \cup Checking => companion
  /\ pc \in {"dump", "sign"} => Complete
  /\ pc = "sign" => (args.files > 1 => ~args.dump_cms)

\* ... and about the token and the services asked for it.
TokenKnown ==
  /\ pc \in {"tuple", "defaults", "companion", "environment"} =>
       token = (IF args.token THEN "flag" ELSE "none") /\ contacted = {}
  /\ pc \in Fetching => token = "none" /\ Best \notin {"flag", "env"}
  /\ pc \in {"oidc", "mint", "exchange"} => Best = "oidc"
  /\ pc = "cached" => Best = "cached"
  /\ pc \in Checking => token \in {"none", Best}
  /\ Best \in {"flag", "env"} => contacted = {}
  /\ Best = "cached" => "github" \notin contacted
  /\ ~companion => contacted = {}
  /\ Best = "oidc" /\ ~env.runner =>
       /\ contacted = {} /\ token = "none"
       /\ pc \in {"tuple", "defaults", "companion", "environment", "oidc", "exit"}
       /\ pc = "exit" => why \in {"tuple", "companion", "oidc"}

ResolveInv == ResolveTypeOK /\ TargetKnown /\ TokenKnown

\* The program's inputs never change.
LEMMA InputsStay ==
  ASSUME UNCHANGED <<args, env, config, companion>>
  PROVE  /\ Best' = Best /\ OidcConfigured' = OidcConfigured
         /\ \A f : Strongest(f)' = Strongest(f)
BY DEF Best, Strongest, OidcConfigured

LEMMA ResolveInvInit == ResolveInit => ResolveInv
<1> SUFFICES ASSUME ResolveInit PROVE ResolveInv
  OBVIOUS
<1>1. /\ pc = "tuple" /\ contacted = {} /\ warned = FALSE /\ why = "nothing"
      /\ target = [f \in Fields |-> IF f \in args.flags THEN "flag" ELSE "empty"]
      /\ token = (IF args.token THEN "flag" ELSE "none")
  BY DEF ResolveInit
<1>2. args \in Args /\ env \in Env /\ companion \in BOOLEAN
  BY DEF ResolveInit
<1>3. config \in Config
  BY DEF ResolveInit, Config
<1>4. ResolveTypeOK
  BY <1>1, <1>2, <1>3 DEF ResolveTypeOK, Sources, Steps
<1>5. TargetKnown
  BY <1>1 DEF TargetKnown, Fetching, Checking
<1>6. TokenKnown
  BY <1>1 DEF TokenKnown, Fetching, Checking, Best
<1> QED BY <1>4, <1>5, <1>6 DEF ResolveInv

\* --as, the flags and config.json.
LEMMA TargetSteps ==
  ASSUME ResolveInv, ExpandTuple \/ FillDefaults
  PROVE  ResolveInv'
<1>0. ResolveTypeOK /\ TargetKnown /\ TokenKnown
  BY DEF ResolveInv
<1>1. UNCHANGED <<args, env, config, companion, token, contacted>>
  BY DEF ExpandTuple, FillDefaults, Goto, Exit, found
<1>2. CASE ExpandTuple
  <2>1. pc = "tuple" /\ pc' \in {"exit", "defaults"} /\ UNCHANGED warned
        /\ (why' = "tuple" \/ (pc' = "defaults" /\ why' = why))
        /\ (pc' = "defaults" => args.as = "absent" \/ (args.flags = {} /\ args.as # "invalid"))
        /\ target' = IF args.as = "valid" /\ args.flags = {} THEN [f \in Fields |-> "tuple"] ELSE target
    BY <1>2 DEF ExpandTuple, Goto, Exit
  <2>2. target' \in [Fields -> Sources]
    BY <1>0, <2>1 DEF ResolveTypeOK, Sources, Steps
  <2>3. ResolveTypeOK'
    BY <1>0, <1>1, <2>1, <2>2 DEF ResolveTypeOK, Steps
  <2>4. TokenKnown'
    BY <1>0, <1>1, <2>1, InputsStay DEF TokenKnown, Fetching, Checking
  <2>5. TargetKnown'
    BY <1>0, <1>1, <2>1, InputsStay DEF TargetKnown, Fetching, Checking, Strongest
  <2> QED BY <2>3, <2>4, <2>5 DEF ResolveInv
<1>3. CASE FillDefaults
  <2>1. pc = "defaults" /\ pc' = "companion" /\ UNCHANGED why /\ warned' \in BOOLEAN
    BY <1>3 DEF FillDefaults, Goto
  <2>2. /\ target' \in [Fields -> Sources]
        /\ \A f \in Fields : target'[f] = target[f] \/ (target[f] = "empty" /\ target'[f] = "config")
    BY <1>0, <1>3 DEF FillDefaults, ResolveTypeOK, Sources
  <2>3. ResolveTypeOK'
    BY <1>0, <1>1, <2>1, <2>2 DEF ResolveTypeOK, Steps
  <2>4. TokenKnown'
    BY <1>0, <1>1, <2>1, InputsStay DEF TokenKnown, Fetching, Checking
  <2>5. TargetKnown'
    BY <1>0, <1>1, <2>1, <2>2, InputsStay DEF TargetKnown, Fetching, Checking
  <2> QED BY <2>3, <2>4, <2>5 DEF ResolveInv
<1> QED BY <1>2, <1>3

\* The companion, then the ways to a token.
LEMMA TokenSteps ==
  ASSUME ResolveInv,
         \/ ResolveCompanion \/ TokenFromEnvironment \/ StartOidc
         \/ MintJwt \/ ExchangeJwt \/ CachedRefresh
  PROVE  ResolveInv'
<1>0. ResolveTypeOK /\ TargetKnown /\ TokenKnown
  BY DEF ResolveInv
<1> USE DEF Goto, Exit, found
<1>1. /\ UNCHANGED <<args, env, config, companion, target, warned>>
      /\ pc \in {"companion", "environment"} \cup Fetching
      /\ pc' \in {"environment", "require", "exit"} \cup Fetching
      /\ pc' \in {"environment"} \cup Fetching \cup Checking => companion
      /\ why' \in {why, pc}
  BY <1>0 DEF ResolveCompanion, TokenFromEnvironment, StartOidc,
     MintJwt, ExchangeJwt, CachedRefresh, Fetching, Checking, TargetKnown
<1>2. TargetKnown'
  BY <1>0, <1>1, InputsStay DEF TargetKnown, Fetching, Checking
<1>3. /\ TokenKnown' /\ contacted' \subseteq {"github", "entra"}
      /\ token' \in {"none", "flag", "env", "oidc", "cached"}
  <2>1. CASE ResolveCompanion
    BY <1>0, <1>1, <2>1, InputsStay
    DEF ResolveCompanion, TokenKnown, Fetching, Checking, ResolveTypeOK
  <2>2. CASE TokenFromEnvironment
    BY <1>0, <1>1, <2>2, InputsStay
    DEF TokenFromEnvironment, TokenKnown, Fetching, Checking, ResolveTypeOK, Best
  <2>3. CASE StartOidc
    BY <1>0, <1>1, <2>3, InputsStay
    DEF StartOidc, TokenKnown, Fetching, Checking, ResolveTypeOK
  <2>4. CASE MintJwt
    BY <1>0, <1>1, <2>4, InputsStay
    DEF MintJwt, TokenKnown, TargetKnown, Fetching, Checking, ResolveTypeOK
  <2>5. CASE ExchangeJwt
    BY <1>0, <1>1, <2>5, InputsStay
    DEF ExchangeJwt, TokenKnown, TargetKnown, Fetching, Checking, ResolveTypeOK
  <2>6. CASE CachedRefresh
    BY <1>0, <1>1, <2>6, InputsStay
    DEF CachedRefresh, TokenKnown, TargetKnown, Fetching, Checking, ResolveTypeOK
  <2> QED BY <2>1, <2>2, <2>3, <2>4, <2>5, <2>6
<1>4. ResolveTypeOK'
  BY <1>0, <1>1, <1>3 DEF ResolveTypeOK, Steps, Fetching
<1> QED BY <1>2, <1>3, <1>4 DEF ResolveInv

\* The last checks, and the end.
LEMMA CheckSteps ==
  ASSUME ResolveInv, CheckRequired \/ CheckDump \/ UNCHANGED resolveVars
  PROVE  ResolveInv'
<1>0. ResolveTypeOK /\ TargetKnown /\ TokenKnown
  BY DEF ResolveInv
<1>1. /\ UNCHANGED <<args, env, config, companion, target, token, warned, contacted>>
      /\ \/ pc \in {"require", "dump"} /\ pc' \in {"dump", "sign", "exit"} /\ why' \in {why, pc}
         \/ UNCHANGED <<pc, why>>
      /\ pc' = "dump" => Complete
      /\ pc' = "sign" => pc \in {"dump", "sign"} /\ (args.files > 1 => ~args.dump_cms)
  BY <1>0 DEF CheckRequired, CheckDump, resolveVars, Goto, Exit,
     found, TargetKnown
<1>2. Complete' <=> Complete
  BY <1>1 DEF Complete
<1>3. ResolveTypeOK'
  BY <1>0, <1>1 DEF ResolveTypeOK, Steps
<1>4. TargetKnown'
  BY <1>0, <1>1, <1>2, InputsStay DEF TargetKnown, Fetching, Checking
<1>5. TokenKnown'
  BY <1>0, <1>1, InputsStay DEF TokenKnown, Fetching, Checking
<1> QED BY <1>3, <1>4, <1>5 DEF ResolveInv

\* The inductive invariant of the first half of sign_main (lines 321-451): at every
\* step the target holds no weaker source than the strongest one given, and no
\* service has been asked for a token that a stronger source makes needless.
THEOREM ResolveCorrect == ResolveSpec => []ResolveInv
<1>1. ResolveInv /\ [ResolveNext]_resolveVars => ResolveInv'
  BY TargetSteps, TokenSteps, CheckSteps DEF ResolveNext, Over
<1> QED BY <1>1, ResolveInvInit, PTL DEF ResolveSpec

\* Signing starts only with a companion and a complete target, each field from the
\* strongest source that has it, whatever the number of files.
THEOREM TargetIsResolved == ResolveSpec => []TargetResolved
<1>1. ResolveInv => TargetResolved
  BY DEF ResolveInv, TargetKnown, TargetResolved, Complete, Strongest, Fetching, Checking
<1> QED BY <1>1, ResolveCorrect, PTL

\* "Authentication (first match wins)": the token used is the strongest one, and
\* nobody is asked for a weaker one, or for any without a companion.  With the ids
\* for OIDC but no endpoint nobody is asked and nothing is signed: not what the
\* comment in sign_main says (main.cpp:379-382), but what the code does.
THEOREM FirstMatchIsUsed == ResolveSpec => []FirstMatchWins
<1>1. ResolveInv => FirstMatchWins
  BY DEF ResolveInv, ResolveTypeOK, TargetKnown, TokenKnown, FirstMatchWins, OidcHalfConfigured,
     Complete, Best, Fetching, Checking
<1> QED BY <1>1, ResolveCorrect, PTL
=============================================================================
