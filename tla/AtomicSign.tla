----------------------------- MODULE AtomicSign -----------------------------
(***************************************************************************)
(* What `aas-sign sign` promises to whoever owns the input files, whatever  *)
(* the companion, Azure or the file system do on the way: each job either   *)
(* fails and leaves its destination alone, or replaces the destination, in  *)
(* one step, by a completely signed version of the same file.  SignFile     *)
(* implements this specification; WorkerPool runs it on worker threads.     *)
(***************************************************************************)
CONSTANTS
  Jobs,            \* the file arguments of one invocation
  Paths,           \* the files they name
  Target,          \* [Jobs -> Paths]; two arguments may name one file
  Original         \* the content a path had when the invocation started

VARIABLES
  owner,           \* per path: Original, or the job whose signed version it is
  status,          \* per job: "pending", "committed", "ok" or "failed"
  alive            \* FALSE once the process has been killed

vars == <<owner, status, alive>>

Init ==
  /\ owner = [p \in Paths |-> Original]
  /\ status = [j \in Jobs |-> "pending"]
  /\ alive = TRUE

Move(j, from, to) ==
  /\ alive
  /\ status[j] = from
  /\ status' = [status EXCEPT ![j] = to]
  /\ UNCHANGED alive

\* The one visible effect: the destination becomes job j's signed version.
Commit(j) ==
  /\ Move(j, "pending", "committed")
  /\ owner' = [owner EXCEPT ![Target[j]] = j]

\* Success is reported only after the replacement.
Report(j) ==
  /\ Move(j, "committed", "ok")
  /\ UNCHANGED owner

\* Failure is reported only when there was no replacement.
Fail(j) ==
  /\ Move(j, "pending", "failed")
  /\ UNCHANGED owner

\* The process is killed: no job takes another step.
Crash ==
  /\ alive
  /\ alive' = FALSE
  /\ UNCHANGED <<owner, status>>

Next ==
  \/ \E j \in Jobs : Commit(j) \/ Report(j) \/ Fail(j)
  \/ Crash

Spec == Init /\ [][Next]_vars
=============================================================================
