----------------------------- MODULE RunProcess -----------------------------
(***************************************************************************)
(* platform::run_process (src/src/posix.cpp, src/src/win32.cpp) called by    *)
(* several signing workers at once: each makes a pipe, starts a companion    *)
(* that writes to it, drains the pipe to its end and reaps the companion.    *)
(*                                                                           *)
(* A pipe is at its end when every copy of its write end is closed: the      *)
(* caller's own and those of the children that inherited one.  With listed,  *)
(* a child inherits exactly what it is given (win32.cpp's handle list);      *)
(* without, it inherits every descriptor that is not close-on-exec at that   *)
(* moment, and between pipe() and fcntl() a write end is not (posix.cpp's    *)
(* portable fallback).                                                       *)
(*                                                                           *)
(* A companion writes at least one byte when it writes: a write of none would *)
(* end the reading on Windows, where ReadFile then returns with nothing.     *)
(***************************************************************************)
EXTENDS Naturals, FiniteSets

CONSTANTS
  Callers,      \* the worker threads; a child is named after its caller
  Capacity,     \* how much a pipe holds
  Limit,        \* output_limit
  MaxOutput     \* how much a companion may write

NoOne == "no one"

ASSUME ProcessAssumption ==
  /\ Capacity \in Nat \ {0}
  /\ Limit \in Nat
  /\ MaxOutput \in Nat
  /\ NoOne \notin Callers

VARIABLES
  listed,       \* win32.cpp, or posix.cpp? (fixed)
  spawn_mutex,  \* who holds it
  pc,           \* per caller: its next step
  write_end,    \* per caller: its own copy, "none", "inheritable" or "private"
  holders,      \* per pipe: the children that hold its write end
  pipe,         \* per pipe: how much is in it
  output,       \* per caller: how much it has kept
  read_error,   \* per caller: reading failed
  child,        \* per child: "none", "running", "exited"
  produced,     \* per child: how much it has written
  result        \* per caller: "running", "returned", "threw"

pipes == <<write_end, holders, pipe>>
children == <<child, produced>>
vars == <<listed, spawn_mutex, pc, pipes, output, read_error, children, result>>

Init ==
  /\ listed \in BOOLEAN
  /\ spawn_mutex = NoOne
  /\ pc = [c \in Callers |-> "lock"]
  /\ write_end = [c \in Callers |-> "none"]
  /\ holders = [c \in Callers |-> {}]
  /\ pipe = [c \in Callers |-> 0]
  /\ output = [c \in Callers |-> 0]
  /\ read_error = [c \in Callers |-> FALSE]
  /\ child = [c \in Callers |-> "none"]
  /\ produced = [c \in Callers |-> 0]
  /\ result = [c \in Callers |-> "running"]

Goto(c, from, to) ==
  /\ pc[c] = from
  /\ pc' = [pc EXCEPT ![c] = to]
  /\ UNCHANGED listed

-----------------------------------------------------------------------------
\* The caller.

\* Mutant: descriptor setup and spawn are not serialised.
Lock_Skipped(c) ==
  /\ Goto(c, "lock", "pipe")
  /\ UNCHANGED <<spawn_mutex, pipes, output, read_error, children, result>>

\* spawn_mutex, on POSIX.
Lock(c) ==
  /\ Goto(c, "lock", "pipe")
  /\ listed \/ spawn_mutex = NoOne
  /\ spawn_mutex' = IF listed THEN NoOne ELSE c
  /\ UNCHANGED <<pipes, output, read_error, children, result>>

\* pipe, CreatePipe with inheritable handles.
MakePipe(c) ==
  /\ Goto(c, "pipe", IF listed THEN "spawn" ELSE "mark")
  /\ write_end' = [write_end EXCEPT ![c] = "inheritable"]
  /\ UNCHANGED <<spawn_mutex, holders, pipe, output, read_error, children, result>>

\* F_DUPFD_CLOEXEC, and close of the first descriptor.
MarkPrivate(c) ==
  /\ Goto(c, "mark", "spawn")
  /\ write_end' = [write_end EXCEPT ![c] = "private"]
  /\ UNCHANGED <<spawn_mutex, holders, pipe, output, read_error, children, result>>

\* Mutant: no handle list, so every inheritable handle goes along.
Inherited_All(c) == {c} \cup {d \in Callers : write_end[d] = "inheritable"}

Inherited(c) ==
  {c} \cup IF listed THEN {} ELSE {d \in Callers : write_end[d] = "inheritable"}

\* posix_spawn, CreateProcessW: the write end becomes the child's stdout and
\* stderr.
Spawn(c) ==
  /\ Goto(c, "spawn", "close")
  /\ child' = [child EXCEPT ![c] = "running"]
  /\ holders' = [d \in Callers |-> holders[d] \cup IF d \in Inherited(c) THEN {c} ELSE {}]
  /\ UNCHANGED <<spawn_mutex, write_end, pipe, output, read_error, produced, result>>

\* The caller's own copy is closed, then the mutex released.
CloseWriteEnd(c) ==
  /\ Goto(c, "close", "read")
  /\ write_end' = [write_end EXCEPT ![c] = "none"]
  /\ spawn_mutex' = NoOne
  /\ UNCHANGED <<holders, pipe, output, read_error, children, result>>

\* No pipe, no descriptor, no process: everything is closed by destructors.
SpawnFails(c) ==
  /\ pc[c] \in {"pipe", "mark", "spawn"}
  /\ pc' = [pc EXCEPT ![c] = "done"]
  /\ write_end' = [write_end EXCEPT ![c] = "none"]
  /\ spawn_mutex' = NoOne
  /\ result' = [result EXCEPT ![c] = "threw"]
  /\ UNCHANGED <<listed, holders, pipe, output, read_error, children>>

\* Mutant: reading stops at the limit.
Read_ToLimit(c) ==
  /\ pc[c] = "read"
  /\ pipe[c] > 0
  /\ output[c] < Limit
  /\ pipe' = [pipe EXCEPT ![c] = @ - 1]
  /\ output' = [output EXCEPT ![c] = @ + 1]
  /\ UNCHANGED <<listed, spawn_mutex, pc, write_end, holders, read_error, children, result>>

\* One piece is read; what exceeds the limit is dropped.
Read(c) ==
  /\ pc[c] = "read"
  /\ pipe[c] > 0
  /\ pipe' = [pipe EXCEPT ![c] = @ - 1]
  /\ output' = [output EXCEPT ![c] = IF @ < Limit THEN @ + 1 ELSE @]
  /\ UNCHANGED <<listed, spawn_mutex, pc, write_end, holders, read_error, children, result>>

\* Mutant: the exit of the child ends the reading.
EndOfFile_OnExit(c) ==
  /\ Goto(c, "read", "wait")
  /\ child[c] = "exited"
  /\ UNCHANGED <<spawn_mutex, pipes, output, read_error, children, result>>

\* read returns 0: the pipe is empty and nobody can write to it any more.
EndOfFile(c) ==
  /\ Goto(c, "read", "wait")
  /\ pipe[c] = 0
  /\ write_end[c] = "none"
  /\ holders[c] = {}
  /\ UNCHANGED <<spawn_mutex, pipes, output, read_error, children, result>>

CloseAll(d) == [c \in Callers |-> holders[c] \ {d}]

\* A failing read: the child is killed, to be reaped.
ReadFails(c) ==
  /\ Goto(c, "read", "wait")
  /\ read_error' = [read_error EXCEPT ![c] = TRUE]
  /\ child' = [child EXCEPT ![c] = "exited"]
  /\ holders' = CloseAll(c)
  /\ UNCHANGED <<spawn_mutex, write_end, pipe, output, produced, result>>

\* waitpid, WaitForSingleObject.
Wait(c) ==
  /\ Goto(c, "wait", "done")
  /\ child[c] = "exited"
  /\ result' = [result EXCEPT ![c] = IF read_error[c] THEN "threw" ELSE "returned"]
  /\ UNCHANGED <<spawn_mutex, pipes, output, read_error, children>>

\* waitpid fails (other than interrupted), WaitForSingleObject or
\* GetExitCodeProcess does: the call is over, whatever the companion does.
WaitFails(c) ==
  /\ Goto(c, "wait", "done")
  /\ result' = [result EXCEPT ![c] = "threw"]
  /\ UNCHANGED <<spawn_mutex, pipes, output, read_error, children>>

-----------------------------------------------------------------------------
\* The companion (external).

Produce(d) ==
  /\ child[d] = "running"
  /\ produced[d] < MaxOutput
  /\ pipe[d] < Capacity
  /\ pipe' = [pipe EXCEPT ![d] = @ + 1]
  /\ produced' = [produced EXCEPT ![d] = @ + 1]
  /\ UNCHANGED <<listed, spawn_mutex, pc, write_end, holders, output, read_error, child, result>>

Exit(d) ==
  /\ child[d] = "running"
  /\ child' = [child EXCEPT ![d] = "exited"]
  /\ holders' = CloseAll(d)
  /\ UNCHANGED <<listed, spawn_mutex, pc, write_end, pipe, output, read_error, produced, result>>

\* What a caller does when no system call fails.
Progress(c) ==
  \/ Lock(c) \/ MakePipe(c) \/ MarkPrivate(c) \/ Spawn(c) \/ CloseWriteEnd(c)
  \/ Read(c) \/ EndOfFile(c) \/ Wait(c)

\* Every call is over.
Finished == (\A c \in Callers : pc[c] = "done") /\ UNCHANGED vars

Next ==
  \/ \E c \in Callers : Progress(c) \/ SpawnFails(c) \/ ReadFails(c) \/ WaitFails(c)
                         \/ Produce(c) \/ Exit(c)
  \/ Finished

Spec == Init /\ [][Next]_vars

\* The workers are scheduled.  Nothing is assumed of failures, which need not
\* come, nor of the companions: one may run for ever.
FairSpec == Spec /\ \A c \in Callers : WF_vars(Progress(c))

-----------------------------------------------------------------------------
\* Properties.

TypeOK ==
  /\ listed \in BOOLEAN
  /\ spawn_mutex \in Callers \cup {NoOne}
  /\ pc \in [Callers -> {"lock", "pipe", "mark", "spawn", "close", "read", "wait", "done"}]
  /\ write_end \in [Callers -> {"none", "inheritable", "private"}]
  /\ holders \in [Callers -> SUBSET Callers]
  /\ pipe \in [Callers -> 0 .. Capacity]
  /\ output \in [Callers -> 0 .. Limit]
  /\ read_error \in [Callers -> BOOLEAN]
  /\ child \in [Callers -> {"none", "running", "exited"}]
  /\ produced \in [Callers -> 0 .. MaxOutput]
  /\ result \in [Callers -> {"running", "returned", "threw"}]

\* "Another child's write pipe must not leak": a pipe is written and held open
\* by its own companion only, and only while that runs; the pipe, the output kept
\* of it and the other variables stay in their types.
PipesPrivate ==
  /\ TypeOK
  /\ \A c \in Callers : holders[c] \subseteq {c} /\ (child[c] # "running" => holders[c] = {})

\* A call that returns has reaped its companion and has everything it wrote, up
\* to the limit ("limited to the first 1 MiB").
OutputComplete ==
  \A c \in Callers : result[c] = "returned" =>
    /\ child[c] = "exited"
    /\ output[c] = IF produced[c] < Limit THEN produced[c] ELSE Limit

\* Nobody waits for a stranger: once a call's own companion has exited, the call
\* ends, however long the companions of other workers run.
ReturnsAfterExit ==
  \A c \in Callers : child[c] = "exited" ~> pc[c] = "done"

\* "The pipe is drained completely even when output exceeds this limit": a
\* companion never stays blocked on a full pipe.
NeverBlocksChild ==
  \A c \in Callers : pipe[c] = Capacity ~> pipe[c] < Capacity \/ child[c] = "exited"
=============================================================================
