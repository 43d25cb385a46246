-------------------------- MODULE RunProcessProofs --------------------------
(***************************************************************************)
(* RunProcess for any number of workers and any sizes: no write end leaks, *)
(* and a call that returns has all the output up to the limit.             *)
(***************************************************************************)
EXTENDS RunProcess, TLAPS

\* posix.cpp: from the pipe to the close of its write end a caller has spawn_mutex,
\* and a write end that others could inherit exists only in between.
Serialised(c) ==
  /\ ~listed /\ pc[c] \in {"pipe", "mark", "spawn", "close"} => spawn_mutex = c
  /\ ~listed /\ write_end[c] = "inheritable" => pc[c] = "mark"

\* The write end is with the caller's own companion, which exists once it has been
\* started.
Owned(c) ==
  /\ holders[c] = IF child[c] = "running" THEN {c} ELSE {}
  /\ pc[c] \in {"lock", "pipe", "mark", "spawn"} => child[c] = "none"
  /\ pc[c] \in {"close", "read", "wait"} => child[c] # "none"

\* What was produced is in the pipe, kept, or beyond the limit.
Counted(c) ==
  /\ pipe[c] <= produced[c]
  /\ produced[c] - pipe[c] < Limit => output[c] = produced[c] - pipe[c]
  /\ produced[c] - pipe[c] >= Limit => output[c] = Limit

\* Past the end of the pipe, everything has been read and nothing can follow.
Drained(c) ==
  (pc[c] = "wait" /\ ~read_error[c]) \/ result[c] = "returned" =>
    child[c] = "exited" /\ pipe[c] = 0

RunInv ==
  /\ TypeOK
  /\ \A c \in Callers : Serialised(c)
  /\ \A c \in Callers : Owned(c)
  /\ \A c \in Callers : Counted(c)
  /\ \A c \in Callers : Drained(c)

LEMMA LockKeeps ==
  ASSUME NEW c \in Callers, RunInv, Lock(c)
  PROVE  RunInv'
<1>1. TypeOK'
  BY ProcessAssumption DEF RunInv, TypeOK, Lock, Goto, pipes, children
<1>2. ASSUME NEW d \in Callers
      PROVE  Serialised(d)'
  <2>1. CASE d = c
    BY <2>1, ProcessAssumption DEF RunInv, TypeOK, Serialised, Lock, Goto, pipes, children
  <2>2. CASE d # c
    BY <2>2, ProcessAssumption DEF RunInv, TypeOK, Serialised, Lock, Goto, pipes, children
  <2>3. QED
    BY <2>1, <2>2
<1>3. ASSUME NEW d \in Callers
      PROVE  Owned(d)'
  <2>1. CASE d = c
    BY <2>1, ProcessAssumption DEF RunInv, TypeOK, Owned, Lock, Goto, pipes, children
  <2>2. CASE d # c
    BY <2>2, ProcessAssumption DEF RunInv, TypeOK, Owned, Lock, Goto, pipes, children
  <2>3. QED
    BY <2>1, <2>2
<1>4. ASSUME NEW d \in Callers
      PROVE  Counted(d)'
  <2>1. CASE d = c
    BY <2>1, ProcessAssumption DEF RunInv, TypeOK, Counted, Lock, Goto, pipes, children
  <2>2. CASE d # c
    BY <2>2, ProcessAssumption DEF RunInv, TypeOK, Counted, Lock, Goto, pipes, children
  <2>3. QED
    BY <2>1, <2>2
<1>5. ASSUME NEW d \in Callers
      PROVE  Drained(d)'
  <2>1. CASE d = c
    BY <2>1, ProcessAssumption DEF RunInv, TypeOK, Drained, Owned, Lock, Goto, pipes, children
  <2>2. CASE d # c
    BY <2>2, ProcessAssumption DEF RunInv, TypeOK, Drained, Owned, Lock, Goto, pipes, children
  <2>3. QED
    BY <2>1, <2>2
<1>6. QED
  BY <1>1, <1>2, <1>3, <1>4, <1>5 DEF RunInv

LEMMA MakePipeKeeps ==
  ASSUME NEW c \in Callers, RunInv, MakePipe(c)
  PROVE  RunInv'
<1>1. TypeOK'
  BY ProcessAssumption DEF RunInv, TypeOK, MakePipe, Goto, children
<1>2. ASSUME NEW d \in Callers
      PROVE  Serialised(d)'
  <2>1. CASE d = c
    BY <2>1, ProcessAssumption DEF RunInv, TypeOK, Serialised, MakePipe, Goto, children
  <2>2. CASE d # c
    BY <2>2, ProcessAssumption DEF RunInv, TypeOK, Serialised, MakePipe, Goto, children
  <2>3. QED
    BY <2>1, <2>2
<1>3. ASSUME NEW d \in Callers
      PROVE  Owned(d)'
  <2>1. CASE d = c
    BY <2>1, ProcessAssumption DEF RunInv, TypeOK, Owned, MakePipe, Goto, children
  <2>2. CASE d # c
    BY <2>2, ProcessAssumption DEF RunInv, TypeOK, Owned, MakePipe, Goto, children
  <2>3. QED
    BY <2>1, <2>2
<1>4. ASSUME NEW d \in Callers
      PROVE  Counted(d)'
  <2>1. CASE d = c
    BY <2>1, ProcessAssumption DEF RunInv, TypeOK, Counted, MakePipe, Goto, children
  <2>2. CASE d # c
    BY <2>2, ProcessAssumption DEF RunInv, TypeOK, Counted, MakePipe, Goto, children
  <2>3. QED
    BY <2>1, <2>2
<1>5. ASSUME NEW d \in Callers
      PROVE  Drained(d)'
  <2>1. CASE d = c
    BY <2>1, ProcessAssumption DEF RunInv, TypeOK, Drained, Owned, MakePipe, Goto, children
  <2>2. CASE d # c
    BY <2>2, ProcessAssumption DEF RunInv, TypeOK, Drained, Owned, MakePipe, Goto, children
  <2>3. QED
    BY <2>1, <2>2
<1>6. QED
  BY <1>1, <1>2, <1>3, <1>4, <1>5 DEF RunInv

LEMMA MarkPrivateKeeps ==
  ASSUME NEW c \in Callers, RunInv, MarkPrivate(c)
  PROVE  RunInv'
<1>1. TypeOK'
  BY ProcessAssumption DEF RunInv, TypeOK, MarkPrivate, Goto, children
<1>2. ASSUME NEW d \in Callers
      PROVE  Serialised(d)'
  <2>1. CASE d = c
    BY <2>1, ProcessAssumption DEF RunInv, TypeOK, Serialised, MarkPrivate, Goto, children
  <2>2. CASE d # c
    BY <2>2, ProcessAssumption DEF RunInv, TypeOK, Serialised, MarkPrivate, Goto, children
  <2>3. QED
    BY <2>1, <2>2
<1>3. ASSUME NEW d \in Callers
      PROVE  Owned(d)'
  <2>1. CASE d = c
    BY <2>1, ProcessAssumption DEF RunInv, TypeOK, Owned, MarkPrivate, Goto, children
  <2>2. CASE d # c
    BY <2>2, ProcessAssumption DEF RunInv, TypeOK, Owned, MarkPrivate, Goto, children
  <2>3. QED
    BY <2>1, <2>2
<1>4. ASSUME NEW d \in Callers
      PROVE  Counted(d)'
  <2>1. CASE d = c
    BY <2>1, ProcessAssumption DEF RunInv, TypeOK, Counted, MarkPrivate, Goto, children
  <2>2. CASE d # c
    BY <2>2, ProcessAssumption DEF RunInv, TypeOK, Counted, MarkPrivate, Goto, children
  <2>3. QED
    BY <2>1, <2>2
<1>5. ASSUME NEW d \in Callers
      PROVE  Drained(d)'
  <2>1. CASE d = c
    BY <2>1, ProcessAssumption DEF RunInv, TypeOK, Drained, Owned, MarkPrivate, Goto, children
  <2>2. CASE d # c
    BY <2>2, ProcessAssumption DEF RunInv, TypeOK, Drained, Owned, MarkPrivate, Goto, children
  <2>3. QED
    BY <2>1, <2>2
<1>6. QED
  BY <1>1, <1>2, <1>3, <1>4, <1>5 DEF RunInv

LEMMA SpawnKeeps ==
  ASSUME NEW c \in Callers, RunInv, Spawn(c)
  PROVE  RunInv'
<1>1. TypeOK'
  BY ProcessAssumption DEF RunInv, TypeOK, Spawn, Goto
<1>2. ASSUME NEW d \in Callers
      PROVE  Serialised(d)'
  <2>1. CASE d = c
    BY <2>1, ProcessAssumption DEF RunInv, TypeOK, Serialised, Spawn, Goto
  <2>2. CASE d # c
    BY <2>2, ProcessAssumption DEF RunInv, TypeOK, Serialised, Spawn, Goto
  <2>3. QED
    BY <2>1, <2>2
<1>3. ASSUME NEW d \in Callers
      PROVE  Owned(d)'
  <2>1. Inherited(c) = {c}
    BY DEF RunInv, Serialised, Inherited, Spawn, Goto
  <2>2. holders'[d] = holders[d] \cup IF d = c THEN {c} ELSE {}
    BY <2>1 DEF Spawn
  <2>3. CASE d = c
    BY <2>2, <2>3 DEF RunInv, TypeOK, Owned, Spawn, Goto
  <2>4. CASE d # c
    <3>1. holders'[d] = holders[d] /\ child'[d] = child[d] /\ pc'[d] = pc[d]
      BY <2>2, <2>4 DEF RunInv, TypeOK, Spawn, Goto
    <3>2. QED
      BY <3>1 DEF RunInv, Owned
  <2>5. QED
    BY <2>3, <2>4
<1>4. ASSUME NEW d \in Callers
      PROVE  Counted(d)'
  <2>1. CASE d = c
    BY <2>1, ProcessAssumption DEF RunInv, TypeOK, Counted, Spawn, Goto
  <2>2. CASE d # c
    BY <2>2, ProcessAssumption DEF RunInv, TypeOK, Counted, Spawn, Goto
  <2>3. QED
    BY <2>1, <2>2
<1>5. ASSUME NEW d \in Callers
      PROVE  Drained(d)'
  <2>1. CASE d = c
    BY <2>1, ProcessAssumption DEF RunInv, TypeOK, Drained, Owned, Spawn, Goto
  <2>2. CASE d # c
    BY <2>2, ProcessAssumption DEF RunInv, TypeOK, Drained, Owned, Spawn, Goto
  <2>3. QED
    BY <2>1, <2>2
<1>6. QED
  BY <1>1, <1>2, <1>3, <1>4, <1>5 DEF RunInv

LEMMA CloseWriteEndKeeps ==
  ASSUME NEW c \in Callers, RunInv, CloseWriteEnd(c)
  PROVE  RunInv'
<1>1. TypeOK'
  BY ProcessAssumption DEF RunInv, TypeOK, CloseWriteEnd, Goto, children
<1>2. ASSUME NEW d \in Callers
      PROVE  Serialised(d)'
  <2>1. CASE d = c
    BY <2>1, ProcessAssumption DEF RunInv, TypeOK, Serialised, CloseWriteEnd, Goto, children
  <2>2. CASE d # c
    BY <2>2, ProcessAssumption DEF RunInv, TypeOK, Serialised, CloseWriteEnd, Goto, children
  <2>3. QED
    BY <2>1, <2>2
<1>3. ASSUME NEW d \in Callers
      PROVE  Owned(d)'
  <2>1. CASE d = c
    BY <2>1, ProcessAssumption DEF RunInv, TypeOK, Owned, CloseWriteEnd, Goto, children
  <2>2. CASE d # c
    BY <2>2, ProcessAssumption DEF RunInv, TypeOK, Owned, CloseWriteEnd, Goto, children
  <2>3. QED
    BY <2>1, <2>2
<1>4. ASSUME NEW d \in Callers
      PROVE  Counted(d)'
  <2>1. CASE d = c
    BY <2>1, ProcessAssumption DEF RunInv, TypeOK, Counted, CloseWriteEnd, Goto, children
  <2>2. CASE d # c
    BY <2>2, ProcessAssumption DEF RunInv, TypeOK, Counted, CloseWriteEnd, Goto, children
  <2>3. QED
    BY <2>1, <2>2
<1>5. ASSUME NEW d \in Callers
      PROVE  Drained(d)'
  <2>1. CASE d = c
    BY <2>1, ProcessAssumption DEF RunInv, TypeOK, Drained, Owned, CloseWriteEnd, Goto, children
  <2>2. CASE d # c
    BY <2>2, ProcessAssumption DEF RunInv, TypeOK, Drained, Owned, CloseWriteEnd, Goto, children
  <2>3. QED
    BY <2>1, <2>2
<1>6. QED
  BY <1>1, <1>2, <1>3, <1>4, <1>5 DEF RunInv

LEMMA SpawnFailsKeeps ==
  ASSUME NEW c \in Callers, RunInv, SpawnFails(c)
  PROVE  RunInv'
<1>1. TypeOK'
  BY ProcessAssumption DEF RunInv, TypeOK, SpawnFails, children
<1>2. ASSUME NEW d \in Callers
      PROVE  Serialised(d)'
  <2>1. CASE d = c
    BY <2>1, ProcessAssumption DEF RunInv, TypeOK, Serialised, SpawnFails, children
  <2>2. CASE d # c
    BY <2>2, ProcessAssumption DEF RunInv, TypeOK, Serialised, SpawnFails, children
  <2>3. QED
    BY <2>1, <2>2
<1>3. ASSUME NEW d \in Callers
      PROVE  Owned(d)'
  <2>1. CASE d = c
    BY <2>1, ProcessAssumption DEF RunInv, TypeOK, Owned, SpawnFails, children
  <2>2. CASE d # c
    BY <2>2, ProcessAssumption DEF RunInv, TypeOK, Owned, SpawnFails, children
  <2>3. QED
    BY <2>1, <2>2
<1>4. ASSUME NEW d \in Callers
      PROVE  Counted(d)'
  <2>1. CASE d = c
    BY <2>1, ProcessAssumption DEF RunInv, TypeOK, Counted, SpawnFails, children
  <2>2. CASE d # c
    BY <2>2, ProcessAssumption DEF RunInv, TypeOK, Counted, SpawnFails, children
  <2>3. QED
    BY <2>1, <2>2
<1>5. ASSUME NEW d \in Callers
      PROVE  Drained(d)'
  <2>1. CASE d = c
    BY <2>1, ProcessAssumption DEF RunInv, TypeOK, Drained, Owned, SpawnFails, children
  <2>2. CASE d # c
    BY <2>2, ProcessAssumption DEF RunInv, TypeOK, Drained, Owned, SpawnFails, children
  <2>3. QED
    BY <2>1, <2>2
<1>6. QED
  BY <1>1, <1>2, <1>3, <1>4, <1>5 DEF RunInv

LEMMA ReadKeeps ==
  ASSUME NEW c \in Callers, RunInv, Read(c)
  PROVE  RunInv'
<1>1. TypeOK'
  BY ProcessAssumption DEF RunInv, TypeOK, Read, children
<1>2. ASSUME NEW d \in Callers
      PROVE  Serialised(d)'
  <2>1. CASE d = c
    BY <2>1, ProcessAssumption DEF RunInv, TypeOK, Serialised, Read, children
  <2>2. CASE d # c
    BY <2>2, ProcessAssumption DEF RunInv, TypeOK, Serialised, Read, children
  <2>3. QED
    BY <2>1, <2>2
<1>3. ASSUME NEW d \in Callers
      PROVE  Owned(d)'
  <2>1. CASE d = c
    BY <2>1, ProcessAssumption DEF RunInv, TypeOK, Owned, Read, children
  <2>2. CASE d # c
    BY <2>2, ProcessAssumption DEF RunInv, TypeOK, Owned, Read, children
  <2>3. QED
    BY <2>1, <2>2
<1>4. ASSUME NEW d \in Callers
      PROVE  Counted(d)'
  <2>1. CASE d = c
    <3>1. /\ pipe[c] \in Nat /\ pipe[c] > 0 /\ output[c] \in Nat /\ produced[c] \in Nat
          /\ Limit \in Nat /\ Counted(c)
      BY ProcessAssumption DEF RunInv, TypeOK, Read
    <3>2. /\ pipe'[c] = pipe[c] - 1 /\ produced'[c] = produced[c]
          /\ output[c] < Limit => output'[c] = output[c] + 1
          /\ ~(output[c] < Limit) => output'[c] = output[c]
      BY DEF RunInv, TypeOK, Read, children
    <3>3. QED
      BY <2>1, <3>1, <3>2 DEF Counted
  <2>2. CASE d # c
    BY <2>2, ProcessAssumption DEF RunInv, TypeOK, Counted, Read, children
  <2>3. QED
    BY <2>1, <2>2
<1>5. ASSUME NEW d \in Callers
      PROVE  Drained(d)'
  <2>1. CASE d = c
    BY <2>1, ProcessAssumption DEF RunInv, TypeOK, Drained, Owned, Read, children
  <2>2. CASE d # c
    BY <2>2, ProcessAssumption DEF RunInv, TypeOK, Drained, Owned, Read, children
  <2>3. QED
    BY <2>1, <2>2
<1>6. QED
  BY <1>1, <1>2, <1>3, <1>4, <1>5 DEF RunInv

LEMMA EndOfFileKeeps ==
  ASSUME NEW c \in Callers, RunInv, EndOfFile(c)
  PROVE  RunInv'
<1>1. TypeOK'
  BY ProcessAssumption DEF RunInv, TypeOK, EndOfFile, Goto, pipes, children
<1>2. ASSUME NEW d \in Callers
      PROVE  Serialised(d)'
  <2>1. CASE d = c
    BY <2>1, ProcessAssumption DEF RunInv, TypeOK, Serialised, EndOfFile, Goto, pipes, children
  <2>2. CASE d # c
    BY <2>2, ProcessAssumption DEF RunInv, TypeOK, Serialised, EndOfFile, Goto, pipes, children
  <2>3. QED
    BY <2>1, <2>2
<1>3. ASSUME NEW d \in Callers
      PROVE  Owned(d)'
  <2>1. CASE d = c
    BY <2>1, ProcessAssumption DEF RunInv, TypeOK, Owned, EndOfFile, Goto, pipes, children
  <2>2. CASE d # c
    BY <2>2, ProcessAssumption DEF RunInv, TypeOK, Owned, EndOfFile, Goto, pipes, children
  <2>3. QED
    BY <2>1, <2>2
<1>4. ASSUME NEW d \in Callers
      PROVE  Counted(d)'
  <2>1. CASE d = c
    BY <2>1, ProcessAssumption DEF RunInv, TypeOK, Counted, EndOfFile, Goto, pipes, children
  <2>2. CASE d # c
    BY <2>2, ProcessAssumption DEF RunInv, TypeOK, Counted, EndOfFile, Goto, pipes, children
  <2>3. QED
    BY <2>1, <2>2
<1>5. ASSUME NEW d \in Callers
      PROVE  Drained(d)'
  <2>1. CASE d = c
    BY <2>1, ProcessAssumption DEF RunInv, TypeOK, Drained, Owned, EndOfFile, Goto, pipes, children
  <2>2. CASE d # c
    BY <2>2, ProcessAssumption DEF RunInv, TypeOK, Drained, Owned, EndOfFile, Goto, pipes, children
  <2>3. QED
    BY <2>1, <2>2
<1>6. QED
  BY <1>1, <1>2, <1>3, <1>4, <1>5 DEF RunInv

LEMMA ReadFailsKeeps ==
  ASSUME NEW c \in Callers, RunInv, ReadFails(c)
  PROVE  RunInv'
<1>1. TypeOK'
  BY ProcessAssumption DEF RunInv, TypeOK, ReadFails, Goto, CloseAll
<1>2. ASSUME NEW d \in Callers
      PROVE  Serialised(d)'
  <2>1. CASE d = c
    BY <2>1, ProcessAssumption DEF RunInv, TypeOK, Serialised, ReadFails, Goto, CloseAll
  <2>2. CASE d # c
    BY <2>2, ProcessAssumption DEF RunInv, TypeOK, Serialised, ReadFails, Goto, CloseAll
  <2>3. QED
    BY <2>1, <2>2
<1>3. ASSUME NEW d \in Callers
      PROVE  Owned(d)'
  <2>1. CASE d = c
    BY <2>1, ProcessAssumption DEF RunInv, TypeOK, Owned, ReadFails, Goto, CloseAll
  <2>2. CASE d # c
    BY <2>2, ProcessAssumption DEF RunInv, TypeOK, Owned, ReadFails, Goto, CloseAll
  <2>3. QED
    BY <2>1, <2>2
<1>4. ASSUME NEW d \in Callers
      PROVE  Counted(d)'
  <2>1. CASE d = c
    BY <2>1, ProcessAssumption DEF RunInv, TypeOK, Counted, ReadFails, Goto, CloseAll
  <2>2. CASE d # c
    BY <2>2, ProcessAssumption DEF RunInv, TypeOK, Counted, ReadFails, Goto, CloseAll
  <2>3. QED
    BY <2>1, <2>2
<1>5. ASSUME NEW d \in Callers
      PROVE  Drained(d)'
  <2>1. CASE d = c
    BY <2>1, ProcessAssumption DEF RunInv, TypeOK, Drained, Owned, ReadFails, Goto, CloseAll
  <2>2. CASE d # c
    BY <2>2, ProcessAssumption DEF RunInv, TypeOK, Drained, Owned, ReadFails, Goto, CloseAll
  <2>3. QED
    BY <2>1, <2>2
<1>6. QED
  BY <1>1, <1>2, <1>3, <1>4, <1>5 DEF RunInv

LEMMA WaitKeeps ==
  ASSUME NEW c \in Callers, RunInv, Wait(c)
  PROVE  RunInv'
<1>1. TypeOK'
  BY ProcessAssumption DEF RunInv, TypeOK, Wait, Goto, pipes, children
<1>2. ASSUME NEW d \in Callers
      PROVE  Serialised(d)'
  <2>1. CASE d = c
    BY <2>1, ProcessAssumption DEF RunInv, TypeOK, Serialised, Wait, Goto, pipes, children
  <2>2. CASE d # c
    BY <2>2, ProcessAssumption DEF RunInv, TypeOK, Serialised, Wait, Goto, pipes, children
  <2>3. QED
    BY <2>1, <2>2
<1>3. ASSUME NEW d \in Callers
      PROVE  Owned(d)'
  <2>1. CASE d = c
    BY <2>1, ProcessAssumption DEF RunInv, TypeOK, Owned, Wait, Goto, pipes, children
  <2>2. CASE d # c
    BY <2>2, ProcessAssumption DEF RunInv, TypeOK, Owned, Wait, Goto, pipes, children
  <2>3. QED
    BY <2>1, <2>2
<1>4. ASSUME NEW d \in Callers
      PROVE  Counted(d)'
  <2>1. CASE d = c
    BY <2>1, ProcessAssumption DEF RunInv, TypeOK, Counted, Wait, Goto, pipes, children
  <2>2. CASE d # c
    BY <2>2, ProcessAssumption DEF RunInv, TypeOK, Counted, Wait, Goto, pipes, children
  <2>3. QED
    BY <2>1, <2>2
<1>5. ASSUME NEW d \in Callers
      PROVE  Drained(d)'
  <2>1. CASE d = c
    BY <2>1, ProcessAssumption DEF RunInv, TypeOK, Drained, Owned, Wait, Goto, pipes, children
  <2>2. CASE d # c
    BY <2>2, ProcessAssumption DEF RunInv, TypeOK, Drained, Owned, Wait, Goto, pipes, children
  <2>3. QED
    BY <2>1, <2>2
<1>6. QED
  BY <1>1, <1>2, <1>3, <1>4, <1>5 DEF RunInv

LEMMA WaitFailsKeeps ==
  ASSUME NEW c \in Callers, RunInv, WaitFails(c)
  PROVE  RunInv'
<1>1. TypeOK'
  BY ProcessAssumption DEF RunInv, TypeOK, WaitFails, Goto, pipes, children
<1>2. ASSUME NEW d \in Callers
      PROVE  Serialised(d)'
  <2>1. CASE d = c
    BY <2>1, ProcessAssumption DEF RunInv, TypeOK, Serialised, WaitFails, Goto, pipes, children
  <2>2. CASE d # c
    BY <2>2, ProcessAssumption DEF RunInv, TypeOK, Serialised, WaitFails, Goto, pipes, children
  <2>3. QED
    BY <2>1, <2>2
<1>3. ASSUME NEW d \in Callers
      PROVE  Owned(d)'
  <2>1. CASE d = c
    BY <2>1, ProcessAssumption DEF RunInv, TypeOK, Owned, WaitFails, Goto, pipes, children
  <2>2. CASE d # c
    BY <2>2, ProcessAssumption DEF RunInv, TypeOK, Owned, WaitFails, Goto, pipes, children
  <2>3. QED
    BY <2>1, <2>2
<1>4. ASSUME NEW d \in Callers
      PROVE  Counted(d)'
  <2>1. CASE d = c
    BY <2>1, ProcessAssumption DEF RunInv, TypeOK, Counted, WaitFails, Goto, pipes, children
  <2>2. CASE d # c
    BY <2>2, ProcessAssumption DEF RunInv, TypeOK, Counted, WaitFails, Goto, pipes, children
  <2>3. QED
    BY <2>1, <2>2
<1>5. ASSUME NEW d \in Callers
      PROVE  Drained(d)'
  <2>1. CASE d = c
    BY <2>1, ProcessAssumption DEF RunInv, TypeOK, Drained, Owned, WaitFails, Goto, pipes, children
  <2>2. CASE d # c
    BY <2>2, ProcessAssumption DEF RunInv, TypeOK, Drained, Owned, WaitFails, Goto, pipes, children
  <2>3. QED
    BY <2>1, <2>2
<1>6. QED
  BY <1>1, <1>2, <1>3, <1>4, <1>5 DEF RunInv

LEMMA ProduceKeeps ==
  ASSUME NEW c \in Callers, RunInv, Produce(c)
  PROVE  RunInv'
<1>1. TypeOK'
  BY ProcessAssumption DEF RunInv, TypeOK, Produce
<1>2. ASSUME NEW d \in Callers
      PROVE  Serialised(d)'
  <2>1. CASE d = c
    BY <2>1, ProcessAssumption DEF RunInv, TypeOK, Serialised, Produce
  <2>2. CASE d # c
    BY <2>2, ProcessAssumption DEF RunInv, TypeOK, Serialised, Produce
  <2>3. QED
    BY <2>1, <2>2
<1>3. ASSUME NEW d \in Callers
      PROVE  Owned(d)'
  <2>1. CASE d = c
    BY <2>1, ProcessAssumption DEF RunInv, TypeOK, Owned, Produce
  <2>2. CASE d # c
    BY <2>2, ProcessAssumption DEF RunInv, TypeOK, Owned, Produce
  <2>3. QED
    BY <2>1, <2>2
<1>4. ASSUME NEW d \in Callers
      PROVE  Counted(d)'
  <2>1. CASE d = c
    BY <2>1, ProcessAssumption DEF RunInv, TypeOK, Counted, Produce
  <2>2. CASE d # c
    BY <2>2, ProcessAssumption DEF RunInv, TypeOK, Counted, Produce
  <2>3. QED
    BY <2>1, <2>2
<1>5. ASSUME NEW d \in Callers
      PROVE  Drained(d)'
  <2>1. CASE d = c
    BY <2>1, ProcessAssumption DEF RunInv, TypeOK, Drained, Owned, Produce
  <2>2. CASE d # c
    BY <2>2, ProcessAssumption DEF RunInv, TypeOK, Drained, Owned, Produce
  <2>3. QED
    BY <2>1, <2>2
<1>6. QED
  BY <1>1, <1>2, <1>3, <1>4, <1>5 DEF RunInv

LEMMA ExitKeeps ==
  ASSUME NEW c \in Callers, RunInv, Exit(c)
  PROVE  RunInv'
<1>1. TypeOK'
  BY ProcessAssumption DEF RunInv, TypeOK, Exit, CloseAll
<1>2. ASSUME NEW d \in Callers
      PROVE  Serialised(d)'
  <2>1. CASE d = c
    BY <2>1, ProcessAssumption DEF RunInv, TypeOK, Serialised, Exit, CloseAll
  <2>2. CASE d # c
    BY <2>2, ProcessAssumption DEF RunInv, TypeOK, Serialised, Exit, CloseAll
  <2>3. QED
    BY <2>1, <2>2
<1>3. ASSUME NEW d \in Callers
      PROVE  Owned(d)'
  <2>1. CASE d = c
    BY <2>1, ProcessAssumption DEF RunInv, TypeOK, Owned, Exit, CloseAll
  <2>2. CASE d # c
    BY <2>2, ProcessAssumption DEF RunInv, TypeOK, Owned, Exit, CloseAll
  <2>3. QED
    BY <2>1, <2>2
<1>4. ASSUME NEW d \in Callers
      PROVE  Counted(d)'
  <2>1. CASE d = c
    BY <2>1, ProcessAssumption DEF RunInv, TypeOK, Counted, Exit, CloseAll
  <2>2. CASE d # c
    BY <2>2, ProcessAssumption DEF RunInv, TypeOK, Counted, Exit, CloseAll
  <2>3. QED
    BY <2>1, <2>2
<1>5. ASSUME NEW d \in Callers
      PROVE  Drained(d)'
  <2>1. CASE d = c
    BY <2>1, ProcessAssumption DEF RunInv, TypeOK, Drained, Owned, Exit, CloseAll
  <2>2. CASE d # c
    BY <2>2, ProcessAssumption DEF RunInv, TypeOK, Drained, Owned, Exit, CloseAll
  <2>3. QED
    BY <2>1, <2>2
<1>6. QED
  BY <1>1, <1>2, <1>3, <1>4, <1>5 DEF RunInv

LEMMA InitHolds == Init => RunInv
<1> SUFFICES ASSUME Init
             PROVE  RunInv
  OBVIOUS
<1>1. TypeOK
  BY ProcessAssumption DEF Init, TypeOK
<1>2. ASSUME NEW c \in Callers
      PROVE  Serialised(c) /\ Owned(c) /\ Counted(c) /\ Drained(c)
  BY ProcessAssumption DEF Init, Serialised, Owned, Counted, Drained
<1>3. QED
  BY <1>1, <1>2 DEF RunInv

\* The invariant holds of run_process on both platforms, whatever the companions and
\* the system calls do.
THEOREM RunCorrect == Spec => []RunInv
<1>1. RunInv /\ [Next]_vars => RunInv'
  <2> SUFFICES ASSUME RunInv, [Next]_vars
               PROVE  RunInv'
    OBVIOUS
  <2>1. ASSUME NEW c \in Callers,
               Progress(c) \/ SpawnFails(c) \/ ReadFails(c) \/ WaitFails(c) \/ Produce(c) \/ Exit(c)
        PROVE  RunInv'
    BY <2>1, LockKeeps, MakePipeKeeps, MarkPrivateKeeps, SpawnKeeps, CloseWriteEndKeeps, ReadKeeps,
       EndOfFileKeeps, WaitKeeps, SpawnFailsKeeps, ReadFailsKeeps, WaitFailsKeeps, ProduceKeeps, ExitKeeps
       DEF Progress
  <2>2. CASE UNCHANGED vars
    BY <2>2 DEF vars, pipes, children, RunInv, TypeOK, Serialised, Owned, Counted, Drained
  <2>3. QED
    BY <2>1, <2>2 DEF Next, Finished
<1>2. QED
  BY <1>1, InitHolds, PTL DEF Spec

\* No write end of a pipe is ever with another worker's companion, and a companion
\* that has exited holds none (run_process; the comment at spawn_mutex).
THEOREM PipesStayPrivate == Spec => []PipesPrivate
<1>1. RunInv => PipesPrivate
  BY DEF RunInv, Owned, PipesPrivate
<1>2. QED
  BY <1>1, RunCorrect, PTL

\* A run_process that returns has reaped its companion and kept all that it wrote,
\* up to output_limit.
THEOREM OutputIsComplete == Spec => []OutputComplete
<1>1. ASSUME RunInv, NEW c \in Callers, result[c] = "returned"
      PROVE  child[c] = "exited" /\ output[c] = IF produced[c] < Limit THEN produced[c] ELSE Limit
  <2>1. child[c] = "exited" /\ pipe[c] = 0 /\ Counted(c)
    BY <1>1 DEF RunInv, Drained
  <2>2. produced[c] \in Nat /\ Limit \in Nat
    BY <1>1, ProcessAssumption DEF RunInv, TypeOK
  <2>3. QED
    BY <2>1, <2>2 DEF Counted
<1>2. RunInv => OutputComplete
  BY <1>1 DEF OutputComplete
<1>3. QED
  BY <1>2, RunCorrect, PTL
=============================================================================
