---------------------------- MODULE MCWorkerPool ----------------------------
(* Instances of WorkerPool for TLC. *)
EXTENDS WorkerPool
CONSTANTS a, b

\* The last argument names the first one's file again.
Repeated == [i \in Jobs |-> IF i = 1 THEN b ELSE a]
=============================================================================
