------------------------------ MODULE AzureSign ------------------------------
(***************************************************************************)
(* azure_sign (src/src/azure.cpp) over HttpClient: submit a digest, poll the  *)
(* operation until it is decided or the limit has passed.  SignFile has the  *)
(* whole call as the step SignDigest.  The service is external: it may accept *)
(* a request whose answer is lost, accept it late, and decide an operation at *)
(* any moment.                                                               *)
(***************************************************************************)
EXTENDS HttpClient

CONSTANTS
  Limit,                             \* the limit on polling: 60 s
  FirstDelay, DelayStep, MaxDelay,   \* 50 ms, 10 ms, 1000 ms
  Backoff,                           \* 2 s
  MaxLatency                         \* bound: the longest time an attempt takes,
                                     \* waiting for the mutex included

ASSUME TimesAssumption ==
  /\ Limit \in Nat /\ Backoff \in Nat /\ MaxLatency \in Nat /\ DelayStep \in Nat
  /\ FirstDelay \in Nat \ {0} /\ MaxDelay \in Nat \ {0}

\* min(1000, 50 + 10 * n)
Delay(n) == IF FirstDelay + DelayStep * n < MaxDelay THEN FirstDelay + DelayStep * n ELSE MaxDelay

Decided == {"Succeeded", "Failed"}

VARIABLES
  ops,           \* the service: the status of every operation it accepted
  posts,         \* submissions that may have reached the service
  mine,          \* the operation that the current submission made, or 0
  elapsed,       \* time since polling began
  i,             \* polls so far
  operation_id,  \* the operation polled, 0 before there is one
  status,        \* its status in the last answer
  pc,            \* "start", "post", "loop", "poll", or the end: "returned", "threw"
  why            \* what was thrown

service == <<ops, mine>>
vars == <<http, service, posts, elapsed, i, operation_id, status, pc, why>>

Init ==
  /\ HttpInit
  /\ ops = <<>>
  /\ posts = 0
  /\ mine = 0
  /\ elapsed = 0
  /\ i = 0
  /\ operation_id = 0
  /\ status = "none"
  /\ pc = "start"
  /\ why = "none"

Ends == {"returned", "threw"}

Throw(reason) == pc' = "threw" /\ why' = reason

\* The time of an attempt and of the pause after it; only polling is timed.
Elapses(pause) ==
  \E d \in 0 .. MaxLatency : elapsed' = IF pc = "post" THEN elapsed ELSE elapsed + d + pause

-----------------------------------------------------------------------------
\* The service.

Accept ==
  /\ pc = "post" /\ OnWire /\ raw = "none"
  /\ mine = 0
  /\ ops' = Append(ops, "InProgress")
  /\ mine' = Len(ops) + 1
  /\ UNCHANGED <<http, posts, elapsed, i, operation_id, status, pc, why>>

\* A submission arrives whose client has given it up already.
AcceptLate ==
  /\ Len(ops) + (IF pc = "post" /\ OnWire /\ mine = 0 THEN 1 ELSE 0) < posts
  /\ ops' = Append(ops, "InProgress")
  /\ UNCHANGED <<http, mine, posts, elapsed, i, operation_id, status, pc, why>>

Decide ==
  /\ \E n \in DOMAIN ops, s \in Decided :
       ops[n] = "InProgress" /\ ops' = [ops EXCEPT ![n] = s]
  /\ UNCHANGED <<http, mine, posts, elapsed, i, operation_id, status, pc, why>>

-----------------------------------------------------------------------------
\* The client.

Submit ==
  /\ pc = "start"
  /\ HttpCall("https_post")
  /\ pc' = "post"
  /\ UNCHANGED <<service, posts, elapsed, i, operation_id, status, why>>

Calling == pc \in {"post", "poll"}

Progress ==
  /\ Calling /\ HttpStep
  /\ posts' = IF pc = "post" /\ ~OnWire /\ OnWire' THEN posts + 1 ELSE posts
  /\ UNCHANGED <<service, elapsed, i, operation_id, status, pc, why>>

Retry ==
  /\ Calling /\ HttpRetry
  /\ Elapses(Backoff * attempt)
  /\ mine' = IF pc = "post" THEN 0 ELSE mine
  /\ UNCHANGED <<ops, posts, i, operation_id, status, pc, why>>

NetworkError ==
  /\ Calling /\ HttpThrow
  /\ Elapses(0)
  /\ Throw("network")
  /\ UNCHANGED <<service, posts, i, operation_id, status>>

\* An HTTP status other than 200 (for a submission, 202), or a body that does not
\* parse: no prefix of a JSON object does.
Refused ==
  /\ Calling /\ HttpReturn
  /\ Elapses(0)
  /\ Throw("refused")
  /\ UNCHANGED <<service, posts, i, operation_id, status>>

\* The answer to a submission.
Submitted ==
  /\ pc = "post" /\ HttpReturn /\ raw = "whole"
  /\ mine # 0
  /\ operation_id' = mine
  /\ status' = ops[mine]
  /\ elapsed' = 0
  /\ pc' = "loop"
  /\ UNCHANGED <<service, posts, i, why>>

Expired == elapsed > Limit

\* Mutant: polling goes on after the limit.
Poll_Longer ==
  /\ pc = "loop"
  /\ status = "InProgress"
  /\ i < 2 * Limit
  /\ elapsed' = elapsed + Delay(i)
  /\ i' = i + 1
  /\ HttpCall("https_get")
  /\ pc' = "poll"
  /\ UNCHANGED <<service, posts, operation_id, status, why>>

\* In progress and within the limit: sleep, then ask.
Poll ==
  /\ pc = "loop"
  /\ status = "InProgress"
  /\ ~Expired
  /\ elapsed' = elapsed + Delay(i)
  /\ i' = i + 1
  /\ HttpCall("https_get")
  /\ pc' = "poll"
  /\ UNCHANGED <<service, posts, operation_id, status, why>>

Polled ==
  /\ pc = "poll" /\ HttpReturn /\ raw = "whole"
  /\ Elapses(0)
  /\ status' = ops[operation_id]
  /\ pc' = "loop"
  /\ UNCHANGED <<service, posts, i, operation_id, why>>

\* Mutant: the limit starts anew.
TimedOut_Restarts ==
  /\ pc = "loop"
  /\ status = "InProgress"
  /\ Expired
  /\ elapsed' = 0
  /\ i' = 0
  /\ UNCHANGED <<http, service, posts, operation_id, status, pc, why>>

TimedOut ==
  /\ pc = "loop"
  /\ status = "InProgress"
  /\ Expired
  /\ Throw("timed out")
  /\ UNCHANGED <<http, service, posts, elapsed, i, operation_id, status>>

\* Mutant: any end of the operation will do.
Finish_Any ==
  /\ pc = "loop"
  /\ status # "InProgress"
  /\ pc' = "returned"
  /\ UNCHANGED <<http, service, posts, elapsed, i, operation_id, status, why>>

\* A success with a signature and a certificate that decode is the result.
Finish ==
  /\ pc = "loop"
  /\ status # "InProgress"
  /\ \/ status = "Succeeded" /\ pc' = "returned" /\ UNCHANGED why
     \/ status = "Succeeded" /\ Throw("undecodable")
     \/ status # "Succeeded" /\ Throw("failed")
  /\ UNCHANGED <<http, service, posts, elapsed, i, operation_id, status>>

Client ==
  Submit \/ Progress \/ Retry \/ NetworkError \/ Refused \/ Submitted \/ Poll \/ Polled
    \/ TimedOut \/ Finish

Others ==
  /\ OtherLocks \/ OtherUnlocks
  /\ UNCHANGED <<service, posts, elapsed, i, operation_id, status, pc, why>>

OthersEnd == Others /\ OtherUnlocks

Over == pc \in Ends /\ UNCHANGED vars

Next == Accept \/ AcceptLate \/ Decide \/ Client \/ Others \/ Over

\* The thread is scheduled, attempts end, with an answer or without, and so do the
\* connections of other threads.
Spec == Init /\ [][Next]_vars /\ WF_vars(Client) /\ WF_vars(OthersEnd)

-----------------------------------------------------------------------------
\* Properties.

\* Types; no digest is submitted more than max_attempts times, and an operation is
\* made by a submission.
TypeOK ==
  /\ platform \in Platforms /\ mbedtls_mutex \in {"free", "me", "other"} /\ others \in 0 .. MaxOthers
  /\ entry \in {"none", "https_post", "https_get", "https_post_url"}
  /\ at \in Nat
  /\ raw \in {"none", "headless", "cut", "whole"}
  /\ ops \in Seq({"InProgress"} \cup Decided)
  /\ posts \in 0 .. MaxAttempts
  /\ Len(ops) <= posts
  /\ mine \in 0 .. Len(ops)
  /\ elapsed \in Nat
  /\ i \in Nat
  /\ operation_id \in 0 .. Len(ops)
  /\ status \in {"none", "InProgress"} \cup Decided
  /\ pc \in {"start", "post", "loop", "poll"} \cup Ends
  /\ why \in {"none", "network", "refused", "timed out", "undecodable", "failed"}

\* A retried submission leaves operations behind that nobody asks about; the
\* result is that of the operation whose answer arrived, and it succeeded.
OwnResult ==
  pc = "returned" => operation_id = mine /\ operation_id # 0 /\ ops[operation_id] = "Succeeded"

\* 1 + 2 + ... + (MaxAttempts - 1)
Pauses == (MaxAttempts * (MaxAttempts - 1)) \div 2

\* The limit is looked at before the sleep and the request, which may be tried
\* several times: this is how late the call may end, given MaxLatency.  Nor is a
\* digest submitted more than max_attempts times.
WaitBounded ==
  /\ TypeOK
  /\ elapsed <= Limit + MaxDelay + MaxAttempts * MaxLatency + Backoff * Pauses

\* The call ends, also when the service never decides.
CallEnds == <>(pc \in Ends)
=============================================================================
