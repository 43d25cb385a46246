----------------------------- MODULE HttpClient -----------------------------
(***************************************************************************)
(* The HTTPS entry points of both platforms (src/src/posix.cpp,              *)
(* src/src/win32.cpp) with retry_transient (src/src/platform.hpp), for one   *)
(* thread and one request at a time.  AzureSign and Login build on it.       *)
(*                                                                           *)
(* An entry point is a sequence of steps.  A step that fails throws          *)
(* TransientNetworkError or another exception, after it has released what the *)
(* code releases on that path.  Builds with an old mbedTLS hold one mutex for *)
(* the life of a connection; other threads of a batch compete for it.        *)
(***************************************************************************)
EXTENDS Naturals, Sequences

CONSTANTS
  MaxAttempts,   \* max_attempts of retry_transient: 3
  MaxOthers      \* bound: connections that other threads open meanwhile

ASSUME AttemptsAssumption == MaxAttempts \in Nat \ {0} /\ MaxOthers \in Nat

VARIABLES
  platform,        \* "posix", "serialized" (posix, old mbedTLS) or "windows"
  mbedtls_mutex,   \* its holder: "free", "me" or "other"
  others,          \* connections other threads may still open
  entry,           \* the entry point called
  at,              \* the next step of the attempt, 0 when no request is made
  attempt,         \* attempts so far
  handles,         \* what this attempt holds
  raw              \* what has been received: "none", "headless" (no status line),
                   \* "cut" (the body is incomplete) or "whole"

http == <<platform, mbedtls_mutex, others, entry, at, attempt, handles, raw>>

Platforms == {"posix", "serialized", "windows"}

\* error: what a failure throws; opens: what success acquires; closes: what the
\* failure path releases.
Step(name, error, opens, closes) ==
  [name |-> name, error |-> error, opens |-> opens, closes |-> closes]

-----------------------------------------------------------------------------
\* POSIX.

\* Declared first, so it is held until everything else has been freed.
mbedtls_lock == <<Step("lock", "never", {"lock"}, {})>>

\* What free_contexts and the destructor of the lock release.
free_contexts == {"contexts", "fd", "lock"}

\* The constructor: random numbers, TCP, CA bundle and configuration, handshake.
TlsConnection ==
  (IF platform = "serialized" THEN mbedtls_lock ELSE <<>>) \o
  << Step("seed", "permanent", {"contexts"}, free_contexts),
     Step("connect", "transient", {"fd"}, free_contexts),
     Step("configure", "permanent", {}, free_contexts),
     Step("handshake", "transient", {}, free_contexts) >>

write_all == <<Step("write", "transient", {}, free_contexts)>>

read_all == <<Step("read", "transient", {}, free_contexts)>>

\* Content-Length and the last chunk are not looked at, so that an incomplete
\* body passes; only a missing or unreadable status line is an error.
parse_http_response == <<Step("parse", "permanent", {}, free_contexts)>>

do_request == TlsConnection \o write_all \o read_all \o parse_http_response

parse_https_url == <<Step("url", "permanent", {}, {})>>

\* https_get_url takes the same steps.
https_post_url == parse_https_url \o TlsConnection \o write_all \o read_all \o parse_http_response

-----------------------------------------------------------------------------
\* Windows.

\* Mutant: the path of a failed WinHttpOpenRequest forgets the connection.
winhttp_request_Leaks ==
  << Step("WinHttpOpen", "permanent", {"session"}, {}),
     Step("WinHttpConnect", "transient", {"conn"}, {"session"}),
     Step("WinHttpOpenRequest", "permanent", {"req"}, {"session"}),
     Step("write", "transient", {}, {"req", "conn", "session"}),
     Step("head", "transient", {}, {"req", "conn", "session"}),
     Step("read", "never", {}, {}) >>

\* The loop that reads the body ends at an error as it does at the end.
winhttp_request ==
  << Step("WinHttpOpen", "permanent", {"session"}, {}),
     Step("WinHttpConnect", "transient", {"conn"}, {"session"}),
     Step("WinHttpOpenRequest", "permanent", {"req"}, {"conn", "session"}),
     Step("write", "transient", {}, {"req", "conn", "session"}),
     Step("head", "transient", {}, {"req", "conn", "session"}),
     Step("read", "never", {}, {}) >>

WinHttpCrackUrl == <<Step("url", "permanent", {}, {})>>

winhttp_url_request == WinHttpCrackUrl \o winhttp_request

CloseHandles == {"req", "conn", "session"}

-----------------------------------------------------------------------------
Plan(e) ==
  IF platform = "windows"
    THEN IF e = "https_post_url" THEN winhttp_url_request ELSE winhttp_request
    ELSE IF e = "https_post_url" THEN https_post_url ELSE do_request

\* The step under way, and all of them.
Now == Plan(entry)[at]

Running == at \in 1 .. Len(Plan(entry))

\* The request, or part of it, may have reached the server.
OnWire == at > 0 /\ \E n \in 1 .. Len(Plan(entry)) : n <= at /\ Plan(entry)[n].name = "write"

HttpInit ==
  /\ platform \in Platforms
  /\ mbedtls_mutex = "free"
  /\ others \in 0 .. MaxOthers
  /\ entry = "none"
  /\ at = 0
  /\ attempt = 0
  /\ handles = {}
  /\ raw = "none"

\* A call of an entry point.
HttpCall(e) ==
  /\ entry' = e
  /\ at' = 1
  /\ attempt' = 1
  /\ raw' = "none"
  /\ UNCHANGED <<platform, mbedtls_mutex, others, handles>>

\* What the peer and the network can make of an answer; headless is an error of
\* WinHttpReceiveResponse, so it never gets as far as "read" on Windows.
Arrivals == IF platform = "windows" THEN {"cut", "whole"} ELSE {"headless", "cut", "whole"}

\* A step succeeds.
HttpStep ==
  /\ Running
  /\ Now.name = "lock" => mbedtls_mutex = "free"
  /\ Now.name = "parse" => raw # "headless"
  /\ handles' = handles \cup Now.opens
  /\ mbedtls_mutex' = IF "lock" \in Now.opens THEN "me" ELSE mbedtls_mutex
  /\ IF Now.name = "read" THEN raw' \in Arrivals ELSE UNCHANGED raw
  /\ at' = at + 1
  /\ UNCHANGED <<platform, others, entry, attempt>>

Release(released) ==
  /\ handles' = handles \ released
  /\ mbedtls_mutex' = IF "lock" \in released \cap handles THEN "free" ELSE mbedtls_mutex

GiveUp == attempt >= MaxAttempts

\* A step fails.  retry_transient starts again after a pause ...
HttpRetry ==
  /\ Running
  /\ Now.error = "transient"
  /\ ~GiveUp
  /\ Release(Now.closes)
  /\ at' = 1
  /\ attempt' = attempt + 1
  /\ raw' = "none"
  /\ UNCHANGED <<platform, others, entry>>

\* ... or the exception leaves the entry point.
HttpThrow ==
  /\ Running
  /\ \/ Now.error = "transient" /\ GiveUp
     \/ Now.error = "permanent"
  /\ Release(Now.closes)
  /\ at' = 0
  /\ UNCHANGED <<platform, others, entry, attempt, raw>>

\* The entry point returns; the connection goes out of scope or is closed.
HttpReturn ==
  /\ at = Len(Plan(entry)) + 1
  /\ entry # "none"
  /\ Release(IF platform = "windows" THEN CloseHandles ELSE free_contexts)
  /\ at' = 0
  /\ UNCHANGED <<platform, others, entry, attempt, raw>>

\* Another thread's connection.
OtherLocks ==
  /\ platform = "serialized" /\ mbedtls_mutex = "free" /\ others > 0
  /\ mbedtls_mutex' = "other"
  /\ others' = others - 1
  /\ UNCHANGED <<platform, entry, at, attempt, handles, raw>>

OtherUnlocks ==
  /\ mbedtls_mutex = "other"
  /\ mbedtls_mutex' = "free"
  /\ UNCHANGED <<platform, others, entry, at, attempt, handles, raw>>

-----------------------------------------------------------------------------
\* What the steps before the next one have acquired.
Acquired == UNION {Plan(entry)[n].opens : n \in 1 .. at - 1}

\* An attempt holds what its steps acquired and nothing else, so every way out of
\* it releases everything (posix.cpp, win32.cpp); in particular nobody sleeps
\* before a retry, or polls, with the mutex in hand, and mbedTLS is never used
\* without it.
ConnectionInv ==
  /\ handles = IF at = 0 THEN {} ELSE Acquired
  /\ (mbedtls_mutex = "me") = ("lock" \in handles)
  /\ platform = "serialized" /\ handles # {} => mbedtls_mutex = "me"
  /\ attempt \in 0 .. MaxAttempts
=============================================================================
