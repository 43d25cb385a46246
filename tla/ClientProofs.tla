----------------------------- MODULE ClientProofs -----------------------------
(***************************************************************************)
(* The two users of the HTTPS entry points of HttpClient.  azure_sign, for *)
(* every number of attempts, every timing and any number of other threads: *)
(* what a connection holds, whose result is returned, and how long polling *)
(* takes.  The login, for any number of connections to its port and any    *)
(* number of attempts: what it may do with a code, a page and a cache.     *)
(***************************************************************************)
EXTENDS AzureSign, Login, TLAPS

Entries == {"none", "https_post", "https_get", "https_post_url"}

\* What the destructors and the last lines of an entry point release.
Everything == IF platform = "windows" THEN CloseHandles ELSE free_contexts

-----------------------------------------------------------------------------
\* The entry points, step by step.

\* The steps of do_request on a platform without and with the mutex.
LEMMA ConcatSeven ==
  ASSUME NEW a, NEW b, NEW c, NEW d, NEW e, NEW f, NEW g
  PROVE  LET s == (<<>> \o <<a, b, c, d>>) \o <<e>> \o <<f>> \o <<g>> IN
         /\ Len(s) = 7
         /\ s[1] = a /\ s[2] = b /\ s[3] = c /\ s[4] = d /\ s[5] = e /\ s[6] = f /\ s[7] = g
<1> DEFINE t == (<<>> \o <<a, b, c, d>>) \o <<e>> \o <<f>> \o <<g>>
<1>1. Len(t) = 7  OBVIOUS
<1>2. t[1] = a /\ t[2] = b  OBVIOUS
<1>3. t[3] = c /\ t[4] = d  OBVIOUS
<1>4. t[5] = e  OBVIOUS
<1>5. t[6] = f  OBVIOUS
<1>6. t[7] = g  OBVIOUS
<1> QED BY <1>1, <1>2, <1>3, <1>4, <1>5, <1>6

LEMMA ConcatEight ==
  ASSUME NEW l, NEW a, NEW b, NEW c, NEW d, NEW e, NEW f, NEW g
  PROVE  LET s == (<<l>> \o <<a, b, c, d>>) \o <<e>> \o <<f>> \o <<g>> IN
         /\ Len(s) = 8 /\ s[1] = l
         /\ s[2] = a /\ s[3] = b /\ s[4] = c /\ s[5] = d /\ s[6] = e /\ s[7] = f /\ s[8] = g
<1> DEFINE t == (<<l>> \o <<a, b, c, d>>) \o <<e>> \o <<f>> \o <<g>>
<1>1. Len(t) = 8  OBVIOUS
<1>2. t[1] = l /\ t[2] = a  OBVIOUS
<1>3. t[3] = b /\ t[4] = c  OBVIOUS
<1>4. t[5] = d  OBVIOUS
<1>5. t[6] = e  OBVIOUS
<1>6. t[7] = f  OBVIOUS
<1>7. t[8] = g  OBVIOUS
<1> QED BY <1>1, <1>2, <1>3, <1>4, <1>5, <1>6, <1>7

\* The steps of https_post_url, likewise.
LEMMA ConcatUrlEight ==
  ASSUME NEW u, NEW a, NEW b, NEW c, NEW d, NEW e, NEW f, NEW g
  PROVE  LET s == (<<u>> \o (<<>> \o <<a, b, c, d>>)) \o <<e>> \o <<f>> \o <<g>> IN
         /\ Len(s) = 8 /\ s[1] = u
         /\ s[2] = a /\ s[3] = b /\ s[4] = c /\ s[5] = d /\ s[6] = e /\ s[7] = f /\ s[8] = g
<1>1. <<>> \o <<a, b, c, d>> = <<a, b, c, d>>  OBVIOUS
<1> QED BY <1>1, ConcatEight

LEMMA ConcatUrlNine ==
  ASSUME NEW u, NEW l, NEW a, NEW b, NEW c, NEW d, NEW e, NEW f, NEW g
  PROVE  LET s == (<<u>> \o (<<l>> \o <<a, b, c, d>>)) \o <<e>> \o <<f>> \o <<g>> IN
         /\ Len(s) = 9 /\ s[1] = u /\ s[2] = l
         /\ s[3] = a /\ s[4] = b /\ s[5] = c /\ s[6] = d /\ s[7] = e /\ s[8] = f /\ s[9] = g
<1> DEFINE t == (<<u>> \o (<<l>> \o <<a, b, c, d>>)) \o <<e>> \o <<f>> \o <<g>>
<1>1. Len(t) = 9  OBVIOUS
<1>2. t[1] = u /\ t[2] = l  OBVIOUS
<1>3. t[3] = a /\ t[4] = b  OBVIOUS
<1>4. t[5] = c /\ t[6] = d  OBVIOUS
<1>5. t[7] = e  OBVIOUS
<1>6. t[8] = f  OBVIOUS
<1>7. t[9] = g  OBVIOUS
<1> QED BY <1>1, <1>2, <1>3, <1>4, <1>5, <1>6, <1>7

\* A sequence of steps whose failures release what the steps before acquired.
Tidy(p, all) ==
  /\ Len(p) \in Nat \ {0}
  /\ p[1].name # "write"
  /\ \A n \in 1 .. Len(p) : p[n].opens \subseteq all
  /\ \A n \in 1 .. Len(p) : p[n].error # "never" =>
       \A m \in 1 .. n - 1 : p[m].opens \subseteq p[n].closes

\* Nothing is acquired before the mutex.
Guarded(p) ==
  \A n \in 1 .. Len(p) : p[n].opens # {} => \E m \in 1 .. n : "lock" \in p[m].opens

\* Every failure in mbedTLS unwinds through free_contexts.
LEMMA PosixTidy ==
  ASSUME platform # "windows"
  PROVE  /\ Tidy(do_request, free_contexts)
         /\ platform = "serialized" => Guarded(do_request)
<1> DEFINE p == do_request
<1> DEFINE Unwinds(x) ==
      x.opens \subseteq free_contexts /\ (x.error # "never" => x.closes = free_contexts)
<1> DEFINE seed == Step("seed", "permanent", {"contexts"}, free_contexts)
<1> DEFINE connect == Step("connect", "transient", {"fd"}, free_contexts)
<1> DEFINE configure == Step("configure", "permanent", {}, free_contexts)
<1> DEFINE handshake == Step("handshake", "transient", {}, free_contexts)
<1> DEFINE write == Step("write", "transient", {}, free_contexts)
<1> DEFINE read == Step("read", "transient", {}, free_contexts)
<1> DEFINE parse == Step("parse", "permanent", {}, free_contexts)
<1> DEFINE lock == Step("lock", "never", {"lock"}, {})
<1>1. /\ Unwinds(seed) /\ Unwinds(connect) /\ Unwinds(configure) /\ Unwinds(handshake)
      /\ Unwinds(write) /\ Unwinds(read) /\ Unwinds(parse) /\ Unwinds(lock)
  BY DEF Step, free_contexts
<1>2. seed.name # "write" /\ lock.name # "write" /\ "lock" \in lock.opens
  BY DEF Step
<1>3. CASE platform # "serialized"
  <2>1. /\ Len(p) = 7
        /\ p[1] = seed /\ p[2] = connect /\ p[3] = configure /\ p[4] = handshake
        /\ p[5] = write /\ p[6] = read /\ p[7] = parse
    BY <1>3, ConcatSeven DEF do_request, TlsConnection, write_all, read_all, parse_http_response
  <2> HIDE DEF p, Unwinds, seed, connect, configure, handshake, write, read, parse, lock
  <2>2. \A n \in 1 .. Len(p) : Unwinds(p[n])
    BY <1>1, <2>1
  <2> QED BY <1>2, <1>3, <2>1, <2>2 DEF Tidy, Unwinds, p
<1>4. CASE platform = "serialized"
  <2>1. /\ Len(p) = 8 /\ p[1] = lock
        /\ p[2] = seed /\ p[3] = connect /\ p[4] = configure /\ p[5] = handshake
        /\ p[6] = write /\ p[7] = read /\ p[8] = parse
    BY <1>4, ConcatEight
    DEF do_request, TlsConnection, mbedtls_lock, write_all, read_all, parse_http_response
  <2> HIDE DEF p, Unwinds, seed, connect, configure, handshake, write, read, parse, lock
  <2>2. \A n \in 1 .. Len(p) : Unwinds(p[n])
    BY <1>1, <2>1
  <2>3. \A n \in 1 .. Len(p) : 1 \in 1 .. n /\ "lock" \in p[1].opens
    BY <1>2, <2>1
  <2> QED BY <1>2, <1>4, <2>1, <2>2, <2>3 DEF Tidy, Guarded, Unwinds, p
<1> QED BY <1>3, <1>4

\* A step that opens nothing may come first.
LEMMA PrefixTidy ==
  ASSUME NEW p, NEW q, NEW all, Tidy(p, all),
         Len(q) = Len(p) + 1, \A n \in 1 .. Len(p) : q[n + 1] = p[n],
         q[1].opens = {}, q[1].name # "write"
  PROVE  Tidy(q, all) /\ (Guarded(p) => Guarded(q))
<1>1. Len(p) \in Nat \ {0}
  BY DEF Tidy
<1>2. \A n \in 2 .. Len(q) : n - 1 \in 1 .. Len(p) /\ q[n] = p[n - 1]
  <2> SUFFICES ASSUME NEW n \in 2 .. Len(q) PROVE n - 1 \in 1 .. Len(p) /\ q[n] = p[n - 1]
    OBVIOUS
  <2>1. n - 1 \in 1 .. Len(p) /\ (n - 1) + 1 = n
    BY <1>1
  <2> QED BY <2>1
<1>3. \A n \in 1 .. Len(q) : n = 1 \/ n \in 2 .. Len(q)
  BY <1>1
<1>4. \A n \in 1 .. Len(q) : q[n].opens \subseteq all
  BY <1>2, <1>3 DEF Tidy
<1>5. ASSUME NEW n \in 1 .. Len(q), q[n].error # "never", NEW m \in 1 .. n - 1
      PROVE  q[m].opens \subseteq q[n].closes
  <2>1. CASE m = 1
    BY <2>1
  <2>2. CASE m # 1
    <3>1. n \in 2 .. Len(q) /\ m \in 2 .. Len(q) /\ m - 1 \in 1 .. (n - 1) - 1
      BY <1>1, <2>2
    <3> QED BY <1>2, <1>5, <3>1 DEF Tidy
  <2> QED BY <2>1, <2>2
<1>6. ASSUME Guarded(p), NEW n \in 1 .. Len(q), q[n].opens # {}
      PROVE  \E m \in 1 .. n : "lock" \in q[m].opens
  <2>1. n \in 2 .. Len(q)
    BY <1>3, <1>6
  <2>2. PICK k \in 1 .. n - 1 : "lock" \in p[k].opens
    BY <1>2, <1>6, <2>1 DEF Guarded
  <2>3. k + 1 \in 1 .. n /\ k \in 1 .. Len(p)
    BY <1>1, <2>1, <2>2
  <2> QED BY <2>2, <2>3
<1>7. Tidy(q, all)
  <2>1. Len(q) \in Nat \ {0}
    BY <1>1
  <2> QED BY <1>4, <1>5, <2>1 DEF Tidy
<1> QED BY <1>6, <1>7 DEF Guarded

\* https_post_url looks at its address and then does what do_request does.
LEMMA PosixUrlTidy ==
  ASSUME platform # "windows"
  PROVE  /\ Tidy(https_post_url, free_contexts)
         /\ platform = "serialized" => Guarded(https_post_url)
<1> DEFINE p == do_request
           q == https_post_url
           url == Step("url", "permanent", {}, {})
           seed == Step("seed", "permanent", {"contexts"}, free_contexts)
           connect == Step("connect", "transient", {"fd"}, free_contexts)
           configure == Step("configure", "permanent", {}, free_contexts)
           handshake == Step("handshake", "transient", {}, free_contexts)
           write == Step("write", "transient", {}, free_contexts)
           read == Step("read", "transient", {}, free_contexts)
           parse == Step("parse", "permanent", {}, free_contexts)
           lock == Step("lock", "never", {"lock"}, {})
<1>1. url.opens = {} /\ url.name # "write"
  BY DEF Step
<1>2. CASE platform # "serialized"
  <2>1. /\ Len(p) = 7
        /\ p[1] = seed /\ p[2] = connect /\ p[3] = configure /\ p[4] = handshake
        /\ p[5] = write /\ p[6] = read /\ p[7] = parse
    BY <1>2, ConcatSeven DEF do_request, TlsConnection, write_all, read_all, parse_http_response
  <2>2. /\ Len(q) = 8 /\ q[1] = url
        /\ q[2] = seed /\ q[3] = connect /\ q[4] = configure /\ q[5] = handshake
        /\ q[6] = write /\ q[7] = read /\ q[8] = parse
    BY <1>2, ConcatUrlEight
    DEF https_post_url, parse_https_url, TlsConnection, write_all, read_all, parse_http_response
  <2> HIDE DEF p, q, url, seed, connect, configure, handshake, write, read, parse
  <2>3. Len(q) = Len(p) + 1 /\ \A n \in 1 .. Len(p) : q[n + 1] = p[n]
    BY <2>1, <2>2
  <2>4. Tidy(p, free_contexts)
    BY PosixTidy DEF p
  <2> QED BY <1>1, <1>2, <2>2, <2>3, <2>4, PrefixTidy DEF q
<1>3. CASE platform = "serialized"
  <2>1. /\ Len(p) = 8 /\ p[1] = lock
        /\ p[2] = seed /\ p[3] = connect /\ p[4] = configure /\ p[5] = handshake
        /\ p[6] = write /\ p[7] = read /\ p[8] = parse
    BY <1>3, ConcatEight
    DEF do_request, TlsConnection, mbedtls_lock, write_all, read_all, parse_http_response
  <2>2. /\ Len(q) = 9 /\ q[1] = url /\ q[2] = lock
        /\ q[3] = seed /\ q[4] = connect /\ q[5] = configure /\ q[6] = handshake
        /\ q[7] = write /\ q[8] = read /\ q[9] = parse
    BY <1>3, ConcatUrlNine
    DEF https_post_url, parse_https_url, TlsConnection, mbedtls_lock, write_all, read_all,
        parse_http_response
  <2> HIDE DEF p, q, url, seed, connect, configure, handshake, write, read, parse, lock
  <2>3. Len(q) = Len(p) + 1 /\ \A n \in 1 .. Len(p) : q[n + 1] = p[n]
    BY <2>1, <2>2
  <2>4. Tidy(p, free_contexts) /\ Guarded(p)
    BY <1>3, PosixTidy DEF p
  <2> QED BY <1>1, <2>2, <2>3, <2>4, PrefixTidy DEF q
<1> QED BY <1>2, <1>3

\* The error paths of winhttp_request close the handles opened so far.
LEMMA WindowsTidy == Tidy(winhttp_request, CloseHandles)
<1> DEFINE p == winhttp_request
<1>1. /\ Len(p) = 6
      /\ p[1] = Step("WinHttpOpen", "permanent", {"session"}, {})
      /\ p[2] = Step("WinHttpConnect", "transient", {"conn"}, {"session"})
      /\ p[3] = Step("WinHttpOpenRequest", "permanent", {"req"}, {"conn", "session"})
      /\ p[4] = Step("write", "transient", {}, {"req", "conn", "session"})
      /\ p[5] = Step("head", "transient", {}, {"req", "conn", "session"})
      /\ p[6] = Step("read", "never", {}, {})
  BY DEF winhttp_request
<1>2. /\ p[1].opens = {"session"} /\ p[2].opens = {"conn"} /\ p[3].opens = {"req"}
      /\ p[4].opens = {} /\ p[5].opens = {} /\ p[6].opens = {}
      /\ p[2].closes = {"session"} /\ p[3].closes = {"conn", "session"}
      /\ p[4].closes = CloseHandles /\ p[5].closes = CloseHandles
      /\ p[6].error = "never" /\ p[1].name # "write"
  BY <1>1 DEF Step, CloseHandles
<1> HIDE DEF p
<1>3. \A n \in 1 .. Len(p) : p[n].opens \subseteq CloseHandles
  BY <1>1, <1>2 DEF CloseHandles
<1>4. ASSUME NEW n \in 1 .. Len(p), p[n].error # "never", NEW m \in 1 .. n - 1
      PROVE  p[m].opens \subseteq p[n].closes
  <2>1. n \in {1, 2, 3, 4, 5}
    BY <1>1, <1>2, <1>4
  <2>2. CASE n \in {4, 5}
    BY <1>1, <1>2, <1>3, <2>2
  <2>3. CASE n = 3
    BY <1>2, <2>3
  <2>4. CASE n \in {1, 2}
    BY <1>2, <2>4
  <2> QED BY <2>1, <2>2, <2>3, <2>4
<1> QED BY <1>1, <1>2, <1>3, <1>4 DEF Tidy, p

LEMMA WindowsUrlTidy == Tidy(winhttp_url_request, CloseHandles)
<1> DEFINE p == winhttp_request
           q == winhttp_url_request
           url == Step("url", "permanent", {}, {})
<1>1. url.opens = {} /\ url.name # "write"
  BY DEF Step
<1>2. /\ Len(p) = 6 /\ Len(q) = 7 /\ q[1] = url
      /\ q[2] = p[1] /\ q[3] = p[2] /\ q[4] = p[3] /\ q[5] = p[4] /\ q[6] = p[5] /\ q[7] = p[6]
  BY DEF winhttp_request, winhttp_url_request, WinHttpCrackUrl
<1>3. Tidy(p, CloseHandles)
  BY WindowsTidy
<1> HIDE DEF p, q, url
<1>4. Len(q) = Len(p) + 1 /\ \A n \in 1 .. Len(p) : q[n + 1] = p[n]
  BY <1>2
<1> QED BY <1>1, <1>2, <1>3, <1>4, PrefixTidy DEF q

\* The entry points of both platforms.
LEMMA PlansTidy ==
  ASSUME NEW e \in Entries
  PROVE  /\ Tidy(Plan(e), Everything)
         /\ platform = "serialized" => Guarded(Plan(e))
BY PosixTidy, PosixUrlTidy, WindowsTidy, WindowsUrlTidy DEF Plan, Everything

-----------------------------------------------------------------------------
\* The inductive invariant, by concern.

\* A request is under way exactly while azure_sign is in a call.
CallInv ==
  /\ attempt \in Nat
  /\ IF Calling THEN at > 0 /\ attempt > 0 ELSE at = 0

\* An attempt to submit adds one submission at most, from its write on, and while
\* the service has not accepted it one of them is not an operation yet.
SubmitInv ==
  /\ pc = "start" => posts = 0
  /\ pc = "post" => posts <= attempt /\ (~OnWire => posts < attempt)
  /\ pc = "post" /\ OnWire /\ mine = 0 => Len(ops) < posts

\* The operation polled is the one that the answered submission made, and what
\* the service has decided stays decided.
PollInv ==
  /\ pc \in {"loop", "poll", "returned"} => operation_id = mine /\ mine # 0
  /\ pc \in {"loop", "returned"} => status # "none"
  /\ pc \in {"loop", "returned"} /\ status # "InProgress" => ops[operation_id] = status
  /\ pc = "returned" => status = "Succeeded"

\* 0 + 1 + ... + (n - 1)
Triangle(n) == (n * (n - 1)) \div 2

\* The latest moment at which attempt n of a poll starts.
StartsBy(n) == Limit + MaxDelay + (n - 1) * MaxLatency + Backoff * Triangle(n)

Latest == Limit + MaxDelay + MaxAttempts * MaxLatency + Backoff * Pauses

TimeInv ==
  /\ elapsed <= Latest
  /\ pc \in {"start", "post"} => elapsed = 0
  /\ pc = "poll" => elapsed <= StartsBy(attempt)

AzureInv == TypeOK /\ ConnectionInv /\ CallInv /\ SubmitInv /\ PollInv /\ TimeInv

-----------------------------------------------------------------------------
\* The connection.

HttpTypes ==
  /\ platform \in Platforms /\ mbedtls_mutex \in {"free", "me", "other"} /\ others \in 0 .. MaxOthers
  /\ entry \in Entries
  /\ at \in Nat
  /\ raw \in {"none", "headless", "cut", "whole"}

HttpInv == HttpTypes /\ ConnectionInv

\* The steps of a request depend on the platform and the entry point alone.
LEMMA PlanStays ==
  ASSUME UNCHANGED <<platform, entry>>
  PROVE  Plan(entry)' = Plan(entry) /\ Everything' = Everything
BY DEF Plan, https_post_url, do_request, TlsConnection, Everything

\* A step adds what it opens.
LEMMA AcquiredGrows ==
  ASSUME HttpStep
  PROVE  Acquired' = Acquired \cup Now.opens
<1> DEFINE p == Plan(entry)
<1>1. p' = p /\ at' = at + 1 /\ at \in Nat \ {0}
  BY PlanStays DEF HttpStep, Running
<1>2. Acquired' = UNION {p[n].opens : n \in 1 .. at}
  BY <1>1 DEF Acquired
<1>3. 1 .. at = (1 .. at - 1) \cup {at}
  BY <1>1
<1> HIDE DEF p
<1> DEFINE S == 1 .. at - 1
<1> HIDE DEF S
<1>4. UNION {p[n].opens : n \in S \cup {at}} = (UNION {p[n].opens : n \in S}) \cup p[at].opens
  OBVIOUS
<1> QED BY <1>2, <1>3, <1>4 DEF Acquired, Now, p, S

\* Whatever fails, and when nothing does, everything acquired is released.
LEMMA FailureReleases ==
  ASSUME HttpTypes, Running, Now.error # "never"
  PROVE  Acquired \subseteq Now.closes
<1>1. Tidy(Plan(entry), Everything)
  BY PlansTidy DEF HttpTypes
<1>2. at \in 1 .. Len(Plan(entry))
  BY DEF Running
<1>3. \A m \in 1 .. at - 1 : Plan(entry)[m].opens \subseteq Plan(entry)[at].closes
  BY <1>1, <1>2 DEF Tidy, Now
<1> QED BY <1>3 DEF Acquired, Now

LEMMA ReturnReleases ==
  ASSUME HttpTypes, at = Len(Plan(entry)) + 1
  PROVE  Acquired \subseteq Everything
<1>1. Tidy(Plan(entry), Everything)
  BY PlansTidy DEF HttpTypes
<1>2. 1 .. at - 1 = 1 .. Len(Plan(entry))
  BY <1>1 DEF Tidy
<1>3. \A m \in 1 .. at - 1 : Plan(entry)[m].opens \subseteq Everything
  BY <1>1, <1>2 DEF Tidy
<1> QED BY <1>3 DEF Acquired

\* A release of everything acquired leaves nothing, and the mutex to others.
LEMMA ReleaseAll ==
  ASSUME HttpInv, at > 0, NEW released, Acquired \subseteq released, Release(released)
  PROVE  /\ handles' = {}
         /\ mbedtls_mutex' # "me" /\ mbedtls_mutex' \in {"free", "me", "other"}
<1>1. handles = Acquired /\ ((mbedtls_mutex = "me") = ("lock" \in handles))
  BY DEF HttpInv, HttpTypes, ConnectionInv
<1> QED BY <1>1 DEF Release, HttpInv, HttpTypes

LEMMA CallKeepsHttp ==
  ASSUME HttpInv, at = 0, NEW e \in Entries \ {"none"}, HttpCall(e)
  PROVE  HttpInv' /\ at' = 1 /\ attempt' = 1
<1>1. handles' = {} /\ at' = 1 /\ attempt' = 1
  BY DEF HttpCall, HttpInv, ConnectionInv
<1>2. Acquired' = {}
  BY <1>1 DEF Acquired
<1>3. HttpTypes'
  BY DEF HttpCall, HttpInv, HttpTypes, Entries
<1>4. ConnectionInv'
  BY <1>1, <1>2, AttemptsAssumption DEF HttpCall, HttpInv, ConnectionInv
<1> QED BY <1>1, <1>3, <1>4 DEF HttpInv

LEMMA StepKeepsHttp ==
  ASSUME HttpInv, HttpStep
  PROVE  HttpInv' /\ at' > 0 /\ attempt' = attempt
<1>1. at \in Nat \ {0} /\ at' = at + 1 /\ UNCHANGED <<platform, others, entry, attempt>>
  BY DEF HttpStep, Running
<1>2. HttpTypes'
  <2>1. mbedtls_mutex' \in {"free", "me", "other"}
    BY DEF HttpStep, HttpInv, HttpTypes
  <2>2. raw' \in {"none", "headless", "cut", "whole"}
    BY DEF HttpStep, Arrivals, HttpInv, HttpTypes
  <2> QED BY <1>1, <2>1, <2>2 DEF HttpInv, HttpTypes
<1>3. handles' = Acquired'
  BY <1>1, AcquiredGrows DEF HttpStep, HttpInv, ConnectionInv
<1>4. (mbedtls_mutex' = "me") = ("lock" \in handles')
  BY DEF HttpStep, HttpInv, ConnectionInv
<1>5. ASSUME platform = "serialized", handles' # {} PROVE "lock" \in handles'
  <2> DEFINE p == Plan(entry)
  <2>1. Guarded(p)
    BY <1>5, PlansTidy DEF HttpInv, HttpTypes
  <2>2. at \in 1 .. Len(p) /\ p' = p /\ at' - 1 = at
    BY <1>1, PlanStays DEF HttpStep, Running
  <2>3. handles' = UNION {p[n].opens : n \in 1 .. at}
    BY <1>3, <2>2 DEF Acquired
  <2> HIDE DEF p
  <2>4. PICK n \in 1 .. at : p[n].opens # {}
    BY <1>5, <2>3
  <2>5. n \in 1 .. Len(p) /\ 1 .. n \subseteq 1 .. at
    BY <2>2, <2>4
  <2>6. PICK m \in 1 .. n : "lock" \in p[m].opens
    BY <2>1, <2>4, <2>5 DEF Guarded
  <2> QED BY <2>3, <2>5, <2>6
<1> QED BY <1>1, <1>2, <1>3, <1>4, <1>5 DEF HttpInv, ConnectionInv

LEMMA RetryKeepsHttp ==
  ASSUME HttpInv, attempt > 0, HttpRetry
  PROVE  HttpInv' /\ at' = 1 /\ attempt' = attempt + 1 /\ attempt < MaxAttempts
<1>1. /\ at > 0 /\ at' = 1 /\ raw' = "none" /\ attempt' = attempt + 1
      /\ UNCHANGED <<platform, others, entry>>
  BY DEF HttpRetry, Running
<1>2. handles' = {} /\ mbedtls_mutex' # "me" /\ mbedtls_mutex' \in {"free", "me", "other"}
  BY <1>1, FailureReleases, ReleaseAll DEF HttpRetry, HttpInv
<1>3. attempt \in Nat /\ attempt < MaxAttempts
  BY AttemptsAssumption DEF HttpRetry, GiveUp, HttpInv, ConnectionInv
<1>4. Acquired' = {}
  BY <1>1 DEF Acquired
<1>5. HttpTypes'
  BY <1>1, <1>2 DEF HttpInv, HttpTypes
<1> QED BY <1>1, <1>2, <1>3, <1>4, <1>5, AttemptsAssumption DEF HttpInv, ConnectionInv

LEMMA ThrowKeepsHttp ==
  ASSUME HttpInv, HttpThrow
  PROVE  HttpInv' /\ at' = 0 /\ attempt' = attempt
<1>1. at > 0 /\ at' = 0 /\ UNCHANGED <<platform, others, entry, attempt, raw>>
  BY DEF HttpThrow, Running
<1>2. handles' = {} /\ mbedtls_mutex' # "me" /\ mbedtls_mutex' \in {"free", "me", "other"}
  BY <1>1, FailureReleases, ReleaseAll DEF HttpThrow, HttpInv
<1>3. HttpTypes'
  BY <1>1, <1>2 DEF HttpInv, HttpTypes
<1> QED BY <1>1, <1>2, <1>3 DEF HttpInv, ConnectionInv

LEMMA ReturnKeepsHttp ==
  ASSUME HttpInv, HttpReturn
  PROVE  HttpInv' /\ at' = 0 /\ attempt' = attempt
<1>1. at' = 0 /\ UNCHANGED <<platform, others, entry, attempt, raw>>
  BY DEF HttpReturn
<1>2. at > 0
  BY PlansTidy DEF HttpReturn, HttpInv, HttpTypes, Tidy
<1>3. handles' = {} /\ mbedtls_mutex' # "me" /\ mbedtls_mutex' \in {"free", "me", "other"}
  BY <1>2, ReturnReleases, ReleaseAll DEF HttpReturn, HttpInv, Everything
<1>4. HttpTypes'
  BY <1>1, <1>3 DEF HttpInv, HttpTypes
<1> QED BY <1>1, <1>3, <1>4 DEF HttpInv, ConnectionInv

\* Other threads take the mutex only while this one does not have it.
LEMMA OthersKeepHttp ==
  ASSUME HttpInv, OtherLocks \/ OtherUnlocks
  PROVE  HttpInv' /\ UNCHANGED <<platform, entry, at, attempt>>
<1>1. /\ UNCHANGED <<platform, entry, at, attempt, handles, raw>>
      /\ mbedtls_mutex # "me" /\ mbedtls_mutex' \in {"free", "other"}
  BY DEF OtherLocks, OtherUnlocks
<1>2. others' \in 0 .. MaxOthers
  BY AttemptsAssumption DEF OtherLocks, OtherUnlocks, HttpInv, HttpTypes
<1>3. Acquired' = Acquired
  BY <1>1, PlanStays DEF Acquired
<1> QED BY <1>1, <1>2, <1>3 DEF HttpInv, HttpTypes, ConnectionInv

LEMMA IdleKeepsHttp ==
  ASSUME HttpInv, UNCHANGED http
  PROVE  HttpInv'
<1>1. Acquired' = Acquired
  BY PlanStays DEF http, Acquired
<1> QED BY <1>1 DEF http, HttpInv, HttpTypes, ConnectionInv

\* A fresh attempt has sent nothing; one that has sent its request stays so.
LEMMA FreshAttempt ==
  ASSUME UNCHANGED platform, entry' \in Entries, at' = 1
  PROVE  ~OnWire'
<1>1. PICK e \in Entries : entry' = e
  OBVIOUS
<1>2. Plan(entry)' = Plan(e)
  BY <1>1 DEF Plan, https_post_url, do_request, TlsConnection
<1>3. Plan(e)[1].name # "write" /\ Len(Plan(e)) \in Nat
  BY PlansTidy DEF Tidy
<1>4. \A n \in 1 .. Len(Plan(e)) : n <= 1 => n = 1
  BY <1>3
<1> QED BY <1>2, <1>3, <1>4 DEF OnWire

LEMMA StaysOnWire ==
  ASSUME HttpStep, OnWire
  PROVE  OnWire'
<1>1. Plan(entry)' = Plan(entry) /\ at' = at + 1 /\ at \in Nat
  BY PlanStays DEF HttpStep, Running
<1>2. PICK n \in 1 .. Len(Plan(entry)) : n <= at /\ Plan(entry)[n].name = "write"
  BY DEF OnWire
<1>3. n <= at' /\ at' > 0
  BY <1>1, <1>2
<1> QED BY <1>1, <1>2, <1>3 DEF OnWire

LEMMA WireUntouched ==
  ASSUME UNCHANGED <<platform, entry, at>>
  PROVE  OnWire' <=> OnWire
BY PlanStays DEF OnWire

-----------------------------------------------------------------------------
\* Time.

LEMMA TriangleStep ==
  ASSUME NEW n \in Nat \ {0}
  PROVE  /\ Triangle(n) \in Nat
         /\ Triangle(1) = 0
         /\ Triangle(n + 1) = Triangle(n) + n
<1>1. n * (n - 1) \in Nat
  OBVIOUS
<1>2. (n + 1) * ((n + 1) - 1) = n * (n - 1) + 2 * n
  OBVIOUS
<1>3. \A x \in Nat : x \div 2 \in Nat /\ (x + 2 * n) \div 2 = x \div 2 + n
  OBVIOUS
<1> QED BY <1>1, <1>2, <1>3 DEF Triangle

LEMMA TriangleGrows ==
  ASSUME NEW m \in Nat \ {0}, NEW n \in Nat \ {0}, m <= n
  PROVE  Triangle(m) <= Triangle(n)
<1>1. m * (m - 1) <= n * (n - 1)
  OBVIOUS
<1>2. \A x, y \in Nat : x <= y => x \div 2 <= y \div 2
  OBVIOUS
<1>3. m * (m - 1) \in Nat /\ n * (n - 1) \in Nat
  OBVIOUS
<1> QED BY <1>1, <1>2, <1>3 DEF Triangle

\* An attempt that ends, ends in time, and the next one starts in time.
LEMMA AttemptEnds ==
  ASSUME NEW n \in 1 .. MaxAttempts
  PROVE  /\ StartsBy(n) \in Nat /\ Latest \in Nat
         /\ StartsBy(n) + MaxLatency <= Latest
<1> USE AttemptsAssumption, TimesAssumption
<1>1. n \in Nat \ {0} /\ MaxAttempts \in Nat \ {0} /\ n <= MaxAttempts /\ Pauses = Triangle(MaxAttempts)
  BY DEF Pauses, Triangle
<1>2. Triangle(n) \in Nat /\ Pauses \in Nat /\ Triangle(n) <= Pauses
  BY <1>1, TriangleStep, TriangleGrows
<1>3. \A b, x, y \in Nat : x <= y => b * x \in Nat /\ b * y \in Nat /\ b * x <= b * y
  OBVIOUS
<1>4. /\ Backoff * Triangle(n) \in Nat /\ Backoff * Pauses \in Nat
      /\ Backoff * Triangle(n) <= Backoff * Pauses
  BY <1>2, <1>3
<1>5. \A k, l \in Nat \ {0} : k <= l =>
        /\ (k - 1) * MaxLatency \in Nat /\ l * MaxLatency \in Nat
        /\ (k - 1) * MaxLatency + MaxLatency <= l * MaxLatency
  OBVIOUS
<1>6. /\ (n - 1) * MaxLatency \in Nat /\ MaxAttempts * MaxLatency \in Nat
      /\ (n - 1) * MaxLatency + MaxLatency <= MaxAttempts * MaxLatency
  BY <1>1, <1>5
<1> QED BY <1>4, <1>6 DEF StartsBy, Latest

LEMMA NextStarts ==
  ASSUME NEW n \in Nat \ {0}
  PROVE  /\ StartsBy(n) + MaxLatency + Backoff * n = StartsBy(n + 1)
         /\ StartsBy(1) = Limit + MaxDelay
<1> USE TimesAssumption
<1>1. Triangle(n) \in Nat /\ Triangle(n + 1) = Triangle(n) + n /\ Triangle(1) = 0
  BY TriangleStep
<1>2. Backoff * Triangle(n + 1) = Backoff * Triangle(n) + Backoff * n
  BY <1>1
<1>3. ((n + 1) - 1) * MaxLatency = (n - 1) * MaxLatency + MaxLatency
  OBVIOUS
<1>4. Backoff * Triangle(n) \in Nat /\ Backoff * n \in Nat /\ (n - 1) * MaxLatency \in Nat
  BY <1>1
<1>5. StartsBy(n) + MaxLatency + Backoff * n = StartsBy(n + 1)
  BY <1>2, <1>3, <1>4 DEF StartsBy
<1>6. StartsBy(1) = Limit + MaxDelay
  BY <1>1 DEF StartsBy
<1> QED BY <1>5, <1>6

LEMMA DelayBounded ==
  ASSUME NEW n \in Nat
  PROVE  Delay(n) \in 0 .. MaxDelay
<1>1. DelayStep * n \in Nat
  BY TimesAssumption
<1> QED BY <1>1, TimesAssumption DEF Delay

-----------------------------------------------------------------------------
\* azure_sign and the service.

Statuses == {"InProgress"} \cup Decided

AzureTypes ==
  /\ ops \in Seq(Statuses)
  /\ posts \in 0 .. MaxAttempts
  /\ Len(ops) <= posts
  /\ mine \in 0 .. Len(ops)
  /\ elapsed \in Nat
  /\ i \in Nat
  /\ operation_id \in 0 .. Len(ops)
  /\ status \in {"none"} \cup Statuses
  /\ pc \in {"start", "post", "loop", "poll"} \cup Ends
  /\ why \in {"none", "network", "refused", "timed out", "undecodable", "failed"}

LEMMA AzureInvParts ==
  AzureInv <=> HttpInv /\ AzureTypes /\ CallInv /\ SubmitInv /\ PollInv /\ TimeInv
BY DEF AzureInv, TypeOK, HttpInv, HttpTypes, Entries, AzureTypes, Statuses

LEMMA AzureInvAgain ==
  HttpInv' /\ AzureTypes' /\ CallInv' /\ SubmitInv' /\ PollInv' /\ TimeInv' => AzureInv'
BY DEF AzureInv, TypeOK, HttpInv, HttpTypes, Entries, AzureTypes, Statuses

LEMMA AzureInvInit == Init => AzureInv
<1> SUFFICES ASSUME Init PROVE AzureInv
  OBVIOUS
<1> USE AttemptsAssumption, TimesAssumption
<1>1. HttpTypes /\ at = 0 /\ attempt = 0 /\ handles = {} /\ mbedtls_mutex = "free"
  BY DEF Init, HttpInit, HttpTypes, Entries
<1>2. HttpInv
  BY <1>1 DEF HttpInv, ConnectionInv
<1>3. /\ ops = <<>> /\ posts = 0 /\ mine = 0 /\ elapsed = 0 /\ i = 0
      /\ operation_id = 0 /\ status = "none" /\ pc = "start" /\ why = "none"
  BY DEF Init
<1>4. AzureTypes
  <2>1. Len(ops) = 0 /\ ops \in Seq(Statuses)
    BY <1>3
  <2>2. posts \in 0 .. MaxAttempts /\ mine \in 0 .. 0
    BY <1>3
  <2> QED BY <1>3, <2>1, <2>2 DEF AzureTypes
<1>5. CallInv /\ SubmitInv /\ PollInv
  BY <1>1, <1>3 DEF CallInv, Calling, SubmitInv, PollInv
<1>6. TimeInv
  <2>1. Latest \in Nat
    <3>1. 1 \in 1 .. MaxAttempts
      OBVIOUS
    <3> QED BY <3>1, AttemptEnds
  <2>2. elapsed <= Latest
    BY <1>3, <2>1
  <2> QED BY <1>3, <2>2 DEF TimeInv
<1> QED BY <1>2, <1>4, <1>5, <1>6, AzureInvParts

\* The service accepts a submission, in time or late.
LEMMA AcceptKeeps ==
  ASSUME AzureInv, Accept \/ AcceptLate
  PROVE  AzureInv'
<1> USE AttemptsAssumption
<1>0. HttpInv /\ AzureTypes /\ CallInv /\ SubmitInv /\ PollInv /\ TimeInv
  BY AzureInvParts
<1>1. /\ UNCHANGED <<http, posts, elapsed, i, operation_id, status, pc, why>>
      /\ ops' = Append(ops, "InProgress")
  BY DEF Accept, AcceptLate
<1>2. UNCHANGED <<platform, entry, at, attempt>>
  BY <1>1 DEF http
<1>3. HttpInv' /\ (OnWire' <=> OnWire)
  BY <1>0, <1>1, <1>2, IdleKeepsHttp, WireUntouched
<1>4. /\ ops \in Seq(Statuses) /\ ops' \in Seq(Statuses)
      /\ Len(ops) \in Nat /\ Len(ops') = Len(ops) + 1
      /\ \A n \in 1 .. Len(ops) : ops'[n] = ops[n]
  <2>1. ops \in Seq(Statuses) /\ "InProgress" \in Statuses
    BY <1>0 DEF AzureTypes, Statuses
  <2> QED BY <1>1, <2>1
<1>11. posts \in Nat /\ mine \in 0 .. Len(ops) /\ Len(ops) <= posts
  <2>1. posts \in 0 .. MaxAttempts /\ mine \in 0 .. Len(ops) /\ Len(ops) <= posts
    BY <1>0 DEF AzureTypes
  <2> QED BY <2>1
<1>5. Len(ops) < posts
  <2>1. CASE Accept
    BY <1>0, <2>1 DEF Accept, SubmitInv
  <2>2. CASE AcceptLate
    BY <1>4, <1>11, <2>2 DEF AcceptLate
  <2> QED BY <2>1, <2>2
<1>6. mine' \in 0 .. Len(ops') /\ (mine' = mine \/ (pc = "post" /\ OnWire /\ mine' # 0))
  <2>1. CASE Accept
    BY <1>4, <2>1 DEF Accept
  <2>2. CASE AcceptLate
    BY <1>4, <1>11, <2>2 DEF AcceptLate
  <2> QED BY <2>1, <2>2
<1>7. AzureTypes'
  <2>1. Len(ops') <= posts' /\ operation_id' \in 0 .. Len(ops')
    <3>1. operation_id \in 0 .. Len(ops)
      BY <1>0 DEF AzureTypes
    <3> QED BY <1>1, <1>4, <1>5, <1>11, <3>1
  <2> QED BY <1>0, <1>1, <1>4, <1>6, <2>1 DEF AzureTypes
<1>8. SubmitInv'
  <2>1. pc = "post" /\ OnWire /\ mine' = 0 => Len(ops') < posts
    <3>1. CASE Accept
      BY <1>4, <3>1 DEF Accept
    <3>2. CASE AcceptLate
      BY <1>4, <1>11, <3>2 DEF AcceptLate
    <3> QED BY <3>1, <3>2
  <2> QED BY <1>0, <1>1, <1>2, <1>3, <2>1 DEF SubmitInv
<1>9. PollInv'
  <2>1. pc \in {"loop", "poll", "returned"} => operation_id \in 1 .. Len(ops) /\ mine' = mine
    <3>1. operation_id \in 0 .. Len(ops)
      BY <1>0 DEF AzureTypes
    <3> QED BY <1>0, <1>4, <1>6, <1>11, <3>1 DEF PollInv
  <2> QED BY <1>0, <1>1, <1>4, <2>1 DEF PollInv
<1>10. CallInv' /\ TimeInv'
  BY <1>0, <1>1, <1>2 DEF CallInv, Calling, TimeInv, StartsBy
<1> QED BY <1>3, <1>7, <1>8, <1>9, <1>10, AzureInvAgain

\* The service decides an operation that was not decided.
LEMMA DecideKeeps ==
  ASSUME AzureInv, Decide
  PROVE  AzureInv'
<1> USE AttemptsAssumption
<1>0. HttpInv /\ AzureTypes /\ CallInv /\ SubmitInv /\ PollInv /\ TimeInv
  BY AzureInvParts
<1>1. UNCHANGED <<http, mine, posts, elapsed, i, operation_id, status, pc, why>>
  BY DEF Decide
<1>2. UNCHANGED <<platform, entry, at, attempt>>
  BY <1>1 DEF http
<1>3. HttpInv' /\ (OnWire' <=> OnWire)
  BY <1>0, <1>1, <1>2, IdleKeepsHttp, WireUntouched
<1>4. PICK n \in DOMAIN ops, s \in Decided :
        ops[n] = "InProgress" /\ ops' = [ops EXCEPT ![n] = s]
  BY DEF Decide
<1>5. /\ ops' \in Seq(Statuses) /\ Len(ops') = Len(ops) /\ Len(ops) \in Nat
      /\ \A k \in 1 .. Len(ops) : ops[k] # "InProgress" => ops'[k] = ops[k]
  <2>1. ops \in Seq(Statuses) /\ s \in Statuses
    BY <1>0 DEF AzureTypes, Statuses
  <2> QED BY <1>4, <2>1
<1>6. AzureTypes'
  BY <1>0, <1>1, <1>5 DEF AzureTypes
<1>7. SubmitInv'
  BY <1>0, <1>1, <1>2, <1>3, <1>5 DEF SubmitInv
<1>8. PollInv'
  <2>1. pc \in {"loop", "returned"} => operation_id \in 1 .. Len(ops)
    <3>1. operation_id \in 0 .. Len(ops)
      BY <1>0 DEF AzureTypes
    <3> QED BY <1>0, <1>5, <3>1 DEF PollInv
  <2> QED BY <1>0, <1>1, <1>5, <2>1 DEF PollInv
<1>9. CallInv' /\ TimeInv'
  BY <1>0, <1>1, <1>2 DEF CallInv, Calling, TimeInv, StartsBy
<1> QED BY <1>3, <1>6, <1>7, <1>8, <1>9, AzureInvAgain

\* The numbers of a state.
LEMMA Numbers ==
  ASSUME AzureInv
  PROVE  /\ attempt \in Nat /\ attempt <= MaxAttempts /\ elapsed \in Nat /\ i \in Nat
         /\ posts \in Nat /\ posts <= MaxAttempts /\ Len(ops) \in Nat
         /\ Calling => attempt \in 1 .. MaxAttempts
<1> USE AttemptsAssumption
<1>1. posts \in 0 .. MaxAttempts /\ elapsed \in Nat /\ i \in Nat /\ ops \in Seq(Statuses)
  BY AzureInvParts DEF AzureTypes
<1>2. attempt \in 0 .. MaxAttempts /\ (Calling => attempt > 0)
  BY AzureInvParts DEF CallInv, HttpInv, ConnectionInv
<1> QED BY <1>1, <1>2

\* Time passes only while polling.
LEMMA ElapsesBounded ==
  ASSUME elapsed \in Nat, NEW pause \in Nat, Elapses(pause)
  PROVE  /\ elapsed' \in Nat
         /\ pc = "post" => elapsed' = elapsed
         /\ pc # "post" => elapsed' <= elapsed + MaxLatency + pause
<1>1. PICK d \in 0 .. MaxLatency : elapsed' = IF pc = "post" THEN elapsed ELSE elapsed + d + pause
  BY DEF Elapses
<1>2. d \in Nat /\ d <= MaxLatency
  BY TimesAssumption
<1> QED BY <1>1, <1>2, TimesAssumption

LEMMA SubmitKeeps ==
  ASSUME AzureInv, Submit
  PROVE  AzureInv'
<1> USE AttemptsAssumption
<1>0. HttpInv /\ AzureTypes /\ CallInv /\ SubmitInv /\ PollInv /\ TimeInv
  BY AzureInvParts
<1>1. /\ pc = "start" /\ pc' = "post" /\ HttpCall("https_post")
      /\ UNCHANGED <<ops, mine, posts, elapsed, i, operation_id, status, why>>
  BY DEF Submit, service
<1>2. at = 0
  BY <1>0, <1>1 DEF CallInv, Calling
<1>3. HttpInv' /\ at' = 1 /\ attempt' = 1
  BY <1>0, <1>1, <1>2, CallKeepsHttp DEF Entries
<1>4. ~OnWire'
  BY <1>1, <1>3, FreshAttempt DEF HttpCall, Entries
<1>5. AzureTypes'
  BY <1>0, <1>1 DEF AzureTypes
<1>6. CallInv' /\ PollInv'
  BY <1>1, <1>3 DEF CallInv, Calling, PollInv
<1>7. SubmitInv'
  BY <1>0, <1>1, <1>3, <1>4 DEF SubmitInv
<1>8. TimeInv'
  BY <1>0, <1>1 DEF TimeInv, Latest
<1> QED BY <1>3, <1>5, <1>6, <1>7, <1>8, AzureInvAgain

LEMMA ProgressKeeps ==
  ASSUME AzureInv, Progress
  PROVE  AzureInv'
<1> USE AttemptsAssumption
<1>0. HttpInv /\ AzureTypes /\ CallInv /\ SubmitInv /\ PollInv /\ TimeInv
  BY AzureInvParts
<1>1. /\ Calling /\ HttpStep
      /\ posts' = IF pc = "post" /\ ~OnWire /\ OnWire' THEN posts + 1 ELSE posts
      /\ UNCHANGED <<ops, mine, elapsed, i, operation_id, status, pc, why>>
  BY DEF Progress, service
<1>2. HttpInv' /\ at' > 0 /\ attempt' = attempt
  BY <1>0, <1>1, StepKeepsHttp
<1>3. OnWire => OnWire'
  BY <1>1, StaysOnWire
<1>4. attempt \in Nat /\ attempt <= MaxAttempts /\ posts \in Nat /\ Len(ops) \in Nat /\ Len(ops) <= posts
  BY <1>0, Numbers DEF AzureTypes
<1>5. posts' \in 0 .. MaxAttempts /\ posts <= posts'
  <2>1. CASE pc = "post" /\ ~OnWire
    BY <1>0, <1>1, <1>4, <2>1 DEF SubmitInv
  <2>2. CASE ~(pc = "post" /\ ~OnWire)
    <3>1. posts' = posts
      BY <1>1, <2>2, Zenon
    <3>2. posts \in 0 .. MaxAttempts
      BY <1>0 DEF AzureTypes
    <3> QED BY <1>4, <3>1, <3>2
  <2> QED BY <2>1, <2>2
<1>6. AzureTypes'
  <2>1. Len(ops') <= posts'
    BY <1>1, <1>4, <1>5
  <2> QED BY <1>0, <1>1, <1>5, <2>1 DEF AzureTypes
<1>7. SubmitInv'
  <2>1. CASE pc # "post"
    BY <1>0, <1>1, <2>1 DEF SubmitInv, Calling
  <2>2. CASE pc = "post" /\ OnWire
    BY <1>0, <1>1, <1>2, <1>3, <2>2 DEF SubmitInv
  <2>3. CASE pc = "post" /\ ~OnWire
    <3>1. posts < attempt
      BY <1>0, <2>3 DEF SubmitInv
    <3> QED BY <1>1, <1>2, <1>4, <2>3, <3>1 DEF SubmitInv
  <2> QED BY <2>1, <2>2, <2>3
<1>8. CallInv' /\ PollInv' /\ TimeInv'
  BY <1>0, <1>1, <1>2 DEF CallInv, Calling, PollInv, TimeInv, StartsBy, Latest
<1> QED BY <1>2, <1>6, <1>7, <1>8, AzureInvAgain

LEMMA RetryKeeps ==
  ASSUME AzureInv, Retry
  PROVE  AzureInv'
<1> USE AttemptsAssumption, TimesAssumption
<1>0. HttpInv /\ AzureTypes /\ CallInv /\ SubmitInv /\ PollInv /\ TimeInv
  BY AzureInvParts
<1>1. /\ Calling /\ HttpRetry /\ Elapses(Backoff * attempt)
      /\ mine' = IF pc = "post" THEN 0 ELSE mine
      /\ UNCHANGED <<ops, posts, i, operation_id, status, pc, why>>
  BY DEF Retry
<1>2. /\ attempt \in 1 .. MaxAttempts /\ attempt \in Nat \ {0} /\ elapsed \in Nat
      /\ posts \in Nat /\ Len(ops) \in Nat
  BY <1>1, Numbers
<1>3. HttpInv' /\ at' = 1 /\ attempt' = attempt + 1 /\ attempt + 1 \in 1 .. MaxAttempts
  BY <1>0, <1>1, <1>2, RetryKeepsHttp
<1>4. ~OnWire'
  BY <1>0, <1>1, <1>3, FreshAttempt DEF HttpRetry, HttpInv, HttpTypes
<1>5. Backoff * attempt \in Nat
  BY <1>2
<1>6. /\ elapsed' \in Nat /\ (pc = "post" => elapsed' = elapsed)
      /\ pc # "post" => elapsed' <= elapsed + MaxLatency + Backoff * attempt
  BY <1>1, <1>2, <1>5, ElapsesBounded
<1>7. AzureTypes'
  <2>1. mine' \in 0 .. Len(ops)
    <3>1. mine \in 0 .. Len(ops)
      BY <1>0 DEF AzureTypes
    <3> QED BY <1>1, <1>2, <3>1
  <2> QED BY <1>0, <1>1, <1>6, <2>1 DEF AzureTypes
<1>8. CallInv'
  BY <1>1, <1>2, <1>3 DEF CallInv, Calling
<1>9. SubmitInv'
  <2>1. pc = "post" => posts < attempt + 1
    BY <1>0, <1>2 DEF SubmitInv
  <2>2. pc' = pc /\ pc # "start" /\ posts' = posts
    BY <1>1 DEF Calling
  <2>3. pc' = "post" => posts' <= attempt' /\ posts' < attempt'
    BY <1>2, <1>3, <2>1, <2>2
  <2> QED BY <1>4, <2>2, <2>3 DEF SubmitInv
<1>10. PollInv'
  BY <1>0, <1>1 DEF PollInv, Calling
<1>11. TimeInv'
  <2>1. CASE pc = "post"
    BY <1>0, <1>1, <1>6, <2>1 DEF TimeInv, Latest
  <2>2. CASE pc = "poll"
    <3>1. StartsBy(attempt) \in Nat /\ StartsBy(attempt + 1) \in Nat
          /\ StartsBy(attempt + 1) + MaxLatency <= Latest /\ Latest \in Nat
      BY <1>2, <1>3, AttemptEnds
    <3>2. StartsBy(attempt) + MaxLatency + Backoff * attempt = StartsBy(attempt + 1)
      BY <1>2, NextStarts
    <3>3. elapsed <= StartsBy(attempt)
      BY <1>0, <2>2 DEF TimeInv
    <3>4. elapsed' <= StartsBy(attempt + 1) /\ elapsed' <= Latest
      BY <1>2, <1>5, <1>6, <2>2, <3>1, <3>2, <3>3
    <3> QED BY <1>1, <1>3, <2>2, <3>4 DEF TimeInv, StartsBy, Latest
  <2> QED BY <1>1, <2>1, <2>2 DEF Calling
<1> QED BY <1>3, <1>7, <1>8, <1>9, <1>10, <1>11, AzureInvAgain

\* The last attempt of a call ends before Latest.
LEMMA CallEndsInTime ==
  ASSUME AzureInv, Calling, Elapses(0)
  PROVE  elapsed' \in Nat /\ elapsed' <= Latest /\ (pc = "post" => elapsed' = 0)
<1> USE TimesAssumption
<1>1. attempt \in 1 .. MaxAttempts /\ elapsed \in Nat /\ TimeInv
  BY Numbers, AzureInvParts
<1>2. /\ elapsed' \in Nat /\ (pc = "post" => elapsed' = elapsed)
      /\ pc # "post" => elapsed' <= elapsed + MaxLatency
  BY <1>1, ElapsesBounded
<1>3. StartsBy(attempt) \in Nat /\ Latest \in Nat /\ StartsBy(attempt) + MaxLatency <= Latest
  BY <1>1, AttemptEnds
<1>4. CASE pc = "post"
  BY <1>1, <1>2, <1>4 DEF TimeInv
<1>5. CASE pc = "poll"
  <2>1. elapsed <= StartsBy(attempt)
    BY <1>1, <1>5 DEF TimeInv
  <2> QED BY <1>1, <1>2, <1>3, <1>5, <2>1
<1> QED BY <1>4, <1>5 DEF Calling

\* A call that throws, or whose answer is refused, ends azure_sign.
LEMMA FailureKeeps ==
  ASSUME AzureInv, NetworkError \/ Refused
  PROVE  AzureInv'
<1> USE AttemptsAssumption
<1>0. HttpInv /\ AzureTypes /\ CallInv /\ SubmitInv /\ PollInv /\ TimeInv
  BY AzureInvParts
<1>1. /\ Calling /\ Elapses(0) /\ pc' = "threw" /\ why' \in {"network", "refused"}
      /\ HttpThrow \/ HttpReturn
      /\ UNCHANGED <<ops, mine, posts, i, operation_id, status>>
  BY DEF NetworkError, Refused, Throw, service
<1>2. HttpInv' /\ at' = 0 /\ attempt' = attempt
  BY <1>0, <1>1, ThrowKeepsHttp, ReturnKeepsHttp
<1>3. elapsed' \in Nat /\ elapsed' <= Latest
  BY <1>1, CallEndsInTime
<1>4. AzureTypes'
  BY <1>0, <1>1, <1>3 DEF AzureTypes, Ends
<1>5. CallInv'
  BY <1>0, <1>1, <1>2 DEF CallInv, Calling
<1>6. SubmitInv' /\ PollInv'
  BY <1>1 DEF SubmitInv, PollInv
<1>7. TimeInv'
  BY <1>1, <1>3 DEF TimeInv, Latest
<1> QED BY <1>2, <1>4, <1>5, <1>6, <1>7, AzureInvAgain

\* The status of an operation that exists.
LEMMA StatusOf ==
  ASSUME AzureInv, NEW n \in 1 .. Len(ops)
  PROVE  ops[n] \in Statuses /\ ops[n] # "none"
<1>1. ops \in Seq(Statuses)
  BY AzureInvParts DEF AzureTypes
<1>2. ops[n] \in Statuses
  BY <1>1
<1> QED BY <1>2 DEF Statuses, Decided

LEMMA SubmittedKeeps ==
  ASSUME AzureInv, Submitted
  PROVE  AzureInv'
<1> USE AttemptsAssumption, TimesAssumption
<1>0. HttpInv /\ AzureTypes /\ CallInv /\ SubmitInv /\ PollInv /\ TimeInv
  BY AzureInvParts
<1>1. /\ pc = "post" /\ pc' = "loop" /\ HttpReturn /\ mine # 0
      /\ operation_id' = mine /\ status' = ops[mine] /\ elapsed' = 0
      /\ UNCHANGED <<ops, mine, posts, i, why>>
  BY DEF Submitted, service
<1>2. HttpInv' /\ at' = 0 /\ attempt' = attempt
  BY <1>0, <1>1, ReturnKeepsHttp
<1>3. mine \in 0 .. Len(ops)
  BY <1>0 DEF AzureTypes
<1>4. Len(ops) \in Nat
  BY Numbers
<1>5. mine \in 1 .. Len(ops)
  BY <1>1, <1>3, <1>4
<1>6. status' \in Statuses /\ status' # "none" /\ status' = ops'[operation_id']
  BY <1>1, <1>5, StatusOf
<1>7. AzureTypes'
  BY <1>0, <1>1, <1>3, <1>6 DEF AzureTypes
<1>8. CallInv' /\ SubmitInv'
  BY <1>0, <1>1, <1>2 DEF CallInv, Calling, SubmitInv
<1>9. PollInv'
  BY <1>1, <1>6 DEF PollInv
<1>10. TimeInv'
  <2>1. Latest \in Nat
    <3>1. 1 \in 1 .. MaxAttempts
      OBVIOUS
    <3> QED BY <3>1, AttemptEnds
  <2> QED BY <1>1, <2>1 DEF TimeInv, Latest
<1> QED BY <1>2, <1>7, <1>8, <1>9, <1>10, AzureInvAgain

LEMMA PollKeeps ==
  ASSUME AzureInv, Poll
  PROVE  AzureInv'
<1> USE AttemptsAssumption, TimesAssumption
<1>0. HttpInv /\ AzureTypes /\ CallInv /\ SubmitInv /\ PollInv /\ TimeInv
  BY AzureInvParts
<1>1. /\ pc = "loop" /\ pc' = "poll" /\ ~Expired /\ HttpCall("https_get")
      /\ elapsed' = elapsed + Delay(i) /\ i' = i + 1
      /\ UNCHANGED <<ops, mine, posts, operation_id, status, why>>
  BY DEF Poll, service
<1>2. at = 0
  BY <1>0, <1>1 DEF CallInv, Calling
<1>3. HttpInv' /\ at' = 1 /\ attempt' = 1
  BY <1>0, <1>1, <1>2, CallKeepsHttp DEF Entries
<1>4. elapsed \in Nat /\ i \in Nat /\ elapsed <= Limit
  BY <1>1, Numbers DEF Expired
<1>5. Delay(i) \in Nat /\ Delay(i) <= MaxDelay
  BY <1>4, DelayBounded
<1>6. elapsed' \in Nat /\ i' \in Nat /\ elapsed' <= StartsBy(1) /\ elapsed' <= Latest
  <2>1. 1 \in 1 .. MaxAttempts
    OBVIOUS
  <2>2. StartsBy(1) = Limit + MaxDelay
    BY NextStarts
  <2>3. StartsBy(1) \in Nat /\ Latest \in Nat /\ StartsBy(1) + MaxLatency <= Latest
    BY <2>1, AttemptEnds
  <2> QED BY <1>1, <1>4, <1>5, <2>2, <2>3
<1>7. AzureTypes'
  BY <1>0, <1>1, <1>6 DEF AzureTypes
<1>8. CallInv' /\ SubmitInv' /\ PollInv'
  BY <1>0, <1>1, <1>3 DEF CallInv, Calling, SubmitInv, PollInv
<1>9. TimeInv'
  BY <1>1, <1>3, <1>6 DEF TimeInv, StartsBy, Latest
<1> QED BY <1>3, <1>7, <1>8, <1>9, AzureInvAgain

LEMMA PolledKeeps ==
  ASSUME AzureInv, Polled
  PROVE  AzureInv'
<1> USE AttemptsAssumption
<1>0. HttpInv /\ AzureTypes /\ CallInv /\ SubmitInv /\ PollInv /\ TimeInv
  BY AzureInvParts
<1>1. /\ pc = "poll" /\ pc' = "loop" /\ HttpReturn /\ Elapses(0)
      /\ status' = ops[operation_id]
      /\ UNCHANGED <<ops, mine, posts, i, operation_id, why>>
  BY DEF Polled, service
<1>2. HttpInv' /\ at' = 0 /\ attempt' = attempt
  BY <1>0, <1>1, ReturnKeepsHttp
<1>3. elapsed' \in Nat /\ elapsed' <= Latest
  BY <1>1, CallEndsInTime DEF Calling
<1>4. operation_id \in 0 .. Len(ops) /\ operation_id # 0 /\ operation_id = mine
  BY <1>0, <1>1 DEF AzureTypes, PollInv
<1>5. Len(ops) \in Nat
  BY Numbers
<1>6. operation_id \in 1 .. Len(ops)
  BY <1>4, <1>5
<1>7. status' \in Statuses /\ status' # "none" /\ status' = ops'[operation_id']
  BY <1>1, <1>6, StatusOf
<1>8. AzureTypes'
  BY <1>0, <1>1, <1>3, <1>7 DEF AzureTypes
<1>9. CallInv' /\ SubmitInv'
  BY <1>0, <1>1, <1>2 DEF CallInv, Calling, SubmitInv
<1>10. PollInv'
  BY <1>1, <1>4, <1>7 DEF PollInv
<1>11. TimeInv'
  BY <1>1, <1>3 DEF TimeInv, Latest
<1> QED BY <1>2, <1>8, <1>9, <1>10, <1>11, AzureInvAgain

\* The end of azure_sign, with the request long over.
LEMMA EndKeeps ==
  ASSUME AzureInv, TimedOut \/ Finish
  PROVE  AzureInv'
<1> USE AttemptsAssumption
<1>0. HttpInv /\ AzureTypes /\ CallInv /\ SubmitInv /\ PollInv /\ TimeInv
  BY AzureInvParts
<1>1. /\ pc = "loop" /\ pc' \in Ends
      /\ why' \in {"none", "network", "refused", "timed out", "undecodable", "failed"}
      /\ pc' = "returned" => status = "Succeeded"
      /\ UNCHANGED <<http, ops, mine, posts, elapsed, i, operation_id, status>>
  BY <1>0 DEF TimedOut, Finish, Throw, Ends, service, AzureTypes
<1>2. HttpInv' /\ UNCHANGED <<at, attempt>>
  BY <1>0, <1>1, IdleKeepsHttp DEF http
<1>3. AzureTypes'
  BY <1>0, <1>1 DEF AzureTypes, Ends
<1>4. CallInv' /\ SubmitInv'
  BY <1>0, <1>1, <1>2 DEF CallInv, Calling, SubmitInv, Ends
<1>5. PollInv'
  BY <1>0, <1>1 DEF PollInv, Ends
<1>6. TimeInv'
  BY <1>0, <1>1 DEF TimeInv, Latest, Ends
<1> QED BY <1>2, <1>3, <1>4, <1>5, <1>6, AzureInvAgain

\* Other threads, and nobody.
LEMMA OthersKeep ==
  ASSUME AzureInv, Others \/ UNCHANGED vars
  PROVE  AzureInv'
<1>0. HttpInv /\ AzureTypes /\ CallInv /\ SubmitInv /\ PollInv /\ TimeInv
  BY AzureInvParts
<1>1. /\ UNCHANGED <<ops, mine, posts, elapsed, i, operation_id, status, pc, why>>
      /\ (OtherLocks \/ OtherUnlocks) \/ UNCHANGED http
  BY DEF Others, vars, service
<1>2. HttpInv' /\ UNCHANGED <<platform, entry, at, attempt>>
  BY <1>0, <1>1, OthersKeepHttp, IdleKeepsHttp DEF http
<1>3. OnWire' <=> OnWire
  BY <1>2, WireUntouched
<1>4. AzureTypes' /\ PollInv'
  BY <1>0, <1>1 DEF AzureTypes, PollInv
<1>5. CallInv' /\ SubmitInv'
  BY <1>0, <1>1, <1>2, <1>3 DEF CallInv, Calling, SubmitInv
<1>6. TimeInv'
  BY <1>0, <1>1, <1>2 DEF TimeInv, StartsBy, Latest
<1> QED BY <1>2, <1>4, <1>5, <1>6, AzureInvAgain

LEMMA AzureInvStep == AzureInv /\ [Next]_vars => AzureInv'
BY AcceptKeeps, DecideKeeps, SubmitKeeps, ProgressKeeps, RetryKeeps, FailureKeeps,
   SubmittedKeeps, PollKeeps, PolledKeeps, EndKeeps, OthersKeep
DEF Next, Client, Over

\* The inductive invariant holds throughout a call of azure_sign.
THEOREM AzureCorrect == Spec => []AzureInv
BY AzureInvInit, AzureInvStep, PTL DEF Spec

\* Every way out of an attempt, on either platform, gives back exactly what the
\* attempt acquired: a thread never polls, sleeps before a retry or leaves with a
\* handle, a socket or the mbedTLS mutex in hand (posix.cpp, win32.cpp).
THEOREM ConnectionsReleased == Spec => []ConnectionInv
<1>1. AzureInv => ConnectionInv
  BY DEF AzureInv
<1> QED BY <1>1, AzureCorrect, PTL

\* azure_sign returns the result of the operation whose submission was answered,
\* whatever else its retries have left at the service, and that succeeded.
THEOREM ResultIsOwn == Spec => []OwnResult
<1>1. AzureInv => OwnResult
  BY DEF AzureInv, PollInv, OwnResult
<1> QED BY <1>1, AzureCorrect, PTL

\* The 60 s limit is overrun by one sleep and one call with its retries at most,
\* and a digest is submitted max_attempts times at most.
THEOREM WaitIsBounded == Spec => []WaitBounded
<1>1. AzureInv => WaitBounded
  BY DEF AzureInv, TimeInv, Latest, WaitBounded
<1> QED BY <1>1, AzureCorrect, PTL

-----------------------------------------------------------------------------
\* The login.

Peers == [asks: Requests, sent: BOOLEAN, open: BOOLEAN]

Untouched == page = "none" /\ lost = 0 /\ ~redeemed /\ ~cached /\ answer = "none"
Own(q) == q.code = "own" /\ q.state = "own"
Refusals == {"failed", "missing", "mismatch"}

Before == {"listen", "browser", "accept", "read", "respond"}

LoginTypes ==
  /\ step \in Before \cup {"exchange", "store", "over"}
  /\ backlog \in Seq(Peers) /\ client \in Peers /\ request \in Requests
  /\ page \in Pages /\ answer \in {"none", "tokens", "rejected"} /\ lost \in Nat
  /\ redeemed \in BOOLEAN /\ mishap \in BOOLEAN /\ cached \in BOOLEAN

\* While the code is exchanged: an answer belongs to a request that is on the
\* wire, and a code redeemed by anything else has cost an answer.
ExchangeInv ==
  /\ answer = "tokens" => redeemed
  /\ answer # "none" => OnWire
  /\ redeemed /\ answer # "tokens" => mishap

\* The inductive invariant: nothing is used before the page is shown, what is
\* used afterwards is this login's, and a loss has a cause.
LoginInv ==
  /\ LoginTypes
  /\ step \in Before => Untouched /\ result = "running"
  /\ step \in {"exchange", "store"} => Own(request) /\ page = "signed in" /\ ~cached
  /\ step = "exchange" => ExchangeInv
  /\ step = "store" => redeemed
  /\ cached => Own(request) /\ redeemed /\ page = "signed in"
  /\ page \in Refusals => result = "1" /\ step = "over" /\ ~redeemed /\ ~cached /\ lost = 0
  /\ result = "0" => page = "signed in" /\ cached
  /\ result # "running" => step = "over"
  /\ lost > 0 => mishap
  /\ step = "over" /\ redeemed /\ ~cached => mishap

\* The page says "Signed in." only for this login's own redirect (the checks of
\* login_main on the query, in their order).
LEMMA SignedInIsOwn ==
  ASSUME NEW q \in Requests
  PROVE  PageFor(q) \in Pages \ {"none"} /\ (PageFor(q) = "signed in" => Own(q))
BY DEF PageFor, Pages, Requests, Query, Own

LEMMA NothingIsARequest == Nothing \in Requests /\ NoClient \in Peers
BY DEF Nothing, Requests, Query, NoClient, Peers

LEMMA LoginInvInit == LoginInit => LoginInv
<1> SUFFICES ASSUME LoginInit PROVE LoginInv
  OBVIOUS
<1>1. LoginTypes
  <2>1. backlog \in Seq(Peers) /\ client \in Peers /\ request \in Requests /\ lost \in Nat
    BY NothingIsARequest DEF LoginInit
  <2>2. redeemed \in BOOLEAN /\ mishap \in BOOLEAN /\ cached \in BOOLEAN
    BY DEF LoginInit
  <2>3. step \in Before /\ page \in Pages /\ answer \in {"none", "tokens", "rejected"}
    BY DEF LoginInit, Before, Pages
  <2> QED BY <2>1, <2>2, <2>3 DEF LoginTypes
<1>2. Untouched /\ step = "listen" /\ result = "running"
  BY DEF LoginInit, Untouched
<1> QED BY <1>1, <1>2 DEF LoginInv, LoginTypes, Untouched, Refusals

\* Whoever connects, sends and leaves decides nothing.
LEMMA PeersKeepLoginInv ==
  LoginInv /\ (Connect \/ PeerSends \/ PeerCloses) => LoginInv'
<1> SUFFICES ASSUME LoginInv, Connect \/ PeerSends \/ PeerCloses PROVE LoginInv'
  OBVIOUS
<1>1. /\ UNCHANGED <<http, step, request, page, entra, mishap, cached, result>>
      /\ backlog' \in Seq(Peers) /\ client' \in Peers
  <2>1. CASE Connect
    <3>1. PICK q \in Requests :
            backlog' = Append(backlog, [asks |-> q, sent |-> FALSE, open |-> TRUE])
      BY <2>1 DEF Connect
    <3>2. [asks |-> q, sent |-> FALSE, open |-> TRUE] \in Peers
      BY DEF Peers
    <3>3. backlog \in Seq(Peers) /\ client \in Peers
      BY DEF LoginInv, LoginTypes
    <3> QED BY <2>1, <3>1, <3>2, <3>3 DEF Connect
  <2>2. CASE PeerSends
    BY <2>2 DEF PeerSends, LoginInv, LoginTypes, Peers
  <2>3. CASE PeerCloses
    BY <2>3 DEF PeerCloses, LoginInv, LoginTypes, Peers
  <2> QED BY <2>1, <2>2, <2>3
<1>2. OnWire' <=> OnWire
  BY <1>1, WireUntouched DEF http
<1> QED BY <1>1, <1>2 DEF LoginInv, LoginTypes, Untouched, ExchangeInv, Own, entra

\* Entra redeems the code for the attempt under way, or for one given up.
LEMMA EntraKeepsLoginInv == LoginInv /\ (Redeem \/ RedeemLate) => LoginInv'
<1> SUFFICES ASSUME LoginInv, Redeem \/ RedeemLate PROVE LoginInv'
  OBVIOUS
<1>1. UNCHANGED <<http, step, backlog, client, request, page, mishap, cached, result>>
  BY DEF Redeem, RedeemLate
<1>2. OnWire' <=> OnWire
  BY <1>1, WireUntouched DEF http
<1>3. CASE Redeem
  <2>1. /\ step = "exchange" /\ Own(request) /\ page = "signed in" /\ ~cached
        /\ OnWire /\ answer = "none" /\ lost' = lost /\ (redeemed => mishap)
    BY <1>3 DEF Redeem, LoginInv, ExchangeInv
  <2>2. redeemed' /\ redeemed' \in BOOLEAN
    BY <1>3, <2>1 DEF Redeem, Own
  <2>3. answer' \in {"tokens", "rejected"} /\ (answer' # "tokens" => redeemed)
    BY <1>3, <2>1 DEF Redeem, Own
  <2>4. ExchangeInv'
    BY <1>1, <1>2, <2>1, <2>2, <2>3 DEF ExchangeInv
  <2>5. LoginTypes'
    BY <1>1, <2>1, <2>2, <2>3 DEF LoginInv, LoginTypes
  <2> QED BY <1>1, <2>1, <2>2, <2>4, <2>5 DEF LoginInv, Own, Before, Refusals
<1>4. CASE RedeemLate
  <2>1. lost \in Nat /\ lost > 0 /\ lost' = lost - 1 /\ answer' = answer /\ mishap
    BY <1>4 DEF RedeemLate, LoginInv, LoginTypes
  <2>2. redeemed' \in BOOLEAN /\ (redeemed => redeemed')
    BY <1>4 DEF RedeemLate
  <2>3. lost' \in Nat
    BY <2>1
  <2>4. step \notin Before /\ page \notin Refusals
    <3>1. step \in Before \/ page \in Refusals => lost = 0
      BY DEF LoginInv, Untouched
    <3> QED BY <2>1, <3>1
  <2>5. step = "exchange" => ExchangeInv'
    BY <1>1, <1>2, <2>1, <2>2 DEF LoginInv, ExchangeInv
  <2>6. LoginTypes'
    BY <1>1, <2>1, <2>2, <2>3 DEF LoginInv, LoginTypes
  <2> QED BY <1>1, <2>1, <2>2, <2>4, <2>5, <2>6 DEF LoginInv, Own
<1> QED BY <1>3, <1>4

\* Up to the request nothing has happened that counts.
LEMMA ServerKeepsLoginInv ==
  LoginInv /\ (Listen \/ launch_browser \/ AcceptClient \/ Read) => LoginInv'
<1> SUFFICES ASSUME LoginInv, Listen \/ launch_browser \/ AcceptClient \/ Read PROVE LoginInv'
  OBVIOUS
<1>1. /\ UNCHANGED <<page, entra, mishap, cached>>
      /\ step \in Before
      /\ \/ step' \in Before /\ UNCHANGED result
         \/ step' = "over" /\ result' = "threw"
  BY DEF Listen, launch_browser, AcceptClient, Read, End, Before
<1>2. client' \in Peers /\ backlog' \in Seq(Peers) /\ request' \in Requests
  <2>1. backlog \in Seq(Peers) /\ client \in Peers /\ request \in Requests
    BY DEF LoginInv, LoginTypes
  <2>2. client.asks \in Requests
    BY <2>1 DEF Peers
  <2>3. backlog # <<>> => Head(backlog) \in Peers /\ Tail(backlog) \in Seq(Peers)
    BY <2>1
  <2> QED BY <2>1, <2>2, <2>3 DEF Listen, launch_browser, AcceptClient, Read
<1> QED BY <1>1, <1>2 DEF LoginInv, LoginTypes, Untouched, Own, Before, Refusals, entra

\* The page decides whether the code goes any further.
LEMMA RespondKeepsLoginInv == LoginInv /\ Respond => LoginInv'
<1> SUFFICES ASSUME LoginInv, Respond PROVE LoginInv'
  OBVIOUS
<1>1. /\ UNCHANGED <<backlog, request, entra, mishap, cached>>
      /\ client' \in Peers /\ request \in Requests
      /\ Untouched /\ step \in Before
  BY NothingIsARequest DEF Respond, LoginInv, LoginTypes, Before
<1>2. \/ page' = "signed in" /\ Own(request) /\ step' = "exchange" /\ result' = "running"
      \/ page' \in Refusals /\ step' = "over" /\ result' = "1"
      \/ page' = "none" /\ step' = "over" /\ result' \in {"threw", "killed"}
  BY <1>1, SignedInIsOwn
     DEF Respond, End, respond_posix, respond_win32, Pages, Refusals, LoginInv, Before, Untouched
<1> QED BY <1>1, <1>2
     DEF LoginInv, LoginTypes, Untouched, ExchangeInv, Own, Before, Refusals, Pages, entra

\* The exchange: an attempt given up on the wire is remembered, and its answer
\* is not used.
LEMMA ExchangeKeepsLoginInv ==
  LoginInv /\ (Exchange \/ ExchangeAgain \/ ExchangeFails \/ Exchanged) => LoginInv'
<1> SUFFICES ASSUME LoginInv, Exchange \/ ExchangeAgain \/ ExchangeFails \/ Exchanged PROVE LoginInv'
  OBVIOUS
<1> USE DEF Own, Before, Refusals
<1>1. /\ UNCHANGED <<backlog, client, request, page, redeemed, cached>>
      /\ LoginTypes /\ ExchangeInv /\ Own(request) /\ page = "signed in" /\ ~cached
      /\ step = "exchange" /\ (lost > 0 => mishap)
      /\ result # "0" /\ (result # "running" => step = "over")
  BY DEF Exchange, ExchangeAgain, ExchangeFails, Exchanged, entra, LoginInv
<1>2. CASE Exchange
  <2>1. UNCHANGED <<step, answer, lost, mishap, result>> /\ (OnWire => OnWire')
    BY <1>2, StaysOnWire DEF Exchange, entra
  <2>2. ExchangeInv'
    BY <1>1, <2>1 DEF ExchangeInv
  <2>3. LoginTypes'
    BY <1>1, <2>1 DEF LoginTypes
  <2> QED BY <1>1, <2>1, <2>2, <2>3 DEF LoginInv
<1>3. CASE ExchangeAgain
  <2>1. /\ step' = step /\ result' = result /\ answer' = "none"
        /\ mishap' = (mishap \/ OnWire)
        /\ lost' = IF OnWire /\ answer = "none" THEN lost + 1 ELSE lost
    BY <1>3 DEF ExchangeAgain
  <2>2. lost \in Nat /\ lost' \in Nat
    <3>1. lost \in Nat
      BY <1>1 DEF LoginTypes
    <3>2. lost' = lost + 1 \/ lost' = lost
      BY <2>1, Zenon
    <3> QED BY <3>1, <3>2
  <2>3. mishap' \in BOOLEAN /\ (mishap => mishap') /\ (OnWire => mishap')
    BY <2>1
  <2>4. ~OnWire => answer = "none" /\ lost' = lost
    BY <1>1, <2>1 DEF ExchangeInv
  <2>5. (lost' > 0 => mishap') /\ (redeemed => mishap')
    BY <1>1, <2>3, <2>4 DEF ExchangeInv
  <2> QED BY <1>1, <2>1, <2>2, <2>3, <2>5 DEF LoginInv, LoginTypes, ExchangeInv
<1>4. CASE ExchangeFails
  <2>1. /\ step' = "over" /\ result' = "threw" /\ answer' = answer
        /\ mishap' = (mishap \/ OnWire)
        /\ lost' = IF OnWire /\ answer = "none" THEN lost + 1 ELSE lost
    BY <1>4 DEF ExchangeFails, End
  <2>2. lost \in Nat /\ lost' \in Nat
    <3>1. lost \in Nat
      BY <1>1 DEF LoginTypes
    <3>2. lost' = lost + 1 \/ lost' = lost
      BY <2>1, Zenon
    <3> QED BY <3>1, <3>2
  <2>3. mishap' \in BOOLEAN /\ (mishap => mishap') /\ (OnWire => mishap')
    BY <2>1
  <2>4. ~OnWire => answer = "none" /\ lost' = lost
    BY <1>1, <2>1 DEF ExchangeInv
  <2>5. (lost' > 0 => mishap') /\ (redeemed => mishap')
    BY <1>1, <2>3, <2>4 DEF ExchangeInv
  <2> QED BY <1>1, <2>1, <2>2, <2>3, <2>5 DEF LoginInv, LoginTypes
<1>5. CASE Exchanged
  <2>1. /\ UNCHANGED <<answer, lost>>
        /\ \/ answer = "tokens" /\ step' = "store" /\ UNCHANGED <<result, mishap>>
           \/ /\ step' = "over" /\ result' = "threw"
              /\ raw = "whole" => answer # "tokens"
              /\ mishap' = (mishap \/ raw # "whole")
    BY <1>5 DEF Exchanged, End, entra
  <2>2. CASE answer = "tokens" /\ step' = "store" /\ UNCHANGED <<result, mishap>>
    BY <1>1, <2>1, <2>2 DEF LoginInv, LoginTypes, ExchangeInv
  <2>3. CASE /\ step' = "over" /\ result' = "threw"
             /\ raw = "whole" => answer # "tokens"
             /\ mishap' = (mishap \/ raw # "whole")
    <3>1. mishap' \in BOOLEAN /\ (redeemed => mishap') /\ (lost > 0 => mishap')
      BY <1>1, <2>3 DEF LoginTypes, ExchangeInv
    <3> QED BY <1>1, <2>1, <2>3, <3>1 DEF LoginInv, LoginTypes
  <2> QED BY <2>1, <2>2, <2>3
<1> QED BY <1>2, <1>3, <1>4, <1>5

\* The cache is written for a code that was redeemed, or that is the mishap.
LEMMA StoreKeepsLoginInv == LoginInv /\ Store => LoginInv'
<1> SUFFICES ASSUME LoginInv, Store PROVE LoginInv'
  OBVIOUS
<1>1. /\ UNCHANGED <<backlog, client, request, page, answer, lost, redeemed>>
      /\ LoginTypes /\ Own(request) /\ page = "signed in" /\ redeemed /\ (lost > 0 => mishap)
  BY DEF Store, LoginInv, entra
<1>2. /\ step' = "over" /\ cached' \in BOOLEAN /\ mishap' \in BOOLEAN
      /\ (mishap => mishap') /\ (~cached' => mishap') /\ (result' = "0" => cached')
  BY <1>1 DEF Store, End, LoginTypes
<1>3. LoginTypes'
  BY <1>1, <1>2 DEF LoginTypes
<1> QED BY <1>1, <1>2, <1>3 DEF LoginInv, Own, Before, Refusals

LEMMA LoginInvStep == LoginInv /\ [LoginNext]_login_vars => LoginInv'
<1>1. ASSUME LoginInv, UNCHANGED login_vars PROVE LoginInv'
  <2>1. OnWire' <=> OnWire
    BY <1>1, WireUntouched DEF login_vars, http
  <2>2. UNCHANGED <<step, backlog, client, request, page, answer, lost, redeemed, mishap, cached,
                    result>>
    BY <1>1 DEF login_vars, entra
  <2>3. LoginTypes' /\ (ExchangeInv => ExchangeInv')
    BY <1>1, <2>1, <2>2 DEF LoginInv, LoginTypes, ExchangeInv
  <2> QED BY <1>1, <2>2, <2>3 DEF LoginInv, Untouched, Own
<1> QED
  BY <1>1, PeersKeepLoginInv, EntraKeepsLoginInv, ServerKeepsLoginInv, RespondKeepsLoginInv,
     ExchangeKeepsLoginInv, StoreKeepsLoginInv DEF LoginNext, Main

\* LoginInv holds in every state of every login.
THEOREM LoginCorrect == LoginSpec => []LoginInv
BY LoginInvInit, LoginInvStep, PTL DEF LoginSpec

\* Only the code of this login's own redirect goes to Entra and into the cache,
\* whoever else connects to the port (login_main).
THEOREM OwnCodeOnly == LoginSpec => []OnlyOwnCode
<1>1. LoginInv => OnlyOwnCode
  BY DEF LoginInv, OnlyOwnCode, Own
<1> QED BY <1>1, LoginCorrect, PTL

\* The browser is shown a failure only if the login fails without having used its
\* code, and a login succeeds only after it has shown "Signed in.".
THEOREM PagesTrue == LoginSpec => []PageTrue
<1>1. LoginInv => PageTrue
  BY DEF LoginInv, PageTrue, Refusals
<1> QED BY <1>1, LoginCorrect, PTL

\* However often the exchange is retried, a completed sign-in is lost only with an
\* answer or with the cache.
THEOREM LossesExplained == LoginSpec => []LossExplained
<1>1. LoginInv => LossExplained
  BY DEF LoginInv, LossExplained
<1> QED BY <1>1, LoginCorrect, PTL

\* A request is under way exactly while the code is being exchanged.
LoginCall ==
  /\ HttpInv
  /\ IF step = "exchange" THEN at > 0 /\ attempt > 0 ELSE at = 0

LEMMA LoginCallInit == LoginInit => LoginCall
<1> SUFFICES ASSUME LoginInit PROVE LoginCall
  OBVIOUS
<1>1. HttpTypes /\ at = 0 /\ attempt = 0 /\ handles = {} /\ mbedtls_mutex = "free"
  BY DEF LoginInit, HttpInit, HttpTypes, Entries
<1>2. HttpInv
  BY <1>1, AttemptsAssumption DEF HttpInv, ConnectionInv
<1> QED BY <1>1, <1>2 DEF LoginCall, LoginInit

LEMMA LoginCallStep == LoginCall /\ [LoginNext]_login_vars => LoginCall'
<1> SUFFICES ASSUME LoginCall, [LoginNext]_login_vars PROVE LoginCall'
  OBVIOUS
<1> USE DEF LoginCall, End
<1>1. ASSUME UNCHANGED http, step' = step \/ (step # "exchange" /\ step' # "exchange")
      PROVE  LoginCall'
  <2>1. HttpInv' /\ at' = at /\ attempt' = attempt
    BY <1>1, IdleKeepsHttp DEF http
  <2> QED BY <1>1, <2>1
<1>2. CASE Connect \/ PeerSends \/ PeerCloses \/ Redeem \/ RedeemLate \/ UNCHANGED login_vars
  BY <1>1, <1>2 DEF Connect, PeerSends, PeerCloses, Redeem, RedeemLate, login_vars
<1>3. CASE Listen \/ launch_browser \/ AcceptClient \/ Read \/ Store
  BY <1>1, <1>3 DEF Listen, launch_browser, AcceptClient, Read, Store
<1>4. CASE Respond
  <2>1. CASE step' = "exchange"
    <3>1. HttpCall("https_post_url") /\ at = 0
      BY <1>4, <2>1 DEF Respond
    <3>2. HttpInv' /\ at' = 1 /\ attempt' = 1
      BY <3>1, CallKeepsHttp DEF Entries
    <3> QED BY <2>1, <3>2
  <2>2. CASE step' # "exchange"
    BY <1>1, <1>4, <2>2 DEF Respond
  <2> QED BY <2>1, <2>2
<1>5. CASE Exchange
  <2>1. HttpInv' /\ at' > 0 /\ attempt' = attempt
    BY <1>5, StepKeepsHttp DEF Exchange
  <2> QED BY <1>5, <2>1 DEF Exchange
<1>6. CASE ExchangeAgain
  <2>1. HttpInv' /\ at' = 1 /\ attempt' = attempt + 1
    BY <1>6, RetryKeepsHttp DEF ExchangeAgain
  <2>2. attempt \in Nat
    BY AttemptsAssumption DEF HttpInv, ConnectionInv
  <2> QED BY <1>6, <2>1, <2>2 DEF ExchangeAgain
<1>7. CASE ExchangeFails
  <2>1. HttpInv' /\ at' = 0
    BY <1>7, ThrowKeepsHttp DEF ExchangeFails
  <2> QED BY <1>7, <2>1 DEF ExchangeFails
<1>8. CASE Exchanged
  <2>1. HttpInv' /\ at' = 0
    BY <1>8, ReturnKeepsHttp DEF Exchanged
  <2> QED BY <1>8, <2>1 DEF Exchanged
<1> QED
  BY <1>2, <1>3, <1>4, <1>5, <1>6, <1>7, <1>8 DEF LoginNext, Main

\* The login, too, holds exactly what the attempt under way has acquired, although
\* https_post_url parses an address before it takes the mutex: nothing is open, and
\* the mutex is free, between two attempts and however the command ends.
THEOREM LoginReleases == LoginSpec => []ConnectionInv
<1>1. LoginCall => ConnectionInv
  BY DEF LoginCall, HttpInv
<1> QED BY <1>1, LoginCallInit, LoginCallStep, PTL DEF LoginSpec
=============================================================================
