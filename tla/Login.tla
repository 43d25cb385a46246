------------------------------- MODULE Login -------------------------------
(***************************************************************************)
(* `aas-sign login` (login_main, src/src/auth_laptop.cpp) with the           *)
(* LoopbackServer of both platforms, over HttpClient.  TokenCache has the     *)
(* same command as one of several that share the cache; here are its         *)
(* connections.                                                              *)
(*                                                                           *)
(* Anything on the machine may connect to the port: the browser with the      *)
(* redirect, the browser's speculative connections and repeated requests,     *)
(* the redirect of another login, other programs.  The server accepts one     *)
(* connection, whichever comes first.  Entra is external; it redeems an       *)
(* authorization code once, and only with the verifier it was issued for.    *)
(***************************************************************************)
EXTENDS HttpClient

CONSTANT MaxClients   \* bound: connections made to the port

ASSUME ClientsAssumption == MaxClients \in Nat

\* The first line of a request up to what login_main looks at: whether it has a
\* target, and the query's error, code and state.  "own" is of this login.
Query == [target: BOOLEAN, error: BOOLEAN,
          code: {"none", "own", "other"}, state: {"none", "own", "other"}]

\* The state is known to the browser and to Entra only.
Requests ==
  {q \in Query :
     /\ q.state = "own" => q.target /\ (q.error = (q.code = "none")) /\ q.code # "other"
     /\ q.code = "own" => q.state = "own"
     /\ ~q.target => ~q.error /\ q.code = "none" /\ q.state = "none"}

Nothing == [target |-> FALSE, error |-> FALSE, code |-> "none", state |-> "none"]

Pages == {"none", "failed", "missing", "mismatch", "signed in"}

VARIABLES
  step,      \* the next step of login_main
  backlog,   \* connections that wait to be accepted
  clients,   \* connections made so far
  client,    \* the accepted one
  request,   \* what accept_request returned
  page,      \* what the browser was shown
  answer,    \* Entra's answer to this attempt: "none", "tokens", "rejected"
  lost,      \* requests given up by the client that Entra may still get
  redeemed,  \* whether the code has been redeemed
  mishap,    \* (history) an answer, or the cache, may have been lost
  cached,    \* whether the refresh token is in the cache
  result     \* "running", "0", "1", "threw" or "killed"

entra == <<answer, lost, redeemed>>
login_vars == <<http, step, backlog, clients, client, request, page, entra, mishap, cached, result>>

\* A connection: what it asks, whether that has arrived, whether the peer is there.
NoClient == [asks |-> Nothing, sent |-> FALSE, open |-> FALSE]

LoginInit ==
  /\ HttpInit
  /\ step = "listen"
  /\ backlog = <<>> /\ clients = 0
  /\ client = NoClient
  /\ request = Nothing
  /\ page = "none"
  /\ answer = "none" /\ lost = 0 /\ redeemed = FALSE
  /\ mishap = FALSE
  /\ cached = FALSE
  /\ result = "running"

End(r) == step' = "over" /\ result' = r

-----------------------------------------------------------------------------
\* The other side of the port.

Connect ==
  /\ step \in {"accept", "read"}
  /\ clients < MaxClients
  /\ clients' = clients + 1
  /\ \E q \in Requests :
       backlog' = Append(backlog, [asks |-> q, sent |-> FALSE, open |-> TRUE])
  /\ UNCHANGED <<http, step, client, request, page, entra, mishap, cached, result>>

\* The accepted peer sends its request, or goes away with or without having done
\* so; what waits in the backlog does not matter.
PeerSends ==
  /\ client.open /\ ~client.sent
  /\ client' = [client EXCEPT !.sent = TRUE]
  /\ UNCHANGED <<http, step, backlog, clients, request, page, entra, mishap, cached, result>>

PeerCloses ==
  /\ client.open
  /\ client' = [client EXCEPT !.open = FALSE]
  /\ UNCHANGED <<http, step, backlog, clients, request, page, entra, mishap, cached, result>>

\* Entra gets the request of the current attempt, or late one given up.
Redeem ==
  /\ step = "exchange" /\ OnWire /\ raw = "none" /\ answer = "none"
  /\ answer' = IF request.code = "own" /\ ~redeemed THEN "tokens" ELSE "rejected"
  /\ redeemed' = (redeemed \/ request.code = "own")
  /\ UNCHANGED <<http, step, backlog, clients, client, request, page, lost, mishap, cached, result>>

RedeemLate ==
  /\ lost > 0
  /\ lost' = lost - 1
  /\ redeemed' = (redeemed \/ request.code = "own")
  /\ UNCHANGED <<http, step, backlog, clients, client, request, page, answer, mishap, cached, result>>

-----------------------------------------------------------------------------
\* login_main

\* The constructor of LoopbackServer: socket (on Windows WSAStartup before it), bind
\* to a free port, listen.
Listen ==
  /\ step = "listen"
  /\ \/ step' = "browser" /\ UNCHANGED result
     \/ End("threw")
  /\ UNCHANGED <<http, backlog, clients, client, request, page, entra, mishap, cached>>

\* A failure is a warning: the user can open the address by hand.
launch_browser ==
  /\ step = "browser"
  /\ step' = "accept"
  /\ UNCHANGED <<http, backlog, clients, client, request, page, entra, mishap, cached, result>>

\* accept_request: the first connection, no other.
AcceptClient ==
  /\ step = "accept"
  /\ \/ /\ backlog # <<>>
        /\ client' = Head(backlog)
        /\ backlog' = Tail(backlog)
        /\ step' = "read" /\ UNCHANGED result
     \/ End("threw") /\ UNCHANGED <<client, backlog>>
  /\ UNCHANGED <<http, clients, request, page, entra, mishap, cached>>

\* Mutant: the state is not compared.
PageFor_AnyState(q) ==
  IF q.error THEN "failed"
  ELSE IF q.code = "none" \/ q.state = "none" THEN "missing" ELSE "signed in"

\* The checks after parse_query, in their order.
PageFor(q) ==
  IF q.error THEN "failed"
  ELSE IF q.code = "none" \/ q.state = "none" THEN "missing"
  ELSE IF q.state # "own" THEN "mismatch" ELSE "signed in"

\* Mutant: the end of the connection is not noticed.
Read_Waits ==
  /\ step = "read"
  /\ client.sent
  /\ \/ /\ client.asks.target
        /\ request' = client.asks
        /\ step' = "respond" /\ UNCHANGED result
     \/ End("threw") /\ UNCHANGED request
  /\ UNCHANGED <<http, backlog, clients, client, page, entra, mishap, cached>>

\* accept_request: read up to the end of the headers (or 16 KiB), the end of the
\* connection or an error; a line without a target is an error.
Read ==
  /\ step = "read"
  /\ client.sent \/ ~client.open
  /\ \/ /\ client.sent /\ client.asks.target
        /\ request' = client.asks
        /\ step' = "respond" /\ UNCHANGED result
     \/ End("threw") /\ UNCHANGED request
  /\ UNCHANGED <<http, backlog, clients, client, page, entra, mishap, cached>>

\* Mutant: the command goes on after the page that tells of a mismatch.
Respond_FallsThrough ==
  /\ step = "respond"
  /\ client' = NoClient
  /\ page' = PageFor(request)
  /\ IF page' \in {"signed in", "mismatch"}
       THEN step' = "exchange" /\ HttpCall("https_post_url") /\ UNCHANGED result
       ELSE End("1") /\ UNCHANGED http
  /\ UNCHANGED <<backlog, clients, request, entra, mishap, cached>>

\* How respond fails: an error is thrown, but on POSIX the write to a peer that has
\* gone kills the process (SIGPIPE; mbedTLS ignores it, but has not been used yet).
respond_posix == IF client.open THEN "threw" ELSE "killed"
respond_win32 == "threw"

\* The browser is told "Signed in." before the code has been exchanged.
Respond ==
  /\ step = "respond"
  /\ client' = NoClient
  /\ \/ /\ page' = PageFor(request)
        /\ IF page' = "signed in"
             THEN step' = "exchange" /\ HttpCall("https_post_url") /\ UNCHANGED result
             ELSE End("1") /\ UNCHANGED http
     \/ /\ End(IF platform = "windows" THEN respond_win32 ELSE respond_posix)
        /\ UNCHANGED <<http, page>>
  /\ UNCHANGED <<backlog, clients, request, entra, mishap, cached>>

Exchange ==
  /\ step = "exchange" /\ HttpStep
  /\ UNCHANGED <<step, backlog, clients, client, request, page, entra, mishap, cached, result>>

\* The same code once more, after an attempt that Entra may have answered.
ExchangeAgain ==
  /\ step = "exchange" /\ HttpRetry
  /\ mishap' = (mishap \/ OnWire)
  /\ lost' = IF OnWire /\ answer = "none" THEN lost + 1 ELSE lost
  /\ answer' = "none"
  /\ UNCHANGED <<step, backlog, clients, client, request, page, redeemed, cached, result>>

ExchangeFails ==
  /\ step = "exchange" /\ HttpThrow
  /\ mishap' = (mishap \/ OnWire)
  /\ lost' = IF OnWire /\ answer = "none" THEN lost + 1 ELSE lost
  /\ End("threw")
  /\ UNCHANGED <<backlog, clients, client, request, page, answer, redeemed, cached>>

\* An HTTP status other than 200, a body that does not parse or has no
\* refresh_token ends the command.
Exchanged ==
  /\ step = "exchange" /\ HttpReturn
  /\ \/ raw = "whole" /\ answer = "tokens" /\ step' = "store" /\ UNCHANGED <<result, mishap>>
     \/ ~(raw = "whole" /\ answer = "tokens") /\ End("threw")
          /\ mishap' = (mishap \/ raw # "whole")
  /\ UNCHANGED <<backlog, clients, client, request, page, entra, cached>>

\* Mutant: without an id_token nothing is written.
Store_NeedsIdentity ==
  /\ step = "store"
  /\ cached' \in BOOLEAN
  /\ End("0")
  /\ UNCHANGED <<http, backlog, clients, client, request, page, entra, mishap>>

\* write_cache, with "unknown" for a name that the id_token does not give, and
\* save_signing_defaults.
Store ==
  /\ step = "store"
  /\ \/ cached' = TRUE /\ (End("0") \/ End("threw")) /\ UNCHANGED mishap
     \/ UNCHANGED cached /\ End("threw") /\ mishap' = TRUE
  /\ UNCHANGED <<http, backlog, clients, client, request, page, entra>>

Main ==
  Listen \/ launch_browser \/ AcceptClient \/ Read \/ Respond \/ Exchange \/ ExchangeAgain \/ ExchangeFails
    \/ Exchanged \/ Store

\* No other thread runs in this command: MaxOthers is 0.
LoginNext == Connect \/ PeerSends \/ PeerCloses \/ Redeem \/ RedeemLate \/ Main

\* The thread is scheduled and attempts end, with an answer or without.  Nobody
\* has to connect, and who has connected need not say anything.
LoginSpec == LoginInit /\ [][LoginNext]_login_vars /\ WF_login_vars(Main)

-----------------------------------------------------------------------------
\* Properties.

\* What goes to Entra is the code of the redirect that answers this login's own
\* authorization request, whatever else connects to the port; and what is in the
\* cache was issued for it.
OnlyOwnCode ==
  /\ step \in {"exchange", "store"} \/ cached => request.code = "own" /\ request.state = "own"
  /\ cached => redeemed

\* What the browser shows is true of what has happened (login_main): told of a
\* failure, the login fails and its code is not used; a login that succeeds has
\* said so.  ("Signed in." may still be followed by a failure.)
PageTrue ==
  /\ page \in {"failed", "missing", "mismatch"} => result = "1" /\ ~redeemed /\ ~cached
  /\ result = "0" => page = "signed in" /\ cached

\* The code can be redeemed once, and retry_transient may send it three times: a
\* sign-in that Entra has completed is lost only if an answer was, or the cache
\* could not be written.
LossExplained == step = "over" /\ redeemed /\ ~cached => mishap

\* Once the accepted peer has sent its request or gone away the command ends,
\* whatever the others in the backlog and Entra do.
LoginDecides == step = "read" /\ (client.sent \/ ~client.open) ~> step = "over"
=============================================================================
