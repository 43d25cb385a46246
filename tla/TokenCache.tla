----------------------------- MODULE TokenCache -----------------------------
(***************************************************************************)
(* The commands of src/src/auth_laptop.cpp on the two private files of one   *)
(* user: `login`, `config`, `logout` and the silent refresh of `sign`        *)
(* (try_cached_refresh).  Every command is a process of its own.  Between    *)
(* two of its steps (a file read, an HTTP exchange, a file write) another    *)
(* command may run, unless overlap is FALSE: then the user runs one command  *)
(* at a time.  One read or write of a file is atomic here, as Register says  *)
(* and PrivateFile shows for writes that do not overlap.                     *)
(*                                                                           *)
(* Entra (external) issues refresh tokens: token <<l, n>> is the n-th one of *)
(* the session that login l opened.  It may revoke any of them at any time.  *)
(***************************************************************************)
EXTENDS Naturals, FiniteSets

CONSTANTS
  Logins, Signs, Logouts, Configs, \* the commands the user runs, each once
  Earlier,          \* a login that was done before
  Sets,             \* [Logins \cup Configs -> SUBSET Fields]: the fields each one sets
  MaxTokens,        \* how many refresh tokens one session may be issued
  NoFile, Corrupt,  \* a file that is missing, one that is not JSON
  NoAnswer, Rejected, Failed \* nothing asked yet, invalid_grant, any other error

Fields == {"endpoint", "account", "profile"}
Commands == Logins \cup Signs \cup Logouts \cup Configs
Sessions == Logins \cup {Earlier}
Setters == Logins \cup Configs

ASSUME CommandsAssumption ==
  /\ Logins \cap (Signs \cup Logouts \cup Configs) = {}
  /\ Signs \cap (Logouts \cup Configs) = {}
  /\ Logouts \cap Configs = {}
  /\ Earlier \notin Commands
  /\ Sets \in [Setters -> SUBSET Fields]
  /\ \A c \in Configs : Sets[c] # {}   \* otherwise config_main says "nothing to do"
  /\ MaxTokens \in Nat \ {0}

VARIABLES
  overlap,    \* do commands overlap? (fixed)
  cache,      \* token-cache.json
  config,     \* config.json
  issued,     \* per session: the tokens issued so far
  revoked,    \* the tokens Entra no longer accepts
  pc,         \* per command: its next step
  local,      \* per command: the JSON it has read and holds
  answer,     \* per command: the token endpoint's answer
  lastSet,    \* (history) per field: the command that last set it
  session     \* (history) the session of the last completed login or logout

vars == <<overlap, cache, config, issued, revoked, pc, local, answer, lastSet, session>>

Tokens == Sessions \X (1 .. MaxTokens)

\* The cache's client, tenant and account fields say whose token it holds.
CacheJson == [identity: Sessions, refresh_token: Tokens]

\* A field's value is named after the command that set it.
Unset == "unset"
ConfigJson == [Fields -> Setters \cup {Earlier, Unset}]
EmptyJson == [f \in Fields |-> Unset]

\* The special values are none of the documents, tokens or sessions.
ASSUME NamesAssumption ==
  /\ NoFile # Corrupt
  /\ NoFile \notin CacheJson \cup ConfigJson \cup Sessions
  /\ Corrupt \notin CacheJson \cup ConfigJson
  /\ {NoAnswer, Rejected, Failed} \cap Tokens = {}
  /\ NoAnswer \notin {Rejected, Failed} /\ Rejected # Failed

Init ==
  /\ overlap \in BOOLEAN
  /\ cache \in {NoFile, Corrupt, [identity |-> Earlier, refresh_token |-> <<Earlier, 1>>]}
  /\ config \in {NoFile, Corrupt, [f \in Fields |-> Earlier]}
  /\ issued = [s \in Sessions |-> IF s = Earlier THEN 1 ELSE 0]
  /\ revoked = {}
  /\ pc = [c \in Commands |-> "start"]
  /\ local = [c \in Commands |-> NoFile]
  /\ answer = [c \in Commands |-> NoAnswer]
  /\ lastSet = [f \in Fields |-> IF config \in {NoFile, Corrupt} THEN Unset ELSE Earlier]
  /\ session = IF cache \in {NoFile, Corrupt} THEN NoFile ELSE Earlier

Idle(c) == pc[c] \in {"start", "done", "failed"}

Goto(c, from, to) ==
  /\ pc[c] = from
  /\ from = "start" => overlap \/ \A d \in Commands : Idle(d)
  /\ pc' = [pc EXCEPT ![c] = to]
  /\ UNCHANGED overlap

-----------------------------------------------------------------------------
\* The token endpoint.

Issue(c, s) ==
  /\ issued[s] < MaxTokens
  /\ issued' = [issued EXCEPT ![s] = @ + 1]
  /\ answer' = [answer EXCEPT ![c] = <<s, issued[s] + 1>>]

\* Expiry, an administrator, or the rotation of a refresh token.
Revoke ==
  /\ \E s \in Sessions : \E n \in 1 .. issued[s] :
       <<s, n>> \notin revoked /\ revoked' = revoked \cup {<<s, n>>}
  /\ UNCHANGED <<overlap, cache, config, issued, pc, local, answer, lastSet, session>>

-----------------------------------------------------------------------------
\* login_main

\* The redirect that LoopbackServer accepts: an "error", a missing code or
\* state, or a state that is not the one sent out, ends the command.
AcceptRedirect(c) ==
  /\ \E error, hasCode, hasState, sameState \in BOOLEAN :
       Goto(c, "start", IF ~error /\ hasCode /\ hasState /\ sameState
                          THEN "exchange" ELSE "failed")
  /\ UNCHANGED <<cache, config, issued, revoked, local, answer, lastSet, session>>

\* The authorization code for the session's first refresh token.
ExchangeCode(c) ==
  /\ Goto(c, "exchange", "write cache")
  /\ Issue(c, c)
  /\ UNCHANGED <<cache, config, revoked, local, lastSet, session>>

\* write_cache of a new JSON document; then save_signing_defaults, which is a
\* no-op without fields to set.
LoginWriteCache(c) ==
  /\ Goto(c, "write cache", IF Sets[c] = {} THEN "done" ELSE "read config")
  /\ cache' = [identity |-> c, refresh_token |-> answer[c]]
  /\ session' = c
  /\ UNCHANGED <<config, issued, revoked, local, answer, lastSet>>

-----------------------------------------------------------------------------
\* save_signing_defaults, from login_main and config_main

\* A missing or unreadable config.json counts as an empty one.
ReadConfig(c) ==
  /\ \/ c \in Configs /\ Goto(c, "start", "write config")
     \/ c \in Logins /\ Goto(c, "read config", "write config")
  /\ local' = [local EXCEPT ![c] = IF config \in {NoFile, Corrupt} THEN EmptyJson ELSE config]
  /\ UNCHANGED <<cache, config, issued, revoked, answer, lastSet, session>>

WriteConfig(c) ==
  /\ Goto(c, "write config", "done")
  /\ config' = [f \in Fields |-> IF f \in Sets[c] THEN c ELSE local[c][f]]
  /\ lastSet' = [f \in Fields |-> IF f \in Sets[c] THEN c ELSE lastSet[f]]
  /\ UNCHANGED <<cache, issued, revoked, local, answer, session>>

-----------------------------------------------------------------------------
\* try_cached_refresh

\* read_cache: no file means no token (the empty string); a corrupt one throws.
ReadCache(c) ==
  /\ Goto(c, "start", IF cache = NoFile THEN "done"
                      ELSE IF cache = Corrupt THEN "failed" ELSE "ask")
  /\ local' = [local EXCEPT ![c] = cache]
  /\ UNCHANGED <<cache, config, issued, revoked, answer, lastSet, session>>

\* The POST with grant_type refresh_token: a new token or none, a rejection, or
\* any other failure.
AskRefresh(c) ==
  /\ Goto(c, "ask", "answered")
  /\ LET t == local[c].refresh_token IN
       \/ t \notin revoked /\ Issue(c, t[1])
       \/ t \notin revoked /\ answer' = [answer EXCEPT ![c] = t] /\ UNCHANGED issued
       \/ t \in revoked /\ answer' = [answer EXCEPT ![c] = Rejected] /\ UNCHANGED issued
       \/ answer' = [answer EXCEPT ![c] = Failed] /\ UNCHANGED issued
  /\ UNCHANGED <<cache, config, revoked, local, lastSet, session>>

\* Mutant: every error deletes the cache.
RefreshFailed_Always(c) ==
  /\ answer[c] \in {Rejected, Failed}
  /\ Goto(c, "answered", "failed")
  /\ cache' = NoFile
  /\ UNCHANGED <<config, issued, revoked, local, answer, lastSet, session>>

\* invalid_grant deletes the cache; every error throws.
RefreshFailed(c) ==
  /\ answer[c] \in {Rejected, Failed}
  /\ Goto(c, "answered", "failed")
  /\ cache' = IF answer[c] = Rejected THEN NoFile ELSE cache
  /\ UNCHANGED <<config, issued, revoked, local, answer, lastSet, session>>

\* Mutant: the new token is put into the cache as it is now.
RefreshDone_Reread(c) ==
  /\ answer[c] \in Tokens
  /\ Goto(c, "answered", "done")
  /\ \/ cache \in CacheJson /\ cache' = [cache EXCEPT !.refresh_token = answer[c]]
     \/ cache' = cache
  /\ UNCHANGED <<config, issued, revoked, local, answer, lastSet, session>>

\* A different token is written back into the JSON read before; a failure to
\* write it is ignored.
RefreshDone(c) ==
  /\ answer[c] \in Tokens
  /\ Goto(c, "answered", "done")
  /\ \/ /\ answer[c] # local[c].refresh_token
        /\ cache' = [local[c] EXCEPT !.refresh_token = answer[c]]
     \/ cache' = cache
  /\ UNCHANGED <<config, issued, revoked, local, answer, lastSet, session>>

-----------------------------------------------------------------------------
\* logout_main

\* std::ifstream test(p): a file that can be opened is deleted next.
LogoutTest(c) ==
  /\ Goto(c, "start", IF cache = NoFile THEN "done" ELSE "delete")
  /\ UNCHANGED <<cache, config, issued, revoked, local, answer, lastSet, session>>

\* delete_cache; it is no error if the file has gone meanwhile.
LogoutDelete(c) ==
  /\ Goto(c, "delete", "done")
  /\ cache' = NoFile
  /\ session' = NoFile
  /\ UNCHANGED <<config, issued, revoked, local, answer, lastSet>>

\* Any other exception (network, disk), or the process is killed: what has been
\* written stays.
Throw(c) ==
  /\ ~Idle(c)
  /\ pc' = [pc EXCEPT ![c] = "failed"]
  /\ UNCHANGED <<overlap, cache, config, issued, revoked, local, answer, lastSet, session>>

Login(c) == AcceptRedirect(c) \/ ExchangeCode(c) \/ LoginWriteCache(c)
Save(c) == ReadConfig(c) \/ WriteConfig(c)
Refresh(c) == ReadCache(c) \/ AskRefresh(c) \/ RefreshFailed(c) \/ RefreshDone(c)
Logout(c) == LogoutTest(c) \/ LogoutDelete(c)

Next ==
  \/ \E c \in Logins : Login(c)
  \/ \E c \in Setters : Save(c)
  \/ \E c \in Signs : Refresh(c)
  \/ \E c \in Logouts : Logout(c)
  \/ \E c \in Commands : Throw(c)
  \/ Revoke

Spec == Init /\ [][Next]_vars

-----------------------------------------------------------------------------
\* Properties.

TypeOK ==
  /\ overlap \in BOOLEAN
  /\ cache \in CacheJson \cup {NoFile, Corrupt}
  /\ config \in ConfigJson \cup {NoFile, Corrupt}
  /\ issued \in [Sessions -> 0 .. MaxTokens]
  /\ revoked \subseteq Tokens
  /\ pc \in [Commands -> {"start", "exchange", "write cache", "read config", "write config",
                          "ask", "answered", "delete", "done", "failed"}]
  /\ local \in [Commands -> CacheJson \cup ConfigJson \cup {NoFile, Corrupt}]
  /\ answer \in [Commands -> Tokens \cup {NoAnswer, Rejected, Failed}]
  /\ lastSet \in [Fields -> Setters \cup {Earlier, Unset}]
  /\ session \in Sessions \cup {NoFile}

\* Whatever commands overlap, the cache never pairs one session's refresh token
\* with another one's client, tenant or account (try_cached_refresh writes back
\* the whole document it read).
CacheConsistent ==
  cache \in CacheJson => cache.refresh_token[1] = cache.identity

\* "Preserving fields the caller didn't touch": a field of config.json has the
\* value the last command that set it gave it.
FieldsPreserved ==
  \A f \in Fields : lastSet[f] # Unset => config \in ConfigJson /\ config[f] = lastSet[f]

\* `logout` "deletes the local token cache": from then on there is none, until
\* somebody logs in again.
LogoutSticks ==
  session = NoFile => cache \in {NoFile, Corrupt}

\* Cached logins are used "until it's revoked or expires": the cache of the
\* current session disappears only after Entra revoked a token of it.
LoginSticks ==
  session \in Sessions /\ cache = NoFile => \E n \in 1 .. MaxTokens : <<session, n>> \in revoked

\* A refresh or a login only ever holds tokens of the one session it is about.
HoldsOwnTokens(c) ==
  /\ c \in Signs /\ pc[c] \in {"ask", "answered"} =>
       /\ local[c] \in CacheJson
       /\ local[c].refresh_token[1] = local[c].identity
       /\ answer[c] \in Tokens => answer[c][1] = local[c].identity
  /\ c \in Signs /\ pc[c] \in {"start", "ask"} => answer[c] = NoAnswer
  /\ c \in Signs /\ answer[c] = Rejected => local[c].refresh_token \in revoked
  /\ c \in Logins /\ pc[c] = "write cache" => answer[c] \in Tokens /\ answer[c][1] = c
  /\ c \in Setters /\ pc[c] = "write config" => local[c] \in ConfigJson

\* The inductive invariant behind CacheConsistent, for overlapping commands.
SessionInv == CacheConsistent /\ \A c \in Commands : HoldsOwnTokens(c)

\* A command that runs alone works on what is in the files.
HeldIsCurrent(c) ==
  /\ c \in Signs /\ pc[c] \in {"ask", "answered"} => local[c] = cache
  /\ c \in Setters /\ pc[c] = "write config" /\ config \in ConfigJson => local[c] = config

OneAtATime == \A c, d \in Commands : ~Idle(c) /\ ~Idle(d) => c = d

CacheIsCurrent == cache \in CacheJson => cache.identity = session

\* With one command at a time nothing is lost: what a command holds is current,
\* the cache is the current session's, and no update undoes another.
SerialInv ==
  ~overlap =>
    /\ OneAtATime
    /\ \A c \in Commands : HeldIsCurrent(c)
    /\ CacheIsCurrent
    /\ FieldsPreserved
    /\ LogoutSticks
    /\ LoginSticks
=============================================================================
