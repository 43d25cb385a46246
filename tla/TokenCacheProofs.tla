-------------------------- MODULE TokenCacheProofs --------------------------
(***************************************************************************)
(* The token cache and config.json for any number of commands and tokens:    *)
(* overlapping commands never mix two sessions in the cache, and commands    *)
(* that do not overlap lose no update.  And the files they are kept in:      *)
(* PrivateFile implements Register when no two writers overlap.              *)
(***************************************************************************)
EXTENDS TokenCache, PrivateFile, TLAPS

-----------------------------------------------------------------------------
\* The documents and tokens.

\* A token tells its session.
LEMMA TokenParts ==
  ASSUME NEW s \in Sessions, NEW n \in 1 .. MaxTokens
  PROVE  <<s, n>> \in Tokens /\ <<s, n>>[1] = s
  BY DEF Tokens

LEMMA TokenSession ==
  ASSUME NEW t \in Tokens
  PROVE  t[1] \in Sessions /\ t[2] \in 1 .. MaxTokens /\ t = <<t[1], t[2]>>
  BY DEF Tokens

\* The document a login or a refresh writes.
LEMMA NewDocument ==
  ASSUME NEW s \in Sessions, NEW t \in Tokens
  PROVE  /\ [identity |-> s, refresh_token |-> t] \in CacheJson
         /\ [identity |-> s, refresh_token |-> t].identity = s
         /\ [identity |-> s, refresh_token |-> t].refresh_token = t
  BY DEF CacheJson

LEMMA UpdatedDocument ==
  ASSUME NEW j \in CacheJson, NEW t \in Tokens
  PROVE  /\ [j EXCEPT !.refresh_token = t] \in CacheJson
         /\ [j EXCEPT !.refresh_token = t].identity = j.identity
         /\ [j EXCEPT !.refresh_token = t].refresh_token = t
  BY DEF CacheJson

LEMMA DocumentParts ==
  ASSUME NEW j \in CacheJson
  PROVE  j.identity \in Sessions /\ j.refresh_token \in Tokens
  BY DEF CacheJson

\* An issued token is one of its session's, and the count stays in bounds.
LEMMA IssueEffect ==
  ASSUME TypeOK, NEW c \in Commands, NEW s \in Sessions, Issue(c, s)
  PROVE  /\ issued' \in [Sessions -> 0 .. MaxTokens]
         /\ \E t \in Tokens : t[1] = s /\ answer' = [answer EXCEPT ![c] = t]
<1>0. MaxTokens \in Nat /\ issued \in [Sessions -> 0 .. MaxTokens] /\ issued[s] < MaxTokens
  BY CommandsAssumption DEF TypeOK, Issue
<1>1. issued[s] \in 0 .. MaxTokens /\ issued[s] + 1 \in 1 .. MaxTokens
  BY <1>0
<1>2. <<s, issued[s] + 1>> \in Tokens /\ <<s, issued[s] + 1>>[1] = s
  BY <1>1, TokenParts
<1>3. issued' \in [Sessions -> 0 .. MaxTokens]
  BY <1>0, <1>1 DEF Issue
<1> QED
  BY <1>2, <1>3 DEF Issue

\* What the answer of the token endpoint to a refresh may be.
LEMMA AskEffect ==
  ASSUME TypeOK, SessionInv, NEW c \in Signs, AskRefresh(c)
  PROVE  /\ issued' \in [Sessions -> 0 .. MaxTokens]
         /\ \E a \in Tokens \cup {Rejected, Failed} :
              /\ answer' = [answer EXCEPT ![c] = a]
              /\ a \in Tokens => a[1] = local[c].identity
              /\ a = Rejected => local[c].refresh_token \in revoked
<1> DEFINE t == local[c].refresh_token
<1>0. c \in Commands
  BY DEF Commands
<1>1. local[c] \in CacheJson /\ t[1] = local[c].identity
  BY <1>0 DEF SessionInv, HoldsOwnTokens, AskRefresh, Goto
<1>2. t \in Tokens /\ t[1] \in Sessions
  BY <1>1, DocumentParts, TokenSession
<1>a. Tokens \cap {Rejected, Failed} = {} /\ Rejected # Failed
  BY NamesAssumption
<1>b. issued \in [Sessions -> 0 .. MaxTokens]
  BY DEF TypeOK
<1>3. CASE Issue(c, t[1])
  <2>1. issued' \in [Sessions -> 0 .. MaxTokens]
    BY <1>0, <1>2, <1>3, IssueEffect
  <2>2. PICK u \in Tokens : u[1] = t[1] /\ answer' = [answer EXCEPT ![c] = u]
    BY <1>0, <1>2, <1>3, IssueEffect
  <2> QED
    BY <1>1, <1>a, <2>1, <2>2, Zenon
<1>4. CASE answer' = [answer EXCEPT ![c] = t] /\ UNCHANGED issued
  BY <1>1, <1>2, <1>4, <1>a, <1>b, Zenon
<1>5. CASE t \in revoked /\ answer' = [answer EXCEPT ![c] = Rejected] /\ UNCHANGED issued
  BY <1>5, <1>a, <1>b, Zenon
<1>6. CASE answer' = [answer EXCEPT ![c] = Failed] /\ UNCHANGED issued
  BY <1>6, <1>a, <1>b, Zenon
<1> QED
  BY <1>3, <1>4, <1>5, <1>6 DEF AskRefresh

-----------------------------------------------------------------------------
\* Overlapping commands.

\* What a command does leaves what every other one holds as it was.
LEMMA OthersHold ==
  ASSUME SessionInv, NEW d \in Commands,
         pc'[d] = pc[d], local'[d] = local[d], answer'[d] = answer[d], revoked \subseteq revoked'
  PROVE  HoldsOwnTokens(d)'
  BY DEF SessionInv, HoldsOwnTokens

\* A step of one command: it suffices to look at that command and the cache.
LEMMA OneCommand ==
  ASSUME TypeOK, SessionInv, NEW c \in Commands, NEW p, NEW l, NEW a,
         pc' = [pc EXCEPT ![c] = p], local' = [local EXCEPT ![c] = l],
         answer' = [answer EXCEPT ![c] = a], revoked' = revoked,
         HoldsOwnTokens(c)', CacheConsistent'
  PROVE  SessionInv'
<1>1. ASSUME NEW d \in Commands, d # c PROVE HoldsOwnTokens(d)'
  <2>1. pc'[d] = pc[d] /\ local'[d] = local[d] /\ answer'[d] = answer[d] /\ revoked \subseteq revoked'
    BY <1>1 DEF TypeOK
  <2> QED
    BY <2>1, OthersHold
<1> QED
  BY <1>1 DEF SessionInv

\* An array that is left alone is one whose entry is set to itself.
LEMMA Untouched ==
  ASSUME TypeOK, NEW c \in Commands
  PROVE  /\ pc = [pc EXCEPT ![c] = pc[c]]
         /\ local = [local EXCEPT ![c] = local[c]]
         /\ answer = [answer EXCEPT ![c] = answer[c]]
  BY DEF TypeOK

\* Every variable keeps its type and a command holds only tokens of one session.
LEMMA InitHolds == Init => TypeOK /\ SessionInv
<1> SUFFICES ASSUME Init PROVE TypeOK /\ SessionInv
  OBVIOUS
<1>0. MaxTokens \in Nat \ {0} /\ Earlier \in Sessions
  BY CommandsAssumption DEF Sessions
<1>1. <<Earlier, 1>> \in Tokens /\ <<Earlier, 1>>[1] = Earlier
  BY <1>0, TokenParts
<1>2. cache \in CacheJson \cup {NoFile, Corrupt} /\ CacheConsistent
  BY <1>0, <1>1, NewDocument, NamesAssumption DEF Init, CacheConsistent
<1>3. config \in ConfigJson \cup {NoFile, Corrupt} /\ lastSet \in [Fields -> Setters \cup {Earlier, Unset}]
  BY DEF Init, ConfigJson
<1>4. issued \in [Sessions -> 0 .. MaxTokens]
  BY <1>0 DEF Init
<1>5. TypeOK
  BY <1>0, <1>2, <1>3, <1>4 DEF Init, TypeOK
<1>6. ASSUME NEW c \in Commands PROVE HoldsOwnTokens(c)
  BY NamesAssumption DEF Init, HoldsOwnTokens
<1> QED
  BY <1>2, <1>5, <1>6 DEF SessionInv

LEMMA LoginHolds ==
  ASSUME TypeOK, SessionInv, NEW c \in Logins, Login(c)
  PROVE  TypeOK' /\ SessionInv'
<1>0. c \in Commands /\ c \in Sessions /\ c \notin Signs /\ c \in Setters
  BY CommandsAssumption DEF Commands, Sessions, Setters
<1>1. CASE AcceptRedirect(c)
  <2>1. PICK p \in {"exchange", "failed"} : pc[c] = "start" /\ pc' = [pc EXCEPT ![c] = p]
    BY <1>1 DEF AcceptRedirect, Goto
  <2>2. UNCHANGED <<overlap, cache, config, issued, revoked, local, answer, lastSet, session>>
    BY <1>1 DEF AcceptRedirect, Goto
  <2>3. TypeOK'
    BY <2>1, <2>2 DEF TypeOK
  <2>4. HoldsOwnTokens(c)' /\ CacheConsistent'
    BY <1>0, <2>1, <2>2 DEF TypeOK, SessionInv, CacheConsistent, HoldsOwnTokens
  <2> QED
    BY <1>0, <2>1, <2>2, <2>3, <2>4, OneCommand, Untouched
<1>2. CASE ExchangeCode(c)
  <2>1. pc' = [pc EXCEPT ![c] = "write cache"] /\ UNCHANGED <<overlap, cache, config, revoked, local, lastSet, session>>
    BY <1>2 DEF ExchangeCode, Goto
  <2>2. PICK t \in Tokens : t[1] = c /\ answer' = [answer EXCEPT ![c] = t]
    BY <1>0, <1>2, IssueEffect DEF ExchangeCode
  <2>3. issued' \in [Sessions -> 0 .. MaxTokens]
    BY <1>0, <1>2, IssueEffect DEF ExchangeCode
  <2>4. TypeOK'
    BY <2>1, <2>2, <2>3 DEF TypeOK
  <2>5. HoldsOwnTokens(c)' /\ CacheConsistent'
    BY <1>0, <2>1, <2>2 DEF TypeOK, SessionInv, CacheConsistent, HoldsOwnTokens
  <2> QED
    BY <1>0, <2>1, <2>2, <2>4, <2>5, OneCommand, Untouched
<1>3. CASE LoginWriteCache(c)
  <2>1. PICK p \in {"done", "read config"} : pc[c] = "write cache" /\ pc' = [pc EXCEPT ![c] = p]
    BY <1>3 DEF LoginWriteCache, Goto
  <2>2. UNCHANGED <<overlap, config, issued, revoked, local, answer, lastSet>> /\ session' = c
    BY <1>3 DEF LoginWriteCache, Goto
  <2>3. answer[c] \in Tokens /\ answer[c][1] = c
    BY <1>0, <2>1 DEF SessionInv, HoldsOwnTokens
  <2>4. cache' \in CacheJson /\ cache'.identity = c /\ cache'.refresh_token[1] = c
    BY <1>0, <1>3, <2>3, NewDocument DEF LoginWriteCache
  <2>5. TypeOK'
    BY <1>0, <2>1, <2>2, <2>4 DEF TypeOK
  <2>6. HoldsOwnTokens(c)' /\ CacheConsistent'
    BY <1>0, <2>1, <2>2, <2>4 DEF TypeOK, CacheConsistent, HoldsOwnTokens
  <2> QED
    BY <1>0, <2>1, <2>2, <2>5, <2>6, OneCommand, Untouched
<1> QED
  BY <1>1, <1>2, <1>3 DEF Login

LEMMA SaveHolds ==
  ASSUME TypeOK, SessionInv, NEW c \in Setters, Save(c)
  PROVE  TypeOK' /\ SessionInv'
<1>0. c \in Commands /\ c \notin Signs
  BY CommandsAssumption DEF Commands, Setters
<1>1. CASE ReadConfig(c)
  <2>1. pc' = [pc EXCEPT ![c] = "write config"] /\ UNCHANGED <<overlap, cache, config, issued, revoked, answer, lastSet, session>>
    BY <1>1 DEF ReadConfig, Goto
  <2>2. EmptyJson \in ConfigJson
    BY DEF EmptyJson, ConfigJson
  <2>3. PICK l \in ConfigJson : local' = [local EXCEPT ![c] = l]
    BY <1>1, <2>2 DEF ReadConfig, TypeOK
  <2>4. TypeOK'
    BY <2>1, <2>3 DEF TypeOK
  <2>5. HoldsOwnTokens(c)' /\ CacheConsistent'
    BY <1>0, <2>1, <2>3 DEF TypeOK, SessionInv, CacheConsistent, HoldsOwnTokens
  <2> QED
    BY <1>0, <2>1, <2>3, <2>4, <2>5, OneCommand, Untouched
<1>2. CASE WriteConfig(c)
  <2>1. pc[c] = "write config" /\ pc' = [pc EXCEPT ![c] = "done"] /\ UNCHANGED <<overlap, cache, issued, revoked, local, answer, session>>
    BY <1>2 DEF WriteConfig, Goto
  <2>2. local[c] \in ConfigJson
    BY <1>0, <2>1 DEF SessionInv, HoldsOwnTokens
  <2>3. config' \in ConfigJson /\ lastSet' \in [Fields -> Setters \cup {Earlier, Unset}]
    BY <1>2, <2>2 DEF WriteConfig, ConfigJson, TypeOK
  <2>4. TypeOK'
    BY <2>1, <2>3 DEF TypeOK
  <2>5. HoldsOwnTokens(c)' /\ CacheConsistent'
    BY <1>0, <2>1 DEF TypeOK, SessionInv, CacheConsistent, HoldsOwnTokens
  <2> QED
    BY <1>0, <2>1, <2>4, <2>5, OneCommand, Untouched
<1> QED
  BY <1>1, <1>2 DEF Save

LEMMA RefreshHolds ==
  ASSUME TypeOK, SessionInv, NEW c \in Signs, Refresh(c)
  PROVE  TypeOK' /\ SessionInv'
<1>0. c \in Commands /\ c \notin Logins /\ c \notin Setters
  BY CommandsAssumption DEF Commands, Setters
<1>a. Tokens \cap {NoAnswer, Rejected, Failed} = {} /\ NoAnswer # Rejected /\ Rejected # Failed
  BY NamesAssumption
<1>1. CASE ReadCache(c)
  <2>1. PICK p \in {"done", "failed", "ask"} :
          /\ pc[c] = "start" /\ pc' = [pc EXCEPT ![c] = p]
          /\ p = "ask" => cache \notin {NoFile, Corrupt}
    BY <1>1 DEF ReadCache, Goto
  <2>2. local' = [local EXCEPT ![c] = cache] /\ UNCHANGED <<overlap, cache, config, issued, revoked, answer, lastSet, session>>
    BY <1>1 DEF ReadCache, Goto
  <2>3. answer[c] = NoAnswer
    BY <1>0, <2>1 DEF SessionInv, HoldsOwnTokens
  <2>4. TypeOK'
    BY <2>1, <2>2 DEF TypeOK
  <2>5. HoldsOwnTokens(c)' /\ CacheConsistent'
    BY <1>0, <1>a, <2>1, <2>2, <2>3 DEF TypeOK, SessionInv, CacheConsistent, HoldsOwnTokens
  <2> QED
    BY <1>0, <2>1, <2>2, <2>4, <2>5, OneCommand, Untouched
<1>2. CASE AskRefresh(c)
  <2>1. pc[c] = "ask" /\ pc' = [pc EXCEPT ![c] = "answered"] /\ UNCHANGED <<overlap, cache, config, revoked, local, lastSet, session>>
    BY <1>2 DEF AskRefresh, Goto
  <2>2. PICK a \in Tokens \cup {Rejected, Failed} :
          /\ answer' = [answer EXCEPT ![c] = a]
          /\ a \in Tokens => a[1] = local[c].identity
          /\ a = Rejected => local[c].refresh_token \in revoked
    BY <1>2, AskEffect
  <2>3. issued' \in [Sessions -> 0 .. MaxTokens]
    BY <1>2, AskEffect
  <2>4. TypeOK'
    BY <2>1, <2>2, <2>3 DEF TypeOK
  <2>5. HoldsOwnTokens(c)' /\ CacheConsistent'
    BY <1>0, <2>1, <2>2 DEF TypeOK, SessionInv, CacheConsistent, HoldsOwnTokens
  <2> QED
    BY <1>0, <2>1, <2>2, <2>4, <2>5, OneCommand, Untouched
<1>3. CASE RefreshFailed(c)
  <2>1. pc' = [pc EXCEPT ![c] = "failed"] /\ cache' \in {NoFile, cache} /\ UNCHANGED <<overlap, config, issued, revoked, local, answer, lastSet, session>>
    BY <1>3 DEF RefreshFailed, Goto
  <2>2. TypeOK'
    BY <2>1 DEF TypeOK
  <2>3. HoldsOwnTokens(c)'
    BY <1>0, <2>1 DEF TypeOK, SessionInv, HoldsOwnTokens
  <2>4. CacheConsistent'
    BY <2>1, NamesAssumption DEF SessionInv, CacheConsistent
  <2> QED
    BY <1>0, <2>1, <2>2, <2>3, <2>4, OneCommand, Untouched
<1>4. CASE RefreshDone(c)
  <2>1. pc[c] = "answered" /\ pc' = [pc EXCEPT ![c] = "done"] /\ UNCHANGED <<overlap, config, issued, revoked, local, answer, lastSet, session>>
    BY <1>4 DEF RefreshDone, Goto
  <2>2. local[c] \in CacheJson /\ answer[c] \in Tokens /\ answer[c][1] = local[c].identity
    BY <1>0, <1>4, <2>1 DEF SessionInv, HoldsOwnTokens, RefreshDone
  <2>3. cache' \in CacheJson \cup {NoFile, Corrupt} /\ CacheConsistent'
    <3>1. CASE cache' = cache
      BY <3>1 DEF CacheConsistent, SessionInv, TypeOK
    <3>2. CASE cache' = [local[c] EXCEPT !.refresh_token = answer[c]]
      <4>1. cache' \in CacheJson /\ cache'.identity = local[c].identity /\ cache'.refresh_token = answer[c]
        BY <2>2, <3>2, UpdatedDocument
      <4> QED
        BY <2>2, <4>1 DEF CacheConsistent
    <3> QED
      BY <1>4, <3>1, <3>2 DEF RefreshDone
  <2>4. TypeOK'
    BY <2>1, <2>3 DEF TypeOK
  <2>5. HoldsOwnTokens(c)'
    BY <1>0, <2>1 DEF TypeOK, SessionInv, HoldsOwnTokens
  <2> QED
    BY <1>0, <2>1, <2>3, <2>4, <2>5, OneCommand, Untouched
<1> QED
  BY <1>1, <1>2, <1>3, <1>4 DEF Refresh

LEMMA LogoutHolds ==
  ASSUME TypeOK, SessionInv, NEW c \in Logouts, Logout(c)
  PROVE  TypeOK' /\ SessionInv'
<1>0. c \in Commands /\ c \notin Signs /\ c \notin Setters /\ c \notin Logins
  BY CommandsAssumption DEF Commands, Setters
<1>1. PICK p \in {"done", "delete"} : pc' = [pc EXCEPT ![c] = p]
  BY DEF Logout, LogoutTest, LogoutDelete, Goto
<1>2. cache' \in {NoFile, cache} /\ session' \in {NoFile, session} /\ UNCHANGED <<overlap, config, issued, revoked, local, answer, lastSet>>
  BY DEF Logout, LogoutTest, LogoutDelete, Goto
<1>3. TypeOK'
  BY <1>1, <1>2 DEF TypeOK
<1>4. HoldsOwnTokens(c)' /\ CacheConsistent'
  BY <1>0, <1>2, NamesAssumption DEF SessionInv, CacheConsistent, HoldsOwnTokens
<1> QED
  BY <1>0, <1>1, <1>2, <1>3, <1>4, OneCommand, Untouched

LEMMA ThrowHolds ==
  ASSUME TypeOK, SessionInv, NEW c \in Commands, Throw(c)
  PROVE  TypeOK' /\ SessionInv'
<1>1. pc' = [pc EXCEPT ![c] = "failed"] /\ UNCHANGED <<overlap, cache, config, issued, revoked, local, answer, lastSet, session>>
  BY DEF Throw
<1>2. TypeOK'
  BY <1>1 DEF TypeOK
<1>3. HoldsOwnTokens(c)' /\ CacheConsistent'
  BY <1>1 DEF TypeOK, SessionInv, CacheConsistent, HoldsOwnTokens
<1> QED
  BY <1>1, <1>2, <1>3, OneCommand, Untouched

LEMMA RevokeHolds ==
  ASSUME TypeOK, SessionInv, Revoke
  PROVE  TypeOK' /\ SessionInv'
<1>1. PICK s \in Sessions : \E n \in 1 .. issued[s] : revoked' = revoked \cup {<<s, n>>}
  BY DEF Revoke
<1>2. PICK n \in 1 .. issued[s] : revoked' = revoked \cup {<<s, n>>}
  BY <1>1
<1>3. MaxTokens \in Nat /\ issued[s] \in 0 .. MaxTokens
  BY CommandsAssumption DEF TypeOK
<1>4. n \in 1 .. MaxTokens
  BY <1>3
<1>5. revoked' \subseteq Tokens /\ revoked \subseteq revoked'
  BY <1>2, <1>4, TokenParts DEF TypeOK
<1>6. UNCHANGED <<overlap, cache, config, issued, pc, local, answer, lastSet, session>>
  BY DEF Revoke
<1>7. TypeOK'
  BY <1>5, <1>6 DEF TypeOK
<1>8. ASSUME NEW d \in Commands PROVE HoldsOwnTokens(d)'
  BY <1>5, <1>6, OthersHold
<1> QED
  BY <1>6, <1>7, <1>8 DEF SessionInv, CacheConsistent

\* One step of the commands keeps types and sessions.
LEMMA StepHolds == TypeOK /\ SessionInv /\ [Next]_vars => (TypeOK /\ SessionInv)'
<1> SUFFICES ASSUME TypeOK, SessionInv, [Next]_vars PROVE TypeOK' /\ SessionInv'
  OBVIOUS
<1>1. CASE UNCHANGED vars
  BY <1>1 DEF vars, TypeOK, SessionInv, CacheConsistent, HoldsOwnTokens
<1> QED
  BY <1>1, LoginHolds, SaveHolds, RefreshHolds, LogoutHolds, ThrowHolds, RevokeHolds DEF Next

\* The commands of auth_laptop.cpp keep both files and what they hold of them
\* in their formats.
THEOREM TypeCorrect == Spec => []TypeOK
  BY InitHolds, StepHolds, PTL DEF Spec

\* However many logins, refreshes and logouts overlap, a command holds tokens
\* of one session only, and so the cache file does (try_cached_refresh and
\* login_main write whole documents).
THEOREM SessionsApart == Spec => [](SessionInv /\ CacheConsistent)
<1>1. SessionInv => CacheConsistent
  BY DEF SessionInv
<1> QED
  BY <1>1, InitHolds, StepHolds, PTL DEF Spec

-----------------------------------------------------------------------------
\* Commands that do not overlap.

\* A command that takes a step is the only one under way.
LEMMA Alone ==
  ASSUME ~overlap, SerialInv, NEW c \in Commands, NEW f, NEW g,
         Goto(c, f, g), f \notin {"done", "failed"}
  PROVE  \A d \in Commands : d # c => Idle(d)
<1>1. CASE f = "start"
  BY <1>1 DEF Goto
<1>2. CASE f # "start"
  BY <1>2 DEF Goto, Idle, SerialInv, OneAtATime
<1> QED
  BY <1>1, <1>2

\* So only what it does itself matters.
LEMMA SerialStep ==
  ASSUME TypeOK, NEW c \in Commands, NEW p, pc' = [pc EXCEPT ![c] = p],
         \A d \in Commands : d # c => Idle(d),
         HeldIsCurrent(c)', CacheIsCurrent', FieldsPreserved', LogoutSticks', LoginSticks'
  PROVE  SerialInv'
<1>1. ASSUME NEW d \in Commands, d # c PROVE pc'[d] \in {"start", "done", "failed"}
  BY <1>1 DEF TypeOK, Idle
<1>2. ASSUME NEW d \in Commands, d # c PROVE HeldIsCurrent(d)'
  BY <1>1, <1>2 DEF HeldIsCurrent
<1>3. OneAtATime'
  BY <1>1 DEF OneAtATime, Idle
<1> QED
  BY <1>2, <1>3 DEF SerialInv

\* The properties of a file depend on that file and its history alone.
LEMMA ConfigUnchanged ==
  ASSUME ~overlap, SerialInv, UNCHANGED <<config, lastSet>>
  PROVE  FieldsPreserved'
  BY DEF SerialInv, FieldsPreserved

LEMMA CacheUnchanged ==
  ASSUME ~overlap, SerialInv, UNCHANGED <<cache, session>>, revoked \subseteq revoked'
  PROVE  CacheIsCurrent' /\ LogoutSticks' /\ LoginSticks'
  BY DEF SerialInv, CacheIsCurrent, LogoutSticks, LoginSticks

LEMMA SerialLogin ==
  ASSUME ~overlap, TypeOK, SessionInv, SerialInv, NEW c \in Logins, Login(c)
  PROVE  SerialInv'
<1>0. c \in Commands /\ c \in Sessions /\ c \notin Signs
  BY CommandsAssumption DEF Commands, Sessions
<1>1. PICK f \in {"start", "exchange", "write cache"} :
        \E p \in {"exchange", "failed", "write cache", "done", "read config"} : Goto(c, f, p)
  BY DEF Login, AcceptRedirect, ExchangeCode, LoginWriteCache
<1>2. PICK p \in {"exchange", "failed", "write cache", "done", "read config"} : Goto(c, f, p)
  BY <1>1
<1>3. (\A d \in Commands : d # c => Idle(d)) /\ pc' = [pc EXCEPT ![c] = p]
  BY <1>0, <1>2, Alone DEF Goto
<1>4. HeldIsCurrent(c)'
  BY <1>0, <1>3 DEF HeldIsCurrent, TypeOK
<1>5. FieldsPreserved'
  BY ConfigUnchanged DEF Login, AcceptRedirect, ExchangeCode, LoginWriteCache
<1>6. CacheIsCurrent' /\ LogoutSticks' /\ LoginSticks'
  <2>1. CASE AcceptRedirect(c) \/ ExchangeCode(c)
    BY <2>1, CacheUnchanged DEF AcceptRedirect, ExchangeCode
  <2>2. CASE LoginWriteCache(c)
    <3>1. answer[c] \in Tokens
      BY <1>0, <2>2 DEF SessionInv, HoldsOwnTokens, LoginWriteCache, Goto
    <3>2. cache' \in CacheJson /\ cache'.identity = c /\ session' = c
      BY <1>0, <2>2, <3>1, NewDocument DEF LoginWriteCache
    <3>3. cache' # NoFile /\ session' # NoFile
      BY <1>0, <3>2, NamesAssumption
    <3> QED
      BY <3>2, <3>3 DEF CacheIsCurrent, LogoutSticks, LoginSticks
  <2> QED
    BY <2>1, <2>2 DEF Login
<1> QED
  BY <1>0, <1>3, <1>4, <1>5, <1>6, SerialStep

LEMMA SerialSave ==
  ASSUME ~overlap, TypeOK, SessionInv, SerialInv, NEW c \in Setters, Save(c)
  PROVE  SerialInv'
<1>0. c \in Commands /\ c \notin Signs
  BY CommandsAssumption DEF Commands, Setters
<1>1. CASE ReadConfig(c)
  <2>1. \A d \in Commands : d # c => Idle(d)
    BY <1>0, <1>1, Alone DEF ReadConfig
  <2>2. pc' = [pc EXCEPT ![c] = "write config"] /\ UNCHANGED <<cache, config, revoked, lastSet, session>>
    BY <1>1 DEF ReadConfig, Goto
  <2>3. config \in ConfigJson => local'[c] = config
    BY <1>0, <1>1, NamesAssumption DEF ReadConfig, TypeOK
  <2>4. HeldIsCurrent(c)'
    BY <1>0, <2>2, <2>3 DEF HeldIsCurrent
  <2> QED
    BY <1>0, <2>1, <2>2, <2>4, ConfigUnchanged, CacheUnchanged, SerialStep
<1>2. CASE WriteConfig(c)
  <2>1. \A d \in Commands : d # c => Idle(d)
    BY <1>0, <1>2, Alone DEF WriteConfig
  <2>2. pc[c] = "write config" /\ pc' = [pc EXCEPT ![c] = "done"] /\ UNCHANGED <<cache, revoked, session>>
    BY <1>2 DEF WriteConfig, Goto
  <2>3. HeldIsCurrent(c)'
    BY <1>0, <2>2 DEF HeldIsCurrent, TypeOK
  <2>4. local[c] \in ConfigJson /\ (config \in ConfigJson => local[c] = config)
    BY <1>0, <2>2 DEF SessionInv, HoldsOwnTokens, SerialInv, HeldIsCurrent
  <2>5. config' \in ConfigJson
    BY <1>2, <2>4 DEF WriteConfig, ConfigJson
  <2>6. ASSUME NEW f \in Fields, lastSet'[f] # Unset PROVE config'[f] = lastSet'[f]
    <3>1. CASE f \in Sets[c]
      BY <1>2, <3>1 DEF WriteConfig
    <3>2. CASE f \notin Sets[c]
      <4>1. lastSet'[f] = lastSet[f] /\ config'[f] = local[c][f]
        BY <1>2, <3>2 DEF WriteConfig
      <4> QED
        BY <2>4, <2>6, <4>1 DEF SerialInv, FieldsPreserved
    <3> QED
      BY <3>1, <3>2
  <2>7. FieldsPreserved'
    BY <2>5, <2>6 DEF FieldsPreserved
  <2> QED
    BY <1>0, <2>1, <2>2, <2>3, <2>7, CacheUnchanged, SerialStep
<1> QED
  BY <1>1, <1>2 DEF Save

LEMMA SerialRefresh ==
  ASSUME ~overlap, TypeOK, SessionInv, SerialInv, NEW c \in Signs, Refresh(c)
  PROVE  SerialInv'
<1>0. c \in Commands /\ c \notin Setters
  BY CommandsAssumption DEF Commands, Setters
<1>a. FieldsPreserved'
  BY ConfigUnchanged DEF Refresh, ReadCache, AskRefresh, RefreshFailed, RefreshDone
<1>1. CASE ReadCache(c)
  <2>1. \A d \in Commands : d # c => Idle(d)
    BY <1>0, <1>1, Alone DEF ReadCache
  <2>2. PICK p : pc' = [pc EXCEPT ![c] = p]
    BY <1>1 DEF ReadCache, Goto
  <2>3. UNCHANGED <<cache, revoked, session>> /\ local'[c] = cache
    BY <1>0, <1>1 DEF ReadCache, TypeOK
  <2>4. HeldIsCurrent(c)'
    BY <1>0, <2>3 DEF HeldIsCurrent
  <2> QED
    BY <1>0, <1>a, <2>1, <2>2, <2>3, <2>4, CacheUnchanged, SerialStep
<1>2. CASE AskRefresh(c)
  <2>1. \A d \in Commands : d # c => Idle(d)
    BY <1>0, <1>2, Alone DEF AskRefresh
  <2>2. pc[c] = "ask" /\ pc' = [pc EXCEPT ![c] = "answered"] /\ UNCHANGED <<cache, revoked, local, session>>
    BY <1>2 DEF AskRefresh, Goto
  <2>3. HeldIsCurrent(c)'
    BY <1>0, <2>2 DEF HeldIsCurrent, SerialInv
  <2> QED
    BY <1>0, <1>a, <2>1, <2>2, <2>3, CacheUnchanged, SerialStep
<1>b. pc[c] = "answered" =>
        /\ cache \in CacheJson /\ local[c] = cache /\ cache.identity = session
        /\ cache.refresh_token[1] = session
        /\ answer[c] = Rejected => cache.refresh_token \in revoked
  BY <1>0 DEF SessionInv, HoldsOwnTokens, SerialInv, HeldIsCurrent, CacheIsCurrent
<1>c. session # NoFile \/ session \notin Sessions
  BY NamesAssumption
<1>3. CASE RefreshFailed(c)
  <2>1. \A d \in Commands : d # c => Idle(d)
    BY <1>0, <1>3, Alone DEF RefreshFailed
  <2>2. pc[c] = "answered" /\ pc' = [pc EXCEPT ![c] = "failed"] /\ UNCHANGED <<revoked, session>>
    BY <1>3 DEF RefreshFailed, Goto
  <2>3. HeldIsCurrent(c)'
    BY <1>0, <2>2 DEF HeldIsCurrent, TypeOK
  <2>4. CacheIsCurrent' /\ LogoutSticks' /\ LoginSticks'
    <3>1. CASE cache' = cache
      BY <2>2, <3>1, CacheUnchanged
    <3>2. CASE cache' = NoFile /\ answer[c] = Rejected
      <4>1. cache.refresh_token \in revoked /\ cache.refresh_token \in Tokens
        BY <1>b, <2>2, <3>2, DocumentParts
      <4>2. PICK n \in 1 .. MaxTokens : cache.refresh_token = <<session, n>>
        BY <1>b, <2>2, <4>1, TokenSession
      <4>3. LoginSticks'
        BY <2>2, <4>1, <4>2 DEF LoginSticks
      <4>4. cache' \notin CacheJson
        BY <3>2, NamesAssumption
      <4> QED
        BY <3>2, <4>3, <4>4 DEF CacheIsCurrent, LogoutSticks
    <3> QED
      BY <1>3, <3>1, <3>2 DEF RefreshFailed
  <2> QED
    BY <1>0, <1>a, <2>1, <2>2, <2>3, <2>4, SerialStep
<1>4. CASE RefreshDone(c)
  <2>1. \A d \in Commands : d # c => Idle(d)
    BY <1>0, <1>4, Alone DEF RefreshDone
  <2>2. pc[c] = "answered" /\ pc' = [pc EXCEPT ![c] = "done"] /\ UNCHANGED <<revoked, session>>
    BY <1>4 DEF RefreshDone, Goto
  <2>3. HeldIsCurrent(c)'
    BY <1>0, <2>2 DEF HeldIsCurrent, TypeOK
  <2>4. CacheIsCurrent' /\ LogoutSticks' /\ LoginSticks'
    <3>1. CASE cache' = cache
      BY <2>2, <3>1, CacheUnchanged
    <3>2. CASE cache' = [local[c] EXCEPT !.refresh_token = answer[c]]
      <4>1. answer[c] \in Tokens
        BY <1>4 DEF RefreshDone
      <4>2. cache' \in CacheJson /\ cache'.identity = session
        BY <1>b, <2>2, <3>2, <4>1, UpdatedDocument
      <4>3. session \in Sessions
        BY <1>b, <2>2, DocumentParts
      <4>4. cache' # NoFile /\ session' # NoFile
        BY <2>2, <4>2, <4>3, NamesAssumption
      <4> QED
        BY <2>2, <4>2, <4>4 DEF CacheIsCurrent, LogoutSticks, LoginSticks
    <3> QED
      BY <1>4, <3>1, <3>2 DEF RefreshDone
  <2> QED
    BY <1>0, <1>a, <2>1, <2>2, <2>3, <2>4, SerialStep
<1> QED
  BY <1>1, <1>2, <1>3, <1>4 DEF Refresh

LEMMA SerialLogout ==
  ASSUME ~overlap, TypeOK, SessionInv, SerialInv, NEW c \in Logouts, Logout(c)
  PROVE  SerialInv'
<1>0. c \in Commands /\ c \notin Signs /\ c \notin Setters
  BY CommandsAssumption DEF Commands, Setters
<1>1. \A d \in Commands : d # c => Idle(d)
  BY <1>0, Alone DEF Logout, LogoutTest, LogoutDelete
<1>2. PICK p : pc' = [pc EXCEPT ![c] = p]
  BY DEF Logout, LogoutTest, LogoutDelete, Goto
<1>3. HeldIsCurrent(c)'
  BY <1>0 DEF HeldIsCurrent
<1>4. FieldsPreserved'
  BY ConfigUnchanged DEF Logout, LogoutTest, LogoutDelete
<1>5. CacheIsCurrent' /\ LogoutSticks' /\ LoginSticks'
  <2>1. CASE LogoutTest(c)
    BY <2>1, CacheUnchanged DEF LogoutTest
  <2>2. CASE LogoutDelete(c)
    BY <2>2, NamesAssumption DEF LogoutDelete, CacheIsCurrent, LogoutSticks, LoginSticks
  <2> QED
    BY <2>1, <2>2 DEF Logout
<1> QED
  BY <1>0, <1>1, <1>2, <1>3, <1>4, <1>5, SerialStep

LEMMA SerialThrow ==
  ASSUME ~overlap, TypeOK, SerialInv, NEW c \in Commands, Throw(c)
  PROVE  SerialInv'
<1>1. \A d \in Commands : d # c => Idle(d)
  BY DEF Throw, SerialInv, OneAtATime
<1>2. pc' = [pc EXCEPT ![c] = "failed"] /\ UNCHANGED <<cache, config, revoked, lastSet, session>>
  BY DEF Throw
<1>3. HeldIsCurrent(c)'
  BY <1>2 DEF HeldIsCurrent, TypeOK
<1> QED
  BY <1>1, <1>2, <1>3, ConfigUnchanged, CacheUnchanged, SerialStep

\* A step of commands that do not overlap.
LEMMA SerialNext ==
  ASSUME ~overlap, TypeOK, SessionInv, SerialInv, [Next]_vars
  PROVE  SerialInv'
<1>1. CASE Revoke
  <2>1. UNCHANGED <<cache, config, pc, local, lastSet, session>> /\ revoked \subseteq revoked'
    BY <1>1 DEF Revoke
  <2>2. OneAtATime' /\ \A c \in Commands : HeldIsCurrent(c)'
    BY <2>1 DEF SerialInv, OneAtATime, Idle, HeldIsCurrent
  <2> QED
    BY <2>1, <2>2, ConfigUnchanged, CacheUnchanged DEF SerialInv
<1>2. CASE UNCHANGED vars
  <2>1. OneAtATime' /\ \A c \in Commands : HeldIsCurrent(c)'
    BY <1>2 DEF vars, SerialInv, OneAtATime, Idle, HeldIsCurrent
  <2> QED
    BY <1>2, <2>1, ConfigUnchanged, CacheUnchanged DEF SerialInv, vars
<1> QED
  BY <1>1, <1>2, SerialLogin, SerialSave, SerialRefresh, SerialLogout, SerialThrow DEF Next

LEMMA SerialInit == Init => SerialInv
<1> SUFFICES ASSUME Init PROVE SerialInv
  OBVIOUS
<1>1. OneAtATime /\ \A c \in Commands : HeldIsCurrent(c)
  BY DEF Init, OneAtATime, Idle, HeldIsCurrent
<1>2. CacheIsCurrent /\ LogoutSticks /\ LoginSticks
  <2>1. CASE cache \in {NoFile, Corrupt}
    BY <2>1, NamesAssumption DEF Init, CacheIsCurrent, LogoutSticks, LoginSticks
  <2>2. CASE cache = [identity |-> Earlier, refresh_token |-> <<Earlier, 1>>] /\ cache \notin {NoFile, Corrupt}
    <3>1. session = Earlier /\ Earlier # NoFile
      BY <2>2, NamesAssumption DEF Init, Sessions
    <3> QED
      BY <2>2, <3>1 DEF CacheIsCurrent, LogoutSticks, LoginSticks
  <2> QED
    BY <2>1, <2>2 DEF Init
<1>3. FieldsPreserved
  BY DEF Init, FieldsPreserved, ConfigJson
<1> QED
  BY <1>1, <1>2, <1>3 DEF SerialInv

\* When the user runs one command at a time, config.json has for every field
\* the value last set (save_signing_defaults), a logout leaves no cache behind,
\* and the cache of a login goes only after a token was revoked
\* (try_cached_refresh).
THEOREM SerialCorrect == Spec => []SerialInv
<1>1. TypeOK /\ SessionInv /\ SerialInv /\ [Next]_vars => SerialInv'
  <2> SUFFICES ASSUME TypeOK, SessionInv, SerialInv, [Next]_vars PROVE SerialInv'
    OBVIOUS
  <2>1. UNCHANGED overlap
    BY DEF Next, vars, Login, AcceptRedirect, ExchangeCode, LoginWriteCache, Save, ReadConfig,
           WriteConfig, Refresh, ReadCache, AskRefresh, RefreshFailed, RefreshDone, Logout,
           LogoutTest, LogoutDelete, Throw, Revoke, Goto
  <2>2. CASE overlap
    BY <2>1, <2>2 DEF SerialInv
  <2>3. CASE ~overlap
    BY <2>3, SerialNext
  <2> QED
    BY <2>2, <2>3
<1> QED
  BY <1>1, SerialInit, InitHolds, StepHolds, PTL DEF Spec

-----------------------------------------------------------------------------
\* The private files that the cache and config.json are kept in: PrivateFile.  What
\* TokenCache takes for granted of them, one read or write of a file as one atomic
\* step, is what PrivateFile promises as long as no two writers overlap.

\* One writer at a time.
Serial == Overlap = FALSE

\* What an inode or a buffer holds.
Halves == [{1, 2} -> Texts \cup {Blank, Lost}]

\* An inode that holds one whole text.
Solid(i) == data[i][1] = data[i][2] /\ data[i][1] # Blank

\* A file that a rename has put at the path: a whole text, not the .tmp file, flushed
\* unless its flush failed, and damaged only if it did.
Fit(i) ==
  i # None =>
    /\ i # tmp /\ Solid(i)
    /\ i \in synced \/ i \in unflushed
    /\ data[i][1] = Lost => i \in unflushed

\* The path leads to such a file, and on disk too.
PathInv == Fit(final) /\ Fit(onDisk)

\* A writer's descriptor is the .tmp file, and its text is there before the rename.
WriterInv(w) ==
  /\ wfd[w] = None <=> wpc[w] \in {"open", "rename"}
  /\ wfd[w] # None => wfd[w] = tmp
  /\ wpc[w] = "half 2" => data[tmp][1] = w
  /\ wpc[w] \in {"close", "rename"} => tmp # None /\ data[tmp][1] = w /\ data[tmp][2] = w
  /\ wpc[w] = "rename" => tmp \in synced \/ tmp \in unflushed

\* A reader's descriptor is a whole text that nobody writes any more, and what it has
\* read so far is that text.
ReaderInv(r) ==
  /\ rfd[r] = None <=> rpc[r] = "open"
  /\ Fit(rfd[r])
  /\ rpc[r] \in {"half 2", "read"} => buf[r][1] = data[rfd[r]][1]
  /\ rpc[r] = "read" => buf[r][2] = data[rfd[r]][2]

OneWriter == \A v, w \in Writers : Busy(v) /\ Busy(w) => v = w

FileInv ==
  /\ FileTypeOK
  /\ OneWriter
  /\ PathInv
  /\ \A w \in Writers : WriterInv(w)
  /\ \A r \in Readers : ReaderInv(r)

\* One text in both halves.
LEMMA WholeHalves ==
  ASSUME NEW t \in Texts \cup {Blank, Lost}
  PROVE  Whole(t) \in Halves /\ Whole(t)[1] = t /\ Whole(t)[2] = t
  BY DEF Whole, Halves

\* Nothing but its own name and its writer's descriptor leads to the .tmp file.
LEMMA TmpApart ==
  ASSUME FileInv, tmp # None
  PROVE  tmp # final /\ tmp # onDisk /\ \A r \in Readers : tmp # rfd[r]
<1>1. Fit(final) /\ Fit(onDisk) /\ \A r \in Readers : Fit(rfd[r])
  BY DEF FileInv, PathInv, ReaderInv
<1>2. \A i : Fit(i) => tmp # i
  BY DEF Fit
<1> QED
  BY <1>1, <1>2

\* A file or none, and no .tmp file.
LEMMA InvInit ==
  ASSUME Serial, FileInit PROVE FileInv
<1>1. PICK i \in Inodes :
        /\ final \in {None, i}
        /\ data = [k \in Inodes |-> Whole(IF k = i THEN Old ELSE Blank)]
        /\ synced = {i}
  BY DEF FileInit
<1>2. /\ tmp = None /\ windows \in BOOLEAN /\ onDisk = final /\ unflushed = {}
      /\ wpc = [w \in Writers |-> "open"] /\ wfd = [w \in Writers |-> None]
      /\ rpc = [r \in Readers |-> "open"] /\ rfd = [r \in Readers |-> None]
      /\ buf = [r \in Readers |-> Whole(Blank)]
  BY DEF FileInit
<1>3. /\ data \in [Inodes -> Halves] /\ Whole(Blank) \in Halves
      /\ Solid(i) /\ i # None /\ data[i][1] # Lost
  <2>1. Old \in Texts /\ Old # Blank /\ Old # Lost /\ i # None
    BY FileAssumption DEF Texts
  <2>2. /\ Whole(Old) \in Halves /\ Whole(Old)[1] = Old /\ Whole(Old)[2] = Old
        /\ Whole(Blank) \in Halves
    BY <2>1, WholeHalves
  <2> QED
    BY <1>1, <2>1, <2>2 DEF Solid
<1>4. FileTypeOK
  BY <1>1, <1>2, <1>3 DEF FileTypeOK, Halves
<1>5. PathInv
  BY <1>1, <1>2, <1>3 DEF PathInv, Fit
<1>6. OneWriter /\ \A w \in Writers : WriterInv(w)
  BY <1>2 DEF OneWriter, Busy, WriterInv
<1>7. \A r \in Readers : ReaderInv(r)
  BY <1>2 DEF ReaderInv, Fit
<1> QED
  BY <1>4, <1>5, <1>6, <1>7 DEF FileInv

\* What the path, the disk and the readers lead to stays as it is.
Kept ==
  \A k \in Inodes :
    k \in {final, onDisk} \/ (\E r \in Readers : k = rfd[r]) =>
      /\ data'[k] = data[k]
      /\ k \in synced' <=> k \in synced
      /\ k \in unflushed' <=> k \in unflushed

\* The .tmp file is opened: no descriptor or name but its own leads to it.
LEMMA OpenHolds ==
  ASSUME Serial, FileInv, NEW w \in Writers, OpenTmp(w)
  PROVE  FileInv' /\ UNCHANGED <<final, onDisk, readers>> /\ Kept
<1>0. /\ FileTypeOK /\ OneWriter /\ PathInv
      /\ \A v \in Writers : WriterInv(v)
      /\ \A r \in Readers : ReaderInv(r)
  BY DEF FileInv
<1>1. /\ wpc[w] = "open" /\ wpc' = [wpc EXCEPT ![w] = "half 1"]
      /\ UNCHANGED <<windows, readers, final, onDisk>>
      /\ \A v \in Writers : ~Busy(v)
  BY DEF Serial, OpenTmp, WriterGoto
<1>2. PICK i \in Inodes :
        /\ IF tmp # None THEN i = tmp ELSE i \notin InUse
        /\ tmp' = i
        /\ data' = [k \in Inodes |-> IF k \in InUse \ {i} THEN data[k] ELSE Whole(Blank)]
        /\ synced' = (synced \cap InUse) \ {i}
        /\ unflushed' = (unflushed \cap InUse) \ {i}
        /\ wfd' = [wfd EXCEPT ![w] = i]
  BY DEF OpenTmp
<1>3. i # None /\ i # final /\ i # onDisk /\ \A r \in Readers : i # rfd[r]
  <2>1. i # None
    BY FileAssumption
  <2>2. CASE tmp # None
    BY <1>0, <1>2, <2>1, <2>2 DEF PathInv, ReaderInv, Fit
  <2>3. CASE tmp = None
    BY <1>2, <2>1, <2>3 DEF InUse
  <2> QED
    BY <2>1, <2>2, <2>3
<1>4. data' \in [Inodes -> Halves] /\ Kept
  <2>1. data' \in [Inodes -> Halves]
    BY <1>0, <1>2, WholeHalves DEF FileTypeOK, Halves
  <2>2. Kept
    BY <1>2, <1>3 DEF Kept, InUse
  <2> QED
    BY <2>1, <2>2
<1>5. FileTypeOK'
  BY <1>0, <1>1, <1>2, <1>4 DEF FileTypeOK, Halves, readers
<1>6. OneWriter'
  BY <1>0, <1>1 DEF OneWriter, Busy, FileTypeOK
<1>7. PathInv'
  BY <1>0, <1>1, <1>2, <1>3, <1>4 DEF PathInv, Fit, Solid, FileTypeOK, Kept
<1>8. ASSUME NEW v \in Writers PROVE WriterInv(v)'
  <2>1. wpc \in [Writers -> {"open", "half 1", "half 2", "close", "rename"}]
        /\ wfd \in [Writers -> Inodes \cup {None}] /\ wpc[v] = "open" /\ wfd[v] = None
    BY <1>0, <1>1 DEF FileTypeOK, Busy, WriterInv
  <2>2. CASE v = w
    BY <1>1, <1>2, <1>3, <2>1, <2>2 DEF WriterInv
  <2>3. CASE v # w
    BY <1>1, <1>2, <2>1, <2>3 DEF WriterInv
  <2> QED
    BY <2>2, <2>3
<1>9. ASSUME NEW r \in Readers PROVE ReaderInv(r)'
  <2>1. rfd[r] # None => /\ data'[rfd[r]] = data[rfd[r]]
                         /\ rfd[r] \in synced' <=> rfd[r] \in synced
                         /\ rfd[r] \in unflushed' <=> rfd[r] \in unflushed
    BY <1>0, <1>4 DEF FileTypeOK, Kept
  <2> QED
    BY <1>0, <1>1, <1>2, <1>3, <2>1 DEF ReaderInv, Fit, Solid, readers
<1> QED
  BY <1>1, <1>4, <1>5, <1>6, <1>7, <1>8, <1>9 DEF FileInv

\* Half a text is written, to the .tmp file only.
LEMMA PutHolds ==
  ASSUME FileInv, NEW w \in Writers, WriteHalf1(w) \/ WriteHalf2(w)
  PROVE  FileInv' /\ UNCHANGED <<final, onDisk, readers>> /\ Kept
<1>0. /\ FileTypeOK /\ OneWriter /\ PathInv
      /\ \A v \in Writers : WriterInv(v)
      /\ \A r \in Readers : ReaderInv(r)
  BY DEF FileInv
<1>1. PICK half \in {1, 2} :
        /\ wpc[w] = IF half = 1 THEN "half 1" ELSE "half 2"
        /\ wpc' = [wpc EXCEPT ![w] = IF half = 1 THEN "half 2" ELSE "close"]
        /\ data' = [data EXCEPT ![wfd[w]][half] = w]
        /\ synced' = synced \ {wfd[w]}
        /\ UNCHANGED <<windows, readers, final, tmp, onDisk, unflushed, wfd>>
  <2>1. CASE WriteHalf1(w)
    <3>1. 1 \in {1, 2} /\ (1 = 2 => FALSE)
      OBVIOUS
    <3> QED
      BY <2>1, <3>1 DEF WriteHalf1, WriterGoto, Put
  <2>2. CASE WriteHalf2(w)
    <3>1. 2 \in {1, 2} /\ (2 = 1 => FALSE)
      OBVIOUS
    <3> QED
      BY <2>2, <3>1 DEF WriteHalf2, WriterGoto, Put
  <2> QED
    BY <2>1, <2>2
<1>2. wfd[w] = tmp /\ tmp \in Inodes /\ tmp # None
  BY <1>0, <1>1 DEF WriterInv, FileTypeOK
<1>3. tmp # final /\ tmp # onDisk /\ \A r \in Readers : tmp # rfd[r]
  BY <1>2, TmpApart
<1>4. /\ data' \in [Inodes -> Halves] /\ data'[tmp][half] = w
      /\ half = 2 => data'[tmp][1] = data[tmp][1]
      /\ \A k \in Inodes \ {tmp} : data'[k] = data[k]
  <2>1. data \in [Inodes -> Halves] /\ w \in Texts \cup {Blank, Lost}
    BY <1>0 DEF FileTypeOK, Halves, Texts
  <2>2. data[tmp] \in [{1, 2} -> Texts \cup {Blank, Lost}]
    BY <1>2, <2>1 DEF Halves
  <2>3. [data[tmp] EXCEPT ![half] = w] \in [{1, 2} -> Texts \cup {Blank, Lost}]
    BY <2>1, <2>2
  <2>4. data' = [data EXCEPT ![tmp] = [data[tmp] EXCEPT ![half] = w]]
    BY <1>1, <1>2, <2>1
  <2> QED
    BY <1>2, <2>1, <2>2, <2>3, <2>4 DEF Halves
<1>5. FileTypeOK'
  BY <1>0, <1>1, <1>2, <1>4 DEF FileTypeOK, Halves, readers
<1>6. OneWriter'
  BY <1>0, <1>1 DEF OneWriter, Busy, FileTypeOK
<1>7. PathInv'
  BY <1>0, <1>1, <1>2, <1>3, <1>4 DEF PathInv, Fit, Solid, FileTypeOK
<1>8. ASSUME NEW v \in Writers PROVE WriterInv(v)'
  <2>1. CASE v = w
    <3>1. wpc \in [Writers -> {"open", "half 1", "half 2", "close", "rename"}] /\ WriterInv(w)
      BY <1>0 DEF FileTypeOK
    <3>2. CASE half = 1
      BY <1>1, <1>2, <1>4, <2>1, <3>1, <3>2 DEF WriterInv
    <3>3. CASE half = 2
      BY <1>1, <1>2, <1>4, <2>1, <3>1, <3>3 DEF WriterInv
    <3> QED
      BY <3>2, <3>3
  <2>2. CASE v # w
    <3>1. wpc[v] = "open" /\ wpc'[v] = "open" /\ wfd'[v] = wfd[v]
      BY <1>0, <1>1, <2>2 DEF OneWriter, Busy, FileTypeOK
    <3> QED
      BY <1>0, <3>1 DEF WriterInv
  <2> QED
    BY <2>1, <2>2
<1>9. ASSUME NEW r \in Readers PROVE ReaderInv(r)'
  <2>1. rfd[r] # None => data'[rfd[r]] = data[rfd[r]]
    BY <1>0, <1>3, <1>4 DEF FileTypeOK
  <2>2. UNCHANGED <<tmp, unflushed, rpc, rfd, buf>> /\ synced' = synced \ {tmp} /\ tmp # rfd[r]
    BY <1>1, <1>2, <1>3 DEF readers
  <2> QED
    BY <1>0, <2>1, <2>2 DEF ReaderInv, Fit, Solid
<1>10. Kept
  BY <1>1, <1>2, <1>3, <1>4 DEF Kept
<1> QED
  BY <1>1, <1>5, <1>6, <1>7, <1>8, <1>9, <1>10 DEF FileInv

\* Flushing, closing and giving up change no text and no name.
LEMMA CloseHolds ==
  ASSUME FileInv, NEW w \in Writers, SyncAndClose(w) \/ Fail(w)
  PROVE  FileInv' /\ UNCHANGED <<final, onDisk, readers>> /\ Kept
<1>0. /\ FileTypeOK /\ OneWriter /\ PathInv
      /\ \A v \in Writers : WriterInv(v)
      /\ \A r \in Readers : ReaderInv(r)
  BY DEF FileInv
<1>1. /\ UNCHANGED <<windows, readers, final, tmp, data, onDisk>>
      /\ wfd' = [wfd EXCEPT ![w] = None]
      /\ \/ /\ wpc[w] = "close" /\ wpc' = [wpc EXCEPT ![w] = "rename"]
            /\ \/ synced' = synced \cup {wfd[w]} /\ unflushed' = unflushed
               \/ unflushed' = unflushed \cup {wfd[w]} /\ synced' = synced
         \/ /\ Busy(w) /\ wpc' = [wpc EXCEPT ![w] = "open"]
            /\ synced' = synced /\ unflushed' = unflushed
  BY DEF SyncAndClose, Fail, WriterGoto, files
<1>a. UNCHANGED <<windows, rpc, rfd, buf, final, tmp, data, onDisk>>
  BY <1>1 DEF readers
<1>2. wpc[w] = "close" => wfd[w] = tmp /\ wfd[w] \in Inodes
  BY <1>0 DEF WriterInv, FileTypeOK
<1>3. /\ synced \subseteq synced' /\ synced' \subseteq Inodes /\ synced' \subseteq synced \cup {tmp}
      /\ unflushed \subseteq unflushed' /\ unflushed' \subseteq Inodes
      /\ unflushed' \subseteq unflushed \cup {tmp}
      /\ wpc'[w] = "rename" => tmp \in synced' \/ tmp \in unflushed'
  BY <1>0, <1>1, <1>2 DEF FileTypeOK
<1>4. /\ wpc \in [Writers -> {"open", "half 1", "half 2", "close", "rename"}]
      /\ wfd \in [Writers -> Inodes \cup {None}]
  BY <1>0 DEF FileTypeOK
<1>5. FileTypeOK'
  <2>1. /\ wpc' \in [Writers -> {"open", "half 1", "half 2", "close", "rename"}]
        /\ wfd' \in [Writers -> Inodes \cup {None}]
    BY <1>1, <1>4
  <2> QED
    BY <1>0, <1>a, <1>3, <2>1 DEF FileTypeOK
<1>6. OneWriter'
  BY <1>0, <1>1 DEF OneWriter, Busy, FileTypeOK
<1>7. PathInv'
  BY <1>0, <1>1, <1>3 DEF PathInv, Fit, Solid
<1>8. ASSUME NEW v \in Writers PROVE WriterInv(v)'
  <2>1. CASE v = w
    <3>1. /\ WriterInv(w) /\ wpc'[w] \in {"open", "rename"} /\ wfd'[w] = None
          /\ wpc'[w] = "rename" => wpc[w] = "close"
      BY <1>0, <1>1, <1>4
    <3> QED
      BY <1>a, <1>3, <2>1, <3>1 DEF WriterInv
  <2>2. CASE v # w
    <3>1. WriterInv(v) /\ wpc'[v] = wpc[v] /\ wfd'[v] = wfd[v]
      BY <1>0, <1>1, <1>4, <2>2
    <3> QED
      BY <1>1, <1>3, <3>1 DEF WriterInv
  <2> QED
    BY <2>1, <2>2
<1>9. ASSUME NEW r \in Readers PROVE ReaderInv(r)'
  BY <1>0, <1>1, <1>3 DEF ReaderInv, Fit, Solid, readers
<1>10. Kept
  <2>1. tmp # None => tmp # final /\ tmp # onDisk /\ \A r \in Readers : tmp # rfd[r]
    BY TmpApart
  <2> QED
    BY <1>1, <1>3, <2>1, FileAssumption DEF Kept
<1> QED
  BY <1>1, <1>5, <1>6, <1>7, <1>8, <1>9, <1>10 DEF FileInv

\* The rename puts the writer's own text at the path.
LEMMA RenameHolds ==
  ASSUME Serial, FileInv, NEW w \in Writers, Rename(w)
  PROVE  FileInv' /\ UNCHANGED <<data, onDisk, synced, readers>>
         /\ final' \in Inodes /\ data[final'][1] = w /\ data[final'][2] = w
<1>0. /\ FileTypeOK /\ OneWriter /\ PathInv
      /\ \A v \in Writers : WriterInv(v)
      /\ \A r \in Readers : ReaderInv(r)
  BY DEF FileInv
<1>1. /\ wpc[w] = "rename" /\ wpc' = [wpc EXCEPT ![w] = "open"]
      /\ final' = tmp /\ tmp' = None
      /\ UNCHANGED <<windows, readers, data, onDisk, synced, unflushed, wfd>>
  BY DEF Rename, WriterGoto
<1>2. /\ tmp # None /\ tmp \in Inodes /\ data[tmp][1] = w /\ data[tmp][2] = w
      /\ tmp \in synced \/ tmp \in unflushed
      /\ wfd[w] = None
  BY <1>0, <1>1 DEF WriterInv, FileTypeOK
<1>3. w # Blank /\ w # Lost
  BY FileAssumption DEF Texts
<1>5. FileTypeOK'
  BY <1>0, <1>1, <1>2 DEF FileTypeOK, readers
<1>6. OneWriter'
  BY <1>0, <1>1 DEF OneWriter, Busy, FileTypeOK
<1>7. PathInv'
  BY <1>0, <1>1, <1>2, <1>3 DEF PathInv, Fit, Solid
<1>8. ASSUME NEW v \in Writers PROVE WriterInv(v)'
  <2>1. wpc'[v] = "open" /\ wfd'[v] = None
    <3>1. v # w => wpc[v] = "open" /\ wfd[v] = None
      BY <1>0, <1>1 DEF OneWriter, Busy, WriterInv
    <3> QED
      BY <1>0, <1>1, <1>2, <3>1 DEF FileTypeOK
  <2> QED
    BY <2>1 DEF WriterInv
<1>9. ASSUME NEW r \in Readers PROVE ReaderInv(r)'
  BY <1>0, <1>1 DEF ReaderInv, Fit, Solid, readers
<1> QED
  BY <1>1, <1>2, <1>5, <1>6, <1>7, <1>8, <1>9 DEF FileInv

\* remove_file takes the name away, the kernel writes the directory back.
LEMMA NameHolds ==
  ASSUME FileInv, RemoveFile \/ WriteBack
  PROVE  /\ FileInv' /\ UNCHANGED <<data, synced, readers>>
         /\ RemoveFile => final' = None /\ onDisk' = onDisk
         /\ WriteBack => final' = final /\ onDisk' = final
<1>1. UNCHANGED <<windows, tmp, data, synced, unflushed, wpc, wfd, rpc, rfd, buf>>
  BY DEF RemoveFile, WriteBack, writers, readers
<1>2. /\ RemoveFile => final' = None /\ onDisk' = onDisk
      /\ WriteBack => final' = final /\ onDisk' = final
  BY DEF RemoveFile, WriteBack
<1>3. FileTypeOK'
  BY <1>1, <1>2 DEF FileInv, FileTypeOK
<1>4. PathInv' /\ OneWriter'
  BY <1>1, <1>2 DEF FileInv, PathInv, Fit, Solid, OneWriter, Busy
<1>5. \A w \in Writers : WriterInv(w)'
  BY <1>1 DEF FileInv, WriterInv
<1>6. \A r \in Readers : ReaderInv(r)'
  BY <1>1 DEF FileInv, ReaderInv, Fit, Solid
<1> QED
  BY <1>1, <1>2, <1>3, <1>4, <1>5, <1>6 DEF FileInv, readers

\* After a loss of power the path leads to what it led to on disk, whole unless it was
\* not flushed.
LEMMA PowerCutHolds ==
  ASSUME FileInv, PowerCut
  PROVE  /\ FileInv' /\ UNCHANGED <<onDisk, readers>> /\ final' = onDisk
         /\ onDisk # None =>
              \/ data'[onDisk] = data[onDisk] /\ onDisk \in synced'
              \/ data'[onDisk] = Whole(Lost) /\ onDisk \notin synced /\ onDisk \notin synced'
         /\ \A r \in Readers : rfd[r] = None
<1>0. FileTypeOK /\ PathInv /\ \A r \in Readers : ReaderInv(r)
  BY DEF FileInv
<1>1. /\ \A r \in Readers : rpc[r] = "open"
      /\ wpc' = [w \in Writers |-> "open"] /\ wfd' = [w \in Writers |-> None]
      /\ final' = onDisk /\ tmp' \in {None, tmp}
      /\ UNCHANGED <<windows, onDisk, unflushed, readers>>
  BY DEF PowerCut
<1>2. PICK lost \in SUBSET ((Inodes \ synced) \cap {onDisk, tmp}) :
        /\ data' = [i \in Inodes |-> IF i \in lost THEN Whole(Lost) ELSE data[i]]
        /\ synced' = (Inodes \cap {onDisk, tmp}) \ lost
  BY DEF PowerCut
<1>3. data' \in [Inodes -> Halves]
  <2>1. data \in [Inodes -> Halves] /\ Whole(Lost) \in Halves
    BY <1>0, WholeHalves DEF FileTypeOK, Halves
  <2> QED
    BY <1>2, <2>1
<1>4. \A r \in Readers : rfd[r] = None
  BY <1>0, <1>1 DEF ReaderInv
<1>5. onDisk # None =>
        \/ data'[onDisk] = data[onDisk] /\ onDisk \in synced'
        \/ data'[onDisk] = Whole(Lost) /\ onDisk \notin synced /\ onDisk \notin synced'
  BY <1>0, <1>2 DEF FileTypeOK
<1>6. FileTypeOK'
  BY <1>0, <1>1, <1>2, <1>3 DEF FileTypeOK, Halves, readers
<1>7. PathInv'
  <2>1. Whole(Lost)[1] = Lost /\ Whole(Lost)[2] = Lost /\ Lost # Blank
    BY WholeHalves DEF Lost, Blank
  <2>2. onDisk # None => onDisk # tmp'
    BY <1>0, <1>1 DEF PathInv, Fit
  <2>3. CASE onDisk # None /\ data'[onDisk] = data[onDisk] /\ onDisk \in synced'
    BY <1>0, <1>1, <2>2, <2>3 DEF PathInv, Fit, Solid
  <2>4. CASE onDisk # None /\ data'[onDisk] = Whole(Lost) /\ onDisk \notin synced
    BY <1>0, <1>1, <2>1, <2>2, <2>4 DEF PathInv, Fit, Solid
  <2> QED
    BY <1>1, <1>5, <2>3, <2>4 DEF PathInv, Fit
<1>8. OneWriter' /\ \A w \in Writers : WriterInv(w)'
  BY <1>1 DEF OneWriter, Busy, WriterInv
<1>9. \A r \in Readers : ReaderInv(r)'
  BY <1>1, <1>4 DEF ReaderInv, Fit, readers
<1> QED
  BY <1>1, <1>4, <1>5, <1>6, <1>7, <1>8, <1>9 DEF FileInv

\* Readers change no file.
LEMMA ReaderHolds ==
  ASSUME FileInv, NEW r \in Readers, Reader(r)
  PROVE  FileInv'
<1>0. /\ FileTypeOK /\ PathInv /\ ReaderInv(r)
      /\ rpc \in [Readers -> {"open", "half 1", "half 2", "read"}]
      /\ rfd \in [Readers -> Inodes \cup {None}]
      /\ buf \in [Readers -> Halves]
      /\ data \in [Inodes -> Halves] /\ final \in Inodes \cup {None}
  BY DEF FileInv, FileTypeOK, Halves
<1>1. UNCHANGED <<windows, final, tmp, data, onDisk, synced, unflushed, wpc, wfd>>
  BY DEF Reader, OpenRead, ReadHalf1, ReadHalf2, CloseRead,
     ReaderGoto, files, writers
<1>2. OneWriter' /\ PathInv' /\ \A w \in Writers : WriterInv(w)'
  BY <1>1 DEF FileInv, OneWriter, Busy, PathInv, Fit, Solid, WriterInv
<1>3. ASSUME rpc' \in [Readers -> {"open", "half 1", "half 2", "read"}],
             rfd' \in [Readers -> Inodes \cup {None}], buf' \in [Readers -> Halves],
             \A q \in Readers \ {r} : rpc'[q] = rpc[q] /\ rfd'[q] = rfd[q] /\ buf'[q] = buf[q],
             ReaderInv(r)'
      PROVE  FileInv'
  <2>1. FileTypeOK'
    BY <1>0, <1>1, <1>3 DEF FileTypeOK, Halves
  <2>2. ASSUME NEW q \in Readers, q # r PROVE ReaderInv(q)'
    <3>1. ReaderInv(q)
      BY DEF FileInv
    <3> QED
      BY <1>1, <1>3, <2>2, <3>1 DEF ReaderInv, Fit, Solid
  <2> QED
    BY <1>2, <1>3, <2>1, <2>2 DEF FileInv
<1>4. CASE OpenRead(r)
  <2>1. /\ rpc[r] = "open" /\ rpc' = [rpc EXCEPT ![r] = IF final = None THEN "open" ELSE "half 1"]
        /\ rfd' = [rfd EXCEPT ![r] = final] /\ buf' = [buf EXCEPT ![r] = Whole(Blank)]
    BY <1>4 DEF OpenRead, ReaderGoto
  <2>2. Whole(Blank) \in Halves
    BY WholeHalves
  <2>3. ReaderInv(r)'
    BY <1>0, <1>1, <2>1 DEF ReaderInv, PathInv, Fit, Solid
  <2> QED
    BY <1>0, <1>1, <1>3, <2>1, <2>2, <2>3
<1>5. CASE CloseRead(r)
  <2>1. /\ rpc[r] = "read" /\ rpc' = [rpc EXCEPT ![r] = "open"]
        /\ rfd' = [rfd EXCEPT ![r] = None] /\ buf' = buf
    BY <1>5 DEF CloseRead, ReaderGoto
  <2>2. ReaderInv(r)'
    BY <1>0, <2>1 DEF ReaderInv, Fit
  <2> QED
    BY <1>0, <1>1, <1>3, <2>1, <2>2
<1>6. CASE ReadHalf1(r) \/ ReadHalf2(r)
  <2>0. PICK half \in {1, 2} :
          /\ rpc[r] = IF half = 1 THEN "half 1" ELSE "half 2"
          /\ rpc' = [rpc EXCEPT ![r] = IF half = 1 THEN "half 2" ELSE "read"]
          /\ ReadHalf(r, half)
    <3>1. CASE ReadHalf1(r)
      <4>1. 1 \in {1, 2} /\ (1 = 2 => FALSE)
        OBVIOUS
      <4> QED
        BY <3>1, <4>1 DEF ReadHalf1, ReaderGoto
    <3>2. CASE ReadHalf2(r)
      <4>1. 2 \in {1, 2} /\ (2 = 1 => FALSE)
        OBVIOUS
      <4> QED
        BY <3>2, <4>1 DEF ReadHalf2, ReaderGoto
    <3> QED
      BY <1>6, <3>1, <3>2
  <2>1. rfd' = rfd /\ buf' = [buf EXCEPT ![r][half] = data[rfd[r]][half]]
    BY <2>0 DEF ReadHalf
  <2>2. rfd[r] \in Inodes
    BY <1>0, <2>0 DEF ReaderInv
  <2>3. data[rfd[r]][half] \in Texts \cup {Blank, Lost}
    BY <1>0, <2>2 DEF Halves
  <2>4. buf[r] \in [{1, 2} -> Texts \cup {Blank, Lost}]
    BY <1>0 DEF Halves
  <2> DEFINE x == data[rfd[r]][half]
  <2> HIDE DEF x
  <2>5. [buf[r] EXCEPT ![half] = x] \in [{1, 2} -> Texts \cup {Blank, Lost}]
    BY <2>3, <2>4 DEF x
  <2>6. /\ buf' \in [Readers -> Halves] /\ buf'[r][half] = x
        /\ half = 2 => buf'[r][1] = buf[r][1]
        /\ \A q \in Readers \ {r} : buf'[q] = buf[q]
    <3>1. buf' = [buf EXCEPT ![r] = [buf[r] EXCEPT ![half] = x]]
      BY <1>0, <2>1 DEF x
    <3>2. buf' \in [Readers -> Halves]
      BY <1>0, <2>5, <3>1 DEF Halves
    <3>3. buf'[r] = [buf[r] EXCEPT ![half] = x] /\ \A q \in Readers \ {r} : buf'[q] = buf[q]
      BY <1>0, <3>1
    <3>4. buf'[r][half] = x /\ (half = 2 => buf'[r][1] = buf[r][1])
      BY <2>4, <3>3
    <3> QED
      BY <3>2, <3>3, <3>4
  <2>7. ReaderInv(r)'
    <3>1. CASE half = 1
      BY <1>0, <1>1, <2>0, <2>1, <2>2, <2>6, <3>1 DEF ReaderInv, Fit, Solid, x
    <3>2. CASE half = 2
      BY <1>0, <1>1, <2>0, <2>1, <2>2, <2>6, <3>2 DEF ReaderInv, Fit, Solid, x
    <3> QED
      BY <3>1, <3>2
  <2>8. /\ rpc' \in [Readers -> {"open", "half 1", "half 2", "read"}]
        /\ \A q \in Readers \ {r} : rpc'[q] = rpc[q]
    BY <1>0, <2>0
  <2>9. /\ buf' \in [Readers -> Halves] /\ rfd' \in [Readers -> Inodes \cup {None}]
        /\ \A q \in Readers \ {r} : rpc'[q] = rpc[q] /\ rfd'[q] = rfd[q] /\ buf'[q] = buf[q]
    BY <1>0, <2>1, <2>6, <2>8
  <2> QED
    BY <1>1, <1>3, <2>7, <2>8, <2>9
<1> QED
  BY <1>4, <1>5, <1>6 DEF Reader

\* Every step keeps the invariant.
LEMMA FileStep ==
  ASSUME Serial, FileInv, [FileNext]_fileVars PROVE FileInv'
<1>1. CASE UNCHANGED fileVars
  <2>1. UNCHANGED <<windows, final, tmp, data, onDisk, synced, unflushed, wpc, wfd, rpc, rfd, buf>>
    BY <1>1 DEF fileVars, files, writers, readers
  <2>2. FileTypeOK'
    BY <2>1 DEF FileInv, FileTypeOK
  <2>3. PathInv' /\ OneWriter' /\ \A w \in Writers : WriterInv(w)'
    BY <2>1 DEF FileInv, OneWriter, Busy, PathInv, Fit, Solid, WriterInv
  <2>4. \A r \in Readers : ReaderInv(r)'
    BY <2>1 DEF FileInv, ReaderInv, Fit, Solid
  <2> QED
    BY <2>2, <2>3, <2>4 DEF FileInv
<1> QED
  BY <1>1, OpenHolds, PutHolds, CloseHolds, RenameHolds, NameHolds, PowerCutHolds, ReaderHolds
  DEF FileNext, Writer

\* The inductive invariant holds when no two writers overlap.
LEMMA FileCorrect ==
  ASSUME Serial
  PROVE  FileSpec => []FileInv
<1>1. FileInv /\ [FileNext]_fileVars => FileInv'
  BY FileStep
<1>2. FileInit => FileInv
  BY InvInit
<1> QED
  BY <1>1, <1>2, PTL DEF FileSpec

\* A whole text is one of the texts, or damaged; it is not mistaken for a torn one.
LEMMA SolidText ==
  ASSUME Serial, NEW d \in Halves, d[1] = d[2], d[1] # Blank
  PROVE  /\ Text(d) = d[1] /\ d[1] \in Texts \cup {Lost} /\ d[1] # Torn
         /\ d[1] # None /\ d # Whole(Blank)
<1>1. d[1] \in Texts \cup {Lost}
  BY DEF Halves
<1>2. d # Whole(Blank)
  BY DEF Whole
<1>3. d[1] # Torn /\ d[1] # None
  BY <1>1, FileAssumption DEF Lost, Torn, None
<1> QED
  BY <1>1, <1>2, <1>3 DEF Text

\* For any number of processes that do not write at the same time, and whatever they
\* fail at, the path is absent or leads to one whole text, after a loss of power too
\* unless the flush of that text had failed or was not tried
\* (atomic_write_private_file's fsync, whose result nobody looks at, and rename).
THEOREM PathAlwaysWhole ==
  ASSUME Serial
  PROVE  FileSpec => []PathWhole
<1>1. FileInv => PathWhole
  <2> SUFFICES ASSUME FileInv PROVE PathWhole
    OBVIOUS
  <2>1. FileTypeOK /\ PathInv
    BY DEF FileInv
  <2>2. final # None => /\ data[final] \in Halves /\ Solid(final)
                        /\ data[final][1] = Lost => final \in unflushed
    BY <2>1 DEF FileTypeOK, PathInv, Fit, Halves
  <2>3. final # None => Text(data[final]) # Torn /\ Text(data[final]) = data[final][1]
    BY <2>2, SolidText DEF Solid
  <2> QED
    BY <2>1, <2>2, <2>3 DEF PathWhole
<1> QED
  BY <1>1, FileCorrect, PTL

\* A finished read is the text of one write, or what a loss of power has left of a
\* file whose flush had failed or was not tried.
ReadsExplained ==
  \A r \in Readers : rpc[r] = "read" =>
    /\ Text(buf[r]) \in Texts \cup {Lost}
    /\ Text(buf[r]) = Lost => rfd[r] \in unflushed

\* "A concurrent reader sees either the old contents or the new -- never a torn
\* write" (platform.hpp): true of writers that do not overlap, but for the damage a
\* loss of power may do to a file that was not flushed; for two writers that do
\* overlap, TLC shows the opposite.
THEOREM ReadsNeverTorn ==
  ASSUME Serial
  PROVE  FileSpec => [](NeverTorn /\ ReadsExplained)
<1>1. FileInv => NeverTorn /\ ReadsExplained
  <2> SUFFICES ASSUME FileInv, NEW r \in Readers, rpc[r] = "read"
               PROVE  /\ Text(buf[r]) # Torn /\ Text(buf[r]) \in Texts \cup {Lost}
                      /\ Text(buf[r]) = Lost => rfd[r] \in unflushed
    BY DEF NeverTorn, ReadsExplained
  <2>1. FileTypeOK /\ ReaderInv(r)
    BY DEF FileInv
  <2>2. buf[r] \in Halves
    BY <2>1 DEF FileTypeOK, Halves
  <2>3. /\ buf[r][1] = buf[r][2] /\ buf[r][1] # Blank
        /\ buf[r][1] = Lost => rfd[r] \in unflushed
    BY <2>1 DEF ReaderInv, Fit, Solid
  <2>4. Text(buf[r]) = buf[r][1] /\ buf[r][1] # Torn /\ buf[r][1] \in Texts \cup {Lost}
    BY <2>2, <2>3, SolidText
  <2> QED
    BY <2>3, <2>4
<1> QED
  BY <1>1, FileCorrect, PTL

\* What a reader is going to return does not change while its descriptor's text, or
\* what it has read of it, stays.
LEMMA SameGot ==
  ASSUME \A q \in Readers : /\ rfd'[q] = rfd[q]
                            /\ rfd[q] # None => data'[rfd[q]] = data[rfd[q]]
                            /\ rfd[q] = None => buf'[q] = buf[q]
  PROVE  Got' = Got
<1> DEFINE G(q) == IF rfd[q] # None THEN Text(data[rfd[q]])
                   ELSE IF buf[q] = Whole(Blank) THEN None ELSE Text(buf[q])
<1>1. ASSUME NEW q \in Readers PROVE G(q)' = G(q)
  BY DEF Text, Whole
<1> QED
  BY <1>1 DEF Got

\* What the path and the disk hold stays while their files do.
LEMMA SameHeld ==
  ASSUME FileInv, UNCHANGED <<final, onDisk>>, Kept
  PROVE  UNCHANGED <<Held(final), Held(onDisk)>>
<1>1. final \in Inodes \cup {None} /\ onDisk \in Inodes \cup {None}
  BY DEF FileInv, FileTypeOK
<1>2. /\ final # None => data'[final] = data[final] /\ (final \in synced' <=> final \in synced)
      /\ onDisk # None => data'[onDisk] = data[onDisk] /\ (onDisk \in synced' <=> onDisk \in synced)
  BY <1>1 DEF Kept
<1> QED
  BY <1>2 DEF Held, Text

\* Every step is one of the register, or none: the rename is Put, the open Get.
LEMMA RegisterStep ==
  ASSUME Serial, FileInv, [FileNext]_fileVars
  PROVE  Abstract!Next \/ UNCHANGED <<Held(final), Held(onDisk), Got>>
<1>0. /\ PathInv /\ data \in [Inodes -> Halves] /\ final \in Inodes \cup {None}
      /\ rfd \in [Readers -> Inodes \cup {None}] /\ buf \in [Readers -> Halves]
      /\ \A r \in Readers : ReaderInv(r)
  BY DEF FileInv, FileTypeOK, Halves
<1>1. ASSUME NEW w \in Writers,
             OpenTmp(w) \/ WriteHalf1(w) \/ WriteHalf2(w) \/ SyncAndClose(w) \/ Fail(w)
      PROVE  UNCHANGED <<Held(final), Held(onDisk), Got>>
  <2>1. UNCHANGED <<final, onDisk, rpc, rfd, buf>> /\ Kept
    BY <1>1, OpenHolds, PutHolds, CloseHolds DEF readers
  <2>2. \A r \in Readers : rfd[r] # None => data'[rfd[r]] = data[rfd[r]]
    BY <1>0, <2>1 DEF Kept
  <2>3. Got' = Got
    BY <2>1, <2>2, SameGot
  <2> QED
    BY <2>1, <2>3, SameHeld
<1>3. ASSUME NEW w \in Writers, Rename(w)
      PROVE  \E v \in Texts, b \in BOOLEAN : Abstract!Put(v, b)
  <2>1. /\ UNCHANGED <<data, onDisk, synced, rpc, rfd, buf>>
        /\ final' \in Inodes /\ data[final'][1] = w /\ data[final'][2] = w
    BY <1>3, RenameHolds DEF readers
  <2>2. w \in Texts /\ w # Blank /\ final' # None
    BY <2>1, FileAssumption DEF Texts
  <2> DEFINE b == final' \in synced
  <2>3. Held(final)' = [text |-> w, solid |-> b] /\ b \in BOOLEAN
    BY <2>1, <2>2 DEF Held, Text
  <2>4. Got' = Got /\ Held(onDisk)' = Held(onDisk)
    BY <2>1, SameGot DEF Held, Text
  <2>5. Abstract!Put(w, b)
    BY <2>3, <2>4 DEF Abstract!Put
  <2> QED
    BY <2>2, <2>3, <2>5
<1>4. /\ RemoveFile => Abstract!Remove
      /\ WriteBack => Abstract!Settle
  <2> SUFFICES ASSUME RemoveFile \/ WriteBack
               PROVE  (RemoveFile => Abstract!Remove) /\ (WriteBack => Abstract!Settle)
    OBVIOUS
  <2>1. /\ UNCHANGED <<data, synced, rpc, rfd, buf>>
        /\ RemoveFile => final' = None /\ onDisk' = onDisk
        /\ WriteBack => final' = final /\ onDisk' = final
    BY NameHolds DEF readers
  <2>2. RemoveFile => Held(final)' = [text |-> None, solid |-> TRUE] /\ Held(onDisk)' = Held(onDisk)
    BY <2>1 DEF Held, Text
  <2>3. WriteBack => Held(final)' = Held(final) /\ Held(onDisk)' = Held(final)
    BY <2>1 DEF Held, Text
  <2>4. Got' = Got
    BY <2>1, SameGot
  <2> QED
    BY <2>2, <2>3, <2>4 DEF Abstract!Remove, Abstract!Settle
<1>5. ASSUME PowerCut PROVE Abstract!PowerLoss
  <2>1. /\ UNCHANGED <<onDisk, rpc, rfd, buf>> /\ final' = onDisk
        /\ onDisk # None =>
             \/ data'[onDisk] = data[onDisk] /\ onDisk \in synced'
             \/ data'[onDisk] = Whole(Lost) /\ onDisk \notin synced /\ onDisk \notin synced'
        /\ \A r \in Readers : rfd[r] = None
    BY <1>5, PowerCutHolds DEF readers
  <2>2. Got' = Got
    BY <2>1, SameGot
  <2>3. Held(onDisk)' = Held(final)'
    BY <2>1 DEF Held
  <2>4. \/ Held(final)' = [text |-> Held(onDisk).text, solid |-> TRUE]
        \/ ~Held(onDisk).solid /\ Held(final)' = [text |-> Lost, solid |-> FALSE]
    <3>1. CASE onDisk = None
      BY <2>1, <3>1 DEF Held
    <3>2. CASE onDisk # None /\ data'[onDisk] = data[onDisk] /\ onDisk \in synced'
      BY <2>1, <3>2 DEF Held, Text
    <3>3. CASE onDisk # None /\ data'[onDisk] = Whole(Lost) /\ onDisk \notin synced /\ onDisk \notin synced'
      <4>1. Text(Whole(Lost)) = Lost
        BY DEF Text, Whole, Lost, Blank
      <4>2. Held(final)'.text = Lost /\ Held(final)' = [text |-> Held(final)'.text, solid |-> FALSE]
        BY <2>1, <3>3, <4>1 DEF Held, Text
      <4> QED
        BY <3>3, <4>2 DEF Held
    <3> QED
      BY <2>1, <3>1, <3>2, <3>3
  <2> QED
    BY <2>2, <2>3, <2>4 DEF Abstract!PowerLoss
<1>6. ASSUME NEW r \in Readers, OpenRead(r) PROVE Abstract!Get(r)
  <2>1. /\ UNCHANGED <<final, data, onDisk, synced>>
        /\ rfd' = [rfd EXCEPT ![r] = final] /\ buf' = [buf EXCEPT ![r] = Whole(Blank)]
    BY <1>6 DEF OpenRead, ReaderGoto, files
  <2>2. Held(final)' = Held(final) /\ Held(onDisk)' = Held(onDisk)
    BY <2>1 DEF Held, Text
  <2>3. Got' = [Got EXCEPT ![r] = Held(final).text]
    <3> DEFINE G(q) == IF rfd[q] # None THEN Text(data[rfd[q]])
                       ELSE IF buf[q] = Whole(Blank) THEN None ELSE Text(buf[q])
    <3>1. rfd'[r] = final /\ buf'[r] = Whole(Blank)
      BY <1>0, <2>1
    <3>2. Whole(Blank)' = Whole(Blank) /\ \A d : Text(d)' = Text(d)
      BY DEF Whole, Text
    <3>3. G(r)' = Held(final).text
      BY <2>1, <3>1, <3>2 DEF Held
    <3>4. ASSUME NEW q \in Readers, q # r PROVE G(q)' = G(q)
      <4>1. rfd'[q] = rfd[q] /\ buf'[q] = buf[q]
        BY <1>0, <2>1, <3>4
      <4> QED
        BY <2>1, <3>2, <4>1
    <3> HIDE DEF G
    <3>5. Got = [q \in Readers |-> G(q)] /\ Got' = [q \in Readers |-> G(q)']
      BY DEF Got, G
    <3> QED
      BY <3>3, <3>4, <3>5
  <2> QED
    BY <2>2, <2>3 DEF Abstract!Get
<1>7. ASSUME NEW r \in Readers, ReadHalf1(r) \/ ReadHalf2(r)
      PROVE  UNCHANGED <<Held(final), Held(onDisk), Got>>
  <2>1. /\ UNCHANGED <<final, data, onDisk, synced, rfd>> /\ rpc[r] # "open"
        /\ \E half \in {1, 2} : buf' = [buf EXCEPT ![r][half] = data[rfd[r]][half]]
    <3>1. 1 \in {1, 2} /\ 2 \in {1, 2}
      OBVIOUS
    <3> QED
      BY <1>7, <3>1 DEF ReadHalf1, ReadHalf2, ReaderGoto, ReadHalf, files
  <2>2. rfd[r] # None /\ \A q \in Readers \ {r} : buf'[q] = buf[q]
    BY <1>0, <2>1 DEF ReaderInv
  <2>3. Got' = Got
    BY <2>1, <2>2, SameGot
  <2> QED
    BY <2>1, <2>3 DEF Held, Text
<1>8. ASSUME NEW r \in Readers, CloseRead(r)
      PROVE  UNCHANGED <<Held(final), Held(onDisk), Got>>
  <2>1. /\ UNCHANGED <<final, data, onDisk, synced, buf>> /\ rpc[r] = "read"
        /\ rfd' = [rfd EXCEPT ![r] = None]
    BY <1>8 DEF CloseRead, ReaderGoto, files
  <2>2. Held(final)' = Held(final) /\ Held(onDisk)' = Held(onDisk)
    BY <2>1 DEF Held, Text
  <2>3. Got' = Got
    <3> DEFINE G(q) == IF rfd[q] # None THEN Text(data[rfd[q]])
                       ELSE IF buf[q] = Whole(Blank) THEN None ELSE Text(buf[q])
    <3>1. /\ rfd[r] \in Inodes /\ rfd[r] # None /\ rfd'[r] = None
          /\ buf[r] \in Halves /\ data[rfd[r]] \in Halves
          /\ buf[r][1] = data[rfd[r]][1] /\ buf[r][2] = data[rfd[r]][2]
          /\ data[rfd[r]][1] = data[rfd[r]][2] /\ data[rfd[r]][1] # Blank
      BY <1>0, <2>1 DEF ReaderInv, Fit, Solid
    <3>2. Text(buf[r]) = Text(data[rfd[r]]) /\ buf[r] # Whole(Blank)
      BY <3>1, SolidText
    <3>3. Whole(Blank)' = Whole(Blank) /\ \A d : Text(d)' = Text(d)
      BY DEF Whole, Text
    <3>4. G(r)' = G(r)
      BY <2>1, <3>1, <3>2, <3>3
    <3>5. ASSUME NEW q \in Readers, q # r PROVE G(q)' = G(q)
      <4>1. rfd'[q] = rfd[q]
        BY <1>0, <2>1, <3>5
      <4> QED
        BY <2>1, <3>3, <4>1
    <3> HIDE DEF G
    <3>6. Got = [q \in Readers |-> G(q)] /\ Got' = [q \in Readers |-> G(q)']
      BY DEF Got, G
    <3> QED
      BY <3>4, <3>5, <3>6
  <2> QED
    BY <2>2, <2>3
<1>9. ASSUME UNCHANGED fileVars PROVE UNCHANGED <<Held(final), Held(onDisk), Got>>
  <2>1. UNCHANGED <<final, data, onDisk, synced, rpc, rfd, buf>>
    BY <1>9 DEF fileVars, files, readers
  <2> QED
    BY <2>1, SameGot DEF Held, Text
<1> QED
  BY <1>1, <1>3, <1>4, <1>5, <1>6, <1>7, <1>8, <1>9
  DEF FileNext, Writer, Reader, Abstract!Next

\* Writers that do not overlap make the path an atomic register for any readers:
\* writes take effect at their rename, reads at their open, and a loss of power brings
\* back what the path held when the directory was last written back, damaged at most if
\* it was not flushed.
THEOREM FileIsRegister ==
  ASSUME Serial
  PROVE  FileSpec => ActsAsRegister
<1>1. FileInit => Abstract!Init
  <2> SUFFICES ASSUME FileInit PROVE Abstract!Init
    OBVIOUS
  <2>1. FileInv
    BY InvInit
  <2>2. Got = [r \in Readers |-> None]
    BY DEF FileInit, Got
  <2>3. Held(final) \in [text: Texts \cup {None}, solid: {TRUE}]
    <3>1. final # None => /\ data[final] \in Halves /\ Solid(final) /\ final \in synced
                          /\ data[final][1] # Lost
      BY <2>1 DEF FileInit, FileInv, FileTypeOK, PathInv, Fit, Halves
    <3> QED
      BY <3>1, SolidText DEF Held, Solid
  <2>4. Held(onDisk) = Held(final)
    BY DEF FileInit
  <2> QED
    BY <2>2, <2>3, <2>4 DEF Abstract!Init
<1>2. FileInv /\ [FileNext]_fileVars => [Abstract!Next]_(Abstract!vars)
  BY RegisterStep DEF Abstract!vars
<1> QED
  BY <1>1, <1>2, FileCorrect, PTL DEF FileSpec, ActsAsRegister, Abstract!Spec
=============================================================================
