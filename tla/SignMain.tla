------------------------------ MODULE SignMain ------------------------------
(***************************************************************************)
(* The first half of sign_main (src/src/main.cpp): from the command line,    *)
(* the environment and config.json to a signing target, a companion and an   *)
(* access token, or to an error exit before any file is touched.  Includes   *)
(* oidc_fetch_azure_token (src/src/oidc.cpp); try_cached_refresh is seen     *)
(* from outside here and modelled in TokenCache.                             *)
(*                                                                         *)
(* The specification is ResolveSpec: WorkerPool is the rest of sign_main.    *)
(***************************************************************************)
EXTENDS Naturals

CONSTANT MaxArguments   \* the largest number of file arguments

ASSUME FilesAssumption == MaxArguments \in Nat

Fields == {"endpoint", "account", "profile"}

\* argv: the flags given, --as and whether it parses, --token, --oidc-*, the
\* number of files, --dump-cms.
Args == [flags: SUBSET Fields, as: {"absent", "valid", "invalid"}, token: BOOLEAN,
         oidc: BOOLEAN, files: 0 .. MaxArguments, dump_cms: BOOLEAN]

\* AZURE_ACCESS_TOKEN; AZURE_CLIENT_ID and AZURE_TENANT_ID; both of
\* ACTIONS_ID_TOKEN_REQUEST_URL and _TOKEN.
Env == [access_token: BOOLEAN, oidc: BOOLEAN, runner: BOOLEAN]

\* config.json: per field absent, a string, or a value of another type.
Config == [readable: BOOLEAN, value: [Fields -> {"absent", "string", "other"}]]

Sources == {"empty", "flag", "tuple", "config"}

Steps == {"tuple", "defaults", "companion", "environment", "oidc", "mint", "exchange",
          "cached", "require", "dump"}

VARIABLES
  args, env, config,  \* what the process finds
  companion,          \* is there a compatible osslsigncode?
  target,             \* per field: where its value comes from
  token,              \* where the access token comes from, or "none"
  warned,             \* "ignoring unreadable config.json"
  contacted,          \* the services asked so far
  pc,                 \* the next step; "sign" and "exit" are the ends
  why                 \* the step that ended in an error

found == <<args, env, config, companion>>
resolveVars == <<found, target, token, warned, contacted, pc, why>>

ResolveInit ==
  /\ args \in Args
  /\ env \in Env
  /\ config \in [readable: {TRUE}, value: [Fields -> {"absent", "string", "other"}]]
       \cup [readable: {FALSE}, value: [Fields -> {"absent"}]]
  /\ companion \in BOOLEAN
  /\ target = [f \in Fields |-> IF f \in args.flags THEN "flag" ELSE "empty"]
  /\ token = IF args.token THEN "flag" ELSE "none"
  /\ warned = FALSE
  /\ contacted = {}
  /\ pc = "tuple"
  /\ why = "nothing"

Goto(from, to) == pc = from /\ pc' = to /\ UNCHANGED <<found, why>>

Exit(from) == pc = from /\ pc' = "exit" /\ why' = from /\ UNCHANGED found

-----------------------------------------------------------------------------

\* --as is exclusive with the three flags, and must parse.
ExpandTuple ==
  /\ IF args.as # "absent" /\ (args.flags # {} \/ args.as = "invalid")
       THEN Exit("tuple") ELSE Goto("tuple", "defaults")
  /\ target' = IF args.as = "valid" /\ args.flags = {} THEN [f \in Fields |-> "tuple"] ELSE target
  /\ UNCHANGED <<token, warned, contacted>>

\* The fields are filled in one after the other; j.value throws for a value that
\* is not a string, and what was filled in before stays.
Before(f) == CASE f = "endpoint" -> {} [] f = "account" -> {"endpoint"}
               [] f = "profile" -> {"endpoint", "account"}

Unfit(f) == target[f] = "empty" /\ config.value[f] = "other"

\* Mutant: config.json wins over the command line.
FillDefaults_Overwrites ==
  /\ Goto("defaults", "companion")
  /\ target' = [f \in Fields |-> IF config.value[f] = "string" THEN "config" ELSE target[f]]
  /\ warned' = (~config.readable \/ \E f \in Fields : Unfit(f))
  /\ UNCHANGED <<token, contacted>>

FillDefaults ==
  /\ Goto("defaults", "companion")
  /\ target' = [f \in Fields |->
                  IF /\ target[f] = "empty"
                     /\ config.value[f] = "string"
                     /\ \A g \in Before(f) : ~Unfit(g)
                  THEN "config" ELSE target[f]]
  /\ warned' = (~config.readable \/ \E f \in Fields : Unfit(f))
  /\ UNCHANGED <<token, contacted>>

\* resolve_osslsigncode: "fail before authentication/network activity if the
\* companion is missing".
ResolveCompanion ==
  /\ IF companion THEN Goto("companion", "environment") ELSE Exit("companion")
  /\ UNCHANGED <<target, token, warned, contacted>>

OidcConfigured == args.oidc \/ env.oidc

\* Mutant: the environment wins over --token.
TokenFromEnvironment_First ==
  LET t == IF env.access_token THEN "env" ELSE token IN
  /\ token' = t
  /\ Goto("environment", IF t # "none" THEN "require" ELSE IF OidcConfigured THEN "oidc" ELSE "cached")
  /\ UNCHANGED <<target, warned, contacted>>

\* $AZURE_ACCESS_TOKEN, then which way to go on.
TokenFromEnvironment ==
  LET t == IF token = "none" /\ env.access_token THEN "env" ELSE token IN
  /\ token' = t
  /\ Goto("environment", IF t # "none" THEN "require" ELSE IF OidcConfigured THEN "oidc" ELSE "cached")
  /\ UNCHANGED <<target, warned, contacted>>

\* oidc_fetch_azure_token without the runner's variables throws, and the process
\* exits.
StartOidc ==
  /\ IF env.runner THEN Goto("oidc", "mint") ELSE Exit("oidc")
  /\ UNCHANGED <<target, token, warned, contacted>>

\* GitHub mints a JWT ...
MintJwt ==
  /\ Goto("mint", "exchange") \/ Exit("mint")
  /\ contacted' = contacted \cup {"github"}
  /\ UNCHANGED <<target, token, warned>>

\* ... and Entra exchanges it for an access token.
ExchangeJwt ==
  /\ \/ Goto("exchange", "require") /\ token' = "oidc"
     \/ Exit("exchange") /\ UNCHANGED token
  /\ contacted' = contacted \cup {"entra"}
  /\ UNCHANGED <<target, warned>>

\* try_cached_refresh: no cache, a token, or an exception, with or without having
\* asked Entra.
CachedRefresh ==
  /\ \/ Goto("cached", "require") /\ UNCHANGED <<token, contacted>>
     \/ Goto("cached", "require") /\ token' = "cached" /\ contacted' = contacted \cup {"entra"}
     \/ Exit("cached") /\ UNCHANGED token /\ contacted' \in {contacted, contacted \cup {"entra"}}
  /\ UNCHANGED <<target, warned>>

Complete ==
  /\ \A f \in Fields : target[f] # "empty"
  /\ token # "none"
  /\ args.files > 0

\* Everything missing is reported, then usage.
CheckRequired ==
  /\ IF Complete THEN Goto("require", "dump") ELSE Exit("require")
  /\ UNCHANGED <<target, token, warned, contacted>>

\* One dump file cannot serve several files.
CheckDump ==
  /\ IF args.files > 1 /\ args.dump_cms THEN Exit("dump") ELSE Goto("dump", "sign")
  /\ UNCHANGED <<target, token, warned, contacted>>

\* WorkerPool takes over, or the process has exited.
Over == pc \in {"sign", "exit"} /\ UNCHANGED resolveVars

ResolveNext ==
  \/ ExpandTuple \/ FillDefaults \/ ResolveCompanion \/ TokenFromEnvironment
  \/ StartOidc \/ MintJwt \/ ExchangeJwt \/ CachedRefresh \/ CheckRequired \/ CheckDump
  \/ Over

ResolveSpec == ResolveInit /\ [][ResolveNext]_resolveVars

-----------------------------------------------------------------------------
\* Properties.

ResolveTypeOK ==
  /\ args \in Args /\ env \in Env /\ config \in Config /\ companion \in BOOLEAN
  /\ target \in [Fields -> Sources]
  /\ token \in {"none", "flag", "env", "oidc", "cached"}
  /\ warned \in BOOLEAN
  /\ contacted \subseteq {"github", "entra"}
  /\ pc \in Steps \cup {"sign", "exit"}
  /\ why \in Steps \cup {"nothing"}

\* Signing starts only with a companion and a complete target whose every field
\* comes from the strongest source that has it: the tuple, a flag, config.json.
\* Until then the variables keep their types.
TargetResolved ==
  /\ ResolveTypeOK
  /\ pc = "sign" =>
       /\ companion /\ args.files > 0 /\ (args.files > 1 => ~args.dump_cms)
       /\ \A f \in Fields : target[f] =
            IF args.as = "valid" THEN "tuple" ELSE IF f \in args.flags THEN "flag" ELSE "config"

\* The ids for OIDC are given, the runner's endpoint is not, and no token is at hand.
OidcHalfConfigured == ~args.token /\ ~env.access_token /\ OidcConfigured /\ ~env.runner

\* "Authentication (first match wins)": the token used is the first of --token,
\* $AZURE_ACCESS_TOKEN, OIDC (ids and endpoint) and the cached login, and a
\* stronger one at hand means that nobody is asked for a weaker one.  Without a
\* companion nobody is asked at all: "fail before authentication/network activity".
\* With the ids but no endpoint the comment in sign_main (main.cpp:379-382) goes
\* on to the cached login; the code does not: it asks nobody, never looks at the
\* login and exits at the latest in oidc_fetch_azure_token.  The last conjunct
\* states the code.
FirstMatchWins ==
  LET best == IF args.token THEN "flag" ELSE IF env.access_token THEN "env"
              ELSE IF OidcConfigured /\ env.runner THEN "oidc" ELSE "cached"
  IN /\ pc = "sign" => token = best
     /\ best \in {"flag", "env"} => contacted = {}
     /\ best = "cached" => "github" \notin contacted
     /\ ~companion => contacted = {}
     /\ OidcHalfConfigured =>
          /\ token = "none" /\ contacted = {}
          /\ pc \notin {"cached", "require", "dump", "sign"}
          /\ pc = "exit" => why \in {"tuple", "companion", "oidc"}
=============================================================================
