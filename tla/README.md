# aas-sign in TLA+

aas-sign signs PE, MSI and MSIX files with Azure Artifact Signing. It calls an
`osslsigncode` companion for everything that touches the Authenticode format,
sends a digest to Azure, and puts the signed file in the place of the input.
This directory holds TLA+ modules of the parts whose correctness depends on the
order of steps, on failures, or on several actors; the TLC configurations that
check small instances of them; and TLAPS proofs of the central theorems for
every instance.

Paths below are relative to the repository (`src/signing.cpp` and so on).

## Inventory

| Part | State | Operations | Interacts with |
|---|---|---|---|
| Signing pipeline, `src/signing.cpp` | input, staged copy, working file, indirect data, `--dump-cms` file | `sign_file`, `sign_staged`, the checks between them | companion processes, Azure client, MSI rewriting, file replacement |
| Batch, `src/main.cpp` | claim counter, results, log buffers, log mutex | thread start, claim, sign, store, flush, join, summary | the pipeline (one call per file), stderr |
| Arguments and tokens, `src/main.cpp`, `src/oidc.cpp` | flags, environment, `config.json`, token | tuple, defaults, companion lookup, OIDC, cached login, required values | login files, GitHub and Entra endpoints |
| Laptop login, `src/auth_laptop.cpp` | `token-cache.json`, `config.json` | `login`, `config`, `logout`, silent refresh | private files, Entra, browser and loopback server |
| Private files, `src/posix.cpp`, `src/win32.cpp` | the path, `<path>.tmp` | `atomic_write_private_file`, `remove_file`, reading | laptop login |
| File replacement, the same | destination, stage, backup | `atomic_replace_file` | pipeline |
| Companion processes, the same | pipes, spawn mutex, child | `run_process` | pipeline, batch (several at once) |
| Azure client, `src/azure.cpp` | operation id, deadline | submit, poll | HTTP |
| Recursive MSI rewriting, `src/msi_recursive.cpp`, `src/msi_package_*.cpp` | tables, cabinets, streams of a staged copy | unpack, sign payloads, repack, commit | pipeline (calls back `sign_staged`) |
| CMS, DER, X.509, `src/cms.cpp`, `src/der.cpp`, `src/x509.cpp` | none | build, read and check signatures and certificates | pipeline |
| HTTP and TLS, `src/posix.cpp`, `src/win32.cpp`, `src/platform.hpp` | connection, handles, `g_mbedtls_mutex`, attempts | `https_post`, `https_get`, `https_get_url`, `https_post_url`, `retry_transient` | Azure client, login, OIDC, batch (the mutex) |
| Loopback server, the same | listening socket, one client | listen, accept, read, respond | login, browser, anything on the machine |
| Base64, URL encoding, signer tuple | none | pure functions | Azure client, login, arguments |
| GitHub Action, install script, build | none | packaging | none |

What is hard here, and what would make each part correct:

- **Pipeline.** The companion may exit 0 and leave an incomplete file; the
  process may be killed between any two steps; two arguments may name one file.
  The destination must always be the input or a complete signed version, and
  the reported result must be true.
- **Batch.** Threads claim work while others are being started; results are
  read without a lock after the join; two writers share stderr. Every file is
  signed once, the exit code is true, narratives do not mix, the batch ends.
- **Login files.** Read, exchange over the network, write back: stale data.
  Sessions must not mix, updates must not be lost, logout must have effect.
- **Private files and replacement.** Torn reads, kills and losses of power
  around a rename, a double fault on Windows.
- **Companion processes.** A descriptor that leaks into another worker's child
  delays the end of the pipe; a full pipe blocks the child.
- **Tokens.** Four sources with a documented precedence, two of them networked.
- **Azure client.** A poll deadline races a late answer and retries; a retried
  submission leaves an operation behind. The result must be the right one, the
  wait bounded.
- **HTTP.** Every call may fail with something already open, a connection may
  end early, other workers compete for a mutex held across reads. Whatever was
  acquired is released on every path, and a partial answer is no result.
- **Login.** Anything may connect to the port, the first connection is the only
  one served, a code can be redeemed once and may be sent three times. Only this
  login's own code is used, what the browser is told is true, and a sign-in is
  lost only if something was lost on the way.
- **Signatures.** The digest is signed before the CMS exists, lengths change form
  at boundaries, a PE file's fields say where to read. What the program makes
  must verify, and what it reads must be inside the table.
- **MSI rewriting.** One payload of several fails, a defect is found late, four
  descriptions of one file must follow its change. Nothing may be sent to Azure
  before everything is checked, and what is committed must be consistent.

`PROJECT.json` lists the hazards with their lines and the properties aimed at
them.

## Modules

`AtomicSign` is what signing promises: a path changes in one step, to the
complete result of one job, which then reports success; a failing job changes
nothing. `SignFile` implements it and `WorkerPool` uses it, so the pool is
checked against the promise instead of the pipeline. `ReplaceFile` implements it
too: to whoever looks for the newest version of the file, all the calls inside
`atomic_replace_file` are the one step for which `SignFile` takes them.

    AtomicSign  <- implemented by -  SignFile  (SignFileProofs)
                <- implemented by -  ReplaceFile  (ReplaceFileProofs)
        ^- used by -  WorkerPool  (WorkerPoolProofs)
    Register    <- implemented by -  PrivateFile  (in TokenCacheProofs)
        ^- assumed by -  TokenCache  (TokenCacheProofs)
    ReplaceFile  (ReplaceFileProofs):  the step ReplaceInput of SignFile, call by call
    RunProcess   (RunProcessProofs):   every companion step of SignFile, call by call
    HttpClient:  one request with its retries
        ^- extended by -  AzureSign  (ClientProofs):  the step SignDigest of SignFile,
                          call by call
        ^- extended by -  Login  (ClientProofs):  the login of TokenCache, call by call
    Cms:         DER, certificates and signatures as functions
        ^- extended by -  PeSignature  (PeSignatureProofs):  their use in SignFile,
                          and pe_has_signature
    MsiRewrite  (MsiRewriteProofs):  the step RewritePayload of SignFile, payload by payload
    SignMain  (in WorkerPoolProofs):  what happens before WorkerPool starts

**SignFile**: `src/signing.cpp`, with `TempDir` and `copy_file`. One action per step of
`sign_file` and `sign_staged`; `pc[j]` is the place of job `j`. A file is a
record of what the verification steps can tell apart: body, what its signature
covers, signer, timestamp, maker. `ToolOutput` is what the companion may leave when
it exits 0: what was asked for, or that without its signature, signer, body or
covered content, which are the things `sign_staged` looks at afterwards. It never
looks for a timestamp (`src/signing.cpp:127-150`), nor compares what
`remove-signature` leaves with the staged copy (`:102-105`). In these two points the
companion's exit code is trusted: the timestamp that `DestinationWhole` and
`OkMeansSigned` speak of is the companion's word, not a check of the program. `Throw` is the exception path of `sign_one_file`, from
every step before the final rename. `RewritePayload` is the whole recursive
rewrite seen from outside, and `SignDigest` the whole Azure exchange.

**WorkerPool**: `src/main.cpp` from the number of files on. The main thread (`Spawn`,
`Join`, `Summary`, `SingleReturn`) and the workers (`Claim`, `Announce`, the
calls of AtomicSign, `StoreResult`, `FlushBegin`, `FlushEnd`). A text may reach
stderr in two pieces because `write_stderr` loops over `write(2)`. A retry
message goes to stderr from inside the signing call, without the mutex.

**PrivateFile**: both platforms' `atomic_write_private_file` and `remove_file`,
with inodes and descriptors, so that a reader keeps the file it opened. Texts
have two halves. `Fail` is an error or a kill. `SyncAndClose` flushes the file or does
not: on POSIX the result of `fsync` is not looked at (`src/posix.cpp:721`), and Windows
does not flush these files. Nobody flushes the directory: `WriteBack` is the kernel's
doing, and `PowerCut` takes the path back to what it last led to on disk, where a file
that was not flushed may be lost. `unflushed` (history) are the files whose writer
went on without a flush. **Register** is the abstract file, with the same two kinds of
damage a loss of power may do.

**TokenCache**: `login`, `config`, `logout` and `try_cached_refresh`, each a process of
its own, on two registers. Entra is external: it issues tokens for a session,
accepts or rejects them, and may revoke one at any moment. `overlap` says
whether commands may run at the same time. `lastSet` and `session` are history.

**ReplaceFile**: both platforms' `atomic_replace_file`, several calls on one
destination. `ReplaceFileW` has two halves, as the comment in the code says. `disk` is
the directory as it is on disk. `SyncDirectory` may or may not bring it up to date (the
result is not looked at, `src/posix.cpp:1003-1008`), `WriteBack` does so at any time,
and `PowerCut` takes every name back to it.

**RunProcess**: both platforms' `run_process` in several workers at once. A pipe ends
when every copy of its write end is closed, including copies that other workers'
companions inherited. Starting, reading and waiting may fail (`SpawnFails`, `ReadFails`,
`WaitFails`). A companion is assumed never to write zero bytes to its pipe: on Windows
that would end the reading early (`src/win32.cpp:1016`).

**SignMain**: `sign_main` up to the first file, with `oidc_fetch_azure_token`;
every command line, environment and `config.json` up to the distinctions that
decide the next step.

**HttpClient**: the HTTPS entry points with `retry_transient`. An entry point is a
sequence of steps; a step has what it acquires, what the code releases when it
fails and whether the failure is transient. `HttpRetry` and `HttpThrow` are the
failures, `HttpReturn` the way out. A build with an old mbedTLS holds
`g_mbedtls_mutex` for the life of a connection, and `OtherLocks` is another
worker's. A response may be whole, cut in its body (which is returned as it is) or
without a head (an exception on POSIX, an error of WinHTTP on Windows).

**AzureSign**: `azure_sign` over HttpClient. The service accepts a submission,
decides an operation and may do either after the client has given the attempt up
(`Accept`, `AcceptLate`, `Decide`). `elapsed` is the time since polling began; a
request takes up to `MaxLatency`, sleeps and pauses take what the code says. The
limit is looked at before the sleep (`Poll`, `TimedOut`), so an answer that comes
later still counts.

**Login**: `login_main` with the `LoopbackServer` of both platforms, over
HttpClient. A request is the error, code and state of its query, of this login or
another's. `Connect` is anything that connects; `AcceptClient` takes the first
connection and no other; `PeerSends` and `PeerCloses` are what it does then.
Entra (`Redeem`, `RedeemLate`) is external: it redeems a code once, and may get a
request that the client has given up. `mishap` is history.

**Cms**: `src/der.cpp`, `src/x509.cpp` and `src/cms.cpp`. An element is a tree
with its tag and the length its header declares. Lengths are real: `write_length`
and `der_read_tlv` are modelled byte by byte, and a field is found in its
container only if the two agree. Primitive contents are values, and SHA-256 is a
free constructor, so two digests agree only if their inputs do.

**PeSignature**: the steps of `sign_staged` from the extracted payload to the
attached CMS, then `pe_has_signature` on the result; or `pe_has_signature` on any
file. `read_blob`, which refuses more than 16 MiB (`TooLarge`), reads the payload and
the final CMS. A file is the fields that are read, and its certificates by offset; a table
is right if some set of certificates tiles it (`Tiled`). What osslsigncode and the
service are relied on for is written down at the end (`Reliable`): the file it writes
holds the CMS it was given, timestamped or not (`Attached`, `StampedBy`), and a
leaf certificate has an issuer's name and a serial number (`Issued`; `IsCertificate`
lets an empty name pass, which `cms_has_signer` refuses later). No action uses it.
It is the hypothesis of theorems, and TLC evaluates it on the instance (an `ASSUME`
of `MCPeSignature`).

**MsiRewrite**: `rewrite_msi_payload`. `db` is the transaction's view of the
tables and streams, `disk` the staged file, `work` the extracted payloads. One
action per table, cabinet, stream and payload. A package is a record of tables and
streams; a cabinet's bytes are reduced to a verdict on its layout, its expanded
size and its members. `Sound` defines what a package must be like from the way
Windows Installer reads it (a file belongs to the first `Media` row that reaches
its sequence number), independently of the loops in the code. A sum of sizes is the
number of pairs of a place and a unit there (`Units`, `Total`), a definition without
recursion that can be proved about.

`MCSignFile`, `MCWorkerPool`, `MCPrivateFile`, `MCTokenCache`, `MCMsiRewrite` and
`MCPeSignature` give constants their values; the other modules are instantiated
by their configurations. SignMain and PrivateFile call their specifications
`ResolveSpec` and `FileSpec` (and so on), and Login `LoginSpec`, because their
proofs stand beside those of another module; MsiRewrite's is `RewriteSpec`. Each
module's `TypeOK` is part of one of the properties its run checks.
Definitions called `X_Something`, marked as mutants, are variants of `X` with a
plausible bug. No specification uses them; each serves to show that a property
would catch the bug.

## Runs

| Run | Result | What it shows |
|---|---|---|
| `sign` | passes | Two jobs on one MSI with unsigned payload, or one job on a PE file with `--dump-cms` or without, all options and inputs, a failure at every step and a kill. Destinations are whole, results are true, a dump is the final CMS, AtomicSign is implemented, jobs settle. |
| `batch` | passes | Up to three files (two of them the same one), up to two workers, one retry message each. The pool's invariant, one claim per file, a true exit code, the concurrency bound, unmixed blocks, termination. |
| `file_one_writer` | passes | Writers one at a time, a reader, kills, flushes that fail, losses of power: the path is never a mixture, what was flushed is whole after a loss of power, Register is implemented. |
| `file_two_writers` | violated | Two writers at once share `.tmp`; a reader may see a torn file. |
| `cache` | passes | A login, two refreshes, a logout and a `config`: sessions never mix in the cache; without overlap no update is lost. |
| `replace` | passes | Three files replace one destination and a fourth call is refused, with every failure, a kill and a loss of power that undoes what is not on disk: on POSIX the destination is always present, whole and has its permissions; on Windows some whole version always exists, and a failure restores the original unless its error says otherwise; AtomicSign is implemented, except that a loss of power may go back to a version committed earlier. |
| `process` | passes | Two companions at once: no descriptor leaks, output is complete up to the limit, a call ends once its own companion has exited, and no companion stays blocked. |
| `main_resolve` | passes | Where the signing target and the token come from, for every input; nobody is contacted before the companion is found. The second finding is stated here. |
| `azure` | passes | One call on each platform with lost, cut and late answers, failing steps, retries, another worker's connections and a service that may never decide: everything acquired is released, the result is that of the operation the client was told of, the wait is bounded, the call ends. |
| `login` | passes | One login on each platform with two connections of any kind and every failure: only its own code is exchanged, the page is true, a redeemed code is lost only with an answer or the cache, and the command ends once its peer has spoken or left. |
| `pe_signature` | passes | Payloads with lengths around every boundary, seven defective ones, ten chains, and about 1,700 PE files: reads stay in the table, the walk finds exactly the genuine tables, what the program signs verifies, and exactly the sound inputs that keep within 16 MiB are signed. |
| `msi` | passes | Sound packages with every mix of payloads and about 350 variants with up to two defects, both adapters, a failure at every step: the callback is not called before the whole package is in order, no sound package is refused, a success leaves every PE file signed, sizes and hashes right, everything else as it was, and the byte budget holds. |

`PROJECT.json` has two findings, each with the sentence that the code contradicts. One
is the violated run. The other is the order of token sources: the comment at
`src/main.cpp:378-382` makes the runner's endpoint a condition of the OIDC step, with
the cached login next; the code looks at the two ids only, and with them and no
endpoint `oidc_fetch_azure_token` throws and the command ends (`src/main.cpp:394-405`).
`FirstMatchWins` states the documented order for all other inputs, and for these what
the code does: nobody is asked, and no cached login is tried.

More that the models show:

- A refresh that is under way during a logout writes the cache again
  (`LogoutSticks` holds only without overlap, as part of `SerialInv`).
- On Windows a replacement whose restoration fails as well leaves no destination
  but names the backup (`FailureRestores` excepts it).
- A retry message (`src/platform.hpp:123`) does not take the log mutex and can fall
  into another file's block; `NarrativesApart` is about the blocks themselves.
- A write or a logout can be undone by a loss of power, because nothing flushes the
  directory; and a private file whose flush failed, or any on Windows, may come back
  damaged (`PathWhole`, `ActsAsRegister`). The user has to log in again.
- A replacement that was reported as done can be undone by a loss of power, if the
  directory's `fsync` failed or there is none (Windows). The destination is then the
  original or a version committed earlier (`ReplacesAtomically`).
- A final CMS of 16 MiB or up to seven bytes less is committed, and `pe_has_signature`
  then throws on the file: it compares the certificate with its header of eight bytes
  with the same limit (`SignedVerifies`).
- `src/platform.hpp:106-110` says that every operation may be called more than
  once. An authorization code may not: when the answer to its exchange is lost,
  the retry is rejected and the sign-in is gone (`LossExplained`).
- The browser is told "Signed in." before the exchange, which may still fail
  (`PageTrue` says what does hold). On POSIX a browser that is gone by then ends
  the command with SIGPIPE.
- A first connection that neither speaks nor leaves holds the login for ever; a
  first request that is not the redirect ends it (`LoginDecides`).

### Bounds

- Two jobs on one path show every interleaving of two commits; jobs on different
  paths share nothing. SignFileProofs covers any number of either.
- Three files and two workers let a worker claim a second file while another is
  still busy, and let `--max-parallel` be above and below the number of files.
- A text of two halves is the smallest that can be torn. Two writers and a reader
  need five inodes: one per name and descriptor. One writer at a time needs four: the
  path's, the one it leads to on disk, `.tmp`, which is the writer's, and the reader's.
- One login with the earlier session gives two sessions, and two tokens per
  session give a rotation. TokenCacheProofs covers any number.
- A pipe of two pieces, a limit of two and companions that write up to four
  pieces make the pipe full and the limit exceeded.
- Two connections to the port let one come before the redirect and one wait in
  the backlog. ClientProofs covers any number.
- One other connection is enough to hold the mutex when a request starts and when
  a retry does; three attempts are the code's.
- `Word` is 2^26 and `MAX_CMS` 2^24: TLC's integers have 32 bits, so a sum of two
  fields must fit; the wrap that a 32-bit sum would have happens at `Word`.
  PeSignatureProofs has no such bound. Header fields take their boundary values, those
  that lead to the directory and those that place the table in all combinations; a CMS
  has at most one defect, a table up to two certificates. Payloads lie at the 16 MiB
  limit and one above; signatures as they are attached at the limit, one above, and
  eight and seven below.
- A limit of three ticks, delays of one and two, and requests of up to one let a
  poll end before, at and well after the limit, and three submissions overlap.
- Two cabinets, three files and a Binary row distinguish changed from unchanged
  cabinets and ranges of sequence numbers; limits of ten bytes and five members
  are met exactly and exceeded, before signing and by signing.
- Two files suffice for `--dump-cms` (refused for more than one); the other
  inputs of SignMain are finite and complete.

### Fairness

- `SignFile`: a job that can take a step takes one. Threads are scheduled, the
  companion exits, Azure answers or the connection breaks. The code sets no
  timeout on its sockets and none on the companion, so this is an assumption on
  the environment; `JobsSettle` shows that nothing else is needed.
- `WorkerPool`: the main thread and each worker are scheduled, and signing calls
  return, which is `JobsSettle`.
- `RunProcess`: only the callers are scheduled. Companions may run for ever:
  `ReturnsAfterExit` says that this delays nobody else.
- `AzureSign`: the client is scheduled and its steps end, with an answer or
  without, and other workers' connections end. The service need not ever decide.
- `Login`: the command is scheduled and its network calls end. Nobody has to
  connect, a peer need not say anything, Entra need not answer.
- The other modules state safety only.

Deadlock is checked, except where commands simply end (TokenCache, ReplaceFile,
Login, PeSignature).

## Proofs

The proofs are checked by TLAPS with Z3, Zenon and LS4. Assumptions are the
named `ASSUME`s of the modules: constants have their types, the kinds of
commands are disjoint, special values are not ordinary ones. Every theorem about a
specification has the same shape: an invariant that the initial states have and
every action keeps, one lemma per action or group of actions, and the property as a
consequence.

**SignFileProofs**, for any finite set of jobs, any paths, kinds and batches.
`TypeCorrect`. `PipelineCorrect`: `PipelineInv` is inductive. That the
destination is whole is not inductive by itself: what is renamed over it must be
whole too, which holds because of checks several steps earlier on files that
only this job touches. `JobKnows(j)` states, place by place, what those checks
have established. A step of job `j` re-establishes `JobKnows(j)` and leaves the
other jobs' facts alone, because a job's own files are private and a commit by
another job replaces one signed version by another. `DestinationsSafe` follows:
destinations are whole, failed jobs left nothing, successful ones are signed.
`SigningIsAtomic` is the refinement of AtomicSign: `ReplaceInput` maps to
`Commit`, `ReportOk` to `Report`, `Throw` to `Fail`, `Crash` to `Crash`, and all
other steps to stuttering. `DumpIsFinal`: with `--dump-cms` there is one file
(`OneFile`), so nobody else writes the dump or the destination between the final
CMS and the report; `DumpKnows(j)` follows the CMS from the dump through the working
file and the stage to the destination.

**WorkerPoolProofs**, for any number of files, workers and retries.
`TypeCorrect`. `PoolCorrect`: `PoolInv` is inductive. Every index below the
counter is held by exactly one worker or has its result stored, and no worker
that has ended left an index behind. `ExitCodeCorrect` follows at the join.
`ConcurrencyBounded`: the files being signed inject into the workers started.
`LogReadable`: `LogInv` is inductive on top of it. A block whose head is on stderr
and whose tail is not belongs to the worker that holds `log_mu`, so whatever anyone
else writes in between is a retry message, the one text that is written without the
mutex. The same module proves `SignMain`: `ResolveInv` says for each step which
sources can have been used and who can have been asked; `TargetIsResolved` and
`FirstMatchIsUsed` follow.

**TokenCacheProofs**, for any sets of commands and any number of tokens.
`TypeCorrect`. `SessionsApart`: `SessionInv` is inductive for overlapping
commands. What a refresh or a login holds between its steps belongs to one
session, and it writes back nothing else. `SerialCorrect`: without overlap,
`SerialInv` is inductive. At most one command is under way, what it holds is
what is in the files, and so a write loses nothing and a rejection is about the
session whose cache is deleted. That the two files are registers is proved in the
same module from `PrivateFile`, under the hypothesis `Serial` that writers do not
overlap (with overlap the theorems are false, which is the violated run). `FileInv` is
inductive: one writer at a time has the `.tmp` file; what the path leads to, now and on
disk, and what a reader has open is another inode, with one whole text that nobody
writes any more, flushed unless its writer's flush failed (`Fit`). It has to speak of
the path on disk because a loss of power brings that back. `PathAlwaysWhole` and
`ReadsNeverTorn` follow, and `FileIsRegister` is the refinement of Register: a write
takes effect at its rename, a read at its open, a directory written back is `Settle`, a
loss of power `PowerLoss`. TokenCache itself uses the register without these two steps:
it has no loss of power.

**ClientProofs**, on `AzureSign`, for any latencies, delays, limit and number of attempts.
`AzureInv` is inductive: `ConnectionInv` (what an attempt holds is what its steps
have acquired), what the client knows of its submissions and of the operation it
polls, and `TimeInv`, an upper bound on `elapsed` for each place and attempt. The
bound of `WaitBounded` alone is not inductive; the sum of the pauses up to each
attempt is needed. `ConnectionsReleased`, `ResultIsOwn` and `WaitIsBounded` follow.

The same module on `Login`, for any number of connections and attempts. `LoginInv`
ties the place of the command to what has been decided: before the exchange nothing is
redeemed, from the exchange on the request is this login's own, and a code that is
redeemed while its tokens are not in hand, and not on their way, has been through
a failed attempt. `OwnCodeOnly`, `PagesTrue` and `LossesExplained` follow.
`LoginReleases` is `ConnectionInv` for the login. Both rest on one fact about the
entry points (`PlansTidy`): a step that fails releases what the steps before it
opened, and nothing is opened before the mutex is taken.

**PeSignatureProofs**, for any files, sizes, payloads and certificates.

- `ReadsStayInside`: `ReadsInside` is inductive once the fields of the file are natural
  numbers. What is left of the table and the place in it move together, by a multiple
  of eight or by all that is left, so they never pass its end; no sum can wrap.
- `VerdictIsRight`: the verdict is right for every file whose certificates are marked
  right (`AllMarked`: the `sound` of a certificate in the model says what its contents
  are). `WalkedTo` says that a set of certificates tiles the table up to where the walk
  is (`Passed`), and that any tiling of the whole table has a border there (`Ahead`).
  So the walk ends with a tiling, or at a certificate that no tiling can do without.
- `ReadBack`: `der_read_tlv` reads back every length below 2^32 that `write_length`
  writes, in any buffer that holds the element.
- `MadeAccepted`: what the program assembles, from any indirect data, certificates and
  lengths, it accepts, and it finds the same data in it. With `ReadBack`, every
  field is where the readers look for it.
- `SignaturesVerify`, under `Reliable`: `SigningInv` (what the signing steps hold is
  what the earlier ones made), `VerdictInv` and `AttachedInv` (what is checked is a file
  around the CMS that was assembled) are inductive together. The attributes are built
  twice, for the digest and, once it is signed, for the CMS; they come out the same, in
  DER order. The two limits of 16 MiB are the only reasons to refuse the result.
- `InputsDecide`, under `Reliable` and `InputsMarked` (`sound` says of a payload that it
  can be taken apart, and of a chain that it can be split and starts with a certificate):
  what is refused is not sound, or the payload is above the 16 MiB of `read_blob`, or the
  CMS is once it is in the file; hashing and assembling refuse nothing. `Reliable`
  bounds no size: lengths are natural numbers, and `MAX_CMS` is at most 2^24. The inputs of the run are marked like this, or the
  run would not pass: each payload is tried with a sound chain, and each chain with a
  sound payload.

**MsiRewriteProofs**, for any set of installers and any limits:

- `RewriteCorrect`: `RunningInv` is inductive. Its first part, `Preflight`, says for
  each place of the reading what has been established of the installer, where each
  payload is in the workspace (`Place`, `BinaryPlace`: all cabinets' members in order,
  then the Binary rows), and that a payload before the cursor of the signing loops is
  what becomes of it (`Treated`) while one from the cursor on is as it came. Its second
  part, `Signing`, says the same of the open database: File sizes, hashes and Binary
  rows follow the cursor, and exactly the cabinets behind it in which a member was
  signed have been replaced.
- `OthersArePreserved` and `RewriteIsWhole` follow at the commit, where the cursor is
  behind the last payload, so that every payload is what becomes of it. For the second
  one the result has to be `Sound` again: names, sequences and cabinets are the original's,
  sizes agree because rows and members follow the same cursor, and what the result
  expands to is at most what was accounted for while signing.
- `BudgetIsKept`: `BudgetInv` is inductive on top of it. `expanded` is an exact sum: for
  each cabinet read what it expands to plus what signing has added to its members, for
  each Binary row read the size it has by now. That it bounds the workspace is not
  inductive by itself.
- `PreflightIsFirst`: `SoundSafe` is inductive. `Preflighted`, what the checks
  establish in the order of the code, is shown equivalent to `Sound`, the definition
  by the way an installer is read (`SoundPreflighted`, `PreflightedSound`); and no step
  before the first signature refuses a package that is `Preflighted`.

The sums are counted sets, so that what they do when a payload is read or grows are
statements about cardinalities (`TotalAdds`, `TotalChanges`, `TotalGrows`) that need no
induction. The one induction, that Media rows in order two by two are in order
(`Ordered`), is made from the least row for which it fails (`LeastNatural`); the
inductions of PeSignatureProofs over the fields of a sequence are made in the same way.

**ReplaceFileProofs**, for any number of calls. `ReplaceInv` is inductive. The
directory, as it is and as it is on disk, is `Sound`: its files have been flushed, are
the original or that of a call that has committed, and there is one at least. Until the
power fails there is more (`RunInv`): the destination's name
is free only while one call, and no other, has what was there under its backup name,
or could not move it back; a file found at a name is that of a call that has
committed, and the original is no longer there once one has. The last part has to
speak of the backups too, because a failed call moves its backup into place again.
`DestinationAlwaysPresent`, `FailuresRestore` and `NeverLost` follow.
`ReplacementIsAtomic` is the refinement of AtomicSign, in which the path holds the
newest version to be found at the destination or under a backup name: moving the new
file in maps to `Commit`, returning to `Report`, an exception to `Fail`, a kill to
`Crash`, and what is set aside or moved back, or written back by the kernel, to
stuttering. A loss of power is the one step that need not be AtomicSign's: it changes
nobody's status, and every version it leads to is the original or a committed one
(`Traced`).

**RunProcessProofs**, for any number of workers and any sizes. `RunInv` is
inductive: on POSIX a write end that others could inherit exists only while its
caller has `spawn_mutex`, so that nobody else spawns; what a companion has written
is in the pipe, kept, or beyond the limit; past the end of the pipe nothing is in
it and the companion has exited. `PipesStayPrivate` and `OutputIsComplete` follow.

Every invariant, action property and refinement that a passing run checks is also the
statement of a theorem. Only model-checked are the liveness properties (`JobsSettle`,
`BatchTerminates`, `ReturnsAfterExit`, `NeverBlocksChild`, `CallEnds`, `LoginDecides`),
because fairness and ENABLED are out of the prover's reach.

## What is not modelled

- The byte layout of cabinets, SQL and the libraries' handles: a verdict and an
  error for `MsiRewrite`.
- Base64, URL encoding and the signer tuple: pure functions on strings, seen
  through their verdict. The bytes of names, keys, identifiers and digests.
- Inside HTTP: the choice of the CA bundle, verification options, chunked bodies
  (a body that does not decode is a cut one), SHA-256. `http_post_binary`,
  `der_bit_string` and `der_boolean` have no caller.
- Console, `config_dir`, `main` and `wmain`: glue.
- Quoting of command lines, the environment filter, messages, help texts.
- Packaging: the GitHub Action, the install script, the build.

## Plan

1. `AzureSign` and `MsiRewrite` shown to implement the steps `SignDigest` and
   `RewritePayload` of SignFile, and `Login` the login of TokenCache.
2. The folder and member ranges of `inspect_cabinet` as a function on small
   layouts, checked against disjointness; MSIs with several folders.
3. Base64, URL encoding and the signer tuple as functions, checked against
   reference definitions over bounded inputs.
