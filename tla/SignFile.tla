------------------------------ MODULE SignFile ------------------------------
(***************************************************************************)
(* sign_file and sign_staged (src/src/signing.cpp): how one input is staged, *)
(* signed through the osslsigncode companion and Azure, verified, and put    *)
(* back.  Several jobs run at once, two of them possibly on the same path.   *)
(*                                                                           *)
(* A file is abstracted to what the verification steps can tell apart: its   *)
(* body (the bytes the Authenticode digest covers), what the embedded        *)
(* signature's indirect data says the body is, whether the CMS names a       *)
(* signer, whether it is timestamped, and (history) which job made it.       *)
(* Every step does file or process I/O, so every step before the final       *)
(* rename may throw: Throw is the exception path to sign_one_file's catch.   *)
(***************************************************************************)
EXTENDS Naturals, FiniteSets

CONSTANTS
  Jobs,            \* the file arguments that `aas-sign sign` may be given
  Batches,         \* which of them together, in one invocation
  Paths,           \* the files they name
  Target,          \* [Jobs -> Paths]
  Kind,            \* [Paths -> Kinds], what identify() makes of the file
  UnsignedPayload, \* the MSI paths that contain unsigned PE files
  Vendor           \* "made by someone else", for signatures found in the input

Kinds == {"pe", "msi", "msix", "unsupported"}

ASSUME JobsAssumption ==
  /\ IsFiniteSet(Jobs)
  /\ Batches \subseteq SUBSET Jobs
  /\ Vendor \notin Jobs
  /\ Target \in [Jobs -> Paths]
  /\ Kind \in [Paths -> Kinds]
  /\ UnsignedPayload \subseteq {p \in Paths : Kind[p] = "msi"}

VARIABLES
  options,         \* SigningOptions and the files, fixed for the whole invocation
  original,        \* (history) every path's content at the start
  disk,            \* every path's content
  staged,          \* per job: work.path()/input<ext>, the staged copy
  work,            \* per job: the file sign_staged works on (source, output)
  indirect,        \* per job: the indirect data extracted from the source
  dump,            \* the --dump-cms file
  pc,              \* per job: the next step
  result,          \* per job: SignResult, "pending" until sign_one_file returns
  alive            \* FALSE once the process has been killed

vars == <<options, original, disk, staged, work, indirect, dump, pc, result, alive>>

-----------------------------------------------------------------------------
\* Files.

Body == {"original", "rewritten", "damaged"}

Content == [body: Body, over: Body \cup {"none"}, signer: BOOLEAN,
            stamped: BOOLEAN, by: Jobs \cup {Vendor}]

Options == [no_timestamp: BOOLEAN, recursive: BOOLEAN,
            dump_cms: {"empty", "input", "other"}, files: Batches]

HasSignature(c) == c.over # "none"

Unsigned(body) ==
  [body |-> body, over |-> "none", signer |-> FALSE, stamped |-> FALSE, by |-> Vendor]

\* What a signed input may carry: a signature over it or over something else
\* (the file changed after it was signed), with or without a signer.
Inputs ==
  {Unsigned("original")} \cup
  [body: {"original"}, over: {"original", "damaged"}, signer: BOOLEAN,
   stamped: {TRUE}, by: {Vendor}]

\* What the companion's attach-signature and add may leave behind when they exit 0:
\* what was asked for, or that without the signature, the signer, the body or the
\* content it should cover.  These are what sign_staged looks at afterwards.  It
\* does not look for a timestamp, so the model trusts the companion with that: what
\* add -ts leaves, if it carries the signature at all, is timestamped.
ToolOutput(c) ==
  {c, Unsigned(c.body)} \cup
  {[c EXCEPT !.signer = FALSE], [c EXCEPT !.body = "damaged"], [c EXCEPT !.over = "damaged"]}

\* The body a completed job must deliver.
Expected(p) ==
  IF options.recursive /\ p \in UnsignedPayload THEN "rewritten" ELSE "original"

Signed(c, p) ==
  /\ c.body = Expected(p)
  /\ c.over = c.body
  /\ c.signer
  /\ c.stamped = ~options.no_timestamp
  /\ c.by \in Jobs

\* The places of sign_file and sign_staged between two steps.
Steps == {"check", "stage", "payload", "inspect", "remove", "extract", "azure", "attach",
          "timestamp", "verify", "recheck", "dump", "restage", "replace", "committed", "done"}

-----------------------------------------------------------------------------
Init ==
  /\ options \in {o \in Options : Cardinality(o.files) > 1 => o.dump_cms = "empty"}
  /\ original \in [Paths -> Inputs]
  /\ disk = original
  /\ staged = [j \in Jobs |-> Unsigned("damaged")]
  /\ work = [j \in Jobs |-> Unsigned("damaged")]
  /\ indirect = [j \in Jobs |-> "none"]
  /\ dump = Unsigned("damaged")
  /\ pc = [j \in Jobs |-> "check"]
  /\ result = [j \in Jobs |-> "pending"]
  /\ alive = TRUE

Goto(j, from, to) ==
  /\ alive
  /\ pc[j] = from
  /\ pc' = [pc EXCEPT ![j] = to]
  /\ UNCHANGED <<options, original, alive>>

\* same_file on --dump-cms, identify, and the PE certificate-table check.
CheckInput(j) ==
  /\ Goto(j, "check", "stage")
  /\ j \in options.files
  /\ options.dump_cms # "input"
  /\ Kind[Target[j]] # "unsupported"
  /\ LET c == disk[Target[j]] IN
       Kind[Target[j]] = "pe" /\ HasSignature(c) => c.signer
  /\ UNCHANGED <<disk, staged, work, indirect, dump, result>>

\* Mutant: the recursive rewrite of an MSI is skipped.
Stage_NotRecursive(j) ==
  /\ Goto(j, "stage", "inspect")
  /\ staged' = [staged EXCEPT ![j] = disk[Target[j]]]
  /\ UNCHANGED <<disk, work, indirect, dump, result>>

\* TempDir beside the input, then copy_file: the copy is read through one file
\* descriptor, so a concurrent rename over the path cannot mix two versions.
Stage(j) ==
  /\ Goto(j, "stage",
          IF Kind[Target[j]] = "msi" /\ options.recursive THEN "payload" ELSE "inspect")
  /\ staged' = [staged EXCEPT ![j] = disk[Target[j]]]
  /\ UNCHANGED <<disk, work, indirect, dump, result>>

\* rewrite_msi_payload on the staged copy: unsigned PE payloads are signed and
\* the database is committed; without any, the package is left as it is.
RewritePayload(j) ==
  /\ Goto(j, "payload", "inspect")
  /\ staged' = [staged EXCEPT ![j].body =
                  IF Target[j] \in UnsignedPayload THEN "rewritten" ELSE @]
  /\ UNCHANGED <<disk, work, indirect, dump, result>>

\* extract_existing: exit 0 needs a CMS with a signer; a non-zero exit is "not
\* signed" only with the companion's explicit message (otherwise Throw).
InspectExisting(j) ==
  /\ Goto(j, "inspect", IF HasSignature(staged[j]) THEN "remove" ELSE "extract")
  /\ HasSignature(staged[j]) => staged[j].signer
  /\ work' = [work EXCEPT ![j] = staged[j]]
  /\ UNCHANGED <<disk, staged, indirect, dump, result>>

\* remove-signature writes a separate, unsigned source.  The companion is trusted
\* to take out the signature and nothing else: nothing compares the source with
\* the staged copy.
RemoveSignature(j) ==
  /\ Goto(j, "remove", "extract")
  /\ work' = [work EXCEPT ![j] = Unsigned(@.body)]
  /\ UNCHANGED <<disk, staged, indirect, dump, result>>

\* extract-data and cms_extract_indirect_data.
ExtractData(j) ==
  /\ Goto(j, "extract", "azure")
  /\ indirect' = [indirect EXCEPT ![j] = work[j].body]
  /\ UNCHANGED <<disk, staged, work, dump, result>>

\* sign_digest: the long remote call, during which other jobs may commit.
SignDigest(j) ==
  /\ Goto(j, "azure", "attach")
  /\ UNCHANGED <<disk, staged, work, indirect, dump, result>>

\* cms_build_authenticode, write_blob, attach-signature.
AttachSignature(j) ==
  /\ Goto(j, "attach", IF options.no_timestamp THEN "verify" ELSE "timestamp")
  /\ \E c \in ToolOutput([body |-> work[j].body, over |-> indirect[j], signer |-> TRUE,
                          stamped |-> FALSE, by |-> j]) :
       work' = [work EXCEPT ![j] = c]
  /\ UNCHANGED <<disk, staged, indirect, dump, result>>

\* add -ts into a second output file.
AddTimestamp(j) ==
  /\ Goto(j, "timestamp", "verify")
  /\ \E c \in ToolOutput([work[j] EXCEPT !.stamped = TRUE]) :
       work' = [work EXCEPT ![j] = c]
  /\ UNCHANGED <<disk, staged, indirect, dump, result>>

\* Mutant: an incomplete signature sends the job back to attach instead of out.
VerifyFinalCms_Retries(j) ==
  /\ Goto(j, "verify",
          IF HasSignature(work[j]) /\ work[j].signer /\ work[j].over = indirect[j]
            THEN "recheck" ELSE "attach")
  /\ UNCHANGED <<disk, staged, work, indirect, dump, result>>

\* Mutant: the final CMS is not asked for a signer.
VerifyFinalCms_NoSignerCheck(j) ==
  /\ Goto(j, "verify", "recheck")
  /\ HasSignature(work[j])
  /\ work[j].over = indirect[j]
  /\ UNCHANGED <<disk, staged, work, indirect, dump, result>>

\* The final CMS must exist, name a signer, and carry the signed indirect data.
VerifyFinalCms(j) ==
  /\ Goto(j, "verify", "recheck")
  /\ HasSignature(work[j])
  /\ work[j].signer
  /\ work[j].over = indirect[j]
  /\ UNCHANGED <<disk, staged, work, indirect, dump, result>>

\* Mutant: no extract-data on the completed file.
RecheckContent_Skipped(j) ==
  /\ Goto(j, "recheck", IF options.dump_cms = "empty" THEN "restage" ELSE "dump")
  /\ UNCHANGED <<disk, staged, work, indirect, dump, result>>

\* extract-data on the completed file must give the same indirect data.
RecheckContent(j) ==
  /\ Goto(j, "recheck", IF options.dump_cms = "empty" THEN "restage" ELSE "dump")
  /\ work[j].body = indirect[j]
  /\ UNCHANGED <<disk, staged, work, indirect, dump, result>>

\* Mutant: the dump is the CMS the input came with.
DumpCms_Existing(j) ==
  /\ Goto(j, "dump", "restage")
  /\ dump' = staged[j]
  /\ UNCHANGED <<disk, staged, work, indirect, result>>

DumpCms(j) ==
  /\ Goto(j, "dump", "restage")
  /\ dump' = work[j]
  /\ UNCHANGED <<disk, staged, work, indirect, result>>

\* sign_staged's atomic_replace_file: the completed output replaces the stage.
ReplaceStaged(j) ==
  /\ Goto(j, "restage", "replace")
  /\ staged' = [staged EXCEPT ![j] = work[j]]
  /\ UNCHANGED <<disk, work, indirect, dump, result>>

\* sign_file's atomic_replace_file: the rename is the commit point.
ReplaceInput(j) ==
  /\ Goto(j, "replace", "committed")
  /\ disk' = [disk EXCEPT ![Target[j]] = staged[j]]
  /\ UNCHANGED <<staged, work, indirect, dump, result>>

\* After the rename nothing throws; sign_one_file sets r.ok.
ReportOk(j) ==
  /\ Goto(j, "committed", "done")
  /\ result' = [result EXCEPT ![j] = "ok"]
  /\ UNCHANGED <<disk, staged, work, indirect, dump>>

\* Any exception up to the commit point: the TempDirs go, the result is an
\* error.  A failing write_blob may leave part of a CMS in the dump file.
Throw(j) ==
  /\ alive
  /\ j \in options.files
  /\ pc[j] \notin {"committed", "done"}
  /\ pc' = [pc EXCEPT ![j] = "done"]
  /\ result' = [result EXCEPT ![j] = "failed"]
  /\ dump' \in IF pc[j] = "dump" THEN {dump, Unsigned("damaged")} ELSE {dump}
  /\ UNCHANGED <<options, original, disk, staged, work, indirect, alive>>

\* The process is killed while some job is still at work.
Crash ==
  /\ alive
  /\ \E j \in options.files : pc[j] # "done"
  /\ alive' = FALSE
  /\ UNCHANGED <<options, original, disk, staged, work, indirect, dump, pc, result>>

Step(j) ==
  \/ CheckInput(j)      \/ Stage(j)            \/ RewritePayload(j)
  \/ InspectExisting(j) \/ RemoveSignature(j)  \/ ExtractData(j)
  \/ SignDigest(j)      \/ AttachSignature(j)  \/ AddTimestamp(j)
  \/ VerifyFinalCms(j)  \/ RecheckContent(j)   \/ DumpCms(j)
  \/ ReplaceStaged(j)   \/ ReplaceInput(j)     \/ ReportOk(j)
  \/ Throw(j)

\* Every job has settled, or the process is gone: the system really stops.
Stopped ==
  /\ ~alive \/ \A j \in options.files : pc[j] = "done"
  /\ UNCHANGED vars

Next == (\E j \in Jobs : Step(j)) \/ Crash \/ Stopped

Spec == Init /\ [][Next]_vars

\* The threads are scheduled, the companion exits, and Azure answers or the
\* connection breaks (the sockets have no timeout of their own): a job that can
\* take a step takes one.
FairSpec == Spec /\ \A j \in Jobs : WF_vars(Step(j))

-----------------------------------------------------------------------------
\* Properties.

TypeOK ==
  /\ options \in Options
  /\ original \in [Paths -> Content]
  /\ disk \in [Paths -> Content]
  /\ staged \in [Jobs -> Content]
  /\ work \in [Jobs -> Content]
  /\ indirect \in [Jobs -> Body \cup {"none"}]
  /\ dump \in Content
  /\ pc \in [Jobs -> Steps]
  /\ result \in [Jobs -> {"pending", "ok", "failed"}]
  /\ alive \in BOOLEAN

\* At every moment, a crash included, a path holds either exactly what it held
\* before or a complete signed version of it: right body, a signature over that
\* body, a signer, a timestamp when asked for.  Never an output of the companion
\* without its signature, signer, body or content, however signing was interleaved
\* (sign_staged's checks, atomic_replace_file).  That a timestamp is there rests on
\* the exit code of add -ts, see ToolOutput: the code has no check of its own.
DestinationWhole ==
  \A p \in Paths : disk[p] = original[p] \/ Signed(disk[p], p)

\* A file reported as signed is signed, and stays so whatever the other jobs on
\* the same path do afterwards (sign_one_file's r.ok); timestamped, when asked for,
\* on the companion's word.
OkMeansSigned ==
  \A j \in Jobs : result[j] = "ok" => Signed(disk[Target[j]], Target[j])

\* A job reported as failed, or killed before its rename, contributed nothing to
\* its destination ("failures leave the original untouched").
FailureLeavesInput ==
  \A j \in Jobs : disk[Target[j]].by = j =>
    /\ pc[j] \in {"committed", "done"}
    /\ result[j] # "failed"

\* What each step may rely on: the facts about the staged copy and the working
\* file that the checks up to that step have established.  A job's own files are
\* touched by no other job (mkdtemp), while its destination is.
JobKnows(j) ==
  LET e == Expected(Target[j]) IN
  /\ pc[j] = "payload" =>
       /\ staged[j].body \in {"original", e}
       /\ Kind[Target[j]] = "msi" /\ options.recursive
  /\ pc[j] \in {"inspect", "remove", "extract", "azure", "attach"} => staged[j].body = e
  /\ pc[j] \in {"remove", "extract", "azure", "attach"} => work[j].body = e
  /\ pc[j] \in {"azure", "attach", "timestamp", "verify", "recheck"} => indirect[j] = e
  /\ pc[j] = "timestamp" => ~options.no_timestamp
  /\ pc[j] \in {"timestamp", "verify", "recheck"} /\ work[j].over = e =>
       /\ work[j].by = j
       /\ pc[j] # "timestamp" => work[j].stamped = ~options.no_timestamp
  /\ pc[j] = "recheck" => work[j].signer /\ work[j].over = e
  /\ pc[j] \in {"dump", "restage"} => Signed(work[j], Target[j]) /\ work[j].by = j
  /\ pc[j] = "replace" => Signed(staged[j], Target[j]) /\ staged[j].by = j
  /\ pc[j] = "committed" \/ result[j] = "ok" => Signed(disk[Target[j]], Target[j])
  /\ result[j] = "pending" <=> pc[j] # "done"

\* The inductive invariant of the pipeline: each step's knowledge is right, and
\* with it the destination is never anything but the input or a signed version.
PipelineInv ==
  /\ \A p \in Paths : original[p].by = Vendor /\ original[p].body = "original"
  /\ \A j \in Jobs : JobKnows(j)
  /\ DestinationWhole
  /\ FailureLeavesInput

\* The --dump-cms file of a successful job is the CMS that ended up in the
\* file, timestamp included.
DumpIsFinalCms ==
  \A j \in Jobs :
    result[j] = "ok" /\ options.dump_cms # "empty" =>
      dump = disk[Target[j]]

\* Unless the process is killed, every job returns a result.
JobsSettle == <>(~alive \/ \A j \in options.files : result[j] # "pending")

\* The refinement mapping: a path belongs to the job whose signed version it
\* holds; a job is committed from its rename to its report.
Owner ==
  [p \in Paths |->
     IF disk[p] = original[p] THEN Vendor
     ELSE IF Signed(disk[p], p) THEN disk[p].by ELSE "broken"]

Status ==
  [j \in Jobs |-> IF pc[j] = "committed" THEN "committed" ELSE result[j]]

Abstract == INSTANCE AtomicSign WITH
  Original <- Vendor, owner <- Owner, status <- Status

\* Signing implements the all-or-nothing promise of AtomicSign.
SignsAtomically == Abstract!Spec
=============================================================================
