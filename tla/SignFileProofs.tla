--------------------------- MODULE SignFileProofs ---------------------------
(***************************************************************************)
(* The safety of the signing pipeline for every set of jobs and paths: the   *)
(* type invariant, the inductive invariant PipelineInv, what follows from    *)
(* it, the --dump-cms file, and the refinement of AtomicSign.                *)
(***************************************************************************)
EXTENDS SignFile, FiniteSetTheorems, TLAPS

\* The model's input files and unsigned files are contents.
LEMMA InputsAreContents ==
  /\ \A b \in Body : Unsigned(b) \in Content
  /\ Inputs \subseteq Content
<1>1. \A b \in Body : Unsigned(b) \in Content
  BY DEF Unsigned, Content, Body
<1>2. Unsigned("original") \in Content
  BY <1>1 DEF Body
<1>3. [body: {"original"}, over: {"original", "damaged"}, signer: BOOLEAN,
       stamped: {TRUE}, by: {Vendor}] \subseteq Content
  BY DEF Content, Body
<1> QED
  BY <1>1, <1>2, <1>3 DEF Inputs

\* Rewriting the body (rewrite_msi_payload) or adding a timestamp keeps a content.
LEMMA EditsAreContents ==
  ASSUME NEW c \in Content
  PROVE  /\ \A b \in Body : [c EXCEPT !.body = b] \in Content
         /\ [c EXCEPT !.stamped = TRUE] \in Content
<1>1. \A b \in Body : [c EXCEPT !.body = b] \in Content
  BY DEF Content
<1>2. [c EXCEPT !.stamped = TRUE] \in Content
  BY DEF Content
<1> QED
  BY <1>1, <1>2

\* Whatever the companion leaves behind is a content.
LEMMA ToolOutputIsContent ==
  ASSUME NEW c \in Content, NEW d \in ToolOutput(c)
  PROVE  d \in Content
<1>1. Unsigned(c.body) \in Content
  BY InputsAreContents DEF Content
<1>2. [c EXCEPT !.signer = FALSE] \in Content
  BY DEF Content
<1>3. [c EXCEPT !.body = "damaged"] \in Content
  BY DEF Content, Body
<1>4. [c EXCEPT !.over = "damaged"] \in Content
  BY DEF Content, Body
<1> QED
  BY <1>1, <1>2, <1>3, <1>4 DEF ToolOutput

\* An output whose signature still covers a sound body is the signature that was
\* asked for.
LEMMA ToolOutputKeeps ==
  ASSUME NEW c \in Content, NEW d \in ToolOutput(c), d.over \in {"original", "rewritten"}
  PROVE  d.over = c.over /\ d.by = c.by /\ d.stamped = c.stamped
  BY DEF ToolOutput, Unsigned, Content

\* Every variable keeps its type (sign_file, sign_staged and their callers).
THEOREM TypeCorrect == Spec => []TypeOK
<1> USE JobsAssumption
<1>1. Init => TypeOK
  BY InputsAreContents DEF Init, TypeOK, Body, Steps
<1>2. TypeOK /\ [Next]_vars => TypeOK'
  <2> SUFFICES ASSUME TypeOK, [Next]_vars PROVE TypeOK'
    OBVIOUS
  <2> USE DEF TypeOK
  <2>1. CASE \E j \in Jobs : Step(j)
    <3> PICK j \in Jobs : Step(j)
      BY <2>1
    <3>1. CASE CheckInput(j)
      BY <3>1 DEF CheckInput, Goto, Steps
    <3>2. CASE Stage(j)
      BY <3>2 DEF Stage, Goto, Steps
    <3>3. CASE RewritePayload(j)
      <4>1. \A b \in Body : [staged[j] EXCEPT !.body = b] \in Content
        <5>1. staged[j] \in Content
          OBVIOUS
        <5> QED
          BY <5>1, EditsAreContents
      <4>2. staged' \in [Jobs -> Content]
        <5>1. staged[j].body \in Body
          BY DEF Content
        <5>2. PICK b \in Body : staged' = [staged EXCEPT ![j] = [staged[j] EXCEPT !.body = b]]
          BY <3>3, <5>1 DEF RewritePayload, Body
        <5> QED
          BY <4>1, <5>2
      <4> QED
        BY <3>3, <4>2 DEF RewritePayload, Goto, Steps
    <3>4. CASE InspectExisting(j)
      BY <3>4 DEF InspectExisting, Goto, Steps
    <3>5. CASE RemoveSignature(j)
      BY <3>5 DEF RemoveSignature, Goto, Steps, Unsigned, Content, Body
    <3>6. CASE ExtractData(j)
      BY <3>6 DEF ExtractData, Goto, Steps, Content
    <3>7. CASE SignDigest(j)
      BY <3>7 DEF SignDigest, Goto, Steps
    <3>8. CASE AttachSignature(j)
      <4>1. [body |-> work[j].body, over |-> indirect[j], signer |-> TRUE,
             stamped |-> FALSE, by |-> j] \in Content
        BY DEF Content
      <4>2. PICK d \in Content : work' = [work EXCEPT ![j] = d]
        BY <3>8, <4>1, ToolOutputIsContent DEF AttachSignature
      <4> QED
        BY <3>8, <4>2 DEF AttachSignature, Goto, Steps
    <3>9. CASE AddTimestamp(j)
      <4>1. [work[j] EXCEPT !.stamped = TRUE] \in Content
        <5>1. work[j] \in Content
          OBVIOUS
        <5> QED
          BY <5>1, EditsAreContents
      <4>2. PICK d \in Content : work' = [work EXCEPT ![j] = d]
        BY <3>9, <4>1, ToolOutputIsContent DEF AddTimestamp
      <4> QED
        BY <3>9, <4>2 DEF AddTimestamp, Goto, Steps
    <3>10. CASE VerifyFinalCms(j)
      BY <3>10 DEF VerifyFinalCms, Goto, Steps
    <3>11. CASE RecheckContent(j)
      BY <3>11 DEF RecheckContent, Goto, Steps
    <3>12. CASE DumpCms(j)
      BY <3>12 DEF DumpCms, Goto, Steps
    <3>13. CASE ReplaceStaged(j)
      BY <3>13 DEF ReplaceStaged, Goto, Steps
    <3>14. CASE ReplaceInput(j)
      BY <3>14 DEF ReplaceInput, Goto, Steps
    <3>15. CASE ReportOk(j)
      BY <3>15 DEF ReportOk, Goto, Steps
    <3>16. CASE Throw(j)
      BY <3>16, InputsAreContents DEF Throw, Steps, Body
    <3> QED
      BY <3>1, <3>2, <3>3, <3>4, <3>5, <3>6, <3>7, <3>8, <3>9, <3>10, <3>11, <3>12,
         <3>13, <3>14, <3>15, <3>16 DEF Step
  <2>2. CASE Crash
    BY <2>2 DEF Crash
  <2>3. CASE Stopped \/ UNCHANGED vars
    BY <2>3 DEF Stopped, vars
  <2> QED
    BY <2>1, <2>2, <2>3 DEF Next
<1> QED
  BY <1>1, <1>2, PTL DEF Spec

-----------------------------------------------------------------------------
\* Signed depends on the options only, and those never change.
LEMMA SignedStable ==
  ASSUME UNCHANGED options, NEW c, NEW p
  PROVE  /\ Expected(p)' = Expected(p)
         /\ Signed(c, p)' = Signed(c, p)
  BY DEF Expected, Signed

\* What a job knows survives any step that leaves its own files alone and does
\* not spoil its destination.
LEMMA OthersKnow ==
  ASSUME NEW k \in Jobs, JobKnows(k), UNCHANGED options,
         pc'[k] = pc[k], staged'[k] = staged[k], work'[k] = work[k],
         indirect'[k] = indirect[k], result'[k] = result[k],
         disk'[Target[k]] = disk[Target[k]] \/ Signed(disk'[Target[k]], Target[k])
  PROVE  JobKnows(k)'
  BY DEF JobKnows, Expected, Signed, HasSignature

\* A step that leaves the disk alone keeps the destinations whole.
LEMMA DiskUntouched ==
  ASSUME DestinationWhole, UNCHANGED <<options, original, disk>>
  PROVE  DestinationWhole'
  BY DEF DestinationWhole, Signed, Expected

\* The body of a completed job is one that the companion's damage never looks like.
LEMMA ExpectedIsSound ==
  ASSUME NEW p
  PROVE  Expected(p) \in {"original", "rewritten"}
  BY DEF Expected

\* The steps before the rename: only the job's own files change.
LEMMA PrivateStep ==
  ASSUME TypeOK, PipelineInv, NEW j \in Jobs, JobKnows(j)', NEW s,
         s \notin {"committed", "done"}, pc[j] \notin {"committed", "done"},
         pc' = [pc EXCEPT ![j] = s],
         UNCHANGED <<options, original, disk, result>>,
         \A k \in Jobs \ {j} : /\ staged'[k] = staged[k]
                               /\ work'[k] = work[k]
                               /\ indirect'[k] = indirect[k]
  PROVE  PipelineInv'
<1>1. ASSUME NEW k \in Jobs PROVE JobKnows(k)'
  <2>1. CASE k = j
    BY <2>1
  <2>2. CASE k # j
    <3>1. JobKnows(k) /\ pc'[k] = pc[k]
      BY <2>2 DEF PipelineInv, TypeOK
    <3> QED
      BY <2>2, <3>1, OthersKnow
  <2> QED
    BY <2>1, <2>2
<1>2. DestinationWhole'
  BY DiskUntouched DEF PipelineInv
<1>3. FailureLeavesInput'
  <2>1. disk[Target[j]].by # j
    BY DEF PipelineInv, FailureLeavesInput
  <2> QED
    BY <2>1 DEF PipelineInv, FailureLeavesInput, TypeOK
<1> QED
  BY <1>1, <1>2, <1>3 DEF PipelineInv

\* What a step teaches the job that takes it.
LEMMA StepKnows ==
  ASSUME TypeOK, PipelineInv, NEW j \in Jobs,
         \/ CheckInput(j) \/ Stage(j) \/ RewritePayload(j) \/ InspectExisting(j)
         \/ RemoveSignature(j) \/ ExtractData(j) \/ SignDigest(j) \/ AttachSignature(j)
         \/ AddTimestamp(j) \/ VerifyFinalCms(j) \/ RecheckContent(j) \/ DumpCms(j) \/ ReplaceStaged(j)
  PROVE  JobKnows(j)'
<1> USE JobsAssumption
<1> DEFINE e == Expected(Target[j])
<1>0. /\ JobKnows(j)
      /\ e \in {"original", "rewritten"}
      /\ Target[j] \in Paths
      /\ disk[Target[j]].body \in {"original", e}
  BY ExpectedIsSound DEF PipelineInv, DestinationWhole, Signed
<1>1. CASE CheckInput(j)
  BY <1>0, <1>1 DEF CheckInput, Goto, JobKnows, Expected, Signed, TypeOK
<1>2. CASE Stage(j)
  BY <1>0, <1>2 DEF Stage, Goto, JobKnows, Expected, Signed, TypeOK
<1>3. CASE RewritePayload(j)
  BY <1>0, <1>3 DEF RewritePayload, Goto, JobKnows, Expected, Signed, TypeOK
<1>4. CASE InspectExisting(j)
  BY <1>0, <1>4 DEF InspectExisting, Goto, JobKnows, Expected, Signed, TypeOK
<1>5. CASE RemoveSignature(j)
  BY <1>0, <1>5 DEF RemoveSignature, Unsigned, Goto, JobKnows, Expected, Signed, TypeOK
<1>6. CASE ExtractData(j)
  BY <1>0, <1>6 DEF ExtractData, Goto, JobKnows, Expected, Signed, TypeOK
<1>7. CASE SignDigest(j)
  BY <1>0, <1>7 DEF SignDigest, Goto, JobKnows, Expected, Signed, TypeOK
<1>8. CASE AttachSignature(j)
  <2> DEFINE c == [body |-> work[j].body, over |-> indirect[j], signer |-> TRUE,
                   stamped |-> FALSE, by |-> j]
  <2>1. c \in Content
    BY DEF TypeOK, Content
  <2>2. PICK d \in ToolOutput(c) : work' = [work EXCEPT ![j] = d]
    BY <1>8 DEF AttachSignature
  <2>3. d.over = e => d.by = j /\ d.stamped = FALSE
    BY <1>0, <2>1, <2>2, ToolOutputKeeps
  <2>4. work'[j] = d
    BY <2>2 DEF TypeOK
  <2>5. /\ pc[j] = "attach"
        /\ pc'[j] = IF options.no_timestamp THEN "verify" ELSE "timestamp"
        /\ UNCHANGED <<options, indirect, result>>
    BY <1>8 DEF AttachSignature, Goto, TypeOK
  <2>6. indirect'[j] = e /\ result[j] = "pending" /\ Expected(Target[j])' = e
    BY <1>0, <2>5 DEF JobKnows, Expected
  <2> HIDE DEF c, e
  <2>7. CASE options.no_timestamp
    BY <2>3, <2>4, <2>5, <2>6, <2>7 DEF JobKnows
  <2>8. CASE ~options.no_timestamp
    BY <2>3, <2>4, <2>5, <2>6, <2>8 DEF JobKnows
  <2> QED
    BY <2>7, <2>8
<1>9. CASE AddTimestamp(j)
  <2> DEFINE c == [work[j] EXCEPT !.stamped = TRUE]
  <2>1. work[j] \in Content
    BY DEF TypeOK
  <2>2. /\ c \in Content
        /\ c.stamped = TRUE
        /\ c.by = work[j].by
        /\ c.over = work[j].over
    BY <2>1 DEF Content
  <2>3. PICK d \in ToolOutput(c) : work' = [work EXCEPT ![j] = d]
    BY <1>9 DEF AddTimestamp
  <2>4. d.over = e => d.by = work[j].by /\ d.stamped = TRUE /\ work[j].over = e
    BY <1>0, <2>2, <2>3, ToolOutputKeeps
  <2>5. work'[j] = d
    BY <2>3 DEF TypeOK
  <2>6. /\ pc[j] = "timestamp" /\ pc'[j] = "verify"
        /\ UNCHANGED <<options, indirect, result>>
    BY <1>9 DEF AddTimestamp, Goto, TypeOK
  <2>7. /\ indirect'[j] = e /\ result[j] = "pending" /\ Expected(Target[j])' = e
        /\ options.no_timestamp = FALSE
        /\ work[j].over = e => work[j].by = j
    BY <1>0, <2>6 DEF JobKnows, Expected, TypeOK, Options
  <2> HIDE DEF c, e
  <2> QED
    BY <2>4, <2>5, <2>6, <2>7 DEF JobKnows
<1>10. CASE VerifyFinalCms(j)
  BY <1>0, <1>10 DEF VerifyFinalCms, Goto, JobKnows, Expected, Signed, TypeOK
<1>11. CASE RecheckContent(j)
  BY <1>0, <1>11 DEF RecheckContent, Goto, JobKnows, Expected, Signed, TypeOK
<1>12. CASE DumpCms(j)
  BY <1>0, <1>12 DEF DumpCms, Goto, JobKnows, Expected, Signed, TypeOK
<1>13. CASE ReplaceStaged(j)
  BY <1>0, <1>13 DEF ReplaceStaged, Goto, JobKnows, Expected, Signed, TypeOK
<1> QED
  BY <1>1, <1>2, <1>3, <1>4, <1>5, <1>6, <1>7, <1>8, <1>9, <1>10, <1>11, <1>12, <1>13

\* PipelineInv is inductive: every step of sign_file and sign_staged, of any job,
\* and a crash, preserve it.
LEMMA PipelineInductive ==
  TypeOK /\ TypeOK' /\ PipelineInv /\ [Next]_vars => PipelineInv'
<1> SUFFICES ASSUME TypeOK, TypeOK', PipelineInv, [Next]_vars PROVE PipelineInv'
  OBVIOUS
<1> USE JobsAssumption
<1>1. ASSUME NEW j \in Jobs, Step(j) PROVE PipelineInv'
  <2>1. CASE CheckInput(j)
    <3>1. JobKnows(j)'
      BY <2>1, StepKnows
    <3> QED
      BY <2>1, <3>1, PrivateStep DEF CheckInput, Goto, TypeOK
  <2>2. CASE Stage(j)
    <3>1. JobKnows(j)'
      BY <2>2, StepKnows
    <3> QED
      BY <2>2, <3>1, PrivateStep DEF Stage, Goto, TypeOK
  <2>3. CASE RewritePayload(j)
    <3>1. JobKnows(j)'
      BY <2>3, StepKnows
    <3> QED
      BY <2>3, <3>1, PrivateStep DEF RewritePayload, Goto, TypeOK
  <2>4. CASE InspectExisting(j)
    <3>1. JobKnows(j)'
      BY <2>4, StepKnows
    <3> QED
      BY <2>4, <3>1, PrivateStep DEF InspectExisting, Goto, TypeOK
  <2>5. CASE RemoveSignature(j)
    <3>1. JobKnows(j)'
      BY <2>5, StepKnows
    <3> QED
      BY <2>5, <3>1, PrivateStep DEF RemoveSignature, Goto, TypeOK
  <2>6. CASE ExtractData(j)
    <3>1. JobKnows(j)'
      BY <2>6, StepKnows
    <3> QED
      BY <2>6, <3>1, PrivateStep DEF ExtractData, Goto, TypeOK
  <2>7. CASE SignDigest(j)
    <3>1. JobKnows(j)'
      BY <2>7, StepKnows
    <3> QED
      BY <2>7, <3>1, PrivateStep DEF SignDigest, Goto, TypeOK
  <2>8. CASE AttachSignature(j)
    <3>1. JobKnows(j)'
      BY <2>8, StepKnows
    <3> QED
      BY <2>8, <3>1, PrivateStep DEF AttachSignature, Goto, TypeOK
  <2>9. CASE AddTimestamp(j)
    <3>1. JobKnows(j)'
      BY <2>9, StepKnows
    <3> QED
      BY <2>9, <3>1, PrivateStep DEF AddTimestamp, Goto, TypeOK
  <2>10. CASE VerifyFinalCms(j)
    <3>1. JobKnows(j)'
      BY <2>10, StepKnows
    <3> QED
      BY <2>10, <3>1, PrivateStep DEF VerifyFinalCms, Goto, TypeOK
  <2>11. CASE RecheckContent(j)
    <3>1. JobKnows(j)'
      BY <2>11, StepKnows
    <3> QED
      BY <2>11, <3>1, PrivateStep DEF RecheckContent, Goto, TypeOK
  <2>12. CASE DumpCms(j)
    <3>1. JobKnows(j)'
      BY <2>12, StepKnows
    <3> QED
      BY <2>12, <3>1, PrivateStep DEF DumpCms, Goto, TypeOK
  <2>13. CASE ReplaceStaged(j)
    <3>1. JobKnows(j)'
      BY <2>13, StepKnows
    <3> QED
      BY <2>13, <3>1, PrivateStep DEF ReplaceStaged, Goto, TypeOK
  <2>14. CASE ReplaceInput(j)
    <3>1. /\ Signed(staged[j], Target[j]) /\ staged[j].by = j
          /\ result[j] = "pending"
      BY <2>14 DEF PipelineInv, JobKnows, ReplaceInput, Goto
    <3>2. /\ disk'[Target[j]] = staged[j]
          /\ \A p \in Paths \ {Target[j]} : disk'[p] = disk[p]
      BY <2>14 DEF ReplaceInput, TypeOK
    <3>3. ASSUME NEW k \in Jobs PROVE JobKnows(k)'
      <4>1. CASE k = j
        BY <2>14, <3>1, <3>2, <4>1 DEF ReplaceInput, Goto, JobKnows, Signed, Expected, TypeOK
      <4>2. CASE k # j
        <5>1. JobKnows(k) /\ pc'[k] = pc[k]
          BY <2>14, <4>2 DEF PipelineInv, ReplaceInput, Goto, TypeOK
        <5>2. disk'[Target[k]] = disk[Target[k]] \/ Signed(disk'[Target[k]], Target[k])
          BY <3>1, <3>2
        <5> QED
          BY <2>14, <4>2, <5>1, <5>2, OthersKnow DEF ReplaceInput, Goto
      <4> QED
        BY <4>1, <4>2
    <3>4. DestinationWhole'
      BY <2>14, <3>1, <3>2
      DEF PipelineInv, DestinationWhole, Signed, Expected, ReplaceInput, Goto
    <3>5. FailureLeavesInput'
      BY <2>14, <3>1, <3>2 DEF PipelineInv, FailureLeavesInput, ReplaceInput, Goto, TypeOK
    <3> QED
      BY <2>14, <3>3, <3>4, <3>5 DEF PipelineInv, ReplaceInput, Goto
  <2>15. CASE ReportOk(j) \/ Throw(j)
    <3>1. ASSUME NEW k \in Jobs PROVE JobKnows(k)'
      <4>1. CASE k = j
        BY <2>15, <4>1
        DEF PipelineInv, ReportOk, Throw, Goto, JobKnows, Signed, Expected, TypeOK
      <4>2. CASE k # j
        <5>1. JobKnows(k) /\ pc'[k] = pc[k] /\ result'[k] = result[k]
          BY <2>15, <4>2 DEF PipelineInv, ReportOk, Throw, Goto, TypeOK
        <5> QED
          BY <2>15, <4>2, <5>1, OthersKnow DEF ReportOk, Throw, Goto
      <4> QED
        BY <4>1, <4>2
    <3>2. DestinationWhole'
      BY <2>15, DiskUntouched DEF PipelineInv, ReportOk, Throw, Goto
    <3>3. FailureLeavesInput'
      BY <2>15 DEF PipelineInv, FailureLeavesInput, ReportOk, Throw, Goto, TypeOK
    <3> QED
      BY <2>15, <3>1, <3>2, <3>3 DEF PipelineInv, ReportOk, Throw, Goto
  <2> QED
    BY <1>1, <2>1, <2>2, <2>3, <2>4, <2>5, <2>6, <2>7, <2>8, <2>9, <2>10, <2>11, <2>12, <2>13, <2>14, <2>15 DEF Step
<1>2. CASE Crash \/ Stopped \/ UNCHANGED vars
  <2>1. UNCHANGED <<options, original, disk, staged, work, indirect, pc, result>>
    BY <1>2 DEF Crash, Stopped, vars
  <2>2. \A k \in Jobs : JobKnows(k)'
    BY <2>1, OthersKnow DEF PipelineInv
  <2>3. DestinationWhole' /\ FailureLeavesInput'
    BY <2>1, DiskUntouched DEF PipelineInv, FailureLeavesInput
  <2> QED
    BY <2>1, <2>2, <2>3 DEF PipelineInv
<1> QED
  BY <1>1, <1>2 DEF Next

\* Each step of the signing pipeline may rely on what its predecessors checked,
\* for any number of concurrent jobs on any paths (sign_file, sign_staged).
THEOREM PipelineCorrect == Spec => []PipelineInv
<1>1. Init => PipelineInv
  <2> SUFFICES ASSUME Init PROVE PipelineInv
    OBVIOUS
  <2>1. \A p \in Paths : original[p] \in Inputs
    BY DEF Init
  <2>2. \A c \in Inputs : c.by = Vendor /\ c.body = "original"
    <3>1. Unsigned("original").by = Vendor /\ Unsigned("original").body = "original"
      BY DEF Unsigned
    <3> QED
      BY <3>1 DEF Inputs
  <2>3. \A j \in Jobs : JobKnows(j)
    BY DEF Init, JobKnows
  <2>4. DestinationWhole
    BY DEF Init, DestinationWhole
  <2>5. FailureLeavesInput
    BY <2>1, <2>2, JobsAssumption DEF Init, FailureLeavesInput
  <2> QED
    BY <2>1, <2>2, <2>3, <2>4, <2>5 DEF PipelineInv
<1> QED
  BY <1>1, TypeCorrect, PipelineInductive, PTL DEF Spec

\* The destination is always the untouched input or a complete signed version of
\* it, a job that failed or was killed before its rename left nothing behind,
\* and a file reported as signed is signed.
THEOREM DestinationsSafe ==
  Spec => [](DestinationWhole /\ FailureLeavesInput /\ OkMeansSigned)
<1>1. PipelineInv => DestinationWhole /\ FailureLeavesInput /\ OkMeansSigned
  BY DEF PipelineInv, JobKnows, OkMeansSigned
<1> QED
  BY <1>1, PipelineCorrect, PTL

-----------------------------------------------------------------------------
\* --dump-cms: there is one file only, so the dump is written by one job, and what
\* it wrote is what that job carries to its destination.

\* sign_main refuses --dump-cms with several files.
OneFile == options.dump_cms # "empty" => \A j, k \in options.files : j = k

DumpKnows(j) ==
  /\ pc[j] # "check" => j \in options.files
  /\ options.dump_cms # "empty" =>
       /\ pc[j] = "restage" => dump = work[j]
       /\ pc[j] = "replace" => dump = staged[j]
       /\ pc[j] = "committed" \/ result[j] = "ok" => dump = disk[Target[j]]

DumpInv == OneFile /\ \A j \in Jobs : DumpKnows(j)

\* A finite set with at most one element has one only.
LEMMA AtMostOne ==
  ASSUME NEW S, IsFiniteSet(S), ~(Cardinality(S) > 1), NEW j \in S, NEW k \in S
  PROVE  j = k
<1> SUFFICES ASSUME j # k PROVE FALSE
  OBVIOUS
<1>1. {j, k} \subseteq S
  OBVIOUS
<1>2. IsFiniteSet({j, k}) /\ Cardinality({j, k}) = 2
  <2>1. IsFiniteSet({j}) /\ Cardinality({j}) = 1
    BY FS_Singleton
  <2>2. k \notin {j} /\ {j, k} = {j} \cup {k}
    OBVIOUS
  <2> QED
    BY <2>1, <2>2, FS_AddElement
<1>3. Cardinality({j, k}) <= Cardinality(S)
  BY <1>1, FS_Subset
<1> QED
  BY <1>2, <1>3, FS_CardinalityType

\* DumpInv is inductive, given what the pipeline's own invariant says of results.
LEMMA DumpInductive ==
  TypeOK /\ PipelineInv /\ DumpInv /\ [Next]_vars => DumpInv'
<1> SUFFICES ASSUME TypeOK, PipelineInv, DumpInv, [Next]_vars PROVE DumpInv'
  OBVIOUS
<1>1. UNCHANGED options
  BY DEF Next, Step, CheckInput, Stage, RewritePayload, InspectExisting, RemoveSignature,
     ExtractData, SignDigest, AttachSignature, AddTimestamp, VerifyFinalCms, RecheckContent,
     DumpCms, ReplaceStaged, ReplaceInput, ReportOk, Throw, Goto, Crash, Stopped, vars
<1>2. OneFile'
  BY <1>1 DEF DumpInv, OneFile
<1>3. ASSUME NEW j \in Jobs, Step(j), NEW k \in Jobs PROVE DumpKnows(k)'
  <2>0. /\ pc \in [Jobs -> Steps] /\ staged \in [Jobs -> Content] /\ work \in [Jobs -> Content]
        /\ result \in [Jobs -> {"pending", "ok", "failed"}] /\ disk \in [Paths -> Content]
        /\ Target[j] \in Paths
    BY JobsAssumption DEF TypeOK
  <2>1. /\ DumpKnows(j) /\ DumpKnows(k)
        /\ result[k] = "pending" <=> pc[k] # "done"
    BY DEF DumpInv, PipelineInv, JobKnows
  <2>2. j \in options.files
    BY <1>3, <2>1 DEF DumpKnows, Step, CheckInput, Stage, RewritePayload, InspectExisting, RemoveSignature,
       ExtractData, SignDigest, AttachSignature, AddTimestamp, VerifyFinalCms, RecheckContent,
       DumpCms, ReplaceStaged, ReplaceInput, ReportOk, Throw, Goto
  <2>3. CASE k # j
    <3>1. pc'[k] = pc[k] /\ result'[k] = result[k]
      BY <1>3, <2>0, <2>3 DEF Step, CheckInput, Stage, RewritePayload, InspectExisting, RemoveSignature,
         ExtractData, SignDigest, AttachSignature, AddTimestamp, VerifyFinalCms, RecheckContent,
         DumpCms, ReplaceStaged, ReplaceInput, ReportOk, Throw, Goto
    <3>2. options.dump_cms # "empty" => pc[k] = "check"
      BY <2>1, <2>2, <2>3 DEF DumpInv, OneFile, DumpKnows
    <3> QED
      BY <1>1, <2>1, <3>1, <3>2 DEF DumpKnows
  <2>4. CASE k = j
    <3>1. CASE \/ CheckInput(j) \/ Stage(j) \/ RewritePayload(j) \/ InspectExisting(j)
               \/ RemoveSignature(j) \/ ExtractData(j) \/ SignDigest(j) \/ AttachSignature(j)
               \/ AddTimestamp(j) \/ VerifyFinalCms(j)
      <4>1. /\ pc[j] # "done" /\ result' = result
            /\ \E s \in {"stage", "payload", "inspect", "remove", "extract", "azure", "attach",
                         "timestamp", "verify", "recheck"} : pc' = [pc EXCEPT ![j] = s]
        BY <3>1 DEF CheckInput, Stage, RewritePayload, InspectExisting, RemoveSignature,
           ExtractData, SignDigest, AttachSignature, AddTimestamp, VerifyFinalCms, Goto
      <4> QED
        BY <1>1, <2>0, <2>1, <2>2, <2>4, <4>1 DEF DumpKnows
    <3>2. CASE RecheckContent(j)
      <4>1. /\ pc[j] = "recheck" /\ result' = result
            /\ pc' = [pc EXCEPT ![j] = IF options.dump_cms = "empty" THEN "restage" ELSE "dump"]
        BY <3>2 DEF RecheckContent, Goto
      <4> QED
        BY <1>1, <2>0, <2>1, <2>2, <2>4, <4>1 DEF DumpKnows
    <3>3. CASE DumpCms(j)
      <4>1. /\ pc[j] = "dump" /\ pc' = [pc EXCEPT ![j] = "restage"]
            /\ dump' = work[j] /\ UNCHANGED <<result, work>>
        BY <3>3 DEF DumpCms, Goto
      <4> QED
        BY <1>1, <2>0, <2>1, <2>2, <2>4, <4>1 DEF DumpKnows
    <3>4. CASE ReplaceStaged(j)
      <4>1. /\ pc[j] = "restage" /\ pc' = [pc EXCEPT ![j] = "replace"]
            /\ staged' = [staged EXCEPT ![j] = work[j]] /\ UNCHANGED <<result, dump>>
        BY <3>4 DEF ReplaceStaged, Goto
      <4> QED
        BY <1>1, <2>0, <2>1, <2>2, <2>4, <4>1 DEF DumpKnows
    <3>5. CASE ReplaceInput(j)
      <4>1. /\ pc[j] = "replace" /\ pc' = [pc EXCEPT ![j] = "committed"]
            /\ disk' = [disk EXCEPT ![Target[j]] = staged[j]] /\ UNCHANGED <<result, dump>>
        BY <3>5 DEF ReplaceInput, Goto
      <4> QED
        BY <1>1, <2>0, <2>1, <2>2, <2>4, <4>1 DEF DumpKnows
    <3>6. CASE ReportOk(j)
      <4>1. /\ pc[j] = "committed" /\ pc' = [pc EXCEPT ![j] = "done"]
            /\ UNCHANGED <<disk, dump>>
        BY <3>6 DEF ReportOk, Goto
      <4> QED
        BY <1>1, <2>0, <2>1, <2>2, <2>4, <4>1 DEF DumpKnows
    <3>7. CASE Throw(j)
      <4>1. pc' = [pc EXCEPT ![j] = "done"] /\ result' = [result EXCEPT ![j] = "failed"]
        BY <3>7 DEF Throw
      <4> QED
        BY <1>1, <2>0, <2>2, <2>4, <4>1 DEF DumpKnows
    <3> QED
      BY <1>3, <3>1, <3>2, <3>3, <3>4, <3>5, <3>6, <3>7 DEF Step
  <2> QED
    BY <2>3, <2>4
<1>4. ASSUME Crash \/ Stopped \/ UNCHANGED vars, NEW k \in Jobs PROVE DumpKnows(k)'
  <2>1. UNCHANGED <<pc, work, staged, disk, dump, result>>
    BY <1>4 DEF Crash, Stopped, vars
  <2> QED
    BY <1>1, <2>1 DEF DumpInv, DumpKnows
<1> QED
  BY <1>2, <1>3, <1>4 DEF Next, DumpInv

\* The --dump-cms file of a job that succeeded is the signature now in its file,
\* whatever the set of jobs (sign_staged's write_blob of the final CMS).
THEOREM DumpIsFinal == Spec => []DumpIsFinalCms
<1>1. Init => DumpInv
  <2> SUFFICES ASSUME Init PROVE DumpInv
    OBVIOUS
  <2>1. IsFiniteSet(options.files)
    <3>1. options.files \subseteq Jobs
      BY JobsAssumption DEF Init, Options
    <3> QED
      BY <3>1, JobsAssumption, FS_Subset
  <2>2. OneFile
    BY <2>1, AtMostOne DEF Init, OneFile
  <2> QED
    BY <2>2 DEF Init, DumpInv, DumpKnows
<1>2. DumpInv => DumpIsFinalCms
  BY DEF DumpInv, DumpKnows, DumpIsFinalCms
<1> QED
  BY <1>1, <1>2, DumpInductive, TypeCorrect, PipelineCorrect, PTL DEF Spec

-----------------------------------------------------------------------------
\* The mapped state of AtomicSign changes only with the disk and the outcome.
LEMMA SameView ==
  ASSUME UNCHANGED <<options, original, disk>>
  PROVE  Owner' = Owner
  BY DEF Owner, Signed, Expected

\* Every step of the pipeline is a step of AtomicSign or leaves its view alone:
\* the rename is Commit, the report of success Report, any exception Fail.
LEMMA StepRefines ==
  TypeOK /\ PipelineInv /\ [Next]_vars => [Abstract!Next]_(Abstract!vars)
<1> SUFFICES ASSUME TypeOK, PipelineInv, [Next]_vars
             PROVE  Abstract!Next \/ UNCHANGED Abstract!vars
  OBVIOUS
<1> USE JobsAssumption
<1>1. ASSUME NEW j \in Jobs, Step(j) PROVE Abstract!Next \/ UNCHANGED Abstract!vars
  <2>0. JobKnows(j)
    BY DEF PipelineInv
  <2>1. CASE ReplaceInput(j)
    <3>1. /\ Signed(staged[j], Target[j]) /\ staged[j].by = j
          /\ pc[j] = "replace" /\ result[j] = "pending" /\ alive
      BY <2>0, <2>1 DEF JobKnows, ReplaceInput, Goto
    <3>2. /\ disk'[Target[j]] = staged[j]
          /\ \A p \in Paths \ {Target[j]} : disk'[p] = disk[p]
          /\ UNCHANGED <<options, original, alive, result>>
          /\ pc' = [pc EXCEPT ![j] = "committed"]
      BY <2>1 DEF ReplaceInput, Goto, TypeOK
    <3>3. Owner' = [Owner EXCEPT ![Target[j]] = j]
      <4>1. ASSUME NEW p \in Paths
            PROVE  Owner'[p] = IF p = Target[j] THEN j ELSE Owner[p]
        <5>1. original[p].by = Vendor
          BY DEF PipelineInv
        <5>2. CASE p = Target[j]
          <6>1. (disk[p] # original[p])' /\ Signed(disk[p], p)' /\ disk'[p].by = j
            BY <3>1, <3>2, <5>1, <5>2 DEF Signed, Expected
          <6> QED
            BY <5>2, <6>1 DEF Owner
        <5>3. CASE p # Target[j]
          BY <3>2, <5>3 DEF Owner, Signed, Expected
        <5> QED
          BY <5>2, <5>3
      <4> QED
        BY <4>1 DEF Owner
    <3>4. Status[j] = "pending" /\ Status' = [Status EXCEPT ![j] = "committed"]
      BY <3>1, <3>2 DEF Status, TypeOK
    <3> QED
      BY <3>1, <3>2, <3>3, <3>4 DEF Abstract!Next, Abstract!Commit, Abstract!Move
  <2>2. CASE ReportOk(j)
    <3>1. UNCHANGED <<options, original, disk, alive>> /\ alive
      BY <2>2 DEF ReportOk, Goto
    <3>2. Status[j] = "committed" /\ Status' = [Status EXCEPT ![j] = "ok"]
      BY <2>2 DEF ReportOk, Goto, Status, TypeOK
    <3> QED
      BY <3>1, <3>2, SameView DEF Abstract!Next, Abstract!Report, Abstract!Move
  <2>3. CASE Throw(j)
    <3>1. UNCHANGED <<options, original, disk, alive>> /\ alive
      BY <2>3 DEF Throw
    <3>2. Status[j] = "pending" /\ Status' = [Status EXCEPT ![j] = "failed"]
      BY <2>0, <2>3 DEF JobKnows, Throw, Status, TypeOK
    <3> QED
      BY <3>1, <3>2, SameView DEF Abstract!Next, Abstract!Fail, Abstract!Move
  <2>4. CASE /\ UNCHANGED <<options, original, disk, result, alive>>
             /\ \E s \in Steps \ {"committed", "done"} :
                  pc[j] \notin {"committed", "done"} /\ pc' = [pc EXCEPT ![j] = s]
    <3>1. Status' = Status
      BY <2>4 DEF Status, TypeOK
    <3> QED
      BY <2>4, <3>1, SameView DEF Abstract!vars
  <2>5. \/ ReplaceInput(j) \/ ReportOk(j) \/ Throw(j)
        \/ /\ UNCHANGED <<options, original, disk, result, alive>>
           /\ \E s \in Steps \ {"committed", "done"} :
                pc[j] \notin {"committed", "done"} /\ pc' = [pc EXCEPT ![j] = s]
    BY <1>1 DEF Step, Goto, Steps, CheckInput, Stage, RewritePayload, InspectExisting,
       RemoveSignature, ExtractData, SignDigest, AttachSignature, AddTimestamp,
       VerifyFinalCms, RecheckContent, DumpCms, ReplaceStaged
  <2> QED
    BY <2>1, <2>2, <2>3, <2>4, <2>5
<1>2. CASE Crash
  <2>1. /\ UNCHANGED <<options, original, disk, pc, result>>
        /\ alive /\ alive' = FALSE
    BY <1>2 DEF Crash
  <2>2. Status' = Status
    BY <2>1 DEF Status
  <2> QED
    BY <2>1, <2>2, SameView DEF Abstract!Next, Abstract!Crash
<1>3. CASE Stopped \/ UNCHANGED vars
  BY <1>3, SameView DEF Stopped, vars, Abstract!vars, Status
<1> QED
  BY <1>1, <1>2, <1>3 DEF Next

\* sign_file implements the all-or-nothing promise of AtomicSign: whatever the
\* companion, Azure and the other jobs do, the only visible change of a path is
\* one step to a complete signed version, by a job that then reports success.
THEOREM SigningIsAtomic == Spec => SignsAtomically
<1>1. Init => Abstract!Init
  BY DEF Init, Abstract!Init, Owner, Status
<1> QED
  BY <1>1, StepRefines, TypeCorrect, PipelineCorrect, PTL
  DEF Spec, SignsAtomically, Abstract!Spec
=============================================================================
