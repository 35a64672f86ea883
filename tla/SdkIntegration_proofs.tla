----------------------- MODULE SdkIntegration_proofs ------------------------
(***************************************************************************)
(* Proofs about the job that assembles the SDK.  What the pool knows of a  *)
(* row, what its process does and what it leaves behind are related step   *)
(* by step; the environment is only ever compared with what it was at the  *)
(* start, which suffices because no change is ever undone.                 *)
(***************************************************************************)
EXTENDS SdkIntegration, FiniteSetTheorems, TLAPS

-----------------------------------------------------------------------------
(***************************************************************************)
(* The inductive invariant                                                 *)
(***************************************************************************)
Both == {"diagnostics", "result"}

\* A thread holds a row while its process lives, and knows how it has ended.
FutureKnows(r) ==
    /\ worker[r] = "none" <=> future[r] \in {"none", "pending", "cancelled"}
    /\ future[r] \in {"returned", "raised"} => worker[r] = "exited"
    /\ future[r] = "returned" => sound[r]

\* What a process has left behind at each of its steps.
WorkerLeaves(r) ==
    /\ worker[r] \in {"none", "started"} => staged[r] = "none"
    /\ worker[r] \in {"none", "started", "build"} => sound[r] /\ evidence[r] = {} /\ export[r] = "none"
    /\ worker[r] \in {"export", "preserve"} => staged[r] = "held" /\ evidence[r] = {}
    /\ worker[r] \in {"export", "accept", "recheck"} => sound[r]
    /\ worker[r] = "accept" => staged[r] = "held" /\ evidence[r] = {"diagnostics"}
    /\ worker[r] = "recheck" \/ (worker[r] = "exited" /\ sound[r]) =>
        staged[r] = "discarded" /\ evidence[r] = Both
    /\ worker[r] \in {"export", "preserve", "accept", "recheck", "exited"} /\ sound[r] => builtWith[r] = 0
    /\ worker[r] \in {"preserve", "accept", "recheck", "exited"} /\ sound[r] => export[r] = "completed"
    /\ builtWith[r] <= environment

\* The groups of a row that are not used by its latest attempt have ended.
GroupsEnd(r) ==
    /\ export[r] = "none" => try[r] = 0 /\ group[r][1] = {} /\ group[r][2] = {}
    /\ export[r] # "none" => try[r] \in {1, 2}
    /\ try[r] = 1 => group[r][2] = {}
    /\ try[r] = 2 => group[r][1] = {}
    /\ export[r] = "completed" => archive[r] = "complete" /\ group[r][1] = {} /\ group[r][2] = {}

RowInv(r) == FutureKnows(r) /\ WorkerLeaves(r) /\ GroupsEnd(r)

\* What the main thread has learned from the catalog and from the pool.
MainKnows ==
    /\ main = "acquire" => \A r \in Rows : resolution[r] = "unknown"
    /\ \A r \in Rows \ Missing : future[r] = "none"
    /\ results \subseteq Missing /\ \A r \in results : future[r] = "returned"
    /\ main \in {"pool", "integrate", "integrating", "final", "done"} =>
        \A r \in Rows \ Missing : resolution[r] = "verified-qualified-row"
    /\ main \in {"integrate", "integrating", "final", "done"} => results = Missing
    /\ main = "drain" => Pending = {}
    /\ main = "failed" => Pending = {} /\ Running = {}
    /\ integratedWith <= environment
    /\ main = "done" => integratedWith = 0

\* The step after a failure finds rows that no longer change.
JobFollows ==
    /\ job # "integration" => main \in {"done", "failed"}
    /\ \A r \in Rows : snapshot[r] # "none" =>
        job # "integration" /\ (staged[r] # "none" => snapshot[r] \in {"copied", "partial"})
    /\ job = "ended" => main = "done" \/ \A r \in Rows : snapshot[r] # "none"

SdkInv ==
    /\ SdkTypeOK
    /\ IsFiniteSet(Running)
    /\ \A r \in Rows : RowInv(r)
    /\ MainKnows
    /\ JobFollows
-----------------------------------------------------------------------------
(***************************************************************************)
(* Lemmas                                                                  *)
(***************************************************************************)
\* Changes of the environment and faults are counted upwards.
LEMMA CountsRise ==
    ASSUME SdkTypeOK, [SdkNext]_sdkVars
    PROVE  /\ environment \in Nat /\ environment' \in Nat /\ environment <= environment'
           /\ faults \in Nat /\ faults' \in 0 .. MaxFaults /\ faults <= faults'
           /\ environment' <= faults'
<1>1. CASE Change
  BY <1>1, SdkAssumption DEF Change, Fault, SdkTypeOK
<1>2. ASSUME MainStep \/ JobStep \/ Interrupt
      PROVE  environment' = environment /\ (faults' = faults \/ Fault)
  BY <1>2 DEF MainStep, Acquire, Collect, Cancel, Drain, Assemble, Bind, Integrate, Conclude,
              JobStep, EndIntegration, Snapshot, EndJob, Interrupt
<1>3. ASSUME NEW r \in Rows, RowStep(r) \/ WorkerDies(r)
      PROVE  environment' = environment /\ (faults' = faults \/ Fault)
  BY <1>3 DEF RowStep, Take, Reap, WorkerStep, OwnStep, Transfer, WorkerDies, Recheck, Build, Built, Export, Exported,
              Preserve, Accept
<1>4. ASSUME UNCHANGED sdkVars
      PROVE  environment' = environment /\ (faults' = faults \/ Fault)
  BY <1>4 DEF sdkVars
<1>5. ASSUME environment' = environment, faults' = faults \/ Fault
      PROVE  /\ environment \in Nat /\ environment' \in Nat /\ environment <= environment'
             /\ faults \in Nat /\ faults' \in 0 .. MaxFaults /\ faults <= faults'
             /\ environment' <= faults'
  BY <1>5, SdkAssumption DEF SdkTypeOK, Fault
<1>. QED BY <1>1, <1>2, <1>3, <1>4, <1>5 DEF SdkNext

\* What the pool may do with the rows: at most one starts to run.
LEMMA PoolMoves ==
    ASSUME SdkTypeOK, [SdkNext]_sdkVars
    PROVE  \/ Running' \subseteq Running
           \/ \E r \in Rows : Cardinality(Running) < Parallelism /\ Running' = Running \cup {r}
<1>. USE DEF Running, SdkTypeOK
<1>1. ASSUME future' = future PROVE Running' = Running
  BY <1>1
<1>2. CASE Acquire
  BY <1>1, <1>2 DEF Acquire
<1>3. CASE Cancel
  BY <1>1, <1>3 DEF Cancel, Pending
<1>4. CASE MainStep
  BY <1>1, <1>2, <1>3, <1>4 DEF MainStep, Collect, Drain, Assemble, Bind, Integrate, Conclude, pool
<1>5. CASE JobStep \/ Interrupt \/ Change
  BY <1>1, <1>5 DEF JobStep, EndIntegration, Snapshot, EndJob, Interrupt, Change, pool
<1>6. CASE \E r \in Rows : RowStep(r) \/ WorkerDies(r)
  <2>1. PICK r \in Rows : RowStep(r) \/ WorkerDies(r)
    BY <1>6
  <2>2. CASE Take(r)
    <3>1. future' = [future EXCEPT ![r] = "running"] /\ Cardinality(Running) < Parallelism
      BY <2>2 DEF Take
    <3>2. Running' = Running \cup {r}
      BY <3>1
    <3>. QED BY <3>1, <3>2
  <2>3. CASE Reap(r)
    <3>1. future' = [future EXCEPT ![r] = IF sound[r] THEN "returned" ELSE "raised"]
      BY <2>3 DEF Reap
    <3>2. Running' \subseteq Running
      BY <3>1
    <3>. QED BY <3>2
  <2>4. CASE WorkerStep(r) \/ WorkerDies(r)
    BY <1>1, <2>4 DEF WorkerStep, OwnStep, Transfer, WorkerDies, Recheck, Build, Built, Export, Exported, Preserve, Accept, pool
  <2>. QED BY <2>1, <2>2, <2>3, <2>4 DEF RowStep
<1>7. CASE UNCHANGED sdkVars
  BY <1>1, <1>7 DEF sdkVars, pool
<1>. QED BY <1>4, <1>5, <1>6, <1>7 DEF SdkNext

LEMMA RunningBounded ==
    ASSUME SdkTypeOK, IsFiniteSet(Running), [SdkNext]_sdkVars
    PROVE  IsFiniteSet(Running') /\ Cardinality(Running') <= Parallelism
<1>1. Cardinality(Running) \in Nat /\ Cardinality(Running) <= Parallelism /\ Parallelism \in Nat
  BY FS_CardinalityType, SdkAssumption DEF SdkTypeOK
<1>2. CASE Running' \subseteq Running
  BY <1>1, <1>2, FS_Subset, FS_CardinalityType
<1>3. CASE \E r \in Rows : Cardinality(Running) < Parallelism /\ Running' = Running \cup {r}
  <2>1. PICK r \in Rows : Cardinality(Running) < Parallelism /\ Running' = Running \cup {r}
    BY <1>3
  <2>2. IsFiniteSet(Running \cup {r})
        /\ Cardinality(Running \cup {r}) \in {Cardinality(Running), Cardinality(Running) + 1}
    BY FS_AddElement
  <2>. QED BY <1>1, <2>1, <2>2
<1>. QED BY <1>2, <1>3, PoolMoves
\* The types of everything but the pool, action by action.
LEMMA ExportTypes ==
    ASSUME ExportTypeOK, NEW r \in Rows, Start(r) \/ CallerStep(r) \/ TransferStep(r)
    PROVE  ExportTypeOK'
<1>. USE DEF ExportTypeOK
<1>1. CASE Start(r)
  BY <1>1 DEF Start, BeginAttempt, Processes
<1>2. CASE TransferEnds(r)
  <2>1. PICK left \in {{}, {"plugin"}} : group' = [group EXCEPT ![r][try[r]] = left]
    BY <1>2 DEF TransferEnds
  <2>2. group' \in [Rows -> [1 .. 2 -> SUBSET Processes]]
    BY <2>1 DEF Processes
  <2>. QED BY <1>2, <2>2 DEF TransferEnds
<1>3. CASE TransferTimesOut(r)
  BY <1>3 DEF TransferTimesOut
<1>4. CASE ProcessEnds(r)
  <2>1. PICK p \in group[r][try[r]] : group' = [group EXCEPT ![r][try[r]] = @ \ {p}]
    BY <1>4 DEF ProcessEnds
  <2>2. group' \in [Rows -> [1 .. 2 -> SUBSET Processes]]
    BY <2>1
  <2>. QED BY <1>4, <2>2 DEF ProcessEnds
<1>5. CASE Retry(r)
  BY <1>5 DEF Retry, BeginAttempt, KillGroup, Processes
<1>6. CASE GiveUp(r)
  BY <1>6 DEF GiveUp, KillGroup
<1>. QED BY <1>1, <1>2, <1>3, <1>4, <1>5, <1>6 DEF CallerStep, TransferStep

LEMMA TypesKept ==
    ASSUME SdkTypeOK, IsFiniteSet(Running), [SdkNext]_sdkVars
    PROVE  SdkTypeOK'
<1>1. Cardinality(Running') <= Parallelism
  BY RunningBounded
<1>2. /\ environment \in Nat /\ environment' \in Nat /\ faults \in Nat /\ faults' \in 0 .. MaxFaults
      /\ environment <= environment' /\ faults <= faults' /\ environment' <= faults'
  BY CountsRise
<1>3. builtWith \in [Rows -> 0 .. faults'] /\ integratedWith \in 0 .. faults' /\ environment' \in 0 .. faults'
      /\ environment \in 0 .. faults'
  BY <1>2, SdkAssumption DEF SdkTypeOK
<1>. HIDE DEF Running
<1>. SUFFICES
        /\ ExportTypeOK'
        /\ (main \in {"acquire", "pool", "cancel", "drain", "integrate", "integrating", "final",
                      "done", "failed"})'
        /\ (resolution \in [Rows -> {"unknown", "verified-qualified-row", "qualification-required",
                                     "dependency-build-required"}])'
        /\ (future \in [Rows -> {"none", "pending", "running", "returned", "raised", "cancelled"}])'
        /\ (results \subseteq Rows)'
        /\ (worker \in [Rows -> Alive \cup {"none", "exited"}])'
        /\ (sound \in [Rows -> BOOLEAN])'
        /\ (staged \in [Rows -> {"none", "held", "discarded"}])'
        /\ (evidence \in [Rows -> SUBSET {"diagnostics", "result"}])'
        /\ (integratedWith \in 0 .. faults)'
        /\ (builtWith \in [Rows -> 0 .. faults])'
        /\ (snapshot \in [Rows -> {"none", "absent", "copied", "partial"}])'
        /\ (job \in {"integration", "snapshot", "ended"})'
  BY <1>1, <1>2, <1>3 DEF SdkTypeOK
<1>. USE <1>2, <1>3 DEF SdkTypeOK, pool, row, after, exportVars, ExportTypeOK, Goto, WorkerGoto, Unsound
<1>4. CASE Acquire
  BY <1>4 DEF Acquire
<1>5. CASE \E r \in Rows : Collect(r)
  BY <1>5 DEF Collect
<1>6. CASE Cancel
  BY <1>6 DEF Cancel
<1>7. CASE Drain \/ Assemble
  BY <1>7 DEF Drain, Assemble
<1>8. CASE Bind
  BY <1>8 DEF Bind
<1>9. CASE Integrate
  BY <1>9 DEF Integrate
<1>10. CASE Conclude \/ Interrupt \/ Change
  BY <1>10 DEF Conclude, Interrupt, Change
<1>11. CASE JobStep
  <2>1. CASE EndIntegration \/ EndJob
    BY <2>1 DEF EndIntegration, EndJob
  <2>2. CASE \E r \in Rows : Snapshot(r)
    <3>1. snapshot' \in [Rows -> {"none", "absent", "copied", "partial"}]
      BY <2>2 DEF Snapshot
    <3>. QED BY <2>2, <3>1 DEF Snapshot
  <2>. QED BY <1>11, <2>1, <2>2 DEF JobStep
<1>12. CASE \E r \in Rows : RowStep(r) \/ WorkerDies(r)
  <2>1. PICK r \in Rows : RowStep(r) \/ WorkerDies(r)
    BY <1>12
  <2>2. CASE Take(r)
    BY <2>2 DEF Take, Alive
  <2>3. CASE Reap(r)
    BY <2>3 DEF Reap
  <2>4. CASE Recheck(r)
    <3>1. sound' \in [Rows -> BOOLEAN]
      BY <2>4 DEF Recheck
    <3>2. worker' \in [Rows -> Alive \cup {"none", "exited"}]
      BY <2>4 DEF Recheck, Alive
    <3>3. staged' \in [Rows -> {"none", "held", "discarded"}]
      BY <2>4 DEF Recheck
    <3>4. evidence' \in [Rows -> SUBSET {"diagnostics", "result"}]
      BY <2>4 DEF Recheck
    <3>5. ExportTypeOK'
      BY <2>4 DEF Recheck
    <3>. QED BY <2>4, <3>1, <3>2, <3>3, <3>4, <3>5 DEF Recheck
  <2>5. CASE Build(r)
    BY <2>5 DEF Build
  <2>6. CASE Built(r)
    <3>1. sound' \in [Rows -> BOOLEAN]
      <4>1. sound' = sound \/ Unsound(r)
        BY <2>6 DEF Built
      <4>. QED BY <4>1
    <3>2. worker' \in [Rows -> Alive \cup {"none", "exited"}]
      <4>1. worker' \in {[worker EXCEPT ![r] = "export"], [worker EXCEPT ![r] = "preserve"]}
        BY <2>6 DEF Built
      <4>. QED BY <4>1 DEF Alive
    <3>3. staged' \in [Rows -> {"none", "held", "discarded"}]
      BY <2>6 DEF Built
    <3>4. evidence' \in [Rows -> SUBSET {"diagnostics", "result"}]
      BY <2>6 DEF Built
    <3>5. ExportTypeOK'
      <4>1. Start(r) \/ UNCHANGED exportVars
        BY <2>6 DEF Built
      <4>2. CASE UNCHANGED exportVars
        BY <4>2
      <4>3. CASE Start(r)
        BY <4>3, ExportTypes
      <4>. QED BY <4>1, <4>2, <4>3
    <3>. QED BY <2>6, <3>1, <3>2, <3>3, <3>4, <3>5 DEF Built
  <2>7. CASE Export(r) \/ Transfer(r)
    BY <2>7, ExportTypes DEF Export, Transfer
  <2>8. CASE Exported(r)
    BY <2>8 DEF Exported, Alive
  <2>9. CASE Preserve(r)
    <3>1. sound' \in [Rows -> BOOLEAN]
      BY <2>9 DEF Preserve
    <3>2. worker' \in [Rows -> Alive \cup {"none", "exited"}]
      BY <2>9 DEF Preserve, Alive
    <3>3. staged' \in [Rows -> {"none", "held", "discarded"}]
      BY <2>9 DEF Preserve
    <3>4. evidence' \in [Rows -> SUBSET {"diagnostics", "result"}]
      BY <2>9 DEF Preserve
    <3>5. ExportTypeOK'
      BY <2>9 DEF Preserve
    <3>. QED BY <2>9, <3>1, <3>2, <3>3, <3>4, <3>5 DEF Preserve
  <2>10. CASE Accept(r)
    <3>1. sound' \in [Rows -> BOOLEAN]
      BY <2>10 DEF Accept
    <3>2. worker' \in [Rows -> Alive \cup {"none", "exited"}]
      BY <2>10 DEF Accept, Alive
    <3>3. staged' \in [Rows -> {"none", "held", "discarded"}]
      BY <2>10 DEF Accept
    <3>4. evidence' \in [Rows -> SUBSET {"diagnostics", "result"}]
      BY <2>10 DEF Accept
    <3>5. ExportTypeOK'
      BY <2>10 DEF Accept
    <3>. QED BY <2>10, <3>1, <3>2, <3>3, <3>4, <3>5 DEF Accept
  <2>11. CASE WorkerDies(r)
    BY <2>11 DEF WorkerDies
  <2>. QED BY <2>1, <2>2, <2>3, <2>4, <2>5, <2>6, <2>7, <2>8, <2>9, <2>10, <2>11 DEF RowStep, WorkerStep, OwnStep
<1>13. CASE UNCHANGED sdkVars
  BY <1>13 DEF sdkVars
<1>. QED BY <1>4, <1>5, <1>6, <1>7, <1>8, <1>9, <1>10, <1>11, <1>12, <1>13 DEF SdkNext, MainStep
-----------------------------------------------------------------------------
(***************************************************************************)
(* One row                                                                 *)
(***************************************************************************)
\* A step that is not about a row leaves all of it alone.
Untouched(r) ==
    UNCHANGED <<future[r], worker[r], sound[r], staged[r], evidence[r], builtWith[r],
                export[r], try[r], group[r], archive[r]>>

LEMMA UntouchedKeeps ==
    ASSUME SdkTypeOK, [SdkNext]_sdkVars, NEW r \in Rows, RowInv(r), Untouched(r)
    PROVE  RowInv(r)'
<1>1. environment \in Nat /\ environment' \in Nat /\ environment <= environment'
  BY CountsRise
<1>2. builtWith[r] \in Nat
  BY CountsRise DEF SdkTypeOK
<1>3. FutureKnows(r)'
  BY DEF Untouched, RowInv, FutureKnows
<1>4. WorkerLeaves(r)'
  BY <1>1, <1>2 DEF Untouched, RowInv, WorkerLeaves
<1>5. GroupsEnd(r)'
  BY DEF Untouched, RowInv, GroupsEnd
<1>. QED BY <1>3, <1>4, <1>5 DEF RowInv

\* Only a step of a row, or of its thread, touches it, but for the main thread,
\* which may hand it to the pool or take it back.
LEMMA OthersUntouched ==
    ASSUME SdkTypeOK, NEW r \in Rows, RowStep(r) \/ WorkerDies(r), NEW s \in Rows, s # r
    PROVE  Untouched(s)
<1>. USE DEF Untouched, SdkTypeOK, ExportTypeOK, pool, row, exportVars, WorkerGoto, Unsound
<1>1. CASE Take(r) \/ Reap(r) \/ Recheck(r) \/ WorkerDies(r)
  BY <1>1 DEF Take, Reap, Recheck, WorkerDies
<1>2. CASE Build(r) \/ Exported(r) \/ Preserve(r) \/ Accept(r)
  BY <1>2 DEF Build, Exported, Preserve, Accept
<1>3. CASE Built(r)
  BY <1>3 DEF Built, Start, BeginAttempt
<1>4. CASE Export(r) \/ Transfer(r)
  <2>1. UNCHANGED <<pool, row>> /\ (CallerStep(r) \/ TransferStep(r))
    BY <1>4 DEF Export, Transfer
  <2>2. CASE TransferEnds(r) \/ TransferTimesOut(r) \/ ProcessEnds(r)
    BY <2>1, <2>2 DEF TransferEnds, TransferTimesOut, ProcessEnds
  <2>3. CASE Retry(r)
    BY <2>1, <2>3 DEF Retry, BeginAttempt, KillGroup
  <2>4. CASE GiveUp(r)
    BY <2>1, <2>4 DEF GiveUp, KillGroup
  <2>. QED BY <2>1, <2>2, <2>3, <2>4 DEF CallerStep, TransferStep
<1>. QED BY <1>1, <1>2, <1>3, <1>4 DEF RowStep, WorkerStep, OwnStep

LEMMA MainOnlyMovesFutures ==
    ASSUME MainStep \/ JobStep \/ Interrupt \/ Change \/ UNCHANGED sdkVars
    PROVE  /\ UNCHANGED <<row, exportVars>>
           /\ Acquire \/ Cancel \/ UNCHANGED future
BY DEF MainStep, Collect, Drain, Assemble, Bind, Integrate, Conclude, JobStep, EndIntegration, Snapshot,
       EndJob, Interrupt, Change, Acquire, Cancel, sdkVars, pool

LEMMA MainKeepsRows ==
    ASSUME SdkInv, MainStep \/ JobStep \/ Interrupt \/ Change \/ UNCHANGED sdkVars, NEW r \in Rows
    PROVE  RowInv(r)'
<1>1. SdkTypeOK /\ [SdkNext]_sdkVars /\ RowInv(r) /\ MainKnows
  BY DEF SdkInv, SdkNext
<1>2. CASE UNCHANGED future
  <2>1. Untouched(r)
    BY <1>2, MainOnlyMovesFutures DEF Untouched, row, exportVars
  <2>. QED BY <1>1, <2>1, UntouchedKeeps
<1>3. ASSUME Acquire \/ Cancel
      PROVE  /\ UNCHANGED <<worker[r], sound[r], staged[r], evidence[r], builtWith[r],
                            export[r], try[r], group[r], archive[r], environment>>
             /\ \/ future[r] \in {"none", "pending"} /\ future'[r] \in {"none", "pending", "cancelled"}
                \/ UNCHANGED future[r]
  <2>1. UNCHANGED <<worker[r], sound[r], staged[r], evidence[r], builtWith[r],
                    export[r], try[r], group[r], archive[r], environment>>
    BY <1>3 DEF Acquire, Cancel, row, exportVars
  <2>2. CASE Acquire
    <3>1. future[r] = "none"
      BY <1>1, <2>2 DEF Acquire, MainKnows, Missing
    <3>. QED BY <2>1, <2>2, <3>1 DEF Acquire
  <2>3. CASE Cancel
    BY <1>1, <2>1, <2>3 DEF Cancel, Pending, SdkTypeOK
  <2>. QED BY <1>3, <2>2, <2>3
<1>4. ASSUME Acquire \/ Cancel PROVE RowInv(r)'
  <2>1. FutureKnows(r)'
    BY <1>1, <1>3, <1>4 DEF RowInv, FutureKnows
  <2>2. WorkerLeaves(r)'
    BY <1>1, <1>3, <1>4 DEF RowInv, WorkerLeaves
  <2>3. GroupsEnd(r)'
    BY <1>1, <1>3, <1>4 DEF RowInv, GroupsEnd
  <2>. QED BY <2>1, <2>2, <2>3 DEF RowInv
<1>. QED BY <1>2, <1>4, MainOnlyMovesFutures
\* The thread of a row takes it, and later its result.
LEMMA TakeKeeps ==
    ASSUME SdkInv, NEW r \in Rows, Take(r)
    PROVE  RowInv(r)'
<1>1. SdkTypeOK /\ RowInv(r) /\ future[r] = "pending"
  BY DEF SdkInv, Take, First, Pending
<1>2. future'[r] = "running" /\ worker'[r] = "started" /\ UNCHANGED <<sound, staged, evidence, builtWith, environment, exportVars>>
  BY <1>1 DEF Take, SdkTypeOK
<1>3. worker[r] = "none"
  BY <1>1 DEF RowInv, FutureKnows
<1>4. FutureKnows(r)'
  BY <1>1, <1>2 DEF RowInv, FutureKnows
<1>5. WorkerLeaves(r)'
  BY <1>1, <1>2, <1>3 DEF RowInv, WorkerLeaves, exportVars
<1>6. GroupsEnd(r)'
  BY <1>1, <1>2 DEF RowInv, GroupsEnd, exportVars
<1>. QED BY <1>4, <1>5, <1>6 DEF RowInv

LEMMA ReapKeeps ==
    ASSUME SdkInv, NEW r \in Rows, Reap(r)
    PROVE  RowInv(r)'
<1>1. SdkTypeOK /\ RowInv(r) /\ future[r] = "running" /\ worker[r] = "exited"
  BY DEF SdkInv, Reap
<1>2. /\ future'[r] = IF sound[r] THEN "returned" ELSE "raised"
      /\ UNCHANGED <<row, environment, exportVars>>
  BY <1>1 DEF Reap, SdkTypeOK
<1>3. FutureKnows(r)'
  BY <1>1, <1>2 DEF RowInv, FutureKnows, row
<1>4. WorkerLeaves(r)'
  BY <1>1, <1>2 DEF RowInv, WorkerLeaves, row, exportVars
<1>5. GroupsEnd(r)'
  BY <1>1, <1>2 DEF RowInv, GroupsEnd, exportVars
<1>. QED BY <1>3, <1>4, <1>5 DEF RowInv

\* A process goes on, or ends, and leaves behind what it should.
LEMMA FutureKept ==
    ASSUME NEW r \in Rows, FutureKnows(r), UNCHANGED future[r],
           worker[r] \in Alive, worker'[r] # "none", worker'[r] = "exited" \/ worker'[r] \in Alive
    PROVE  FutureKnows(r)'
BY DEF FutureKnows, Alive

LEMMA StepKeeps ==
    ASSUME SdkInv, NEW r \in Rows, WorkerStep(r) \/ WorkerDies(r)
    PROVE  FutureKnows(r)' /\ WorkerLeaves(r)'
<1>1. SdkTypeOK /\ FutureKnows(r) /\ WorkerLeaves(r) /\ environment \in Nat /\ builtWith[r] \in Nat
  BY CountsRise DEF SdkInv, RowInv, SdkTypeOK
<1>2. UNCHANGED <<environment, future>>
  BY DEF WorkerStep, OwnStep, Transfer, WorkerDies, Recheck, Build, Built, Export, Exported, Preserve, Accept, pool
<1>. USE <1>1, <1>2 DEF WorkerLeaves, SdkTypeOK, At, WorkerGoto, Unsound, pool, row, exportVars
<1>3. CASE Recheck(r)
  <2>1. CASE Unchanged /\ worker[r] = "started"
    <3>1. worker'[r] = "build" /\ UNCHANGED <<sound[r], staged[r], evidence[r], builtWith[r], export[r]>>
      BY <1>3, <2>1 DEF Recheck
    <3>. QED BY <2>1, <3>1, FutureKept DEF Alive
  <2>2. CASE Unchanged /\ worker[r] = "recheck"
    <3>1. worker'[r] = "exited" /\ UNCHANGED <<sound[r], staged[r], evidence[r], builtWith[r], export[r]>>
      BY <1>3, <2>2 DEF Recheck
    <3>. QED BY <2>2, <3>1, FutureKept DEF Alive
  <2>3. CASE ~Unchanged
    <3>1. worker'[r] = "exited" /\ ~sound'[r] /\ UNCHANGED <<staged[r], evidence[r], builtWith[r], export[r]>>
      BY <1>3, <2>3 DEF Recheck
    <3>2. worker[r] \in Alive
      BY <1>3 DEF Recheck, Alive
    <3>. QED BY <3>1, <3>2, FutureKept
  <2>. QED BY <1>3, <2>1, <2>2, <2>3 DEF Recheck
<1>4. CASE Build(r)
  <2>1. worker[r] = "build" /\ worker'[r] = "build" /\ staged'[r] = "held" /\ builtWith'[r] = environment
        /\ UNCHANGED <<sound[r], evidence[r], export[r]>>
    BY <1>4 DEF Build
  <2>. QED BY <2>1, FutureKept DEF Alive
<1>5. CASE Built(r)
  <2>1. worker[r] = "build" /\ staged[r] = "held" /\ UNCHANGED <<staged[r], evidence[r], builtWith[r]>>
    BY <1>5 DEF Built
  <2>2. CASE Unchanged /\ WorkerGoto(r, "export") /\ UNCHANGED sound
    <3>1. worker'[r] = "export" /\ builtWith[r] = 0 /\ UNCHANGED sound[r]
      BY <2>2 DEF Unchanged
    <3>. QED BY <2>1, <3>1, FutureKept DEF Alive
  <2>3. CASE WorkerGoto(r, "preserve") /\ Unsound(r)
    <3>1. worker'[r] = "preserve" /\ ~sound'[r]
      BY <2>3
    <3>. QED BY <2>1, <3>1, FutureKept DEF Alive
  <2>. QED BY <1>5, <2>2, <2>3 DEF Built
<1>6. CASE Export(r) \/ Transfer(r)
  <2>1. worker[r] = "export" /\ UNCHANGED row
    BY <1>6 DEF Export, Transfer
  <2>. QED BY <2>1, FutureKept DEF Alive
<1>7. CASE Exported(r)
  <2>1. worker[r] = "export" /\ worker'[r] = "preserve"
        /\ UNCHANGED <<staged[r], evidence[r], builtWith[r], export[r]>>
    BY <1>7 DEF Exported
  <2>2. (sound' = sound /\ export[r] = "completed") \/ sound' = [sound EXCEPT ![r] = FALSE]
    BY <1>7 DEF Exported
  <2>. QED BY <2>1, <2>2, FutureKept DEF Alive
<1>8. CASE Preserve(r)
  <2>1. worker[r] = "preserve" /\ UNCHANGED <<staged[r], builtWith[r], export[r]>>
    BY <1>8 DEF Preserve
  <2>2. CASE /\ evidence' = [evidence EXCEPT ![r] = @ \cup {"diagnostics"}] /\ UNCHANGED sound
             /\ WorkerGoto(r, IF sound[r] THEN "accept" ELSE "exited")
    <3>1. evidence'[r] = {"diagnostics"}
      BY <2>1, <2>2
    <3>2. CASE sound[r]
      BY <2>1, <2>2, <3>1, <3>2, FutureKept DEF Alive
    <3>3. CASE ~sound[r]
      BY <2>1, <2>2, <3>1, <3>3, FutureKept DEF Alive
    <3>. QED BY <3>2, <3>3
  <2>3. CASE WorkerGoto(r, "exited") /\ Unsound(r)
    <3>1. worker'[r] = "exited" /\ ~sound'[r]
      BY <2>3
    <3>. QED BY <2>1, <3>1, FutureKept DEF Alive
  <2>. QED BY <1>8, <2>2, <2>3 DEF Preserve
<1>9. CASE Accept(r)
  <2>1. worker[r] = "accept" /\ UNCHANGED <<builtWith[r], export[r]>>
    BY <1>9 DEF Accept
  <2>2. CASE /\ staged' = [staged EXCEPT ![r] = "discarded"] /\ WorkerGoto(r, "recheck") /\ UNCHANGED sound
             /\ evidence' = [evidence EXCEPT ![r] = @ \cup {"result"}]
    <3>1. evidence'[r] = Both /\ staged'[r] = "discarded" /\ worker'[r] = "recheck" /\ UNCHANGED sound[r]
      BY <2>1, <2>2 DEF Both
    <3>. QED BY <2>1, <3>1, FutureKept DEF Alive
  <2>3. CASE WorkerGoto(r, "exited") /\ Unsound(r)
    <3>1. worker'[r] = "exited" /\ ~sound'[r]
      BY <2>3
    <3>. QED BY <2>1, <3>1, FutureKept DEF Alive
  <2>. QED BY <1>9, <2>2, <2>3 DEF Accept
<1>10. CASE WorkerDies(r)
  <2>1. worker[r] \in Alive /\ worker'[r] = "exited" /\ ~sound'[r] /\ UNCHANGED <<staged[r], evidence[r], builtWith[r]>>
    BY <1>10 DEF WorkerDies
  <2>. QED BY <2>1, FutureKept
<1>. QED BY <1>3, <1>4, <1>5, <1>6, <1>7, <1>8, <1>9, <1>10 DEF WorkerStep, OwnStep
\* The transfer of a row starts in a group of its own, and a group ends before
\* the next attempt or the caller goes on.
LEMMA GroupsKept ==
    ASSUME ExportTypeOK, NEW r \in Rows, GroupsEnd(r),
           (Start(r) /\ export[r] = "none") \/ CallerStep(r) \/ TransferStep(r) \/ UNCHANGED exportVars
    PROVE  GroupsEnd(r)'
<1>. USE DEF GroupsEnd, ExportTypeOK
<1>1. CASE Start(r) /\ export[r] = "none"
  BY <1>1 DEF Start, BeginAttempt
<1>2. CASE TransferEnds(r)
  <2>1. export[r] = "running" /\ try[r] \in {1, 2} /\ try'[r] = try[r]
    BY <1>2 DEF TransferEnds
  <2>2. PICK left \in {{}, {"plugin"}} :
            /\ group' = [group EXCEPT ![r][try[r]] = left]
            /\ \/ export'[r] = "completed" /\ archive'[r] = "complete" /\ left = {}
               \/ export'[r] = "failed"
    BY <1>2 DEF TransferEnds
  <2>3. \A n \in 1 .. 2 : group'[r][n] = IF n = try[r] THEN left ELSE group[r][n]
    BY <2>1, <2>2
  <2>. QED BY <2>1, <2>2, <2>3
<1>3. CASE TransferTimesOut(r)
  BY <1>3 DEF TransferTimesOut
<1>4. CASE ProcessEnds(r)
  <2>1. PICK p \in group[r][try[r]] : group' = [group EXCEPT ![r][try[r]] = @ \ {p}]
    BY <1>4 DEF ProcessEnds
  <2>2. export[r] = "stopping" /\ try[r] \in {1, 2} /\ UNCHANGED <<export, try, archive>>
    BY <1>4 DEF ProcessEnds
  <2>3. \A n \in 1 .. 2 : group'[r][n] \subseteq group[r][n]
    BY <2>1, <2>2
  <2>. QED BY <2>2, <2>3
<1>5. CASE Retry(r)
  <2>1. /\ export'[r] = "running" /\ try[r] = 1 /\ try'[r] = 2
        /\ group'[r] = [[group[r] EXCEPT ![1] = {}] EXCEPT ![2] = Processes]
    BY <1>5 DEF Retry, BeginAttempt, KillGroup
  <2>2. group'[r][1] = {}
    BY <2>1
  <2>. QED BY <2>1, <2>2
<1>6. CASE GiveUp(r)
  <2>1. /\ export'[r] = "failed" /\ try[r] = 2 /\ try'[r] = 2
        /\ group'[r] = [group[r] EXCEPT ![2] = {}]
    BY <1>6 DEF GiveUp, KillGroup
  <2>. QED BY <2>1
<1>7. CASE UNCHANGED exportVars
  BY <1>7 DEF exportVars
<1>. QED BY <1>1, <1>2, <1>3, <1>4, <1>5, <1>6, <1>7 DEF CallerStep, TransferStep

LEMMA RowsKept ==
    ASSUME SdkInv, [SdkNext]_sdkVars, NEW r \in Rows
    PROVE  RowInv(r)'
<1>1. SdkTypeOK /\ RowInv(r)
  BY DEF SdkInv
<1>2. CASE MainStep \/ JobStep \/ Interrupt \/ Change \/ UNCHANGED sdkVars
  BY <1>2, MainKeepsRows
<1>3. CASE \E s \in Rows : RowStep(s) \/ WorkerDies(s)
  <2>1. PICK s \in Rows : RowStep(s) \/ WorkerDies(s)
    BY <1>3
  <2>2. CASE s # r
    <3>1. Untouched(r)
      BY <1>1, <2>1, <2>2, OthersUntouched
    <3>. QED BY <1>1, <3>1, UntouchedKeeps
  <2>3. CASE Take(r)
    BY <2>3, TakeKeeps
  <2>4. CASE Reap(r)
    BY <2>4, ReapKeeps
  <2>5. CASE WorkerStep(r) \/ WorkerDies(r)
    <3>1. (Start(r) /\ worker[r] = "build") \/ CallerStep(r) \/ TransferStep(r) \/ UNCHANGED exportVars
      BY <2>5 DEF WorkerStep, OwnStep, Transfer, WorkerDies, Recheck, Build, Built, Export, Exported, Preserve, Accept, At
    <3>2. worker[r] = "build" => export[r] = "none"
      BY <1>1 DEF RowInv, WorkerLeaves
    <3>3. GroupsEnd(r)'
      BY <1>1, <3>1, <3>2, GroupsKept DEF RowInv, SdkTypeOK
    <3>. QED BY <2>5, <3>3, StepKeeps DEF RowInv
  <2>. QED BY <2>1, <2>2, <2>3, <2>4, <2>5 DEF RowStep
<1>. QED BY <1>2, <1>3 DEF SdkNext

-----------------------------------------------------------------------------
(***************************************************************************)
(* The main thread and the job                                             *)
(***************************************************************************)
\* When the main thread has ended, so have the rows.
LEMMA RowsHaveEnded ==
    ASSUME SdkInv, main \in {"done", "failed"}, NEW r \in Rows
    PROVE  worker[r] \in {"none", "exited"} /\ future[r] \notin {"pending", "running"}
<1>1. SdkTypeOK /\ FutureKnows(r) /\ MainKnows
  BY DEF SdkInv, RowInv
<1>2. future[r] \notin {"pending", "running"}
  <2>1. CASE main = "failed"
    BY <1>1, <2>1 DEF MainKnows, Pending, Running
  <2>2. CASE main = "done" /\ r \in Missing
    BY <1>1, <2>2 DEF MainKnows
  <2>3. CASE r \notin Missing
    BY <1>1, <2>3 DEF MainKnows
  <2>. QED BY <2>1, <2>2, <2>3
<1>. QED BY <1>1, <1>2 DEF FutureKnows, SdkTypeOK

\* Steps of the rows never touch what the main thread has learned.
LEMMA RowsKeepMain ==
    ASSUME SdkInv, NEW r \in Rows, RowStep(r) \/ WorkerDies(r)
    PROVE  MainKnows'
<1>1. SdkTypeOK /\ MainKnows
  BY DEF SdkInv
<1>2. UNCHANGED <<main, resolution, results, environment, integratedWith>>
  BY DEF RowStep, Take, Reap, WorkerStep, OwnStep, Transfer, WorkerDies, Recheck, Build, Built, Export, Exported,
         Preserve, Accept, pool
<1>3. Missing' = Missing
  BY <1>2 DEF Missing
<1>4. \/ UNCHANGED future
      \/ future[r] = "pending" /\ future' = [future EXCEPT ![r] = "running"]
      \/ future[r] = "running" /\ future' \in {[future EXCEPT ![r] = "returned"], [future EXCEPT ![r] = "raised"]}
  BY DEF RowStep, Take, First, Pending, Reap, WorkerStep, OwnStep, Transfer, WorkerDies, Recheck, Build, Built, Export, Exported,
         Preserve, Accept, pool
<1>5. CASE UNCHANGED future
  BY <1>1, <1>2, <1>3, <1>5 DEF MainKnows, Pending, Running
<1>6. ASSUME future[r] \in {"pending", "running"}, NEW value \in {"running", "returned", "raised"},
             future' = [future EXCEPT ![r] = value], value = "running" => future[r] = "pending"
      PROVE  MainKnows'
  <2>1. r \in Missing /\ r \notin results
    BY <1>1, <1>6 DEF MainKnows
  <2>2. /\ \A s \in Rows \ Missing : future'[s] = "none"
        /\ \A s \in results : future'[s] = "returned"
    BY <1>1, <1>6, <2>1 DEF MainKnows, SdkTypeOK
  <2>3. main # "failed" /\ Pending' \subseteq Pending
    BY <1>1, <1>6 DEF MainKnows, Pending, Running, SdkTypeOK
  <2>. QED BY <1>1, <1>2, <1>3, <2>2, <2>3 DEF MainKnows
<1>. QED BY <1>4, <1>5, <1>6

LEMMA MainKept ==
    ASSUME SdkInv, [SdkNext]_sdkVars
    PROVE  MainKnows'
<1>1. SdkTypeOK /\ MainKnows /\ environment \in Nat /\ environment' \in Nat /\ environment <= environment'
      /\ integratedWith \in Nat
  BY CountsRise DEF SdkInv, SdkTypeOK
<1>2. ASSUME UNCHANGED <<main, resolution, pool, integratedWith>> PROVE MainKnows'
  BY <1>1, <1>2 DEF MainKnows, Missing, Pending, Running, pool
<1>3. CASE JobStep \/ Change \/ UNCHANGED sdkVars
  BY <1>2, <1>3 DEF JobStep, EndIntegration, Snapshot, EndJob, Change, sdkVars
<1>4. CASE \E r \in Rows : RowStep(r) \/ WorkerDies(r)
  BY <1>4, RowsKeepMain
<1>. USE <1>1 DEF MainKnows, SdkTypeOK, Goto, pool, Unchanged
<1>5. CASE Acquire
  <2>1. results = {} /\ UNCHANGED <<results, integratedWith, environment>> /\ main' \in {"pool", "failed"}
    BY <1>5 DEF Acquire, Missing
  <2>2. \A r \in Rows \ Missing' : future'[r] = "none"
    BY <1>5 DEF Acquire, Missing
  <2>3. main' = "pool" => \A r \in Rows \ Missing' : resolution'[r] = "verified-qualified-row"
    BY <1>5 DEF Acquire, Missing
  <2>4. main' = "failed" => Pending' = {} /\ Running' = {}
    BY <1>5 DEF Acquire, Missing, Pending, Running
  <2>. QED BY <2>1, <2>2, <2>3, <2>4
<1>6. CASE \E r \in Rows : Collect(r)
  BY <1>6 DEF Collect, Missing
<1>7. CASE Interrupt
  BY <1>7 DEF Interrupt, Missing
<1>8. CASE Cancel
  <2>1. UNCHANGED <<resolution, results, integratedWith, environment>> /\ main = "cancel" /\ Missing' = Missing
    BY <1>8 DEF Cancel, Missing
  <2>2. CASE Pending = {} /\ Goto("drain") /\ UNCHANGED future
    BY <2>1, <2>2 DEF Pending
  <2>3. ASSUME NEW r \in Pending, future' = [future EXCEPT ![r] = "cancelled"], UNCHANGED main
        PROVE  MainKnows'
    <3>1. r \in Missing /\ r \notin results
      BY <2>3 DEF Pending
    <3>. QED BY <2>1, <2>3, <3>1
  <2>. QED BY <1>8, <2>2, <2>3 DEF Cancel
<1>9. CASE Drain
  <2>1. UNCHANGED <<resolution, pool, integratedWith, environment>> /\ main = "drain" /\ main' = "failed"
        /\ Missing' = Missing /\ Pending' = Pending /\ Running' = Running /\ Running = {}
    BY <1>9 DEF Drain, Missing, Pending, Running
  <2>. QED BY <2>1
<1>10. CASE Assemble \/ Bind \/ Conclude
  <2>1. UNCHANGED <<resolution, pool, integratedWith, environment>> /\ results = Missing
        /\ Missing' = Missing /\ Pending' = Pending /\ Running' = Running
        /\ main \in {"pool", "integrate", "final"} /\ main' \in {"integrate", "integrating", "done", "failed"}
        /\ (main' = "done" => environment = 0)
    BY <1>10 DEF Assemble, Bind, Conclude, Missing, Pending, Running
  <2>2. Pending = {} /\ Running = {}
    BY <2>1 DEF Pending, Running
  <2>. QED BY <2>1, <2>2
<1>11. CASE Integrate
  <2>1. UNCHANGED <<resolution, pool, environment>> /\ results = Missing /\ integratedWith' = environment
        /\ Missing' = Missing /\ Pending' = Pending /\ Running' = Running
        /\ main = "integrating" /\ main' \in {"final", "failed"}
    BY <1>11 DEF Integrate, Missing, Pending, Running
  <2>2. Pending = {} /\ Running = {}
    BY <2>1 DEF Pending, Running
  <2>. QED BY <2>1, <2>2
<1>. QED BY <1>3, <1>4, <1>5, <1>6, <1>7, <1>8, <1>9, <1>10, <1>11 DEF SdkNext, MainStep

\* Once a snapshot has been taken of a row, its process is long gone.
LEMMA JobKept ==
    ASSUME SdkInv, [SdkNext]_sdkVars
    PROVE  JobFollows'
<1>1. SdkTypeOK /\ JobFollows
  BY DEF SdkInv
<1>2. job # "integration" => main \in {"done", "failed"} /\ UNCHANGED main
  <2>1. ASSUME main \in {"done", "failed"} PROVE UNCHANGED main
    <3>1. CASE MainStep \/ Interrupt
      BY <2>1, <3>1 DEF MainStep, Interrupt, Acquire, Collect, Cancel, Drain, Assemble, Bind, Integrate, Conclude
    <3>2. CASE JobStep \/ Change \/ UNCHANGED sdkVars
      BY <3>2 DEF JobStep, EndIntegration, Snapshot, EndJob, Change, sdkVars
    <3>3. CASE \E s \in Rows : RowStep(s) \/ WorkerDies(s)
      BY <3>3 DEF RowStep, Take, Reap, WorkerStep, OwnStep, Transfer, WorkerDies, Recheck, Build, Built, Export, Exported,
                  Preserve, Accept
    <3>. QED BY <3>1, <3>2, <3>3 DEF SdkNext
  <2>. QED BY <1>1, <2>1 DEF JobFollows
<1>3. ASSUME job # "integration", NEW r \in Rows PROVE UNCHANGED staged[r]
  <2>1. worker[r] \in {"none", "exited"}
    BY <1>2, <1>3, RowsHaveEnded
  <2>2. CASE MainStep \/ JobStep \/ Interrupt \/ Change \/ UNCHANGED sdkVars
    BY <2>2, MainOnlyMovesFutures DEF row
  <2>3. ASSUME NEW s \in Rows, RowStep(s) \/ WorkerDies(s) PROVE UNCHANGED staged[r]
    <3>1. CASE s # r
      BY <1>1, <2>3, <3>1, OthersUntouched DEF Untouched
    <3>2. CASE s = r
      BY <2>1, <2>3, <3>2 DEF RowStep, Take, Reap, WorkerStep, OwnStep, Transfer, WorkerDies, Recheck, Build, Built, Export,
                              Exported, Preserve, Accept, At, row
    <3>. QED BY <3>1, <3>2
  <2>. QED BY <2>2, <2>3 DEF SdkNext
<1>4. CASE EndIntegration
  BY <1>1, <1>4 DEF EndIntegration, JobFollows, SdkTypeOK, row
<1>5. CASE EndJob
  BY <1>1, <1>5 DEF EndJob, JobFollows, SdkTypeOK, row
<1>6. ASSUME NEW r \in Rows, Snapshot(r) PROVE JobFollows'
  <2>1. job = "snapshot" /\ UNCHANGED <<job, main, staged>>
    BY <1>6 DEF Snapshot, row
  <2>2. \A s \in Rows : s # r => UNCHANGED snapshot[s]
    BY <1>1, <1>6 DEF Snapshot, SdkTypeOK
  <2>3. snapshot'[r] # "none" /\ (staged[r] # "none" => snapshot'[r] \in {"copied", "partial"})
    BY <1>1, <1>6 DEF Snapshot, SdkTypeOK
  <2>. QED BY <1>1, <2>1, <2>2, <2>3 DEF JobFollows
<1>7. UNCHANGED after => JobFollows'
  BY <1>1, <1>2, <1>3 DEF JobFollows, after
<1>8. CASE MainStep \/ Interrupt \/ Change \/ UNCHANGED sdkVars
  BY <1>7, <1>8 DEF MainStep, Interrupt, Acquire, Collect, Cancel, Drain, Assemble, Bind, Integrate, Conclude,
                    Change, sdkVars
<1>9. CASE \E s \in Rows : RowStep(s) \/ WorkerDies(s)
  BY <1>7, <1>9 DEF RowStep, Take, Reap, WorkerStep, OwnStep, Transfer, WorkerDies, Recheck, Build, Built, Export, Exported,
                    Preserve, Accept
<1>. QED BY <1>4, <1>5, <1>6, <1>8, <1>9 DEF SdkNext, JobStep

-----------------------------------------------------------------------------
(***************************************************************************)
(* The theorems                                                            *)
(***************************************************************************)
LEMMA SdkInitially ==
    ASSUME SdkInit
    PROVE  SdkInv
<1>. USE SdkAssumption DEF SdkInit, ExportInit
<1>1. Running = {} /\ Pending = {} /\ Missing = {}
  BY DEF Running, Pending, Missing
<1>2. IsFiniteSet(Running) /\ Cardinality(Running) <= Parallelism
  BY <1>1, FS_EmptySet
<1>3. SdkTypeOK
  BY <1>2 DEF SdkTypeOK, ExportTypeOK, Processes
<1>4. ASSUME NEW r \in Rows PROVE RowInv(r)
  BY DEF RowInv, FutureKnows, WorkerLeaves, GroupsEnd
<1>5. MainKnows
  BY <1>1 DEF MainKnows
<1>6. JobFollows
  BY DEF JobFollows
<1>. QED BY <1>2, <1>3, <1>4, <1>5, <1>6 DEF SdkInv

\* In every reachable state the pool, the processes, what they have left behind,
\* the main thread and the job fit together as the invariant says.
THEOREM SdkInvariant == SdkSpec => []SdkInv
<1>1. SdkInv /\ [SdkNext]_sdkVars => SdkInv'
  <2>. SUFFICES ASSUME SdkInv, [SdkNext]_sdkVars PROVE SdkInv'
    OBVIOUS
  <2>1. SdkTypeOK /\ IsFiniteSet(Running)
    BY DEF SdkInv
  <2>2. SdkTypeOK' /\ IsFiniteSet(Running')
    BY <2>1, TypesKept, RunningBounded
  <2>3. \A r \in Rows : RowInv(r)'
    BY RowsKept
  <2>4. MainKnows' /\ JobFollows'
    BY MainKept, JobKept
  <2>. QED BY <2>2, <2>3, <2>4 DEF SdkInv
<1>. QED BY <1>1, SdkInitially, PTL DEF SdkSpec

\* The variables keep their types, never more rows than the pool has threads
\* run at once, and faults stay within their bound.
THEOREM SdkTypeCorrect == SdkSpec => []SdkTypeOK
<1>1. SdkInv => SdkTypeOK
  BY DEF SdkInv
<1>. QED BY <1>1, SdkInvariant, PTL

\* The SDK is concluded only from rows that were verified in the catalog or
\* whose process ended well, all in the environment the job has started with.
THEOREM IntegratedFromCompleteRows == SdkSpec => []IntegratedFromAllRows
<1>1. SdkInv => IntegratedFromAllRows
  <2>. SUFFICES ASSUME SdkInv, main = "done", NEW r \in Rows, r \in Missing
                PROVE  /\ worker[r] = "exited" /\ sound[r] /\ builtWith[r] = 0
                       /\ evidence[r] = {"diagnostics", "result"} /\ staged[r] = "discarded"
    BY DEF SdkInv, MainKnows, IntegratedFromAllRows
  <2>1. future[r] = "returned"
    BY DEF SdkInv, MainKnows
  <2>. QED BY <2>1 DEF SdkInv, RowInv, FutureKnows, WorkerLeaves, Both
<1>. QED BY <1>1, SdkInvariant, PTL

\* When the main process has ended by itself, no worker of a row is left and none
\* will be started, and only a row that has failed can have left its transfer.
THEOREM RowsEndFirst == SdkSpec => []NoRowLeftRunning
<1>1. SdkInv => NoRowLeftRunning
  <2>. SUFFICES ASSUME SdkInv, main \in {"done", "failed"}, NEW r \in Rows, NEW n \in 1 .. 2,
                       group[r][n] # {}
                PROVE  main = "failed" /\ ~sound[r]
    BY RowsHaveEnded DEF NoRowLeftRunning, Alive
  <2>1. GroupsEnd(r) /\ WorkerLeaves(r) /\ worker[r] \in {"none", "exited"} /\ n \in {1, 2}
    BY RowsHaveEnded DEF SdkInv, RowInv
  <2>2. ~sound[r] /\ worker[r] = "exited"
    BY <2>1 DEF GroupsEnd, WorkerLeaves
  <2>3. main # "done"
    <3>1. future[r] \notin {"none", "returned"}
      BY <2>2 DEF SdkInv, RowInv, FutureKnows
    <3>. QED BY <3>1 DEF SdkInv, MainKnows
  <2>. QED BY <2>2, <2>3
<1>. QED BY <1>1, SdkInvariant, PTL

\* What a row has left behind when the job ends was saved by its own process or
\* by the snapshot after a failure, or was reported as saved in part.
THEOREM DiagnosticsKept == SdkSpec => []DiagnosticsSurvive
<1>1. SdkInv => DiagnosticsSurvive
  <2>. SUFFICES ASSUME SdkInv, job = "ended", NEW r \in Rows, staged[r] # "none"
                PROVE  "diagnostics" \in evidence[r] \/ snapshot[r] \in {"copied", "partial"}
    BY DEF DiagnosticsSurvive
  <2>1. RowInv(r) /\ MainKnows /\ JobFollows
    BY DEF SdkInv
  <2>2. CASE main = "done"
    <3>1. future[r] = "returned"
      BY <2>1, <2>2 DEF MainKnows, RowInv, FutureKnows, WorkerLeaves
    <3>. QED BY <2>1, <3>1 DEF RowInv, FutureKnows, WorkerLeaves, Both
  <2>3. CASE main # "done"
    BY <2>1, <2>3 DEF JobFollows
  <2>. QED BY <2>2, <2>3
<1>. QED BY <1>1, SdkInvariant, PTL

\* Whatever a caller unpacks was written to its end by processes that have all
\* ended, and a second attempt runs after the whole group of the first.
THEOREM ArchivesConsumedAlone == SdkSpec => []ConsumedAlone
<1>1. SdkInv => ConsumedAlone
  <2>. SUFFICES ASSUME SdkInv, NEW r \in Rows
                PROVE  /\ try[r] = 2 => group[r][1] = {}
                       /\ export[r] = "completed" =>
                            archive[r] = "complete" /\ \A n \in 1 .. 2 : group[r][n] = {}
    BY DEF ConsumedAlone
  <2>1. GroupsEnd(r)
    BY DEF SdkInv, RowInv
  <2>. QED BY <2>1 DEF GroupsEnd
<1>. QED BY <1>1, SdkInvariant, PTL
=============================================================================
