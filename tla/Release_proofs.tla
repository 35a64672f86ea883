---------------------------- MODULE Release_proofs ----------------------------
(***************************************************************************)
(* Proofs about what precedes a promotion: the documents a release is made *)
(* of, the runs that build and sign its images, and the requests.          *)
(*                                                                         *)
(* ReleaseComponents, for any number of releases and components and any    *)
(* documents.  The invariant says, phase by phase, which files already     *)
(* have the loaded release's documents and which still have those of the   *)
(* snapshots.  The list of changed files is computed once: it stays right  *)
(* because only listed files are written.                                  *)
(*                                                                         *)
(* CandidateRun.  The artifacts that a run will use are those that its     *)
(* outputs name; everything else that past attempts have left behind is    *)
(* never read again.                                                       *)
(*                                                                         *)
(* ReleaseRequest.  While the newest run of a tagged commit has succeeded, *)
(* what asks for its promotion is under way, waits, or can be repeated:    *)
(* an event that arrives sends nothing away that would ask for it.         *)
(***************************************************************************)
EXTENDS ReleaseComponents, CandidateRun, ReleaseRequest, TLAPS

-----------------------------------------------------------------------------
(***************************************************************************)
(* The documents of a release                                              *)
(***************************************************************************)
\* What was compared when the run began.
Compared ==
    /\ plan = {p \in Rendered(release) : treeBefore[p] # Target(release, p)}
    /\ stale = {p \in Paths \ Rendered(release) : treeBefore[p] # None}

\* The temporary of the document that was being staged.
LostOne == lost = {} \/ \E p \in plan : lost = {p}

InStage ==
    tree = treeBefore /\ litter = litterBefore /\ restored = {}

InReplace ==
    /\ litter = litterBefore /\ restored = {}
    /\ \A p \in Paths :
          tree[p] = IF p \in plan \ staged THEN Target(release, p) ELSE treeBefore[p]

InClean ==
    /\ staged = {} /\ restored = {} /\ litter \subseteq litterBefore
    /\ \A p \in plan : tree[p] = Target(release, p)
    /\ \A p \in stale : tree[p] \in {None, treeBefore[p]}
    /\ \A p \in Paths \ Affected : tree[p] = treeBefore[p]

InUndo ==
    /\ staged = {} /\ lost \subseteq litter /\ litter \subseteq litterBefore \cup lost
    /\ spoiled \/ LostOne
    /\ \A p \in restored : spoiled \/ tree[p] = treeBefore[p]
    /\ \A p \in plan : tree[p] \in {Target(release, p), treeBefore[p]}
    /\ \A p \in stale : tree[p] \in {None, treeBefore[p]}
    /\ \A p \in Paths \ Affected : tree[p] = treeBefore[p]

Phases ==
    /\ pc # "idle" => Compared
    /\ pc = "stage" => InStage
    /\ pc = "replace" => InReplace
    /\ pc = "clean" => InClean
    /\ pc = "undo" => InUndo
    /\ pc = "idle" => staged = {}
    /\ pc \in {"stage", "replace", "clean"} => lost = {}

\* An outcome is of a run that has ended.
Outcomes ==
    /\ pc # "idle" => outcome = "none"
    /\ WrittenIsCurrent
    /\ RaisedPutsBack

IInv == TypeOK /\ Phases /\ Outcomes

LEMMA TypeStart == Init => TypeOK
BY DEF Init, TypeOK, Paths, Affected

\* Every step keeps the types.
LEMMA TypeStep == TypeOK /\ [Next]_vars => TypeOK'
<1> SUFFICES ASSUME TypeOK, [Next]_vars PROVE TypeOK'
  OBVIOUS
<1> USE DEF TypeOK, Affected
<1>1. CASE EditRelease
  BY <1>1 DEF EditRelease, files, planned
<1>2. CASE Begin
  BY <1>2 DEF Begin, Changed, Unrendered, files, Rendered
<1>3. CASE AllStaged \/ AllReplaced \/ FinishUpdate \/ UndoFinish
  BY <1>3 DEF AllStaged, AllReplaced, FinishUpdate, UndoFinish, files, planned
<1>4. ASSUME NEW p \in Paths, Stage(p) PROVE TypeOK'
  BY <1>4 DEF Stage, files, planned
<1>5. ASSUME NEW p \in Paths, Replace(p) PROVE TypeOK'
  BY <1>5 DEF Replace, planned
<1>6. ASSUME NEW p \in Paths, Remove(p) \/ Sweep(p) PROVE TypeOK'
  BY <1>6 DEF Remove, Sweep, planned
<1>7. ASSUME NEW p \in Paths, Undo(p) PROVE TypeOK'
  BY <1>7 DEF Undo, InTurn, planned
<1>8. ASSUME NEW p \in Paths, UndoSweep(p) PROVE TypeOK'
  BY <1>8 DEF UndoSweep, planned
<1>9. CASE Raise \/ RaiseAgain
  BY <1>9 DEF Raise, RaiseAgain, files, planned
<1>10. CASE Kill
  BY <1>10 DEF Kill, planned
<1>11. CASE UNCHANGED vars
  BY <1>11 DEF vars, files, planned
<1>12. ASSUME NEW p \in Paths, Interrupt(p) PROVE TypeOK'
  BY <1>12 DEF Interrupt, planned
<1>13. QED
  BY <1>1, <1>2, <1>3, <1>4, <1>5, <1>6, <1>7, <1>8, <1>9, <1>10, <1>11, <1>12
  DEF Next, RendererStep

LEMMA PhasesStart == Init => Phases
BY DEF Init, Phases

\* Only listed files are written, each at its turn.
LEMMA PhasesStep == TypeOK /\ Phases /\ [Next]_vars => Phases'
<1> SUFFICES ASSUME TypeOK, Phases, [Next]_vars PROVE Phases'
  OBVIOUS
<1> USE DEF Phases
<1>1. CASE EditRelease
  BY <1>1 DEF EditRelease, files, planned, Compared, InStage, InReplace, InClean, InUndo, Affected, LostOne
<1>2. CASE Begin
  BY <1>2 DEF Begin, Changed, Unrendered, files, Compared, InStage
<1>3. CASE AllStaged
  <2>1. InReplace'
    BY <1>3 DEF AllStaged, InStage, InReplace, files, planned
  <2>2. Compared'
    BY <1>3 DEF AllStaged, Compared, planned
  <2>3. QED
    BY <1>3, <2>1, <2>2 DEF AllStaged
<1>4. CASE AllReplaced
  <2>1. InClean'
    BY <1>4 DEF AllReplaced, InReplace, InClean, files, planned, Compared, TypeOK, Affected
  <2>2. Compared'
    BY <1>4 DEF AllReplaced, Compared, planned
  <2>3. QED
    BY <1>4, <2>1, <2>2 DEF AllReplaced
<1>5. CASE FinishUpdate \/ UndoFinish
  BY <1>5 DEF FinishUpdate, UndoFinish, files, planned, InClean, InUndo
<1>6. ASSUME NEW p \in Paths, Stage(p) PROVE Phases'
  BY <1>6 DEF Stage, files, planned, Compared, InStage
<1>7. ASSUME NEW p \in Paths, Replace(p) PROVE Phases'
  <2>1. Compared'
    BY <1>7 DEF Replace, Compared, planned
  <2>2. InReplace'
    BY <1>7 DEF Replace, InTurn, InReplace, planned, TypeOK
  <2>3. QED
    BY <1>7, <2>1, <2>2 DEF Replace
<1>8. ASSUME NEW p \in Paths, Remove(p) PROVE Phases'
  <2>1. Compared'
    BY <1>8 DEF Remove, Compared, planned
  <2>2. InClean'
    BY <1>8 DEF Remove, InClean, Compared, planned, TypeOK, Affected
  <2>3. QED
    BY <1>8, <2>1, <2>2 DEF Remove
<1>9. ASSUME NEW p \in Paths, Sweep(p) PROVE Phases'
  BY <1>9 DEF Sweep, Compared, InClean, planned, Affected
<1>10. ASSUME NEW p \in Paths, Undo(p) PROVE Phases'
  <2>1. Compared'
    BY <1>10 DEF Undo, Compared, planned
  <2>2. InUndo'
    <3>1. InUndo /\ p \in Affected \ restored /\ tree = [q \in Paths |-> tree[q]]
      BY <1>10 DEF Undo, InTurn, TypeOK
    <3>2. \A q \in Paths : q # p => tree'[q] = tree[q]
      BY <1>10, <3>1 DEF Undo
    <3>3. tree'[p] \in {tree[p], treeBefore[p]}
      BY <1>10, <3>1 DEF Undo
    <3>4. spoiled' = TRUE \/ (spoiled' = spoiled /\ tree'[p] = treeBefore[p])
      BY <1>10, <3>1 DEF Undo
    <3>5. \A q \in restored' : spoiled' \/ tree'[q] = treeBefore'[q]
      BY <1>10, <3>1, <3>2, <3>4 DEF Undo, InUndo, planned, TypeOK, Affected
    <3>6. \A q \in plan : tree'[q] \in {Target(release, q), treeBefore[q]}
      BY <3>1, <3>2, <3>3 DEF InUndo, TypeOK
    <3>7. \A q \in stale : tree'[q] \in {None, treeBefore[q]}
      BY <3>1, <3>2, <3>3 DEF InUndo, TypeOK
    <3>8. \A q \in Paths \ Affected : tree'[q] = treeBefore[q]
      BY <3>1, <3>2 DEF InUndo
    <3>9. /\ lost' \subseteq litter' /\ litter' \subseteq litterBefore \cup lost'
          /\ spoiled' \/ LostOne'
      BY <1>10, <3>1 DEF Undo, InUndo, LostOne, planned
    <3>10. QED
      BY <1>10, <3>1, <3>5, <3>6, <3>7, <3>8, <3>9 DEF Undo, InUndo, planned, Affected
  <2>3. QED
    BY <1>10, <2>1, <2>2 DEF Undo
<1>11. ASSUME NEW p \in Paths, UndoSweep(p) PROVE Phases'
  BY <1>11 DEF UndoSweep, Compared, InUndo, planned, Affected, LostOne
<1>12. CASE Raise
  <2>1. Compared'
    BY <1>12 DEF Raise, Compared, planned
  <2>2. InUndo'
    BY <1>12 DEF Raise, Compared, InStage, InReplace, InClean, InUndo, files, planned, TypeOK, Affected, LostOne
  <2>3. QED
    BY <1>12, <2>1, <2>2 DEF Raise
<1>13. CASE RaiseAgain \/ Kill
  BY <1>13 DEF RaiseAgain, Kill
<1>14. CASE UNCHANGED vars
  BY <1>14 DEF vars, files, planned, Compared, InStage, InReplace, InClean, InUndo, Affected, LostOne
<1>15. ASSUME NEW p \in Paths, Interrupt(p) PROVE Phases'
  <2>1. Compared'
    BY <1>15 DEF Interrupt, Compared, planned
  <2>2. InUndo'
    BY <1>15 DEF Interrupt, Compared, InStage, InUndo, planned, TypeOK, Affected, LostOne
  <2>3. QED
    BY <1>15, <2>1, <2>2 DEF Interrupt
<1>16. QED
  BY <1>1, <1>2, <1>3, <1>4, <1>5, <1>6, <1>7, <1>8, <1>9, <1>10, <1>11, <1>12, <1>13, <1>14, <1>15
  DEF Next, RendererStep

LEMMA OutcomesStart == Init => Outcomes
BY DEF Init, Outcomes, WrittenIsCurrent, RaisedPutsBack

\* When everything listed is written and removed, nothing drifts.
LEMMA FinishIsCurrent == TypeOK /\ Phases /\ FinishUpdate => NoDrift(release)
<1> SUFFICES ASSUME TypeOK, Phases, FinishUpdate PROVE NoDrift(release)
  OBVIOUS
<1>1. Compared /\ InClean
  BY DEF Phases, FinishUpdate
<1>2. \A p \in Rendered(release) : tree[p] = Target(release, p)
  BY <1>1 DEF Compared, InClean, Affected, Rendered
<1>3. \A p \in Paths \ Rendered(release) : tree[p] = None
  BY <1>1 DEF Compared, InClean, Affected, FinishUpdate
<1>4. litter = {}
  BY <1>1 DEF InClean, FinishUpdate
<1>5. QED
  BY <1>2, <1>3, <1>4 DEF NoDrift, IsRendering

\* When everything listed is put back, the tree is what it was.
LEMMA UndoRestores ==
    TypeOK /\ Phases /\ UndoFinish /\ ~ spoiled =>
        tree = treeBefore /\ litter = litterBefore \cup lost /\ LostOne
<1> SUFFICES ASSUME TypeOK, Phases, UndoFinish, ~ spoiled
             PROVE tree = treeBefore /\ litter = litterBefore \cup lost /\ LostOne
  OBVIOUS
<1>1. InUndo
  BY DEF Phases, UndoFinish
<1>2. \A p \in Paths : tree[p] = treeBefore[p]
  BY <1>1 DEF InUndo, UndoFinish
<1>3. tree = treeBefore
  BY <1>2 DEF TypeOK
<1>4. litter = litterBefore \cup lost /\ LostOne
  BY <1>1 DEF InUndo, UndoFinish
<1>5. QED
  BY <1>3, <1>4

LEMMA OutcomesStep == TypeOK /\ Phases /\ Outcomes /\ [Next]_vars => Outcomes'
<1> SUFFICES ASSUME TypeOK, Phases, Outcomes, [Next]_vars PROVE Outcomes'
  OBVIOUS
<1> USE DEF Outcomes, WrittenIsCurrent, RaisedPutsBack
<1>1. CASE EditRelease \/ UNCHANGED vars
  BY <1>1 DEF EditRelease, vars, files, planned, NoDrift, IsRendering
<1>2. CASE FinishUpdate
  <2>1. NoDrift(release)
    BY <1>2, FinishIsCurrent
  <2>2. NoDrift(release)'
    BY <1>2, <2>1 DEF FinishUpdate, NoDrift, IsRendering, files, planned
  <2>3. QED
    BY <1>2, <2>2 DEF FinishUpdate
<1>3. CASE UndoFinish
  <2>1. ~ spoiled => tree = treeBefore /\ litter = litterBefore \cup lost /\ LostOne
    BY <1>3, UndoRestores
  <2>2. QED
    BY <1>3, <2>1 DEF UndoFinish, files, planned, LostOne
<1>4. CASE Begin \/ RaiseAgain \/ Kill
  BY <1>4 DEF Begin, RaiseAgain, Kill
<1>5. CASE AllStaged \/ AllReplaced \/ Raise
  BY <1>5 DEF AllStaged, AllReplaced, Raise
<1>6. ASSUME NEW p \in Paths,
             Stage(p) \/ Replace(p) \/ Remove(p) \/ Sweep(p) \/ Undo(p) \/ UndoSweep(p)
      PROVE Outcomes'
  BY <1>6 DEF Stage, Replace, Remove, Sweep, Undo, UndoSweep
<1>7. ASSUME NEW p \in Paths, Interrupt(p) PROVE Outcomes'
  BY <1>7 DEF Interrupt
<1>8. QED
  BY <1>1, <1>2, <1>3, <1>4, <1>5, <1>6, <1>7 DEF Next, RendererStep

\* The inductive invariant: in every phase, which files have the documents of
\* the loaded release and which those that the run has found.
THEOREM RendererInvariant == Spec => []IInv
<1>1. Init => IInv
  BY TypeStart, PhasesStart, OutcomesStart DEF IInv
<1>2. IInv /\ [Next]_vars => IInv'
  BY TypeStep, PhasesStep, OutcomesStep DEF IInv
<1>3. QED
  BY <1>1, <1>2, PTL DEF Spec

\* A successful run leaves exactly the rendering of the release it has loaded,
\* from any state that killed, failed and interrupted runs may have left.
THEOREM WrittenHasNoDrift == Spec => []WrittenIsCurrent
<1>1. IInv => WrittenIsCurrent
  BY DEF IInv, Outcomes
<1>2. QED
  BY <1>1, RendererInvariant, PTL

\* A run that raises once and reports no failed rollback has put every file back.
\* Only an interrupt that hits a document while it is staged leaves something: its
\* temporary.
THEOREM RaisedRestores == Spec => []RaisedPutsBack
<1>1. IInv => RaisedPutsBack
  BY DEF IInv, Outcomes
<1>2. QED
  BY <1>1, RendererInvariant, PTL

\* No file is ever a mixture: it is one that was found or one to be written.
THEOREM OnlyOldOrNew == Spec => []NoForeignFile
<1>1. IInv => NoForeignFile
  <2> SUFFICES ASSUME IInv, pc # "idle", NEW p \in Paths
               PROVE \/ tree[p] = treeBefore[p]
                     \/ tree[p] = IF p \in Rendered(release) THEN Target(release, p) ELSE None
    BY DEF NoForeignFile
  <2>1. Compared
    BY DEF IInv, Phases
  <2>2. plan \subseteq Rendered(release) /\ stale \cap Rendered(release) = {}
    BY <2>1 DEF Compared
  <2>3. QED
    BY <2>2 DEF IInv, Phases, TypeOK, InStage, InReplace, InClean, InUndo, Affected
<1>2. QED
  BY <1>1, RendererInvariant, PTL

\* The step that writes the binding finds all components in place.
LEMMA ReplaceCommits ==
    ASSUME IInv, NEW p \in Paths, Replace(p), tree'[Binding] # tree[Binding]
    PROVE  Committed
<1>1. p = Binding /\ staged = {Binding}
  BY DEF Replace, InTurn, IInv, TypeOK, Paths
<1>2. Compared /\ InReplace
  BY DEF IInv, Phases, Replace
<1>3. tree'[Binding] = release
  BY <1>1 DEF Replace, Target, IInv, TypeOK
<1>4. \A q \in Rendered(release) \ {Binding} : tree[q] = Target(release, q)
  BY <1>1, <1>2 DEF Compared, InReplace, Rendered
<1>5. \A q \in Rendered(release) : tree'[q] = Target(release, q)
  BY <1>1, <1>4 DEF Replace, IInv, TypeOK, Rendered
<1>6. QED
  BY <1>3, <1>5 DEF Committed, IsRendering, Replace, planned

\* The rollback's last file finds all others put back.
LEMMA UndoCommits ==
    ASSUME IInv, NEW p \in Paths, Undo(p), tree'[Binding] # tree[Binding]
    PROVE  TakenBack
<1>1. p = Binding /\ Affected \ restored = {Binding}
  BY DEF Undo, InTurn, IInv, TypeOK, Paths
<1>2. CASE UNCHANGED tree
  BY <1>2
<1>3. CASE tree' = [tree EXCEPT ![Binding] = treeBefore[Binding]]
  <2>1. InUndo /\ tree = [q \in Paths |-> tree[q]] /\ Binding \in Paths
    BY DEF IInv, Phases, TypeOK, Undo, Paths
  <2>2. tree'[Binding] = treeBefore[Binding]
    BY <1>3, <2>1
  <2>3. CASE spoiled = TRUE
    BY <2>2, <2>3 DEF Undo, TakenBack
  <2>4. CASE spoiled = FALSE
    <3>1. \A q \in Paths \ {Binding} : tree[q] = treeBefore[q]
      BY <1>1, <2>1, <2>4 DEF InUndo
    <3>2. tree' = [q \in Paths |-> treeBefore[q]]
      BY <1>3, <2>1, <3>1
    <3>3. tree' = treeBefore
      BY <3>2 DEF IInv, TypeOK
    <3>4. QED
      BY <1>1, <2>2, <2>4, <3>3 DEF Undo, TakenBack
  <2>5. QED
    BY <2>3, <2>4 DEF IInv, TypeOK
<1>4. QED
  BY <1>1, <1>2, <1>3 DEF Undo

\* A binding is written last: over all components of its release, or over
\* everything that a rollback could put back.
THEOREM BindingLast == Spec => BindingCommits
<1>1. IInv /\ [Next]_vars => [tree'[Binding] # tree[Binding] => Committed \/ TakenBack]_vars
  <2> SUFFICES ASSUME IInv, [Next]_vars, tree'[Binding] # tree[Binding]
               PROVE Committed \/ TakenBack
    OBVIOUS
  <2>1. ASSUME NEW p \in Paths, Replace(p) PROVE Committed
    BY <2>1, ReplaceCommits
  <2>2. ASSUME NEW p \in Paths, Undo(p) PROVE TakenBack
    BY <2>2, UndoCommits
  <2>3. ASSUME NEW p \in Paths, Remove(p) PROVE FALSE
    <3>1. stale \subseteq Paths \ Rendered(release)
      BY <2>3 DEF Remove, IInv, Phases, Compared
    <3>2. p # Binding
      BY <2>3, <3>1 DEF Remove, Rendered, Paths
    <3>3. QED
      BY <2>3, <3>2 DEF Remove, IInv, TypeOK
  <2>4. ASSUME NEW p \in Paths, Stage(p) \/ Sweep(p) \/ UndoSweep(p) PROVE FALSE
    BY <2>4 DEF Stage, Sweep, UndoSweep, files
  <2>5. CASE EditRelease \/ Begin \/ AllStaged \/ AllReplaced \/ FinishUpdate \/ UndoFinish
    BY <2>5 DEF EditRelease, Begin, AllStaged, AllReplaced, FinishUpdate, UndoFinish, files
  <2>6. CASE Raise \/ RaiseAgain \/ Kill \/ UNCHANGED vars
    BY <2>6 DEF Raise, RaiseAgain, Kill, vars, files
  <2>7. ASSUME NEW p \in Paths, Interrupt(p) PROVE FALSE
    BY <2>7 DEF Interrupt
  <2>8. QED
    BY <2>1, <2>2, <2>3, <2>4, <2>5, <2>6, <2>7 DEF Next, RendererStep
<1>2. QED
  BY <1>1, RendererInvariant, PTL DEF Spec, BindingCommits
-----------------------------------------------------------------------------
(***************************************************************************)
(* The inductive invariant                                                 *)
(***************************************************************************)
\* The lineage that outputs describe, as far as the job of that rank.
Through(o, rank) ==
    [source  |-> o["source"],
     sdk     |-> IF rank >= 2 THEN o["sdk"] ELSE 0,
     publish |-> IF rank >= 3 THEN o["publish"] ELSE 0,
     native  |-> IF rank >= 4 THEN o["native"] ELSE 0]

\* What a job that is executed now makes, and what its last success has made.
Making(r, job) == Through([output[r] EXCEPT ![job] = attempt[r]], Rank[job])
Made(r, job) == Through(output[r], Rank[job])

\* The job that uploads an artifact, and its steps that follow the upload.
Maker(role) ==
    CASE role = "source checkpoint" -> "source"
      [] role = "sdk checkpoint" -> "sdk"
      [] role = "identity" -> "publish"
      [] role = "probes" -> "publish"
      [] role = "evidence" -> "native"
      [] role = "signature" -> "sign"
After(role) ==
    CASE role = "source checkpoint" -> {"source"}
      [] role = "sdk checkpoint" -> {"sdk"}
      [] role = "identity" -> {"stage probes", "publish"}
      [] role = "probes" -> {"publish"}
      [] role = "evidence" -> {"native"}
      [] role = "signature" -> {"sign"}

Current(r) == JobOf(step[r])

\* Outputs exist for exactly the jobs before the current one, in order.
OutputsInOrder(r) ==
    /\ \A job \in Jobs : output[r][job] <= attempt[r]
    /\ \A job \in Stages : output[r][job] # 0 <=> Rank[job] < Rank[Current(r)]
    /\ \A job, later \in Stages :
        Rank[job] <= Rank[later] /\ output[r][later] # 0 => output[r][job] <= output[r][later]

\* Outputs name successful executions that read one another, the newest ones.
OutputsFromSuccess(r) ==
    /\ \A job \in Stages : output[r][job] # 0 =>
        [job |-> job, run |-> r, attempt |-> output[r][job], lineage |-> Made(r, job)] \in succeeded
    /\ \A e \in succeeded : e.run = r =>
        /\ e.attempt <= attempt[r]
        /\ e.job \in Stages /\ output[r][e.job] # 0 => e.attempt <= output[r][e.job]

\* What the outputs name is there.
OutputsKept(r) ==
    /\ r \notin expired => \A role \in Roles \ {"signature"} :
        output[r][Maker(role)] # 0 =>
            [role |-> role, run |-> r, attempt |-> output[r][Maker(role)],
             lineage |-> Made(r, Maker(role))] \in artifacts
    /\ output[r]["source"] # 0 => SourceImage(r, output[r]["source"]) \in images
    /\ output[r]["sdk"] # 0 => SdkImage(r, output[r]["sdk"], output[r]["source"]) \in images

\* An ID that an output names finds nothing but what its job has made, and
\* the current attempt has uploaded nothing ahead of its step.
ArtifactsOfOutputs(r) ==
    \A a \in artifacts : a.run = r =>
        LET job == Maker(a.role)
        IN  /\ 1 <= a.attempt /\ a.attempt <= attempt[r]
            /\ a.attempt = attempt[r] =>
                /\ a.lineage = Making(r, job)
                /\ Rank[job] < Rank[Current(r)] \/ step[r] \in After(a.role)
            /\ job # "sign" /\ a.attempt = output[r][job] => a.lineage = Made(r, job)

\* What the job in progress has done so far.
Progress(r) ==
    /\ step[r] # First[Current(r)] => lineage[r] = Making(r, Current(r))
    /\ step[r] \in {"seal source", "source"} => SourceImage(r, attempt[r]) \in images
    /\ step[r] \in {"seal sdk", "sdk"} => SdkImage(r, attempt[r], output[r]["source"]) \in images
    /\ \A role \in Roles : step[r] \in After(role) /\ r \notin expired =>
        [role |-> role, run |-> r, attempt |-> attempt[r], lineage |-> lineage[r]] \in artifacts
    /\ step[r] \in {"sign source", "upload", "sign"} =>
        SdkImage(r, output[r]["sdk"], output[r]["source"]) \in signed
    /\ step[r] \in {"upload", "sign"} => SourceImage(r, output[r]["source"]) \in signed
    /\ status[r] = "success" => step[r] = "sign"
    /\ status[r] = "none" => step[r] = "qualify"
    /\ status[r] # "none" => attempt[r] # 0

RunInv(r) ==
    /\ OutputsInOrder(r)
    /\ OutputsFromSuccess(r)
    /\ OutputsKept(r)
    /\ ArtifactsOfOutputs(r)
    /\ Progress(r)

CandidateInv ==
    /\ CandidateTypeOK
    /\ \A r \in Runs : RunInv(r)
    /\ SignedQualified
    /\ LineageFromSuccess

-----------------------------------------------------------------------------
(***************************************************************************)
(* Tables                                                                  *)
(***************************************************************************)
LEMMA Ranks ==
    /\ Rank["qualify"] = 0 /\ Rank["source"] = 1 /\ Rank["sdk"] = 2
    /\ Rank["publish"] = 3 /\ Rank["native"] = 4 /\ Rank["sign"] = 5
BY DEF Rank

LEMMA Firsts ==
    /\ First["qualify"] = "qualify" /\ First["source"] = "push source"
    /\ First["sdk"] = "push sdk" /\ First["publish"] = "build probes"
    /\ First["native"] = "run probes" /\ First["sign"] = "sign sdk"
BY DEF First

LEMMA Followings ==
    /\ Following["qualify"] = "source" /\ Following["source"] = "sdk"
    /\ Following["sdk"] = "publish" /\ Following["publish"] = "native"
    /\ Following["native"] = "sign"
BY DEF Following

LEMMA JobsOfSteps ==
    /\ JobOf("qualify") = "qualify"
    /\ JobOf("push source") = "source" /\ JobOf("seal source") = "source" /\ JobOf("source") = "source"
    /\ JobOf("push sdk") = "sdk" /\ JobOf("seal sdk") = "sdk" /\ JobOf("sdk") = "sdk"
    /\ JobOf("build probes") = "publish" /\ JobOf("stage identity") = "publish"
    /\ JobOf("stage probes") = "publish" /\ JobOf("publish") = "publish"
    /\ JobOf("run probes") = "native" /\ JobOf("stage evidence") = "native" /\ JobOf("native") = "native"
    /\ JobOf("sign sdk") = "sign" /\ JobOf("sign source") = "sign"
    /\ JobOf("upload") = "sign" /\ JobOf("sign") = "sign"
BY DEF JobOf

LEMMA Makers ==
    /\ Maker("source checkpoint") = "source" /\ Maker("sdk checkpoint") = "sdk"
    /\ Maker("identity") = "publish" /\ Maker("probes") = "publish"
    /\ Maker("evidence") = "native" /\ Maker("signature") = "sign"
BY DEF Maker

LEMMA Afters ==
    /\ After("source checkpoint") = {"source"} /\ After("sdk checkpoint") = {"sdk"}
    /\ After("identity") = {"stage probes", "publish"} /\ After("probes") = {"publish"}
    /\ After("evidence") = {"native"} /\ After("signature") = {"sign"}
BY DEF After

LEMMA MakingIs ==
    ASSUME NEW r, output[r] \in [Jobs -> Nat]
    PROVE  LET o == output[r]
               a == attempt[r]
           IN  /\ Making(r, "source") = [source |-> a, sdk |-> 0, publish |-> 0, native |-> 0]
               /\ Making(r, "sdk") = [source |-> o["source"], sdk |-> a, publish |-> 0, native |-> 0]
               /\ Making(r, "publish") =
                    [source |-> o["source"], sdk |-> o["sdk"], publish |-> a, native |-> 0]
               /\ Making(r, "native") =
                    [source |-> o["source"], sdk |-> o["sdk"], publish |-> o["publish"], native |-> a]
               /\ Making(r, "sign") = [source |-> o["source"], sdk |-> o["sdk"],
                                       publish |-> o["publish"], native |-> o["native"]]
BY Ranks DEF Making, Through, Jobs

LEMMA MadeIs ==
    ASSUME NEW r
    PROVE  LET o == output[r]
           IN  /\ Made(r, "source") = [source |-> o["source"], sdk |-> 0, publish |-> 0, native |-> 0]
               /\ Made(r, "sdk") = [source |-> o["source"], sdk |-> o["sdk"], publish |-> 0, native |-> 0]
               /\ Made(r, "publish") =
                    [source |-> o["source"], sdk |-> o["sdk"], publish |-> o["publish"], native |-> 0]
               /\ Made(r, "native") = [source |-> o["source"], sdk |-> o["sdk"],
                                       publish |-> o["publish"], native |-> o["native"]]
BY Ranks DEF Made, Through
LEMMA StepNames ==
    /\ \A job \in Jobs : job \in Steps /\ First[job] \in Steps
    /\ \A job \in Jobs \ {"sign"} : Following[job] \in Jobs
    /\ \A where \in Steps : JobOf(where) \in Jobs
BY DEF Jobs, Steps, First, Following, JobOf

LEMMA LineageTypes ==
    ASSUME CandidateTypeOK, NEW r \in Runs
    PROVE  /\ lineage[r] \in Lineage
           /\ \A job \in {"source", "sdk", "publish", "native", "sign"} : Making(r, job) \in Lineage
           /\ \A a, b \in Nat : SourceImage(r, a) \in Image /\ SdkImage(r, a, b) \in Image
<1>1. lineage[r] \in Lineage /\ output[r] \in [Jobs -> Nat] /\ attempt[r] \in Nat
  BY DEF CandidateTypeOK, RunTypeOK
<1>2. \A job \in {"source", "sdk", "publish", "native", "sign"} : Making(r, job) \in Lineage
  BY <1>1, MakingIs DEF Lineage, Jobs
<1>3. \A a, b \in Nat : SourceImage(r, a) \in Image /\ SdkImage(r, a, b) \in Image
  BY DEF Image, SourceImage, SdkImage
<1>4. QED BY <1>1, <1>2, <1>3

-----------------------------------------------------------------------------
(***************************************************************************)
(* What a step of a job does, once it is known what its downloads find     *)
(***************************************************************************)
StatusOnly(r, s) ==
    /\ status[r] # "none"
    /\ status' = [status EXCEPT ![r] = s]
    /\ UNCHANGED <<attempt, step, output, lineage, stored, succeeded>>

Advance(r, where, next, made) ==
    /\ At(r, where)
    /\ Goto(r, next)
    /\ lineage' = [lineage EXCEPT ![r] = made]
    /\ UNCHANGED <<output, expired, succeeded>>

SourcePushed(r) ==
    /\ Advance(r, "push source", "seal source", Making(r, "source"))
    /\ images' = images \cup {SourceImage(r, attempt[r])}
    /\ UNCHANGED <<artifacts, signed>>

SdkPushed(r) ==
    /\ Advance(r, "push sdk", "seal sdk", Making(r, "sdk"))
    /\ images' = images \cup {SdkImage(r, attempt[r], output[r]["source"])}
    /\ UNCHANGED <<artifacts, signed>>

ProbesMade(r) ==
    /\ \/ Advance(r, "build probes", "stage identity", Making(r, "publish"))
       \/ Advance(r, "run probes", "stage evidence", Making(r, "native"))
    /\ UNCHANGED <<artifacts, images, signed>>

SdkSigned(r) ==
    /\ Advance(r, "sign sdk", "sign source", Making(r, "sign"))
    /\ signed' = signed \cup {SdkImage(r, output[r]["sdk"], output[r]["source"])}
    /\ UNCHANGED <<artifacts, images>>

SourceSigned(r) ==
    /\ Advance(r, "sign source", "upload", Making(r, "sign"))
    /\ signed' = signed \cup {SourceImage(r, output[r]["source"])}
    /\ UNCHANGED <<artifacts, images>>

\* The step in which each role is uploaded, and the step that follows it.
Uploads(where, role, next) ==
    \/ where = "seal source" /\ role = "source checkpoint" /\ next = "source"
    \/ where = "seal sdk" /\ role = "sdk checkpoint" /\ next = "sdk"
    \/ where = "stage identity" /\ role = "identity" /\ next = "stage probes"
    \/ where = "stage probes" /\ role = "probes" /\ next = "publish"
    \/ where = "stage evidence" /\ role = "evidence" /\ next = "native"
    \/ where = "upload" /\ role = "signature" /\ next = "sign"

Delivered(r) ==
    \E where, next \in Steps, role \in Roles :
        /\ Uploads(where, role, next)
        /\ Advance(r, where, next, Making(r, Maker(role)))
        /\ artifacts' = artifacts \cup {[role |-> role, run |-> r, attempt |-> attempt[r],
                                         lineage |-> Making(r, Maker(role))]}
        /\ UNCHANGED <<images, signed>>

LEMMA DownloadsFind ==
    ASSUME CandidateTypeOK, NEW r \in Runs, RunInv(r)
    PROVE  /\ \A job \in Stages, role \in Roles : Maker(role) = job =>
                \A a \in Download(r, role, output[r][job]) : a.lineage = Made(r, job)
           /\ \A job \in Stages : Rank[job] < Rank[Current(r)] => output[r][job] # 0
BY DEF Download, RunInv, ArtifactsOfOutputs, OutputsInOrder, Stages

LEMMA StopIsStatusOnly ==
    ASSUME NEW r \in Runs, Stop(r), UNCHANGED <<output, stored, succeeded>>
    PROVE  StatusOnly(r, "failure")
BY DEF Stop, ConcludeRun, StatusOnly

LEMMA DeliverEffect ==
    ASSUME CandidateTypeOK, NEW r \in Runs, RunInv(r),
           NEW where \in Steps, NEW next \in Steps, NEW role \in Roles,
           Uploads(where, role, next), Deliver(r, where, role, next)
    PROVE  Delivered(r)
<1>1. step[r] = where
  BY DEF Deliver, At
<1>2. JobOf(where) = Maker(role) /\ where # First[JobOf(where)]
  BY Firsts, JobsOfSteps, Makers DEF Uploads
<1>3. lineage[r] = Making(r, Maker(role))
  BY <1>1, <1>2 DEF RunInv, Progress, Current
<1>4. lineage = [lineage EXCEPT ![r] = Making(r, Maker(role))]
  BY <1>3 DEF CandidateTypeOK
<1>5. QED BY <1>3, <1>4 DEF Deliver, Delivered, Upload, Advance

LEMMA JobEffects ==
    ASSUME CandidateTypeOK, NEW r \in Runs, RunInv(r), JobNext(r)
    PROVE  \/ \E job \in Jobs : Finish(r, job)
           \/ StatusOnly(r, "failure")
           \/ SourcePushed(r) \/ SdkPushed(r) \/ ProbesMade(r) \/ SdkSigned(r) \/ SourceSigned(r)
           \/ Delivered(r)
<1>a. output[r] \in [Jobs -> Nat] /\ attempt[r] \in Nat
  BY DEF CandidateTypeOK, RunTypeOK
<1>1. CASE PushSource(r)
  <2>1. [NoLineage EXCEPT !.source = attempt[r]] = Making(r, "source")
    BY <1>a, MakingIs DEF NoLineage
  <2>2. CASE TagExists("source", r, attempt[r]) \/ TagExists("sdk", r, attempt[r])
    BY <2>2, <1>1, StopIsStatusOnly DEF PushSource, stored
  <2>3. CASE ~ (TagExists("source", r, attempt[r]) \/ TagExists("sdk", r, attempt[r]))
    BY <2>3, <2>1, <1>1 DEF PushSource, SourcePushed, Advance
  <2>4. QED BY <2>2, <2>3
<1>2. CASE PushSdk(r)
  <2>1. CASE SourceOriginal(r) = {} \/ TagExists("sdk", r, attempt[r])
    BY <2>1, <1>2, StopIsStatusOnly DEF PushSdk, stored
  <2>2. CASE ~ (SourceOriginal(r) = {} \/ TagExists("sdk", r, attempt[r]))
    <3>1. PICK c \in SourceOriginal(r) :
            /\ images' = images \cup {SdkImage(r, attempt[r], c.lineage.source)}
            /\ lineage' = [lineage EXCEPT ![r] = [c.lineage EXCEPT !.sdk = attempt[r]]]
            /\ Goto(r, "seal sdk")
      BY <2>2, <1>2 DEF PushSdk
    <3>2. c.lineage = Made(r, "source")
      BY DownloadsFind, Makers DEF SourceOriginal, Stages, Roles
    <3>3. [c.lineage EXCEPT !.sdk = attempt[r]] = Making(r, "sdk") /\ c.lineage.source = output[r]["source"]
      BY <3>2, <1>a, MakingIs, MadeIs
    <3>4. QED BY <3>1, <3>3, <1>2 DEF PushSdk, SdkPushed, Advance
  <2>3. QED BY <2>1, <2>2
<1>3. CASE BuildProbes(r)
  <2>1. CASE SdkOriginal(r) = {}
    BY <2>1, <1>3, StopIsStatusOnly DEF BuildProbes
  <2>2. CASE SdkOriginal(r) # {}
    <3>1. PICK c \in SdkOriginal(r) :
            /\ lineage' = [lineage EXCEPT ![r] = [c.lineage EXCEPT !.publish = attempt[r]]]
            /\ Goto(r, "stage identity")
      BY <2>2, <1>3 DEF BuildProbes
    <3>2. c.lineage = Made(r, "sdk")
      BY DownloadsFind, Makers DEF SdkOriginal, Stages, Roles
    <3>3. [c.lineage EXCEPT !.publish = attempt[r]] = Making(r, "publish")
      BY <3>2, <1>a, MakingIs, MadeIs
    <3>4. QED BY <3>1, <3>3, <1>3 DEF BuildProbes, ProbesMade, Advance, stored
  <2>3. QED BY <2>1, <2>2
<1>4. CASE RunProbes(r)
  <2>1. CASE ProbesOriginal(r) = {}
    BY <2>1, <1>4, StopIsStatusOnly DEF RunProbes
  <2>2. CASE ProbesOriginal(r) # {}
    <3>1. PICK p \in ProbesOriginal(r) :
            /\ lineage' = [lineage EXCEPT ![r] = [p.lineage EXCEPT !.native = attempt[r]]]
            /\ Goto(r, "stage evidence")
      BY <2>2, <1>4 DEF RunProbes
    <3>2. p.lineage = Made(r, "publish")
      BY DownloadsFind, Makers DEF ProbesOriginal, Stages, Roles
    <3>3. [p.lineage EXCEPT !.native = attempt[r]] = Making(r, "native")
      BY <3>2, <1>a, MakingIs, MadeIs
    <3>4. QED BY <3>1, <3>3, <1>4 DEF RunProbes, ProbesMade, Advance, stored
  <2>3. QED BY <2>1, <2>2
<1>5. CASE SignSdk(r)
  <2>1. CASE Qualified(r) = {}
    BY <2>1, <1>5, StopIsStatusOnly DEF SignSdk, stored
  <2>2. CASE Qualified(r) # {}
    <3>1. PICK e \in Qualified(r) :
            /\ signed' = signed \cup {SignedImage(r, e.lineage)}
            /\ lineage' = [lineage EXCEPT ![r] = e.lineage]
            /\ Goto(r, "sign source")
      BY <2>2, <1>5 DEF SignSdk
    <3>2. e.lineage = Made(r, "native")
      BY DownloadsFind, Makers DEF Qualified, Stages, Roles
    <3>3. e.lineage = Making(r, "sign") /\ e.lineage.sdk = output[r]["sdk"] /\ e.lineage.source = output[r]["source"]
      BY <3>2, <1>a, MakingIs, MadeIs
    <3>4. QED BY <3>1, <3>3, <1>5 DEF SignSdk, SdkSigned, Advance, SignedImage
  <2>3. QED BY <2>1, <2>2
<1>6. CASE SignSource(r)
  <2>1. step[r] # First[Current(r)] /\ Current(r) = "sign"
    BY <1>6, Firsts, JobsOfSteps DEF SignSource, At, Current
  <2>2. lineage[r] = Making(r, "sign")
    BY <2>1 DEF RunInv, Progress
  <2>3. lineage[r].source = output[r]["source"]
    BY <2>2, <1>a, MakingIs
  <2>4. lineage = [lineage EXCEPT ![r] = Making(r, "sign")]
    BY <2>2 DEF CandidateTypeOK
  <2>5. QED BY <2>3, <2>4, <1>6 DEF SignSource, SourceSigned, Advance
<1>7. CASE SealSource(r) \/ SealSdk(r) \/ StageIdentity(r) \/ StageProbes(r) \/ StageEvidence(r) \/ UploadSignature(r)
  BY <1>7, DeliverEffect DEF SealSource, SealSdk, StageIdentity, StageProbes, StageEvidence,
                             UploadSignature, Uploads, Steps, Jobs, Roles
<1>8. QED BY <1>1, <1>2, <1>3, <1>4, <1>5, <1>6, <1>7 DEF JobNext
\* The steps of a job as one action, and what all of them have in common.
Advanced(r) ==
    \/ SourcePushed(r) \/ SdkPushed(r) \/ ProbesMade(r) \/ SdkSigned(r) \/ SourceSigned(r)
    \/ Delivered(r)

LEMMA CandidateSteps ==
    ASSUME CandidateTypeOK, \A r \in Runs : RunInv(r), CandidateNext
    PROVE  \E r \in Runs :
              \/ Dispatch(r) \/ StatusOnly(r, "running") \/ StatusOnly(r, "failure") \/ Expire(r)
              \/ \E job \in Jobs : Again(r, job) \/ Finish(r, job)
              \/ Advanced(r)
<1>1. PICK r \in Runs : WorkflowNext(r) \/ (\E job \in Jobs : Rerun(r, job)) \/ JobNext(r)
  BY DEF CandidateNext
<1>2. CASE JobNext(r)
  BY <1>2, JobEffects DEF Advanced
<1>3. CASE \E job \in Jobs : Rerun(r, job)
  BY <1>3 DEF Rerun
<1>4. CASE Start(r)
  BY <1>4 DEF Start, StartRun, StatusOnly
<1>5. CASE Die(r)
  BY <1>5 DEF Die, ConcludeRun, StatusOnly
<1>6. CASE RerunFailed(r)
  <2>1. JobOf(step[r]) \in Jobs
    BY StepNames DEF CandidateTypeOK
  <2>2. QED BY <2>1, <1>6 DEF RerunFailed
<1>7. QED BY <1>1, <1>2, <1>3, <1>4, <1>5, <1>6 DEF WorkflowNext

-----------------------------------------------------------------------------
(***************************************************************************)
(* Type correctness                                                        *)
(***************************************************************************)
LEMMA CountersTyped ==
    ASSUME CandidateTypeOK, CandidateNext
    PROVE  faults' \in 0 .. MaxFaults /\ repeats' \in 0 .. MaxRepeats
<1>1. \/ UNCHANGED faults
      \/ faults < MaxFaults /\ faults' = faults + 1
  BY DEF CandidateNext, WorkflowNext, Dispatch, Start, RerunFailed, Die, Expire, Again, Rerun, JobNext,
         Finish, FinishAs, PushSource, SealSource, PushSdk, SealSdk, BuildProbes, StageIdentity,
         StageProbes, RunProbes, StageEvidence, SignSdk, SignSource, UploadSignature, Deliver
<1>2. \/ UNCHANGED repeats
      \/ repeats < MaxRepeats /\ repeats' = repeats + 1
  BY DEF CandidateNext, WorkflowNext, Dispatch, Start, RerunFailed, Die, Expire, Again, Rerun, JobNext,
         Finish, FinishAs, PushSource, SealSource, PushSdk, SealSdk, BuildProbes, StageIdentity,
         StageProbes, RunProbes, StageEvidence, SignSdk, SignSource, UploadSignature, Deliver
<1>3. QED BY <1>1, <1>2, CandidateAssumption DEF CandidateTypeOK

LEMMA CandidateNextTypes ==
    ASSUME CandidateTypeOK, \A r \in Runs : RunInv(r), CandidateNext
    PROVE  CandidateTypeOK'
<1> DEFINE Statuses == {"none", "queued", "running", "success", "failure"}
<1>1. PICK r \in Runs :
              \/ Dispatch(r) \/ StatusOnly(r, "running") \/ StatusOnly(r, "failure") \/ Expire(r)
              \/ \E job \in Jobs : Again(r, job) \/ Finish(r, job)
              \/ Advanced(r)
  BY CandidateSteps
<1>a. status \in [Runs -> Statuses] /\ attempt \in [Runs -> Nat] /\ step \in [Runs -> Steps]
  BY DEF CandidateTypeOK, RunTypeOK
<1>b. output \in [Runs -> [Jobs -> Nat]] /\ lineage \in [Runs -> Lineage] /\ artifacts \subseteq Artifact
  BY DEF CandidateTypeOK
<1>c. images \subseteq Image /\ signed \subseteq Image /\ expired \subseteq Runs /\ succeeded \subseteq Success
  BY DEF CandidateTypeOK
<1>d. attempt[r] \in Nat /\ output[r] \in [Jobs -> Nat] /\ lineage[r] \in Lineage
  BY <1>a, <1>b
<1> DEFINE TypesKept ==
        /\ status' \in [Runs -> Statuses] /\ attempt' \in [Runs -> Nat] /\ step' \in [Runs -> Steps]
        /\ output' \in [Runs -> [Jobs -> Nat]] /\ lineage' \in [Runs -> Lineage]
        /\ artifacts' \subseteq Artifact
        /\ images' \subseteq Image /\ signed' \subseteq Image
        /\ expired' \subseteq Runs /\ succeeded' \subseteq Success
<1>2. ASSUME Dispatch(r) PROVE TypesKept
  BY <1>2, <1>a, <1>b, <1>c DEF Dispatch, DispatchRun, Queue, stored
<1>3. ASSUME StatusOnly(r, "running") \/ StatusOnly(r, "failure") PROVE TypesKept
  BY <1>3, <1>a, <1>b, <1>c DEF StatusOnly, stored
<1>4. ASSUME Expire(r) PROVE TypesKept
  BY <1>4, <1>a, <1>b, <1>c DEF Expire, runState
<1>5. ASSUME NEW job \in Jobs, Again(r, job) PROVE TypesKept
  <2>1. status' \in [Runs -> Statuses] /\ attempt' \in [Runs -> Nat]
    BY <1>5, <1>a DEF Again, RepeatRun, Queue
  <2>2. step' \in [Runs -> Steps]
    BY <1>5, <1>a, StepNames DEF Again
  <2>3. [j \in Jobs |-> IF Rank[j] < Rank[job] THEN output[r][j] ELSE 0] \in [Jobs -> Nat]
    BY <1>d
  <2>4. output' \in [Runs -> [Jobs -> Nat]]
    BY <2>3, <1>b, <1>5 DEF Again
  <2>5. lineage' \in [Runs -> Lineage]
    BY <1>5, <1>b DEF Again, Lineage, NoLineage
  <2>6. QED BY <2>1, <2>2, <2>4, <2>5, <1>5, <1>b, <1>c DEF Again, stored
<1>6. ASSUME NEW job \in Jobs, Finish(r, job) PROVE TypesKept
  <2>1. [job |-> job, run |-> r, attempt |-> attempt[r], lineage |-> lineage[r]] \in Success
    BY <1>d DEF Success
  <2>2. step' \in [Runs -> Steps] /\ status' \in [Runs -> Statuses] /\ attempt' \in [Runs -> Nat]
    BY <1>6, <1>a, StepNames DEF Finish, FinishAs, ConcludeRun, Goto
  <2>3. output' \in [Runs -> [Jobs -> Nat]]
    BY <1>6, <1>b, <1>d DEF Finish, FinishAs
  <2>4. QED BY <1>6, <1>b, <1>c, <2>1, <2>2, <2>3 DEF Finish, FinishAs, stored
<1>7. ASSUME Advanced(r) PROVE TypesKept
  <2>1. \A job \in {"source", "sdk", "publish", "native", "sign"} : Making(r, job) \in Lineage
    BY LineageTypes
  <2>2. \A role \in Roles : Making(r, Maker(role)) \in Lineage
    BY <2>1, Makers DEF Roles
  <2>3. \A where \in Steps, next \in Steps, made \in Lineage : Advance(r, where, next, made) =>
            /\ status' \in [Runs -> Statuses] /\ attempt' \in [Runs -> Nat] /\ step' \in [Runs -> Steps]
            /\ output' \in [Runs -> [Jobs -> Nat]] /\ lineage' \in [Runs -> Lineage]
            /\ expired' \subseteq Runs /\ succeeded' \subseteq Success
    BY <1>a, <1>b, <1>c DEF Advance, Goto
  <2>4. CASE Delivered(r)
    <3>1. PICK where \in Steps, next \in Steps, role \in Roles :
            /\ Advance(r, where, next, Making(r, Maker(role)))
            /\ artifacts' = artifacts \cup {[role |-> role, run |-> r, attempt |-> attempt[r],
                                             lineage |-> Making(r, Maker(role))]}
            /\ UNCHANGED <<images, signed>>
      BY <2>4 DEF Delivered
    <3>2. [role |-> role, run |-> r, attempt |-> attempt[r], lineage |-> Making(r, Maker(role))] \in Artifact
      BY <2>2, <1>d DEF Artifact
    <3>3. QED BY <3>1, <3>2, <2>2, <2>3, <1>b, <1>c
  <2>5. \A a, b \in Nat : SourceImage(r, a) \in Image /\ SdkImage(r, a, b) \in Image
    BY LineageTypes
  <2>6. output[r]["source"] \in Nat /\ output[r]["sdk"] \in Nat
    BY <1>d DEF Jobs
  <2>7. {"push source", "seal source", "push sdk", "seal sdk", "build probes", "stage identity",
         "run probes", "stage evidence", "sign sdk", "sign source", "upload"} \subseteq Steps
    BY DEF Steps
  <2>8. CASE SourcePushed(r) \/ SdkPushed(r)
    BY <2>8, <2>1, <2>3, <2>5, <2>6, <2>7, <1>b, <1>c, <1>d DEF SourcePushed, SdkPushed
  <2>9. CASE ProbesMade(r)
    BY <2>9, <2>1, <2>3, <2>7, <1>b, <1>c DEF ProbesMade
  <2>10. CASE SdkSigned(r) \/ SourceSigned(r)
    BY <2>10, <2>1, <2>3, <2>5, <2>6, <2>7, <1>b, <1>c DEF SdkSigned, SourceSigned
  <2>11. QED BY <1>7, <2>4, <2>8, <2>9, <2>10 DEF Advanced
<1>8. TypesKept
  BY <1>1, <1>2, <1>3, <1>4, <1>5, <1>6, <1>7
<1>9. QED BY <1>8, CountersTyped DEF CandidateTypeOK, RunTypeOK
-----------------------------------------------------------------------------
(***************************************************************************)
(* Runs that a step does not touch                                         *)
(***************************************************************************)
Untouched(q) ==
    /\ status'[q] = status[q] /\ attempt'[q] = attempt[q] /\ step'[q] = step[q]
    /\ output'[q] = output[q] /\ lineage'[q] = lineage[q]
    /\ q \in expired' <=> q \in expired
    /\ \A a : a.run = q => (a \in artifacts' <=> a \in artifacts)
    /\ \A e : e.run = q => (e \in succeeded' <=> e \in succeeded)
    /\ images \subseteq images' /\ signed \subseteq signed'

LEMMA OtherRun ==
    ASSUME NEW q \in Runs, RunInv(q), Untouched(q)
    PROVE  RunInv(q)'
<1>1. /\ \A job : Making(q, job)' = Making(q, job) /\ Made(q, job)' = Made(q, job)
      /\ Current(q)' = Current(q)
  BY DEF Untouched, Making, Made, Through, Current
<1>2. OutputsInOrder(q)'
  BY <1>1 DEF RunInv, OutputsInOrder, Untouched
<1>3. OutputsFromSuccess(q)'
  <2>1. \A job \in Stages : output[q][job] # 0 =>
        [job |-> job, run |-> q, attempt |-> output[q][job], lineage |-> Made(q, job)] \in succeeded'
    BY DEF RunInv, OutputsFromSuccess, Untouched
  <2>2. \A e \in succeeded' : e.run = q => e \in succeeded
    BY DEF Untouched
  <2>3. QED BY <1>1, <2>1, <2>2 DEF RunInv, OutputsFromSuccess, Untouched
<1>4. OutputsKept(q)'
  <2>1. q \notin expired => \A role \in Roles \ {"signature"} : output[q][Maker(role)] # 0 =>
            [role |-> role, run |-> q, attempt |-> output[q][Maker(role)],
             lineage |-> Made(q, Maker(role))] \in artifacts'
    BY DEF RunInv, OutputsKept, Untouched
  <2>2. QED BY <1>1, <2>1 DEF RunInv, OutputsKept, Untouched, SourceImage, SdkImage
<1>5. ArtifactsOfOutputs(q)'
  BY <1>1 DEF RunInv, ArtifactsOfOutputs, Untouched
<1>6. Progress(q)'
  <2>1. \A role \in Roles : step[q] \in After(role) /\ q \notin expired =>
            [role |-> role, run |-> q, attempt |-> attempt[q], lineage |-> lineage[q]] \in artifacts'
    BY DEF RunInv, Progress, Untouched
  <2>2. QED BY <1>1, <2>1 DEF RunInv, Progress, Untouched, SourceImage, SdkImage
<1>7. QED BY <1>2, <1>3, <1>4, <1>5, <1>6 DEF RunInv

LEMMA AdvanceOnlyRun ==
    ASSUME CandidateTypeOK, NEW r \in Runs, Advanced(r)
    PROVE  /\ UNCHANGED <<status, attempt, output, expired, succeeded>>
           /\ \E where, next \in Steps : \E made : Advance(r, where, next, made)
           /\ artifacts \subseteq artifacts' /\ images \subseteq images' /\ signed \subseteq signed'
           /\ \A a \in artifacts' \ artifacts : a.run = r
<1>1. {"push source", "seal source", "push sdk", "seal sdk", "build probes", "stage identity",
       "run probes", "stage evidence", "sign sdk", "sign source", "upload"} \subseteq Steps
  BY DEF Steps
<1>2. \E where, next \in Steps : \E made : Advance(r, where, next, made)
  <2>1. CASE Delivered(r)
    BY <2>1 DEF Delivered
  <2>2. QED BY <2>1, <1>1 DEF Advanced, SourcePushed, SdkPushed, ProbesMade, SdkSigned, SourceSigned
<1>3. UNCHANGED <<status, attempt, output, expired, succeeded>>
  BY <1>2 DEF Advance, Goto
<1>4. /\ artifacts \subseteq artifacts' /\ images \subseteq images' /\ signed \subseteq signed'
      /\ \A a \in artifacts' \ artifacts : a.run = r
  <2>1. CASE SourcePushed(r) \/ SdkPushed(r) \/ ProbesMade(r) \/ SdkSigned(r) \/ SourceSigned(r)
    BY <2>1 DEF SourcePushed, SdkPushed, ProbesMade, SdkSigned, SourceSigned
  <2>2. CASE Delivered(r)
    BY <2>2 DEF Delivered
  <2>3. QED BY <2>1, <2>2 DEF Advanced
<1>5. QED BY <1>2, <1>3, <1>4

LEMMA OthersUntouched ==
    ASSUME CandidateTypeOK, NEW r \in Runs, NEW q \in Runs, q # r,
           \/ Dispatch(r) \/ StatusOnly(r, "running") \/ StatusOnly(r, "failure") \/ Expire(r)
           \/ \E job \in Jobs : Again(r, job) \/ Finish(r, job)
           \/ Advanced(r)
    PROVE  Untouched(q)
<1>1. CASE Dispatch(r)
  BY <1>1 DEF Dispatch, DispatchRun, Queue, stored, Untouched, CandidateTypeOK, RunTypeOK
<1>2. CASE StatusOnly(r, "running") \/ StatusOnly(r, "failure")
  BY <1>2 DEF StatusOnly, stored, Untouched, CandidateTypeOK, RunTypeOK
<1>3. CASE Expire(r)
  BY <1>3 DEF Expire, runState, Untouched
<1>4. CASE \E job \in Jobs : Again(r, job)
  BY <1>4 DEF Again, RepeatRun, Queue, stored, Untouched, CandidateTypeOK, RunTypeOK
<1>5. CASE \E job \in Jobs : Finish(r, job)
  BY <1>5 DEF Finish, FinishAs, Goto, ConcludeRun, stored, Untouched, CandidateTypeOK, RunTypeOK
<1>6. CASE Advanced(r)
  <2>1. PICK where \in Steps, next \in Steps : \E made : Advance(r, where, next, made)
    BY <1>6, AdvanceOnlyRun
  <2>2. step'[q] = step[q] /\ lineage'[q] = lineage[q]
    BY <2>1 DEF Advance, Goto, CandidateTypeOK
  <2>3. QED BY <1>6, <2>2, AdvanceOnlyRun DEF Untouched
<1>7. QED BY <1>1, <1>2, <1>3, <1>4, <1>5, <1>6
-----------------------------------------------------------------------------
(***************************************************************************)
(* The run that makes the step: its attempts                               *)
(***************************************************************************)
LEMMA ThroughSame ==
    ASSUME NEW o, NEW p, NEW rank \in Nat \ {0}, \A job \in Stages : Rank[job] <= rank => o[job] = p[job]
    PROVE  Through(o, rank) = Through(p, rank)
BY Ranks DEF Through, Stages

LEMMA AtQualify ==
    /\ First[JobOf("qualify")] = "qualify"
    /\ \A role \in Roles : "qualify" \notin After(role)
BY Firsts, JobsOfSteps, Afters DEF Roles

LEMMA DispatchOwn ==
    ASSUME CandidateTypeOK, NEW r \in Runs, RunInv(r), Dispatch(r)
    PROVE  RunInv(r)'
<1>1. /\ step[r] = "qualify" /\ attempt[r] \in Nat /\ attempt'[r] = attempt[r] + 1 /\ status'[r] = "queued"
      /\ UNCHANGED <<step, output, lineage, artifacts, images, signed, expired, succeeded>>
  BY DEF Dispatch, DispatchRun, Queue, stored, RunInv, Progress, CandidateTypeOK, RunTypeOK
<1>2. output[r] \in [Jobs -> Nat] /\ \A a \in artifacts \cup succeeded : a.attempt \in Nat
  BY DEF CandidateTypeOK, Artifact, Success
<1>3. Current(r)' = Current(r) /\ \A job : Made(r, job)' = Made(r, job)
  BY <1>1 DEF Current, Made, Through
<1>4. OutputsInOrder(r)'
  BY <1>1, <1>2, <1>3 DEF RunInv, OutputsInOrder
<1>5. OutputsFromSuccess(r)'
  BY <1>1, <1>2, <1>3 DEF RunInv, OutputsFromSuccess
<1>6. OutputsKept(r)'
  BY <1>1, <1>3 DEF RunInv, OutputsKept, SourceImage, SdkImage
<1>7. ArtifactsOfOutputs(r)'
  BY <1>1, <1>2, <1>3 DEF RunInv, ArtifactsOfOutputs
<1>8. Progress(r)'
  <2>1. attempt'[r] # 0
    BY <1>1
  <2>2. QED BY <1>1, <2>1, AtQualify DEF Progress, Current
<1>9. QED BY <1>4, <1>5, <1>6, <1>7, <1>8 DEF RunInv

LEMMA StatusOwn ==
    ASSUME CandidateTypeOK, NEW r \in Runs, RunInv(r), StatusOnly(r, "running") \/ StatusOnly(r, "failure")
    PROVE  RunInv(r)'
<1>1. /\ status'[r] \in {"running", "failure"} /\ status[r] # "none"
      /\ UNCHANGED <<attempt, step, output, lineage, artifacts, images, signed, expired, succeeded>>
  BY DEF StatusOnly, stored, CandidateTypeOK, RunTypeOK
<1>2. /\ \A job : Making(r, job)' = Making(r, job) /\ Made(r, job)' = Made(r, job)
      /\ Current(r)' = Current(r)
  BY <1>1 DEF Making, Made, Through, Current
<1>3. OutputsInOrder(r)' /\ OutputsFromSuccess(r)'
  BY <1>1, <1>2 DEF RunInv, OutputsInOrder, OutputsFromSuccess
<1>4. OutputsKept(r)' /\ ArtifactsOfOutputs(r)'
  BY <1>1, <1>2 DEF RunInv, OutputsKept, ArtifactsOfOutputs, SourceImage, SdkImage
<1>5. Progress(r)'
  BY <1>1, <1>2 DEF RunInv, Progress, SourceImage, SdkImage
<1>6. QED BY <1>3, <1>4, <1>5 DEF RunInv

LEMMA ExpireOwn ==
    ASSUME CandidateTypeOK, NEW r \in Runs, RunInv(r), Expire(r)
    PROVE  RunInv(r)'
<1>1. /\ r \in expired' /\ \A a \in artifacts' : a.run # r
      /\ UNCHANGED <<status, attempt, step, output, lineage, images, signed, succeeded>>
  BY DEF Expire, runState
<1>2. /\ \A job : Making(r, job)' = Making(r, job) /\ Made(r, job)' = Made(r, job)
      /\ Current(r)' = Current(r)
  BY <1>1 DEF Making, Made, Through, Current
<1>3. OutputsInOrder(r)' /\ OutputsFromSuccess(r)'
  BY <1>1, <1>2 DEF RunInv, OutputsInOrder, OutputsFromSuccess
<1>4. OutputsKept(r)' /\ ArtifactsOfOutputs(r)'
  BY <1>1, <1>2 DEF RunInv, OutputsKept, ArtifactsOfOutputs, SourceImage, SdkImage
<1>5. Progress(r)'
  BY <1>1, <1>2 DEF RunInv, Progress, SourceImage, SdkImage
<1>6. QED BY <1>3, <1>4, <1>5 DEF RunInv

\* Repeating a job keeps what was made before it and forgets the rest.
LEMMA AgainOwn ==
    ASSUME CandidateTypeOK, NEW r \in Runs, RunInv(r), NEW job \in Jobs, Again(r, job)
    PROVE  RunInv(r)'
<1>1. /\ attempt[r] \in Nat /\ attempt'[r] = attempt[r] + 1 /\ status'[r] = "queued"
      /\ step'[r] = First[job]
      /\ UNCHANGED <<artifacts, images, signed, expired, succeeded>>
  BY DEF Again, RepeatRun, Queue, stored, CandidateTypeOK, RunTypeOK
<1>2. output[r] \in [Jobs -> Nat] /\ \A a \in artifacts \cup succeeded : a.attempt \in Nat
  BY DEF CandidateTypeOK, Artifact, Success
<1>3. \A j \in Jobs : output'[r][j] = IF Rank[j] < Rank[job] THEN output[r][j] ELSE 0
  BY <1>2 DEF Again, CandidateTypeOK
<1>4. Current(r)' = job /\ First[Current(r)'] = step'[r]
  BY <1>1, Firsts, JobsOfSteps DEF Current, Jobs
<1>5. \A before \in Stages : Rank[before] < Rank[job] => output[r][before] # 0
  BY DEF Again, Stages, Jobs
<1>6. \A j \in Stages : output'[r][j] # 0 => output'[r][j] = output[r][j] /\ Made(r, j)' = Made(r, j)
  <2>1. ASSUME NEW j \in Stages, output'[r][j] # 0
        PROVE  output'[r][j] = output[r][j] /\ Made(r, j)' = Made(r, j)
    <3>1. Rank[j] < Rank[job] /\ output'[r][j] = output[r][j]
      BY <1>3, <2>1 DEF Stages, Jobs
    <3>2. \A k \in Stages : Rank[k] <= Rank[j] => output'[r][k] = output[r][k]
      BY <3>1, <1>3, Ranks DEF Stages, Jobs
    <3>3. Rank[j] \in Nat \ {0}
      BY Ranks DEF Stages
    <3>4. Through(output'[r], Rank[j]) = Through(output[r], Rank[j])
      BY <3>2, <3>3, ThroughSame
    <3>5. QED BY <3>1, <3>4 DEF Made, Through
  <2>2. QED BY <2>1
<1>7. OutputsInOrder(r)'
  <2>1. \A j \in Jobs : output'[r][j] <= attempt'[r]
    BY <1>1, <1>2, <1>3 DEF RunInv, OutputsInOrder
  <2>2. \A j \in Stages : output'[r][j] # 0 <=> Rank[j] < Rank[job]
    BY <1>3, <1>5 DEF Stages, Jobs
  <2>3. \A j, later \in Stages :
            Rank[j] <= Rank[later] /\ output'[r][later] # 0 => output'[r][j] <= output'[r][later]
    BY <1>2, <1>3, <2>2, Ranks DEF RunInv, OutputsInOrder, Stages, Jobs
  <2>4. QED BY <1>4, <2>1, <2>2, <2>3 DEF OutputsInOrder, Current
<1>8. OutputsFromSuccess(r)'
  BY <1>1, <1>2, <1>6 DEF RunInv, OutputsFromSuccess
<1>9. OutputsKept(r)'
  <2>1. \A role \in Roles \ {"signature"} : Maker(role) \in Stages
    BY Makers DEF Roles, Stages
  <2>2. output'[r]["sdk"] # 0 => output'[r]["source"] = output[r]["source"]
    BY <1>3, Ranks DEF Jobs
  <2>3. QED BY <1>1, <1>6, <2>1, <2>2 DEF RunInv, OutputsKept, SourceImage, SdkImage, Stages
<1>10. ArtifactsOfOutputs(r)'
  <2>1. ASSUME NEW a \in artifacts, a.run = r
        PROVE  /\ 1 <= a.attempt /\ a.attempt <= attempt'[r] /\ a.attempt # attempt'[r]
               /\ Maker(a.role) # "sign" /\ a.attempt = output'[r][Maker(a.role)] => a.lineage = Made(r, Maker(a.role))'
    <3>1. 1 <= a.attempt /\ a.attempt <= attempt[r]
      BY <2>1 DEF RunInv, ArtifactsOfOutputs
    <3>2. Maker(a.role) # "sign" => Maker(a.role) \in Stages
      BY Makers DEF CandidateTypeOK, Artifact, Roles, Stages
    <3>3. QED BY <2>1, <3>1, <3>2, <1>1, <1>2, <1>6 DEF RunInv, ArtifactsOfOutputs
  <2>2. QED BY <2>1, <1>1 DEF ArtifactsOfOutputs
<1>11. Progress(r)'
  <2>1. step'[r] \in {"qualify", "push source", "push sdk", "build probes", "run probes", "sign sdk"}
    BY <1>1, Firsts DEF Jobs
  <2>2. \A role \in Roles : step'[r] \notin After(role)
    BY <2>1, Afters DEF Roles
  <2>3. attempt'[r] # 0
    BY <1>1
  <2>4. QED BY <1>1, <1>4, <2>1, <2>2, <2>3 DEF Progress, Current
<1>12. QED BY <1>7, <1>8, <1>9, <1>10, <1>11 DEF RunInv
-----------------------------------------------------------------------------
(***************************************************************************)
(* The run that makes the step: a job that succeeds                        *)
(***************************************************************************)
LEMMA FinishSign ==
    ASSUME CandidateTypeOK, NEW r \in Runs, RunInv(r), Finish(r, "sign")
    PROVE  RunInv(r)'
<1>1. /\ step[r] = "sign" /\ attempt[r] \in Nat /\ status'[r] = "success"
      /\ UNCHANGED <<attempt, step, lineage, artifacts, images, signed, expired>>
      /\ succeeded' = succeeded \cup
            {[job |-> "sign", run |-> r, attempt |-> attempt[r], lineage |-> lineage[r]]}
  BY DEF Finish, FinishAs, At, ConcludeRun, stored, CandidateTypeOK, RunTypeOK
<1>2. output[r] \in [Jobs -> Nat]
  BY DEF CandidateTypeOK
<1>3. output'[r] = [output[r] EXCEPT !["sign"] = attempt[r]]
  BY DEF Finish, FinishAs, CandidateTypeOK
<1>4. /\ \A j \in Stages : output'[r][j] = output[r][j]
      /\ \A j \in Jobs : output'[r][j] = output[r][j] \/ output'[r][j] = attempt[r]
  BY <1>2, <1>3 DEF Stages, Jobs
<1>5. /\ \A j \in Jobs \ {"qualify"} : Making(r, j)' = Making(r, j)
      /\ \A j \in Stages : Made(r, j)' = Made(r, j)
      /\ Current(r)' = Current(r)
  <2>1. \A j \in Jobs : \A s \in Stages :
            [output'[r] EXCEPT ![j] = attempt[r]][s] = [output[r] EXCEPT ![j] = attempt[r]][s]
    BY <1>2, <1>3 DEF Stages, Jobs
  <2>2. \A j \in Jobs \ {"qualify"} : Rank[j] \in Nat \ {0}
    BY Ranks DEF Jobs
  <2>3. \A j \in Jobs \ {"qualify"} :
            Through([output'[r] EXCEPT ![j] = attempt[r]], Rank[j]) = Through([output[r] EXCEPT ![j] = attempt[r]], Rank[j])
    <3> SUFFICES ASSUME NEW j \in Jobs \ {"qualify"}
                 PROVE  Through([output'[r] EXCEPT ![j] = attempt[r]], Rank[j])
                            = Through([output[r] EXCEPT ![j] = attempt[r]], Rank[j])
      OBVIOUS
    <3> DEFINE new == [output'[r] EXCEPT ![j] = attempt[r]]
               old == [output[r] EXCEPT ![j] = attempt[r]]
    <3>1. \A s \in Stages : Rank[s] <= Rank[j] => new[s] = old[s]
      BY <2>1
    <3>2. Rank[j] \in Nat \ {0}
      BY <2>2
    <3> HIDE DEF new, old
    <3>3. Through(new, Rank[j]) = Through(old, Rank[j])
      BY <3>1, <3>2, ThroughSame
    <3>4. QED BY <3>3 DEF new, old
  <2>4. \A j \in Jobs \ {"qualify"} : Through(output'[r], Rank[j]) = Through(output[r], Rank[j])
    BY <1>4, <2>2, ThroughSame
  <2>5. \A j \in Jobs \ {"qualify"} : Making(r, j)' = Making(r, j)
    BY <1>1, <2>3 DEF Making, Through
  <2>6. \A j \in Stages : Made(r, j)' = Made(r, j)
    BY <2>4 DEF Made, Through, Stages, Jobs
  <2>7. QED BY <1>1, <2>5, <2>6 DEF Current
<1>6. OutputsInOrder(r)'
  BY <1>1, <1>2, <1>4, <1>5 DEF RunInv, OutputsInOrder
<1>7. OutputsFromSuccess(r)'
  BY <1>1, <1>4, <1>5 DEF RunInv, OutputsFromSuccess, Stages
<1>8. OutputsKept(r)'
  <2>1. \A role \in Roles \ {"signature"} : Maker(role) \in Stages
    BY Makers DEF Roles, Stages
  <2>2. QED BY <1>1, <1>4, <1>5, <2>1 DEF RunInv, OutputsKept, SourceImage, SdkImage, Stages
<1>9. ArtifactsOfOutputs(r)'
  <2>1. \A a \in artifacts : Maker(a.role) \in Jobs \ {"qualify"} /\ (Maker(a.role) # "sign" => Maker(a.role) \in Stages)
    BY Makers DEF CandidateTypeOK, Artifact, Roles, Stages, Jobs
  <2>2. QED BY <1>1, <1>4, <1>5, <2>1 DEF RunInv, ArtifactsOfOutputs
<1>10. Progress(r)'
  <2>1. Current(r) = "sign"
    BY <1>1, JobsOfSteps DEF Current
  <2>2. output'[r]["source"] = output[r]["source"] /\ output'[r]["sdk"] = output[r]["sdk"]
    BY <1>4 DEF Stages
  <2>3. QED BY <1>1, <1>5, <2>1, <2>2 DEF RunInv, Progress, SourceImage, SdkImage, Jobs
<1>11. QED BY <1>6, <1>7, <1>8, <1>9, <1>10 DEF RunInv

\* The last step of a job is after all of its uploads.
LEMMA LastSteps ==
    /\ \A job \in Jobs : JobOf(job) = job
    /\ \A job \in Stages : job # First[job]
    /\ \A role \in Roles : Maker(role) \in After(role)
    /\ \A role \in Roles, job \in Jobs : job \in After(role) => Maker(role) = job
<1>1. \A job \in Jobs : JobOf(job) = job
  BY JobsOfSteps DEF Jobs
<1>2. \A job \in Stages : job # First[job]
  BY Firsts DEF Stages
<1>3. \A role \in Roles : Maker(role) \in After(role)
  BY Makers, Afters DEF Roles
<1>4. ASSUME NEW role \in Roles, NEW job \in Jobs, job \in After(role)
      PROVE  Maker(role) = job
  <2>1. CASE role = "identity"
    BY <2>1, <1>4, Makers, Afters DEF Jobs
  <2>2. CASE role # "identity"
    BY <2>2, <1>4, Makers, Afters DEF Roles
  <2>3. QED BY <2>1, <2>2
<1>5. QED BY <1>1, <1>2, <1>3, <1>4

LEMMA NextJob ==
    ASSUME NEW job \in Jobs \ {"sign"}
    PROVE  /\ JobOf(First[Following[job]]) = Following[job]
           /\ Rank[Following[job]] = Rank[job] + 1
           /\ First[Following[job]] \in {"push source", "push sdk", "build probes", "run probes", "sign sdk"}
<1>1. Following[job] \in {"source", "sdk", "publish", "native", "sign"}
  BY Followings DEF Jobs
<1>2. JobOf(First[Following[job]]) = Following[job]
  BY <1>1, JobsOfSteps, Firsts
<1>3. Rank[Following[job]] = Rank[job] + 1
  BY Followings, Ranks DEF Jobs
<1>4. First[Following[job]] \in {"push source", "push sdk", "build probes", "run probes", "sign sdk"}
  BY <1>1, Firsts
<1>5. QED BY <1>2, <1>3, <1>4

LEMMA FinishQualify ==
    ASSUME CandidateTypeOK, NEW r \in Runs, RunInv(r), Finish(r, "qualify")
    PROVE  RunInv(r)'
<1>1. /\ step[r] = "qualify" /\ attempt[r] \in Nat /\ status'[r] = "running"
      /\ step'[r] = First[Following["qualify"]]
      /\ UNCHANGED <<attempt, lineage, artifacts, images, signed, expired>>
      /\ succeeded' = succeeded \cup
            {[job |-> "qualify", run |-> r, attempt |-> attempt[r], lineage |-> lineage[r]]}
  BY DEF Finish, FinishAs, At, Goto, stored, CandidateTypeOK, RunTypeOK
<1>2. output[r] \in [Jobs -> Nat] /\ output'[r] = [output[r] EXCEPT !["qualify"] = attempt[r]]
  BY DEF Finish, FinishAs, CandidateTypeOK
<1>3. /\ \A j \in Stages : output'[r][j] = output[r][j]
      /\ \A j \in Jobs : output'[r][j] = output[r][j] \/ output'[r][j] = attempt[r]
  BY <1>2 DEF Stages, Jobs
<1>4. Current(r) = "qualify" /\ Current(r)' = "source"
  BY <1>1, JobsOfSteps, Firsts, Followings DEF Current
<1>5. \A j \in Stages : output[r][j] = 0
  BY <1>4, Ranks DEF RunInv, OutputsInOrder, Stages
<1>6. \A a \in artifacts : a.run = r => a.attempt # attempt[r] /\ 1 <= a.attempt /\ a.attempt <= attempt[r]
  <2>1. \A role \in Roles : ~ (Rank[Maker(role)] < Rank[Current(r)]) /\ step[r] \notin After(role)
    <3>1. \A role \in Roles : Maker(role) \in {"source", "sdk", "publish", "native", "sign"}
      BY Makers DEF Roles
    <3>2. \A job \in {"source", "sdk", "publish", "native", "sign"} : ~ (Rank[job] < Rank["qualify"])
      BY Ranks
    <3>3. QED BY <3>1, <3>2, <1>1, <1>4, AtQualify
  <2>2. \A a \in artifacts : a.role \in Roles
    BY DEF CandidateTypeOK, Artifact
  <2>3. QED BY <2>1, <2>2 DEF RunInv, ArtifactsOfOutputs
<1>7. OutputsInOrder(r)'
  BY <1>1, <1>2, <1>3, <1>4, <1>5, Ranks DEF RunInv, OutputsInOrder, Stages
<1>8. OutputsFromSuccess(r)'
  BY <1>1, <1>3, <1>5 DEF RunInv, OutputsFromSuccess, Stages
<1>9. \A role \in Roles \ {"signature"} : Maker(role) \in Stages
  BY Makers DEF Roles, Stages
<1>10. OutputsKept(r)'
  BY <1>1, <1>3, <1>5, <1>9 DEF OutputsKept, Stages
<1>11. ArtifactsOfOutputs(r)'
  <2>1. \A a \in artifacts : Maker(a.role) # "sign" => Maker(a.role) \in Stages
    BY <1>9, Makers DEF CandidateTypeOK, Artifact
  <2>2. \A a \in artifacts : a.run = r /\ Maker(a.role) # "sign" => a.attempt # output'[r][Maker(a.role)]
    BY <1>3, <1>5, <1>6, <2>1
  <2>3. QED BY <1>1, <1>6, <2>2 DEF ArtifactsOfOutputs
<1>12. Progress(r)'
  <2>1. step'[r] = "push source" /\ First[Current(r)'] = step'[r]
    BY <1>1, <1>4, Firsts, Followings
  <2>2. \A role \in Roles : step'[r] \notin After(role)
    BY <2>1, Afters DEF Roles
  <2>3. attempt[r] # 0
    BY DEF Finish, FinishAs, At, RunInv, Progress
  <2>4. QED BY <1>1, <2>1, <2>2, <2>3 DEF Progress, Current
<1>13. QED BY <1>7, <1>8, <1>10, <1>11, <1>12 DEF RunInv
LEMMA StageRanks ==
    /\ \A j \in Stages : Rank[j] \in 1 .. 4 /\ j \in Jobs /\ j # "qualify" /\ j # "sign"
    /\ \A j, k \in Stages : Rank[j] = Rank[k] => j = k
    /\ \A role \in Roles : Maker(role) \in Stages \/ (role = "signature" /\ Maker(role) = "sign")
<1>1. \A j \in Stages : Rank[j] \in 1 .. 4 /\ j \in Jobs /\ j # "qualify" /\ j # "sign"
  BY Ranks DEF Stages, Jobs
<1>2. \A j, k \in Stages : Rank[j] = Rank[k] => j = k
  BY Ranks DEF Stages
<1>3. \A role \in Roles : Maker(role) \in Stages \/ (role = "signature" /\ Maker(role) = "sign")
  <2>1. \A role \in Roles \ {"signature"} : Maker(role) \in Stages
    BY Makers DEF Stages, Roles
  <2>2. Maker("signature") = "sign"
    BY Makers
  <2>3. QED BY <2>1, <2>2
<1>4. QED BY <1>1, <1>2, <1>3

\* The outputs of a job that succeeds describe what it has just made.
LEMMA FinishStage ==
    ASSUME CandidateTypeOK, NEW r \in Runs, RunInv(r), NEW job \in Stages, Finish(r, job)
    PROVE  RunInv(r)'
<1> DEFINE success == [job |-> job, run |-> r, attempt |-> attempt[r], lineage |-> Making(r, job)]
<1>1. /\ step[r] = job /\ attempt[r] \in Nat /\ status'[r] = "running"
      /\ step'[r] = First[Following[job]]
      /\ UNCHANGED <<attempt, lineage, artifacts, images, signed, expired>>
      /\ succeeded' = succeeded \cup
            {[job |-> job, run |-> r, attempt |-> attempt[r], lineage |-> lineage[r]]}
  BY DEF Finish, FinishAs, At, Goto, stored, CandidateTypeOK, RunTypeOK, Stages
<1>2. output[r] \in [Jobs -> Nat] /\ output'[r] = [output[r] EXCEPT ![job] = attempt[r]]
  BY DEF Finish, FinishAs, CandidateTypeOK
<1>3. output'[r][job] = attempt[r] /\ \A j \in Jobs \ {job} : output'[r][j] = output[r][j]
  BY <1>2 DEF Stages, Jobs
<1>4. Current(r) = job /\ Current(r)' = Following[job] /\ Rank[Current(r)'] = Rank[job] + 1
  <2>1. job \in Jobs \ {"sign"}
    BY StageRanks
  <2>2. JobOf(job) = job /\ JobOf(First[Following[job]]) = Following[job] /\ Rank[Following[job]] = Rank[job] + 1
    BY <2>1, LastSteps, NextJob
  <2>3. QED BY <1>1, <2>2 DEF Current
<1>a. attempt[r] # 0
  BY DEF Finish, FinishAs, At, RunInv, Progress
<1>5. \A j \in Stages : output[r][j] # 0 <=> Rank[j] < Rank[job]
  BY <1>4 DEF RunInv, OutputsInOrder
<1>6. lineage[r] = Making(r, job)
  BY <1>1, <1>4, LastSteps DEF RunInv, Progress
<1>7. Made(r, job)' = Making(r, job)
  BY <1>1, <1>2 DEF Made, Making, Through
<1>8. \A j \in Stages : Rank[j] < Rank[job] => Made(r, j)' = Made(r, j) /\ Making(r, j)' = Making(r, j)
  <2> SUFFICES ASSUME NEW j \in Stages, Rank[j] < Rank[job]
               PROVE  Made(r, j)' = Made(r, j) /\ Making(r, j)' = Making(r, j)
    OBVIOUS
  <2> DEFINE new == [output'[r] EXCEPT ![j] = attempt[r]]
             old == [output[r] EXCEPT ![j] = attempt[r]]
  <2>1. \A s \in Stages : Rank[s] <= Rank[j] => output'[r][s] = output[r][s] /\ new[s] = old[s]
    BY <1>2, <1>3, StageRanks
  <2>2. Rank[j] \in Nat \ {0}
    BY StageRanks
  <2> HIDE DEF new, old
  <2>3. Through(new, Rank[j]) = Through(old, Rank[j]) /\ Through(output'[r], Rank[j]) = Through(output[r], Rank[j])
    BY <2>1, <2>2, ThroughSame
  <2>4. QED BY <1>1, <2>3 DEF new, old, Made, Making, Through
<1>9. Making(r, job)' = Making(r, job)
  <2> DEFINE new == [output'[r] EXCEPT ![job] = attempt[r]]
             old == [output[r] EXCEPT ![job] = attempt[r]]
  <2>1. new = old
    BY <1>2
  <2>2. QED BY <1>1, <2>1 DEF Making, Through
<1>10. OutputsInOrder(r)'
  <2>1. \A j \in Jobs : output'[r][j] <= attempt'[r]
    BY <1>1, <1>2, <1>3 DEF RunInv, OutputsInOrder
  <2>2. \A j \in Stages : output'[r][j] # 0 <=> Rank[j] < Rank[job] + 1
    BY <1>1, <1>3, <1>5, <1>a, StageRanks
  <2>3. \A j, later \in Stages :
            Rank[j] <= Rank[later] /\ output'[r][later] # 0 => output'[r][j] <= output'[r][later]
    BY <1>1, <1>2, <1>3, <1>5, <2>1, StageRanks DEF RunInv, OutputsInOrder
  <2>4. QED BY <1>1, <1>4, <2>1, <2>2, <2>3 DEF OutputsInOrder, Current
<1>11. OutputsFromSuccess(r)'
  <2>1. success \in succeeded'
    BY <1>1, <1>6
  <2>2. ASSUME NEW j \in Stages, output'[r][j] # 0
        PROVE  [job |-> j, run |-> r, attempt |-> output'[r][j], lineage |-> Made(r, j)'] \in succeeded'
    <3>1. CASE j = job
      BY <3>1, <2>1, <1>3, <1>7
    <3>2. CASE j # job
      BY <3>2, <2>2, <1>1, <1>3, <1>5, <1>8, StageRanks DEF RunInv, OutputsFromSuccess
    <3>3. QED BY <3>1, <3>2
  <2>3. ASSUME NEW e \in succeeded', e.run = r
        PROVE  e.attempt <= attempt[r] /\ (e.job \in Stages /\ output'[r][e.job] # 0 => e.attempt <= output'[r][e.job])
    <3>1. CASE e \in succeeded
      BY <3>1, <2>3, <1>1, <1>3, <1>5, StageRanks DEF RunInv, OutputsFromSuccess
    <3>2. CASE e \notin succeeded
      BY <3>2, <2>3, <1>1, <1>3
    <3>3. QED BY <3>1, <3>2
  <2>4. QED BY <1>1, <2>2, <2>3 DEF OutputsFromSuccess
<1>12. OutputsKept(r)'
  <2>1. ASSUME r \notin expired, NEW role \in Roles \ {"signature"}, output'[r][Maker(role)] # 0
        PROVE  [role |-> role, run |-> r, attempt |-> output'[r][Maker(role)],
                lineage |-> Made(r, Maker(role))'] \in artifacts
    <3>1. CASE Maker(role) = job
      <4>1. step[r] \in After(role)
        BY <3>1, <1>1, LastSteps
      <4>2. QED BY <3>1, <4>1, <2>1, <1>3, <1>6, <1>7 DEF RunInv, Progress
    <3>2. CASE Maker(role) # job
      BY <3>2, <2>1, <1>3, <1>5, <1>8, StageRanks DEF RunInv, OutputsKept
    <3>3. QED BY <3>1, <3>2
  <2>2. output'[r]["source"] # 0 => SourceImage(r, output'[r]["source"]) \in images
    BY <1>1, <1>3 DEF RunInv, OutputsKept, Progress, Jobs
  <2>3. output'[r]["sdk"] # 0 => SdkImage(r, output'[r]["sdk"], output'[r]["source"]) \in images
    <3>1. CASE job = "source"
      BY <3>1, <1>3, <1>5, Ranks DEF Stages, Jobs
    <3>2. CASE job # "source"
      BY <3>2, <1>1, <1>3 DEF RunInv, OutputsKept, Progress, Jobs, Stages
    <3>3. QED BY <3>1, <3>2
  <2>4. QED BY <1>1, <2>1, <2>2, <2>3 DEF OutputsKept, SourceImage, SdkImage
<1>13. ArtifactsOfOutputs(r)'
  <2> SUFFICES ASSUME NEW a \in artifacts, a.run = r
               PROVE  /\ 1 <= a.attempt /\ a.attempt <= attempt[r]
                      /\ a.attempt = attempt[r] =>
                            /\ a.lineage = Making(r, Maker(a.role))'
                            /\ Rank[Maker(a.role)] < Rank[job] + 1
                      /\ Maker(a.role) # "sign" /\ a.attempt = output'[r][Maker(a.role)] =>
                            a.lineage = Made(r, Maker(a.role))'
    BY <1>1, <1>4 DEF ArtifactsOfOutputs, Current
  <2> DEFINE maker == Maker(a.role)
  <2>1. a.role \in Roles /\ (maker \in Stages \/ maker = "sign")
    BY StageRanks DEF CandidateTypeOK, Artifact
  <2>2. 1 <= a.attempt /\ a.attempt <= attempt[r]
    BY DEF RunInv, ArtifactsOfOutputs
  <2>3. ASSUME a.attempt = attempt[r]
        PROVE  a.lineage = Making(r, maker)' /\ Rank[maker] < Rank[job] + 1 /\ maker \in Stages
    <3>1. a.lineage = Making(r, maker) /\ (Rank[maker] < Rank[job] \/ job \in After(a.role))
      BY <2>3, <1>1, <1>4 DEF RunInv, ArtifactsOfOutputs
    <3>2. Rank[maker] < Rank[job] \/ maker = job
      BY <3>1, <2>1, LastSteps, StageRanks
    <3>3. maker # "sign"
      BY <3>2, Ranks, StageRanks
    <3>4. QED BY <3>1, <3>2, <3>3, <2>1, <1>8, <1>9, StageRanks
  <2>4. ASSUME maker # "sign", a.attempt = output'[r][maker] PROVE a.lineage = Made(r, maker)'
    <3>1. CASE maker = job
      BY <3>1, <2>3, <2>4, <1>3, <1>7, <1>9
    <3>2. CASE maker # job
      <4>1. a.attempt = output[r][maker] /\ output[r][maker] # 0
        BY <3>2, <2>1, <2>2, <2>4, <1>3, StageRanks
      <4>2. QED BY <4>1, <2>1, <2>4, <1>5, <1>8 DEF RunInv, ArtifactsOfOutputs
    <3>3. QED BY <3>1, <3>2
  <2>5. QED BY <2>2, <2>3, <2>4
<1>14. Progress(r)'
  <2>1. First[Current(r)'] = step'[r]
    BY <1>1, <1>4
  <2>2. step'[r] \in {"push source", "push sdk", "build probes", "run probes", "sign sdk"}
    BY <1>1, NextJob, StageRanks
  <2>3. \A role \in Roles : step'[r] \notin After(role)
    BY <2>2, Afters DEF Roles
  <2>4. status[r] # "none"
    BY DEF Finish, FinishAs, At
  <2>5. QED BY <1>1, <2>1, <2>2, <2>3, <2>4 DEF RunInv, Progress, Current
<1>15. QED BY <1>10, <1>11, <1>12, <1>13, <1>14 DEF RunInv
-----------------------------------------------------------------------------
(***************************************************************************)
(* The run that makes the step: inside a job                               *)
(***************************************************************************)
LEMMA AdvanceKeeps ==
    ASSUME CandidateTypeOK, NEW r \in Runs, RunInv(r), NEW where, NEW next, NEW made,
           Advance(r, where, next, made), JobOf(where) = JobOf(next),
           artifacts \subseteq artifacts', images \subseteq images'
    PROVE  /\ OutputsInOrder(r)' /\ OutputsFromSuccess(r)' /\ OutputsKept(r)'
           /\ \A job : Making(r, job)' = Making(r, job) /\ Made(r, job)' = Made(r, job)
           /\ Current(r) = JobOf(where) /\ Current(r)' = JobOf(where)
           /\ step[r] = where /\ step'[r] = next /\ lineage'[r] = made
           /\ status'[r] = "running" /\ attempt[r] # 0
           /\ UNCHANGED <<status, attempt, output, expired, succeeded>>
<1>1. /\ step[r] = where /\ step'[r] = next /\ lineage'[r] = made /\ status'[r] = "running"
      /\ UNCHANGED <<status, attempt, output, expired, succeeded>>
  BY DEF Advance, At, Goto, CandidateTypeOK
<1>2. attempt[r] # 0
  BY <1>1 DEF RunInv, Progress
<1>3. /\ \A job : Making(r, job)' = Making(r, job) /\ Made(r, job)' = Made(r, job)
      /\ Current(r) = JobOf(where) /\ Current(r)' = JobOf(where)
  BY <1>1 DEF Making, Made, Through, Current
<1>4. OutputsInOrder(r)' /\ OutputsFromSuccess(r)'
  BY <1>1, <1>3 DEF RunInv, OutputsInOrder, OutputsFromSuccess
<1>5. OutputsKept(r)'
  BY <1>1, <1>3 DEF RunInv, OutputsKept, SourceImage, SdkImage
<1>6. QED BY <1>1, <1>2, <1>3, <1>4, <1>5

\* Steps at which the job has uploaded nothing yet.
Before == {"push source", "seal source", "push sdk", "seal sdk", "build probes", "stage identity",
           "run probes", "stage evidence", "sign sdk", "sign source", "upload"}

LEMMA NothingBefore == \A role \in Roles : After(role) \cap Before = {}
BY Afters DEF Roles, Before

LEMMA AdvanceWithoutUpload ==
    ASSUME CandidateTypeOK, NEW r \in Runs, RunInv(r), NEW where \in Before, NEW next \in Before,
           Advance(r, where, next, Making(r, JobOf(where))), JobOf(where) = JobOf(next),
           UNCHANGED artifacts, images \subseteq images',
           next = "seal source" => SourceImage(r, attempt[r]) \in images',
           next = "seal sdk" => SdkImage(r, attempt[r], output[r]["source"]) \in images',
           next \in {"sign source", "upload"} => SdkImage(r, output[r]["sdk"], output[r]["source"]) \in signed',
           next = "upload" => SourceImage(r, output[r]["source"]) \in signed'
    PROVE  RunInv(r)'
<1>1. /\ OutputsInOrder(r)' /\ OutputsFromSuccess(r)' /\ OutputsKept(r)'
      /\ \A job : Making(r, job)' = Making(r, job) /\ Made(r, job)' = Made(r, job)
      /\ Current(r) = JobOf(where) /\ Current(r)' = JobOf(where)
      /\ step[r] = where /\ step'[r] = next /\ lineage'[r] = Making(r, JobOf(where))
      /\ status'[r] = "running" /\ attempt[r] # 0
      /\ UNCHANGED <<status, attempt, output, expired, succeeded>>
  BY AdvanceKeeps
<1>2. ArtifactsOfOutputs(r)'
  <2>1. \A a \in artifacts : a.role \in Roles
    BY DEF CandidateTypeOK, Artifact
  <2>2. \A a \in artifacts : where \notin After(a.role)
    BY <2>1, NothingBefore
  <2>3. QED BY <1>1, <2>2 DEF RunInv, ArtifactsOfOutputs
<1>3. Progress(r)'
  <2>1. \A role \in Roles : next \notin After(role)
    BY NothingBefore
  <2>2. next \notin {"source", "sdk", "sign"}
    BY DEF Before
  <2>3. QED BY <1>1, <2>1, <2>2 DEF Progress, SourceImage, SdkImage
<1>4. QED BY <1>1, <1>2, <1>3 DEF RunInv

LEMMA UploadFacts ==
    ASSUME NEW where, NEW role, NEW next, Uploads(where, role, next)
    PROVE  /\ JobOf(where) = Maker(role) /\ JobOf(next) = Maker(role) /\ next \in After(role)
           /\ \A other \in Roles : next \in After(other) => other = role \/ where \in After(other)
<1>1. CASE where = "seal source" /\ role = "source checkpoint" /\ next = "source"
  <2>1. \A other \in Roles : next \in After(other) => other = role
    BY <1>1, Afters DEF Roles
  <2>2. QED BY <1>1, <2>1, JobsOfSteps, Makers, Afters
<1>2. CASE where = "seal sdk" /\ role = "sdk checkpoint" /\ next = "sdk"
  <2>1. \A other \in Roles : next \in After(other) => other = role
    BY <1>2, Afters DEF Roles
  <2>2. QED BY <1>2, <2>1, JobsOfSteps, Makers, Afters
<1>3. CASE where = "stage identity" /\ role = "identity" /\ next = "stage probes"
  <2>1. \A other \in Roles : next \in After(other) => other = role
    BY <1>3, Afters DEF Roles
  <2>2. QED BY <1>3, <2>1, JobsOfSteps, Makers, Afters
<1>4. CASE where = "stage probes" /\ role = "probes" /\ next = "publish"
  <2>1. \A other \in Roles : next \in After(other) => other = role \/ other = "identity"
    BY <1>4, Afters DEF Roles
  <2>2. QED BY <1>4, <2>1, JobsOfSteps, Makers, Afters
<1>5. CASE where = "stage evidence" /\ role = "evidence" /\ next = "native"
  <2>1. \A other \in Roles : next \in After(other) => other = role
    BY <1>5, Afters DEF Roles
  <2>2. QED BY <1>5, <2>1, JobsOfSteps, Makers, Afters
<1>6. CASE where = "upload" /\ role = "signature" /\ next = "sign"
  <2>1. \A other \in Roles : next \in After(other) => other = role
    BY <1>6, Afters DEF Roles
  <2>2. QED BY <1>6, <2>1, JobsOfSteps, Makers, Afters
<1>7. QED BY <1>1, <1>2, <1>3, <1>4, <1>5, <1>6 DEF Uploads

LEMMA DeliveredOwn ==
    ASSUME CandidateTypeOK, NEW r \in Runs, RunInv(r), Delivered(r)
    PROVE  RunInv(r)'
<1>1. PICK where \in Steps, next \in Steps, role \in Roles :
        /\ Uploads(where, role, next)
        /\ Advance(r, where, next, Making(r, Maker(role)))
        /\ artifacts' = artifacts \cup {[role |-> role, run |-> r, attempt |-> attempt[r],
                                         lineage |-> Making(r, Maker(role))]}
        /\ UNCHANGED <<images, signed>>
  BY DEF Delivered
<1> DEFINE new == [role |-> role, run |-> r, attempt |-> attempt[r], lineage |-> Making(r, Maker(role))]
<1>2. JobOf(where) = Maker(role) /\ JobOf(next) = Maker(role) /\ next \in After(role)
  BY <1>1, UploadFacts
<1>3. /\ OutputsInOrder(r)' /\ OutputsFromSuccess(r)' /\ OutputsKept(r)'
      /\ \A job : Making(r, job)' = Making(r, job) /\ Made(r, job)' = Made(r, job)
      /\ Current(r) = Maker(role) /\ Current(r)' = Maker(role)
      /\ step[r] = where /\ step'[r] = next /\ lineage'[r] = Making(r, Maker(role))
      /\ status'[r] = "running" /\ attempt[r] # 0
      /\ UNCHANGED <<status, attempt, output, expired, succeeded>>
  BY <1>1, <1>2, AdvanceKeeps
<1>4. lineage[r] = Making(r, Maker(role))
  <2>1. where # First[Maker(role)]
    BY <1>1, Firsts, Makers DEF Uploads
  <2>2. QED BY <2>1, <1>3 DEF RunInv, Progress
<1>5. \A other \in Roles : next \in After(other) => other = role \/ where \in After(other)
  BY <1>1, UploadFacts
<1>6. \A other \in Roles : where \in After(other) => next \in After(other)
  <2>1. \A other \in Roles : "stage probes" \in After(other) => other = "identity"
    BY Afters DEF Roles
  <2>2. where \in Before \/ (where = "stage probes" /\ next = "publish")
    BY <1>1 DEF Uploads, Before
  <2>3. QED BY <2>1, <2>2, NothingBefore, Afters
<1>7. ArtifactsOfOutputs(r)'
  <2>1. ASSUME NEW a \in artifacts, a.run = r
        PROVE  /\ 1 <= a.attempt /\ a.attempt <= attempt'[r]
               /\ a.attempt = attempt'[r] =>
                    /\ a.lineage = Making(r, Maker(a.role))'
                    /\ Rank[Maker(a.role)] < Rank[Current(r)'] \/ step'[r] \in After(a.role)
               /\ Maker(a.role) # "sign" /\ a.attempt = output'[r][Maker(a.role)] =>
                    a.lineage = Made(r, Maker(a.role))'
    <3>1. a.role \in Roles
      BY DEF CandidateTypeOK, Artifact
    <3>2. QED BY <2>1, <3>1, <1>3, <1>6 DEF RunInv, ArtifactsOfOutputs
  <2>2. Maker(role) # "sign" => output[r][Maker(role)] = 0
    <3>1. Maker(role) # "sign" => Maker(role) \in Stages
      BY StageRanks
    <3>2. QED BY <3>1, <1>3, StageRanks DEF RunInv, OutputsInOrder
  <2>3. 1 <= attempt[r] /\ attempt[r] <= attempt[r]
    BY <1>3 DEF CandidateTypeOK, RunTypeOK
  <2>4. /\ new.role = role /\ new.attempt = attempt[r] /\ new.lineage = Making(r, Maker(role))
        /\ \A a \in artifacts' : a \in artifacts \/ a = new
    BY <1>1
  <2> HIDE DEF new
  <2>5. QED BY <2>1, <2>2, <2>3, <2>4, <1>2, <1>3 DEF ArtifactsOfOutputs
<1>8. Progress(r)'
  <2>1. \A other \in Roles : next \in After(other) /\ r \notin expired =>
            [role |-> other, run |-> r, attempt |-> attempt[r], lineage |-> Making(r, Maker(role))] \in artifacts'
    BY <1>1, <1>3, <1>4, <1>5 DEF RunInv, Progress
  <2>2. /\ next = "source" => SourceImage(r, attempt[r]) \in images
        /\ next = "sdk" => SdkImage(r, attempt[r], output[r]["source"]) \in images
        /\ next = "sign" => /\ SdkImage(r, output[r]["sdk"], output[r]["source"]) \in signed
                            /\ SourceImage(r, output[r]["source"]) \in signed
    BY <1>1, <1>3 DEF Uploads, RunInv, Progress
  <2>3. next \notin {"seal source", "seal sdk", "sign source", "upload"}
    BY <1>1 DEF Uploads
  <2>4. QED BY <1>1, <1>3, <2>1, <2>2, <2>3 DEF Progress, SourceImage, SdkImage
<1>9. QED BY <1>3, <1>7, <1>8 DEF RunInv

LEMMA AdvancedOwn ==
    ASSUME CandidateTypeOK, NEW r \in Runs, RunInv(r), Advanced(r)
    PROVE  RunInv(r)'
<1>1. CASE SourcePushed(r)
  BY <1>1, AdvanceWithoutUpload, JobsOfSteps DEF SourcePushed, Before
<1>2. CASE SdkPushed(r)
  BY <1>2, AdvanceWithoutUpload, JobsOfSteps DEF SdkPushed, Before
<1>3. CASE ProbesMade(r)
  BY <1>3, AdvanceWithoutUpload, JobsOfSteps DEF ProbesMade, Before
<1>4. CASE SdkSigned(r)
  BY <1>4, AdvanceWithoutUpload, JobsOfSteps DEF SdkSigned, Before
<1>5. CASE SourceSigned(r)
  <2>1. step[r] = "sign source"
    BY <1>5 DEF SourceSigned, Advance, At
  <2>2. SdkImage(r, output[r]["sdk"], output[r]["source"]) \in signed
    BY <2>1 DEF RunInv, Progress
  <2>3. QED BY <1>5, <2>2, AdvanceWithoutUpload, JobsOfSteps DEF SourceSigned, Before
<1>6. CASE Delivered(r)
  BY <1>6, DeliveredOwn
<1>7. QED BY <1>1, <1>2, <1>3, <1>4, <1>5, <1>6 DEF Advanced
-----------------------------------------------------------------------------
(***************************************************************************)
(* What all runs have signed and uploaded                                  *)
(***************************************************************************)
LEMMA CurrentSign ==
    ASSUME CandidateTypeOK, NEW r \in Runs, RunInv(r), Current(r) = "sign"
    PROVE  /\ \A job \in Stages : output[r][job] # 0
           /\ \A job \in Stages :
                [job |-> job, run |-> r, attempt |-> output[r][job], lineage |-> Made(r, job)] \in succeeded
           /\ Making(r, "sign") = Made(r, "native")
           /\ \A job \in Stages : Made(r, "native")[job] = output[r][job]
           /\ \A job \in Stages : SamePrefix(Made(r, job), Made(r, "native"), job)
<1>1. \A job \in Stages : output[r][job] # 0
  BY Ranks DEF RunInv, OutputsInOrder, Stages
<1>2. \A job \in Stages :
            [job |-> job, run |-> r, attempt |-> output[r][job], lineage |-> Made(r, job)] \in succeeded
  BY <1>1 DEF RunInv, OutputsFromSuccess
<1>3. output[r] \in [Jobs -> Nat]
  BY DEF CandidateTypeOK
<1>4. Making(r, "sign") = Made(r, "native")
  BY <1>3, MakingIs, MadeIs
<1>5. \A job \in Stages : Made(r, "native")[job] = output[r][job]
  BY MadeIs DEF Stages
<1>6. /\ SamePrefix(Made(r, "source"), Made(r, "native"), "source")
      /\ SamePrefix(Made(r, "sdk"), Made(r, "native"), "sdk")
      /\ SamePrefix(Made(r, "publish"), Made(r, "native"), "publish")
      /\ SamePrefix(Made(r, "native"), Made(r, "native"), "native")
  BY MadeIs, Ranks DEF SamePrefix, Stages
<1>7. QED BY <1>1, <1>2, <1>4, <1>5, <1>6 DEF Stages

LEMMA StepsKeepHistory ==
    ASSUME CandidateTypeOK, NEW r \in Runs,
           \/ Dispatch(r) \/ StatusOnly(r, "running") \/ StatusOnly(r, "failure") \/ Expire(r)
           \/ \E job \in Jobs : Again(r, job) \/ Finish(r, job)
           \/ Advanced(r)
    PROVE  /\ succeeded \subseteq succeeded' /\ images \subseteq images'
           /\ SdkSigned(r) \/ SourceSigned(r) \/ UNCHANGED signed
           /\ Delivered(r) \/ artifacts' \subseteq artifacts
<1>1. CASE \E job \in Jobs : Finish(r, job)
  BY <1>1 DEF Finish, FinishAs, stored
<1>2. CASE Advanced(r)
  <2>1. CASE Delivered(r)
    BY <2>1, <1>2, AdvanceOnlyRun DEF Delivered
  <2>2. CASE SourcePushed(r) \/ SdkPushed(r) \/ ProbesMade(r)
    BY <2>2, <1>2, AdvanceOnlyRun DEF SourcePushed, SdkPushed, ProbesMade
  <2>3. CASE SdkSigned(r) \/ SourceSigned(r)
    BY <2>3, <1>2, AdvanceOnlyRun DEF SdkSigned, SourceSigned
  <2>4. QED BY <1>2, <2>1, <2>2, <2>3 DEF Advanced
<1>3. CASE Dispatch(r) \/ StatusOnly(r, "running") \/ StatusOnly(r, "failure") \/ Expire(r) \/ \E job \in Jobs : Again(r, job)
  BY <1>3 DEF Dispatch, StatusOnly, Expire, Again, stored
<1>4. QED BY <1>1, <1>2, <1>3

LEMMA SignedQualifiedKept ==
    ASSUME CandidateTypeOK, SignedQualified, NEW r \in Runs, RunInv(r),
           succeeded \subseteq succeeded', images \subseteq images',
           SdkSigned(r) \/ SourceSigned(r) \/ UNCHANGED signed
    PROVE  SignedQualified'
<1>1. CASE UNCHANGED signed
  BY <1>1 DEF SignedQualified
<1>2. CASE SdkSigned(r)
  <2> DEFINE new == SdkImage(r, output[r]["sdk"], output[r]["source"])
             native == [job |-> "native", run |-> r, attempt |-> output[r]["native"], lineage |-> Made(r, "native")]
  <2>1. Current(r) = "sign"
    BY <1>2, JobsOfSteps DEF SdkSigned, Advance, At, Current
  <2>2. native \in succeeded' /\ output[r]["sdk"] # 0
    BY <2>1, CurrentSign DEF Stages
  <2>3. new \in images'
    BY <2>2 DEF RunInv, OutputsKept
  <2>4. /\ native.job = "native" /\ native.run = r
        /\ native.lineage.sdk = output[r]["sdk"] /\ native.lineage.source = output[r]["source"]
    BY MadeIs
  <2>5. new.kind = "sdk" /\ new.run = r /\ new.attempt = output[r]["sdk"] /\ new.source = output[r]["source"]
    BY DEF SdkImage
  <2>6. signed' = signed \cup {new}
    BY <1>2 DEF SdkSigned
  <2> HIDE DEF new, native
  <2>7. ASSUME NEW i \in signed'
        PROVE  /\ i \in images'
               /\ i.kind = "sdk" => \E e \in succeeded' : /\ e.job = "native" /\ e.run = i.run
                                                          /\ e.lineage.sdk = i.attempt /\ e.lineage.source = i.source
               /\ i.kind = "source" =>
                    \E sdk \in signed' : sdk.kind = "sdk" /\ sdk.run = i.run /\ sdk.source = i.attempt
    <3>1. CASE i = new
      BY <3>1, <2>2, <2>3, <2>4, <2>5
    <3>2. CASE i \in signed
      BY <3>2, <2>6 DEF SignedQualified
    <3>3. QED BY <3>1, <3>2, <2>6
  <2>8. QED BY <2>7 DEF SignedQualified
<1>3. CASE SourceSigned(r)
  <2> DEFINE new == SourceImage(r, output[r]["source"])
             sdk == SdkImage(r, output[r]["sdk"], output[r]["source"])
  <2>1. step[r] = "sign source" /\ Current(r) = "sign"
    BY <1>3, JobsOfSteps DEF SourceSigned, Advance, At, Current
  <2>2. sdk \in signed
    BY <2>1 DEF RunInv, Progress
  <2>3. new \in images'
    BY <2>1, CurrentSign DEF RunInv, OutputsKept, Stages
  <2>4. /\ sdk.kind = "sdk" /\ sdk.run = r /\ sdk.source = output[r]["source"]
        /\ new.kind = "source" /\ new.run = r /\ new.attempt = output[r]["source"]
    BY DEF SourceImage, SdkImage
  <2>5. signed' = signed \cup {new}
    BY <1>3 DEF SourceSigned
  <2> HIDE DEF new, sdk
  <2>6. ASSUME NEW i \in signed'
        PROVE  /\ i \in images'
               /\ i.kind = "sdk" => \E e \in succeeded' : /\ e.job = "native" /\ e.run = i.run
                                                          /\ e.lineage.sdk = i.attempt /\ e.lineage.source = i.source
               /\ i.kind = "source" =>
                    \E s \in signed' : s.kind = "sdk" /\ s.run = i.run /\ s.source = i.attempt
    <3>1. CASE i = new
      BY <3>1, <2>2, <2>3, <2>4, <2>5
    <3>2. CASE i \in signed
      BY <3>2, <2>5 DEF SignedQualified
    <3>3. QED BY <3>1, <3>2, <2>5
  <2>7. QED BY <2>6 DEF SignedQualified
<1>4. QED BY <1>1, <1>2, <1>3

LEMMA LineageKept ==
    ASSUME CandidateTypeOK, LineageFromSuccess, NEW r \in Runs, RunInv(r),
           succeeded \subseteq succeeded', Delivered(r) \/ artifacts' \subseteq artifacts
    PROVE  LineageFromSuccess'
<1>1. CASE artifacts' \subseteq artifacts
  BY <1>1 DEF LineageFromSuccess, SamePrefix
<1>2. CASE Delivered(r)
  <2>1. PICK where \in Steps, next \in Steps, role \in Roles :
        /\ Uploads(where, role, next)
        /\ Advance(r, where, next, Making(r, Maker(role)))
        /\ artifacts' = artifacts \cup {[role |-> role, run |-> r, attempt |-> attempt[r],
                                         lineage |-> Making(r, Maker(role))]}
    BY <1>2 DEF Delivered
  <2> DEFINE new == [role |-> role, run |-> r, attempt |-> attempt[r], lineage |-> Making(r, Maker(role))]
  <2>2. ASSUME role = "signature", NEW stage \in Stages
        PROVE  \E e \in succeeded' : /\ e.job = stage /\ e.run = r /\ e.attempt = new.lineage[stage]
                                     /\ SamePrefix(e.lineage, new.lineage, stage)
    <3> DEFINE made == [job |-> stage, run |-> r, attempt |-> output[r][stage], lineage |-> Made(r, stage)]
    <3>1. Current(r) = "sign"
      BY <2>1, <2>2, JobsOfSteps DEF Uploads, Advance, At, Current
    <3>2. new.lineage = Made(r, "native")
      BY <2>2, <3>1, CurrentSign, Makers
    <3>3. made \in succeeded'
      BY <3>1, CurrentSign
    <3>4. /\ made.job = stage /\ made.run = r /\ made.attempt = new.lineage[stage]
          /\ SamePrefix(made.lineage, new.lineage, stage)
      BY <3>1, <3>2, CurrentSign
    <3> HIDE DEF made, new
    <3>5. QED BY <3>3, <3>4
  <2>3. new.role = role /\ new.run = r /\ artifacts' = artifacts \cup {new}
    BY <2>1
  <2> HIDE DEF new
  <2>4. ASSUME NEW s \in artifacts', s.role = "signature", NEW stage \in Stages
        PROVE  \E e \in succeeded' : /\ e.job = stage /\ e.run = s.run /\ e.attempt = s.lineage[stage]
                                     /\ SamePrefix(e.lineage, s.lineage, stage)
    <3>1. CASE s = new
      BY <3>1, <2>2, <2>3, <2>4
    <3>2. CASE s \in artifacts
      BY <3>2, <2>4 DEF LineageFromSuccess
    <3>3. QED BY <3>1, <3>2, <2>3
  <2>5. QED BY <2>4 DEF LineageFromSuccess, SamePrefix
<1>3. QED BY <1>1, <1>2

LEMMA CandidateInvStep == CandidateInv /\ [CandidateNext]_candidateVars => CandidateInv'
<1> SUFFICES ASSUME CandidateInv, [CandidateNext]_candidateVars PROVE CandidateInv'
  OBVIOUS
<1>a. CandidateTypeOK /\ (\A r \in Runs : RunInv(r)) /\ SignedQualified /\ LineageFromSuccess
  BY DEF CandidateInv
<1>1. CASE CandidateNext
  <2>1. PICK r \in Runs :
              \/ Dispatch(r) \/ StatusOnly(r, "running") \/ StatusOnly(r, "failure") \/ Expire(r)
              \/ \E job \in Jobs : Again(r, job) \/ Finish(r, job)
              \/ Advanced(r)
    BY <1>1, <1>a, CandidateSteps
  <2>2. CandidateTypeOK'
    BY <1>1, <1>a, CandidateNextTypes
  <2>3. RunInv(r)'
    <3>1. CASE \E job \in Jobs : Finish(r, job)
      BY <3>1, <1>a, FinishQualify, FinishStage, FinishSign DEF Jobs, Stages
    <3>2. CASE \E job \in Jobs : Again(r, job)
      BY <3>2, <1>a, AgainOwn
    <3>3. QED BY <2>1, <3>1, <3>2, <1>a, DispatchOwn, StatusOwn, ExpireOwn, AdvancedOwn
  <2>4. ASSUME NEW q \in Runs, q # r PROVE RunInv(q)'
    BY <2>1, <2>4, <1>a, OthersUntouched, OtherRun
  <2>5. /\ succeeded \subseteq succeeded' /\ images \subseteq images'
        /\ SdkSigned(r) \/ SourceSigned(r) \/ UNCHANGED signed
        /\ Delivered(r) \/ artifacts' \subseteq artifacts
    BY <2>1, <1>a, StepsKeepHistory
  <2>6. SignedQualified' /\ LineageFromSuccess'
    BY <2>5, <1>a, SignedQualifiedKept, LineageKept
  <2>7. QED BY <2>2, <2>3, <2>4, <2>6 DEF CandidateInv
<1>2. CASE UNCHANGED candidateVars
  <2>1. CandidateTypeOK'
    BY <1>2, <1>a DEF CandidateTypeOK, RunTypeOK, candidateVars, runState, stored
  <2>2. \A q \in Runs : Untouched(q)
    BY <1>2 DEF candidateVars, runState, stored, Untouched
  <2>3. \A q \in Runs : RunInv(q)'
    BY <1>a, <2>2, OtherRun
  <2>4. SignedQualified' /\ LineageFromSuccess'
    BY <1>2, <1>a DEF candidateVars, runState, stored, SignedQualified, LineageFromSuccess, SamePrefix
  <2>5. QED BY <2>1, <2>3, <2>4 DEF CandidateInv
<1>3. QED BY <1>1, <1>2

LEMMA CandidateInitInv == CandidateInit => CandidateInv
<1> SUFFICES ASSUME CandidateInit PROVE CandidateInv
  OBVIOUS
<1> USE DEF CandidateInit, RunInit
<1>1. CandidateTypeOK
  BY CandidateAssumption DEF CandidateTypeOK, RunTypeOK, Steps, Jobs, NoLineage, Lineage
<1>2. ASSUME NEW r \in Runs PROVE RunInv(r)
  <2>1. /\ status[r] = "none" /\ attempt[r] = 0 /\ step[r] = "qualify" /\ Current(r) = "qualify"
        /\ \A j \in Jobs : output[r][j] = 0
    BY JobsOfSteps DEF Current
  <2>2. \A role \in Roles : Maker(role) \in Jobs
    BY Makers DEF Roles, Jobs
  <2>3. OutputsInOrder(r)
    BY <2>1, Ranks DEF OutputsInOrder, Stages, Jobs
  <2>4. OutputsFromSuccess(r) /\ ArtifactsOfOutputs(r)
    BY <2>1 DEF OutputsFromSuccess, ArtifactsOfOutputs, Stages, Jobs
  <2>5. OutputsKept(r)
    <3>1. output[r]["source"] = 0 /\ output[r]["sdk"] = 0
      BY <2>1 DEF Jobs
    <3>2. QED BY <2>1, <2>2, <3>1 DEF OutputsKept
  <2>6. Progress(r)
    BY <2>1, AtQualify, Firsts DEF Progress
  <2>7. QED BY <2>3, <2>4, <2>5, <2>6 DEF RunInv
<1>3. QED BY <1>1, <1>2 DEF CandidateInv, SignedQualified, LineageFromSuccess
-----------------------------------------------------------------------------
(***************************************************************************)
(* Theorems                                                                *)
(***************************************************************************)
\* Every step keeps the invariant of the runs: what a run will use is what its
\* outputs name, and a job that has succeeded keeps what it has made.
THEOREM CandidateInvariant == CandidateSpec => []CandidateInv
<1>1. QED BY CandidateInitInv, CandidateInvStep, PTL DEF CandidateSpec

\* Whatever is executed again, the state of the runs, what they have stored and
\* the history of their jobs have their types.
THEOREM CandidateTypeCorrect == CandidateSpec => []CandidateTypeOK
<1>1. CandidateInv => CandidateTypeOK
  BY DEF CandidateInv
<1>2. QED BY <1>1, CandidateInvariant, PTL

\* An image bears a signature only if it is what a successful native execution
\* has run (SDK), or what a signed SDK image names (source).
THEOREM OnlyQualifiedSigned == CandidateSpec => []SignedQualified
<1>1. CandidateInv => SignedQualified
  BY DEF CandidateInv
<1>2. QED BY <1>1, CandidateInvariant, PTL

\* Every producer that a signature's document names is a successful execution
\* that read the producers named before it.
THEOREM LineageSucceeded == CandidateSpec => []LineageFromSuccess
<1>1. CandidateInv => LineageFromSuccess
  BY DEF CandidateInv
<1>2. QED BY <1>1, CandidateInvariant, PTL

LEMMA SuccessAtSign ==
    ASSUME CandidateInv, NEW r \in Runs, status[r] = "success"
    PROVE  /\ CandidateTypeOK /\ RunInv(r)
           /\ step[r] = "sign" /\ Current(r) = "sign"
           /\ \A s \in Download(r, "signature", attempt[r]) : s.lineage = Made(r, "native")
<1>1. CandidateTypeOK /\ RunInv(r)
  BY DEF CandidateInv
<1>2. step[r] = "sign" /\ Current(r) = "sign"
  BY <1>1, JobsOfSteps DEF RunInv, Progress, Current
<1>3. \A s \in Download(r, "signature", attempt[r]) : s.lineage = Making(r, "sign")
  BY <1>1, Makers DEF Download, RunInv, ArtifactsOfOutputs
<1>4. QED BY <1>1, <1>2, <1>3, CurrentSign

\* The signature of a run that succeeded is for the newest successful execution
\* of each of its jobs.
THEOREM SignatureIsForLatest == CandidateSpec => []SignatureNamesLatest
<1>1. CandidateInv => SignatureNamesLatest
  <2> SUFFICES ASSUME CandidateInv, NEW r \in Runs, status[r] = "success",
                      NEW s \in Download(r, "signature", attempt[r]), NEW e \in succeeded,
                      e.run = r, e.job \in Stages
               PROVE  e.attempt <= s.lineage[e.job]
    BY DEF SignatureNamesLatest
  <2>1. CandidateTypeOK /\ RunInv(r) /\ Current(r) = "sign" /\ s.lineage = Made(r, "native")
    BY SuccessAtSign
  <2>2. output[r][e.job] # 0 /\ s.lineage[e.job] = output[r][e.job]
    BY <2>1, CurrentSign
  <2>3. QED BY <2>1, <2>2 DEF RunInv, OutputsFromSuccess
<1>2. QED BY <1>1, CandidateInvariant, PTL

\* A run that succeeded has everything promotion asks for, for as long as its
\* artifacts are retained.
THEOREM SuccessPromotable == CandidateSpec => []SuccessIsPromotable
<1>1. CandidateInv => SuccessIsPromotable
  <2> SUFFICES ASSUME CandidateInv, NEW r \in Runs, status[r] = "success", r \notin expired
               PROVE  Acceptable(r)
    BY DEF SuccessIsPromotable
  <2> DEFINE o == output[r]
             lin == Made(r, "native")
             sig == [role |-> "signature", run |-> r, attempt |-> attempt[r], lineage |-> lin]
  <2>1. CandidateTypeOK /\ RunInv(r) /\ step[r] = "sign" /\ Current(r) = "sign"
    BY SuccessAtSign
  <2>2. /\ \A job \in Stages : o[job] # 0 /\ lin[job] = o[job]
        /\ Making(r, "sign") = lin
    BY <2>1, CurrentSign
  <2>3. /\ lin.source = o["source"] /\ lin.sdk = o["sdk"]
        /\ lin.publish = o["publish"] /\ lin.native = o["native"]
    BY <2>2 DEF Stages
  <2>4. sig \in Download(r, "signature", attempt[r])
    <3>1. step[r] # First[Current(r)]
      BY <2>1, Firsts
    <3>2. lineage[r] = lin
      BY <2>1, <2>2, <3>1 DEF RunInv, Progress
    <3>3. sig \in artifacts
      BY <2>1, <3>2, Afters DEF RunInv, Progress, Roles
    <3>4. QED BY <3>3 DEF Download
  <2>5. Ordered(r, lin)
    <3>1. /\ o["source"] <= o["sdk"] /\ o["sdk"] <= o["publish"] /\ o["publish"] <= o["native"]
          /\ o["publish"] <= attempt[r] /\ o["native"] <= attempt[r]
      BY <2>1, <2>2, Ranks DEF RunInv, OutputsInOrder, Stages, Jobs
    <3>2. QED BY <2>3, <3>1 DEF Ordered
  <2>6. /\ \E a \in Download(r, "identity", o["publish"]) : a.lineage = Made(r, "publish")
        /\ \E a \in Download(r, "probes", o["publish"]) : a.lineage = Made(r, "publish")
        /\ \E a \in Download(r, "evidence", o["native"]) : a.lineage = lin
    <3>1. ASSUME NEW role \in Roles \ {"signature"}, Maker(role) \in Stages
          PROVE  \E a \in Download(r, role, o[Maker(role)]) : a.lineage = Made(r, Maker(role))
      <4> DEFINE kept == [role |-> role, run |-> r, attempt |-> o[Maker(role)], lineage |-> Made(r, Maker(role))]
      <4>1. kept \in artifacts
        BY <2>1, <2>2, <3>1 DEF RunInv, OutputsKept
      <4>2. kept.role = role /\ kept.run = r /\ kept.attempt = o[Maker(role)] /\ kept.lineage = Made(r, Maker(role))
        OBVIOUS
      <4> HIDE DEF kept
      <4>3. QED BY <4>1, <4>2 DEF Download
    <3>2. QED BY <3>1, Makers DEF Roles, Stages
  <2>7. /\ SameCandidate(Made(r, "publish"), lin) /\ Made(r, "publish").publish = lin.publish
        /\ SameCandidate(lin, lin)
    BY MadeIs DEF SameCandidate
  <2>8. /\ SdkImage(r, o["sdk"], o["source"]) \in images \cap signed
        /\ SourceImage(r, o["source"]) \in images \cap signed
    BY <2>1, <2>2 DEF RunInv, OutputsKept, Progress, Stages
  <2>9. sig.lineage = lin
    OBVIOUS
  <2> HIDE DEF sig, lin
  <2>10. \A role \in {"identity", "probes", "evidence"} :
            \E a \in Download(r, role, IF role = "evidence" THEN lin.native ELSE lin.publish) :
                SameCandidate(a.lineage, lin) /\ a.lineage.publish = lin.publish
    BY <2>3, <2>6, <2>7
  <2>11. SignedImage(r, lin) \in images \cap signed /\ SourceImage(r, lin.source) \in images \cap signed
    BY <2>3, <2>8 DEF SignedImage
  <2>12. QED BY <2>4, <2>5, <2>9, <2>10, <2>11 DEF Acceptable
<1>2. QED BY <1>1, CandidateInvariant, PTL

-----------------------------------------------------------------------------
(***************************************************************************)
(* Requests: the inductive invariant                                       *)
(***************************************************************************)
\* Nothing waits, and nothing is under way, in a group that is free.
GroupFree ==
    /\ event = NoEvent => waiting = NoEvent /\ phase = "checkout"
    /\ phase = "dispatch" => candidate \in Runs

RequestInv == RequestTypeOK /\ GroupFree /\ NoRequestLost

LEMMA EventsAreEvents ==
    /\ NoEvent \notin Event
    /\ \A tag \in Tags : [kind |-> "push", tag |-> tag] \in Event
    /\ \A r \in Runs, c \in {"success", "failure"} :
          [kind |-> "completed", run |-> r, conclusion |-> c] \in Event
<1>1. ASSUME NEW e \in Event PROVE e # NoEvent
  <2>1. "kind" \in DOMAIN e
    BY DEF Event
  <2>2. DOMAIN NoEvent = {}
    BY DEF NoEvent
  <2>. QED BY <2>1, <2>2
<1>. QED BY <1>1 DEF Event

\* The steps of the requests, with what they change.
LEMMA RequestSteps ==
    ASSUME RequestNext
    PROVE  \/ \E tag \in Tags : PushTag(tag)
           \/ \E r \in Runs : RunMoves(r) \/ Complete(r, "success") \/ Complete(r, "failure")
           \/ Checkout \/ Validate \/ Select \/ DispatchPromotion \/ Over
           \/ RequestDies
           \/ \E e \in died \cup replaced : RerunRequest(e)
BY DEF RequestNext, RequestStep

LEMMA RunsTyped ==
    ASSUME RunTypeOK, NEW r \in Runs,
           DispatchRun(r) \/ StartRun(r) \/ RepeatRun(r) \/ ConcludeRun(r, "success")
              \/ ConcludeRun(r, "failure")
    PROVE  RunTypeOK'
BY DEF RunTypeOK, DispatchRun, StartRun, RepeatRun, ConcludeRun, Queue, Completed

\* An event that arrives leaves a group of events.
LEMMA JoinTypes ==
    ASSUME RequestTypeOK, GroupFree, NEW e \in Event, Join(e)
    PROVE  /\ waiting' \in Event \cup {NoEvent} /\ event' \in Event \cup {NoEvent}
           /\ replaced' \subseteq Event /\ UNCHANGED <<phase, candidate>>
           /\ event' # NoEvent
BY EventsAreEvents DEF Join, RequestTypeOK, GroupFree

LEMMA RequestTypes ==
    ASSUME RequestTypeOK, GroupFree, [RequestNext]_requestVars
    PROVE  RequestTypeOK' /\ GroupFree'
<1>. USE DEF RequestTypeOK, GroupFree
<1>1. CASE \E tag \in Tags : PushTag(tag)
  <2>1. RunTypeOK'
    BY <1>1 DEF PushTag, RunTypeOK
  <2>. QED BY <1>1, <2>1, EventsAreEvents, JoinTypes DEF PushTag
<1>2. CASE \E r \in Runs : RunMoves(r)
  <2>1. RunTypeOK'
    BY <1>2, RunsTyped DEF RunMoves
  <2>2. setbacks' \in 0 .. MaxSetbacks
    BY <1>2, RequestAssumption DEF RunMoves
  <2>. QED BY <1>2, <2>1, <2>2 DEF RunMoves, request
<1>3. ASSUME NEW r \in Runs, NEW c \in {"success", "failure"}, Complete(r, c)
      PROVE  RequestTypeOK' /\ GroupFree'
  <2>1. RunTypeOK'
    BY <1>3, RunsTyped DEF Complete
  <2>. QED BY <1>3, <2>1, EventsAreEvents, JoinTypes DEF Complete
<1>4. CASE Checkout \/ Validate \/ Select
  <2>1. RunTypeOK'
    BY <1>4 DEF Checkout, Validate, Select, RunTypeOK
  <2>. QED BY <1>4, <2>1, EventsAreEvents DEF Checkout, Validate, Select, Proceed
<1>5. CASE DispatchPromotion
  <2>1. RunTypeOK'
    BY <1>5 DEF DispatchPromotion, RunTypeOK
  <2>2. attempt[candidate] \in Nat /\ candidate \in Runs
    BY <1>5 DEF DispatchPromotion, RunTypeOK
  <2>. QED BY <1>5, <2>1, <2>2 DEF DispatchPromotion, Proceed
<1>6. CASE Over
  <2>1. RunTypeOK'
    BY <1>6 DEF Over, RunTypeOK
  <2>. QED BY <1>6, <2>1 DEF Over, End
<1>7. CASE RequestDies
  <2>1. RunTypeOK'
    BY <1>7 DEF RequestDies, RunTypeOK
  <2>2. setbacks' \in 0 .. MaxSetbacks
    BY <1>7, RequestAssumption DEF RequestDies
  <2>3. died' \subseteq Event
    BY <1>7 DEF RequestDies
  <2>. QED BY <1>7, <2>1, <2>2, <2>3 DEF RequestDies, End
<1>8. CASE \E e \in died \cup replaced : RerunRequest(e)
  <2>1. RunTypeOK'
    BY <1>8 DEF RerunRequest, RunTypeOK
  <2>. QED BY <1>8, <2>1, EventsAreEvents, JoinTypes DEF RerunRequest
<1>9. CASE UNCHANGED requestVars
  BY <1>9 DEF requestVars, request, RunTypeOK
<1>. QED BY <1>1, <1>2, <1>3, <1>4, <1>5, <1>6, <1>7, <1>8, <1>9, RequestSteps

\* A workflow that will ask for the promotion of that run, or would if it were
\* executed again.
Pending(r) ==
    \/ /\ event # NoEvent /\ WillAsk(event, r) /\ phase # "over"
       /\ phase = "dispatch" => candidate = r
    \/ waiting # NoEvent /\ WillAsk(waiting, r)
    \/ \E e \in died \cup replaced : WillAsk(e, r)

\* An event that arrives is the next to run, or runs.
LEMMA JoinedPends ==
    ASSUME RequestTypeOK, GroupFree, NEW r \in Runs, NEW e \in Event, Join(e), WillAsk(e, r)
    PROVE  Pending(r)'
<1>1. CASE event = NoEvent
  BY <1>1, EventsAreEvents DEF Join, GroupFree, Pending, WillAsk
<1>2. CASE event # NoEvent
  BY <1>2, EventsAreEvents DEF Join, Pending, WillAsk
<1>. QED BY <1>1, <1>2

\* An event that arrives sends nothing away that cannot be executed again.
LEMMA JoinKeeps ==
    ASSUME RequestTypeOK, GroupFree, NEW r \in Runs, NEW e \in Event, Join(e),
           died \ {e} \subseteq died', Pending(r)
    PROVE  Pending(r)'
<1>1. CASE WillAsk(e, r)
  BY <1>1, JoinedPends
<1>2. CASE ~WillAsk(e, r)
  <2>1. CASE /\ event # NoEvent /\ WillAsk(event, r) /\ phase # "over"
             /\ phase = "dispatch" => candidate = r
    BY <2>1 DEF Join, Pending, WillAsk
  <2>2. CASE waiting # NoEvent /\ WillAsk(waiting, r)
    <3>1. event # NoEvent /\ ~Skipped(waiting)
      BY <2>2 DEF GroupFree, WillAsk, Skipped
    <3>2. waiting \in replaced'
      BY <2>2, <3>1 DEF Join
    <3>. QED BY <2>2, <3>2 DEF Pending, WillAsk
  <2>3. CASE \E o \in died \cup replaced : WillAsk(o, r)
    <3>1. PICK o \in died \cup replaced : WillAsk(o, r)
      BY <2>3
    <3>2. o # e /\ replaced \ {e} \subseteq replaced'
      BY <1>2, <3>1 DEF Join
    <3>3. o \in (died \cup replaced)'
      BY <3>1, <3>2
    <3>. QED BY <3>1, <3>3 DEF Pending, WillAsk
  <2>. QED BY <2>1, <2>2, <2>3 DEF Pending
<1>. QED BY <1>1, <1>2

\* The workflow that waits runs next, from the start.
LEMMA WaitingRuns ==
    ASSUME NEW r, End, waiting # NoEvent /\ WillAsk(waiting, r)
    PROVE  Pending(r)'
BY DEF End, Pending, WillAsk

\* What will ask goes on to ask, unless it dies.
LEMMA AskingGoesOn ==
    ASSUME RequestTypeOK, NEW r \in Runs, Releasable(r, attempt[r]),
           event # NoEvent, WillAsk(event, r), Checkout \/ Validate \/ Select
    PROVE  /\ UNCHANGED <<event, waiting>> /\ phase' # "over"
           /\ phase' = "dispatch" => candidate' = r
<1>. USE RunsAssumption DEF RequestTypeOK, Proceed
<1>1. CASE Checkout
  <2>1. ~Skipped(event) /\ Stables(event) = {Stable}
    BY DEF Skipped, Stables, WillAsk, Releasable
  <2>. QED BY <1>1, <2>1 DEF Checkout
<1>2. CASE Validate
  <2>1. event.kind = "completed" => status[event.run] = "success"
    BY DEF WillAsk, Releasable
  <2>. QED BY <1>2, <2>1 DEF Validate
<1>3. CASE Select
  <2>1. Newest(r) /\ status[r] = "success"
    BY DEF Releasable
  <2>2. \A other \in Runs : Newest(other) => other = r
    BY <2>1 DEF Newest, Dispatched
  <2>. QED BY <1>3, <2>1, <2>2 DEF Select
<1>. QED BY <1>1, <1>2, <1>3

\* A run that moves makes no other one releasable.
LEMMA MovesRelease ==
    ASSUME RequestTypeOK, NEW r \in Runs, NEW n \in Runs,
           RunMoves(n) \/ (\E c \in {"success", "failure"} : Complete(n, c) /\ (n # r \/ c # "success")),
           Releasable(r, attempt[r])'
    PROVE  Releasable(r, attempt[r]) /\ attempt'[r] = attempt[r]
<1>. USE DEF RequestTypeOK, RunTypeOK
<1>1. /\ \E q \in {"queued", "running", "success", "failure"} :
             /\ status' = [status EXCEPT ![n] = q]
             /\ n = r => q # "success"
      /\ attempt' \in {attempt, [attempt EXCEPT ![n] = attempt[n] + 1]}
      /\ pushed' = pushed
  BY DEF RunMoves, Complete, DispatchRun, StartRun, RepeatRun, Queue, ConcludeRun
<1>2. n # r
  BY <1>1 DEF Releasable
<1>3. \A other \in Dispatched : other \in Dispatched'
  BY <1>1 DEF Dispatched
<1>4. status[r] = "success" /\ attempt'[r] = attempt[r]
  BY <1>1, <1>2 DEF Releasable
<1>5. Newest(r)
  BY <1>3, <1>4 DEF Releasable, Newest, Dispatched
<1>. QED BY <1>1, <1>4, <1>5 DEF Releasable

LEMMA LostStep ==
    ASSUME RequestInv, [RequestNext]_requestVars
    PROVE  NoRequestLost'
<1>. SUFFICES ASSUME NEW r \in Runs, Releasable(r, attempt[r])', (<<r, attempt[r]>> \notin requested)'
              PROVE  Pending(r)'
  BY DEF NoRequestLost, Pending
<1>. USE DEF RequestInv
<1>0. ASSUME UNCHANGED <<status, attempt, pushed>>, requested \subseteq requested'
      PROVE  Releasable(r, attempt[r]) /\ Pending(r)
  <2>1. Releasable(r, attempt[r]) /\ <<r, attempt[r]>> \notin requested
    BY <1>0 DEF Releasable, Newest, Dispatched
  <2>. QED BY <2>1 DEF NoRequestLost, Pending
<1>1. CASE \E tag \in Tags : PushTag(tag)
  <2>1. PICK tag \in Tags : PushTag(tag)
    BY <1>1
  <2>. DEFINE e == [kind |-> "push", tag |-> tag]
  <2>2. e \in Event
    BY EventsAreEvents
  <2>3. Join(e) /\ UNCHANGED <<status, attempt, requested, died>> /\ pushed' = pushed \cup {tag}
    BY <2>1 DEF PushTag
  <2>4. tag = Stable => WillAsk(e, r)
    BY DEF WillAsk
  <2>5. tag # Stable => Releasable(r, attempt[r]) /\ Pending(r)
    <3>1. tag # Stable => Releasable(r, attempt[r]) /\ <<r, attempt[r]>> \notin requested
      BY <2>3 DEF Releasable, Newest, Dispatched
    <3>. QED BY <3>1 DEF NoRequestLost, Pending
  <2>. HIDE DEF e
  <2>6. CASE tag = Stable
    BY <2>2, <2>3, <2>4, <2>6, JoinedPends
  <2>7. CASE tag # Stable
    BY <2>2, <2>3, <2>5, <2>7, JoinKeeps
  <2>. QED BY <2>6, <2>7
<1>2. CASE \E n \in Runs : RunMoves(n)
  <2>1. PICK n \in Runs : RunMoves(n)
    BY <1>2
  <2>2. Releasable(r, attempt[r]) /\ attempt'[r] = attempt[r]
    BY <2>1, MovesRelease
  <2>3. UNCHANGED <<request, requested, died, replaced>>
    BY <2>1 DEF RunMoves
  <2>4. Pending(r)
    BY <2>2, <2>3 DEF NoRequestLost, Pending
  <2>. QED BY <2>3, <2>4 DEF Pending, WillAsk, request
<1>3. ASSUME NEW n \in Runs, NEW c \in {"success", "failure"}, Complete(n, c)
      PROVE  Pending(r)'
  <2>. DEFINE e == [kind |-> "completed", run |-> n, conclusion |-> c]
  <2>1. e \in Event
    BY EventsAreEvents
  <2>2. Join(e) /\ UNCHANGED <<requested, died>>
    BY <1>3 DEF Complete
  <2>3. n = r /\ c = "success" => WillAsk(e, r)
    BY DEF WillAsk
  <2>4. n # r \/ c # "success" => Pending(r)
    <3>1. n # r \/ c # "success" => Releasable(r, attempt[r]) /\ attempt'[r] = attempt[r]
      BY <1>3, MovesRelease
    <3>. QED BY <2>2, <3>1 DEF NoRequestLost, Pending
  <2>. HIDE DEF e
  <2>5. CASE n = r /\ c = "success"
    BY <2>1, <2>2, <2>3, <2>5, JoinedPends
  <2>6. CASE n # r \/ c # "success"
    BY <2>1, <2>2, <2>4, <2>6, JoinKeeps
  <2>. QED BY <2>5, <2>6
<1>4. CASE Checkout \/ Validate \/ Select
  <2>1. UNCHANGED <<status, attempt, pushed, requested, died, replaced, waiting, event>>
    BY <1>4 DEF Checkout, Validate, Select, Proceed
  <2>2. Releasable(r, attempt[r]) /\ Pending(r)
    BY <1>0, <2>1
  <2>3. CASE event # NoEvent /\ WillAsk(event, r)
    BY <1>4, <2>1, <2>2, <2>3, AskingGoesOn DEF Pending, WillAsk
  <2>4. CASE waiting # NoEvent /\ WillAsk(waiting, r)
    BY <2>1, <2>4 DEF Pending, WillAsk
  <2>5. CASE \E e \in died \cup replaced : WillAsk(e, r)
    BY <2>1, <2>5 DEF Pending, WillAsk
  <2>. QED BY <2>2, <2>3, <2>4, <2>5 DEF Pending
<1>5. CASE DispatchPromotion
  <2>1. /\ UNCHANGED <<status, attempt, pushed, died, replaced, waiting, event>>
        /\ requested' = requested \cup {<<candidate, attempt[candidate]>>} /\ phase = "dispatch"
    BY <1>5 DEF DispatchPromotion, Proceed
  <2>2. Pending(r) /\ candidate # r
    BY <1>0, <2>1
  <2>. QED BY <2>1, <2>2 DEF Pending, WillAsk
<1>6. CASE Over
  <2>1. /\ UNCHANGED <<status, attempt, pushed, requested, died, replaced>> /\ End
        /\ phase = "over"
    BY <1>6 DEF Over
  <2>2. Pending(r)
    BY <1>0, <2>1
  <2>3. CASE waiting # NoEvent /\ WillAsk(waiting, r)
    BY <2>1, <2>3, WaitingRuns
  <2>4. CASE \E e \in died \cup replaced : WillAsk(e, r)
    BY <2>1, <2>4 DEF Pending, WillAsk
  <2>. QED BY <2>1, <2>2, <2>3, <2>4 DEF Pending
<1>7. CASE RequestDies
  <2>1. /\ UNCHANGED <<status, attempt, pushed, requested, replaced>> /\ End
        /\ died' = died \cup {event}
    BY <1>7 DEF RequestDies
  <2>2. Pending(r)
    BY <1>0, <2>1
  <2>3. CASE waiting # NoEvent /\ WillAsk(waiting, r)
    BY <2>1, <2>3, WaitingRuns
  <2>4. CASE \E e \in died \cup {event} \cup replaced : WillAsk(e, r)
    BY <2>1, <2>4 DEF Pending, WillAsk
  <2>. QED BY <2>2, <2>3, <2>4 DEF Pending
<1>8. CASE \E e \in died \cup replaced : RerunRequest(e)
  <2>1. PICK e \in died \cup replaced : RerunRequest(e)
    BY <1>8
  <2>2. UNCHANGED <<status, attempt, pushed, requested>> /\ Join(e)
        /\ died' = died \ {e} /\ e \in Event
    BY <2>1 DEF RerunRequest, RequestTypeOK
  <2>3. Pending(r)
    BY <1>0, <2>2
  <2>. QED BY <2>2, <2>3, JoinKeeps
<1>9. CASE UNCHANGED requestVars
  <2>1. Pending(r) /\ UNCHANGED <<event, waiting, phase, candidate, died, replaced>>
    BY <1>0, <1>9 DEF requestVars, request
  <2>. QED BY <2>1 DEF Pending, WillAsk
<1>. QED BY <1>1, <1>2, <1>3, <1>4, <1>5, <1>6, <1>7, <1>8, <1>9, RequestSteps

-----------------------------------------------------------------------------
(***************************************************************************)
(* Requests: the theorems                                                  *)
(***************************************************************************)
\* Tags, events and selected runs are well formed, whatever arrives and dies.
THEOREM RequestTypeCorrect == RequestSpec => []RequestTypeOK
<1>1. RequestInit => RequestTypeOK /\ GroupFree
  BY RequestAssumption DEF RequestInit, RequestTypeOK, GroupFree, RunInit, RunTypeOK
<1>2. RequestTypeOK /\ GroupFree /\ [RequestNext]_requestVars => (RequestTypeOK /\ GroupFree)'
  BY RequestTypes
<1>. QED BY <1>1, <1>2, PTL DEF RequestSpec

\* Whatever tags are pushed at the commit, in whatever order candidate runs end
\* and are repeated, and however often the group replaces what waits: a
\* promotion that is due is asked for, or the workflow that would ask for it is
\* under way, waits, or is there to be executed again.
THEOREM RequestsKept == RequestSpec => []NoRequestLost
<1>1. RequestInit => RequestInv
  <2>. SUFFICES ASSUME RequestInit PROVE RequestInv
    OBVIOUS
  <2>1. RequestTypeOK /\ GroupFree
    BY RequestAssumption DEF RequestInit, RequestTypeOK, GroupFree, RunInit, RunTypeOK
  <2>2. NoRequestLost
    BY DEF RequestInit, RunInit, NoRequestLost, Releasable
  <2>. QED BY <2>1, <2>2 DEF RequestInv
<1>2. RequestInv /\ [RequestNext]_requestVars => RequestInv'
  BY RequestTypes, LostStep DEF RequestInv
<1>3. RequestInv => NoRequestLost
  BY DEF RequestInv
<1>. QED BY <1>1, <1>2, <1>3, PTL DEF RequestSpec
=============================================================================
