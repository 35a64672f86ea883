--------------------- MODULE ComponentProduction_proofs ---------------------
(***************************************************************************)
(* Theorems about the production workflow, for any number of runs, inputs, *)
(* attempts and faults.                                                    *)
(***************************************************************************)
EXTENDS ComponentProduction, TLAPS

\* The initial state satisfies the inductive invariant.
LEMMA InitInv == Init => Inv
  BY ProductionAssumption, NoneAssumption
  DEF Init, Inv, TypeOK, JobsInOrder, EnsureLoop, HandoffsBacked, CatalogsMatchHandoff,
      StoreInOrder, OwnTags, CatalogsNameTheirProducer, HintsUsable, Status,
      ProductionAccepted, Completed, Settled

\* Every step preserves the type invariant; the order of the jobs is what makes
\* receipts, handoffs and catalogs well formed.
LEMMA TypePreserved == Inv /\ [Next]_vars => TypeOK'
  <1> SUFFICES ASSUME Inv, [Next]_vars PROVE TypeOK'
      OBVIOUS
  <1> USE ProductionAssumption, NoneAssumption DEF Inv, TypeOK, Status
  <1>1. ASSUME NEW r \in Runs, Trigger(r) PROVE TypeOK'
      BY <1>1 DEF Trigger, ensuring, storing, registry
  <1>2. ASSUME NEW r \in Runs, RerunAll(r) PROVE TypeOK'
      BY <1>2 DEF RerunAll, Repeat, Fault, storing, registry
  <1>3. ASSUME NEW r \in Runs, RerunFailed(r) PROVE TypeOK'
      BY <1>3 DEF RerunFailed, Repeat, Fault, ensuring, storing, registry
  <1>4. ASSUME NEW r \in Runs, EnsureStart(r) PROVE TypeOK'
      BY <1>4 DEF EnsureStart, ensuring, storing, registry
  <1>5. ASSUME NEW r \in Runs, NEW k \in Keys, LookupHit(r, k) PROVE TypeOK'
      BY <1>5 DEF LookupHit, jobs, storing, registry
  <1>6. ASSUME NEW r \in Runs, NEW k \in Keys, LookupMiss(r, k) PROVE TypeOK'
      BY <1>6 DEF LookupMiss, jobs, storing, registry
  <1>7. ASSUME NEW r \in Runs, NEW k \in Keys, Build(r, k) PROVE TypeOK'
      BY <1>7 DEF Build, jobs, storing, Artifact, Attempts, JobsInOrder
  <1>8. ASSUME NEW r \in Runs, EnsureFinish(r) PROVE TypeOK'
    <2>1. attempt[r] \in Attempts
        BY <1>8 DEF EnsureFinish, Attempts, JobsInOrder
    <2>2. fresh[r] # {} => [attempt |-> attempt[r], keys |-> fresh[r]] \in Handoff
        BY <2>1 DEF Handoff
    <2>3. handoff' \in [Runs -> Handoff \cup {None}]
        BY <1>8, <2>2 DEF EnsureFinish
    <2> QED
        BY <1>8, <2>3 DEF EnsureFinish, storing, registry
  <1>9. ASSUME NEW r \in Runs, Sign(r) PROVE TypeOK'
      BY <1>9 DEF Sign, SignReady, ensuring, storing, registry, Handoff, Envelope, Attempts,
         JobsInOrder
  <1>10. ASSUME NEW r \in Runs, StoreRetain(r) PROVE TypeOK'
      BY <1>10 DEF StoreRetain, StoreReady, ensuring, storing, CatalogsMatchHandoff
  <1>11. ASSUME NEW r \in Runs, NEW k \in Keys, StoreTag(r, k) PROVE TypeOK'
      BY <1>11 DEF StoreTag, jobs, ensuring
  <1>12. ASSUME NEW r \in Runs, NEW k \in Keys, StoreConfirm(r, k) PROVE TypeOK'
      BY <1>12 DEF StoreConfirm, ReadBack, jobs, ensuring, registry
  <1>13. ASSUME NEW r \in Runs, NEW k \in Keys, StoreConflict(r, k) PROVE TypeOK'
      BY <1>13 DEF StoreConflict, ReadBack, EndStore, ensuring, registry
  <1>14. ASSUME NEW r \in Runs, StoreFinish(r) PROVE TypeOK'
      BY <1>14 DEF StoreFinish, EndStore, ensuring, registry
  <1>15. ASSUME NEW r \in Runs, Verify(r) PROVE TypeOK'
      BY <1>15 DEF Verify, ensuring, storing, registry
  <1>16. ASSUME NEW r \in Runs, EnsureFails(r) PROVE TypeOK'
      BY <1>16 DEF EnsureFails, Fault, storing, registry
  <1>17. ASSUME NEW r \in Runs, SignFails(r) PROVE TypeOK'
      BY <1>17 DEF SignFails, Fault, ensuring, storing, registry
  <1>18. ASSUME NEW r \in Runs, StoreFails(r) PROVE TypeOK'
      BY <1>18 DEF StoreFails, Fault, EndStore, ensuring, registry
  <1>19. ASSUME NEW r \in Runs, VerifyFails(r) PROVE TypeOK'
      BY <1>19 DEF VerifyFails, Fault, ensuring, storing, registry
  <1>20. ASSUME NEW r \in Runs, RerunJob(r) PROVE TypeOK'
      BY <1>20 DEF RerunJob, Repeat, Fault, ensuring, storing, registry
  <1>21. CASE UNCHANGED vars
      BY <1>21 DEF vars, jobs, ensuring, storing, registry
  <1> QED
      BY <1>1, <1>2, <1>3, <1>4, <1>5, <1>6, <1>7, <1>8, <1>9, <1>10, <1>11, <1>12,
         <1>13, <1>14, <1>15, <1>16, <1>17, <1>18, <1>19, <1>20, <1>21
      DEF Next, Progress, Disturbance

\* A step that leaves the tags, the handoffs and the roles in work alone, and takes
\* a signature back only when it starts a new attempt, preserves OwnTags.
LEMMA OwnTagsKept ==
    ASSUME Inv, TypeOK', hint' = hint,
           \A s \in Runs : \A k \in missing'[s] \cup fresh'[s] :
               hint[k] # None /\ hint[k].run = s =>
                  /\ k \in missing[s] \cup fresh[s]
                  /\ handoff'[s] = handoff[s]
                  /\ attempt'[s] >= attempt[s]
                  /\ attempt'[s] > attempt[s] \/ (sign'[s] = "pending" => sign[s] = "pending")
                  /\ catalog'[s] \in {catalog[s], None}
    PROVE  OwnTags'
  <1> SUFFICES ASSUME NEW s \in Runs, NEW k \in missing'[s] \cup fresh'[s],
                      hint[k] # None, hint[k].run = s
               PROVE  OwnTags!(s)!(k)'
      BY DEF OwnTags
  <1>1. hint[k].signer \in Int /\ attempt[s] \in Int /\ attempt'[s] \in Int
      BY DEF Inv, TypeOK, Envelope, Attempts
  <1> QED BY <1>1 DEF Inv, OwnTags

\* Every step preserves the inductive invariant.
LEMMA InvPreserved == Inv /\ [Next]_vars => Inv'
  <1> SUFFICES ASSUME Inv, [Next]_vars PROVE Inv'
      OBVIOUS
  <1> USE ProductionAssumption, NoneAssumption
      DEF Inv, TypeOK, Status, JobsInOrder, Completed, Settled, ProductionAccepted
  <1>1. ASSUME NEW r \in Runs, Trigger(r) PROVE Inv'
    <2>1. TypeOK'
      BY <1>1, TypePreserved DEF Inv, Next, Progress, Disturbance
    <2>2. JobsInOrder'
      BY <1>1 DEF Trigger, ensuring, storing, registry, JobsInOrder, HandoffsBacked,
          CatalogsMatchHandoff, EnsureLoop
    <2>3. EnsureLoop'
      BY <1>1 DEF Trigger, ensuring, storing, registry, EnsureLoop, Covers
    <2>4. HandoffsBacked'
      BY <1>1 DEF Trigger, ensuring, storing, registry, HandoffsBacked, EnsureLoop
    <2>5. CatalogsMatchHandoff'
      BY <1>1 DEF Trigger, ensuring, storing, registry, CatalogsMatchHandoff,
          HandoffsBacked
    <2>6. (StoreInOrder /\ CatalogsNameTheirProducer /\ HintsUsable)'
      BY <1>1 DEF Trigger, ensuring, storing, registry, StoreInOrder,
          CatalogsNameTheirProducer, HintsUsable, Covers
    <2>7. OwnTags'
      BY <1>1, <2>1, OwnTagsKept DEF Trigger, ensuring, registry
    <2> QED BY <2>1, <2>2, <2>3, <2>4, <2>5, <2>6, <2>7 DEF Inv
  <1>2. ASSUME NEW r \in Runs, RerunAll(r) PROVE Inv'
    <2>1. TypeOK'
      BY <1>2, TypePreserved DEF Inv, Next, Progress, Disturbance
    <2>2. JobsInOrder'
      BY <1>2 DEF RerunAll, Repeat, Fault, storing, registry, JobsInOrder, HandoffsBacked,
          CatalogsMatchHandoff, EnsureLoop
    <2>3. EnsureLoop'
      BY <1>2 DEF RerunAll, Repeat, Fault, storing, registry, EnsureLoop, Covers
    <2>4. HandoffsBacked'
      BY <1>2 DEF RerunAll, Repeat, Fault, storing, registry, HandoffsBacked, EnsureLoop
    <2>5. CatalogsMatchHandoff'
      BY <1>2 DEF RerunAll, Repeat, Fault, storing, registry, CatalogsMatchHandoff, HandoffsBacked
    <2>6. StoreInOrder'
      BY <1>2 DEF RerunAll, Repeat, Fault, storing, registry, StoreInOrder, CatalogsMatchHandoff
    <2>7. OwnTags'
      <3>1. \A s \in Runs : missing'[s] \cup fresh'[s] # {} =>
                s # r /\ missing'[s] = missing[s] /\ fresh'[s] = fresh[s]
          BY <1>2 DEF RerunAll, Repeat, EnsureLoop, Completed, Settled
      <3> QED
          BY <1>2, <2>1, <3>1, OwnTagsKept DEF RerunAll, Repeat, registry
    <2>8. (CatalogsNameTheirProducer /\ HintsUsable)'
      BY <1>2 DEF RerunAll, Repeat, Fault, storing, registry, CatalogsNameTheirProducer, HintsUsable,
          Covers
    <2> QED BY <2>1, <2>2, <2>3, <2>4, <2>5, <2>6, <2>7, <2>8 DEF Inv
  <1>3. ASSUME NEW r \in Runs, RerunFailed(r) PROVE Inv'
    <2>1. TypeOK'
      BY <1>3, TypePreserved DEF Inv, Next, Progress, Disturbance
    <2>2. JobsInOrder'
      BY <1>3 DEF RerunFailed, Repeat, Fault, ensuring, storing, registry, JobsInOrder, HandoffsBacked,
          CatalogsMatchHandoff, EnsureLoop
    <2>3. EnsureLoop'
      <3> SUFFICES ASSUME NEW s \in Runs PROVE EnsureLoop!(s)'
          BY DEF EnsureLoop
      <3>1. CASE s = r
          BY <1>3, <3>1 DEF RerunFailed, Repeat, Fault, ensuring, storing, registry, EnsureLoop
      <3>2. CASE s # r
          BY <1>3, <3>2 DEF RerunFailed, Repeat, Fault, ensuring, storing, registry, EnsureLoop
      <3> QED BY <3>1, <3>2
    <2>4. HandoffsBacked'
      <3> SUFFICES ASSUME NEW s \in Runs PROVE HandoffsBacked!(s)'
          BY DEF HandoffsBacked
      <3>1. ensure'[s] = "success" <=> ensure[s] = "success"
          BY <1>3 DEF RerunFailed, Repeat
      <3>2. attempt[s] <= attempt'[s]
          BY <1>3 DEF RerunFailed, Repeat
      <3> QED
          BY <1>3, <3>1, <3>2 DEF RerunFailed, Repeat, Fault, ensuring, storing, registry, HandoffsBacked,
             Handoff, Attempts
    <2>5. CatalogsMatchHandoff'
      <3> SUFFICES ASSUME NEW s \in Runs PROVE CatalogsMatchHandoff!(s)'
          BY DEF CatalogsMatchHandoff
      <3>1. sign'[s] = "success" <=> sign[s] = "success"
          BY <1>3 DEF RerunFailed, Repeat
      <3>2. attempt[s] <= attempt'[s]
          BY <1>3 DEF RerunFailed, Repeat
      <3> QED
          BY <1>3, <3>1, <3>2 DEF RerunFailed, Repeat, Fault, ensuring, storing, registry,
             CatalogsMatchHandoff, Envelope, Attempts
    <2>6. StoreInOrder'
      BY <1>3 DEF RerunFailed, Repeat, Fault, ensuring, storing, registry, StoreInOrder,
          CatalogsMatchHandoff
    <2>7. (CatalogsNameTheirProducer /\ HintsUsable)'
      BY <1>3 DEF RerunFailed, registry, CatalogsNameTheirProducer, HintsUsable, Covers
    <2>8. OwnTags'
      BY <1>3, <2>1, OwnTagsKept DEF RerunFailed, Repeat, ensuring, registry
    <2> QED BY <2>1, <2>2, <2>3, <2>4, <2>5, <2>6, <2>7, <2>8 DEF Inv
  <1>4. ASSUME NEW r \in Runs, EnsureStart(r) PROVE Inv'
    <2>1. TypeOK'
      BY <1>4, TypePreserved DEF Inv, Next, Progress, Disturbance
    <2>2. JobsInOrder'
      BY <1>4 DEF EnsureStart, ensuring, storing, registry, JobsInOrder, HandoffsBacked,
          CatalogsMatchHandoff, EnsureLoop
    <2>3. EnsureLoop'
      BY <1>4 DEF EnsureStart, ensuring, storing, registry, EnsureLoop, Covers
    <2>4. HandoffsBacked'
      BY <1>4 DEF EnsureStart, ensuring, storing, registry, HandoffsBacked, EnsureLoop
    <2>5. (CatalogsMatchHandoff /\ StoreInOrder /\ OwnTags
           /\ CatalogsNameTheirProducer /\ HintsUsable)'
      BY <1>4 DEF EnsureStart, ensuring, storing, registry, CatalogsMatchHandoff,
          StoreInOrder, OwnTags, CatalogsNameTheirProducer, HintsUsable, Covers
    <2> QED BY <2>1, <2>2, <2>3, <2>4, <2>5 DEF Inv
  <1>5. ASSUME NEW r \in Runs, NEW k \in Keys, LookupHit(r, k) PROVE Inv'
    <2>1. TypeOK'
      BY <1>5, TypePreserved DEF Inv, Next, Progress, Disturbance
    <2>2. EnsureLoop'
      BY <1>5 DEF LookupHit, NextRole, jobs, storing, registry, EnsureLoop, Covers
    <2>3. HandoffsBacked'
      BY <1>5 DEF LookupHit, NextRole, jobs, storing, registry, HandoffsBacked,
          EnsureLoop
    <2>4. (JobsInOrder /\ CatalogsMatchHandoff /\ StoreInOrder
           /\ OwnTags /\ CatalogsNameTheirProducer /\ HintsUsable)'
      BY <1>5 DEF LookupHit, jobs, storing, registry, JobsInOrder, CatalogsMatchHandoff,
          StoreInOrder, OwnTags, CatalogsNameTheirProducer, HintsUsable, Covers
    <2> QED BY <2>1, <2>2, <2>3, <2>4 DEF Inv
  <1>6. ASSUME NEW r \in Runs, NEW k \in Keys, LookupMiss(r, k) PROVE Inv'
    <2>1. TypeOK'
      BY <1>6, TypePreserved DEF Inv, Next, Progress, Disturbance
    <2>2. EnsureLoop'
      BY <1>6 DEF LookupMiss, NextRole, jobs, storing, registry, EnsureLoop, Covers
    <2>3. OwnTags'
      BY <1>6 DEF LookupMiss, NextRole, jobs, storing, registry, OwnTags,
          CatalogsMatchHandoff, HandoffsBacked, EnsureLoop
    <2>4. (JobsInOrder /\ HandoffsBacked /\ CatalogsMatchHandoff
           /\ StoreInOrder /\ CatalogsNameTheirProducer /\ HintsUsable)'
      BY <1>6 DEF LookupMiss, jobs, storing, registry, JobsInOrder, HandoffsBacked,
          CatalogsMatchHandoff, StoreInOrder, CatalogsNameTheirProducer, HintsUsable,
          Covers
    <2> QED BY <2>1, <2>2, <2>3, <2>4 DEF Inv
  <1>7. ASSUME NEW r \in Runs, NEW k \in Keys, Build(r, k) PROVE Inv'
    <2>1. TypeOK'
      BY <1>7, TypePreserved DEF Inv, Next, Progress, Disturbance
    <2>2. EnsureLoop'
      BY <1>7 DEF Build, jobs, storing, EnsureLoop, Covers
    <2>3. HandoffsBacked'
      BY <1>7 DEF Build, jobs, storing, HandoffsBacked, EnsureLoop
    <2>4. OwnTags'
      BY <1>7 DEF Build, jobs, storing, OwnTags, CatalogsMatchHandoff, HandoffsBacked,
          EnsureLoop
    <2>5. CatalogsNameTheirProducer'
      BY <1>7 DEF Build, jobs, storing, CatalogsNameTheirProducer, ArtifactOf,
          CatalogsMatchHandoff, HandoffsBacked
    <2>6. HintsUsable'
      BY <1>7 DEF Build, jobs, storing, HintsUsable, Covers, ArtifactOf,
          CatalogsMatchHandoff, StoreInOrder, HandoffsBacked, CatalogsNameTheirProducer
    <2>7. (JobsInOrder /\ CatalogsMatchHandoff /\ StoreInOrder)'
      BY <1>7 DEF Build, jobs, storing, JobsInOrder, CatalogsMatchHandoff, StoreInOrder
    <2> QED BY <2>1, <2>2, <2>3, <2>4, <2>5, <2>6, <2>7 DEF Inv
  <1>8. ASSUME NEW r \in Runs, EnsureFinish(r) PROVE Inv'
    <2>1. TypeOK'
      BY <1>8, TypePreserved DEF Inv, Next, Progress, Disturbance
    <2>2. JobsInOrder'
      BY <1>8 DEF EnsureFinish, storing, registry, JobsInOrder, HandoffsBacked,
          CatalogsMatchHandoff, EnsureLoop
    <2>3. EnsureLoop'
      BY <1>8 DEF EnsureFinish, storing, registry, EnsureLoop, Covers
    <2>4. HandoffsBacked'
      <3> SUFFICES ASSUME NEW s \in Runs PROVE HandoffsBacked!(s)'
          BY DEF HandoffsBacked
      <3>1. CASE s = r /\ fresh[r] = {}
          BY <1>8, <3>1 DEF EnsureFinish, storing, registry, HandoffsBacked, EnsureLoop
      <3>2. CASE s = r /\ fresh[r] # {}
        <4>1. handoff'[s] = [attempt |-> attempt[r], keys |-> fresh[r]]
            BY <1>8, <3>2 DEF EnsureFinish
        <4>2. handoff'[s] \in Handoff
            BY <4>1, <1>8, <3>2 DEF EnsureFinish, Handoff, Attempts
        <4> QED
            BY <1>8, <3>2, <4>1, <4>2 DEF EnsureFinish, storing, registry, EnsureLoop
      <3>3. CASE s # r
          BY <1>8, <3>3 DEF EnsureFinish, storing, registry, HandoffsBacked
      <3> QED BY <3>1, <3>2, <3>3
    <2>5. CatalogsMatchHandoff'
      BY <1>8 DEF EnsureFinish, storing, registry, CatalogsMatchHandoff, HandoffsBacked
    <2>6. StoreInOrder'
      BY <1>8 DEF EnsureFinish, storing, registry, StoreInOrder, CatalogsMatchHandoff
    <2>7. (CatalogsNameTheirProducer /\ HintsUsable)'
      BY <1>8 DEF EnsureFinish, registry, CatalogsNameTheirProducer, HintsUsable, Covers
    <2>8. OwnTags'
      <3>1. handoff[r] = None
          BY <1>8 DEF EnsureFinish, HandoffsBacked
      <3>2. \A k \in missing[r] \cup fresh[r] : hint[k] # None => hint[k].run # r
          BY <3>1 DEF OwnTags
      <3> QED
          BY <1>8, <2>1, <3>2, OwnTagsKept DEF EnsureFinish, registry
    <2> QED BY <2>1, <2>2, <2>3, <2>4, <2>5, <2>6, <2>7, <2>8 DEF Inv
  <1>9. ASSUME NEW r \in Runs, Sign(r) PROVE Inv'
    <2>1. TypeOK'
      BY <1>9, TypePreserved DEF Inv, Next, Progress, Disturbance
    <2>2. JobsInOrder'
      BY <1>9 DEF Sign, SignReady, ensuring, storing, registry, JobsInOrder,
          HandoffsBacked, CatalogsMatchHandoff, EnsureLoop
    <2>3. CatalogsMatchHandoff'
      BY <1>9 DEF Sign, SignReady, ensuring, storing, registry, CatalogsMatchHandoff,
         HandoffsBacked, Handoff, Envelope, Attempts
    <2>4. StoreInOrder'
      BY <1>9 DEF Sign, SignReady, ensuring, storing, registry, StoreInOrder,
          CatalogsMatchHandoff
    <2>5. OwnTags'
      BY <1>9 DEF Sign, SignReady, ensuring, storing, registry, OwnTags,
          CatalogsMatchHandoff, HandoffsBacked, EnsureLoop
    <2>6. (EnsureLoop /\ HandoffsBacked /\ CatalogsNameTheirProducer /\ HintsUsable)'
      BY <1>9 DEF Sign, ensuring, storing, registry, EnsureLoop, HandoffsBacked,
          CatalogsNameTheirProducer, HintsUsable, Covers
    <2> QED BY <2>1, <2>2, <2>3, <2>4, <2>5, <2>6 DEF Inv
  <1>10. ASSUME NEW r \in Runs, StoreRetain(r) PROVE Inv'
    <2>1. TypeOK'
      BY <1>10, TypePreserved DEF Inv, Next, Progress, Disturbance
    <2>2. JobsInOrder'
      BY <1>10 DEF StoreRetain, StoreReady, ensuring, storing, JobsInOrder,
          HandoffsBacked, CatalogsMatchHandoff, EnsureLoop
    <2>3. StoreInOrder'
      BY <1>10 DEF StoreRetain, StoreReady, ensuring, storing, StoreInOrder,
          CatalogsMatchHandoff
    <2>4. CatalogsNameTheirProducer'
      BY <1>10 DEF StoreRetain, StoreReady, ensuring, storing,
          CatalogsNameTheirProducer, ArtifactOf, CatalogsMatchHandoff, HandoffsBacked
    <2>5. HintsUsable'
      BY <1>10 DEF StoreRetain, StoreReady, ensuring, storing, HintsUsable, Covers,
          ArtifactOf, CatalogsMatchHandoff, StoreInOrder, HandoffsBacked,
          CatalogsNameTheirProducer
    <2>6. (EnsureLoop /\ HandoffsBacked /\ CatalogsMatchHandoff /\ OwnTags)'
      BY <1>10 DEF StoreRetain, ensuring, storing, EnsureLoop, HandoffsBacked,
          CatalogsMatchHandoff, OwnTags
    <2> QED BY <2>1, <2>2, <2>3, <2>4, <2>5, <2>6 DEF Inv
  <1>11. ASSUME NEW r \in Runs, NEW k \in Keys, StoreTag(r, k) PROVE Inv'
    <2>1. TypeOK'
      BY <1>11, TypePreserved DEF Inv, Next, Progress, Disturbance
    <2>2. EnsureLoop'
      BY <1>11 DEF StoreTag, jobs, ensuring, EnsureLoop, CatalogsMatchHandoff
    <2>3. StoreInOrder'
      BY <1>11 DEF StoreTag, jobs, ensuring, StoreInOrder, CatalogsMatchHandoff
    <2>4. OwnTags'
      BY <1>11 DEF StoreTag, jobs, ensuring, OwnTags, CatalogsMatchHandoff,
          HandoffsBacked, EnsureLoop
    <2>5. HintsUsable'
      BY <1>11 DEF StoreTag, jobs, ensuring, HintsUsable, Covers, ArtifactOf,
          CatalogsMatchHandoff, StoreInOrder, HandoffsBacked, CatalogsNameTheirProducer
    <2>6. (JobsInOrder /\ HandoffsBacked
           /\ CatalogsMatchHandoff /\ CatalogsNameTheirProducer)'
      BY <1>11 DEF StoreTag, jobs, ensuring, JobsInOrder, HandoffsBacked,
          CatalogsMatchHandoff, CatalogsNameTheirProducer
    <2> QED BY <2>1, <2>2, <2>3, <2>4, <2>5, <2>6 DEF Inv
  <1>12. ASSUME NEW r \in Runs, NEW k \in Keys, StoreConfirm(r, k) PROVE Inv'
    <2>1. TypeOK'
      BY <1>12, TypePreserved DEF Inv, Next, Progress, Disturbance
    <2>2. StoreInOrder'
      BY <1>12 DEF StoreConfirm, ReadBack, jobs, ensuring, registry, StoreInOrder,
          CatalogsMatchHandoff
    <2>3. (JobsInOrder /\ EnsureLoop /\ HandoffsBacked /\ CatalogsMatchHandoff
           /\ OwnTags /\ CatalogsNameTheirProducer /\ HintsUsable)'
      BY <1>12 DEF StoreConfirm, jobs, ensuring, registry, JobsInOrder, EnsureLoop,
          HandoffsBacked, CatalogsMatchHandoff, OwnTags, CatalogsNameTheirProducer,
          HintsUsable, Covers
    <2> QED BY <2>1, <2>2, <2>3 DEF Inv
  <1>13. ASSUME NEW r \in Runs, NEW k \in Keys, StoreConflict(r, k) PROVE Inv'
    <2>1. TypeOK'
      BY <1>13, TypePreserved DEF Inv, Next, Progress, Disturbance
    <2>2. JobsInOrder'
      BY <1>13 DEF StoreConflict, ReadBack, EndStore, ensuring, registry, JobsInOrder,
          HandoffsBacked, CatalogsMatchHandoff, EnsureLoop
    <2>3. StoreInOrder'
      BY <1>13 DEF StoreConflict, ReadBack, EndStore, ensuring, registry, StoreInOrder,
          CatalogsMatchHandoff
    <2>4. (EnsureLoop /\ HandoffsBacked /\ CatalogsMatchHandoff
           /\ OwnTags /\ CatalogsNameTheirProducer /\ HintsUsable)'
      BY <1>13 DEF StoreConflict, EndStore, ensuring, registry, EnsureLoop,
          HandoffsBacked, CatalogsMatchHandoff, OwnTags, CatalogsNameTheirProducer,
          HintsUsable, Covers
    <2> QED BY <2>1, <2>2, <2>3, <2>4 DEF Inv
  <1>14. ASSUME NEW r \in Runs, StoreFinish(r) PROVE Inv'
    <2>1. TypeOK'
      BY <1>14, TypePreserved DEF Inv, Next, Progress, Disturbance
    <2>2. JobsInOrder'
      BY <1>14 DEF StoreFinish, EndStore, ensuring, registry, JobsInOrder,
          HandoffsBacked, CatalogsMatchHandoff, EnsureLoop
    <2>3. StoreInOrder'
      BY <1>14 DEF StoreFinish, EndStore, ensuring, registry, StoreInOrder,
          CatalogsMatchHandoff
    <2>4. (EnsureLoop /\ HandoffsBacked /\ CatalogsMatchHandoff
           /\ OwnTags /\ CatalogsNameTheirProducer /\ HintsUsable)'
      BY <1>14 DEF StoreFinish, EndStore, ensuring, registry, EnsureLoop,
          HandoffsBacked, CatalogsMatchHandoff, OwnTags, CatalogsNameTheirProducer,
          HintsUsable, Covers
    <2> QED BY <2>1, <2>2, <2>3, <2>4 DEF Inv
  <1>15. ASSUME NEW r \in Runs, Verify(r) PROVE Inv'
    <2>1. TypeOK'
      BY <1>15, TypePreserved DEF Inv, Next, Progress, Disturbance
    <2>2. JobsInOrder'
      BY <1>15 DEF Verify, VerifyReady, ensuring, storing, registry, JobsInOrder,
          HandoffsBacked, CatalogsMatchHandoff, EnsureLoop
    <2>3. (EnsureLoop /\ HandoffsBacked /\ CatalogsMatchHandoff /\ StoreInOrder
           /\ OwnTags /\ CatalogsNameTheirProducer /\ HintsUsable)'
      BY <1>15 DEF Verify, ensuring, storing, registry, EnsureLoop, HandoffsBacked,
          CatalogsMatchHandoff, StoreInOrder, OwnTags, CatalogsNameTheirProducer,
          HintsUsable, Covers
    <2> QED BY <2>1, <2>2, <2>3 DEF Inv
  <1>16. ASSUME NEW r \in Runs, EnsureFails(r) PROVE Inv'
    <2>1. TypeOK'
      BY <1>16, TypePreserved DEF Inv, Next, Progress, Disturbance
    <2>2. JobsInOrder'
      BY <1>16 DEF EnsureFails, Fault, storing, registry, JobsInOrder, HandoffsBacked,
          CatalogsMatchHandoff, EnsureLoop
    <2>3. EnsureLoop'
      BY <1>16 DEF EnsureFails, Fault, storing, registry, EnsureLoop, Covers
    <2>4. HandoffsBacked'
      BY <1>16 DEF EnsureFails, Fault, storing, registry, HandoffsBacked, EnsureLoop
    <2>5. CatalogsMatchHandoff'
      BY <1>16 DEF EnsureFails, Fault, storing, registry, CatalogsMatchHandoff,
          HandoffsBacked
    <2>6. StoreInOrder'
      BY <1>16 DEF EnsureFails, Fault, storing, registry, StoreInOrder,
          CatalogsMatchHandoff
    <2>7. OwnTags'
      BY <1>16 DEF EnsureFails, Fault, storing, registry, OwnTags, CatalogsMatchHandoff,
          HandoffsBacked, EnsureLoop
    <2>8. (CatalogsNameTheirProducer /\ HintsUsable)'
      BY <1>16 DEF EnsureFails, Fault, storing, registry, CatalogsNameTheirProducer,
          HintsUsable, Covers
    <2> QED BY <2>1, <2>2, <2>3, <2>4, <2>5, <2>6, <2>7, <2>8 DEF Inv
  <1>17. ASSUME NEW r \in Runs, SignFails(r) PROVE Inv'
    <2>1. TypeOK'
      BY <1>17, TypePreserved DEF Inv, Next, Progress, Disturbance
    <2>2. JobsInOrder'
      BY <1>17 DEF SignFails, Fault, SignReady, ensuring, storing, registry,
          JobsInOrder, HandoffsBacked, CatalogsMatchHandoff, EnsureLoop
    <2>3. CatalogsMatchHandoff'
      BY <1>17 DEF SignFails, Fault, SignReady, ensuring, storing, registry,
          CatalogsMatchHandoff, HandoffsBacked
    <2>4. StoreInOrder'
      BY <1>17 DEF SignFails, Fault, SignReady, ensuring, storing, registry,
          StoreInOrder, CatalogsMatchHandoff
    <2>5. (EnsureLoop /\ HandoffsBacked /\ OwnTags
           /\ CatalogsNameTheirProducer /\ HintsUsable)'
      BY <1>17 DEF SignFails, Fault, ensuring, storing, registry, EnsureLoop,
          HandoffsBacked, OwnTags, CatalogsNameTheirProducer, HintsUsable, Covers
    <2> QED BY <2>1, <2>2, <2>3, <2>4, <2>5 DEF Inv
  <1>18. ASSUME NEW r \in Runs, StoreFails(r) PROVE Inv'
    <2>1. TypeOK'
      BY <1>18, TypePreserved DEF Inv, Next, Progress, Disturbance
    <2>2. JobsInOrder'
      BY <1>18 DEF StoreFails, Fault, StoreReady, EndStore, ensuring, registry,
          JobsInOrder, HandoffsBacked, CatalogsMatchHandoff, EnsureLoop
    <2>3. StoreInOrder'
      BY <1>18 DEF StoreFails, Fault, StoreReady, EndStore, ensuring, registry,
          StoreInOrder, CatalogsMatchHandoff
    <2>4. (EnsureLoop /\ HandoffsBacked /\ CatalogsMatchHandoff
           /\ OwnTags /\ CatalogsNameTheirProducer /\ HintsUsable)'
      BY <1>18 DEF StoreFails, Fault, EndStore, ensuring, registry, EnsureLoop,
          HandoffsBacked, CatalogsMatchHandoff, OwnTags, CatalogsNameTheirProducer,
          HintsUsable, Covers
    <2> QED BY <2>1, <2>2, <2>3, <2>4 DEF Inv
  <1>19. ASSUME NEW r \in Runs, VerifyFails(r) PROVE Inv'
    <2>1. TypeOK'
      BY <1>19, TypePreserved DEF Inv, Next, Progress, Disturbance
    <2>2. JobsInOrder'
      BY <1>19 DEF VerifyFails, Fault, VerifyReady, ensuring, storing, registry,
          JobsInOrder, HandoffsBacked, CatalogsMatchHandoff, EnsureLoop
    <2>3. (EnsureLoop /\ HandoffsBacked /\ CatalogsMatchHandoff /\ StoreInOrder
           /\ OwnTags /\ CatalogsNameTheirProducer /\ HintsUsable)'
      BY <1>19 DEF VerifyFails, Fault, ensuring, storing, registry, EnsureLoop,
          HandoffsBacked, CatalogsMatchHandoff, StoreInOrder, OwnTags,
          CatalogsNameTheirProducer, HintsUsable, Covers
    <2> QED BY <2>1, <2>2, <2>3 DEF Inv
  <1>20. ASSUME NEW r \in Runs, RerunJob(r) PROVE Inv'
    <2>1. TypeOK'
      BY <1>20, TypePreserved DEF Inv, Next, Progress, Disturbance
    <2>2. JobsInOrder'
      BY <1>20 DEF RerunJob, Repeat, ensuring, storing, registry, JobsInOrder,
          HandoffsBacked, CatalogsMatchHandoff
    <2>3. EnsureLoop'
      <3> SUFFICES ASSUME NEW s \in Runs PROVE EnsureLoop!(s)'
          BY DEF EnsureLoop
      <3>1. CASE s = r
          BY <1>20, <3>1 DEF RerunJob, Repeat, ensuring, storing, registry, EnsureLoop
      <3>2. CASE s # r
          BY <1>20, <3>2 DEF RerunJob, Repeat, ensuring, storing, registry, EnsureLoop
      <3> QED BY <3>1, <3>2
    <2>4. \A s \in Runs : attempt[s] <= attempt'[s]
      BY <1>20 DEF RerunJob, Repeat
    <2>5. HandoffsBacked'
      <3> SUFFICES ASSUME NEW s \in Runs PROVE HandoffsBacked!(s)'
          BY DEF HandoffsBacked
      <3> QED
        <4>1. handoff'[s] # None => handoff'[s].attempt <= attempt'[s]
            BY <1>20, <2>1, <2>4 DEF RerunJob, ensuring, HandoffsBacked, Handoff, Attempts
        <4> QED
            BY <1>20, <4>1 DEF RerunJob, ensuring, registry, HandoffsBacked
    <2>6. CatalogsMatchHandoff'
      <3> SUFFICES ASSUME NEW s \in Runs PROVE CatalogsMatchHandoff!(s)'
          BY DEF CatalogsMatchHandoff
      <3>1. CASE catalog'[s] = catalog[s] /\ sign'[s] = sign[s]
        <4>1. catalog[s] # None => catalog[s].signer <= attempt'[s]
            BY <2>1, <2>4 DEF CatalogsMatchHandoff, Envelope, Attempts
        <4> QED
            BY <1>20, <3>1, <4>1 DEF RerunJob, ensuring, CatalogsMatchHandoff
      <3>2. CASE catalog'[s] = None /\ sign'[s] = "pending"
          BY <3>2
      <3> QED BY <1>20, <3>1, <3>2 DEF RerunJob
    <2>7. StoreInOrder'
      BY <1>20 DEF RerunJob, Repeat, ensuring, storing, registry, StoreInOrder,
          CatalogsMatchHandoff
    <2>8. OwnTags'
      <3>1. \A t \in Runs : catalog'[t] \in {catalog[t], None}
          BY <1>20 DEF RerunJob
      <3>2. \A t \in Runs : attempt'[t] > attempt[t] \/ sign'[t] = sign[t]
          BY <1>20 DEF RerunJob, Repeat
      <3> QED
          BY <1>20, <2>1, <2>4, <3>1, <3>2, OwnTagsKept DEF RerunJob, ensuring, registry
    <2>9. (CatalogsNameTheirProducer /\ HintsUsable)'
      BY <1>20 DEF RerunJob, registry, CatalogsNameTheirProducer, HintsUsable, Covers
    <2> QED BY <2>1, <2>2, <2>3, <2>5, <2>6, <2>7, <2>8, <2>9 DEF Inv
  <1>21. CASE UNCHANGED vars
    <2>1. TypeOK'
      BY <1>21, TypePreserved
    <2>2. (JobsInOrder /\ EnsureLoop /\ HandoffsBacked /\ CatalogsMatchHandoff)'
      BY <1>21 DEF vars, jobs, ensuring, storing, registry, EnsureLoop, HandoffsBacked,
          CatalogsMatchHandoff
    <2>3. (StoreInOrder /\ OwnTags /\ CatalogsNameTheirProducer /\ HintsUsable)'
      BY <1>21 DEF vars, jobs, ensuring, storing, registry, StoreInOrder, OwnTags,
          CatalogsNameTheirProducer, HintsUsable, Covers
    <2> QED BY <2>1, <2>2, <2>3
  <1> QED
      BY <1>1, <1>2, <1>3, <1>4, <1>5, <1>6, <1>7, <1>8, <1>9, <1>10, <1>11, <1>12,
         <1>13, <1>14, <1>15, <1>16, <1>17, <1>18, <1>19, <1>20, <1>21
      DEF Next, Progress, Disturbance

\* In every behaviour the state is well typed.
THEOREM TypeCorrect == Spec => []TypeOK
  <1>1. Inv => TypeOK
      BY DEF Inv
  <1> QED BY InitInv, InvPreserved, <1>1, PTL DEF Spec

\* In every behaviour the inductive invariant holds.
THEOREM Inductive == Spec => []Inv
  BY InitInv, InvPreserved, PTL DEF Spec

\* No retained catalog claims an artifact its producing attempt did not push,
\* for any number of runs, re-runs, cancellations and concurrent stores.
THEOREM NoRelabelling == Spec => []CatalogsNameTheirProducer
  <1>1. Inv => CatalogsNameTheirProducer
      BY DEF Inv
  <1> QED BY Inductive, <1>1, PTL

\* An input tag that exists can always be resolved to a pushed artifact.
THEOREM TagsResolve == Spec => []HintsUsable
  <1>1. Inv => HintsUsable
      BY DEF Inv
  <1> QED BY Inductive, <1>1, PTL

\* A successful `verified' job means that every requested role is indexed.  A
\* role is wanted either because it was found available, and then its tag never
\* went away, or because it was built, and then it is in the handoff, hence in
\* the signed catalog, hence tagged by the successful store job.
LEMMA InvVerified == Inv => VerifiedMeansAvailable
  <1> SUFFICES ASSUME Inv, NEW r \in Runs, verified[r] = "success", NEW k \in Wants[r]
               PROVE  hint[k] # None
      BY DEF VerifiedMeansAvailable
  <1>1. ProductionAccepted(r) /\ ensure[r] = "success"
      BY DEF Inv, JobsInOrder, ProductionAccepted
  <1>2. k \in available[r] \cup fresh[r]
      BY <1>1 DEF Inv, HandoffsBacked
  <1>3. CASE k \in available[r]
      BY <1>3 DEF Inv, EnsureLoop
  <1>4. CASE k \in fresh[r]
    <2>1. handoff[r] # None /\ k \in handoff[r].keys
        BY <1>1, <1>4 DEF Inv, HandoffsBacked
    <2>2. sign[r] = "success" /\ store[r] = "success"
        BY <1>1, <2>1 DEF ProductionAccepted
    <2>3. k \in catalog[r].keys
        BY <2>1, <2>2 DEF Inv, CatalogsMatchHandoff
    <2> QED BY <2>2, <2>3 DEF Inv, StoreInOrder
  <1> QED BY <1>2, <1>3, <1>4

THEOREM VerifiedIsAvailable == Spec => []VerifiedMeansAvailable
  BY Inductive, InvVerified, PTL

\* What a step does to the registry: it pushes an artifact, retains an
\* envelope, moves one tag of a running store job, or leaves it alone.
LEMMA RegistryStep ==
    ASSUME Inv, [Next]_vars
    PROVE  \/ UNCHANGED <<artifacts, hint>>
           \/ \E r \in Runs, k \in Keys : Build(r, k)
           \/ \E r \in Runs, k \in Keys : StoreTag(r, k)
  <1>1. CASE \E r \in Runs : Trigger(r)
      BY <1>1 DEF Trigger, registry
  <1>2. CASE \E r \in Runs : Disturbance(r)
      BY <1>2 DEF Disturbance, RerunAll, RerunJob, EnsureFails, SignFails, StoreFails, VerifyFails,
         EndStore, registry
  <1>3. CASE \E r \in Runs : Progress(r)
      BY <1>3 DEF Progress, RerunFailed, EnsureStart, EnsureFinish, LookupHit, LookupMiss,
         Sign, StoreRetain, StoreFinish, StoreConfirm, StoreConflict, Verify, EndStore, registry
  <1>4. CASE UNCHANGED vars
      BY <1>4 DEF vars, registry
  <1> QED BY <1>1, <1>2, <1>3, <1>4 DEF Next

\* The tag a running store job moves belongs to a role the run built.
LEMMA TagOfFresh ==
    ASSUME Inv, NEW r \in Runs, NEW k \in Keys, StoreTag(r, k)
    PROVE  /\ k \in fresh[r] /\ catalog[r] \in envelopes
           /\ catalog[r] # None /\ catalog[r].run = r /\ k \in catalog[r].keys
           /\ hint' = [hint EXCEPT ![k] = catalog[r]] /\ UNCHANGED artifacts
  BY DEF Inv, StoreTag, StoreInOrder, JobsInOrder, CatalogsMatchHandoff, HandoffsBacked

\* An indexed input stays indexed.
THEOREM IndexPersists == Spec => IndexNeverForgets
  <1>1. Inv /\ [Next]_vars =>
          [\A k \in Keys : hint[k] # None => hint'[k] # None]_vars
    <2> SUFFICES ASSUME Inv, [Next]_vars, NEW k \in Keys, hint[k] # None
                 PROVE  hint'[k] # None
        OBVIOUS
    <2>1. CASE UNCHANGED <<artifacts, hint>>
        BY <2>1
    <2>2. CASE \E r \in Runs, j \in Keys : Build(r, j)
        BY <2>2 DEF Build
    <2>3. CASE \E r \in Runs, j \in Keys : StoreTag(r, j)
        BY <2>3, TagOfFresh DEF Inv, TypeOK
    <2> QED BY <2>1, <2>2, <2>3, RegistryStep
  <1> QED BY <1>1, Inductive, PTL DEF Spec, IndexNeverForgets

\* Within a run a tag only moves on to a later signature of the same receipts: by
\* OwnTags, what a store job finds under a tag it is about to move is another
\* run's, or comes from the handoff this run still holds.
THEOREM OwnReceiptsStay == Spec => OwnReceiptsNeverSuperseded
  <1>1. Inv /\ [Next]_vars =>
          [\A k \in Keys :
              hint[k] # None /\ hint'[k] # hint[k] /\ hint'[k].run = hint[k].run
                => /\ ArtifactOf(hint'[k], k) = ArtifactOf(hint[k], k)
                   /\ hint'[k].signer > hint[k].signer]_vars
    <2> SUFFICES ASSUME Inv, [Next]_vars, NEW k \in Keys, hint[k] # None,
                        hint'[k] # hint[k], hint'[k].run = hint[k].run
                 PROVE  /\ hint'[k].producer = hint[k].producer
                        /\ hint'[k].signer > hint[k].signer
        BY DEF ArtifactOf
    <2>1. CASE \E r \in Runs, j \in Keys : Build(r, j)
        BY <2>1 DEF Build
    <2>2. ASSUME NEW r \in Runs, NEW j \in Keys, StoreTag(r, j)
          PROVE  /\ hint'[k].producer = hint[k].producer
                 /\ hint'[k].signer > hint[k].signer
      <3>1. /\ hint'[k] = catalog[r] /\ catalog[r].run = r /\ catalog[r] # None
            /\ k \in fresh[r]
          BY <2>2, TagOfFresh DEF Inv, TypeOK
      <3>2. /\ hint[k].producer = handoff[r].attempt
            /\ hint[k].signer < catalog[r].signer
          BY <3>1 DEF Inv, OwnTags
      <3>3. catalog[r].producer = handoff[r].attempt
          BY <2>2 DEF StoreTag, Inv, JobsInOrder, CatalogsMatchHandoff
      <3>4. catalog[r].signer \in Int /\ hint[k].signer \in Int
          BY <3>1 DEF Inv, TypeOK, Envelope, Attempts
      <3> QED BY <3>1, <3>2, <3>3, <3>4
    <2> QED BY <2>1, <2>2, RegistryStep
  <1> QED BY <1>1, Inductive, PTL DEF Spec, OwnReceiptsNeverSuperseded

\* The workflow implements the component index, whatever runs do concurrently.
IndexMap == [k \in Keys |-> IF hint[k] = None THEN None ELSE ArtifactOf(hint[k], k)]

THEOREM RefinesIndex == Spec => ImplementsIndex
  <1>1. Init => Index!Init
      BY DEF Init, Index!Init
  <1>2. Inv /\ [Next]_vars => [Index!Next]_<<artifacts, IndexMap>>
    <2> SUFFICES ASSUME Inv, [Next]_vars
                 PROVE  Index!Next \/ UNCHANGED <<artifacts, IndexMap>>
        OBVIOUS
    <2>1. CASE UNCHANGED <<artifacts, hint>>
        BY <2>1 DEF IndexMap
    <2>2. ASSUME NEW r \in Runs, NEW k \in Keys, Build(r, k)
          PROVE  Index!Next \/ UNCHANGED <<artifacts, IndexMap>>
      <3> DEFINE a == [key |-> k, run |-> r, attempt |-> attempt[r]]
      <3>1. artifacts' = artifacts \cup {a} /\ UNCHANGED IndexMap
          BY <2>2 DEF Build, IndexMap
      <3>2. a \in Artifact
          BY <2>2 DEF Build, Inv, TypeOK, JobsInOrder, Artifact, Attempts
      <3> QED BY <3>1, <3>2 DEF Index!Next, Index!Store, IndexMap
    <2>3. ASSUME NEW r \in Runs, NEW k \in Keys, StoreTag(r, k)
          PROVE  Index!Next
      <3> DEFINE a == ArtifactOf(catalog[r], k)
      <3>1. hint' = [hint EXCEPT ![k] = catalog[r]] /\ catalog[r] # None /\ UNCHANGED artifacts
          BY <2>3, TagOfFresh
      <3>2. a \in artifacts /\ KeyOfArtifact(a) = k
          BY <2>3, TagOfFresh DEF Inv, CatalogsNameTheirProducer, ArtifactOf, KeyOfArtifact
      <3>3. IndexMap' = [IndexMap EXCEPT ![k] = a]
          BY <3>1 DEF IndexMap, Inv, TypeOK, ArtifactOf
      <3> QED BY <3>1, <3>2, <3>3 DEF Index!Next, Index!Point, IndexMap
    <2> QED BY <2>1, <2>2, <2>3, RegistryStep
  <1> QED BY <1>1, <1>2, Inductive, PTL DEF Spec, ImplementsIndex, Index!Spec, IndexMap
=============================================================================
