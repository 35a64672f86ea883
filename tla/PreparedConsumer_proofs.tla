----------------------- MODULE PreparedConsumer_proofs -----------------------
(***************************************************************************)
(* Proofs about PreparedConsumer, for every set of runs and parts.         *)
(*                                                                         *)
(* ConsumedTogether and OnlyMovedTagsBlock are not inductive.  The         *)
(* invariant below follows a part from the job that makes sure of it to    *)
(* the consumer: what a run is past is tagged, whatever others do to the   *)
(* tags, and what it selects matches what it has selected before.          *)
(***************************************************************************)
EXTENDS PreparedConsumer, TLAPS

Consuming == {"consume", "bind", "bind parts", "incomplete", "done"}

\* The producer's subjects are verified one after the other.
SubjectsVerified ==
    \A r \in Runs :
        /\ phase[r] \in {"build", "parts", "store"} \cup Consuming => subject[r].toolchain \in Runs
        /\ phase[r] \in {"parts", "store"} \cup Consuming => subject[r].build \in Runs

\* The tag of an input leads to a part that was built with it.
TagsMatch ==
    \A i \in Input : partTag[i] # None =>
        partTag[i].toolchain = i.toolchain /\ partTag[i].build = i.build

\* What a job is done with, or has tagged, is kept in the course of the job.
JobLocal ==
    \A r \in Runs :
        /\ phase[r] \notin {"parts", "bind parts", "abandoned"} => settled[r] = {}
        /\ phase[r] \notin {"store", "abandoned"} => tagged[r] = {}

HasTag(r, p) == partTag[InputOf(subject[r], p)] # None

\* A part that was made sure of is tagged or will be.
PreparedAt(r, p) ==
    /\ phase[r] = "parts" /\ p \in settled[r] => HasTag(r, p) \/ p \in fresh[r]
    /\ phase[r] = "store" => HasTag(r, p) \/ p \in fresh[r]
    /\ phase[r] = "store" /\ p \in tagged[r] => HasTag(r, p)
    /\ phase[r] \in Consuming => HasTag(r, p)

Prepared == \A r \in Runs, p \in Parts : PreparedAt(r, p)

\* Parts are selected after their dependencies, and with them.
SelectedAt(r) ==
    \A p \in Parts : chosen[r].parts[p] # None =>
        /\ phase[r] \in {"bind parts", "incomplete", "done"}
        /\ chosen[r].parts[p].toolchain = chosen[r].toolchain
        /\ chosen[r].parts[p].build = chosen[r].build

Selected == \A r \in Runs : SelectedAt(r)

\* A consumer that finds the dependencies of its own run finds the parts.
FoundAt(r) ==
    /\ phase[r] = "bind parts" /\ chosen[r].toolchain = subject[r].toolchain
                               /\ chosen[r].build = subject[r].build
         => \A p \in settled[r] : chosen[r].parts[p] # None
    /\ phase[r] = "done" => \A p \in Parts : chosen[r].parts[p] # None

Found == \A r \in Runs : FoundAt(r)

IInv ==
    /\ TypeOK
    /\ SubjectsVerified
    /\ TagsMatch
    /\ JobLocal
    /\ Prepared
    /\ Selected
    /\ Found
    /\ OnlyMovedTagsBlock

\* The invariant holds before anything has been prepared.
LEMMA InitInvariant == Init => IInv
<1> SUFFICES ASSUME Init PROVE IInv
    OBVIOUS
<1> USE DEF Init
<1>1. TypeOK
    BY PreparedAssumption DEF TypeOK, Phases, Base, NoBase, Selection, NoSelection, Names
<1>2. SubjectsVerified /\ TagsMatch /\ JobLocal
    BY PreparedAssumption DEF SubjectsVerified, TagsMatch, JobLocal, Consuming
<1>3. Prepared /\ Selected /\ Found /\ OnlyMovedTagsBlock
    BY DEF Prepared, PreparedAt, Selected, SelectedAt, Found, FoundAt, OnlyMovedTagsBlock, Consuming, NoSelection
<1> QED BY <1>1, <1>2, <1>3 DEF IInv

\* A setback changes the phase of its run, and is counted.
LEMMA SetbackStep ==
    ASSUME TypeOK, NEW r \in Runs, NEW to \in Phases, Setback(r, to)
    PROVE  /\ phase' \in [Runs -> Phases] /\ setbacks' \in [Runs -> 0 .. MaxSetbacks]
           /\ phase'[r] \in {to, "abandoned"}
           /\ \A other \in Runs \ {r} : phase'[other] = phase[other]
<1>1. setbacks[r] \in 0 .. MaxSetbacks /\ "abandoned" \in Phases
    BY DEF TypeOK, Phases
<1>2. CASE setbacks[r] < MaxSetbacks
  <2>1. setbacks' = [setbacks EXCEPT ![r] = @ + 1] /\ phase' = [phase EXCEPT ![r] = to]
      BY <1>2 DEF Setback
  <2>2. setbacks[r] + 1 \in 0 .. MaxSetbacks
      BY <1>1, <1>2, PreparedAssumption
  <2> QED BY <2>1, <2>2 DEF TypeOK
<1>3. CASE ~(setbacks[r] < MaxSetbacks)
    BY <1>1, <1>3 DEF Setback, TypeOK
<1> QED BY <1>2, <1>3

\* Every action preserves the types.
LEMMA TypeStep == TypeOK /\ SubjectsVerified /\ [Next]_vars => TypeOK'
<1> SUFFICES ASSUME TypeOK, SubjectsVerified, [Next]_vars PROVE TypeOK'
    OBVIOUS
<1> USE PreparedAssumption DEF Phases, producer, registry
<1>1. ASSUME NEW r \in Runs, ToolchainAvailable(r) PROVE TypeOK'
    BY <1>1 DEF TypeOK, ToolchainAvailable, Move
<1>2. ASSUME NEW r \in Runs, ToolchainMissing(r) PROVE TypeOK'
    BY <1>2 DEF TypeOK, ToolchainMissing, Move
<1>3. ASSUME NEW r \in Runs, PublishToolchain(r) PROVE TypeOK'
    BY <1>3 DEF TypeOK, PublishToolchain, Move
<1>4. ASSUME NEW r \in Runs, ConfirmToolchain(r) PROVE TypeOK'
  <2>1. CASE Move(r, "confirm", "python") /\ UNCHANGED setbacks
      BY <1>4, <2>1 DEF TypeOK, ConfirmToolchain, Move
  <2>2. CASE Setback(r, "publish")
      BY <1>4, <2>2, SetbackStep DEF TypeOK, ConfirmToolchain
  <2> QED BY <1>4, <2>1, <2>2 DEF ConfirmToolchain
<1>5. ASSUME NEW r \in Runs, ResolveToolchain(r) PROVE TypeOK'
    BY <1>5 DEF TypeOK, ResolveToolchain, Move, Base
<1>6. ASSUME NEW r \in Runs, ResolveBuild(r) PROVE TypeOK'
  <2>1. subject[r] \in Base /\ fresh[r] \subseteq Names /\ "build" \in Names
      BY DEF TypeOK, Names
  <2>2. CASE buildTag # None
    <3>1. buildTag \in Runs
        BY <2>2 DEF TypeOK
    <3>2. [subject[r] EXCEPT !.build = buildTag] \in Base
        BY <2>1, <3>1 DEF Base
    <3>3. subject' = [subject EXCEPT ![r] = [subject[r] EXCEPT !.build = buildTag]] /\ fresh' = fresh
        BY <1>6, <2>2 DEF ResolveBuild
    <3>4. subject' \in [Runs -> Base]
        BY <3>2, <3>3 DEF TypeOK
    <3> QED BY <1>6, <3>3, <3>4 DEF TypeOK, ResolveBuild, Move
  <2>3. CASE buildTag = None
    <3>1. [subject[r] EXCEPT !.build = r] \in Base
        BY <2>1 DEF Base
    <3>2. fresh[r] \cup {"build"} \in SUBSET Names
        BY <2>1
    <3>3. subject' \in [Runs -> Base]
        BY <1>6, <2>3, <3>1 DEF TypeOK, ResolveBuild
    <3>4. fresh' \in [Runs -> SUBSET Names]
        BY <1>6, <2>3, <3>2 DEF TypeOK, ResolveBuild
    <3> QED BY <1>6, <3>3, <3>4 DEF TypeOK, ResolveBuild, Move
  <2> QED BY <2>2, <2>3
<1>7. ASSUME NEW r \in Runs, EnsureFinish(r) PROVE TypeOK'
    BY <1>7 DEF TypeOK, EnsureFinish, Move
<1>8. ASSUME NEW r \in Runs, StoreConfirm(r) PROVE TypeOK'
  <2>1. tagged' \in [Runs -> SUBSET Names]
      BY <1>8 DEF TypeOK, StoreConfirm
  <2>2. CASE Move(r, "store", "consume") /\ UNCHANGED setbacks
      BY <1>8, <2>1, <2>2 DEF TypeOK, StoreConfirm, Move
  <2>3. CASE Setback(r, "store")
      BY <1>8, <2>1, <2>3, SetbackStep DEF TypeOK, StoreConfirm
  <2> QED BY <1>8, <2>2, <2>3 DEF StoreConfirm
<1>9. ASSUME NEW r \in Runs, BindToolchain(r) PROVE TypeOK'
    BY <1>9 DEF TypeOK, BindToolchain, Move, Selection
<1>10. ASSUME NEW r \in Runs, BindBuild(r) PROVE TypeOK'
    BY <1>10 DEF TypeOK, BindBuild, Move, Selection
<1>11. ASSUME NEW r \in Runs, BindFinish(r) PROVE TypeOK'
    BY <1>11 DEF TypeOK, BindFinish, Move
<1>12. ASSUME NEW r \in Runs, RerunFailed(r) PROVE TypeOK'
    BY <1>12 DEF TypeOK, RerunFailed, Move, Selection, NoSelection
<1>13. ASSUME NEW r \in Runs, RerunAll(r) PROVE TypeOK'
    BY <1>13 DEF TypeOK, RerunAll, Move, Selection, NoSelection, Base, NoBase
<1>14. ASSUME NEW r \in Runs, ProducerDies(r) PROVE TypeOK'
  <2>1. subject' \in [Runs -> Base] /\ settled' \in [Runs -> SUBSET Parts] /\ fresh' \in [Runs -> SUBSET Names]
      BY <1>14 DEF TypeOK, ProducerDies, Base, NoBase
  <2>2. phase' \in [Runs -> Phases] /\ setbacks' \in [Runs -> 0 .. MaxSetbacks]
      BY <1>14, SetbackStep DEF ProducerDies
  <2> QED BY <1>14, <2>1, <2>2 DEF TypeOK, ProducerDies
<1>15. ASSUME NEW r \in Runs, StoreDies(r) PROVE TypeOK'
  <2>1. tagged' \in [Runs -> SUBSET Names]
      BY <1>15 DEF TypeOK, StoreDies
  <2>2. phase' \in [Runs -> Phases] /\ setbacks' \in [Runs -> 0 .. MaxSetbacks]
      BY <1>15, SetbackStep DEF StoreDies
  <2> QED BY <1>15, <2>1, <2>2 DEF TypeOK, StoreDies
<1>16. ASSUME NEW r \in Runs, ConsumerDies(r) PROVE TypeOK'
  <2>1. settled' \in [Runs -> SUBSET Parts] /\ chosen' \in [Runs -> Selection]
      BY <1>16 DEF TypeOK, ConsumerDies, Selection, NoSelection
  <2>2. phase' \in [Runs -> Phases] /\ setbacks' \in [Runs -> 0 .. MaxSetbacks]
      BY <1>16, SetbackStep DEF ConsumerDies
  <2> QED BY <1>16, <2>1, <2>2 DEF TypeOK, ConsumerDies
<1>17. ASSUME NEW r \in Runs, NEW p \in Parts, EnsurePart(r, p) PROVE TypeOK'
    BY <1>17 DEF TypeOK, EnsurePart, Names
<1>18. ASSUME NEW r \in Runs, NEW p \in Parts, BindPart(r, p) PROVE TypeOK'
  <2>1. PICK part \in Artifact \cup {None} : chosen' = [chosen EXCEPT ![r].parts[p] = part]
      BY <1>18 DEF TypeOK, BindPart
  <2>2. chosen' \in [Runs -> Selection]
      BY <2>1 DEF TypeOK, Selection
  <2> QED BY <1>18, <2>2 DEF TypeOK, BindPart
<1>19. ASSUME NEW r \in Runs, NEW name \in Names, StoreTag(r, name) PROVE TypeOK'
  <2>1. subject[r].toolchain \in Runs /\ subject[r].build \in Runs
      BY <1>19 DEF SubjectsVerified, StoreTag, Consuming
  <2>2. tagged' \in [Runs -> SUBSET Names]
      BY <1>19 DEF TypeOK, StoreTag
  <2>3. CASE name = "build"
      BY <1>19, <2>2, <2>3 DEF TypeOK, StoreTag
  <2>4. CASE name # "build"
    <3>1. name \in Parts
        BY <2>4 DEF Names
    <3>2. InputOf(subject[r], name) \in Input /\ ArtifactOf(r, name) \in Artifact
        BY <2>1, <3>1 DEF InputOf, ArtifactOf, Input, Artifact
    <3>3. partTag' \in [Input -> Artifact \cup {None}]
        BY <1>19, <2>4, <3>2 DEF TypeOK, StoreTag
    <3> QED BY <1>19, <2>2, <2>4, <3>3 DEF TypeOK, StoreTag
  <2> QED BY <2>3, <2>4
<1>20. CASE UNCHANGED vars
    BY <1>20 DEF TypeOK, vars
<1> QED BY <1>1, <1>2, <1>3, <1>4, <1>5, <1>6, <1>7, <1>8, <1>9, <1>10, <1>11, <1>12, <1>13, <1>14, <1>15, <1>16, <1>17, <1>18, <1>19, <1>20 DEF Next, Progress

\* The subjects of a run are verified before they are used.
LEMMA SubjectsStep ==
    TypeOK /\ SubjectsVerified /\ [Next]_vars => SubjectsVerified'
<1> SUFFICES ASSUME TypeOK, SubjectsVerified, [Next]_vars PROVE SubjectsVerified'
    OBVIOUS
<1> USE PreparedAssumption DEF producer, registry
<1>1. ASSUME NEW r \in Runs, ToolchainAvailable(r) PROVE SubjectsVerified'
    BY <1>1 DEF TypeOK, SubjectsVerified, Consuming, ToolchainAvailable, Move
<1>2. ASSUME NEW r \in Runs, ToolchainMissing(r) PROVE SubjectsVerified'
    BY <1>2 DEF TypeOK, SubjectsVerified, Consuming, ToolchainMissing, Move
<1>3. ASSUME NEW r \in Runs, PublishToolchain(r) PROVE SubjectsVerified'
    BY <1>3 DEF TypeOK, SubjectsVerified, Consuming, PublishToolchain, Move
<1>4. ASSUME NEW r \in Runs, ConfirmToolchain(r) PROVE SubjectsVerified'
  <2>1. CASE Move(r, "confirm", "python") /\ UNCHANGED setbacks
      BY <1>4, <2>1 DEF TypeOK, SubjectsVerified, Consuming, ConfirmToolchain, Move
  <2>2. CASE Setback(r, "publish")
      BY <1>4, <2>2, SetbackStep DEF TypeOK, SubjectsVerified, Consuming, ConfirmToolchain, Phases
  <2> QED BY <1>4, <2>1, <2>2 DEF ConfirmToolchain
<1>5. ASSUME NEW r \in Runs, ResolveToolchain(r) PROVE SubjectsVerified'
  <2>1. subject[r] \in Base /\ toolchainTag \in Runs
      BY <1>5 DEF TypeOK, ResolveToolchain
  <2>2. subject'[r].toolchain = toolchainTag
      BY <1>5, <2>1 DEF TypeOK, Base, ResolveToolchain
  <2>3. \A other \in Runs \ {r} : subject'[other] = subject[other] /\ phase'[other] = phase[other]
      BY <1>5 DEF TypeOK, ResolveToolchain, Move
  <2>4. phase'[r] = "build"
      BY <1>5 DEF TypeOK, ResolveToolchain, Move
  <2> QED BY <2>1, <2>2, <2>3, <2>4 DEF SubjectsVerified, Consuming
<1>6. ASSUME NEW r \in Runs, ResolveBuild(r) PROVE SubjectsVerified'
  <2>1. subject[r] \in Base /\ subject[r].toolchain \in Runs
      BY <1>6 DEF TypeOK, SubjectsVerified, ResolveBuild, Move
  <2>2. PICK b \in Runs : subject' = [subject EXCEPT ![r] = [subject[r] EXCEPT !.build = b]]
    <3>1. CASE buildTag # None
        BY <1>6, <3>1 DEF TypeOK, ResolveBuild
    <3>2. CASE buildTag = None
        BY <1>6, <3>2 DEF ResolveBuild
    <3> QED BY <3>1, <3>2
  <2>3. subject'[r].toolchain = subject[r].toolchain /\ subject'[r].build = b
      BY <2>1, <2>2 DEF TypeOK, Base
  <2>4. \A other \in Runs \ {r} : subject'[other] = subject[other] /\ phase'[other] = phase[other]
      BY <1>6, <2>2 DEF TypeOK, ResolveBuild, Move
  <2> QED BY <2>1, <2>3, <2>4 DEF SubjectsVerified, Consuming
<1>7. ASSUME NEW r \in Runs, EnsureFinish(r) PROVE SubjectsVerified'
    BY <1>7 DEF TypeOK, SubjectsVerified, Consuming, EnsureFinish, Move
<1>8. ASSUME NEW r \in Runs, StoreConfirm(r) PROVE SubjectsVerified'
    BY <1>8, SetbackStep DEF TypeOK, SubjectsVerified, Consuming, StoreConfirm, Move, Phases
<1>9. ASSUME NEW r \in Runs, BindToolchain(r) PROVE SubjectsVerified'
    BY <1>9 DEF TypeOK, SubjectsVerified, Consuming, BindToolchain, Move
<1>10. ASSUME NEW r \in Runs, BindBuild(r) PROVE SubjectsVerified'
    BY <1>10 DEF TypeOK, SubjectsVerified, Consuming, BindBuild, Move
<1>11. ASSUME NEW r \in Runs, BindFinish(r) PROVE SubjectsVerified'
    BY <1>11 DEF TypeOK, SubjectsVerified, Consuming, BindFinish, Move
<1>12. ASSUME NEW r \in Runs, RerunFailed(r) PROVE SubjectsVerified'
    BY <1>12 DEF TypeOK, SubjectsVerified, Consuming, RerunFailed, Move
<1>13. ASSUME NEW r \in Runs, RerunAll(r) PROVE SubjectsVerified'
    BY <1>13 DEF TypeOK, SubjectsVerified, Consuming, RerunAll, Move, NoBase
<1>14. ASSUME NEW r \in Runs, ProducerDies(r) PROVE SubjectsVerified'
    BY <1>14, SetbackStep DEF TypeOK, SubjectsVerified, Consuming, ProducerDies, Move, Phases, NoBase
<1>15. ASSUME NEW r \in Runs, StoreDies(r) PROVE SubjectsVerified'
    BY <1>15, SetbackStep DEF TypeOK, SubjectsVerified, Consuming, StoreDies, Move, Phases
<1>16. ASSUME NEW r \in Runs, ConsumerDies(r) PROVE SubjectsVerified'
    BY <1>16, SetbackStep DEF TypeOK, SubjectsVerified, Consuming, ConsumerDies, Move, Phases
<1>17. ASSUME NEW r \in Runs, NEW p \in Parts, EnsurePart(r, p) PROVE SubjectsVerified'
    BY <1>17 DEF TypeOK, SubjectsVerified, Consuming, EnsurePart, Move
<1>18. ASSUME NEW r \in Runs, NEW p \in Parts, BindPart(r, p) PROVE SubjectsVerified'
    BY <1>18 DEF TypeOK, SubjectsVerified, Consuming, BindPart, Move
<1>19. ASSUME NEW r \in Runs, NEW name \in Names, StoreTag(r, name) PROVE SubjectsVerified'
    BY <1>19 DEF TypeOK, SubjectsVerified, Consuming, StoreTag, Move
<1>20. CASE UNCHANGED vars
    BY <1>20 DEF TypeOK, SubjectsVerified, Consuming, vars
<1> QED BY <1>1, <1>2, <1>3, <1>4, <1>5, <1>6, <1>7, <1>8, <1>9, <1>10,
       <1>11, <1>12, <1>13, <1>14, <1>15, <1>16, <1>17, <1>18, <1>19, <1>20 DEF Next, Progress

\* A job starts with nothing settled and nothing tagged.
LEMMA JobLocalStep ==
    TypeOK /\ JobLocal /\ [Next]_vars => JobLocal'
<1> SUFFICES ASSUME TypeOK, JobLocal, [Next]_vars PROVE JobLocal'
    OBVIOUS
<1> USE PreparedAssumption DEF producer, registry
<1>1. ASSUME NEW r \in Runs, ToolchainAvailable(r) PROVE JobLocal'
    BY <1>1 DEF TypeOK, JobLocal, ToolchainAvailable, Move
<1>2. ASSUME NEW r \in Runs, ToolchainMissing(r) PROVE JobLocal'
    BY <1>2 DEF TypeOK, JobLocal, ToolchainMissing, Move
<1>3. ASSUME NEW r \in Runs, PublishToolchain(r) PROVE JobLocal'
    BY <1>3 DEF TypeOK, JobLocal, PublishToolchain, Move
<1>4. ASSUME NEW r \in Runs, ConfirmToolchain(r) PROVE JobLocal'
    BY <1>4, SetbackStep DEF TypeOK, JobLocal, ConfirmToolchain, Move, Phases
<1>5. ASSUME NEW r \in Runs, ResolveToolchain(r) PROVE JobLocal'
    BY <1>5 DEF TypeOK, JobLocal, ResolveToolchain, Move
<1>6. ASSUME NEW r \in Runs, ResolveBuild(r) PROVE JobLocal'
    BY <1>6 DEF TypeOK, JobLocal, ResolveBuild, Move
<1>7. ASSUME NEW r \in Runs, EnsureFinish(r) PROVE JobLocal'
    BY <1>7 DEF TypeOK, JobLocal, EnsureFinish, Move
<1>8. ASSUME NEW r \in Runs, StoreConfirm(r) PROVE JobLocal'
    BY <1>8, SetbackStep DEF TypeOK, JobLocal, StoreConfirm, Move, Phases
<1>9. ASSUME NEW r \in Runs, BindToolchain(r) PROVE JobLocal'
    BY <1>9 DEF TypeOK, JobLocal, BindToolchain, Move
<1>10. ASSUME NEW r \in Runs, BindBuild(r) PROVE JobLocal'
    BY <1>10 DEF TypeOK, JobLocal, BindBuild, Move
<1>11. ASSUME NEW r \in Runs, BindFinish(r) PROVE JobLocal'
    BY <1>11 DEF TypeOK, JobLocal, BindFinish, Move
<1>12. ASSUME NEW r \in Runs, RerunFailed(r) PROVE JobLocal'
    BY <1>12 DEF TypeOK, JobLocal, RerunFailed, Move
<1>13. ASSUME NEW r \in Runs, RerunAll(r) PROVE JobLocal'
    BY <1>13 DEF TypeOK, JobLocal, RerunAll, Move
<1>14. ASSUME NEW r \in Runs, ProducerDies(r) PROVE JobLocal'
    BY <1>14, SetbackStep DEF TypeOK, JobLocal, ProducerDies, Move, Phases
<1>15. ASSUME NEW r \in Runs, StoreDies(r) PROVE JobLocal'
    BY <1>15, SetbackStep DEF TypeOK, JobLocal, StoreDies, Move, Phases
<1>16. ASSUME NEW r \in Runs, ConsumerDies(r) PROVE JobLocal'
    BY <1>16, SetbackStep DEF TypeOK, JobLocal, ConsumerDies, Move, Phases
<1>17. ASSUME NEW r \in Runs, NEW p \in Parts, EnsurePart(r, p) PROVE JobLocal'
    BY <1>17 DEF TypeOK, JobLocal, EnsurePart, Move
<1>18. ASSUME NEW r \in Runs, NEW p \in Parts, BindPart(r, p) PROVE JobLocal'
    BY <1>18 DEF TypeOK, JobLocal, BindPart, Move, Unsettled
<1>19. ASSUME NEW r \in Runs, NEW name \in Names, StoreTag(r, name) PROVE JobLocal'
    BY <1>19 DEF TypeOK, JobLocal, StoreTag, Move
<1>20. CASE UNCHANGED vars
    BY <1>20 DEF TypeOK, JobLocal, vars
<1> QED BY <1>1, <1>2, <1>3, <1>4, <1>5, <1>6, <1>7, <1>8, <1>9, <1>10,
       <1>11, <1>12, <1>13, <1>14, <1>15, <1>16, <1>17, <1>18, <1>19, <1>20 DEF Next, Progress

\* Only what was built for an input is tagged as such.
LEMMA TagsMatchStep ==
    TypeOK /\ SubjectsVerified /\ TagsMatch /\ [Next]_vars => TagsMatch'
<1> SUFFICES ASSUME TypeOK, SubjectsVerified, TagsMatch, [Next]_vars PROVE TagsMatch'
    OBVIOUS
<1> USE PreparedAssumption DEF producer, registry
<1>1. ASSUME NEW r \in Runs, ToolchainAvailable(r) PROVE TagsMatch'
    BY <1>1 DEF TypeOK, TagsMatch, ToolchainAvailable, Move
<1>2. ASSUME NEW r \in Runs, ToolchainMissing(r) PROVE TagsMatch'
    BY <1>2 DEF TypeOK, TagsMatch, ToolchainMissing, Move
<1>3. ASSUME NEW r \in Runs, PublishToolchain(r) PROVE TagsMatch'
    BY <1>3 DEF TypeOK, TagsMatch, PublishToolchain, Move
<1>4. ASSUME NEW r \in Runs, ConfirmToolchain(r) PROVE TagsMatch'
    BY <1>4, SetbackStep DEF TypeOK, TagsMatch, ConfirmToolchain, Move, Phases
<1>5. ASSUME NEW r \in Runs, ResolveToolchain(r) PROVE TagsMatch'
    BY <1>5 DEF TypeOK, TagsMatch, ResolveToolchain, Move
<1>6. ASSUME NEW r \in Runs, ResolveBuild(r) PROVE TagsMatch'
    BY <1>6 DEF TypeOK, TagsMatch, ResolveBuild, Move
<1>7. ASSUME NEW r \in Runs, EnsureFinish(r) PROVE TagsMatch'
    BY <1>7 DEF TypeOK, TagsMatch, EnsureFinish, Move
<1>8. ASSUME NEW r \in Runs, StoreConfirm(r) PROVE TagsMatch'
    BY <1>8, SetbackStep DEF TypeOK, TagsMatch, StoreConfirm, Move, Phases
<1>9. ASSUME NEW r \in Runs, BindToolchain(r) PROVE TagsMatch'
    BY <1>9 DEF TypeOK, TagsMatch, BindToolchain, Move
<1>10. ASSUME NEW r \in Runs, BindBuild(r) PROVE TagsMatch'
    BY <1>10 DEF TypeOK, TagsMatch, BindBuild, Move
<1>11. ASSUME NEW r \in Runs, BindFinish(r) PROVE TagsMatch'
    BY <1>11 DEF TypeOK, TagsMatch, BindFinish, Move
<1>12. ASSUME NEW r \in Runs, RerunFailed(r) PROVE TagsMatch'
    BY <1>12 DEF TypeOK, TagsMatch, RerunFailed, Move
<1>13. ASSUME NEW r \in Runs, RerunAll(r) PROVE TagsMatch'
    BY <1>13 DEF TypeOK, TagsMatch, RerunAll, Move
<1>14. ASSUME NEW r \in Runs, ProducerDies(r) PROVE TagsMatch'
    BY <1>14, SetbackStep DEF TypeOK, TagsMatch, ProducerDies, Move, Phases
<1>15. ASSUME NEW r \in Runs, StoreDies(r) PROVE TagsMatch'
    BY <1>15, SetbackStep DEF TypeOK, TagsMatch, StoreDies, Move, Phases
<1>16. ASSUME NEW r \in Runs, ConsumerDies(r) PROVE TagsMatch'
    BY <1>16, SetbackStep DEF TypeOK, TagsMatch, ConsumerDies, Move, Phases
<1>17. ASSUME NEW r \in Runs, NEW p \in Parts, EnsurePart(r, p) PROVE TagsMatch'
    BY <1>17 DEF TypeOK, TagsMatch, EnsurePart, Move
<1>18. ASSUME NEW r \in Runs, NEW p \in Parts, BindPart(r, p) PROVE TagsMatch'
    BY <1>18 DEF TypeOK, TagsMatch, BindPart, Move
<1>19. ASSUME NEW r \in Runs, NEW name \in Names, StoreTag(r, name) PROVE TagsMatch'
  <2>1. CASE name = "build"
      BY <1>19, <2>1 DEF TagsMatch, StoreTag
  <2>2. CASE name # "build"
    <3> DEFINE input == InputOf(subject[r], name)
    <3>1. partTag' = [partTag EXCEPT ![input] = ArtifactOf(r, name)]
        BY <1>19, <2>2 DEF StoreTag
    <3>2. ASSUME NEW i \in Input, partTag'[i] # None
          PROVE  partTag'[i].toolchain = i.toolchain /\ partTag'[i].build = i.build
      <4>1. CASE i = input
          BY <3>1, <4>1 DEF TypeOK, ArtifactOf, InputOf
      <4>2. CASE i # input
          BY <3>1, <3>2, <4>2 DEF TypeOK, TagsMatch
      <4> QED BY <4>1, <4>2
    <3> QED BY <3>2 DEF TagsMatch
  <2> QED BY <2>1, <2>2
<1>20. CASE UNCHANGED vars
    BY <1>20 DEF TypeOK, TagsMatch, vars
<1> QED BY <1>1, <1>2, <1>3, <1>4, <1>5, <1>6, <1>7, <1>8, <1>9, <1>10,
       <1>11, <1>12, <1>13, <1>14, <1>15, <1>16, <1>17, <1>18, <1>19, <1>20 DEF Next, Progress

\* What an input's tag leads to may change, but a tag is never removed.
LEMMA TagsGrow ==
    TypeOK /\ SubjectsVerified /\ [Next]_vars =>
        \A i \in Input : partTag[i] # None => partTag'[i] # None
<1> SUFFICES ASSUME TypeOK, SubjectsVerified, [Next]_vars, NEW i \in Input, partTag[i] # None
             PROVE  partTag'[i] # None
    OBVIOUS
<1>1. ASSUME NEW r \in Runs, NEW name \in Names, StoreTag(r, name) PROVE partTag'[i] # None
  <2>1. CASE name = "build"
      BY <1>1, <2>1 DEF StoreTag
  <2>2. CASE name # "build"
    <3>1. ArtifactOf(r, name) \in Artifact
        BY <1>1, <2>2 DEF ArtifactOf, Artifact, Names, SubjectsVerified, Consuming, StoreTag
    <3>2. partTag' = [partTag EXCEPT ![InputOf(subject[r], name)] = ArtifactOf(r, name)]
        BY <1>1, <2>2 DEF StoreTag
    <3> QED BY <3>1, <3>2, PreparedAssumption DEF TypeOK
  <2> QED BY <2>1, <2>2
<1>2. CASE partTag' = partTag
    BY <1>2
<1>3. partTag' = partTag \/ \E r \in Runs, name \in Names : StoreTag(r, name)
    BY DEF Next, Progress, vars, registry, ToolchainAvailable, ToolchainMissing, PublishToolchain,
           ConfirmToolchain, ResolveToolchain, ResolveBuild, EnsureFinish, StoreConfirm,
           BindToolchain, BindBuild, BindFinish, EnsurePart, BindPart,
           RerunFailed, RerunAll, ProducerDies, StoreDies, ConsumerDies
<1> QED BY <1>1, <1>2, <1>3

\* The parts a run has prepared remain so while it does nothing itself, and
\* while it goes on without changing its subjects.
LEMMA StaysTagged ==
    ASSUME TypeOK, SubjectsVerified, [Next]_vars, NEW r \in Runs, NEW p \in Parts,
           phase[r] \in {"parts", "store"} \cup Consuming, HasTag(r, p), subject'[r] = subject[r]
    PROVE  HasTag(r, p)'
<1>1. InputOf(subject[r], p) \in Input
    BY DEF SubjectsVerified, InputOf, Input
<1> QED BY <1>1, TagsGrow DEF HasTag, InputOf

\* Nothing changes for the runs that do not act.
LEMMA OthersPrepared ==
    ASSUME TypeOK, SubjectsVerified, Prepared, [Next]_vars, NEW r \in Runs,
           phase'[r] = phase[r], subject'[r] = subject[r], settled'[r] = settled[r],
           fresh'[r] = fresh[r], tagged'[r] = tagged[r]
    PROVE  \A p \in Parts : PreparedAt(r, p)'
    BY StaysTagged DEF Prepared, PreparedAt, Consuming

\* A run that leaves its jobs has nothing to be prepared for.
LEMMA NothingToPrepare ==
    ASSUME NEW r \in Runs, phase'[r] \in {"toolchain", "publish", "confirm", "python", "build", "abandoned"}
    PROVE  \A p \in Parts : PreparedAt(r, p)'
    BY DEF PreparedAt, Consuming

\* A part stays prepared while its run goes on, whoever moves its tag.
LEMMA PreparedStep ==
    TypeOK /\ SubjectsVerified /\ JobLocal /\ Prepared /\ [Next]_vars => Prepared'
<1> SUFFICES ASSUME TypeOK, SubjectsVerified, JobLocal, Prepared, [Next]_vars PROVE Prepared'
    OBVIOUS
<1> USE DEF producer, registry
<1>1. ASSUME NEW r \in Runs, ToolchainAvailable(r) PROVE Prepared'
  <2>1. ASSUME NEW other \in Runs \ {r} PROVE \A q \in Parts : PreparedAt(other, q)'
    <3>1. phase'[other] = phase[other]
        BY <1>1 DEF TypeOK, ToolchainAvailable, Move
    <3>2. subject'[other] = subject[other] /\ fresh'[other] = fresh[other]
        BY <1>1 DEF TypeOK, ToolchainAvailable
    <3>3. settled'[other] = settled[other] /\ tagged'[other] = tagged[other]
        BY <1>1 DEF TypeOK, ToolchainAvailable
    <3> QED BY <3>1, <3>2, <3>3, OthersPrepared
  <2>2. \A q \in Parts : PreparedAt(r, q)'
    <3>1. phase'[r] \in {"python"}
        BY <1>1 DEF TypeOK, ToolchainAvailable, Move
    <3> QED BY <3>1, NothingToPrepare
  <2> QED BY <2>1, <2>2 DEF Prepared
<1>2. ASSUME NEW r \in Runs, ToolchainMissing(r) PROVE Prepared'
  <2>1. ASSUME NEW other \in Runs \ {r} PROVE \A q \in Parts : PreparedAt(other, q)'
    <3>1. phase'[other] = phase[other]
        BY <1>2 DEF TypeOK, ToolchainMissing, Move
    <3>2. subject'[other] = subject[other] /\ fresh'[other] = fresh[other]
        BY <1>2 DEF TypeOK, ToolchainMissing
    <3>3. settled'[other] = settled[other] /\ tagged'[other] = tagged[other]
        BY <1>2 DEF TypeOK, ToolchainMissing
    <3> QED BY <3>1, <3>2, <3>3, OthersPrepared
  <2>2. \A q \in Parts : PreparedAt(r, q)'
    <3>1. phase'[r] \in {"publish"}
        BY <1>2 DEF TypeOK, ToolchainMissing, Move
    <3> QED BY <3>1, NothingToPrepare
  <2> QED BY <2>1, <2>2 DEF Prepared
<1>3. ASSUME NEW r \in Runs, PublishToolchain(r) PROVE Prepared'
  <2>1. ASSUME NEW other \in Runs \ {r} PROVE \A q \in Parts : PreparedAt(other, q)'
    <3>1. phase'[other] = phase[other]
        BY <1>3 DEF TypeOK, PublishToolchain, Move
    <3>2. subject'[other] = subject[other] /\ fresh'[other] = fresh[other]
        BY <1>3 DEF TypeOK, PublishToolchain
    <3>3. settled'[other] = settled[other] /\ tagged'[other] = tagged[other]
        BY <1>3 DEF TypeOK, PublishToolchain
    <3> QED BY <3>1, <3>2, <3>3, OthersPrepared
  <2>2. \A q \in Parts : PreparedAt(r, q)'
    <3>1. phase'[r] \in {"confirm"}
        BY <1>3 DEF TypeOK, PublishToolchain, Move
    <3> QED BY <3>1, NothingToPrepare
  <2> QED BY <2>1, <2>2 DEF Prepared
<1>4. ASSUME NEW r \in Runs, ConfirmToolchain(r) PROVE Prepared'
  <2>1. ASSUME NEW other \in Runs \ {r} PROVE \A q \in Parts : PreparedAt(other, q)'
    <3>1. phase'[other] = phase[other]
      <4>1. CASE Move(r, "confirm", "python")
          BY <4>1 DEF TypeOK, Move
      <4>2. CASE Setback(r, "publish")
          BY <4>2, SetbackStep DEF Phases
      <4> QED BY <1>4, <4>1, <4>2 DEF ConfirmToolchain
    <3> QED BY <1>4, <2>1, <3>1, OthersPrepared DEF TypeOK, ConfirmToolchain
  <2>2. \A q \in Parts : PreparedAt(r, q)'
    <3>1. phase'[r] \in {"python", "publish", "abandoned"}
      <4>1. CASE Move(r, "confirm", "python")
          BY <4>1 DEF TypeOK, Move
      <4>2. CASE Setback(r, "publish")
          BY <4>2, SetbackStep DEF Phases
      <4> QED BY <1>4, <4>1, <4>2 DEF ConfirmToolchain
    <3> QED BY <3>1, NothingToPrepare
  <2> QED BY <2>1, <2>2 DEF Prepared
<1>5. ASSUME NEW r \in Runs, ResolveToolchain(r) PROVE Prepared'
  <2>1. ASSUME NEW other \in Runs \ {r} PROVE \A q \in Parts : PreparedAt(other, q)'
    <3>1. phase'[other] = phase[other]
        BY <1>5 DEF TypeOK, ResolveToolchain, Move
    <3>2. subject'[other] = subject[other] /\ fresh'[other] = fresh[other]
        BY <1>5 DEF TypeOK, ResolveToolchain, Base
    <3>3. settled'[other] = settled[other] /\ tagged'[other] = tagged[other]
        BY <1>5 DEF TypeOK, ResolveToolchain
    <3> QED BY <3>1, <3>2, <3>3, OthersPrepared
  <2>2. \A q \in Parts : PreparedAt(r, q)'
    <3>1. phase'[r] \in {"build"}
        BY <1>5 DEF TypeOK, ResolveToolchain, Move
    <3> QED BY <3>1, NothingToPrepare
  <2> QED BY <2>1, <2>2 DEF Prepared
<1>6. ASSUME NEW r \in Runs, ResolveBuild(r) PROVE Prepared'
  <2>1. ASSUME NEW other \in Runs \ {r} PROVE \A q \in Parts : PreparedAt(other, q)'
    <3>1. phase'[other] = phase[other]
        BY <1>6 DEF TypeOK, ResolveBuild, Move
    <3>2. subject'[other] = subject[other] /\ fresh'[other] = fresh[other]
        BY <1>6 DEF TypeOK, ResolveBuild, Base
    <3>3. settled'[other] = settled[other] /\ tagged'[other] = tagged[other]
        BY <1>6 DEF TypeOK, ResolveBuild
    <3> QED BY <3>1, <3>2, <3>3, OthersPrepared
  <2>2. \A q \in Parts : PreparedAt(r, q)'
    <3>1. phase'[r] = "parts" /\ settled'[r] = {}
        BY <1>6 DEF TypeOK, JobLocal, ResolveBuild, Move
    <3> QED BY <3>1 DEF PreparedAt, Consuming
  <2> QED BY <2>1, <2>2 DEF Prepared
<1>7. ASSUME NEW r \in Runs, EnsureFinish(r) PROVE Prepared'
  <2>1. ASSUME NEW other \in Runs \ {r} PROVE \A q \in Parts : PreparedAt(other, q)'
    <3>1. phase'[other] = phase[other]
        BY <1>7 DEF TypeOK, EnsureFinish, Move
    <3>2. subject'[other] = subject[other] /\ fresh'[other] = fresh[other]
        BY <1>7 DEF TypeOK, EnsureFinish
    <3>3. settled'[other] = settled[other] /\ tagged'[other] = tagged[other]
        BY <1>7 DEF TypeOK, EnsureFinish
    <3> QED BY <3>1, <3>2, <3>3, OthersPrepared
  <2>2. \A q \in Parts : PreparedAt(r, q)'
    <3>1. phase[r] = "parts" /\ settled[r] = Parts /\ tagged'[r] = {} /\ fresh'[r] = fresh[r]
        BY <1>7 DEF JobLocal, EnsureFinish, Move
    <3>2. phase'[r] = IF fresh[r] = {} THEN "consume" ELSE "store"
        BY <1>7 DEF TypeOK, EnsureFinish, Move
    <3>3. subject'[r] = subject[r]
        BY <1>7 DEF EnsureFinish
    <3>4. ASSUME NEW p \in Parts PROVE HasTag(r, p)' \/ p \in fresh[r]
        BY <3>1, <3>3, StaysTagged DEF Prepared, PreparedAt
    <3> QED BY <3>1, <3>2, <3>4 DEF PreparedAt, Consuming
  <2> QED BY <2>1, <2>2 DEF Prepared
<1>8. ASSUME NEW r \in Runs, StoreConfirm(r) PROVE Prepared'
  <2>1. ASSUME NEW other \in Runs \ {r} PROVE \A q \in Parts : PreparedAt(other, q)'
    <3>1. phase'[other] = phase[other]
      <4>1. CASE Move(r, "store", "consume")
          BY <4>1 DEF TypeOK, Move
      <4>2. CASE Setback(r, "store")
          BY <4>2, SetbackStep DEF Phases
      <4> QED BY <1>8, <4>1, <4>2 DEF StoreConfirm
    <3> QED BY <1>8, <2>1, <3>1, OthersPrepared DEF TypeOK, StoreConfirm
  <2>2. \A q \in Parts : PreparedAt(r, q)'
    <3>1. CASE Move(r, "store", "consume") /\ \A name \in fresh[r] : StillTagged(r, name)
      <4>1. ASSUME NEW p \in Parts PROVE HasTag(r, p)
        <5>1. CASE p \in fresh[r]
            BY <1>8, <3>1, <5>1 DEF Prepared, PreparedAt, StoreConfirm
        <5>2. CASE p \notin fresh[r]
            BY <1>8, <5>2 DEF Prepared, PreparedAt, StoreConfirm
        <5> QED BY <5>1, <5>2
      <4>2. phase[r] = "store" /\ phase'[r] = "consume" /\ subject'[r] = subject[r]
          BY <1>8, <3>1 DEF TypeOK, StoreConfirm, Move
      <4> QED BY <4>1, <4>2, StaysTagged DEF PreparedAt
    <3>2. CASE Setback(r, "store")
      <4>1. phase[r] = "store" /\ phase'[r] \in {"store", "abandoned"} /\ subject'[r] = subject[r]
            /\ fresh'[r] = fresh[r] /\ tagged'[r] = {}
          BY <1>8, <3>2, SetbackStep DEF TypeOK, StoreConfirm, Phases
      <4> QED BY <4>1, StaysTagged DEF Prepared, PreparedAt, Consuming
    <3> QED BY <1>8, <3>1, <3>2 DEF StoreConfirm
  <2> QED BY <2>1, <2>2 DEF Prepared
<1>9. ASSUME NEW r \in Runs, BindToolchain(r) PROVE Prepared'
  <2>1. ASSUME NEW other \in Runs \ {r} PROVE \A q \in Parts : PreparedAt(other, q)'
    <3>1. phase'[other] = phase[other]
        BY <1>9 DEF TypeOK, BindToolchain, Move
    <3>2. subject'[other] = subject[other] /\ fresh'[other] = fresh[other]
        BY <1>9 DEF TypeOK, BindToolchain
    <3>3. settled'[other] = settled[other] /\ tagged'[other] = tagged[other]
        BY <1>9 DEF TypeOK, BindToolchain
    <3> QED BY <3>1, <3>2, <3>3, OthersPrepared
  <2>2. \A q \in Parts : PreparedAt(r, q)'
    <3>1. phase[r] \in Consuming /\ phase'[r] \in Consuming /\ subject'[r] = subject[r]
        BY <1>9 DEF TypeOK, BindToolchain, Move, Consuming
    <3> QED BY <3>1, StaysTagged DEF Prepared, PreparedAt, Consuming
  <2> QED BY <2>1, <2>2 DEF Prepared
<1>10. ASSUME NEW r \in Runs, BindBuild(r) PROVE Prepared'
  <2>1. ASSUME NEW other \in Runs \ {r} PROVE \A q \in Parts : PreparedAt(other, q)'
    <3>1. phase'[other] = phase[other]
        BY <1>10 DEF TypeOK, BindBuild, Move
    <3>2. subject'[other] = subject[other] /\ fresh'[other] = fresh[other]
        BY <1>10 DEF TypeOK, BindBuild
    <3>3. settled'[other] = settled[other] /\ tagged'[other] = tagged[other]
        BY <1>10 DEF TypeOK, BindBuild
    <3> QED BY <3>1, <3>2, <3>3, OthersPrepared
  <2>2. \A q \in Parts : PreparedAt(r, q)'
    <3>1. phase[r] \in Consuming /\ phase'[r] \in Consuming /\ subject'[r] = subject[r]
        BY <1>10 DEF TypeOK, BindBuild, Move, Consuming
    <3> QED BY <3>1, StaysTagged DEF Prepared, PreparedAt, Consuming
  <2> QED BY <2>1, <2>2 DEF Prepared
<1>11. ASSUME NEW r \in Runs, BindFinish(r) PROVE Prepared'
  <2>1. ASSUME NEW other \in Runs \ {r} PROVE \A q \in Parts : PreparedAt(other, q)'
    <3>1. phase'[other] = phase[other]
        BY <1>11 DEF TypeOK, BindFinish, Move
    <3>2. subject'[other] = subject[other] /\ fresh'[other] = fresh[other]
        BY <1>11 DEF TypeOK, BindFinish
    <3>3. settled'[other] = settled[other] /\ tagged'[other] = tagged[other]
        BY <1>11 DEF TypeOK, BindFinish
    <3> QED BY <3>1, <3>2, <3>3, OthersPrepared
  <2>2. \A q \in Parts : PreparedAt(r, q)'
    <3>1. phase[r] \in Consuming /\ phase'[r] \in Consuming /\ subject'[r] = subject[r]
        BY <1>11 DEF TypeOK, BindFinish, Move, Consuming
    <3> QED BY <3>1, StaysTagged DEF Prepared, PreparedAt, Consuming
  <2> QED BY <2>1, <2>2 DEF Prepared
<1>12. ASSUME NEW r \in Runs, RerunFailed(r) PROVE Prepared'
  <2>1. ASSUME NEW other \in Runs \ {r} PROVE \A q \in Parts : PreparedAt(other, q)'
    <3>1. phase'[other] = phase[other]
        BY <1>12 DEF TypeOK, RerunFailed, Move
    <3>2. subject'[other] = subject[other] /\ fresh'[other] = fresh[other]
        BY <1>12 DEF TypeOK, RerunFailed
    <3>3. settled'[other] = settled[other] /\ tagged'[other] = tagged[other]
        BY <1>12 DEF TypeOK, RerunFailed
    <3> QED BY <3>1, <3>2, <3>3, OthersPrepared
  <2>2. \A q \in Parts : PreparedAt(r, q)'
    <3>1. phase[r] \in Consuming /\ phase'[r] \in Consuming /\ subject'[r] = subject[r]
        BY <1>12 DEF TypeOK, RerunFailed, Move, Consuming
    <3> QED BY <3>1, StaysTagged DEF Prepared, PreparedAt, Consuming
  <2> QED BY <2>1, <2>2 DEF Prepared
<1>13. ASSUME NEW r \in Runs, RerunAll(r) PROVE Prepared'
  <2>1. ASSUME NEW other \in Runs \ {r} PROVE \A q \in Parts : PreparedAt(other, q)'
    <3>1. phase'[other] = phase[other]
        BY <1>13 DEF TypeOK, RerunAll, Move
    <3>2. subject'[other] = subject[other] /\ fresh'[other] = fresh[other]
        BY <1>13 DEF TypeOK, RerunAll
    <3>3. settled'[other] = settled[other] /\ tagged'[other] = tagged[other]
        BY <1>13 DEF TypeOK, RerunAll
    <3> QED BY <3>1, <3>2, <3>3, OthersPrepared
  <2>2. \A q \in Parts : PreparedAt(r, q)'
    <3>1. phase'[r] \in {"toolchain"}
        BY <1>13 DEF TypeOK, RerunAll, Move
    <3> QED BY <3>1, NothingToPrepare
  <2> QED BY <2>1, <2>2 DEF Prepared
<1>14. ASSUME NEW r \in Runs, ProducerDies(r) PROVE Prepared'
  <2>1. ASSUME NEW other \in Runs \ {r} PROVE \A q \in Parts : PreparedAt(other, q)'
    <3>1. phase'[other] = phase[other]
        BY <1>14, SetbackStep DEF TypeOK, ProducerDies, Move, Phases
    <3>2. subject'[other] = subject[other] /\ fresh'[other] = fresh[other]
        BY <1>14 DEF TypeOK, ProducerDies
    <3>3. settled'[other] = settled[other] /\ tagged'[other] = tagged[other]
        BY <1>14 DEF TypeOK, ProducerDies
    <3> QED BY <3>1, <3>2, <3>3, OthersPrepared
  <2>2. \A q \in Parts : PreparedAt(r, q)'
    <3>1. phase'[r] \in {"python", "abandoned"}
        BY <1>14, SetbackStep DEF TypeOK, ProducerDies, Move, Phases
    <3> QED BY <3>1, NothingToPrepare
  <2> QED BY <2>1, <2>2 DEF Prepared
<1>15. ASSUME NEW r \in Runs, StoreDies(r) PROVE Prepared'
  <2>1. ASSUME NEW other \in Runs \ {r} PROVE \A q \in Parts : PreparedAt(other, q)'
    <3>1. phase'[other] = phase[other]
        BY <1>15, SetbackStep DEF TypeOK, StoreDies, Move, Phases
    <3>2. subject'[other] = subject[other] /\ fresh'[other] = fresh[other]
        BY <1>15 DEF TypeOK, StoreDies
    <3>3. settled'[other] = settled[other] /\ tagged'[other] = tagged[other]
        BY <1>15 DEF TypeOK, StoreDies
    <3> QED BY <3>1, <3>2, <3>3, OthersPrepared
  <2>2. \A q \in Parts : PreparedAt(r, q)'
    <3>1. phase[r] = "store" /\ phase'[r] \in {"store", "abandoned"} /\ subject'[r] = subject[r]
          /\ fresh'[r] = fresh[r] /\ tagged'[r] = {}
        BY <1>15, SetbackStep DEF TypeOK, StoreDies, Phases
    <3> QED BY <3>1, StaysTagged DEF Prepared, PreparedAt, Consuming
  <2> QED BY <2>1, <2>2 DEF Prepared
<1>16. ASSUME NEW r \in Runs, ConsumerDies(r) PROVE Prepared'
  <2>1. ASSUME NEW other \in Runs \ {r} PROVE \A q \in Parts : PreparedAt(other, q)'
    <3>1. phase'[other] = phase[other]
        BY <1>16, SetbackStep DEF TypeOK, ConsumerDies, Move, Phases
    <3>2. subject'[other] = subject[other] /\ fresh'[other] = fresh[other]
        BY <1>16 DEF TypeOK, ConsumerDies
    <3>3. settled'[other] = settled[other] /\ tagged'[other] = tagged[other]
        BY <1>16 DEF TypeOK, ConsumerDies
    <3> QED BY <3>1, <3>2, <3>3, OthersPrepared
  <2>2. \A q \in Parts : PreparedAt(r, q)'
    <3>1. phase[r] \in Consuming /\ phase'[r] \in {"consume", "abandoned"} /\ subject'[r] = subject[r]
        BY <1>16, SetbackStep DEF TypeOK, ConsumerDies, Phases, Consuming
    <3> QED BY <3>1, StaysTagged DEF Prepared, PreparedAt, Consuming
  <2> QED BY <2>1, <2>2 DEF Prepared
<1>17. ASSUME NEW r \in Runs, NEW p \in Parts, EnsurePart(r, p) PROVE Prepared'
  <2>1. ASSUME NEW other \in Runs \ {r} PROVE \A q \in Parts : PreparedAt(other, q)'
    <3>1. phase'[other] = phase[other]
        BY <1>17 DEF TypeOK, EnsurePart, Move
    <3>2. subject'[other] = subject[other] /\ fresh'[other] = fresh[other]
        BY <1>17 DEF TypeOK, EnsurePart
    <3>3. settled'[other] = settled[other] /\ tagged'[other] = tagged[other]
        BY <1>17 DEF TypeOK, EnsurePart
    <3> QED BY <3>1, <3>2, <3>3, OthersPrepared
  <2>2. \A q \in Parts : PreparedAt(r, q)'
    <3>1. phase[r] = "parts" /\ phase'[r] = "parts" /\ subject'[r] = subject[r]
        BY <1>17 DEF EnsurePart
    <3>2. settled'[r] = settled[r] \cup {p}
        BY <1>17 DEF TypeOK, EnsurePart
    <3>3. fresh'[r] = IF HasTag(r, p) THEN fresh[r] ELSE fresh[r] \cup {p}
        BY <1>17 DEF TypeOK, EnsurePart, HasTag
    <3>4. ASSUME NEW q \in settled'[r], q \in Parts PROVE HasTag(r, q)' \/ q \in fresh'[r]
        BY <3>1, <3>2, <3>3, <3>4, StaysTagged DEF Prepared, PreparedAt
    <3> QED BY <3>1, <3>4 DEF PreparedAt, Consuming
  <2> QED BY <2>1, <2>2 DEF Prepared
<1>18. ASSUME NEW r \in Runs, NEW p \in Parts, BindPart(r, p) PROVE Prepared'
  <2>1. ASSUME NEW other \in Runs \ {r} PROVE \A q \in Parts : PreparedAt(other, q)'
    <3>1. phase'[other] = phase[other]
        BY <1>18 DEF TypeOK, BindPart, Move, Unsettled
    <3>2. subject'[other] = subject[other] /\ fresh'[other] = fresh[other]
        BY <1>18 DEF TypeOK, BindPart
    <3>3. settled'[other] = settled[other] /\ tagged'[other] = tagged[other]
        BY <1>18 DEF TypeOK, BindPart
    <3> QED BY <3>1, <3>2, <3>3, OthersPrepared
  <2>2. \A q \in Parts : PreparedAt(r, q)'
    <3>1. phase[r] \in Consuming /\ phase'[r] = phase[r] /\ subject'[r] = subject[r]
        BY <1>18 DEF BindPart, Unsettled, Consuming
    <3> QED BY <3>1, StaysTagged DEF Prepared, PreparedAt, Consuming
  <2> QED BY <2>1, <2>2 DEF Prepared
<1>19. ASSUME NEW r \in Runs, NEW name \in Names, StoreTag(r, name) PROVE Prepared'
  <2>1. ASSUME NEW other \in Runs \ {r} PROVE \A q \in Parts : PreparedAt(other, q)'
    <3>1. phase'[other] = phase[other]
        BY <1>19 DEF TypeOK, StoreTag, Move
    <3>2. subject'[other] = subject[other] /\ fresh'[other] = fresh[other]
        BY <1>19 DEF TypeOK, StoreTag
    <3>3. settled'[other] = settled[other] /\ tagged'[other] = tagged[other]
        BY <1>19 DEF TypeOK, StoreTag
    <3> QED BY <3>1, <3>2, <3>3, OthersPrepared
  <2>2. \A q \in Parts : PreparedAt(r, q)'
    <3>1. phase[r] = "store" /\ phase'[r] = "store" /\ subject'[r] = subject[r] /\ fresh'[r] = fresh[r]
        BY <1>19 DEF StoreTag
    <3>2. tagged'[r] = tagged[r] \cup {name}
        BY <1>19 DEF TypeOK, StoreTag
    <3>3. ASSUME name \in Parts PROVE HasTag(r, name)'
      <4>1. ArtifactOf(r, name) \in Artifact /\ InputOf(subject[r], name) \in Input
          BY <3>1, <3>3 DEF SubjectsVerified, ArtifactOf, Artifact, InputOf, Input
      <4>2. partTag' = [partTag EXCEPT ![InputOf(subject[r], name)] = ArtifactOf(r, name)]
          BY <1>19, <3>3, PreparedAssumption DEF StoreTag
      <4>3. InputOf(subject[r], name)' = InputOf(subject[r], name)
          BY <3>1 DEF InputOf
      <4> QED BY <4>1, <4>2, <4>3, PreparedAssumption DEF TypeOK, HasTag
    <3>4. ASSUME NEW p \in Parts PROVE PreparedAt(r, p)'
        BY <3>1, <3>2, <3>3, StaysTagged DEF Prepared, PreparedAt, Consuming
    <3> QED BY <3>4
  <2> QED BY <2>1, <2>2 DEF Prepared
<1>20. CASE UNCHANGED vars
    BY <1>20 DEF vars, Prepared, PreparedAt, HasTag, InputOf
<1> QED BY <1>1, <1>2, <1>3, <1>4, <1>5, <1>6, <1>7, <1>8, <1>9, <1>10,
       <1>11, <1>12, <1>13, <1>14, <1>15, <1>16, <1>17, <1>18, <1>19, <1>20 DEF Next, Progress

\* What is selected next to each other stays so until all of it is selected again.
LEMMA SelectedStep ==
    TypeOK /\ TagsMatch /\ Selected /\ [Next]_vars => Selected'
<1> SUFFICES ASSUME TypeOK, TagsMatch, Selected, [Next]_vars PROVE Selected'
    OBVIOUS
<1> USE PreparedAssumption DEF producer, registry
<1>1. ASSUME NEW r \in Runs, ToolchainAvailable(r) PROVE Selected'
    BY <1>1 DEF TypeOK, Selected, SelectedAt, ToolchainAvailable, Move
<1>2. ASSUME NEW r \in Runs, ToolchainMissing(r) PROVE Selected'
    BY <1>2 DEF TypeOK, Selected, SelectedAt, ToolchainMissing, Move
<1>3. ASSUME NEW r \in Runs, PublishToolchain(r) PROVE Selected'
    BY <1>3 DEF TypeOK, Selected, SelectedAt, PublishToolchain, Move
<1>4. ASSUME NEW r \in Runs, ConfirmToolchain(r) PROVE Selected'
    BY <1>4, SetbackStep DEF TypeOK, Selected, SelectedAt, ConfirmToolchain, Move, Phases
<1>5. ASSUME NEW r \in Runs, ResolveToolchain(r) PROVE Selected'
    BY <1>5 DEF TypeOK, Selected, SelectedAt, ResolveToolchain, Move
<1>6. ASSUME NEW r \in Runs, ResolveBuild(r) PROVE Selected'
    BY <1>6 DEF TypeOK, Selected, SelectedAt, ResolveBuild, Move
<1>7. ASSUME NEW r \in Runs, EnsureFinish(r) PROVE Selected'
    BY <1>7 DEF TypeOK, Selected, SelectedAt, EnsureFinish, Move
<1>8. ASSUME NEW r \in Runs, StoreConfirm(r) PROVE Selected'
  <2>1. /\ \A other \in Runs \ {r} : phase'[other] = phase[other]
        /\ phase'[r] \in {"consume", "store", "abandoned"}
    <3>1. CASE Move(r, "store", "consume")
        BY <3>1 DEF TypeOK, Move
    <3>2. CASE Setback(r, "store")
        BY <3>2, SetbackStep DEF Phases
    <3> QED BY <1>8, <3>1, <3>2 DEF StoreConfirm
  <2>2. chosen' = chosen /\ phase[r] = "store" /\ subject' = subject /\ settled' = settled
      BY <1>8 DEF StoreConfirm, Move
  <2> SUFFICES ASSUME NEW x \in Runs PROVE SelectedAt(x)'
      BY DEF Selected
  <2>3. CASE x = r
      BY <2>1, <2>2, <2>3 DEF Selected, SelectedAt
  <2>4. CASE x # r
    <3>1. phase'[x] = phase[x] /\ chosen'[x] = chosen[x]
        BY <2>1, <2>2, <2>4
    <3>2. SelectedAt(x)
        BY DEF Selected
    <3> QED BY <3>1, <3>2 DEF SelectedAt
  <2> QED BY <2>3, <2>4
<1>9. ASSUME NEW r \in Runs, BindToolchain(r) PROVE Selected'
  <2>1. \A other \in Runs \ {r} : phase'[other] = phase[other] /\ chosen'[other] = chosen[other]
      BY <1>9 DEF TypeOK, BindToolchain, Move, Unsettled
  <2>2. phase[r] \in {"consume", "bind"} /\ chosen'[r].parts = chosen[r].parts
      BY <1>9 DEF TypeOK, BindToolchain, Move, Selection
  <2> SUFFICES ASSUME NEW x \in Runs PROVE SelectedAt(x)'
      BY DEF Selected
  <2>3. CASE x = r
      BY <2>1, <2>2, <2>3 DEF Selected, SelectedAt
  <2>4. CASE x # r
    <3>1. phase'[x] = phase[x] /\ chosen'[x] = chosen[x]
        BY <2>1, <2>2, <2>4
    <3>2. SelectedAt(x)
        BY DEF Selected
    <3> QED BY <3>1, <3>2 DEF SelectedAt
  <2> QED BY <2>3, <2>4
<1>10. ASSUME NEW r \in Runs, BindBuild(r) PROVE Selected'
  <2>1. \A other \in Runs \ {r} : phase'[other] = phase[other] /\ chosen'[other] = chosen[other]
      BY <1>10 DEF TypeOK, BindBuild, Move, Unsettled
  <2>2. phase[r] \in {"consume", "bind"} /\ chosen'[r].parts = chosen[r].parts
      BY <1>10 DEF TypeOK, BindBuild, Move, Selection
  <2> SUFFICES ASSUME NEW x \in Runs PROVE SelectedAt(x)'
      BY DEF Selected
  <2>3. CASE x = r
      BY <2>1, <2>2, <2>3 DEF Selected, SelectedAt
  <2>4. CASE x # r
    <3>1. phase'[x] = phase[x] /\ chosen'[x] = chosen[x]
        BY <2>1, <2>2, <2>4
    <3>2. SelectedAt(x)
        BY DEF Selected
    <3> QED BY <3>1, <3>2 DEF SelectedAt
  <2> QED BY <2>3, <2>4
<1>11. ASSUME NEW r \in Runs, BindFinish(r) PROVE Selected'
    BY <1>11 DEF TypeOK, Selected, SelectedAt, BindFinish, Move
<1>12. ASSUME NEW r \in Runs, RerunFailed(r) PROVE Selected'
    BY <1>12 DEF TypeOK, Selected, SelectedAt, RerunFailed, Move, NoSelection
<1>13. ASSUME NEW r \in Runs, RerunAll(r) PROVE Selected'
    BY <1>13 DEF TypeOK, Selected, SelectedAt, RerunAll, Move, NoSelection
<1>14. ASSUME NEW r \in Runs, ProducerDies(r) PROVE Selected'
    BY <1>14, SetbackStep DEF TypeOK, Selected, SelectedAt, ProducerDies, Move, Phases
<1>15. ASSUME NEW r \in Runs, StoreDies(r) PROVE Selected'
    BY <1>15, SetbackStep DEF TypeOK, Selected, SelectedAt, StoreDies, Move, Phases
<1>16. ASSUME NEW r \in Runs, ConsumerDies(r) PROVE Selected'
    BY <1>16, SetbackStep DEF TypeOK, Selected, SelectedAt, ConsumerDies, Move, Phases, NoSelection, Selection
<1>17. ASSUME NEW r \in Runs, NEW p \in Parts, EnsurePart(r, p) PROVE Selected'
    BY <1>17 DEF TypeOK, Selected, SelectedAt, EnsurePart, Move
<1>18. ASSUME NEW r \in Runs, NEW p \in Parts, BindPart(r, p) PROVE Selected'
  <2>1. \A other \in Runs \ {r} : phase'[other] = phase[other] /\ chosen'[other] = chosen[other]
      BY <1>18 DEF TypeOK, BindPart, Move, Unsettled
  <2> DEFINE input == InputOf(chosen[r], p)
              part == IF input \in Input THEN partTag[input] ELSE None
  <2>2. phase[r] = "bind parts" /\ phase' = phase
      BY <1>18 DEF BindPart, Unsettled
  <2>3. chosen'[r] = [chosen[r] EXCEPT !.parts[p] = part]
      BY <1>18 DEF TypeOK, BindPart
  <2>4. part # None => part.toolchain = chosen[r].toolchain /\ part.build = chosen[r].build
      BY DEF TagsMatch, InputOf
  <2> HIDE DEF part
  <2>5. /\ chosen'[r].toolchain = chosen[r].toolchain /\ chosen'[r].build = chosen[r].build
        /\ \A q \in Parts : chosen'[r].parts[q] = IF q = p THEN part ELSE chosen[r].parts[q]
      BY <2>3 DEF TypeOK, Selection
  <2> SUFFICES ASSUME NEW x \in Runs PROVE SelectedAt(x)'
      BY DEF Selected
  <2>6. CASE x = r
    <3> SUFFICES ASSUME NEW q \in Parts, chosen'[r].parts[q] # None
                 PROVE  /\ chosen'[r].parts[q].toolchain = chosen'[r].toolchain
                        /\ chosen'[r].parts[q].build = chosen'[r].build
        BY <2>2, <2>6 DEF SelectedAt
    <3>1. CASE q = p
        BY <2>4, <2>5, <3>1
    <3>2. CASE q # p
      <4>1. chosen'[r].parts[q] = chosen[r].parts[q] /\ chosen[r].parts[q] # None
          BY <2>5, <3>2
      <4>2. /\ chosen[r].parts[q].toolchain = chosen[r].toolchain
            /\ chosen[r].parts[q].build = chosen[r].build
          BY <4>1 DEF Selected, SelectedAt
      <4> QED BY <2>5, <4>1, <4>2
    <3> QED BY <3>1, <3>2
  <2>7. CASE x # r
    <3>1. phase'[x] = phase[x] /\ chosen'[x] = chosen[x]
        BY <2>1, <2>2, <2>4, <2>5, <2>7
    <3>2. SelectedAt(x)
        BY DEF Selected
    <3> QED BY <3>1, <3>2 DEF SelectedAt
  <2> QED BY <2>6, <2>7
<1>19. ASSUME NEW r \in Runs, NEW name \in Names, StoreTag(r, name) PROVE Selected'
    BY <1>19 DEF TypeOK, Selected, SelectedAt, StoreTag, Move
<1>20. CASE UNCHANGED vars
    BY <1>20 DEF TypeOK, Selected, SelectedAt, vars
<1> QED BY <1>1, <1>2, <1>3, <1>4, <1>5, <1>6, <1>7, <1>8, <1>9, <1>10,
       <1>11, <1>12, <1>13, <1>14, <1>15, <1>16, <1>17, <1>18, <1>19, <1>20 DEF Next, Progress

\* A consumer with the dependencies of its run binds every part.
LEMMA FoundStep ==
    TypeOK /\ SubjectsVerified /\ JobLocal /\ Prepared /\ Found /\ [Next]_vars => Found'
<1> SUFFICES ASSUME TypeOK, SubjectsVerified, JobLocal, Prepared, Found, [Next]_vars PROVE Found'
    OBVIOUS
<1> USE PreparedAssumption DEF producer, registry
<1>1. ASSUME NEW r \in Runs, ToolchainAvailable(r) PROVE Found'
    BY <1>1 DEF TypeOK, Found, FoundAt, ToolchainAvailable, Move
<1>2. ASSUME NEW r \in Runs, ToolchainMissing(r) PROVE Found'
    BY <1>2 DEF TypeOK, Found, FoundAt, ToolchainMissing, Move
<1>3. ASSUME NEW r \in Runs, PublishToolchain(r) PROVE Found'
    BY <1>3 DEF TypeOK, Found, FoundAt, PublishToolchain, Move
<1>4. ASSUME NEW r \in Runs, ConfirmToolchain(r) PROVE Found'
  <2>1. /\ \A other \in Runs \ {r} : phase'[other] = phase[other]
        /\ phase'[r] \in {"python", "publish", "abandoned"}
    <3>1. CASE Move(r, "confirm", "python")
        BY <3>1 DEF TypeOK, Move
    <3>2. CASE Setback(r, "publish")
        BY <3>2, SetbackStep DEF Phases
    <3> QED BY <1>4, <3>1, <3>2 DEF ConfirmToolchain
  <2>2. chosen' = chosen /\ phase[r] = "confirm" /\ subject' = subject /\ settled' = settled
      BY <1>4 DEF ConfirmToolchain, Move
  <2> SUFFICES ASSUME NEW x \in Runs PROVE FoundAt(x)'
      BY DEF Found
  <2>3. CASE x = r
      BY <2>1, <2>2, <2>3 DEF Found, FoundAt
  <2>4. CASE x # r
    <3>1. phase'[x] = phase[x] /\ chosen'[x] = chosen[x] /\ subject'[x] = subject[x] /\ settled'[x] = settled[x]
        BY <2>1, <2>2, <2>4
    <3>2. FoundAt(x)
        BY DEF Found
    <3> QED BY <3>1, <3>2 DEF FoundAt
  <2> QED BY <2>3, <2>4
<1>5. ASSUME NEW r \in Runs, ResolveToolchain(r) PROVE Found'
  <2>1. /\ \A other \in Runs \ {r} : phase'[other] = phase[other] /\ subject'[other] = subject[other]
        /\ phase'[r] = "build"
        /\ chosen' = chosen /\ settled' = settled
      BY <1>5 DEF TypeOK, ResolveToolchain, Move
  <2> SUFFICES ASSUME NEW x \in Runs PROVE FoundAt(x)'
      BY DEF Found
  <2>2. CASE x = r
      BY <2>1, <2>2 DEF FoundAt
  <2>3. CASE x # r
    <3>1. phase'[x] = phase[x] /\ chosen'[x] = chosen[x] /\ subject'[x] = subject[x] /\ settled'[x] = settled[x]
        BY <2>1, <2>3
    <3>2. FoundAt(x)
        BY DEF Found
    <3> QED BY <3>1, <3>2 DEF FoundAt
  <2> QED BY <2>2, <2>3
<1>6. ASSUME NEW r \in Runs, ResolveBuild(r) PROVE Found'
  <2>1. /\ \A other \in Runs \ {r} : phase'[other] = phase[other] /\ subject'[other] = subject[other]
        /\ phase'[r] = "parts"
        /\ chosen' = chosen /\ settled' = settled
      BY <1>6 DEF TypeOK, ResolveBuild, Move
  <2> SUFFICES ASSUME NEW x \in Runs PROVE FoundAt(x)'
      BY DEF Found
  <2>2. CASE x = r
      BY <2>1, <2>2 DEF FoundAt
  <2>3. CASE x # r
    <3>1. phase'[x] = phase[x] /\ chosen'[x] = chosen[x] /\ subject'[x] = subject[x] /\ settled'[x] = settled[x]
        BY <2>1, <2>3
    <3>2. FoundAt(x)
        BY DEF Found
    <3> QED BY <3>1, <3>2 DEF FoundAt
  <2> QED BY <2>2, <2>3
<1>7. ASSUME NEW r \in Runs, EnsureFinish(r) PROVE Found'
    BY <1>7 DEF TypeOK, Found, FoundAt, EnsureFinish, Move
<1>8. ASSUME NEW r \in Runs, StoreConfirm(r) PROVE Found'
  <2>1. /\ \A other \in Runs \ {r} : phase'[other] = phase[other]
        /\ phase'[r] \in {"consume", "store", "abandoned"}
    <3>1. CASE Move(r, "store", "consume")
        BY <3>1 DEF TypeOK, Move
    <3>2. CASE Setback(r, "store")
        BY <3>2, SetbackStep DEF Phases
    <3> QED BY <1>8, <3>1, <3>2 DEF StoreConfirm
  <2>2. chosen' = chosen /\ phase[r] = "store" /\ subject' = subject /\ settled' = settled
      BY <1>8 DEF StoreConfirm, Move
  <2> SUFFICES ASSUME NEW x \in Runs PROVE FoundAt(x)'
      BY DEF Found
  <2>3. CASE x = r
      BY <2>1, <2>2, <2>3 DEF Found, FoundAt
  <2>4. CASE x # r
    <3>1. phase'[x] = phase[x] /\ chosen'[x] = chosen[x] /\ subject'[x] = subject[x] /\ settled'[x] = settled[x]
        BY <2>1, <2>2, <2>4
    <3>2. FoundAt(x)
        BY DEF Found
    <3> QED BY <3>1, <3>2 DEF FoundAt
  <2> QED BY <2>3, <2>4
<1>9. ASSUME NEW r \in Runs, BindToolchain(r) PROVE Found'
    BY <1>9 DEF TypeOK, Found, FoundAt, BindToolchain, Move
<1>10. ASSUME NEW r \in Runs, BindBuild(r) PROVE Found'
    BY <1>10 DEF TypeOK, Found, FoundAt, BindBuild, Move, JobLocal, Selection
<1>11. ASSUME NEW r \in Runs, BindFinish(r) PROVE Found'
    BY <1>11 DEF TypeOK, Found, FoundAt, BindFinish, Move
<1>12. ASSUME NEW r \in Runs, RerunFailed(r) PROVE Found'
    BY <1>12 DEF TypeOK, Found, FoundAt, RerunFailed, Move
<1>13. ASSUME NEW r \in Runs, RerunAll(r) PROVE Found'
    BY <1>13 DEF TypeOK, Found, FoundAt, RerunAll, Move
<1>14. ASSUME NEW r \in Runs, ProducerDies(r) PROVE Found'
  <2>1. /\ \A other \in Runs \ {r} : phase'[other] = phase[other]
        /\ phase'[r] \in {"python", "abandoned"}
      BY <1>14, SetbackStep DEF ProducerDies, Phases
  <2>2. \A other \in Runs \ {r} : chosen'[other] = chosen[other] /\ subject'[other] = subject[other]
                                    /\ settled'[other] = settled[other]
      BY <1>14 DEF TypeOK, ProducerDies
  <2> SUFFICES ASSUME NEW x \in Runs PROVE FoundAt(x)'
      BY DEF Found
  <2>3. CASE x = r
      BY <2>1, <2>2, <2>3 DEF Found, FoundAt
  <2>4. CASE x # r
    <3>1. phase'[x] = phase[x] /\ chosen'[x] = chosen[x] /\ subject'[x] = subject[x] /\ settled'[x] = settled[x]
        BY <2>1, <2>2, <2>4
    <3>2. FoundAt(x)
        BY DEF Found
    <3> QED BY <3>1, <3>2 DEF FoundAt
  <2> QED BY <2>3, <2>4
<1>15. ASSUME NEW r \in Runs, StoreDies(r) PROVE Found'
  <2>1. /\ \A other \in Runs \ {r} : phase'[other] = phase[other]
        /\ phase'[r] \in {"store", "abandoned"}
      BY <1>15, SetbackStep DEF StoreDies, Phases
  <2>2. \A other \in Runs \ {r} : chosen'[other] = chosen[other] /\ subject'[other] = subject[other]
                                    /\ settled'[other] = settled[other]
      BY <1>15 DEF TypeOK, StoreDies
  <2> SUFFICES ASSUME NEW x \in Runs PROVE FoundAt(x)'
      BY DEF Found
  <2>3. CASE x = r
      BY <2>1, <2>2, <2>3 DEF Found, FoundAt
  <2>4. CASE x # r
    <3>1. phase'[x] = phase[x] /\ chosen'[x] = chosen[x] /\ subject'[x] = subject[x] /\ settled'[x] = settled[x]
        BY <2>1, <2>2, <2>4
    <3>2. FoundAt(x)
        BY DEF Found
    <3> QED BY <3>1, <3>2 DEF FoundAt
  <2> QED BY <2>3, <2>4
<1>16. ASSUME NEW r \in Runs, ConsumerDies(r) PROVE Found'
  <2>1. /\ \A other \in Runs \ {r} : phase'[other] = phase[other]
        /\ phase'[r] \in {"consume", "abandoned"}
      BY <1>16, SetbackStep DEF ConsumerDies, Phases
  <2>2. \A other \in Runs \ {r} : chosen'[other] = chosen[other] /\ subject'[other] = subject[other]
                                    /\ settled'[other] = settled[other]
      BY <1>16 DEF TypeOK, ConsumerDies
  <2> SUFFICES ASSUME NEW x \in Runs PROVE FoundAt(x)'
      BY DEF Found
  <2>3. CASE x = r
      BY <2>1, <2>2, <2>3 DEF Found, FoundAt
  <2>4. CASE x # r
    <3>1. phase'[x] = phase[x] /\ chosen'[x] = chosen[x] /\ subject'[x] = subject[x] /\ settled'[x] = settled[x]
        BY <2>1, <2>2, <2>4
    <3>2. FoundAt(x)
        BY DEF Found
    <3> QED BY <3>1, <3>2 DEF FoundAt
  <2> QED BY <2>3, <2>4
<1>17. ASSUME NEW r \in Runs, NEW p \in Parts, EnsurePart(r, p) PROVE Found'
    BY <1>17 DEF TypeOK, Found, FoundAt, EnsurePart, Move
<1>18. ASSUME NEW r \in Runs, NEW p \in Parts, BindPart(r, p) PROVE Found'
  <2>1. \A other \in Runs \ {r} : phase'[other] = phase[other] /\ chosen'[other] = chosen[other]
      BY <1>18 DEF TypeOK, BindPart, Move, Unsettled
  <2> DEFINE input == InputOf(chosen[r], p)
              part == IF input \in Input THEN partTag[input] ELSE None
  <2>2. phase[r] = "bind parts" /\ phase' = phase /\ subject' = subject
      BY <1>18 DEF BindPart, Unsettled
  <2>3. chosen'[r] = [chosen[r] EXCEPT !.parts[p] = part] /\ settled'[r] = settled[r] \cup {p}
      BY <1>18 DEF TypeOK, BindPart
  <2>4. \A other \in Runs \ {r} : settled'[other] = settled[other]
      BY <1>18 DEF TypeOK, BindPart
  <2>5. ASSUME chosen[r].toolchain = subject[r].toolchain, chosen[r].build = subject[r].build
        PROVE  part # None
    <3>1. input = InputOf(subject[r], p) /\ input \in Input
        BY <2>2, <2>5 DEF SubjectsVerified, Consuming, InputOf, Input
    <3>2. HasTag(r, p)
        BY <2>2 DEF Prepared, PreparedAt, Consuming
    <3> QED BY <3>1, <3>2 DEF HasTag
  <2> HIDE DEF part
  <2>6. /\ chosen'[r].toolchain = chosen[r].toolchain /\ chosen'[r].build = chosen[r].build
        /\ \A q \in Parts : chosen'[r].parts[q] = IF q = p THEN part ELSE chosen[r].parts[q]
      BY <2>3 DEF TypeOK, Selection
  <2>7. settled'[r] \subseteq Parts
      BY <2>3 DEF TypeOK
  <2> SUFFICES ASSUME NEW x \in Runs PROVE FoundAt(x)'
      BY DEF Found
  <2>8. CASE x = r
    <3> SUFFICES ASSUME chosen'[r].toolchain = subject'[r].toolchain,
                        chosen'[r].build = subject'[r].build, NEW q \in settled'[r]
                 PROVE  chosen'[r].parts[q] # None
        BY <2>2, <2>8 DEF FoundAt
    <3>1. chosen[r].toolchain = subject[r].toolchain /\ chosen[r].build = subject[r].build
        BY <2>2, <2>6
    <3>2. part # None /\ \A known \in settled[r] : chosen[r].parts[known] # None
        BY <2>2, <2>5, <3>1 DEF Found, FoundAt
    <3>3. q \in Parts /\ (q = p \/ q \in settled[r])
        BY <2>3, <2>7
    <3> QED BY <2>6, <3>2, <3>3
  <2>9. CASE x # r
    <3>1. phase'[x] = phase[x] /\ chosen'[x] = chosen[x] /\ subject'[x] = subject[x] /\ settled'[x] = settled[x]
        BY <2>1, <2>2, <2>3, <2>4, <2>5, <2>6, <2>7, <2>9
    <3>2. FoundAt(x)
        BY DEF Found
    <3> QED BY <3>1, <3>2 DEF FoundAt
  <2> QED BY <2>8, <2>9
<1>19. ASSUME NEW r \in Runs, NEW name \in Names, StoreTag(r, name) PROVE Found'
    BY <1>19 DEF TypeOK, Found, FoundAt, StoreTag, Move
<1>20. CASE UNCHANGED vars
    BY <1>20 DEF TypeOK, Found, FoundAt, vars
<1> QED BY <1>1, <1>2, <1>3, <1>4, <1>5, <1>6, <1>7, <1>8, <1>9, <1>10,
       <1>11, <1>12, <1>13, <1>14, <1>15, <1>16, <1>17, <1>18, <1>19, <1>20 DEF Next, Progress

\* A consumer ends incomplete only if it has found other dependencies.
LEMMA BlockStep ==
    TypeOK /\ Found /\ OnlyMovedTagsBlock /\ [Next]_vars => OnlyMovedTagsBlock'
<1> SUFFICES ASSUME TypeOK, Found, OnlyMovedTagsBlock, [Next]_vars PROVE OnlyMovedTagsBlock'
    OBVIOUS
<1> USE PreparedAssumption DEF producer, registry
<1>1. ASSUME NEW r \in Runs, ToolchainAvailable(r) PROVE OnlyMovedTagsBlock'
    BY <1>1 DEF TypeOK, OnlyMovedTagsBlock, ToolchainAvailable, Move
<1>2. ASSUME NEW r \in Runs, ToolchainMissing(r) PROVE OnlyMovedTagsBlock'
    BY <1>2 DEF TypeOK, OnlyMovedTagsBlock, ToolchainMissing, Move
<1>3. ASSUME NEW r \in Runs, PublishToolchain(r) PROVE OnlyMovedTagsBlock'
    BY <1>3 DEF TypeOK, OnlyMovedTagsBlock, PublishToolchain, Move
<1>4. ASSUME NEW r \in Runs, ConfirmToolchain(r) PROVE OnlyMovedTagsBlock'
    BY <1>4, SetbackStep DEF TypeOK, OnlyMovedTagsBlock, ConfirmToolchain, Move, Phases
<1>5. ASSUME NEW r \in Runs, ResolveToolchain(r) PROVE OnlyMovedTagsBlock'
    BY <1>5 DEF TypeOK, OnlyMovedTagsBlock, ResolveToolchain, Move
<1>6. ASSUME NEW r \in Runs, ResolveBuild(r) PROVE OnlyMovedTagsBlock'
    BY <1>6 DEF TypeOK, OnlyMovedTagsBlock, ResolveBuild, Move
<1>7. ASSUME NEW r \in Runs, EnsureFinish(r) PROVE OnlyMovedTagsBlock'
    BY <1>7 DEF TypeOK, OnlyMovedTagsBlock, EnsureFinish, Move
<1>8. ASSUME NEW r \in Runs, StoreConfirm(r) PROVE OnlyMovedTagsBlock'
    BY <1>8, SetbackStep DEF TypeOK, OnlyMovedTagsBlock, StoreConfirm, Move, Phases
<1>9. ASSUME NEW r \in Runs, BindToolchain(r) PROVE OnlyMovedTagsBlock'
    BY <1>9 DEF TypeOK, OnlyMovedTagsBlock, BindToolchain, Move
<1>10. ASSUME NEW r \in Runs, BindBuild(r) PROVE OnlyMovedTagsBlock'
    BY <1>10 DEF TypeOK, OnlyMovedTagsBlock, BindBuild, Move
<1>11. ASSUME NEW r \in Runs, BindFinish(r) PROVE OnlyMovedTagsBlock'
    BY <1>11 DEF TypeOK, OnlyMovedTagsBlock, BindFinish, Move, Found, FoundAt
<1>12. ASSUME NEW r \in Runs, RerunFailed(r) PROVE OnlyMovedTagsBlock'
    BY <1>12 DEF TypeOK, OnlyMovedTagsBlock, RerunFailed, Move
<1>13. ASSUME NEW r \in Runs, RerunAll(r) PROVE OnlyMovedTagsBlock'
    BY <1>13 DEF TypeOK, OnlyMovedTagsBlock, RerunAll, Move
<1>14. ASSUME NEW r \in Runs, ProducerDies(r) PROVE OnlyMovedTagsBlock'
    BY <1>14, SetbackStep DEF TypeOK, OnlyMovedTagsBlock, ProducerDies, Move, Phases
<1>15. ASSUME NEW r \in Runs, StoreDies(r) PROVE OnlyMovedTagsBlock'
    BY <1>15, SetbackStep DEF TypeOK, OnlyMovedTagsBlock, StoreDies, Move, Phases
<1>16. ASSUME NEW r \in Runs, ConsumerDies(r) PROVE OnlyMovedTagsBlock'
    BY <1>16, SetbackStep DEF TypeOK, OnlyMovedTagsBlock, ConsumerDies, Move, Phases
<1>17. ASSUME NEW r \in Runs, NEW p \in Parts, EnsurePart(r, p) PROVE OnlyMovedTagsBlock'
    BY <1>17 DEF TypeOK, OnlyMovedTagsBlock, EnsurePart, Move
<1>18. ASSUME NEW r \in Runs, NEW p \in Parts, BindPart(r, p) PROVE OnlyMovedTagsBlock'
    BY <1>18 DEF TypeOK, OnlyMovedTagsBlock, BindPart, Move
<1>19. ASSUME NEW r \in Runs, NEW name \in Names, StoreTag(r, name) PROVE OnlyMovedTagsBlock'
    BY <1>19 DEF TypeOK, OnlyMovedTagsBlock, StoreTag, Move
<1>20. CASE UNCHANGED vars
    BY <1>20 DEF TypeOK, OnlyMovedTagsBlock, vars
<1> QED BY <1>1, <1>2, <1>3, <1>4, <1>5, <1>6, <1>7, <1>8, <1>9, <1>10,
       <1>11, <1>12, <1>13, <1>14, <1>15, <1>16, <1>17, <1>18, <1>19, <1>20 DEF Next, Progress

-----------------------------------------------------------------------------
\* Every reachable state satisfies the invariant.
THEOREM Invariance == Spec => []IInv
<1>1. Init => IInv
    BY InitInvariant
<1>2. IInv /\ [Next]_vars => IInv'
    BY TypeStep, SubjectsStep, TagsMatchStep, JobLocalStep, PreparedStep, SelectedStep,
       FoundStep, BlockStep DEF IInv
<1> QED BY <1>1, <1>2, PTL DEF Spec

\* TypeOK: every variable keeps its type, for all runs and parts and any number
\* of setbacks.
THEOREM TypeCorrect == Spec => []TypeOK
<1>1. IInv => TypeOK
    BY DEF IInv
<1> QED BY <1>1, Invariance, PTL

\* ConsumedTogether: whatever runs do to the tags, a consumer that is through
\* has bound parts that were built with the dependencies it has bound.
THEOREM BoundTogether == Spec => []ConsumedTogether
<1>1. IInv => ConsumedTogether
    BY DEF IInv, Selected, SelectedAt, Found, FoundAt, ConsumedTogether
<1> QED BY <1>1, Invariance, PTL

\* OnlyMovedTagsBlock: only another run's dependencies can leave a consumer
\* incomplete.
THEOREM OnlyOthersBlock == Spec => []OnlyMovedTagsBlock
<1>1. IInv => OnlyMovedTagsBlock
    BY DEF IInv
<1> QED BY <1>1, Invariance, PTL
=============================================================================
