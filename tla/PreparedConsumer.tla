-------------------------- MODULE PreparedConsumer --------------------------
(***************************************************************************)
(* Prepared components and their strict consumers.                         *)
(*                                                                         *)
(* A run prepares a toolchain, a build Python and the target parts of a    *)
(* Python row, in that order, and then starts stages that may only consume *)
(* prepared components.  The input identity of a target part contains the  *)
(* digests of the toolchain and of the build Python it is built with; the  *)
(* consumer computes it from those two artifacts as it finds them.  Every  *)
(* tag may be moved by another run of the same commit between the two.     *)
(*                                                                         *)
(* How one publication is signed, retained and retried is the subject of   *)
(* ComponentProduction.  What is used of it here: a run never replaces an  *)
(* artifact of its own (OwnReceiptsNeverSuperseded), so the run that built *)
(* an indexed toolchain or build Python identifies it; an input identity   *)
(* has the artifact's digest and no signature (component_inputs.py:53).    *)
(***************************************************************************)
EXTENDS Integers

CONSTANTS Runs,         \* push, dispatch and candidate runs of one commit
          Parts,        \* target parts of a row (installation, test context)
          MaxSetbacks,  \* bound: interrupted or conflicting jobs of one run
          None          \* an absent tag

Names == {"build"} \cup Parts

\* The input identity of a target part, and the artifact a run built for it.
Input == [part : Parts, toolchain : Runs, build : Runs]
Artifact == [part : Parts, toolchain : Runs, build : Runs, run : Runs]

ASSUME PreparedAssumption ==
    /\ Parts # {} /\ MaxSetbacks \in Nat
    /\ None \notin Runs \cup Artifact /\ "build" \notin Parts

VARIABLES
    phase,         \* where a run is
    subject,       \* dependencies verified by its Python producer
    settled,       \* parts its running job is done with
    fresh,         \* components its Python producer built
    tagged,        \* tags its store job has moved
    chosen,        \* components its strict consumer binds
    toolchainTag,  \* registry: toolchain that the input tag leads to
    buildTag,      \* registry: build Python that the input tag leads to
    partTag,       \* registry: target part that each input's tag leads to
    setbacks       \* per run

producer == <<subject, fresh, tagged>>
registry == <<toolchainTag, buildTag, partTag>>
vars == <<phase, settled, chosen, producer, registry, setbacks>>

Phases == {"toolchain", "publish", "confirm", "python", "build", "parts", "store",
           "consume", "bind", "bind parts", "incomplete", "done", "abandoned"}

Base == [toolchain : Runs \cup {None}, build : Runs \cup {None}]
NoBase == [toolchain |-> None, build |-> None]
Selection == [toolchain : Runs \cup {None}, build : Runs \cup {None},
              parts : [Parts -> Artifact \cup {None}]]
NoSelection == [toolchain |-> None, build |-> None, parts |-> [p \in Parts |-> None]]

TypeOK ==
    /\ phase \in [Runs -> Phases]
    /\ subject \in [Runs -> Base]
    /\ settled \in [Runs -> SUBSET Parts]
    /\ fresh \in [Runs -> SUBSET Names]
    /\ tagged \in [Runs -> SUBSET Names]
    /\ chosen \in [Runs -> Selection]
    /\ toolchainTag \in Runs \cup {None}
    /\ buildTag \in Runs \cup {None}
    /\ partTag \in [Input -> Artifact \cup {None}]
    /\ setbacks \in [Runs -> 0 .. MaxSetbacks]

Init ==
    /\ phase = [r \in Runs |-> "toolchain"]
    /\ subject = [r \in Runs |-> NoBase]
    /\ settled = [r \in Runs |-> {}]
    /\ fresh = [r \in Runs |-> {}]
    /\ tagged = [r \in Runs |-> {}]
    /\ chosen = [r \in Runs |-> NoSelection]
    /\ toolchainTag = None /\ buildTag = None
    /\ partTag = [i \in Input |-> None]
    /\ setbacks = [r \in Runs |-> 0]

InputOf(base, p) == [part |-> p, toolchain |-> base.toolchain, build |-> base.build]
ArtifactOf(r, p) == [part |-> p, toolchain |-> subject[r].toolchain,
                     build |-> subject[r].build, run |-> r]

Move(r, from, to) == phase[r] = from /\ phase' = [phase EXCEPT ![r] = to]

\* A failed job is run again, until its operators give up.
Setback(r, to) ==
    IF setbacks[r] < MaxSetbacks
      THEN /\ setbacks' = [setbacks EXCEPT ![r] = @ + 1]
           /\ phase' = [phase EXCEPT ![r] = to]
      ELSE /\ phase' = [phase EXCEPT ![r] = "abandoned"]
           /\ UNCHANGED setbacks

-----------------------------------------------------------------------------
(***************************************************************************)
(* The toolchain: looked up, or built and published                        *)
(***************************************************************************)
ToolchainAvailable(r) ==
    /\ toolchainTag # None /\ Move(r, "toolchain", "python")
    /\ UNCHANGED <<settled, chosen, producer, registry, setbacks>>

ToolchainMissing(r) ==
    /\ toolchainTag = None /\ Move(r, "toolchain", "publish")
    /\ UNCHANGED <<settled, chosen, producer, registry, setbacks>>

PublishToolchain(r) ==
    /\ Move(r, "publish", "confirm")
    /\ toolchainTag' = r
    /\ UNCHANGED <<settled, chosen, producer, buildTag, partTag, setbacks>>

ConfirmToolchain(r) ==
    /\ \/ /\ toolchainTag = r /\ Move(r, "confirm", "python")
          /\ UNCHANGED setbacks
       \/ toolchainTag # r /\ phase[r] = "confirm" /\ Setback(r, "publish")
    /\ UNCHANGED <<settled, chosen, producer, registry>>

-----------------------------------------------------------------------------
(***************************************************************************)
(* The Python producer: verified subjects in dependency order, new parts   *)
(* built against exactly those                                             *)
(***************************************************************************)
ResolveToolchain(r) ==
    /\ toolchainTag # None /\ Move(r, "python", "build")
    /\ subject' = [subject EXCEPT ![r].toolchain = toolchainTag]
    /\ UNCHANGED <<settled, chosen, fresh, tagged, registry, setbacks>>

ResolveBuild(r) ==
    /\ Move(r, "build", "parts")
    /\ IF buildTag # None
         THEN /\ subject' = [subject EXCEPT ![r].build = buildTag]
              /\ UNCHANGED fresh
         ELSE /\ subject' = [subject EXCEPT ![r].build = r]
              /\ fresh' = [fresh EXCEPT ![r] = @ \cup {"build"}]
    /\ UNCHANGED <<settled, chosen, tagged, registry, setbacks>>

\* Mutant of EnsurePart: a part built with another build Python will do.
BugEnsurePart(r, p) ==
    /\ phase[r] = "parts" /\ p \notin settled[r]
    /\ settled' = [settled EXCEPT ![r] = @ \cup {p}]
    /\ fresh' = [fresh EXCEPT ![r] =
           IF \E b \in Runs : partTag[InputOf([subject[r] EXCEPT !.build = b], p)] # None
             THEN @ ELSE @ \cup {p}]
    /\ UNCHANGED <<phase, subject, chosen, tagged, registry, setbacks>>

\* Available for these very subjects, or built with them.
EnsurePart(r, p) ==
    /\ phase[r] = "parts" /\ p \notin settled[r]
    /\ settled' = [settled EXCEPT ![r] = @ \cup {p}]
    /\ fresh' = [fresh EXCEPT ![r] =
           IF partTag[InputOf(subject[r], p)] # None THEN @ ELSE @ \cup {p}]
    /\ UNCHANGED <<phase, subject, chosen, tagged, registry, setbacks>>

EnsureFinish(r) ==
    /\ settled[r] = Parts
    /\ Move(r, "parts", IF fresh[r] = {} THEN "consume" ELSE "store")
    /\ settled' = [settled EXCEPT ![r] = {}]
    /\ UNCHANGED <<chosen, producer, registry, setbacks>>

StoreTag(r, name) ==
    /\ phase[r] = "store" /\ name \in fresh[r] \ tagged[r]
    /\ tagged' = [tagged EXCEPT ![r] = @ \cup {name}]
    /\ IF name = "build"
         THEN buildTag' = r /\ UNCHANGED partTag
         ELSE /\ partTag' = [partTag EXCEPT ![InputOf(subject[r], name)] = ArtifactOf(r, name)]
              /\ UNCHANGED buildTag
    /\ UNCHANGED <<phase, subject, settled, fresh, chosen, toolchainTag, setbacks>>

StillTagged(r, name) ==
    IF name = "build" THEN buildTag = r
                      ELSE partTag[InputOf(subject[r], name)] = ArtifactOf(r, name)

\* Every tag is read back; a conflict fails the job, which is then repeated.
StoreConfirm(r) ==
    /\ phase[r] = "store" /\ tagged[r] = fresh[r]
    /\ tagged' = [tagged EXCEPT ![r] = {}]
    /\ \/ /\ \A name \in fresh[r] : StillTagged(r, name)
          /\ Move(r, "store", "consume")
          /\ UNCHANGED setbacks
       \/ /\ \E name \in fresh[r] : ~StillTagged(r, name)
          /\ Setback(r, "store")
    /\ UNCHANGED <<settled, subject, fresh, chosen, registry>>

-----------------------------------------------------------------------------
(***************************************************************************)
(* The strict consumer (SDK publication, SDK integration): it discovers    *)
(* everything anew, and nothing may be missing                             *)
(***************************************************************************)
BindToolchain(r) ==
    /\ Move(r, "consume", "bind")
    /\ chosen' = [chosen EXCEPT ![r].toolchain = toolchainTag]
    /\ UNCHANGED <<settled, producer, registry, setbacks>>

BindBuild(r) ==
    /\ Move(r, "bind", "bind parts")
    /\ chosen' = [chosen EXCEPT ![r].build = buildTag]
    /\ UNCHANGED <<settled, producer, registry, setbacks>>

Unsettled(r, p) == phase[r] = "bind parts" /\ p \notin settled[r]

\* Mutant of BindPart: the part's identity is computed from what the tags lead
\* to now, not from the dependencies already bound.
BugBindPart(r, p) ==
    /\ Unsettled(r, p)
    /\ settled' = [settled EXCEPT ![r] = @ \cup {p}]
    /\ LET input == InputOf([toolchain |-> toolchainTag, build |-> buildTag], p)
       IN chosen' = [chosen EXCEPT ![r].parts[p] = partTag[input]]
    /\ UNCHANGED <<phase, producer, registry, setbacks>>

\* A part of which a dependency is missing is not even looked up.
BindPart(r, p) ==
    /\ Unsettled(r, p)
    /\ settled' = [settled EXCEPT ![r] = @ \cup {p}]
    /\ LET input == InputOf(chosen[r], p)
       IN chosen' = [chosen EXCEPT ![r].parts[p] =
                        IF input \in Input THEN partTag[input] ELSE None]
    /\ UNCHANGED <<phase, producer, registry, setbacks>>

\* `Centralized component preparation is incomplete' unless all are bound.
BindFinish(r) ==
    /\ settled[r] = Parts
    /\ Move(r, "bind parts", IF \A p \in Parts : chosen[r].parts[p] # None
                               THEN "done" ELSE "incomplete")
    /\ settled' = [settled EXCEPT ![r] = {}]
    /\ UNCHANGED <<chosen, producer, registry, setbacks>>

-----------------------------------------------------------------------------
(***************************************************************************)
(* Retries and faults                                                      *)
(***************************************************************************)
\* `gh run rerun --failed': the strict stage again, its producers not.
RerunFailed(r) ==
    /\ Move(r, "incomplete", "consume")
    /\ chosen' = [chosen EXCEPT ![r] = NoSelection]
    /\ UNCHANGED <<settled, producer, registry, setbacks>>

\* `Re-run all jobs': prepare again, against what the tags lead to now.
RerunAll(r) ==
    /\ Move(r, "incomplete", "toolchain")
    /\ chosen' = [chosen EXCEPT ![r] = NoSelection]
    /\ subject' = [subject EXCEPT ![r] = NoBase]
    /\ fresh' = [fresh EXCEPT ![r] = {}]
    /\ UNCHANGED <<settled, tagged, registry, setbacks>>

\* The Python producer dies; what it pushed is not indexed and is built again.
ProducerDies(r) ==
    /\ phase[r] \in {"python", "build", "parts"} /\ Setback(r, "python")
    /\ subject' = [subject EXCEPT ![r] = NoBase]
    /\ settled' = [settled EXCEPT ![r] = {}]
    /\ fresh' = [fresh EXCEPT ![r] = {}]
    /\ UNCHANGED <<chosen, tagged, registry>>

StoreDies(r) ==
    /\ phase[r] = "store" /\ Setback(r, "store")
    /\ tagged' = [tagged EXCEPT ![r] = {}]
    /\ UNCHANGED <<settled, subject, fresh, chosen, registry>>

ConsumerDies(r) ==
    /\ phase[r] \in {"consume", "bind", "bind parts"} /\ Setback(r, "consume")
    /\ settled' = [settled EXCEPT ![r] = {}]
    /\ chosen' = [chosen EXCEPT ![r] = NoSelection]
    /\ UNCHANGED <<producer, registry>>

Progress(r) ==
    \/ ToolchainAvailable(r) \/ ToolchainMissing(r)
    \/ PublishToolchain(r) \/ ConfirmToolchain(r)
    \/ ResolveToolchain(r) \/ ResolveBuild(r) \/ EnsureFinish(r) \/ StoreConfirm(r)
    \/ \E p \in Parts : EnsurePart(r, p) \/ BindPart(r, p)
    \/ \E name \in Names : StoreTag(r, name)
    \/ BindToolchain(r) \/ BindBuild(r) \/ BindFinish(r)

Next == \E r \in Runs :
    \/ Progress(r)
    \/ RerunFailed(r) \/ RerunAll(r)
    \/ ProducerDies(r) \/ StoreDies(r) \/ ConsumerDies(r)

Spec == Init /\ [][Next]_vars

\* Runners take the jobs, and operators retry as the documentation says.
RetrySpec == Spec /\ \A r \in Runs : WF_vars(Progress(r)) /\ WF_vars(RerunFailed(r))

\* Operators also repeat the whole run when that keeps failing.
RepeatSpec == RetrySpec /\ \A r \in Runs : SF_vars(RerunAll(r))

-----------------------------------------------------------------------------
\* What a consumer binds was built together: each target part with exactly the
\* toolchain and the build Python bound next to it, even when other runs moved
\* one of the tags in the middle of the selection.
ConsumedTogether ==
    \A r \in Runs : phase[r] = "done" =>
        \A p \in Parts :
            /\ chosen[r].parts[p].toolchain = chosen[r].toolchain
            /\ chosen[r].parts[p].build = chosen[r].build

\* A strict stage misses a component only if it found a toolchain or a build
\* Python other than the ones its own run has prepared the parts for.  Nothing
\* a run does to itself (partial publication, conflicts, retries) blocks it.
OnlyMovedTagsBlock ==
    \A r \in Runs : phase[r] = "incomplete" =>
        \/ chosen[r].toolchain # subject[r].toolchain
        \/ chosen[r].build # subject[r].build

\* Preparing again always leads out: a run that reached its strict stage gets
\* through it, unless its operators give up.
EventuallyConsumed ==
    \A r \in Runs : phase[r] = "consume" ~> phase[r] \in {"done", "abandoned"}
=============================================================================
