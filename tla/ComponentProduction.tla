------------------------ MODULE ComponentProduction ------------------------
(***************************************************************************)
(* The produce-toolchain workflow: several workflow runs make the same raw *)
(* components available through one OCI registry.                          *)
(*                                                                         *)
(* A run has four jobs.  `ensure' looks every requested role up and builds *)
(* only the missing ones; `sign' turns the handoff of the new receipts     *)
(* into a signed catalog; `store' retains that catalog under its digest    *)
(* and then moves the input tags to it; `verified' accepts the outcome.    *)
(* A run may be cancelled or fail anywhere, and be re-run in part (failed  *)
(* jobs or one job, with what depends on them) or as a whole, each time as *)
(* a new attempt.  Runs share nothing but the registry.                    *)
(***************************************************************************)
EXTENDS Integers, FiniteSets

CONSTANTS Runs,        \* workflow runs (push, dispatch, candidate)
          Keys,        \* input identities (component, role, input hash)
          Wants,       \* [Runs -> nonempty subset of Keys] roles a run requests
          MaxAttempt,  \* bound: attempts of one run
          MaxFaults,   \* bound: failed jobs and needless repetitions, over all runs
          None         \* an absent tag or an absent job output

ASSUME ProductionAssumption ==
    /\ Wants \in [Runs -> (SUBSET Keys) \ {{}}]
    /\ MaxAttempt \in Nat \ {0}
    /\ MaxFaults \in Nat

Attempts == 1 .. MaxAttempt

\* A component in the registry.  Its receipt names the invocation (run and
\* attempt) that built it, so no two attempts build the same artifact.
Artifact == [key : Keys, run : Runs, attempt : Attempts]

\* A signed catalog packed with its signature bundle.  `producer' is the
\* attempt whose receipts it lists, `signer' the attempt that signed it.
Envelope == [run : Runs, producer : Attempts, signer : Attempts,
             keys : (SUBSET Keys) \ {{}}]

\* The outputs of `ensure' when it produced something: the new receipts.
Handoff == [attempt : Attempts, keys : (SUBSET Keys) \ {{}}]

ASSUME NoneAssumption == None \notin Envelope \cup Handoff

Status == {"pending", "running", "success", "failure", "skipped"}

\* The registry artifact that entry k of catalog e refers to.
ArtifactOf(e, k) == [key |-> k, run |-> e.run, attempt |-> e.producer]

VARIABLES
    attempt,    \* [Runs -> 0 .. MaxAttempt], 0 before the run is created
    ensure,     \* [Runs -> Status] job results of the latest attempt
    sign,
    store,
    verified,
    available,  \* roles the running `ensure' found in the index
    missing,    \* the role it found absent and is building now
    fresh,      \* roles it built and pushed
    handoff,    \* outputs of the last `ensure', None if it produced nothing
    catalog,    \* outputs of the last successful `sign'
    tagged,     \* input tags the running `store' has moved
    confirmed,  \* input tags it has read back
    artifacts,  \* registry: component artifacts
    envelopes,  \* registry: retained catalog envelopes
    hint,       \* registry: [Keys -> Envelope or None] mutable input tags
    faults      \* failed jobs and needless repetitions so far

jobs     == <<attempt, ensure, sign, store, verified>>
ensuring == <<available, missing, fresh, handoff>>
storing  == <<tagged, confirmed>>
registry == <<artifacts, envelopes, hint>>
vars     == <<jobs, ensuring, catalog, storing, registry, faults>>

TypeOK ==
    /\ attempt \in [Runs -> 0 .. MaxAttempt]
    /\ ensure \in [Runs -> Status]
    /\ sign \in [Runs -> Status]
    /\ store \in [Runs -> Status]
    /\ verified \in [Runs -> Status]
    /\ available \in [Runs -> SUBSET Keys]
    /\ missing \in [Runs -> SUBSET Keys]
    /\ fresh \in [Runs -> SUBSET Keys]
    /\ handoff \in [Runs -> Handoff \cup {None}]
    /\ catalog \in [Runs -> Envelope \cup {None}]
    /\ tagged \in [Runs -> SUBSET Keys]
    /\ confirmed \in [Runs -> SUBSET Keys]
    /\ artifacts \subseteq Artifact
    /\ envelopes \subseteq Envelope
    /\ hint \in [Keys -> Envelope \cup {None}]
    /\ faults \in 0 .. MaxFaults

Init ==
    /\ attempt = [r \in Runs |-> 0]
    /\ ensure = [r \in Runs |-> "pending"]
    /\ sign = [r \in Runs |-> "pending"]
    /\ store = [r \in Runs |-> "pending"]
    /\ verified = [r \in Runs |-> "pending"]
    /\ available = [r \in Runs |-> {}]
    /\ missing = [r \in Runs |-> {}]
    /\ fresh = [r \in Runs |-> {}]
    /\ handoff = [r \in Runs |-> None]
    /\ catalog = [r \in Runs |-> None]
    /\ tagged = [r \in Runs |-> {}]
    /\ confirmed = [r \in Runs |-> {}]
    /\ artifacts = {}
    /\ envelopes = {}
    /\ hint = [k \in Keys |-> None]
    /\ faults = 0

-----------------------------------------------------------------------------
(***************************************************************************)
(* Attempts                                                                *)
(***************************************************************************)
Completed(r) == verified[r] \in {"success", "failure"}

Fault == faults < MaxFaults /\ faults' = faults + 1

\* Repeating a run that has succeeded counts against the same bound.
Repeat(r) ==
    /\ attempt[r] > 0 /\ Completed(r) /\ attempt[r] < MaxAttempt
    /\ attempt' = [attempt EXCEPT ![r] = @ + 1]
    /\ verified' = [verified EXCEPT ![r] = "pending"]
    /\ IF verified[r] = "success" THEN Fault ELSE UNCHANGED faults

Trigger(r) ==
    /\ attempt[r] = 0
    /\ attempt' = [attempt EXCEPT ![r] = 1]
    /\ UNCHANGED <<ensure, sign, store, verified, ensuring, catalog, storing,
                   registry, faults>>

\* `Re-run all jobs': no result or output of the previous attempt survives.
RerunAll(r) ==
    /\ Repeat(r)
    /\ ensure' = [ensure EXCEPT ![r] = "pending"]
    /\ sign' = [sign EXCEPT ![r] = "pending"]
    /\ store' = [store EXCEPT ![r] = "pending"]
    /\ available' = [available EXCEPT ![r] = {}]
    /\ fresh' = [fresh EXCEPT ![r] = {}]
    /\ handoff' = [handoff EXCEPT ![r] = None]
    /\ catalog' = [catalog EXCEPT ![r] = None]
    /\ UNCHANGED <<missing, storing, registry>>

\* `Re-run failed jobs': failed jobs and the jobs that need them run again;
\* successful predecessors keep their results, outputs and artifacts.
RerunFailed(r) ==
    /\ Repeat(r) /\ verified[r] = "failure"
    /\ LET againEnsure == ensure[r] = "failure"
           againSign   == againEnsure \/ sign[r] = "failure"
           againStore  == againSign \/ store[r] = "failure"
       IN /\ ensure' = [ensure EXCEPT ![r] = IF againEnsure THEN "pending" ELSE @]
          /\ sign' = [sign EXCEPT ![r] = IF againSign THEN "pending" ELSE @]
          /\ store' = [store EXCEPT ![r] = IF againStore THEN "pending" ELSE @]
    /\ UNCHANGED <<ensuring, catalog, storing, registry>>

\* Re-run of one job that had succeeded, with the jobs that need it: signing the
\* same handoff once more makes a second envelope, storing the same catalog once
\* more moves the tags back to it.  (`ensure' with its dependents is RerunAll.)
RerunJob(r) ==
    /\ Repeat(r)
    /\ \/ /\ sign[r] = "success"
          /\ sign' = [sign EXCEPT ![r] = "pending"]
          /\ store' = [store EXCEPT ![r] = "pending"]
          /\ catalog' = [catalog EXCEPT ![r] = None]
       \/ /\ store[r] = "success"
          /\ store' = [store EXCEPT ![r] = "pending"]
          /\ UNCHANGED <<sign, catalog>>
       \/ /\ verified[r] = "success"
          /\ UNCHANGED <<sign, store, catalog>>
    /\ UNCHANGED <<ensure, ensuring, storing, registry>>

-----------------------------------------------------------------------------
(***************************************************************************)
(* Job ensure: authenticate availability, build only misses                *)
(***************************************************************************)
EnsureStart(r) ==
    /\ attempt[r] > 0 /\ ensure[r] = "pending"
    /\ ensure' = [ensure EXCEPT ![r] = "running"]
    /\ UNCHANGED <<attempt, sign, store, verified, ensuring, catalog, storing,
                   registry, faults>>

\* Roles are handled one after the other, in a fixed order that does not
\* matter here: the next one is looked up when the last one is settled.
NextRole(r, k) ==
    /\ ensure[r] = "running" /\ missing[r] = {}
    /\ k \in Wants[r] \ (available[r] \cup fresh[r])

\* The index names a catalog that is retained, authenticates and has an entry
\* for exactly this input.  Anything else is an error, not a miss.
Covers(e, k) == e \in envelopes /\ k \in e.keys

LookupHit(r, k) ==
    /\ NextRole(r, k) /\ hint[k] # None /\ Covers(hint[k], k)
    /\ available' = [available EXCEPT ![r] = @ \cup {k}]
    /\ UNCHANGED <<jobs, missing, fresh, handoff, catalog, storing, registry, faults>>

\* Mutant of LookupMiss: a role is built without asking the index first.
BugLookupMiss(r, k) ==
    /\ NextRole(r, k)
    /\ missing' = [missing EXCEPT ![r] = {k}]
    /\ UNCHANGED <<jobs, available, fresh, handoff, catalog, storing, registry, faults>>

LookupMiss(r, k) ==
    /\ NextRole(r, k) /\ hint[k] = None
    /\ missing' = [missing EXCEPT ![r] = {k}]
    /\ UNCHANGED <<jobs, available, fresh, handoff, catalog, storing, registry, faults>>

\* Build, seal a receipt that names this invocation, push the artifact.
Build(r, k) ==
    /\ ensure[r] = "running" /\ k \in missing[r]
    /\ artifacts' = artifacts \cup {[key |-> k, run |-> r, attempt |-> attempt[r]]}
    /\ missing' = [missing EXCEPT ![r] = {}]
    /\ fresh' = [fresh EXCEPT ![r] = @ \cup {k}]
    /\ UNCHANGED <<jobs, available, handoff, catalog, storing, envelopes, hint, faults>>

\* The handoff lists only the new receipts.  Without one, the catalog jobs
\* have nothing to do and are skipped.
EnsureFinish(r) ==
    /\ ensure[r] = "running" /\ missing[r] = {}
    /\ available[r] \cup fresh[r] = Wants[r]
    /\ ensure' = [ensure EXCEPT ![r] = "success"]
    /\ IF fresh[r] = {}
         THEN /\ sign' = [sign EXCEPT ![r] = "skipped"]
              /\ store' = [store EXCEPT ![r] = "skipped"]
              /\ UNCHANGED handoff
         ELSE /\ handoff' = [handoff EXCEPT ![r] = [attempt |-> attempt[r], keys |-> fresh[r]]]
              /\ UNCHANGED <<sign, store>>
    /\ UNCHANGED <<attempt, verified, available, missing, fresh, catalog, storing,
                   registry, faults>>

-----------------------------------------------------------------------------
(***************************************************************************)
(* Job sign: the exact new receipts of a successful `ensure' of this or an *)
(* earlier attempt, signed by this attempt                                 *)
(***************************************************************************)
\* Mutant of SignReady: only a handoff of the running attempt is accepted.
BugSignReady(r) ==
    /\ ensure[r] = "success" /\ sign[r] = "pending"
    /\ handoff[r] # None /\ handoff[r].attempt = attempt[r]

SignReady(r) ==
    /\ ensure[r] = "success" /\ sign[r] = "pending"
    /\ handoff[r] # None /\ handoff[r].attempt <= attempt[r]

\* Mutant of Sign: a retry labels the receipts as produced by its own attempt.
BugSignRelabels(r) ==
    /\ SignReady(r)
    /\ sign' = [sign EXCEPT ![r] = "success"]
    /\ catalog' = [catalog EXCEPT ![r] =
           [run |-> r, producer |-> attempt[r], signer |-> attempt[r],
            keys |-> handoff[r].keys]]
    /\ UNCHANGED <<attempt, ensure, store, verified, ensuring, storing, registry, faults>>

\* Mutant of Sign: the catalog also lists the roles that were only looked up.
BugSignWidens(r) ==
    /\ SignReady(r)
    /\ sign' = [sign EXCEPT ![r] = "success"]
    /\ catalog' = [catalog EXCEPT ![r] =
           [run |-> r, producer |-> handoff[r].attempt, signer |-> attempt[r],
            keys |-> Wants[r]]]
    /\ UNCHANGED <<attempt, ensure, store, verified, ensuring, storing, registry, faults>>

Sign(r) ==
    /\ SignReady(r)
    /\ sign' = [sign EXCEPT ![r] = "success"]
    /\ catalog' = [catalog EXCEPT ![r] =
           [run |-> r, producer |-> handoff[r].attempt, signer |-> attempt[r],
            keys |-> handoff[r].keys]]
    /\ UNCHANGED <<attempt, ensure, store, verified, ensuring, storing, registry, faults>>

-----------------------------------------------------------------------------
(***************************************************************************)
(* Job store: reverify, retain the envelope by digest, move the input tags *)
(* one by one, read every tag back                                         *)
(***************************************************************************)
StoreReady(r) ==
    /\ sign[r] = "success" /\ store[r] = "pending"
    /\ catalog[r].producer <= catalog[r].signer
    /\ catalog[r].signer <= attempt[r]

StoreRetain(r) ==
    /\ StoreReady(r)
    /\ store' = [store EXCEPT ![r] = "running"]
    /\ envelopes' = envelopes \cup {catalog[r]}
    /\ UNCHANGED <<attempt, ensure, sign, verified, ensuring, catalog, storing,
                   artifacts, hint, faults>>

StoreTag(r, k) ==
    /\ store[r] = "running" /\ k \in catalog[r].keys \ tagged[r]
    /\ hint' = [hint EXCEPT ![k] = catalog[r]]
    /\ tagged' = [tagged EXCEPT ![r] = @ \cup {k}]
    /\ UNCHANGED <<jobs, ensuring, catalog, confirmed, artifacts, envelopes, faults>>

ReadBack(r, k) ==
    /\ store[r] = "running" /\ tagged[r] = catalog[r].keys
    /\ k \in catalog[r].keys \ confirmed[r]

StoreConfirm(r, k) ==
    /\ ReadBack(r, k) /\ hint[k] = catalog[r]
    /\ confirmed' = [confirmed EXCEPT ![r] = @ \cup {k}]
    /\ UNCHANGED <<jobs, ensuring, catalog, tagged, registry, faults>>

EndStore(r, result) ==
    /\ store' = [store EXCEPT ![r] = result]
    /\ tagged' = [tagged EXCEPT ![r] = {}]
    /\ confirmed' = [confirmed EXCEPT ![r] = {}]
    /\ UNCHANGED <<attempt, ensure, sign, verified, ensuring, catalog, registry>>

\* Another run moved the tag in between: `catalog input index changed during
\* publication'.  The job fails; the tag keeps its new value.
StoreConflict(r, k) ==
    /\ ReadBack(r, k) /\ hint[k] # catalog[r]
    /\ EndStore(r, "failure")
    /\ UNCHANGED faults

StoreFinish(r) ==
    /\ store[r] = "running" /\ confirmed[r] = catalog[r].keys
    /\ EndStore(r, "success")
    /\ UNCHANGED faults

-----------------------------------------------------------------------------
(***************************************************************************)
(* Job verified: runs once the other jobs are settled, whatever happened   *)
(***************************************************************************)
Settled(status) == status \in {"success", "failure", "skipped"}

\* Mutant of ProductionAccepted: a skipped store job counts as nothing to store.
BugProductionAccepted(r) == ensure[r] = "success" /\ store[r] # "failure"

ProductionAccepted(r) ==
    /\ ensure[r] = "success"
    /\ LET expected == IF handoff[r] # None THEN "success" ELSE "skipped"
       IN sign[r] = expected /\ store[r] = expected

VerifyReady(r) ==
    /\ attempt[r] > 0 /\ verified[r] = "pending"
    /\ Settled(ensure[r]) /\ Settled(sign[r]) /\ Settled(store[r])

Verify(r) ==
    /\ VerifyReady(r)
    /\ verified' = [verified EXCEPT ![r] =
           IF ProductionAccepted(r) THEN "success" ELSE "failure"]
    /\ UNCHANGED <<attempt, ensure, sign, store, ensuring, catalog, storing,
                   registry, faults>>

-----------------------------------------------------------------------------
(***************************************************************************)
(* Faults: a job is cancelled (a newer push cancels an older build), times *)
(* out, loses its runner or gets an error from a service.  What it already *)
(* wrote to the registry stays; its dependents are skipped.                *)
(***************************************************************************)
EnsureFails(r) ==
    /\ Fault /\ ensure[r] = "running"
    /\ ensure' = [ensure EXCEPT ![r] = "failure"]
    /\ sign' = [sign EXCEPT ![r] = "skipped"]
    /\ store' = [store EXCEPT ![r] = "skipped"]
    /\ available' = [available EXCEPT ![r] = {}]
    /\ missing' = [missing EXCEPT ![r] = {}]
    /\ fresh' = [fresh EXCEPT ![r] = {}]
    /\ UNCHANGED <<attempt, verified, handoff, catalog, storing, registry>>

SignFails(r) ==
    /\ Fault /\ SignReady(r)
    /\ sign' = [sign EXCEPT ![r] = "failure"]
    /\ store' = [store EXCEPT ![r] = "skipped"]
    /\ UNCHANGED <<attempt, ensure, verified, ensuring, catalog, storing, registry>>

StoreFails(r) ==
    /\ Fault /\ (StoreReady(r) \/ store[r] = "running")
    /\ EndStore(r, "failure")

VerifyFails(r) ==
    /\ Fault /\ VerifyReady(r)
    /\ verified' = [verified EXCEPT ![r] = "failure"]
    /\ UNCHANGED <<attempt, ensure, sign, store, ensuring, catalog, storing, registry>>

-----------------------------------------------------------------------------
Progress(r) ==
    \/ RerunFailed(r)
    \/ EnsureStart(r) \/ EnsureFinish(r)
    \/ \E k \in Keys : LookupHit(r, k) \/ LookupMiss(r, k) \/ Build(r, k)
    \/ Sign(r)
    \/ StoreRetain(r) \/ StoreFinish(r)
    \/ \E k \in Keys : StoreTag(r, k) \/ StoreConfirm(r, k) \/ StoreConflict(r, k)
    \/ Verify(r)

Disturbance(r) ==
    \/ RerunAll(r) \/ RerunJob(r)
    \/ EnsureFails(r) \/ SignFails(r) \/ StoreFails(r) \/ VerifyFails(r)

Next == \E r \in Runs : Trigger(r) \/ Progress(r) \/ Disturbance(r)

Spec == Init /\ [][Next]_vars

\* Runners take the jobs of a run that is under way, and an operator re-runs
\* a failed attempt.  Nothing makes a run start, fail or be repeated.
FairSpec == Spec /\ \A r \in Runs : WF_vars(Progress(r))

-----------------------------------------------------------------------------
(***************************************************************************)
(* Safety                                                                  *)
(***************************************************************************)

\* Every retained catalog lists artifacts that its producing attempt really
\* pushed, and was signed by that attempt or a later one.  A retry may sign or
\* store what an earlier attempt built; it must never relabel it as its own
\* (component_retry.upstream, component_catalog.validate).
CatalogsNameTheirProducer ==
    \A e \in envelopes :
        /\ e.producer <= e.signer
        /\ \A k \in e.keys : ArtifactOf(e, k) \in artifacts

\* An input tag never leads to a catalog that is not retained, has no entry
\* for the input, or lists an artifact nobody pushed.  Lookup treats each of
\* these as a hard error, so a tag in such a state blocks every consumer.
HintsUsable ==
    \A k \in Keys : hint[k] # None =>
        /\ Covers(hint[k], k)
        /\ ArtifactOf(hint[k], k) \in artifacts

\* When `verified' succeeds, every role the run asked for can be looked up:
\* those found by `ensure' in this or an earlier attempt, and those it built,
\* through whatever mixture of attempts signed and stored them.  Consumers are
\* released on this job alone.
VerifiedMeansAvailable ==
    \A r \in Runs : verified[r] = "success" =>
        \A k \in Wants[r] : hint[k] # None

\* Once an input is indexed it stays indexed, in every step of every run: a
\* conflicting, failing or repeated publication may move the tag but never
\* leaves it absent (`missing' would ask for a needless rebuild).
IndexNeverForgets ==
    [][\A k \in Keys : hint[k] # None => hint'[k] # None]_vars

\* What one attempt published, no later attempt of the run builds again: within
\* a run a tag only moves on to the same receipts signed in a later attempt,
\* never to other receipts and never back to an older signature.  Only another
\* run that looked the input up too early replaces the artifact itself.
OwnReceiptsNeverSuperseded ==
    [][\A k \in Keys :
          hint[k] # None /\ hint'[k] # hint[k] /\ hint'[k].run = hint[k].run
            => /\ ArtifactOf(hint'[k], k) = ArtifactOf(hint[k], k)
               /\ hint'[k].signer > hint[k].signer]_vars

(***************************************************************************)
(* The inductive invariant: what the jobs of one run know about each other *)
(* and about the registry                                                  *)
(***************************************************************************)

\* A job has results only inside an attempt; a job that needs another one has
\* run only after it succeeded.
JobsInOrder ==
    \A r \in Runs :
        /\ ensure[r] \notin {"pending", "skipped"} => attempt[r] > 0
        /\ sign[r] = "success" => ensure[r] = "success" /\ handoff[r] # None
        /\ store[r] \in {"running", "success"} => sign[r] = "success"
        /\ Completed(r) => Settled(ensure[r]) /\ Settled(sign[r]) /\ Settled(store[r])
        /\ verified[r] = "success" => ProductionAccepted(r)

\* Working sets belong to the role loop of `ensure'.
EnsureLoop ==
    \A r \in Runs :
        /\ available[r] \cup missing[r] \cup fresh[r] \subseteq Wants[r]
        /\ \A k \in available[r] : hint[k] # None
        /\ missing[r] # {} => ensure[r] = "running"
        /\ ensure[r] \in {"pending", "failure"} => fresh[r] = {} /\ available[r] = {}
        /\ ensure[r] = "running" => \A k \in fresh[r] :
               [key |-> k, run |-> r, attempt |-> attempt[r]] \in artifacts

\* A handoff lists pushed artifacts of an attempt that has taken place; with
\* the roles found available it accounts for everything the run wants.
HandoffsBacked ==
    \A r \in Runs :
        /\ handoff[r] # None =>
              /\ ensure[r] = "success"
              /\ handoff[r].attempt <= attempt[r]
              /\ handoff[r].keys = fresh[r]
              /\ \A k \in handoff[r].keys :
                    [key |-> k, run |-> r, attempt |-> handoff[r].attempt] \in artifacts
        /\ ensure[r] = "success" =>
              /\ available[r] \cup fresh[r] = Wants[r]
              /\ handoff[r] = None => fresh[r] = {}

\* A signed catalog is the handoff of the same run, unchanged.
CatalogsMatchHandoff ==
    \A r \in Runs :
        /\ sign[r] # "success" => catalog[r] = None
        /\ sign[r] = "success" =>
              /\ catalog[r] # None
              /\ catalog[r].run = r
              /\ catalog[r].producer = handoff[r].attempt
              /\ catalog[r].keys = handoff[r].keys
              /\ catalog[r].producer <= catalog[r].signer
              /\ catalog[r].signer <= attempt[r]

\* Storage moves a tag only after retention, and confirms what it has moved.
StoreInOrder ==
    \A r \in Runs :
        /\ store[r] = "running" =>
              /\ catalog[r] \in envelopes
              /\ confirmed[r] \subseteq tagged[r]
              /\ tagged[r] \subseteq catalog[r].keys
              /\ \A k \in tagged[r] : hint[k] # None
        /\ store[r] # "running" => tagged[r] = {} /\ confirmed[r] = {}
        /\ store[r] = "success" => \A k \in catalog[r].keys : hint[k] # None

\* While a run still has a role to publish, a tag of this run on it comes from
\* the handoff the run holds: it is the present catalog or one signed earlier.
OwnTags ==
    \A r \in Runs : \A k \in missing[r] \cup fresh[r] :
        hint[k] # None /\ hint[k].run = r =>
            /\ handoff[r] # None /\ hint[k].producer = handoff[r].attempt
            /\ hint[k].signer <= attempt[r]
            /\ sign[r] = "pending" => hint[k].signer < attempt[r]
            /\ catalog[r] # None => hint[k] = catalog[r] \/ hint[k].signer < catalog[r].signer

Inv == /\ TypeOK
       /\ JobsInOrder /\ EnsureLoop /\ HandoffsBacked /\ CatalogsMatchHandoff
       /\ StoreInOrder /\ OwnTags
       /\ CatalogsNameTheirProducer /\ HintsUsable

(***************************************************************************)
(* Liveness                                                                *)
(***************************************************************************)

\* Whatever is cancelled, lost or overwritten in between, every role a run
\* asked for is indexed in the end, as long as faults run out before attempts.
EventuallyAvailable ==
    \A r \in Runs : \A k \in Wants[r] : attempt[r] > 0 ~> hint[k] # None

(***************************************************************************)
(* The store and its tags implement the index that consumers rely on       *)
(***************************************************************************)
KeyOfArtifact(a) == a.key

Index == INSTANCE ComponentIndex WITH
            KeyOf  <- KeyOfArtifact,
            stored <- artifacts,
            index  <- [k \in Keys |-> IF hint[k] = None THEN None
                                      ELSE ArtifactOf(hint[k], k)]

\* Every step of every run is, for the index, the storage of a new artifact,
\* the move of one tag to a stored artifact of that very input, or nothing.
ImplementsIndex == Index!Spec
=============================================================================
