---------------------------- MODULE CandidateRun ----------------------------
(***************************************************************************)
(* Candidate runs of one commit.                                           *)
(*                                                                         *)
(* A run qualifies the commit and then executes five jobs in a row: it     *)
(* pushes a source image, pushes an SDK image that names the source image, *)
(* checks both as an anonymous consumer and builds native probes, runs the *)
(* probes on real hardware, and signs the two images.  A job that dies is  *)
(* executed again in a later attempt of the same run while the jobs before *)
(* it keep their artifacts and outputs, so that one candidate is pieced    *)
(* together from several attempts.  An image may have been pushed, an      *)
(* artifact uploaded or a signature made by a job that did not succeed.    *)
(*                                                                         *)
(* Every push, upload and report is new, so the attempt that made it       *)
(* identifies it within its run: a digest, a checkpoint SHA256 and an      *)
(* artifact ID are all written as that attempt, and the identity of a      *)
(* candidate is the lineage of attempts it was made by.                    *)
(***************************************************************************)
EXTENDS WorkflowRuns

CONSTANTS MaxFaults,   \* bound: jobs that die and runs that are cancelled
          MaxRepeats   \* bound: jobs executed again without need

ASSUME CandidateAssumption == MaxFaults \in Nat /\ MaxRepeats \in Nat

\* The jobs in the order of their `needs'; a lineage names the attempts in
\* which its first parts were made, and 0 for those it does not have.
Rank == [qualify |-> 0, source |-> 1, sdk |-> 2, publish |-> 3, native |-> 4, sign |-> 5]
Jobs == {"qualify", "source", "sdk", "publish", "native", "sign"}
Following == [qualify |-> "source", source |-> "sdk", sdk |-> "publish",
              publish |-> "native", native |-> "sign"]

Lineage == [source : Nat, sdk : Nat, publish : Nat, native : Nat]
NoLineage == [source |-> 0, sdk |-> 0, publish |-> 0, native |-> 0]

\* The steps of a job between which dying makes a difference; the last step of
\* a job bears its name.
First == [qualify |-> "qualify", source |-> "push source", sdk |-> "push sdk",
          publish |-> "build probes", native |-> "run probes", sign |-> "sign sdk"]
Steps == Jobs \cup {"push source", "seal source", "push sdk", "seal sdk", "build probes",
                    "stage identity", "stage probes", "run probes", "stage evidence", "sign sdk", "sign source", "upload"}
JobOf(where) ==
    CASE where \in {"push source", "seal source"} -> "source"
      [] where \in {"push sdk", "seal sdk"} -> "sdk"
      [] where \in {"build probes", "stage identity", "stage probes"} -> "publish"
      [] where \in {"run probes", "stage evidence"} -> "native"
      [] where \in {"sign sdk", "sign source", "upload"} -> "sign"
      [] OTHER -> where

Roles == {"source checkpoint", "sdk checkpoint", "identity", "probes", "evidence", "signature"}
Artifact == [role : Roles, run : Runs, attempt : Nat, lineage : Lineage]

\* An image's tag names its kind, run and attempt; an SDK image contains the
\* digest of its source image.
Image == [kind : {"source", "sdk"}, run : Runs, attempt : Nat, source : Nat]
SourceImage(r, a) == [kind |-> "source", run |-> r, attempt |-> a, source |-> a]
SdkImage(r, a, source) == [kind |-> "sdk", run |-> r, attempt |-> a, source |-> source]

Success == [job : Jobs, run : Runs, attempt : Nat, lineage : Lineage]

VARIABLES
    step,       \* of each run: the step that is executed, or was when it stopped
    output,     \* of each job: the attempt that made the outputs `needs' shows
    lineage,    \* what the job in progress has read and made
    artifacts,  \* uploaded and not expired
    images,     \* in the registry
    signed,     \* images that bear a signature
    expired,    \* runs whose artifacts are gone
    succeeded,  \* history: successful executions of jobs
    faults, repeats

runState == <<status, attempt, step, output, lineage>>
stored == <<artifacts, images, signed, expired>>
candidateVars == <<runState, stored, succeeded, faults, repeats>>

CandidateTypeOK ==
    /\ RunTypeOK
    /\ step \in [Runs -> Steps]
    /\ output \in [Runs -> [Jobs -> Nat]]
    /\ lineage \in [Runs -> Lineage]
    /\ artifacts \subseteq Artifact
    /\ images \subseteq Image /\ signed \subseteq Image
    /\ expired \subseteq Runs
    /\ succeeded \subseteq Success
    /\ faults \in 0 .. MaxFaults /\ repeats \in 0 .. MaxRepeats

CandidateInit ==
    /\ RunInit
    /\ step = [r \in Runs |-> "qualify"]
    /\ output = [r \in Runs |-> [j \in Jobs |-> 0]]
    /\ lineage = [r \in Runs |-> NoLineage]
    /\ artifacts = {} /\ images = {} /\ signed = {} /\ expired = {}
    /\ succeeded = {}
    /\ faults = 0 /\ repeats = 0

-----------------------------------------------------------------------------
(***************************************************************************)
(* Runs and their attempts                                                 *)
(***************************************************************************)
Dispatch(r) ==
    /\ DispatchRun(r)
    /\ UNCHANGED <<step, output, lineage, stored, succeeded, faults, repeats>>

Start(r) ==
    /\ StartRun(r)
    /\ UNCHANGED <<step, output, lineage, stored, succeeded, faults, repeats>>

\* A job is executed again together with every job that needs it; the outputs
\* of the others are kept.
Again(r, job) ==
    /\ RepeatRun(r) /\ r \notin expired
    /\ \A before \in Jobs : Rank[before] < Rank[job] => output[r][before] # 0
    /\ step' = [step EXCEPT ![r] = First[job]]
    /\ output' = [output EXCEPT ![r] = [j \in Jobs |-> IF Rank[j] < Rank[job] THEN @[j] ELSE 0]]
    /\ lineage' = [lineage EXCEPT ![r] = NoLineage]
    /\ UNCHANGED <<stored, succeeded, faults>>

\* Mutant of RerunFailed: a run is repeated once.
BugRerunFailed(r) ==
    /\ status[r] = "failure" /\ attempt[r] = 1
    /\ Again(r, JobOf(step[r]))
    /\ UNCHANGED repeats

RerunFailed(r) ==
    /\ status[r] = "failure"
    /\ Again(r, JobOf(step[r]))
    /\ UNCHANGED repeats

Rerun(r, job) ==
    /\ repeats < MaxRepeats /\ repeats' = repeats + 1
    /\ Again(r, job)

\* A step fails, a runner is lost, or the run is cancelled; what has been
\* pushed, uploaded or signed remains.
Die(r) ==
    /\ ConcludeRun(r, "failure")
    /\ faults < MaxFaults /\ faults' = faults + 1
    /\ UNCHANGED <<step, output, lineage, stored, succeeded, repeats>>

\* Artifacts are retained longer than a run can be executed again.
Expire(r) ==
    /\ Completed(r) /\ r \notin expired
    /\ expired' = expired \cup {r}
    /\ artifacts' = {a \in artifacts : a.run # r}
    /\ UNCHANGED <<runState, images, signed, succeeded, faults, repeats>>

-----------------------------------------------------------------------------
(***************************************************************************)
(* Jobs                                                                    *)
(***************************************************************************)
At(r, where) == status[r] = "running" /\ step[r] = where

Goto(r, where) == step' = [step EXCEPT ![r] = where] /\ UNCHANGED <<status, attempt>>

\* A failed check ends the job, and with it the attempt.
Stop(r) == ConcludeRun(r, "failure") /\ UNCHANGED <<step, lineage>>

FinishAs(r, job, producer) ==
    /\ At(r, job)
    /\ output' = [output EXCEPT ![r][job] = producer]
    /\ succeeded' = succeeded \cup
           {[job |-> job, run |-> r, attempt |-> attempt[r], lineage |-> lineage[r]]}
    /\ IF job = "sign"
         THEN ConcludeRun(r, "success") /\ UNCHANGED step
         ELSE Goto(r, First[Following[job]])
    /\ UNCHANGED <<lineage, stored, faults, repeats>>

\* Mutant of Finish: outputs name the first attempt of the run.
BugFinish(r, job) == FinishAs(r, job, 1)

\* The job succeeds: its outputs replace those of an earlier execution, and
\* the job that needs it starts.
Finish(r, job) == FinishAs(r, job, attempt[r])

Upload(r, role) ==
    artifacts' = artifacts \cup
        {[role |-> role, run |-> r, attempt |-> attempt[r], lineage |-> lineage[r]]}

\* Mutant of Download: by the role's name, whatever attempt uploaded it.
BugDownload(r, role, producer) == {a \in artifacts : a.role = role /\ a.run = r}

\* What downloading the artifact of that ID finds: one artifact or none.
Download(r, role, producer) ==
    {a \in artifacts : a.role = role /\ a.run = r /\ a.attempt = producer}

TagExists(kind, r, a) == \E i \in images : i.kind = kind /\ i.run = r /\ i.attempt = a

PushSource(r) ==
    /\ At(r, "push source")
    /\ IF TagExists("source", r, attempt[r]) \/ TagExists("sdk", r, attempt[r])
         THEN Stop(r) /\ UNCHANGED images
         ELSE /\ images' = images \cup {SourceImage(r, attempt[r])}
              /\ lineage' = [lineage EXCEPT ![r] = [NoLineage EXCEPT !.source = attempt[r]]]
              /\ Goto(r, "seal source")
    /\ UNCHANGED <<output, artifacts, signed, expired, succeeded, faults, repeats>>

\* The upload of a job's result; its last step follows.
Deliver(r, where, role, next) ==
    /\ At(r, where)
    /\ Upload(r, role)
    /\ Goto(r, next)
    /\ UNCHANGED <<output, lineage, images, signed, expired, succeeded, faults, repeats>>

SealSource(r) == Deliver(r, "seal source", "source checkpoint", "source")

\* The checkpoint that the outputs of the source job name, if it can be used:
\* the payload of its image must be public before an SDK image names it.
SourceOriginal(r) ==
    {c \in Download(r, "source checkpoint", output[r].source) :
        /\ c.attempt <= attempt[r]
        /\ SourceImage(r, c.lineage.source) \in images}

PushSdk(r) ==
    /\ At(r, "push sdk")
    /\ IF SourceOriginal(r) = {} \/ TagExists("sdk", r, attempt[r])
         THEN Stop(r) /\ UNCHANGED images
         ELSE \E c \in SourceOriginal(r) :
            /\ images' = images \cup {SdkImage(r, attempt[r], c.lineage.source)}
            /\ lineage' = [lineage EXCEPT ![r] = [c.lineage EXCEPT !.sdk = attempt[r]]]
            /\ Goto(r, "seal sdk")
    /\ UNCHANGED <<output, artifacts, signed, expired, succeeded, faults, repeats>>

SealSdk(r) == Deliver(r, "seal sdk", "sdk checkpoint", "sdk")

\* The checkpoint of the SDK, whose two images must be public.
SdkOriginal(r) ==
    {c \in Download(r, "sdk checkpoint", output[r].sdk) :
        /\ c.lineage.source <= c.attempt /\ c.attempt <= attempt[r]
        /\ SdkImage(r, c.lineage.sdk, c.lineage.source) \in images
        /\ SourceImage(r, c.lineage.source) \in images}

\* The candidate's identity is uploaded once its probes have been built.
BuildProbes(r) ==
    /\ At(r, "build probes")
    /\ IF SdkOriginal(r) = {}
         THEN Stop(r)
         ELSE \E c \in SdkOriginal(r) :
            /\ lineage' = [lineage EXCEPT ![r] = [c.lineage EXCEPT !.publish = attempt[r]]]
            /\ Goto(r, "stage identity")
    /\ UNCHANGED <<output, stored, succeeded, faults, repeats>>

StageIdentity(r) == Deliver(r, "stage identity", "identity", "stage probes")

StageProbes(r) == Deliver(r, "stage probes", "probes", "publish")

\* upstream: the attempts that the outputs of the jobs name are in order.
Ordered(r, c) ==
    /\ c.source <= c.sdk /\ c.sdk <= c.publish
    /\ c.publish <= attempt[r]
    /\ c.native # 0 => c.publish <= c.native /\ c.native <= attempt[r]

ProbesOriginal(r) ==
    {p \in Download(r, "probes", output[r].publish) : Ordered(r, p.lineage)}

\* The probes run and pass; the report names the bundle that was executed.
RunProbes(r) ==
    /\ At(r, "run probes")
    /\ IF ProbesOriginal(r) = {}
         THEN Stop(r)
         ELSE \E p \in ProbesOriginal(r) :
            /\ lineage' = [lineage EXCEPT ![r] = [p.lineage EXCEPT !.native = attempt[r]]]
            /\ Goto(r, "stage evidence")
    /\ UNCHANGED <<output, stored, succeeded, faults, repeats>>

StageEvidence(r) == Deliver(r, "stage evidence", "evidence", "native")

\* A signature is for the candidate that the probes, the evidence and the
\* identity agree on; the report must be about exactly these probes.
SameCandidate(c, d) == c.source = d.source /\ c.sdk = d.sdk

Qualified(r) ==
    {e \in Download(r, "evidence", output[r].native) :
        /\ Ordered(r, e.lineage)
        /\ \E p \in Download(r, "probes", output[r].publish) :
            SameCandidate(p.lineage, e.lineage) /\ e.lineage.publish = p.lineage.publish
        /\ \E i \in Download(r, "identity", output[r].publish) :
            SameCandidate(i.lineage, e.lineage)}

\* Mutant of SignedImage: the image that bears the tag of this attempt.
BugSignedImage(r, c) == SdkImage(r, attempt[r], c.source)

\* The image of the digest that the candidate's document names.
SignedImage(r, c) == SdkImage(r, c.sdk, c.source)

SignSdk(r) ==
    /\ At(r, "sign sdk")
    /\ IF Qualified(r) = {}
         THEN Stop(r) /\ UNCHANGED signed
         ELSE \E e \in Qualified(r) :
            /\ signed' = signed \cup {SignedImage(r, e.lineage)}
            /\ lineage' = [lineage EXCEPT ![r] = e.lineage]
            /\ Goto(r, "sign source")
    /\ UNCHANGED <<output, artifacts, images, expired, succeeded, faults, repeats>>

SignSource(r) ==
    /\ At(r, "sign source")
    /\ signed' = signed \cup {SourceImage(r, lineage[r].source)}
    /\ Goto(r, "upload")
    /\ UNCHANGED <<output, lineage, artifacts, images, expired, succeeded, faults, repeats>>

\* Mutant of UploadSignature: named after the attempt of the evidence.
BugUploadSignature(r) ==
    /\ At(r, "upload")
    /\ artifacts' = artifacts \cup
        {[role |-> "signature", run |-> r, attempt |-> lineage[r].native, lineage |-> lineage[r]]}
    /\ Goto(r, "sign")
    /\ UNCHANGED <<output, lineage, images, signed, expired, succeeded, faults, repeats>>

\* The signatures that have just been made verify; the artifact holds the
\* lineage that promotion will follow.
UploadSignature(r) == Deliver(r, "upload", "signature", "sign")

-----------------------------------------------------------------------------
WorkflowNext(r) ==
    \/ Dispatch(r)
    \/ Start(r)
    \/ RerunFailed(r)
    \/ Die(r)
    \/ Expire(r)

JobNext(r) ==
    \/ \E job \in Jobs : Finish(r, job)
    \/ PushSource(r) \/ SealSource(r)
    \/ PushSdk(r) \/ SealSdk(r)
    \/ BuildProbes(r) \/ StageIdentity(r) \/ StageProbes(r)
    \/ RunProbes(r) \/ StageEvidence(r)
    \/ SignSdk(r) \/ SignSource(r) \/ UploadSignature(r)

CandidateNext ==
    \E r \in Runs :
        \/ WorkflowNext(r)
        \/ \E job \in Jobs : Rerun(r, job)
        \/ JobNext(r)

CandidateSpec == CandidateInit /\ [][CandidateNext]_candidateVars

\* GitHub starts a waiting run when its group is free, a runner executes the
\* steps of a job, and a maintainer re-runs the failed jobs of the newest run.
CandidateFairSpec ==
    /\ CandidateSpec
    /\ \A r \in Runs : WF_candidateVars(Start(r)) /\ WF_candidateVars(JobNext(r))
                       /\ WF_candidateVars(RerunFailed(r))

-----------------------------------------------------------------------------
(***************************************************************************)
(* What promotion accepts: the artifacts that the recovery document of the *)
(* run's latest attempt names by ID, one candidate, and two signatures     *)
(***************************************************************************)
Acceptable(r) ==
    /\ status[r] = "success"
    /\ \E s \in Download(r, "signature", attempt[r]) :
        /\ Ordered(r, s.lineage)
        /\ \A role \in {"identity", "probes", "evidence"} :
            \E a \in Download(r, role, IF role = "evidence" THEN s.lineage.native
                                                             ELSE s.lineage.publish) :
                /\ SameCandidate(a.lineage, s.lineage)
                /\ a.lineage.publish = s.lineage.publish
        /\ SignedImage(r, s.lineage) \in images \cap signed
        /\ SourceImage(r, s.lineage.source) \in images \cap signed

-----------------------------------------------------------------------------
(***************************************************************************)
(* Properties                                                              *)
(***************************************************************************)
Stages == {"source", "sdk", "publish", "native"}
SamePrefix(c, d, stage) == \A s \in Stages : Rank[s] <= Rank[stage] => c[s] = d[s]

\* Whatever died, was repeated or left behind: an SDK image bears a signature
\* only if a native execution succeeded for exactly that image and its source
\* image, and a source image only if the SDK image that names it bears one.
SignedQualified ==
    \A i \in signed :
        /\ i \in images
        /\ i.kind = "sdk" =>
            \E e \in succeeded : /\ e.job = "native" /\ e.run = i.run
                                 /\ e.lineage.sdk = i.attempt /\ e.lineage.source = i.source
        /\ i.kind = "source" =>
            \E sdk \in signed : sdk.kind = "sdk" /\ sdk.run = i.run /\ sdk.source = i.attempt

\* Every producer that the recovery document of a signature names is an
\* execution that succeeded, and that itself read the producers named before it.
LineageFromSuccess ==
    \A s \in artifacts : s.role = "signature" =>
        \A stage \in Stages : \E e \in succeeded :
            /\ e.job = stage /\ e.run = s.run /\ e.attempt = s.lineage[stage]
            /\ SamePrefix(e.lineage, s.lineage, stage)

\* A run that succeeded is signed for the newest successful execution of each
\* of its jobs: a retry supersedes what it repeats and keeps what it does not.
SignatureNamesLatest ==
    \A r \in Runs : status[r] = "success" =>
        \A s \in Download(r, "signature", attempt[r]), e \in succeeded :
            e.run = r /\ e.job \in Stages => e.attempt <= s.lineage[e.job]

\* Until its artifacts expire, a run that succeeded can be promoted, however
\* many attempts its candidate was pieced together from.
SuccessIsPromotable ==
    \A r \in Runs : status[r] = "success" /\ r \notin expired => Acceptable(r)

\* Finitely many dead jobs do not prevent a dispatched run from being signed,
\* unless it is given up.
EventuallySigned ==
    \A r \in Runs : status[r] = "queued" ~> status[r] = "success" \/ r \in expired
=============================================================================
