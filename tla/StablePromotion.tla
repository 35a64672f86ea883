--------------------------- MODULE StablePromotion ---------------------------
(***************************************************************************)
(* Stable promotion and rollback.                                          *)
(*                                                                         *)
(* A promotion job gives the digests of one qualified candidate their      *)
(* release names: it fills a draft GitHub release with evidence, points    *)
(* two version tags and two channel tags of the registry at the digests,   *)
(* and only then publishes the release.  A rollback job points the two     *)
(* channels at an already published version.  Jobs of both kinds share one *)
(* concurrency group; each may die between any two of its remote calls and *)
(* be dispatched again.  Maintainers push Git tags and discard drafts at   *)
(* any time, outside that group.                                           *)
(***************************************************************************)
EXTENDS Integers, Sequences, FiniteSets

CONSTANTS Candidates,  \* evidence sets: one successful attempt of a candidate run each
          Versions,    \* release versions
          Heads,       \* commits of main
          Digests,     \* OCI digests of SDK images and source bundles
          VersionOf,   \* [Candidates -> Versions] config/release.json at the commit
          HeadOf,      \* [Candidates -> Heads]
          SdkOf,       \* [Candidates -> Digests] candidate.json .digest
          SourceOf,    \* [Candidates -> Digests] candidate.json .source_bundle.digest
          Interventions, \* what maintainers do besides promoting
          MaxFaults,   \* bound: jobs that die
          Channel,     \* the stable channel's tag
          Incomplete,  \* an asset whose upload was interrupted
          None

ASSUME PromotionAssumption ==
    /\ VersionOf \in [Candidates -> Versions] /\ HeadOf \in [Candidates -> Heads]
    /\ SdkOf \in [Candidates -> Digests] /\ SourceOf \in [Candidates -> Digests]
    /\ Channel \notin Versions
    /\ None \notin Heads \cup Digests \cup Candidates
    /\ Incomplete \notin Candidates /\ Incomplete # None
    /\ MaxFaults \in Nat
    /\ Interventions \subseteq {"rollback", "tag", "discard", "repair"}

\* The release assets, in upload order.  candidate.json is the same for every
\* run that recovered the same candidate; the others name the run and attempt.
Assets == <<"archive", "checksum", "candidate", "promotion">>
Identity(c) == [head |-> HeadOf[c], sdk |-> SdkOf[c], source |-> SourceOf[c]]
Identities == {Identity(c) : c \in Candidates}
ASSUME IncompleteAssumption == Incomplete \notin Identities
AssetOf(c, name) == IF name = "candidate" THEN Identity(c) ELSE c
Names == {Assets[i] : i \in DOMAIN Assets}
NoAssets == [name \in Names |-> None]

\* Registry tags: v<version>, source-v<version>, <channel>, source-<channel>.
Kinds == {"source", "sdk"}
Tags == Kinds \X (Versions \cup {Channel})
DigestOf(id, kind) == IF kind = "source" THEN id.source ELSE id.sdk

Promote == [kind : {"promote"}, candidate : Candidates]
Rollback == [kind : {"rollback"}, version : Versions]

VARIABLES
    gitTag,    \* [Versions -> Heads or None]
    release,   \* [Versions -> [state, target, assets]] GitHub releases
    ref,       \* [Tags -> Digests or None] registry tags
    waiting,   \* the pending request of the concurrency group, or None
    job,       \* the job in progress, or None
    last,      \* how the last job ended
    faults

world == <<gitTag, release, ref>>
vars  == <<world, waiting, job, last, faults>>

Steps == {"preflight", "draft", "assets", "versions", "tags", "publish", "published",
          "resolve", "check", "channels"}

Release == [state : {"absent", "draft", "published"}, target : Heads \cup {None},
            assets : [Names -> Candidates \cup Identities \cup {None, Incomplete}]]

\* `seen' is the release state the preflight recorded for the later steps;
\* `done' counts the assets or tags that the current loop has settled.
Job == [request : Promote \cup Rollback, pc : Steps,
        seen : {"absent", "draft", "published"}, done : 0 .. 4]
ASSUME NoneAssumption == None \notin Job

TypeOK ==
    /\ gitTag \in [Versions -> Heads \cup {None}]
    /\ release \in [Versions -> Release]
    /\ ref \in [Tags -> Digests \cup {None}]
    /\ waiting \in Promote \cup Rollback \cup {None}
    /\ job \in Job \cup {None}
    /\ last \in {"none", "success", "failure"}
    /\ faults \in 0 .. MaxFaults

Uploaded(r) == \A name \in Names : r.assets[name] \notin {None, Incomplete}

NoRelease == [state |-> "absent", target |-> None, assets |-> NoAssets]

Init ==
    /\ gitTag = [v \in Versions |-> None]
    /\ release = [v \in Versions |-> NoRelease]
    /\ ref = [t \in Tags |-> None]
    /\ waiting = None /\ job = None /\ last = "none" /\ faults = 0

-----------------------------------------------------------------------------
(***************************************************************************)
(* Requests and the concurrency group: one job in progress, one pending    *)
(* request; a newer request replaces the pending one                       *)
(***************************************************************************)
\* Dispatched by a maintainer, or by the release coordinator for a tagged commit.
RequestPromotion(c) ==
    /\ waiting' = [kind |-> "promote", candidate |-> c]
    /\ UNCHANGED <<world, job, last, faults>>

RequestRollback(v) ==
    /\ "rollback" \in Interventions
    /\ waiting' = [kind |-> "rollback", version |-> v]
    /\ UNCHANGED <<world, job, last, faults>>

Start ==
    /\ job = None /\ waiting # None
    /\ job' = [request |-> waiting, seen |-> "absent", done |-> 0,
               pc |-> IF waiting.kind = "promote" THEN "preflight" ELSE "resolve"]
    /\ waiting' = None
    /\ UNCHANGED <<world, last, faults>>

At(kind, pc) == job # None /\ job.request.kind = kind /\ job.pc = pc

Goto(pc) == job' = [job EXCEPT !.pc = pc, !.done = 0] /\ UNCHANGED last

\* Mutant of End: a failing step does not fail the job.
BugEnd(result) == job' = None /\ last' = "success"

End(result) == job' = None /\ last' = result

\* A step whose check fails ends the job; nothing already written is undone.
Check(condition, pc) ==
    /\ IF condition THEN Goto(pc) ELSE End("failure")
    /\ UNCHANGED <<world, waiting, faults>>

-----------------------------------------------------------------------------
(***************************************************************************)
(* Promotion                                                               *)
(***************************************************************************)
Chosen == job.request.candidate
Commit == HeadOf[Chosen]
Version == VersionOf[Chosen]
Digest(kind) == DigestOf(Identity(Chosen), kind)

\* Mutant of Preflight: a release of another commit is taken up.
BugPreflight ==
    /\ At("promote", "preflight")
    /\ LET r == release[Version]
       IN IF /\ gitTag[Version] \in {None, Commit}
             /\ r.state = "published" => gitTag[Version] # None
            THEN job' = [job EXCEPT !.pc = "draft", !.seen = r.state] /\ UNCHANGED last
            ELSE End("failure")
    /\ UNCHANGED <<world, waiting, faults>>

\* The Git tag and a release, when they exist, must belong to this commit; the
\* release state is remembered for the rest of the job.  (A request that names
\* the tag has it checked once more before; neither check is repeated later.)
Preflight ==
    /\ At("promote", "preflight")
    /\ LET r == release[Version]
           acceptable == /\ gitTag[Version] \in {None, Commit}
                         /\ r.state # "absent" => r.target = Commit
                         /\ r.state = "published" => gitTag[Version] # None
       IN IF acceptable
            THEN job' = [job EXCEPT !.pc = "draft", !.seen = r.state] /\ UNCHANGED last
            ELSE End("failure")
    /\ UNCHANGED <<world, waiting, faults>>

\* Mutant of OpenDraft: only a new draft is accepted, never one to resume.
BugOpenDraft ==
    /\ At("promote", "draft")
    /\ IF job.seen = "absent"
         THEN /\ release' = [release EXCEPT ![Version] =
                     [state |-> "draft", target |-> Commit, assets |-> NoAssets]]
              /\ Goto("assets")
         ELSE /\ End("failure")
              /\ UNCHANGED release
    /\ UNCHANGED <<gitTag, ref, waiting, faults>>

\* Create the draft the preflight did not find, then read the release back.
OpenDraft ==
    /\ At("promote", "draft")
    /\ IF job.seen = "absent"
         THEN /\ release' = [release EXCEPT ![Version] =
                     [state |-> "draft", target |-> Commit, assets |-> NoAssets]]
              /\ Goto("assets")
         ELSE /\ IF release[Version].state = job.seen THEN Goto("assets") ELSE End("failure")
              /\ UNCHANGED release
    /\ UNCHANGED <<gitTag, ref, waiting, faults>>

\* Mutant of EnsureAsset: an asset of the right name is taken as it is.
BugEnsureAsset ==
    /\ At("promote", "assets") /\ job.done < Len(Assets)
    /\ release[Version].state # "absent"
    /\ LET name == Assets[job.done + 1]
       IN release' = [release EXCEPT ![Version].assets[name] =
                         IF @ = None THEN AssetOf(Chosen, name) ELSE @]
    /\ job' = [job EXCEPT !.done = @ + 1]
    /\ UNCHANGED <<gitTag, ref, waiting, last, faults>>

\* Upload the next missing asset, or accept one that has exactly these bytes.
EnsureAsset ==
    /\ At("promote", "assets") /\ job.done < Len(Assets)
    /\ LET r       == release[Version]
           name    == Assets[job.done + 1]
           content == AssetOf(Chosen, name)
       IN \/ /\ r.assets[name] = None /\ r.state = "draft"
             /\ release' = [release EXCEPT ![Version].assets[name] = content]
             /\ job' = [job EXCEPT !.done = @ + 1]
             /\ UNCHANGED last
          \/ /\ r.assets[name] # None /\ r.assets[name] = content
             /\ job' = [job EXCEPT !.done = @ + 1]
             /\ UNCHANGED <<release, last>>
          \/ /\ r.assets[name] # content
             /\ r.assets[name] # None \/ r.state # "draft"
             /\ End("failure")
             /\ UNCHANGED release
    /\ UNCHANGED <<gitTag, ref, waiting, faults>>

\* All assets settled: the release has exactly the allowed set.
AssetsComplete ==
    /\ At("promote", "assets") /\ job.done = Len(Assets)
    /\ Check(\A name \in Names : release[Version].assets[name] # None, "versions")

\* Mutant of Settable: an existing version tag is moved.
BugSettable(current, digest) == TRUE

\* A version tag is free, or already names the selected digest.
Settable(current, digest) == current \in {None, digest}

\* Both version tags are looked at before either is written.
CheckVersionTags ==
    /\ At("promote", "versions")
    /\ Check(\A kind \in Kinds : Settable(ref[<<kind, Version>>], Digest(kind)), "tags")

\* Mutant of PromotionOrder: a channel moves between the two version tags.
BugChannelEarly == <<<<"source", Version>>, <<"source", Channel>>,
                     <<"sdk", Version>>, <<"sdk", Channel>>>>

\* Source before SDK, versions before channels.
PromotionOrder == <<<<"source", Version>>, <<"sdk", Version>>,
                    <<"source", Channel>>, <<"sdk", Channel>>>>

PromoteTag ==
    /\ At("promote", "tags") /\ job.done < Len(PromotionOrder)
    /\ LET tag == PromotionOrder[job.done + 1]
       IN IF tag[2] = Channel \/ Settable(ref[tag], Digest(tag[1]))
            THEN /\ ref' = [ref EXCEPT ![tag] = Digest(tag[1])]
                 /\ job' = [job EXCEPT !.done = @ + 1]
                 /\ UNCHANGED last
            ELSE End("failure") /\ UNCHANGED ref
    /\ UNCHANGED <<gitTag, release, waiting, faults>>

\* Every reference is resolved again, anonymously.
VerifyTags ==
    /\ At("promote", "tags") /\ job.done = Len(PromotionOrder)
    /\ Check(\A i \in DOMAIN PromotionOrder :
                ref[PromotionOrder[i]] = Digest(PromotionOrder[i][1]), "publish")

\* Publishing makes the release immutable.  GitHub creates the Git tag at the
\* target commit, unless a tag of that name exists: then it keeps that one.
Publish ==
    /\ At("promote", "publish")
    /\ \/ /\ job.seen = "published" /\ Goto("published")
          /\ UNCHANGED <<release, gitTag>>
       \/ /\ job.seen # "published" /\ release[Version].state = "draft"
          /\ release' = [release EXCEPT ![Version].state = "published"]
          /\ gitTag' = [gitTag EXCEPT ![Version] = IF @ = None THEN release[Version].target ELSE @]
          /\ Goto("published")
       \/ /\ job.seen # "published" /\ release[Version].state # "draft"
          /\ End("failure")
          /\ UNCHANGED <<release, gitTag>>
    /\ UNCHANGED <<ref, waiting, faults>>

ConfirmPublished ==
    /\ At("promote", "published")
    /\ LET r == release[Version]
       IN End(IF /\ r.state = "published" /\ r.target = Commit
                 /\ Uploaded(r)
              THEN "success" ELSE "failure")
    /\ UNCHANGED <<world, waiting, faults>>

-----------------------------------------------------------------------------
(***************************************************************************)
(* Rollback                                                                *)
(***************************************************************************)
Target == job.request.version
Recorded == release[Target].assets["candidate"]

\* What makes a version eligible: an immutable release with its four assets
\* whose Git tag resolves to the release commit.
Eligible(v) ==
    /\ release[v].state = "published"
    /\ Uploaded(release[v])
    /\ gitTag[v] = release[v].target

ResolveRelease ==
    /\ At("rollback", "resolve")
    /\ Check(Eligible(Target), "check")

\* The downloaded assets belong together and to the release: one evidence set,
\* made from the release commit.
Durable(v) ==
    \E c \in Candidates :
        /\ VersionOf[c] = v /\ HeadOf[c] = release[v].target
        /\ \A name \in Names : release[v].assets[name] = AssetOf(c, name)

\* Both version tags name the recorded digests, and both channels exist.
CheckRollback ==
    /\ At("rollback", "check")
    /\ Check(/\ Durable(Target)
             /\ \A kind \in Kinds : /\ ref[<<kind, Target>>] = DigestOf(Recorded, kind)
                                    /\ ref[<<kind, Channel>>] # None, "channels")

RollbackOrder == <<"source", "sdk">>

\* Mutant of MoveChannel: both channels get the SDK digest.
BugMoveChannel ==
    /\ At("rollback", "channels") /\ job.done < Len(RollbackOrder)
    /\ LET kind == RollbackOrder[job.done + 1]
       IN ref' = [ref EXCEPT ![<<kind, Channel>>] = Recorded.sdk]
    /\ job' = [job EXCEPT !.done = @ + 1]
    /\ UNCHANGED <<gitTag, release, waiting, last, faults>>

MoveChannel ==
    /\ At("rollback", "channels") /\ job.done < Len(RollbackOrder)
    /\ LET kind == RollbackOrder[job.done + 1]
       IN ref' = [ref EXCEPT ![<<kind, Channel>>] = DigestOf(Recorded, kind)]
    /\ job' = [job EXCEPT !.done = @ + 1]
    /\ UNCHANGED <<gitTag, release, waiting, last, faults>>

ConfirmChannels ==
    /\ At("rollback", "channels") /\ job.done = Len(RollbackOrder)
    /\ End(IF \A kind \in Kinds : ref[<<kind, Channel>>] = DigestOf(Recorded, kind)
           THEN "success" ELSE "failure")
    /\ UNCHANGED <<world, waiting, faults>>

-----------------------------------------------------------------------------
\* The job is killed, times out or loses a service between two remote calls.
JobDies ==
    /\ job # None /\ faults < MaxFaults
    /\ faults' = faults + 1
    /\ End("failure")
    /\ UNCHANGED <<world, waiting>>

\* It dies while an asset is being uploaded: the release keeps a broken asset.
UploadDies ==
    /\ At("promote", "assets") /\ job.done < Len(Assets) /\ faults < MaxFaults
    /\ LET name == Assets[job.done + 1]
       IN /\ release[Version].state = "draft" /\ release[Version].assets[name] = None
          /\ release' = [release EXCEPT ![Version].assets[name] = Incomplete]
    /\ faults' = faults + 1
    /\ End("failure")
    /\ UNCHANGED <<gitTag, ref, waiting>>

\* A maintainer tags a commit of that version, or moves the tag as long as no
\* published release protects it.
PushTag(c) ==
    /\ "tag" \in Interventions /\ release[VersionOf[c]].state # "published"
    /\ gitTag' = [gitTag EXCEPT ![VersionOf[c]] = HeadOf[c]]
    /\ UNCHANGED <<release, ref, waiting, job, last, faults>>

\* A maintainer deletes a draft that cannot be completed.
DiscardDraft(v) ==
    /\ "discard" \in Interventions /\ release[v].state = "draft"
    /\ release' = [release EXCEPT ![v] = NoRelease]
    /\ UNCHANGED <<gitTag, ref, waiting, job, last, faults>>

\* A maintainer deletes an asset that an interrupted upload left behind.
RepairDraft(v) ==
    /\ "repair" \in Interventions /\ release[v].state = "draft"
    /\ \E name \in Names :
          /\ release[v].assets[name] = Incomplete
          /\ release' = [release EXCEPT ![v].assets[name] = None]
    /\ UNCHANGED <<gitTag, ref, waiting, job, last, faults>>

JobStep ==
    \/ Preflight \/ OpenDraft \/ EnsureAsset \/ AssetsComplete
    \/ CheckVersionTags \/ PromoteTag \/ VerifyTags \/ Publish \/ ConfirmPublished
    \/ ResolveRelease \/ CheckRollback \/ MoveChannel \/ ConfirmChannels

Next ==
    \/ \E c \in Candidates : RequestPromotion(c) \/ PushTag(c)
    \/ Start \/ JobStep \/ JobDies \/ UploadDies
    \/ \E v \in Versions : RequestRollback(v) \/ DiscardDraft(v) \/ RepairDraft(v)

Spec == Init /\ [][Next]_vars

\* Runners carry jobs through, maintainers clear broken uploads and dispatch a
\* promotion again until it has gone through.
FairSpec ==
    /\ Spec
    /\ WF_vars(Start) /\ WF_vars(JobStep)
    /\ \A c \in Candidates : WF_vars(RequestPromotion(c))
    /\ \A v \in Versions : WF_vars(RepairDraft(v))

-----------------------------------------------------------------------------
(***************************************************************************)
(* Safety                                                                  *)
(***************************************************************************)
Is(c, kind, digest) == DigestOf(Identity(c), kind) = digest

\* A version tag is written once and then keeps its digest, whichever
\* candidates of the same version are promoted, interrupted or repeated, and
\* even after a discarded draft has lost the record of the first one.
VersionTagsImmutable ==
    [][\A t \in Tags : t[2] # Channel /\ ref[t] # None => ref'[t] = ref[t]]_vars

\* A published release carries the four assets of one evidence set, made from
\* its target commit, and both version tags of the registry name exactly the
\* digests recorded there.  Resuming a draft never mixes two evidence sets.
ReleaseMatchesTags ==
    \A v \in Versions : release[v].state = "published" =>
        \E c \in Candidates :
            /\ VersionOf[c] = v /\ HeadOf[c] = release[v].target
            /\ \A name \in Names : release[v].assets[name] = AssetOf(c, name)
            /\ \A kind \in Kinds : Is(c, kind, ref[<<kind, v>>])

\* `The mutable channels move only after both immutable version tags exist':
\* what a channel serves is also reachable by the paired tags of a version.
ChannelsFollowVersions ==
    \A kind \in Kinds : ref[<<kind, Channel>>] # None =>
        \E v \in Versions :
            /\ ref[<<kind, v>>] = ref[<<kind, Channel>>]
            /\ \A other \in Kinds : ref[<<other, v>>] # None

\* No SDK image becomes reachable by any tag before the source bundle it is
\* bound to is reachable by a version tag.
SourceBeforeSdk ==
    \A name \in Versions \cup {Channel} : ref[<<"sdk", name>>] # None =>
        \E c \in Candidates, v \in Versions :
            /\ SdkOf[c] = ref[<<"sdk", name>>]
            /\ SourceOf[c] = ref[<<"source", v>>]

\* When no job is running and the last one succeeded, both channels name the
\* digests of one published version, whatever earlier jobs left half done.
ChannelsPaired ==
    job = None /\ last = "success" =>
        \E v \in Versions :
            /\ release[v].state = "published"
            /\ \A kind \in Kinds : ref[<<kind, Channel>>] = ref[<<kind, v>>]

\* A rollback moves a channel only to a version that is published, and to the
\* digest which that version's immutable tag names.
RollbackToPublishedOnly ==
    [][\A kind \in Kinds :
          /\ job # None /\ job.request.kind = "rollback"
          /\ ref'[<<kind, Channel>>] # ref[<<kind, Channel>>]
          => LET v == job.request.version
             IN release[v].state = "published" /\ ref'[<<kind, Channel>>] = ref[<<kind, v>>]]_vars

(***************************************************************************)
(* The inductive invariant: what each point of a job knows about the       *)
(* release and the tags, although neither is locked                        *)
(***************************************************************************)
Promoting(c, steps) ==
    /\ job # None /\ job.request.kind = "promote" /\ job.request.candidate = c
    /\ job.pc \in steps

RollingBack(v, steps) ==
    /\ job # None /\ job.request.kind = "rollback" /\ job.request.version = v
    /\ job.pc \in steps

\* From the preflight on, the release of the job's version is of its commit or
\* has been discarded; no other job opens one meanwhile.
OwnRelease ==
    \A c \in Candidates :
        LET r == release[VersionOf[c]]
        IN /\ Promoting(c, Steps \ {"preflight"}) /\ r.state # "absent"
                 => r.target = HeadOf[c]
           /\ Promoting(c, {"draft"}) /\ job.seen = "absent" => r.state = "absent"

\* Settled assets stay as they are, unless the whole draft is discarded.
OwnAssets ==
    \A c \in Candidates :
        LET r == release[VersionOf[c]]
        IN /\ Promoting(c, {"assets"}) /\ r.state # "absent" =>
                 \A i \in 1 .. job.done : r.assets[Assets[i]] = AssetOf(c, Assets[i])
           /\ Promoting(c, {"versions", "tags", "publish", "published"}) /\ r.state # "absent" =>
                 \A name \in Names : r.assets[name] = AssetOf(c, name)

\* Tags that the job has set stay set.
OwnTags ==
    \A c \in Candidates :
        /\ Promoting(c, {"tags"}) => \A i \in 1 .. job.done :
              ref[PromotionOrder[i]] = Digest(PromotionOrder[i][1])
        /\ Promoting(c, {"publish", "published"}) =>
              \A kind \in Kinds, name \in {VersionOf[c], Channel} : Is(c, kind, ref[<<kind, name>>])

\* What a rollback has checked still holds when it moves the channels.
RollbackBacked ==
    \A v \in Versions :
        /\ RollingBack(v, {"check", "channels"}) => release[v].state = "published"
        /\ RollingBack(v, {"channels"}) =>
              /\ Durable(v)
              /\ \A kind \in Kinds : ref[<<kind, v>>] = DigestOf(release[v].assets["candidate"], kind)

\* With the safety properties these make an inductive invariant of every job.
Inv == /\ TypeOK
       /\ OwnRelease /\ OwnAssets /\ OwnTags /\ RollbackBacked
       /\ ReleaseMatchesTags /\ ChannelsFollowVersions /\ SourceBeforeSdk /\ ChannelsPaired

(***************************************************************************)
(* Liveness                                                                *)
(***************************************************************************)

\* Every interrupted promotion can be taken up again: wherever a job dies, the
\* release is published in the end and all four references name its digests.
EventuallyReleased ==
    \A c \in Candidates :
        job # None /\ job.request.kind = "promote" /\ job.request.candidate = c ~>
            LET v == VersionOf[c]
            IN /\ release[v].state = "published"
               /\ \A kind \in Kinds, name \in {v, Channel} : Is(c, kind, ref[<<kind, name>>])
=============================================================================
