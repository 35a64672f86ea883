----------------------- MODULE StablePromotion_proofs -----------------------
(***************************************************************************)
(* The safety of promotion and rollback for any set of candidates,         *)
(* versions and digests, any interventions and any number of dying jobs.   *)
(***************************************************************************)
EXTENDS StablePromotion, TLAPS

-----------------------------------------------------------------------------
(***************************************************************************)
(* The two fixed sequences                                                 *)
(***************************************************************************)
\* There are four asset names, each at one position of the upload order.
LEMMA AssetNames ==
    /\ Len(Assets) = 4
    /\ Names = {"archive", "checksum", "candidate", "promotion"}
    /\ \A i \in 1 .. 4 : Assets[i] \in Names
    /\ \A i, j \in 1 .. 4 : Assets[i] = Assets[j] => i = j
    /\ \A name \in Names : \E i \in 1 .. 4 : name = Assets[i]
BY DEF Assets, Names

\* The four tags of a promotion, in order.
LEMMA OrderValues ==
    /\ Len(PromotionOrder) = 4
    /\ DOMAIN PromotionOrder = 1 .. 4
    /\ PromotionOrder[1] = <<"source", Version>>
    /\ PromotionOrder[2] = <<"sdk", Version>>
    /\ PromotionOrder[3] = <<"source", Channel>>
    /\ PromotionOrder[4] = <<"sdk", Channel>>
BY DEF PromotionOrder

\* A rollback moves the source channel, then the SDK channel.
LEMMA RollbackValues ==
    /\ Len(RollbackOrder) = 2
    /\ RollbackOrder[1] = "source" /\ RollbackOrder[2] = "sdk"
BY DEF RollbackOrder

-----------------------------------------------------------------------------
(***************************************************************************)
(* Types                                                                   *)
(***************************************************************************)
AssetValues == Candidates \cup Identities \cup {None, Incomplete}

\* The constants of a candidate have the types the assumption gives them.
LEMMA CandidateTypes ==
    ASSUME NEW c \in Candidates
    PROVE  /\ VersionOf[c] \in Versions /\ HeadOf[c] \in Heads
           /\ Identity(c) \in Identities
           /\ \A kind \in Kinds : DigestOf(Identity(c), kind) \in Digests
           /\ \A name : AssetOf(c, name) \in AssetValues
BY PromotionAssumption DEF Identity, Identities, DigestOf, AssetOf, AssetValues, Kinds

\* A job of either kind has the fields of its kind.
LEMMA PromoteJob ==
    ASSUME TypeOK, NEW pc, At("promote", pc)
    PROVE  /\ job \in Job /\ job # None
           /\ Chosen \in Candidates /\ Version \in Versions /\ Commit \in Heads
           /\ \A kind \in Kinds : Digest(kind) \in Digests
           /\ Version # Channel
<1>1. job \in Job /\ job # None
  BY DEF TypeOK, At
<1>2. job.request \in Promote
  BY <1>1 DEF At, Job, Promote, Rollback
<1>3. Chosen \in Candidates
  BY <1>2 DEF Promote, Chosen
<1> QED
  BY <1>1, <1>3, CandidateTypes, PromotionAssumption DEF Version, Commit, Digest

\* A rollback job has a version, which is no channel.
LEMMA RollbackJob ==
    ASSUME TypeOK, NEW pc, At("rollback", pc)
    PROVE  job \in Job /\ job # None /\ Target \in Versions /\ Target # Channel
<1>1. job \in Job /\ job # None
  BY DEF TypeOK, At
<1>2. job.request \in Rollback
  BY <1>1 DEF At, Job, Promote, Rollback
<1> QED
  BY <1>1, <1>2, PromotionAssumption DEF Rollback, Target

\* A step of a job.
LEMMA JobMoves ==
    ASSUME job \in Job, NEW pc \in Steps
    PROVE  /\ [job EXCEPT !.pc = pc, !.done = 0] \in Job
           /\ \A s \in {"absent", "draft", "published"} : [job EXCEPT !.pc = pc, !.seen = s] \in Job
           /\ job.done < 4 => [job EXCEPT !.done = @ + 1] \in Job
<1>1. [job EXCEPT !.pc = pc, !.done = 0] \in Job
  <2>1. [job EXCEPT !.pc = pc] \in Job
    BY DEF Job
  <2>2. ASSUME NEW j \in Job PROVE [j EXCEPT !.done = 0] \in Job
    BY DEF Job
  <2>3. [job EXCEPT !.pc = pc, !.done = 0] = [[job EXCEPT !.pc = pc] EXCEPT !.done = 0]
    BY DEF Job
  <2> QED
    BY <2>1, <2>2, <2>3
<1>2. ASSUME NEW s \in {"absent", "draft", "published"}
      PROVE  [job EXCEPT !.pc = pc, !.seen = s] \in Job
  BY <1>2 DEF Job
<1>3. ASSUME job.done < 4 PROVE [job EXCEPT !.done = @ + 1] \in Job
  <2>1. job.done + 1 \in 0 .. 4
    BY <1>3 DEF Job
  <2> QED
    BY <2>1 DEF Job
<1> QED
  BY <1>1, <1>2, <1>3

\* A checking step moves the job or ends it, and keeps the types.
LEMMA CheckTypes ==
    ASSUME TypeOK, job # None, NEW condition \in BOOLEAN, NEW pc \in Steps, Check(condition, pc)
    PROVE  TypeOK'
<1>1. job \in Job
  BY DEF TypeOK
<1>2. job' \in Job \cup {None} /\ last' \in {"none", "success", "failure"}
  BY <1>1, JobMoves DEF Check, Goto, End, TypeOK
<1> QED
  BY <1>2 DEF Check, TypeOK, world

\* Writing one asset of one release.
LEMMA AssetWritten ==
    ASSUME NEW f \in [Versions -> Release], NEW v \in Versions, NEW name \in Names,
           NEW a \in AssetValues, NEW g, g = [f EXCEPT ![v].assets[name] = a]
    PROVE  /\ g \in [Versions -> Release]
           /\ \A w \in Versions \ {v} : g[w] = f[w]
           /\ g[v].state = f[v].state /\ g[v].target = f[v].target
           /\ g[v].assets[name] = a
           /\ \A other \in Names \ {name} : g[v].assets[other] = f[v].assets[other]
<1>1. f[v] \in Release
  OBVIOUS
<1>2. [f[v].assets EXCEPT ![name] = a] \in [Names -> AssetValues]
  BY <1>1 DEF Release, AssetValues
<1>3. g[v] = [f[v] EXCEPT !.assets = [f[v].assets EXCEPT ![name] = a]]
  OBVIOUS
<1>4. g[v] \in Release
  BY <1>1, <1>2, <1>3 DEF Release, AssetValues
<1> QED
  BY <1>1, <1>3, <1>4 DEF Release

\* Changing only the state of one release.
LEMMA StateWritten ==
    ASSUME NEW f \in [Versions -> Release], NEW v \in Versions,
           NEW s \in {"absent", "draft", "published"}, NEW g, g = [f EXCEPT ![v].state = s]
    PROVE  /\ g \in [Versions -> Release]
           /\ \A w \in Versions \ {v} : g[w] = f[w]
           /\ g[v].state = s /\ g[v].target = f[v].target /\ g[v].assets = f[v].assets
<1>1. f[v] \in Release /\ g[v] = [f[v] EXCEPT !.state = s]
  OBVIOUS
<1>2. g[v] \in Release
  BY <1>1 DEF Release
<1> QED
  BY <1>1, <1>2 DEF Release

\* Release and tag moves.
LEMMA DraftTypes == NoRelease \in Release /\ \A h \in Heads :
                       [state |-> "draft", target |-> h, assets |-> NoAssets] \in Release
BY DEF NoRelease, NoAssets, Release

\* A registry tag may be set to any digest.
LEMMA TagTypes ==
    ASSUME TypeOK, NEW tag \in Tags, NEW d \in Digests
    PROVE  [ref EXCEPT ![tag] = d] \in [Tags -> Digests \cup {None}]
BY DEF TypeOK

\* The tags a promotion sets are registry tags.
LEMMA OrderTags ==
    ASSUME Version \in Versions
    PROVE  \A i \in 1 .. 4 : PromotionOrder[i] \in Tags /\ PromotionOrder[i][1] \in Kinds
BY OrderValues DEF Tags, Kinds

\* Every step keeps the types; a channel move needs what the rollback has
\* checked, since the digest comes out of a release asset.
LEMMA TypePreserved == TypeOK /\ RollbackBacked /\ [Next]_vars => TypeOK'
<1> SUFFICES ASSUME TypeOK, RollbackBacked, [Next]_vars PROVE TypeOK'
  OBVIOUS
<1>1. ASSUME NEW c \in Candidates, RequestPromotion(c) PROVE TypeOK'
  BY <1>1 DEF RequestPromotion, TypeOK, world, Promote
<1>2. ASSUME NEW c \in Candidates, PushTag(c) PROVE TypeOK'
  BY <1>2, CandidateTypes DEF PushTag, TypeOK
<1>3. ASSUME Start PROVE TypeOK'
  <2>1. waiting \in Promote \cup Rollback
    BY <1>3 DEF Start, TypeOK
  <2>2. job' \in Job
    BY <1>3, <2>1 DEF Start, Job, Steps
  <2> QED
    BY <1>3, <2>2 DEF Start, TypeOK, world
<1>4. ASSUME Preflight PROVE TypeOK'
  <2>1. job \in Job /\ Version \in Versions
    BY <1>4, PromoteJob DEF Preflight
  <2>2. release[Version].state \in {"absent", "draft", "published"}
    BY <2>1 DEF TypeOK, Release
  <2>3. [job EXCEPT !.pc = "draft", !.seen = release[Version].state] \in Job
    BY <2>1, <2>2, JobMoves DEF Steps
  <2>4. job' \in Job \cup {None} /\ last' \in {"none", "success", "failure"}
    BY <1>4, <2>3 DEF Preflight, End, TypeOK
  <2> QED
    BY <1>4, <2>4 DEF Preflight, TypeOK, world
<1>5. ASSUME OpenDraft PROVE TypeOK'
  <2>1. job \in Job /\ Version \in Versions /\ Commit \in Heads
    BY <1>5, PromoteJob DEF OpenDraft
  <2>2. job' \in Job \cup {None} /\ last' \in {"none", "success", "failure"}
    BY <1>5, <2>1, JobMoves DEF OpenDraft, Goto, End, TypeOK, Steps
  <2>3. release' \in [Versions -> Release]
    BY <1>5, <2>1, DraftTypes DEF OpenDraft, TypeOK
  <2> QED
    BY <1>5, <2>2, <2>3 DEF OpenDraft, TypeOK
<1>6. ASSUME EnsureAsset PROVE TypeOK'
  <2>1. job \in Job /\ Version \in Versions /\ Chosen \in Candidates
    BY <1>6, PromoteJob DEF EnsureAsset
  <2>2. job.done \in 0 .. 3
    BY <1>6, <2>1, AssetNames DEF EnsureAsset, Job
  <2> DEFINE name == Assets[job.done + 1]
  <2>3. name \in Names /\ AssetOf(Chosen, name) \in AssetValues
    BY <2>1, <2>2, AssetNames, CandidateTypes
  <2>4. job' \in Job \cup {None} /\ last' \in {"none", "success", "failure"}
    BY <1>6, <2>1, <2>2, JobMoves DEF EnsureAsset, End, TypeOK, Steps
  <2>5. \/ release' = release
        \/ release' = [release EXCEPT ![Version].assets[name] = AssetOf(Chosen, name)]
    BY <1>6 DEF EnsureAsset
  <2>6. release' \in [Versions -> Release]
    BY <2>1, <2>3, <2>5, AssetWritten DEF TypeOK
  <2> QED
    BY <1>6, <2>4, <2>6 DEF EnsureAsset, TypeOK
<1>7. ASSUME AssetsComplete PROVE TypeOK'
  BY <1>7, CheckTypes DEF AssetsComplete, At, Steps
<1>8. ASSUME CheckVersionTags PROVE TypeOK'
  BY <1>8, CheckTypes DEF CheckVersionTags, At, Steps
<1>9. ASSUME PromoteTag PROVE TypeOK'
  <2>1. job \in Job /\ Version \in Versions /\ \A kind \in Kinds : Digest(kind) \in Digests
    BY <1>9, PromoteJob DEF PromoteTag
  <2>2. job.done \in 0 .. 3
    BY <1>9, <2>1, OrderValues DEF PromoteTag, Job
  <2> DEFINE tag == PromotionOrder[job.done + 1]
  <2>3. tag \in Tags /\ Digest(tag[1]) \in Digests
    BY <2>1, <2>2, OrderTags
  <2>4. job' \in Job \cup {None} /\ last' \in {"none", "success", "failure"}
    BY <1>9, <2>1, <2>2, JobMoves DEF PromoteTag, End, TypeOK, Steps
  <2>5. ref' = ref \/ ref' = [ref EXCEPT ![tag] = Digest(tag[1])]
    BY <1>9 DEF PromoteTag
  <2>6. ref' \in [Tags -> Digests \cup {None}]
    BY <2>3, <2>5, TagTypes DEF TypeOK
  <2> QED
    BY <1>9, <2>4, <2>6 DEF PromoteTag, TypeOK
<1>10. ASSUME VerifyTags PROVE TypeOK'
  BY <1>10, CheckTypes DEF VerifyTags, At, Steps
<1>11. ASSUME Publish PROVE TypeOK'
  <2>1. job \in Job /\ Version \in Versions
    BY <1>11, PromoteJob DEF Publish
  <2>2. job' \in Job \cup {None} /\ last' \in {"none", "success", "failure"}
    BY <1>11, <2>1, JobMoves DEF Publish, Goto, End, TypeOK, Steps
  <2>3. release' \in [Versions -> Release]
    BY <1>11, <2>1, StateWritten DEF Publish, TypeOK
  <2>4. gitTag' \in [Versions -> Heads \cup {None}]
    BY <1>11, <2>1 DEF Publish, TypeOK, Release
  <2> QED
    BY <1>11, <2>2, <2>3, <2>4 DEF Publish, TypeOK
<1>12. ASSUME ConfirmPublished PROVE TypeOK'
  BY <1>12 DEF ConfirmPublished, End, TypeOK, world
<1>13. ASSUME ResolveRelease PROVE TypeOK'
  BY <1>13, CheckTypes DEF ResolveRelease, At, Steps, Eligible, Uploaded
<1>14. ASSUME CheckRollback PROVE TypeOK'
  BY <1>14, CheckTypes DEF CheckRollback, At, Steps
<1>15. ASSUME ConfirmChannels PROVE TypeOK'
  BY <1>15 DEF ConfirmChannels, End, TypeOK, world
<1>16. ASSUME JobDies PROVE TypeOK'
  BY <1>16, PromotionAssumption DEF JobDies, End, TypeOK, world
<1>17. ASSUME UploadDies PROVE TypeOK'
  <2>1. job \in Job /\ Version \in Versions
    BY <1>17, PromoteJob DEF UploadDies
  <2>2. Assets[job.done + 1] \in Names
    BY <1>17, <2>1, AssetNames DEF UploadDies, Job
  <2>3. release' \in [Versions -> Release]
    BY <1>17, <2>1, <2>2, AssetWritten DEF UploadDies, TypeOK, AssetValues
  <2> QED
    BY <1>17, <2>3, PromotionAssumption DEF UploadDies, End, TypeOK
<1>18. ASSUME NEW v \in Versions, RequestRollback(v) PROVE TypeOK'
  BY <1>18 DEF RequestRollback, TypeOK, world, Rollback
<1>19. ASSUME NEW v \in Versions, DiscardDraft(v) PROVE TypeOK'
  BY <1>19, DraftTypes DEF DiscardDraft, TypeOK
<1>20. ASSUME NEW v \in Versions, RepairDraft(v) PROVE TypeOK'
  <2>1. PICK name \in Names : release' = [release EXCEPT ![v].assets[name] = None]
    BY <1>20 DEF RepairDraft
  <2>2. None \in AssetValues
    BY DEF AssetValues
  <2>3. release' \in [Versions -> Release]
    BY <2>1, <2>2, AssetWritten DEF TypeOK
  <2> QED
    BY <1>20, <2>3 DEF RepairDraft, TypeOK
<1>21. ASSUME MoveChannel PROVE TypeOK'
  <2>1. job \in Job /\ Target \in Versions
    BY <1>21, RollbackJob DEF MoveChannel
  <2>2. RollingBack(Target, {"channels"})
    BY <1>21, <2>1 DEF MoveChannel, At, RollingBack, Target
  <2>3. PICK c \in Candidates : Recorded = Identity(c)
    BY <2>1, <2>2, AssetNames DEF RollbackBacked, Durable, Recorded, AssetOf
  <2>4. job.done \in 0 .. 1
    BY <1>21, <2>1, RollbackValues DEF MoveChannel, Job
  <2>5. RollbackOrder[job.done + 1] \in Kinds
    BY <2>4, RollbackValues DEF Kinds
  <2>6. job' \in Job
    BY <1>21, <2>1, <2>4, JobMoves DEF MoveChannel, Steps
  <2>7. ref' \in [Tags -> Digests \cup {None}]
    BY <1>21, <2>3, <2>5, CandidateTypes, TagTypes DEF MoveChannel, Tags
  <2> QED
    BY <1>21, <2>6, <2>7 DEF MoveChannel, TypeOK
<1>22. CASE UNCHANGED vars
  BY <1>22 DEF vars, world, TypeOK
<1> QED
  BY <1>1, <1>2, <1>3, <1>4, <1>5, <1>6, <1>7, <1>8, <1>9, <1>10, <1>11, <1>12, <1>13, <1>14,
     <1>15, <1>16, <1>17, <1>18, <1>19, <1>20, <1>21, <1>22 DEF Next, JobStep

-----------------------------------------------------------------------------
(***************************************************************************)
(* Steps that leave releases and registry tags alone                       *)
(***************************************************************************)
World == ReleaseMatchesTags /\ ChannelsFollowVersions /\ SourceBeforeSdk
Progress == OwnRelease /\ OwnAssets /\ OwnTags /\ RollbackBacked

\* The facts about releases and registry tags depend on nothing else.
LEMMA WorldKept ==
    ASSUME World, UNCHANGED <<release, ref>>
    PROVE  World'
BY DEF World, ReleaseMatchesTags, ChannelsFollowVersions, SourceBeforeSdk

\* A job that has ended knows nothing.
LEMMA NoJob ==
    ASSUME job' = None
    PROVE  Progress'
BY DEF Progress, OwnRelease, OwnAssets, OwnTags, RollbackBacked, Promoting, RollingBack

\* A step that only fails the job keeps everything.
LEMMA Fails ==
    ASSUME World, job' = None, last' = "failure", UNCHANGED <<release, ref>>
    PROVE  World' /\ Progress' /\ ChannelsPaired'
BY WorldKept, NoJob DEF ChannelsPaired

\* Nobody but maintainers acts, on something else.
LEMMA Idle ==
    ASSUME World, Progress, ChannelsPaired, UNCHANGED <<job, last, release, ref>>
    PROVE  World' /\ Progress' /\ ChannelsPaired'
<1>1. World'
  BY WorldKept
<1>2. ChannelsPaired'
  BY DEF ChannelsPaired
<1>3. OwnRelease' /\ RollbackBacked'
  BY DEF Progress, OwnRelease, RollbackBacked, Promoting, RollingBack, Durable
<1>4. OwnAssets'
  BY DEF Progress, OwnAssets, Promoting
<1>5. OwnTags'
  BY DEF Progress, OwnTags, Promoting, PromotionOrder, Version, Digest, Chosen
<1> QED
  BY <1>1, <1>2, <1>3, <1>4, <1>5 DEF Progress

-----------------------------------------------------------------------------
(***************************************************************************)
(* What a promotion knows, said of the running job                         *)
(***************************************************************************)
\* The parts of the invariant that speak of the promotion in progress.
LEMMA PromoteFacts ==
    ASSUME TypeOK, Progress, NEW pc, At("promote", pc)
    PROVE  /\ pc \in Steps \ {"preflight"} /\ release[Version].state # "absent"
                => release[Version].target = Commit
           /\ pc = "draft" /\ job.seen = "absent" => release[Version].state = "absent"
           /\ pc = "assets" /\ release[Version].state # "absent" =>
                 \A i \in 1 .. job.done : release[Version].assets[Assets[i]] = AssetOf(Chosen, Assets[i])
           /\ pc \in {"versions", "tags", "publish", "published"} /\ release[Version].state # "absent" =>
                 \A name \in Names : release[Version].assets[name] = AssetOf(Chosen, name)
           /\ pc = "tags" => \A i \in 1 .. job.done :
                 ref[PromotionOrder[i]] = Digest(PromotionOrder[i][1])
           /\ pc \in {"publish", "published"} =>
                 \A kind \in Kinds, name \in {Version, Channel} : ref[<<kind, name>>] = Digest(kind)
<1>1. Chosen \in Candidates
  BY PromoteJob
<1>2. \A steps : Promoting(Chosen, steps) <=> pc \in steps
  BY DEF At, Promoting, Chosen
<1>3. OwnRelease
  BY DEF Progress
<1>4. OwnAssets
  BY DEF Progress
<1>5. OwnTags
  BY DEF Progress
<1>6. pc \in {"publish", "published"} =>
        \A kind \in Kinds, name \in {Version, Channel} : ref[<<kind, name>>] = Digest(kind)
  BY <1>1, <1>2, <1>5 DEF OwnTags, Is, Digest, Version
<1>7. pc = "tags" => \A i \in 1 .. job.done : ref[PromotionOrder[i]] = Digest(PromotionOrder[i][1])
  BY <1>1, <1>2, <1>5 DEF OwnTags
<1> QED
  BY <1>1, <1>2, <1>3, <1>4, <1>6, <1>7 DEF OwnRelease, OwnAssets, Version, Commit

\* What a step of a promotion has to show of the job it leaves.
LEMMA PromoteGoal ==
    ASSUME job # None, job.request.kind = "promote", job' # None, job'.request = job.request,
           job'.pc # "preflight" /\ release'[Version].state # "absent" => release'[Version].target = Commit,
           job'.pc = "draft" /\ job'.seen = "absent" => release'[Version].state = "absent",
           job'.pc = "assets" /\ release'[Version].state # "absent" =>
              \A i \in 1 .. job'.done : release'[Version].assets[Assets[i]] = AssetOf(Chosen, Assets[i]),
           job'.pc \in {"versions", "tags", "publish", "published"} /\ release'[Version].state # "absent" =>
              \A name \in Names : release'[Version].assets[name] = AssetOf(Chosen, name),
           job'.pc = "tags" => \A i \in 1 .. job'.done :
              ref'[PromotionOrder[i]] = Digest(PromotionOrder[i][1]),
           job'.pc \in {"publish", "published"} =>
              \A kind \in Kinds, name \in {Version, Channel} : ref'[<<kind, name>>] = Digest(kind)
    PROVE  Progress' /\ ChannelsPaired'
<1>1. Chosen' = Chosen /\ Version' = Version /\ PromotionOrder' = PromotionOrder
  BY DEF Chosen, Version, PromotionOrder
<1>2. \A kind : (Digest(kind))' = Digest(kind)
  BY <1>1 DEF Digest
<1>3. \A c, steps : Promoting(c, steps)' => c = Chosen /\ job'.pc \in steps
  BY DEF Promoting, Chosen
<1>4. RollbackBacked' /\ ChannelsPaired'
  BY DEF RollbackBacked, RollingBack, ChannelsPaired
<1>5. OwnRelease'
  BY <1>3 DEF OwnRelease, Version, Commit
<1>6. OwnAssets'
  BY <1>3 DEF OwnAssets, Version
<1>7. OwnTags'
  <2>1. ASSUME NEW c \in Candidates, Promoting(c, {"tags"})', NEW i \in 1 .. job'.done
        PROVE  ref'[PromotionOrder'[i]] = (Digest(PromotionOrder[i][1]))'
    BY <1>1, <1>2, <1>3, <2>1
  <2>2. ASSUME NEW c \in Candidates, Promoting(c, {"publish", "published"})',
               NEW kind \in Kinds, NEW name \in {VersionOf[c], Channel}
        PROVE  Is(c, kind, ref'[<<kind, name>>])
    BY <1>3, <2>2 DEF Is, Digest, Version
  <2> QED
    BY <2>1, <2>2 DEF OwnTags, Is
<1> QED
  BY <1>4, <1>5, <1>6, <1>7 DEF Progress

\* The parts of the invariant that speak of the rollback in progress.
LEMMA RollbackFacts ==
    ASSUME TypeOK, Progress, NEW pc, At("rollback", pc)
    PROVE  /\ pc \in {"check", "channels"} => release[Target].state = "published"
           /\ pc = "channels" =>
                 /\ Durable(Target)
                 /\ \A kind \in Kinds : ref[<<kind, Target>>] = DigestOf(Recorded, kind)
<1>1. Target \in Versions
  BY RollbackJob
<1>2. \A steps : RollingBack(Target, steps) <=> pc \in steps
  BY DEF At, RollingBack, Target
<1> QED
  BY <1>1, <1>2 DEF Progress, RollbackBacked, Recorded

\* What a step of a rollback has to show of the job it leaves.
LEMMA RollbackGoal ==
    ASSUME job # None, job.request.kind = "rollback", job' # None, job'.request = job.request,
           job'.pc \in {"check", "channels"} => release'[Target].state = "published",
           job'.pc = "channels" => Durable(Target)',
           job'.pc = "channels" => \A kind \in Kinds :
              ref'[<<kind, Target>>] = DigestOf(release'[Target].assets["candidate"], kind)
    PROVE  Progress' /\ ChannelsPaired'
<1>1. Target' = Target
  BY DEF Target
<1>2. \A v, steps : RollingBack(v, steps)' => v = Target /\ job'.pc \in steps
  BY DEF RollingBack, Target
<1>3. OwnRelease' /\ OwnAssets' /\ OwnTags' /\ ChannelsPaired'
  BY DEF OwnRelease, OwnAssets, OwnTags, Promoting, ChannelsPaired
<1>4. job'.pc = "channels" => \E c \in Candidates :
        /\ VersionOf[c] = Target /\ HeadOf[c] = release'[Target].target
        /\ \A name \in Names : release'[Target].assets[name] = AssetOf(c, name)
  BY <1>1 DEF Durable
<1>5. RollbackBacked'
  BY <1>2, <1>4 DEF RollbackBacked, Durable
<1> QED
  BY <1>3, <1>5 DEF Progress

\* A job that goes on to another step.
LEMMA Goes ==
    ASSUME TypeOK, job # None, NEW pc \in Steps, Goto(pc)
    PROVE  /\ job' # None /\ job'.request = job.request /\ job'.seen = job.seen
           /\ job'.pc = pc /\ job'.done = 0
<1>1. job \in Job
  BY DEF TypeOK
<1>2. job' = [job EXCEPT !.pc = pc, !.done = 0]
  BY DEF Goto
<1>3. job' # None
  BY <1>1, <1>2, JobMoves, NoneAssumption
<1> QED
  BY <1>1, <1>2, <1>3 DEF Job

\* A job that has settled one more asset or tag.
LEMMA Counts ==
    ASSUME TypeOK, job # None, job.done < 4, job' = [job EXCEPT !.done = @ + 1]
    PROVE  /\ job' # None /\ job'.request = job.request /\ job'.seen = job.seen
           /\ job'.pc = job.pc /\ job'.done = job.done + 1
<1>1. job \in Job
  BY DEF TypeOK
<1>2. job' # None
  BY <1>1, JobMoves, NoneAssumption DEF Job
<1> QED
  BY <1>1, <1>2 DEF Job

-----------------------------------------------------------------------------
(***************************************************************************)
(* Steps that write: what the world keeps                                  *)
(***************************************************************************)
\* A write to a registry tag, with what its writer must know.
LEMMA TagWritten ==
    ASSUME TypeOK, World, UNCHANGED release,
           NEW kind \in Kinds, NEW name \in Versions \cup {Channel}, NEW d \in Digests,
           ref' = [ref EXCEPT ![<<kind, name>>] = d],
           name # Channel => ref[<<kind, name>>] \in {None, d},
           name = Channel => \E v \in Versions :
              ref[<<kind, v>>] = d /\ \A other \in Kinds : ref[<<other, v>>] # None,
           kind = "sdk" => \E c \in Candidates, v \in Versions :
              SdkOf[c] = d /\ SourceOf[c] = ref[<<"source", v>>]
    PROVE  World'
<1>1. \A k \in Kinds, n \in Versions \cup {Channel} :
        ref'[<<k, n>>] = IF k = kind /\ n = name THEN d ELSE ref[<<k, n>>]
  BY DEF TypeOK, Tags
<1>2. None \notin Digests /\ Channel \notin Versions
  BY PromotionAssumption
<1>3. \A k \in Kinds, v \in Versions : ref[<<k, v>>] # None => ref'[<<k, v>>] = ref[<<k, v>>]
  BY <1>1, <1>2
<1>4. ReleaseMatchesTags'
  <2>1. \A c \in Candidates, k \in Kinds : DigestOf(Identity(c), k) # None
    BY <1>2, CandidateTypes
  <2> QED
    BY <1>3, <2>1 DEF World, ReleaseMatchesTags, Is
<1>5. ChannelsFollowVersions'
  <2> SUFFICES ASSUME NEW k \in Kinds, ref'[<<k, Channel>>] # None
               PROVE  \E v \in Versions : /\ ref'[<<k, v>>] = ref'[<<k, Channel>>]
                                         /\ \A other \in Kinds : ref'[<<other, v>>] # None
    BY DEF ChannelsFollowVersions
  <2>1. \E v \in Versions : /\ ref[<<k, v>>] = ref'[<<k, Channel>>]
                           /\ \A other \in Kinds : ref[<<other, v>>] # None
    <3>1. CASE k = kind /\ name = Channel
      <4>1. ref'[<<k, Channel>>] = d
        BY <1>1, <3>1
      <4>2. PICK v \in Versions :
              ref[<<kind, v>>] = d /\ \A other \in Kinds : ref[<<other, v>>] # None
        BY <3>1
      <4> QED
        BY <3>1, <4>1, <4>2
    <3>2. CASE ~ (k = kind /\ name = Channel)
      <4>1. ref'[<<k, Channel>>] = ref[<<k, Channel>>]
        BY <1>1, <3>2
      <4> QED
        BY <4>1 DEF World, ChannelsFollowVersions
    <3> QED
      BY <3>1, <3>2
  <2>2. PICK v \in Versions : /\ ref[<<k, v>>] = ref'[<<k, Channel>>]
                            /\ \A other \in Kinds : ref[<<other, v>>] # None
    BY <2>1
  <2> QED
    BY <1>3, <2>2
<1>6. SourceBeforeSdk'
  <2> SUFFICES ASSUME NEW n \in Versions \cup {Channel}, ref'[<<"sdk", n>>] # None
               PROVE  \E c \in Candidates, v \in Versions :
                         SdkOf[c] = ref'[<<"sdk", n>>] /\ SourceOf[c] = ref'[<<"source", v>>]
    BY DEF SourceBeforeSdk
  <2>1. \E c \in Candidates, v \in Versions :
          SdkOf[c] = ref'[<<"sdk", n>>] /\ SourceOf[c] = ref[<<"source", v>>]
    <3>1. CASE kind = "sdk" /\ n = name
      <4>1. ref'[<<"sdk", n>>] = d
        BY <1>1, <3>1 DEF Kinds
      <4> QED
        BY <3>1, <4>1
    <3>2. CASE ~ (kind = "sdk" /\ n = name)
      <4>1. ref'[<<"sdk", n>>] = ref[<<"sdk", n>>]
        BY <1>1, <3>2 DEF Kinds
      <4>2. PICK c \in Candidates, v \in Versions :
              SdkOf[c] = ref[<<"sdk", n>>] /\ SourceOf[c] = ref[<<"source", v>>]
        BY <4>1 DEF World, SourceBeforeSdk
      <4> QED
        BY <4>1, <4>2
    <3> QED
      BY <3>1, <3>2
  <2>2. \A c \in Candidates : SourceOf[c] # None
    BY <1>2, PromotionAssumption
  <2> QED
    BY <1>3, <2>1, <2>2 DEF Kinds
<1> QED
  BY <1>4, <1>5, <1>6 DEF World

\* A write to releases that are not published.
LEMMA DraftsWritten ==
    ASSUME World, UNCHANGED ref,
           \A v \in Versions : release'[v].state = "published" => release'[v] = release[v]
    PROVE  World'
<1>1. ReleaseMatchesTags'
  BY DEF World, ReleaseMatchesTags
<1>2. ChannelsFollowVersions' /\ SourceBeforeSdk'
  BY DEF World, ChannelsFollowVersions, SourceBeforeSdk
<1> QED
  BY <1>1, <1>2 DEF World

\* A write of a maintainer to a draft, which leaves complete assets alone.
LEMMA DraftRepaired ==
    ASSUME TypeOK, World, Progress, ChannelsPaired, UNCHANGED <<job, last, ref>>,
           NEW v \in Versions, release[v].state = "draft",
           \A w \in Versions \ {v} : release'[w] = release[w],
           release'[v].state # "published",
           release'[v].state # "absent" =>
              /\ release'[v].target = release[v].target
              /\ \A name \in Names : release[v].assets[name] # Incomplete
                    => release'[v].assets[name] = release[v].assets[name]
    PROVE  World' /\ Progress' /\ ChannelsPaired'
<1>1. World'
  BY DraftsWritten
<1>2. ChannelsPaired'
  BY DEF ChannelsPaired
<1>3. \A c, steps : Promoting(c, steps)' <=> Promoting(c, steps)
  BY DEF Promoting
<1>4. \A w, steps : RollingBack(w, steps)' <=> RollingBack(w, steps)
  BY DEF RollingBack
<1>5. OwnRelease'
  BY <1>3, CandidateTypes DEF Progress, OwnRelease
<1>6. OwnAssets'
  <2>1. \A c \in Candidates : \A name : AssetOf(c, name) # Incomplete
    BY PromotionAssumption, IncompleteAssumption DEF AssetOf, Identities
  <2> SUFFICES ASSUME NEW c \in Candidates, release'[VersionOf[c]].state # "absent"
               PROVE  /\ Promoting(c, {"assets"}) => \A i \in 1 .. job.done :
                            release'[VersionOf[c]].assets[Assets[i]] = AssetOf(c, Assets[i])
                      /\ Promoting(c, {"versions", "tags", "publish", "published"}) =>
                            \A name \in Names :
                              release'[VersionOf[c]].assets[name] = AssetOf(c, name)
    BY <1>3 DEF OwnAssets
  <2>2. release[VersionOf[c]].state # "absent"
    BY CandidateTypes
  <2>3. \A name \in Names : release[VersionOf[c]].assets[name] = AssetOf(c, name)
          => release'[VersionOf[c]].assets[name] = AssetOf(c, name)
    BY <2>1, CandidateTypes
  <2>4. ASSUME Promoting(c, {"assets"}), NEW i \in 1 .. job.done
        PROVE  release'[VersionOf[c]].assets[Assets[i]] = AssetOf(c, Assets[i])
    <3>1. release[VersionOf[c]].assets[Assets[i]] = AssetOf(c, Assets[i])
      BY <2>2, <2>4 DEF Progress, OwnAssets
    <3>2. i \in 1 .. 4
      BY <2>4 DEF TypeOK, Promoting, Job
    <3> QED
      BY <2>3, <3>1, <3>2, AssetNames
  <2>5. ASSUME Promoting(c, {"versions", "tags", "publish", "published"}), NEW name \in Names
        PROVE  release'[VersionOf[c]].assets[name] = AssetOf(c, name)
    BY <2>2, <2>3, <2>5 DEF Progress, OwnAssets
  <2> QED
    BY <2>4, <2>5
<1>7. OwnTags'
  BY DEF Progress, OwnTags, Promoting, PromotionOrder, Version, Digest, Chosen
<1>8. RollbackBacked'
  <2> SUFFICES ASSUME NEW w \in Versions
               PROVE  /\ RollingBack(w, {"check", "channels"}) => release'[w].state = "published"
                      /\ RollingBack(w, {"channels"}) =>
                           /\ Durable(w)'
                           /\ \A kind \in Kinds :
                                ref[<<kind, w>>] = DigestOf(release'[w].assets["candidate"], kind)
    BY <1>4 DEF RollbackBacked
  <2>1. RollingBack(w, {"check", "channels"}) => release'[w] = release[w]
    BY DEF Progress, RollbackBacked
  <2>2. RollingBack(w, {"channels"}) => RollingBack(w, {"check", "channels"})
    BY DEF RollingBack
  <2> QED
    BY <2>1, <2>2 DEF Progress, RollbackBacked, Durable
<1> QED
  BY <1>1, <1>2, <1>5, <1>6, <1>7, <1>8 DEF Progress

-----------------------------------------------------------------------------
(***************************************************************************)
(* Promotion, step by step                                                 *)
(***************************************************************************)
\* What every step keeps, besides types.
Holds == World /\ Progress /\ ChannelsPaired

\* The release belongs to the commit when the preflight accepts it.
LEMMA PreflightHolds == TypeOK /\ Holds /\ Preflight => Holds'
<1> SUFFICES ASSUME TypeOK, Holds, Preflight PROVE Holds'
  OBVIOUS
<1>1. At("promote", "preflight") /\ job \in Job /\ Version \in Versions /\ UNCHANGED <<release, ref>>
  BY PromoteJob DEF Preflight, world
<1>2. World'
  BY <1>1, WorldKept DEF Holds
<1>3. CASE job' = None /\ last' = "failure"
  BY <1>1, <1>3, Fails DEF Holds
<1>4. CASE /\ release[Version].state # "absent" => release[Version].target = Commit
           /\ job' = [job EXCEPT !.pc = "draft", !.seen = release[Version].state]
  <2>1. release[Version].state \in {"absent", "draft", "published"}
    BY <1>1 DEF TypeOK, Release
  <2>2. job' \in Job
    BY <1>1, <1>4, <2>1, JobMoves DEF Steps
  <2>3. /\ job' # None /\ job'.request = job.request
        /\ job'.pc = "draft" /\ job'.seen = release[Version].state
    BY <1>1, <1>4, <2>2, NoneAssumption DEF Job
  <2>4. Progress' /\ ChannelsPaired'
    BY <1>1, <1>4, <2>3, PromoteGoal DEF At
  <2> QED
    BY <1>2, <2>4 DEF Holds
<1> QED
  BY <1>3, <1>4 DEF Preflight, End

\* A new draft belongs to the commit and has no assets to settle yet.
LEMMA OpenDraftHolds == TypeOK /\ Holds /\ OpenDraft => Holds'
<1> SUFFICES ASSUME TypeOK, Holds, OpenDraft PROVE Holds'
  OBVIOUS
<1>1. /\ At("promote", "draft") /\ job \in Job /\ job # None
      /\ Version \in Versions /\ UNCHANGED ref
  BY PromoteJob DEF OpenDraft
<1>2. /\ release[Version].state # "absent" => release[Version].target = Commit
      /\ job.seen = "absent" => release[Version].state = "absent"
  BY <1>1, PromoteFacts DEF Holds, Steps
<1>3. CASE job' = None /\ last' = "failure" /\ release' = release
  BY <1>1, <1>3, Fails DEF Holds
<1>4. CASE Goto("assets") /\ release' = release
  <2>1. job' # None /\ job'.request = job.request /\ job'.pc = "assets" /\ job'.done = 0
    BY <1>1, <1>4, Goes DEF Steps
  <2>2. Progress' /\ ChannelsPaired'
    BY <1>1, <1>2, <1>4, <2>1, PromoteGoal DEF At
  <2> QED
    BY <1>1, <1>4, <2>2, WorldKept DEF Holds
<1>5. CASE /\ job.seen = "absent" /\ Goto("assets")
           /\ release' = [release EXCEPT ![Version] =
                            [state |-> "draft", target |-> Commit, assets |-> NoAssets]]
  <2>1. job' # None /\ job'.request = job.request /\ job'.pc = "assets" /\ job'.done = 0
    BY <1>1, <1>5, Goes DEF Steps
  <2>2. /\ release'[Version].state = "draft" /\ release'[Version].target = Commit
        /\ \A v \in Versions \ {Version} : release'[v] = release[v]
    BY <1>1, <1>5 DEF TypeOK
  <2>3. World'
    BY <1>1, <2>2, DraftsWritten DEF Holds
  <2>4. Progress' /\ ChannelsPaired'
    BY <1>1, <2>1, <2>2, PromoteGoal DEF At
  <2> QED
    BY <2>3, <2>4 DEF Holds
<1> QED
  BY <1>3, <1>4, <1>5 DEF OpenDraft, End

\* An uploaded asset, or one accepted as it is, is the one of this candidate.
LEMMA EnsureAssetHolds == TypeOK /\ Holds /\ EnsureAsset => Holds'
<1> SUFFICES ASSUME TypeOK, Holds, EnsureAsset PROVE Holds'
  OBVIOUS
<1> DEFINE name == Assets[job.done + 1]
<1>1. /\ At("promote", "assets") /\ job \in Job /\ job # None /\ job.done \in 0 .. 3
      /\ Version \in Versions /\ Chosen \in Candidates /\ UNCHANGED ref
  BY PromoteJob, AssetNames DEF EnsureAsset, Job
<1>2. name \in Names /\ AssetOf(Chosen, name) \in AssetValues
  BY <1>1, AssetNames, CandidateTypes
<1>3. release[Version].state # "absent" =>
        /\ release[Version].target = Commit
        /\ \A i \in 1 .. job.done : release[Version].assets[Assets[i]] = AssetOf(Chosen, Assets[i])
  BY <1>1, PromoteFacts DEF Holds, Steps
<1>4. CASE job' = None /\ last' = "failure" /\ release' = release
  BY <1>1, <1>4, Fails DEF Holds
<1>5. ASSUME job' = [job EXCEPT !.done = @ + 1],
             release'[Version].state = release[Version].state,
             release'[Version].target = release[Version].target,
             release'[Version].assets[name] = AssetOf(Chosen, name),
             \A other \in Names \ {name} :
                release'[Version].assets[other] = release[Version].assets[other]
      PROVE  Progress' /\ ChannelsPaired'
  <2>1. /\ job' # None /\ job'.request = job.request
        /\ job'.pc = "assets" /\ job'.done = job.done + 1
    BY <1>1, <1>5, Counts DEF At
  <2>2. ASSUME release[Version].state # "absent", NEW i \in 1 .. job'.done
        PROVE  release'[Version].assets[Assets[i]] = AssetOf(Chosen, Assets[i])
    <3>1. CASE i = job.done + 1
      BY <1>5, <3>1
    <3>2. CASE i # job.done + 1
      <4>1. i \in 1 .. job.done /\ i \in 1 .. 4 /\ job.done + 1 \in 1 .. 4
        BY <1>1, <2>1, <2>2, <3>2
      <4>2. Assets[i] \in Names \ {name}
        BY <3>2, <4>1, AssetNames
      <4> QED
        BY <1>3, <1>5, <2>2, <4>1, <4>2
    <3> QED
      BY <3>1, <3>2
  <2>3. release'[Version].state # "absent" => release'[Version].target = Commit
    BY <1>3, <1>5
  <2>4. release'[Version].state # "absent" =>
          \A i \in 1 .. job'.done : release'[Version].assets[Assets[i]] = AssetOf(Chosen, Assets[i])
    BY <1>5, <2>2
  <2> QED
    BY <1>1, <2>1, <2>3, <2>4, PromoteGoal DEF At
<1>6. CASE /\ release[Version].state = "draft"
           /\ release' = [release EXCEPT ![Version].assets[name] = AssetOf(Chosen, name)]
           /\ job' = [job EXCEPT !.done = @ + 1]
  <2>1. /\ \A w \in Versions \ {Version} : release'[w] = release[w]
        /\ release'[Version].state = release[Version].state
        /\ release'[Version].target = release[Version].target
        /\ release'[Version].assets[name] = AssetOf(Chosen, name)
        /\ \A other \in Names \ {name} :
             release'[Version].assets[other] = release[Version].assets[other]
    <3>1. release \in [Versions -> Release] /\ Version \in Versions
      BY <1>1 DEF TypeOK
    <3>2. name \in Names /\ AssetOf(Chosen, name) \in AssetValues
      BY <1>2
    <3>3. release' = [release EXCEPT ![Version].assets[name] = AssetOf(Chosen, name)]
      BY <1>6
    <3> DEFINE a == AssetOf(Chosen, name)
               written == [release[Version] EXCEPT !.assets = [release[Version].assets EXCEPT ![name] = a]]
    <3> HIDE DEF name, a
    <3>4. release'[Version] = written /\ \A w \in Versions \ {Version} : release'[w] = release[w]
      BY <3>1, <3>3 DEF a
    <3>5. release[Version] \in Release
      BY <3>1
    <3>6. /\ written.state = release[Version].state /\ written.target = release[Version].target
          /\ written.assets = [release[Version].assets EXCEPT ![name] = a]
          /\ DOMAIN release[Version].assets = Names
      BY <3>5 DEF Release
    <3> HIDE DEF written
    <3> QED
      BY <3>2, <3>4, <3>6 DEF a
  <2>2. World'
    BY <1>1, <1>6, <2>1, DraftsWritten DEF Holds
  <2> QED
    BY <1>5, <1>6, <2>1, <2>2 DEF Holds
<1>7. CASE /\ release[Version].assets[name] = AssetOf(Chosen, name) /\ release' = release
           /\ job' = [job EXCEPT !.done = @ + 1]
  BY <1>1, <1>5, <1>7, WorldKept DEF Holds
<1> QED
  BY <1>4, <1>6, <1>7 DEF EnsureAsset, End

\* Four settled assets are all assets of the release.
LEMMA AssetsCompleteHolds == TypeOK /\ Holds /\ AssetsComplete => Holds'
<1> SUFFICES ASSUME TypeOK, Holds, AssetsComplete PROVE Holds'
  OBVIOUS
<1>1. /\ At("promote", "assets") /\ job # None /\ job.done = 4 /\ UNCHANGED <<release, ref>>
  BY PromoteJob, AssetNames DEF AssetsComplete, Check, world
<1>2. release[Version].state # "absent" =>
        /\ release[Version].target = Commit
        /\ \A i \in 1 .. 4 : release[Version].assets[Assets[i]] = AssetOf(Chosen, Assets[i])
  BY <1>1, PromoteFacts DEF Holds, Steps
<1>3. CASE job' = None /\ last' = "failure"
  BY <1>1, <1>3, Fails DEF Holds
<1>4. CASE Goto("versions")
  <2>1. job' # None /\ job'.request = job.request /\ job'.pc = "versions"
    BY <1>1, <1>4, Goes DEF Steps
  <2>2. release[Version].state # "absent" =>
          \A name \in Names : release[Version].assets[name] = AssetOf(Chosen, name)
    BY <1>2, AssetNames
  <2>3. Progress' /\ ChannelsPaired'
    BY <1>1, <1>2, <2>1, <2>2, PromoteGoal DEF At
  <2> QED
    BY <1>1, <2>3, WorldKept DEF Holds
<1> QED
  BY <1>3, <1>4 DEF AssetsComplete, Check, End

\* The look at the version tags only decides whether the job goes on.
LEMMA CheckVersionTagsHolds == TypeOK /\ Holds /\ CheckVersionTags => Holds'
<1> SUFFICES ASSUME TypeOK, Holds, CheckVersionTags PROVE Holds'
  OBVIOUS
<1>1. /\ At("promote", "versions") /\ job # None /\ UNCHANGED <<release, ref>>
  BY PromoteJob DEF CheckVersionTags, Check, world
<1>2. release[Version].state # "absent" =>
        /\ release[Version].target = Commit
        /\ \A name \in Names : release[Version].assets[name] = AssetOf(Chosen, name)
  BY <1>1, PromoteFacts DEF Holds, Steps
<1>3. CASE job' = None /\ last' = "failure"
  BY <1>1, <1>3, Fails DEF Holds
<1>4. CASE Goto("tags")
  <2>1. job' # None /\ job'.request = job.request /\ job'.pc = "tags" /\ job'.done = 0
    BY <1>1, <1>4, Goes DEF Steps
  <2>2. Progress' /\ ChannelsPaired'
    BY <1>1, <1>2, <2>1, PromoteGoal DEF At
  <2> QED
    BY <1>1, <2>2, WorldKept DEF Holds
<1> QED
  BY <1>3, <1>4 DEF CheckVersionTags, Check, End

\* A version tag is free or names the digest; channels come after both.
LEMMA PromoteTagHolds == TypeOK /\ Holds /\ PromoteTag => Holds'
<1> SUFFICES ASSUME TypeOK, Holds, PromoteTag PROVE Holds'
  OBVIOUS
<1> DEFINE tag == PromotionOrder[job.done + 1]
<1>1. /\ At("promote", "tags") /\ job # None /\ job.done \in 0 .. 3 /\ UNCHANGED release
      /\ Version \in Versions /\ Chosen \in Candidates /\ Version # Channel
      /\ \A kind \in Kinds : Digest(kind) \in Digests
  BY PromoteJob, OrderValues DEF PromoteTag, Job
<1>2. /\ release[Version].state # "absent" => release[Version].target = Commit
      /\ release[Version].state # "absent" =>
           \A name \in Names : release[Version].assets[name] = AssetOf(Chosen, name)
      /\ \A i \in 1 .. job.done : ref[PromotionOrder[i]] = Digest(PromotionOrder[i][1])
  BY <1>1, PromoteFacts DEF Holds, Steps
<1>3. CASE job' = None /\ last' = "failure" /\ ref' = ref
  BY <1>1, <1>3, Fails DEF Holds
<1>4. CASE /\ tag[2] = Channel \/ Settable(ref[tag], Digest(tag[1]))
           /\ ref' = [ref EXCEPT ![tag] = Digest(tag[1])]
           /\ job' = [job EXCEPT !.done = @ + 1]
  <2>1. /\ job' # None /\ job'.request = job.request
        /\ job'.pc = "tags" /\ job'.done = job.done + 1
    BY <1>1, <1>4, Counts DEF At
  <2>2. PICK kind \in Kinds, name \in {Version, Channel} : tag = <<kind, name>>
    BY <1>1, OrderValues DEF Kinds
  <2>3. ref' = [ref EXCEPT ![<<kind, name>>] = Digest(kind)]
    BY <1>4, <2>2
  <2>4. name # Channel => ref[<<kind, name>>] \in {None, Digest(kind)}
    BY <1>4, <2>2 DEF Settable
  <2>5. name = Channel => \A k \in Kinds : ref[<<k, Version>>] = Digest(k)
    <3>1. ASSUME name = Channel PROVE job.done >= 2
      BY <1>1, <2>2, <3>1, OrderValues
    <3>2. ASSUME job.done >= 2 PROVE \A k \in Kinds : ref[<<k, Version>>] = Digest(k)
      BY <1>1, <1>2, <3>2, OrderValues DEF Kinds
    <3> QED
      BY <3>1, <3>2
  <2>6. kind = "sdk" => ref[<<"source", Version>>] = Digest("source")
    <3>1. ASSUME kind = "sdk" PROVE job.done >= 1
      BY <1>1, <2>2, <3>1, OrderValues
    <3> QED
      BY <1>1, <1>2, <3>1, OrderValues
  <2>7. World'
    <3>1. name = Channel => \E v \in Versions :
            ref[<<kind, v>>] = Digest(kind) /\ \A other \in Kinds : ref[<<other, v>>] # None
      BY <1>1, <2>5, PromotionAssumption
    <3>2. kind = "sdk" => \E c \in Candidates, v \in Versions :
            SdkOf[c] = Digest(kind) /\ SourceOf[c] = ref[<<"source", v>>]
      BY <1>1, <2>6 DEF Digest, DigestOf, Identity
    <3>3. kind \in Kinds /\ name \in Versions \cup {Channel} /\ Digest(kind) \in Digests
      BY <1>1, <2>2
    <3> QED
      BY <1>1, <2>3, <2>4, <3>1, <3>2, <3>3, TagWritten DEF Holds
  <2>8. ASSUME NEW i \in 1 .. job'.done
        PROVE  ref'[PromotionOrder[i]] = Digest(PromotionOrder[i][1])
    <3>1. PromotionOrder[i] \in Tags /\ tag \in Tags
      BY <1>1, <2>1, OrderTags
    <3>2. CASE i = job.done + 1
      BY <1>4, <3>1, <3>2 DEF TypeOK
    <3>3. CASE i # job.done + 1
      <4>1. i \in 1 .. job.done
        BY <1>1, <2>1, <3>3
      <4>2. PromotionOrder[i] # tag
        BY <1>1, <4>1, OrderValues
      <4> QED
        BY <1>2, <1>4, <3>1, <4>1, <4>2 DEF TypeOK
    <3> QED
      BY <3>2, <3>3
  <2>9. Progress' /\ ChannelsPaired'
    BY <1>1, <1>2, <2>1, <2>8, PromoteGoal DEF At
  <2> QED
    BY <2>7, <2>9 DEF Holds
<1> QED
  BY <1>3, <1>4 DEF PromoteTag, End

\* When all four tags resolve to their digests the job may publish.
LEMMA VerifyTagsHolds == TypeOK /\ Holds /\ VerifyTags => Holds'
<1> SUFFICES ASSUME TypeOK, Holds, VerifyTags PROVE Holds'
  OBVIOUS
<1>1. /\ At("promote", "tags") /\ job # None /\ UNCHANGED <<release, ref>>
  BY PromoteJob DEF VerifyTags, Check, world
<1>2. release[Version].state # "absent" =>
        /\ release[Version].target = Commit
        /\ \A name \in Names : release[Version].assets[name] = AssetOf(Chosen, name)
  BY <1>1, PromoteFacts DEF Holds, Steps
<1>3. CASE job' = None /\ last' = "failure"
  BY <1>1, <1>3, Fails DEF Holds
<1>4. CASE /\ \A i \in DOMAIN PromotionOrder : ref[PromotionOrder[i]] = Digest(PromotionOrder[i][1])
           /\ Goto("publish")
  <2>1. job' # None /\ job'.request = job.request /\ job'.pc = "publish"
    BY <1>1, <1>4, Goes DEF Steps
  <2>2. \A kind \in Kinds, name \in {Version, Channel} : ref[<<kind, name>>] = Digest(kind)
    <3>1. \A i \in 1 .. 4 : ref[PromotionOrder[i]] = Digest(PromotionOrder[i][1])
      BY <1>4, OrderValues
    <3> QED
      BY <3>1, OrderValues DEF Kinds
  <2>3. Progress' /\ ChannelsPaired'
    BY <1>1, <1>2, <2>1, <2>2, PromoteGoal DEF At
  <2> QED
    BY <1>1, <2>3, WorldKept DEF Holds
<1> QED
  BY <1>3, <1>4 DEF VerifyTags, Check, End

\* The published draft has the assets of this candidate, and its tags are set.
LEMMA PublishHolds == TypeOK /\ Holds /\ Publish => Holds'
<1> SUFFICES ASSUME TypeOK, Holds, Publish PROVE Holds'
  OBVIOUS
<1>1. /\ At("promote", "publish") /\ job # None /\ UNCHANGED ref
      /\ Version \in Versions /\ Chosen \in Candidates
  BY PromoteJob DEF Publish
<1>2. /\ release[Version].state # "absent" =>
           /\ release[Version].target = Commit
           /\ \A name \in Names : release[Version].assets[name] = AssetOf(Chosen, name)
      /\ \A kind \in Kinds, name \in {Version, Channel} : ref[<<kind, name>>] = Digest(kind)
  BY <1>1, PromoteFacts DEF Holds, Steps
<1>3. CASE job' = None /\ last' = "failure" /\ release' = release
  BY <1>1, <1>3, Fails DEF Holds
<1>4. CASE Goto("published") /\ release' = release
  <2>1. job' # None /\ job'.request = job.request /\ job'.pc = "published"
    BY <1>1, <1>4, Goes DEF Steps
  <2>2. Progress' /\ ChannelsPaired'
    BY <1>1, <1>2, <1>4, <2>1, PromoteGoal DEF At
  <2> QED
    BY <1>1, <1>4, <2>2, WorldKept DEF Holds
<1>5. CASE /\ Goto("published") /\ release[Version].state = "draft"
           /\ release' = [release EXCEPT ![Version].state = "published"]
  <2>1. job' # None /\ job'.request = job.request /\ job'.pc = "published"
    BY <1>1, <1>5, Goes DEF Steps
  <2>2. /\ \A v \in Versions \ {Version} : release'[v] = release[v]
        /\ release'[Version].target = release[Version].target
        /\ release'[Version].assets = release[Version].assets
    BY <1>1, <1>5, StateWritten DEF TypeOK
  <2>3. /\ release'[Version].target = Commit
        /\ \A name \in Names : release'[Version].assets[name] = AssetOf(Chosen, name)
    BY <1>2, <1>5, <2>2
  <2>4. Progress' /\ ChannelsPaired'
    BY <1>1, <1>2, <2>1, <2>3, PromoteGoal DEF At
  <2>5. ReleaseMatchesTags'
    <3> SUFFICES ASSUME NEW v \in Versions, release'[v].state = "published"
                 PROVE  \E c \in Candidates :
                           /\ VersionOf[c] = v /\ HeadOf[c] = release'[v].target
                           /\ \A name \in Names : release'[v].assets[name] = AssetOf(c, name)
                           /\ \A kind \in Kinds : Is(c, kind, ref[<<kind, v>>])
      BY <1>1 DEF ReleaseMatchesTags
    <3>1. CASE v = Version
      <4>1. VersionOf[Chosen] = v /\ HeadOf[Chosen] = release'[v].target
        BY <2>3, <3>1 DEF Version, Commit
      <4>2. \A kind \in Kinds : Is(Chosen, kind, ref[<<kind, v>>])
        BY <1>2, <3>1 DEF Is, Digest
      <4> QED
        BY <1>1, <2>3, <3>1, <4>1, <4>2
    <3>2. CASE v # Version
      BY <2>2, <3>2 DEF Holds, World, ReleaseMatchesTags
    <3> QED
      BY <3>1, <3>2
  <2>6. ChannelsFollowVersions' /\ SourceBeforeSdk'
    BY <1>1 DEF Holds, World, ChannelsFollowVersions, SourceBeforeSdk
  <2> QED
    BY <2>4, <2>5, <2>6 DEF Holds, World
<1> QED
  BY <1>3, <1>4, <1>5 DEF Publish, End

\* A promotion that succeeds leaves both channels at its published version.
LEMMA ConfirmPublishedHolds == TypeOK /\ Holds /\ ConfirmPublished => Holds'
<1> SUFFICES ASSUME TypeOK, Holds, ConfirmPublished PROVE Holds'
  OBVIOUS
<1>1. /\ At("promote", "published") /\ Version \in Versions
      /\ job' = None /\ UNCHANGED <<release, ref>>
  BY PromoteJob DEF ConfirmPublished, End, world
<1>2. \A kind \in Kinds, name \in {Version, Channel} : ref[<<kind, name>>] = Digest(kind)
  BY <1>1, PromoteFacts DEF Holds
<1>3. last' = "success" => release[Version].state = "published"
  BY DEF ConfirmPublished, End
<1>4. ChannelsPaired'
  BY <1>1, <1>2, <1>3 DEF ChannelsPaired
<1> QED
  BY <1>1, <1>4, WorldKept, NoJob DEF Holds

-----------------------------------------------------------------------------
(***************************************************************************)
(* Rollback, step by step                                                  *)
(***************************************************************************)
\* An eligible release is published, and stays so.
LEMMA ResolveReleaseHolds == TypeOK /\ Holds /\ ResolveRelease => Holds'
<1> SUFFICES ASSUME TypeOK, Holds, ResolveRelease PROVE Holds'
  OBVIOUS
<1>1. At("rollback", "resolve") /\ job # None /\ UNCHANGED <<release, ref>>
  BY RollbackJob DEF ResolveRelease, Check, world
<1>2. CASE job' = None /\ last' = "failure"
  BY <1>1, <1>2, Fails DEF Holds
<1>3. CASE Eligible(Target) /\ Goto("check")
  <2>1. job' # None /\ job'.request = job.request /\ job'.pc = "check"
    BY <1>1, <1>3, Goes DEF Steps
  <2>2. release'[Target].state = "published"
    BY <1>1, <1>3 DEF Eligible
  <2>3. Progress' /\ ChannelsPaired'
    BY <1>1, <2>1, <2>2, RollbackGoal DEF At
  <2> QED
    BY <1>1, <2>3, WorldKept DEF Holds
<1> QED
  BY <1>2, <1>3 DEF ResolveRelease, Check, End

\* The recorded digests are those of the version tags.
LEMMA CheckRollbackHolds == TypeOK /\ Holds /\ CheckRollback => Holds'
<1> SUFFICES ASSUME TypeOK, Holds, CheckRollback PROVE Holds'
  OBVIOUS
<1>1. At("rollback", "check") /\ job # None /\ UNCHANGED <<release, ref>>
  BY RollbackJob DEF CheckRollback, Check, world
<1>2. release[Target].state = "published"
  BY <1>1, RollbackFacts DEF Holds
<1>3. CASE job' = None /\ last' = "failure"
  BY <1>1, <1>3, Fails DEF Holds
<1>4. CASE /\ Durable(Target) /\ Goto("channels")
           /\ \A kind \in Kinds : ref[<<kind, Target>>] = DigestOf(Recorded, kind)
  <2>1. job' # None /\ job'.request = job.request /\ job'.pc = "channels"
    BY <1>1, <1>4, Goes DEF Steps
  <2>2. Target' = Target
    BY <2>1 DEF Target
  <2>3. Durable(Target)'
    BY <1>1, <1>4, <2>2 DEF Durable
  <2>4. \A kind \in Kinds :
          ref'[<<kind, Target>>] = DigestOf(release'[Target].assets["candidate"], kind)
    BY <1>1, <1>4 DEF Recorded
  <2>5. Progress' /\ ChannelsPaired'
    BY <1>1, <1>2, <2>1, <2>3, <2>4, RollbackGoal DEF At
  <2> QED
    BY <1>1, <2>5, WorldKept DEF Holds
<1> QED
  BY <1>3, <1>4 DEF CheckRollback, Check, End

\* A channel moves to a digest which a version tag names.
LEMMA MoveChannelHolds == TypeOK /\ Holds /\ MoveChannel => Holds'
<1> SUFFICES ASSUME TypeOK, Holds, MoveChannel PROVE Holds'
  OBVIOUS
<1> DEFINE kind == RollbackOrder[job.done + 1]
<1>1. /\ At("rollback", "channels") /\ job \in Job /\ job # None /\ job.done \in 0 .. 1
      /\ Target \in Versions /\ Target # Channel /\ UNCHANGED release
      /\ ref' = [ref EXCEPT ![<<kind, Channel>>] = DigestOf(Recorded, kind)]
      /\ job' = [job EXCEPT !.done = @ + 1]
  BY RollbackJob, RollbackValues DEF MoveChannel, Job
<1>2. kind \in Kinds
  BY <1>1, RollbackValues DEF Kinds
<1>3. /\ release[Target].state = "published" /\ Durable(Target)
      /\ \A k \in Kinds : ref[<<k, Target>>] = DigestOf(Recorded, k)
  BY <1>1, RollbackFacts DEF Holds
<1>4. PICK c \in Candidates : Recorded = Identity(c)
  BY <1>3, AssetNames DEF Durable, Recorded, AssetOf
<1>5. \A k \in Kinds : DigestOf(Recorded, k) \in Digests /\ DigestOf(Recorded, k) # None
  BY <1>4, CandidateTypes, PromotionAssumption
<1>6. SdkOf[c] = DigestOf(Recorded, "sdk") /\ SourceOf[c] = ref[<<"source", Target>>]
  BY <1>3, <1>4 DEF DigestOf, Identity, Kinds
<1>7. World'
  <2> DEFINE d == DigestOf(Recorded, kind)
  <2>1. d \in Digests
    BY <1>2, <1>5
  <2>2. \E v \in Versions : ref[<<kind, v>>] = d /\ \A other \in Kinds : ref[<<other, v>>] # None
    BY <1>1, <1>2, <1>3, <1>5
  <2>3. kind = "sdk" => \E b \in Candidates, v \in Versions :
          SdkOf[b] = d /\ SourceOf[b] = ref[<<"source", v>>]
    BY <1>1, <1>6
  <2>4. ref' = [ref EXCEPT ![<<kind, Channel>>] = d] /\ release' = release
    BY <1>1
  <2> HIDE DEF kind, d
  <2> QED
    BY <1>2, <2>1, <2>2, <2>3, <2>4, TagWritten DEF Holds
<1>8. /\ job' # None /\ job'.request = job.request /\ job'.pc = "channels"
  BY <1>1, Counts DEF At
<1>9. \A k \in Kinds : ref'[<<k, Target>>] = DigestOf(release'[Target].assets["candidate"], k)
  <2>1. \A k \in Kinds : ref'[<<k, Target>>] = ref[<<k, Target>>]
    BY <1>1 DEF TypeOK, Tags
  <2> QED
    BY <1>1, <1>3, <2>1 DEF Recorded
<1>10. Durable(Target)'
  BY <1>1, <1>3, <1>8 DEF Durable, Target
<1>11. release'[Target].state = "published"
  BY <1>1, <1>3
<1>12. Progress' /\ ChannelsPaired'
  BY <1>1, <1>8, <1>9, <1>10, <1>11, RollbackGoal DEF At
<1> QED
  BY <1>7, <1>12 DEF Holds

\* A rollback that succeeds leaves both channels at its version.
LEMMA ConfirmChannelsHolds == TypeOK /\ Holds /\ ConfirmChannels => Holds'
<1> SUFFICES ASSUME TypeOK, Holds, ConfirmChannels PROVE Holds'
  OBVIOUS
<1>1. /\ At("rollback", "channels") /\ Target \in Versions
      /\ job' = None /\ UNCHANGED <<release, ref>>
  BY RollbackJob DEF ConfirmChannels, End, world
<1>2. /\ release[Target].state = "published"
      /\ \A kind \in Kinds : ref[<<kind, Target>>] = DigestOf(Recorded, kind)
  BY <1>1, RollbackFacts DEF Holds
<1>3. last' = "success" => \A kind \in Kinds : ref[<<kind, Channel>>] = DigestOf(Recorded, kind)
  BY DEF ConfirmChannels, End
<1>4. ChannelsPaired'
  BY <1>1, <1>2, <1>3 DEF ChannelsPaired
<1> QED
  BY <1>1, <1>4, WorldKept, NoJob DEF Holds

-----------------------------------------------------------------------------
(***************************************************************************)
(* Starting, dying and intervening                                         *)
(***************************************************************************)
\* A new job knows nothing yet.
LEMMA StartHolds == TypeOK /\ Holds /\ Start => Holds'
<1> SUFFICES ASSUME TypeOK, Holds, Start PROVE Holds'
  OBVIOUS
<1>1. waiting \in Promote \cup Rollback
  BY DEF Start, TypeOK
<1>2. job' \in Job
  BY <1>1 DEF Start, Job, Steps
<1>3. job' # None
  BY <1>2, NoneAssumption
<1>4. job' = [request |-> waiting, seen |-> "absent", done |-> 0,
              pc |-> IF waiting.kind = "promote" THEN "preflight" ELSE "resolve"]
  BY DEF Start
<1>5. job'.pc = "preflight" \/ (job'.pc = "resolve" /\ job'.request.kind # "promote")
  BY <1>4
<1>6. \A c, steps : Promoting(c, steps)' => job'.pc = "preflight" /\ "preflight" \in steps
  BY <1>5 DEF Promoting
<1>7. \A v, steps : RollingBack(v, steps)' => {"preflight", "resolve"} \cap steps # {}
  BY <1>5 DEF RollingBack
<1>8. OwnRelease' /\ OwnAssets' /\ OwnTags'
  BY <1>6 DEF OwnRelease, OwnAssets, OwnTags
<1>9. RollbackBacked'
  BY <1>7 DEF RollbackBacked
<1>10. Progress' /\ ChannelsPaired'
  BY <1>3, <1>8, <1>9 DEF Progress, ChannelsPaired
<1> QED
  BY <1>10, WorldKept DEF Holds, Start, world

\* An interrupted upload leaves a broken asset in a draft only.
LEMMA UploadDiesHolds == TypeOK /\ Holds /\ UploadDies => Holds'
<1> SUFFICES ASSUME TypeOK, Holds, UploadDies PROVE Holds'
  OBVIOUS
<1> DEFINE name == Assets[job.done + 1]
<1>1. job \in Job /\ Version \in Versions /\ job.done \in 0 .. 3 /\ UNCHANGED ref
  BY PromoteJob, AssetNames DEF UploadDies, Job
<1>2. name \in Names /\ Incomplete \in AssetValues
  BY <1>1, AssetNames DEF AssetValues
<1>3. release' = [release EXCEPT ![Version].assets[name] = Incomplete] /\ release[Version].state = "draft"
  BY DEF UploadDies
<1>4. release'[Version].state = "draft" /\ \A v \in Versions \ {Version} : release'[v] = release[v]
  BY <1>1, <1>2, <1>3, AssetWritten DEF TypeOK
<1>5. World'
  BY <1>1, <1>4, DraftsWritten DEF Holds
<1> QED
  BY <1>5, NoJob DEF Holds, ChannelsPaired, UploadDies, End

\* A discarded draft is no release, so nothing is said of its assets.
LEMMA DiscardDraftHolds ==
    ASSUME TypeOK, Holds, NEW v \in Versions, DiscardDraft(v)
    PROVE  Holds'
<1>1. /\ release'[v] = NoRelease /\ release[v].state = "draft"
      /\ \A w \in Versions \ {v} : release'[w] = release[w]
  BY DEF DiscardDraft, TypeOK
<1>2. release'[v].state = "absent"
  BY <1>1 DEF NoRelease
<1> QED
  BY <1>1, <1>2, DraftRepaired DEF DiscardDraft, Holds

\* Only broken assets are removed from a draft.
LEMMA RepairDraftHolds ==
    ASSUME TypeOK, Holds, NEW v \in Versions, RepairDraft(v)
    PROVE  Holds'
<1>1. PICK name \in Names : /\ release[v].assets[name] = Incomplete
                           /\ release' = [release EXCEPT ![v].assets[name] = None]
  BY DEF RepairDraft
<1>2. /\ \A w \in Versions \ {v} : release'[w] = release[w]
      /\ release'[v].state = release[v].state /\ release'[v].target = release[v].target
      /\ \A other \in Names \ {name} : release'[v].assets[other] = release[v].assets[other]
  BY <1>1, AssetWritten DEF TypeOK, AssetValues
<1> QED
  BY <1>1, <1>2, DraftRepaired DEF RepairDraft, Holds

\* Every step keeps the invariant.
LEMMA Preserved == Inv /\ [Next]_vars => Inv'
<1> SUFFICES ASSUME Inv, [Next]_vars PROVE Inv'
  OBVIOUS
<1>1. TypeOK /\ Holds
  BY DEF Inv, Holds, World, Progress
<1>2. TypeOK'
  BY TypePreserved DEF Inv
<1>3. ASSUME JobStep PROVE Holds'
  BY <1>1, <1>3, PreflightHolds, OpenDraftHolds, EnsureAssetHolds, AssetsCompleteHolds,
     CheckVersionTagsHolds, PromoteTagHolds, VerifyTagsHolds, PublishHolds, ConfirmPublishedHolds,
     ResolveReleaseHolds, CheckRollbackHolds, MoveChannelHolds, ConfirmChannelsHolds DEF JobStep
<1>4. ASSUME JobDies PROVE Holds'
  BY <1>1, <1>4, Fails DEF Holds, JobDies, End, world
<1>5. ASSUME NEW c \in Candidates, RequestPromotion(c) \/ PushTag(c) PROVE Holds'
  BY <1>1, <1>5, Idle DEF Holds, RequestPromotion, PushTag, world
<1>6. ASSUME NEW v \in Versions, RequestRollback(v) PROVE Holds'
  BY <1>1, <1>6, Idle DEF Holds, RequestRollback, world
<1>7. ASSUME UNCHANGED vars PROVE Holds'
  BY <1>1, <1>7, Idle DEF Holds, vars, world
<1>8. Holds'
  BY <1>1, <1>3, <1>4, <1>5, <1>6, <1>7, StartHolds, UploadDiesHolds, DiscardDraftHolds,
     RepairDraftHolds DEF Next
<1> QED
  BY <1>2, <1>8 DEF Inv, Holds, World, Progress

\* The invariant holds before anything has been promoted.
LEMMA Initial == Init => Inv
<1> SUFFICES ASSUME Init PROVE Inv
  OBVIOUS
<1>1. TypeOK
  BY DraftTypes, PromotionAssumption DEF Init, TypeOK
<1>2. Progress /\ ChannelsPaired
  BY DEF Init, Progress, OwnRelease, OwnAssets, OwnTags, RollbackBacked, ChannelsPaired,
         Promoting, RollingBack
<1>3. \A kind \in Kinds, name \in Versions \cup {Channel} : ref[<<kind, name>>] = None
  BY DEF Init, Tags
<1>4. ReleaseMatchesTags
  BY DEF Init, ReleaseMatchesTags, NoRelease
<1>5. ChannelsFollowVersions /\ SourceBeforeSdk
  BY <1>3 DEF ChannelsFollowVersions, SourceBeforeSdk, Kinds
<1> QED
  BY <1>1, <1>2, <1>4, <1>5 DEF Inv, Progress

\* No step changes a version tag that exists.
LEMMA TagKept ==
    ASSUME Inv, [Next]_vars, NEW t \in Tags, t[2] # Channel, ref[t] # None
    PROVE  ref'[t] = ref[t]
<1>1. TypeOK /\ ref \in [Tags -> Digests \cup {None}]
  BY DEF Inv, TypeOK
<1>2. ASSUME PromoteTag PROVE ref'[t] = ref[t]
  <2> DEFINE tag == PromotionOrder[job.done + 1]
  <2>1. job.done \in 0 .. 3 /\ Version \in Versions
    BY <1>1, <1>2, PromoteJob, OrderValues DEF PromoteTag, Job
  <2>2. tag \in Tags
    BY <2>1, OrderTags
  <2>3. \/ ref' = ref
        \/ /\ tag[2] = Channel \/ ref[tag] \in {None, Digest(tag[1])}
           /\ ref' = [ref EXCEPT ![tag] = Digest(tag[1])]
    BY <1>2 DEF PromoteTag, Settable
  <2> HIDE DEF tag
  <2> QED
    BY <1>1, <2>2, <2>3
<1>3. ASSUME MoveChannel PROVE ref'[t] = ref[t]
  <2>1. PICK k : ref' = [ref EXCEPT ![<<k, Channel>>] = DigestOf(Recorded, k)]
    BY <1>3 DEF MoveChannel
  <2>2. t # <<k, Channel>>
    OBVIOUS
  <2> QED
    BY <1>1, <2>1, <2>2
<1>4. \/ PromoteTag \/ MoveChannel \/ ref' = ref
  BY DEF Next, JobStep, RequestPromotion, PushTag, Start, Preflight, OpenDraft, EnsureAsset,
         AssetsComplete, CheckVersionTags, VerifyTags, Publish, ConfirmPublished, ResolveRelease,
         CheckRollback, ConfirmChannels, JobDies, UploadDies, RequestRollback, DiscardDraft,
         RepairDraft, Check, vars, world
<1> QED
  BY <1>2, <1>3, <1>4

\* A rollback job that moves a channel moves it to what it has verified.
LEMMA RollbackMoves ==
    ASSUME Inv, [Next]_vars, NEW kind \in Kinds, job # None, job.request.kind = "rollback",
           ref'[<<kind, Channel>>] # ref[<<kind, Channel>>]
    PROVE  /\ release[job.request.version].state = "published"
           /\ ref'[<<kind, Channel>>] = ref[<<kind, job.request.version>>]
<1>1. TypeOK /\ Progress /\ ref \in [Tags -> Digests \cup {None}]
  BY DEF Inv, TypeOK, Progress
<1>2. ~ PromoteTag
  BY DEF PromoteTag, At
<1>3. MoveChannel
  BY <1>2 DEF Next, JobStep, RequestPromotion, PushTag, Start, Preflight, OpenDraft, EnsureAsset,
         AssetsComplete, CheckVersionTags, VerifyTags, Publish, ConfirmPublished, ResolveRelease,
         CheckRollback, ConfirmChannels, JobDies, UploadDies, RequestRollback, DiscardDraft,
         RepairDraft, Check, vars, world
<1>4. /\ release[Target].state = "published"
      /\ \A k \in Kinds : ref[<<k, Target>>] = DigestOf(Recorded, k)
  BY <1>1, <1>3, RollbackFacts DEF MoveChannel
<1>5. PICK k : ref' = [ref EXCEPT ![<<k, Channel>>] = DigestOf(Recorded, k)]
  BY <1>3 DEF MoveChannel
<1>6. <<kind, Channel>> \in Tags
  BY DEF Tags
<1>7. k = kind
  BY <1>1, <1>5
<1>8. ref'[<<kind, Channel>>] = DigestOf(Recorded, kind)
  BY <1>1, <1>5, <1>6, <1>7
<1> QED
  BY <1>4, <1>8 DEF Target

-----------------------------------------------------------------------------
(***************************************************************************)
(* Theorems                                                                *)
(***************************************************************************)
\* The invariant of the promotion and rollback jobs holds in every reachable
\* state: what a job has checked still holds when it acts on it, although
\* maintainers move Git tags, discard and repair drafts meanwhile.
THEOREM PromotionInvariant == Spec => []Inv
<1>1. Inv /\ [Next]_vars => Inv'
  BY Preserved
<1> QED
  BY <1>1, Initial, PTL DEF Spec

\* Releases, tags, the waiting request and the job are always well formed.
THEOREM PromotionTypes == Spec => []TypeOK
<1>1. Inv => TypeOK
  BY DEF Inv
<1> QED
  BY <1>1, PromotionInvariant, PTL

\* A published release carries one evidence set, made from its target commit,
\* and both version tags name the digests it records, whatever jobs died.
THEOREM PublishedReleasesMatch == Spec => []ReleaseMatchesTags
<1>1. Inv => ReleaseMatchesTags
  BY DEF Inv
<1> QED
  BY <1>1, PromotionInvariant, PTL

\* A channel serves only digests that a version tag also names, and that
\* version has both of its tags.
THEOREM ChannelsBacked == Spec => []ChannelsFollowVersions
<1>1. Inv => ChannelsFollowVersions
  BY DEF Inv
<1> QED
  BY <1>1, PromotionInvariant, PTL

\* No SDK image is reachable by a tag before its source bundle is.
THEOREM SourceFirst == Spec => []SourceBeforeSdk
<1>1. Inv => SourceBeforeSdk
  BY DEF Inv
<1> QED
  BY <1>1, PromotionInvariant, PTL

\* After a successful job both channels name one published version.
THEOREM SuccessPairsChannels == Spec => []ChannelsPaired
<1>1. Inv => ChannelsPaired
  BY DEF Inv
<1> QED
  BY <1>1, PromotionInvariant, PTL

\* A version tag, once written, keeps its digest for ever.
THEOREM VersionTagsKept == Spec => VersionTagsImmutable
<1>1. Inv /\ [Next]_vars =>
        [\A t \in Tags : t[2] # Channel /\ ref[t] # None => ref'[t] = ref[t]]_vars
  BY TagKept
<1> QED
  BY <1>1, PromotionInvariant, PTL DEF Spec, VersionTagsImmutable

\* A rollback moves a channel only to the digest of a published version.
THEOREM RollbackTargetsPublished == Spec => RollbackToPublishedOnly
<1>1. Inv /\ [Next]_vars =>
        [\A kind \in Kinds :
          /\ job # None /\ job.request.kind = "rollback"
          /\ ref'[<<kind, Channel>>] # ref[<<kind, Channel>>]
          => LET v == job.request.version
             IN release[v].state = "published" /\ ref'[<<kind, Channel>>] = ref[<<kind, v>>]]_vars
  BY RollbackMoves
<1> QED
  BY <1>1, PromotionInvariant, PTL DEF Spec, RollbackToPublishedOnly
=============================================================================
