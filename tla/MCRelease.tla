------------------------------ MODULE MCRelease ------------------------------
(***************************************************************************)
(* Both halves of a release for TLC, side by side: how a promotion comes   *)
(* to be asked for, and how one that has been asked for is carried out.    *)
(* They share no variable, so a behaviour moves in one of them only.       *)
(***************************************************************************)
EXTENDS ReleaseRequest

CONSTANTS a, v1, h1, sdk1, src1, Interventions, MaxFaults, Channel, Incomplete, None
VARIABLES half, gitTag, release, ref, pending, job, last, faults

TwoRuns == 1 .. 2

P == INSTANCE StablePromotion
         WITH Candidates <- {a}, Versions <- {v1}, Heads <- {h1}, Digests <- {sdk1, src1},
              VersionOf <- [c \in {a} |-> v1], HeadOf <- [c \in {a} |-> h1],
              SdkOf <- [c \in {a} |-> sdk1], SourceOf <- [c \in {a} |-> src1],
              waiting <- pending

promotion == <<gitTag, release, ref, pending, job, last, faults>>
releaseVars == <<half, requestVars, promotion>>

ReleaseInit == half \in {"request", "promotion"} /\ RequestInit /\ P!Init

ReleaseNext ==
    /\ UNCHANGED half
    /\ \/ half = "request" /\ RequestNext /\ UNCHANGED promotion
       \/ half = "promotion" /\ P!Next /\ UNCHANGED requestVars

\* The fairness of AttendedSpec, and that of the promotion's FairSpec.
ReleaseFairness ==
    /\ RequestFairness /\ Attention
    /\ WF_promotion(P!Start) /\ WF_promotion(P!JobStep)
    /\ WF_promotion(half = "promotion" /\ P!RequestPromotion(a))
    /\ WF_promotion(P!RepairDraft(v1))

ReleaseSpec == ReleaseInit /\ [][ReleaseNext]_releaseVars /\ ReleaseFairness

\* Every promotion that is interrupted can be taken up again and published
\* (StablePromotion.EventuallyReleased).
EventuallyReleased == P!EventuallyReleased
=============================================================================
