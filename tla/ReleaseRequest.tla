--------------------------- MODULE ReleaseRequest ---------------------------
(***************************************************************************)
(* The coordinator that turns tags of a commit into promotion requests.    *)
(*                                                                         *)
(* A pushed tag and the completion of a candidate run each start a         *)
(* workflow.  Both kinds share one concurrency group per commit: one       *)
(* workflow runs, one waits, and another that arrives takes the place of   *)
(* the one that waits.  What runs looks at the tags and at the newest      *)
(* candidate run, which change meanwhile, and asks for its promotion.      *)
(***************************************************************************)
EXTENDS WorkflowRuns

CONSTANTS Stable,       \* the one tag that names the commit's version
          Strays,       \* other tags v* of the commit
          MaxAttempts,  \* bound: attempts of a candidate run
          MaxSetbacks   \* bound: requests that die and runs that are repeated

ASSUME RequestAssumption ==
    /\ Stable \notin Strays
    /\ MaxAttempts \in Nat /\ MaxSetbacks \in Nat

Tags == Strays \cup {Stable}
NoEvent == <<>>
Event == [kind : {"push"}, tag : Tags]
            \cup [kind : {"completed"}, run : Runs, conclusion : {"success", "failure"}]

VARIABLES
    pushed,     \* tags that point at the commit
    waiting,    \* the event of the workflow that waits, or NoEvent
    event,      \* the event of the workflow that runs, or NoEvent
    phase,      \* how far it has come
    candidate,  \* run it has selected, 0 before
    requested,  \* promotions asked for: run and latest attempt at that time
    died,       \* events of the workflows that died
    replaced,   \* events of the workflows cancelled while they waited
    setbacks

request == <<waiting, event, phase, candidate>>
requestVars == <<status, attempt, pushed, request, requested, died, replaced, setbacks>>

RequestTypeOK ==
    /\ RunTypeOK
    /\ pushed \subseteq Tags
    /\ waiting \in Event \cup {NoEvent} /\ event \in Event \cup {NoEvent}
    /\ phase \in {"checkout", "validate", "select", "dispatch", "over"}
    /\ candidate \in Runs \cup {0}
    /\ requested \subseteq Runs \X Nat
    /\ died \subseteq Event /\ replaced \subseteq Event
    /\ setbacks \in 0 .. MaxSetbacks

RequestInit ==
    /\ RunInit
    /\ pushed = {} /\ waiting = NoEvent /\ event = NoEvent
    /\ phase = "checkout" /\ candidate = 0
    /\ requested = {} /\ died = {} /\ replaced = {} /\ setbacks = 0

-----------------------------------------------------------------------------
\* The job of the workflow is skipped for a run that did not succeed.
Skipped(e) == e.kind = "completed" /\ e.conclusion # "success"

\* Mutant of Join: a workflow that waits is kept, and one that arrives is lost.
BugJoin(e) ==
    /\ IF event = NoEvent THEN event' = e /\ UNCHANGED waiting
                          ELSE /\ waiting' = IF waiting = NoEvent THEN e ELSE waiting
                               /\ UNCHANGED event
    /\ replaced' = replaced \ {e}
    /\ UNCHANGED <<phase, candidate>>

\* A workflow starts when the group is free, and otherwise takes the place of
\* the one that waits, which GitHub cancels.  One whose job would be skipped is
\* not worth executing again and is forgotten.
Join(e) ==
    /\ IF event = NoEvent
         THEN /\ event' = e /\ replaced' = replaced \ {e}
              /\ UNCHANGED waiting
         ELSE /\ waiting' = e
              /\ replaced' = (replaced \ {e})
                                 \cup {w \in {waiting} \ {NoEvent} : ~Skipped(w)}
              /\ UNCHANGED event
    /\ UNCHANGED <<phase, candidate>>

Dispatched == {r \in Runs : status[r] # "none"}
Newest(r) == r \in Dispatched /\ \A other \in Dispatched : other <= r

PushTag(tag) ==
    /\ tag \notin pushed
    /\ pushed' = pushed \cup {tag}
    /\ Join([kind |-> "push", tag |-> tag])
    /\ UNCHANGED <<status, attempt, requested, died, setbacks>>

\* A run that starts, waits or is repeated does not tell the coordinator.
RunMoves(r) ==
    /\ \/ (DispatchRun(r) \/ StartRun(r)) /\ UNCHANGED setbacks
       \/ /\ RepeatRun(r) /\ attempt[r] < MaxAttempts
          /\ setbacks < MaxSetbacks /\ setbacks' = setbacks + 1
    /\ UNCHANGED <<pushed, request, requested, died, replaced>>

Complete(r, conclusion) ==
    /\ ConcludeRun(r, conclusion)
    /\ Join([kind |-> "completed", run |-> r, conclusion |-> conclusion])
    /\ UNCHANGED <<pushed, requested, died, setbacks>>

-----------------------------------------------------------------------------
\* The workflow ends, and the one that waits starts.
End ==
    /\ event' = waiting /\ waiting' = NoEvent
    /\ phase' = "checkout" /\ candidate' = 0

\* Mutant of Stables: the tags are not looked up.
BugStables(e) == IF e.kind = "push" THEN {e.tag} ELSE {}

\* A push asks for its own tag, a completion for the stable tags it finds.
Stables(e) == IF e.kind = "push" THEN {e.tag} ELSE pushed \cap {Stable}

Proceed(next) == phase' = next /\ UNCHANGED <<waiting, event>>

\* The tags are those of the checkout, and one that is not the version of the
\* commit fails the request.
Checkout ==
    /\ event # NoEvent /\ phase = "checkout"
    /\ IF ~Skipped(event) /\ Stables(event) = {Stable}
         THEN Proceed("validate") ELSE Proceed("over")
    /\ UNCHANGED candidate
    /\ UNCHANGED <<status, attempt, pushed, requested, died, replaced, setbacks>>

\* The run of a completion event must still be successful.
Validate ==
    /\ phase = "validate"
    /\ IF event.kind = "completed" => status[event.run] = "success"
         THEN Proceed("select") ELSE Proceed("over")
    /\ UNCHANGED candidate
    /\ UNCHANGED <<status, attempt, pushed, requested, died, replaced, setbacks>>

\* The newest run, unless it fails or is not completed.
Select ==
    /\ phase = "select"
    /\ IF \E r \in Runs : Newest(r) /\ status[r] = "success"
         THEN /\ \E r \in Runs : Newest(r) /\ candidate' = r
              /\ Proceed("dispatch")
         ELSE Proceed("over") /\ UNCHANGED candidate
    /\ UNCHANGED <<status, attempt, pushed, requested, died, replaced, setbacks>>

\* The promotion is asked for by the ID of the run; its attempt may be newer
\* than the one that was selected.
DispatchPromotion ==
    /\ phase = "dispatch"
    /\ requested' = requested \cup {<<candidate, attempt[candidate]>>}
    /\ Proceed("over")
    /\ UNCHANGED <<candidate, status, attempt, pushed, died, replaced, setbacks>>

\* What the workflow has read is old by the time it ends.
Over ==
    /\ phase = "over"
    /\ End
    /\ UNCHANGED <<status, attempt, pushed, requested, died, replaced, setbacks>>

\* The runner is lost or the API fails.
RequestDies ==
    /\ event # NoEvent /\ ~Skipped(event)
    /\ setbacks < MaxSetbacks /\ setbacks' = setbacks + 1
    /\ died' = died \cup {event}
    /\ End
    /\ UNCHANGED <<status, attempt, pushed, requested, replaced>>

\* A maintainer re-runs a workflow that died or was cancelled.
RerunRequest(e) ==
    /\ e \in died \cup replaced
    /\ died' = died \ {e}
    /\ Join(e)
    /\ UNCHANGED <<status, attempt, pushed, requested, setbacks>>

-----------------------------------------------------------------------------
RequestStep == Checkout \/ Validate \/ Select \/ DispatchPromotion \/ Over

RequestNext ==
    \/ \E tag \in Tags : PushTag(tag)
    \/ \E r \in Runs : \/ RunMoves(r)
                       \/ \E conclusion \in {"success", "failure"} : Complete(r, conclusion)
    \/ RequestStep
    \/ RequestDies
    \/ \E e \in died \cup replaced : RerunRequest(e)

RequestSpec == RequestInit /\ [][RequestNext]_requestVars

\* A runner executes what has started, and a workflow that died is executed
\* again.  Nothing is assumed of tags and candidate runs.
RequestFairness ==
    /\ WF_requestVars(RequestStep)
    /\ WF_requestVars(\E e \in died : RerunRequest(e))

RequestFairSpec == RequestSpec /\ RequestFairness

\* Beyond that, maintainers execute again what was cancelled while it waited.
Attention == WF_requestVars(\E e \in replaced : RerunRequest(e))

AttendedSpec == RequestFairSpec /\ Attention

-----------------------------------------------------------------------------
Releasable(r, a) ==
    Stable \in pushed /\ Newest(r) /\ status[r] = "success" /\ attempt[r] = a

\* The events that ask for the promotion of a run which is the newest one: the
\* push of the stable tag and the successful completion of that run.
WillAsk(e, r) ==
    \/ e = [kind |-> "push", tag |-> Stable]
    \/ e = [kind |-> "completed", run |-> r, conclusion |-> "success"]

\* A request is never lost without a trace: while the newest run has succeeded,
\* the tag exists and the promotion of its latest attempt is not asked for, some
\* workflow would ask for it.  It runs and has not selected an older run, or it
\* waits, or it died, or it was cancelled when another one took its place in the
\* group (release-request.yml:15) and is still there to be executed again.
NoRequestLost ==
    \A r \in Runs :
        Releasable(r, attempt[r]) /\ <<r, attempt[r]>> \notin requested =>
            \/ /\ event # NoEvent /\ WillAsk(event, r) /\ phase # "over"
               /\ phase = "dispatch" => candidate = r
            \/ waiting # NoEvent /\ WillAsk(waiting, r)
            \/ \E e \in died \cup replaced : WillAsk(e, r)

\* docs/github-actions.md: pushing a stable tag requests a formal release, and
\* the completion of a candidate that was still running resumes it.  Whenever
\* the newest run has succeeded and the tag exists, the promotion of that run is
\* asked for, unless it is repeated or followed by another one.  It takes more
\* than the docs say: RequestFairSpec violates it, AttendedSpec does not.
EventuallyRequested ==
    \A r \in Runs, a \in 1 .. MaxAttempts :
        Releasable(r, a) ~> (<<r, a>> \in requested \/ ~Releasable(r, a))
=============================================================================
