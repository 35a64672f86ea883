---------------------------- MODULE WorkflowRuns ----------------------------
(***************************************************************************)
(* The runs of a workflow whose concurrency group admits one run at a time *)
(* and one that waits, without cancelling the one in progress: the runs of *)
(* candidate.yml for one commit, as release-request.py sees them.          *)
(***************************************************************************)
EXTENDS Integers

CONSTANT Runs   \* run IDs, in the order of their dispatch

ASSUME RunsAssumption == Runs \subseteq Nat

VARIABLES status,   \* of each run
          attempt   \* its latest attempt, 0 before it is dispatched

RunTypeOK ==
    /\ status \in [Runs -> {"none", "queued", "running", "success", "failure"}]
    /\ attempt \in [Runs -> Nat]

RunInit ==
    /\ status = [r \in Runs |-> "none"]
    /\ attempt = [r \in Runs |-> 0]

Completed(r) == status[r] \in {"success", "failure"}

\* One run waits at a time: to let another one wait is to cancel it first.
Queue(r) ==
    /\ \A other \in Runs : status[other] # "queued"
    /\ status' = [status EXCEPT ![r] = "queued"]
    /\ attempt' = [attempt EXCEPT ![r] = @ + 1]

DispatchRun(r) ==
    /\ status[r] = "none"
    /\ \A other \in Runs : other < r => status[other] # "none"
    /\ Queue(r)

StartRun(r) ==
    /\ status[r] = "queued"
    /\ \A other \in Runs : status[other] # "running"
    /\ status' = [status EXCEPT ![r] = "running"]
    /\ UNCHANGED attempt

\* A completed run is executed again, in whole or in part.
RepeatRun(r) == Completed(r) /\ Queue(r)

\* A run that waits can only be cancelled.
ConcludeRun(r, outcome) ==
    /\ status[r] = "running" \/ (status[r] = "queued" /\ outcome = "failure")
    /\ status' = [status EXCEPT ![r] = outcome]
    /\ UNCHANGED attempt
=============================================================================
