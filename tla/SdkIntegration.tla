--------------------------- MODULE SdkIntegration ---------------------------
(***************************************************************************)
(* The job that assembles the SDK from qualified Python rows.              *)
(*                                                                         *)
(* Rows the catalog lacks are qualified by processes of their own, two at  *)
(* a time, each started by a thread of a pool.  The first failure cancels  *)
(* the rows not yet started; those running are waited for.  The rows are   *)
(* then integrated on the same worker.  Source and builder may change      *)
(* meanwhile, and processes may die.  When the job fails, a later step     *)
(* saves what the rows have left behind.                                   *)
(***************************************************************************)
EXTENDS LocalExport, FiniteSets

CONSTANTS Parallelism,   \* threads of the pool
          MaxFaults      \* bound: failed steps, killed processes and changes

ASSUME SdkAssumption == Parallelism \in Nat \ {0} /\ MaxFaults \in Nat

VARIABLES
    main,         \* what ci_sdk.execute is doing
    resolution,   \* of each row, in the catalog
    future,       \* of each row, in the pool
    results,      \* rows whose result the main thread has taken
    worker,       \* what the process of a row is doing
    sound,        \* whether nothing has failed in it
    staged,       \* its payload and extracted files
    evidence,     \* what it has left outside them
    builtWith,    \* environment in which the row was built
    environment,  \* source, invocation and builder, counted by their changes
    integratedWith,
    snapshot,     \* of each row, by the step after a failure
    job,          \* the steps of the job
    faults

pool == <<future, results>>
row == <<worker, sound, staged, evidence, builtWith>>
after == <<snapshot, job>>
sdkVars == <<main, resolution, pool, row, environment, integratedWith, after, faults, exportVars>>

Alive == {"started", "build", "export", "preserve", "accept", "recheck"}

Missing == {r \in Rows : resolution[r] = "qualification-required"}
Unchanged == environment = 0
First(r, rows) == r \in rows /\ \A other \in rows : r <= other
Pending == {r \in Rows : future[r] = "pending"}
Running == {r \in Rows : future[r] = "running"}

SdkTypeOK ==
    /\ ExportTypeOK
    /\ main \in {"acquire", "pool", "cancel", "drain", "integrate", "integrating", "final",
                 "done", "failed"}
    /\ resolution \in [Rows -> {"unknown", "verified-qualified-row", "qualification-required",
                                "dependency-build-required"}]
    /\ future \in [Rows -> {"none", "pending", "running", "returned", "raised", "cancelled"}]
    /\ Cardinality(Running) <= Parallelism
    /\ results \subseteq Rows
    /\ worker \in [Rows -> Alive \cup {"none", "exited"}]
    /\ sound \in [Rows -> BOOLEAN]
    /\ staged \in [Rows -> {"none", "held", "discarded"}]
    /\ evidence \in [Rows -> SUBSET {"diagnostics", "result"}]
    /\ faults \in 0 .. MaxFaults
    /\ environment \in 0 .. faults /\ integratedWith \in 0 .. faults
    /\ builtWith \in [Rows -> 0 .. faults]
    /\ snapshot \in [Rows -> {"none", "absent", "copied", "partial"}]
    /\ job \in {"integration", "snapshot", "ended"}

SdkInit ==
    /\ ExportInit
    /\ main = "acquire"
    /\ resolution = [r \in Rows |-> "unknown"]
    /\ future = [r \in Rows |-> "none"] /\ results = {}
    /\ worker = [r \in Rows |-> "none"]
    /\ sound = [r \in Rows |-> TRUE]
    /\ staged = [r \in Rows |-> "none"]
    /\ evidence = [r \in Rows |-> {}]
    /\ builtWith = [r \in Rows |-> 0]
    /\ environment = 0 /\ integratedWith = 0
    /\ snapshot = [r \in Rows |-> "none"] /\ job = "integration"
    /\ faults = 0

Fault == faults < MaxFaults /\ faults' = faults + 1

-----------------------------------------------------------------------------
(* The main thread. *)

Goto(step) == main' = step

\* The catalog is read once.  A missing raw component is never compiled here.
Acquire ==
    /\ main = "acquire"
    /\ resolution' \in [Rows -> {"verified-qualified-row", "qualification-required",
                                 "dependency-build-required"}]
    /\ IF \E r \in Rows : resolution'[r] = "dependency-build-required"
       THEN Goto("failed") /\ UNCHANGED future
       ELSE /\ Goto("pool")
            /\ future' = [r \in Rows |-> IF resolution'[r] = "qualification-required"
                                         THEN "pending" ELSE "none"]
    /\ UNCHANGED <<results, row, environment, integratedWith, after, faults, exportVars>>

\* Mutant of Collect: the results of failed workers are not looked at.
BugCollect(r) ==
    /\ main = "pool" /\ r \in Missing \ results /\ future[r] \in {"returned", "raised"}
    /\ results' = results \cup {r}
    /\ UNCHANGED <<main, resolution, future, row, environment, integratedWith, after, faults, exportVars>>

Collect(r) ==
    /\ main = "pool" /\ r \in Missing \ results
    /\ \/ future[r] = "returned" /\ results' = results \cup {r} /\ UNCHANGED main
       \/ future[r] = "raised" /\ Goto("cancel") /\ UNCHANGED results
    /\ UNCHANGED <<resolution, future, row, environment, integratedWith, after, faults, exportVars>>

\* The thread is interrupted while it waits for rows.
Interrupt ==
    /\ main = "pool" /\ Missing \ results # {}
    /\ Goto("cancel") /\ Fault
    /\ UNCHANGED <<resolution, pool, row, environment, integratedWith, after, exportVars>>

\* Each future is cancelled in turn, while threads may still take one.
Cancel ==
    /\ main = "cancel"
    /\ IF Pending = {}
       THEN Goto("drain") /\ UNCHANGED future
       ELSE /\ \E r \in Pending : First(r, Pending) /\ future' = [future EXCEPT ![r] = "cancelled"]
            /\ UNCHANGED main
    /\ UNCHANGED <<resolution, results, row, environment, integratedWith, after, faults, exportVars>>

\* Mutant of Drain: the pool is left without waiting for its threads.
BugDrain ==
    /\ main = "drain"
    /\ Goto("failed")
    /\ UNCHANGED <<resolution, pool, row, environment, integratedWith, after, faults, exportVars>>

\* The pool is left when its threads have ended.
Drain ==
    /\ main = "drain" /\ Running = {}
    /\ Goto("failed")
    /\ UNCHANGED <<resolution, pool, row, environment, integratedWith, after, faults, exportVars>>

\* Every row has a result: the components of the integration are complete.
Assemble ==
    /\ main = "pool" /\ results = Missing
    /\ Goto(IF Unchanged THEN "integrate" ELSE "failed")
    /\ UNCHANGED <<resolution, pool, row, environment, integratedWith, after, faults, exportVars>>

\* python_sdk.execute verifies the rows again in the same environment, and runs
\* the integration.
Bind ==
    /\ main = "integrate"
    /\ \/ Goto(IF Unchanged THEN "integrating" ELSE "failed") /\ UNCHANGED faults
       \/ Goto("failed") /\ Fault
    /\ UNCHANGED <<resolution, pool, row, environment, integratedWith, after, exportVars>>

Integrate ==
    /\ main = "integrating"
    /\ integratedWith' = environment
    /\ \/ Goto("final") /\ UNCHANGED faults
       \/ Goto("failed") /\ Fault
    /\ UNCHANGED <<resolution, pool, row, environment, after, exportVars>>

\* The environment is compared again, and a catalog selection with its digest.
Conclude ==
    /\ main = "final"
    /\ Goto(IF Unchanged THEN "done" ELSE "failed")
    /\ UNCHANGED <<resolution, pool, row, environment, integratedWith, after, faults, exportVars>>

-----------------------------------------------------------------------------
(* The threads of the pool. *)

\* A thread takes the next row and starts its process.
Take(r) ==
    /\ First(r, Pending) /\ Cardinality(Running) < Parallelism
    /\ future' = [future EXCEPT ![r] = "running"]
    /\ worker' = [worker EXCEPT ![r] = "started"]
    /\ UNCHANGED <<main, resolution, results, sound, staged, evidence, builtWith,
                   environment, integratedWith, after, faults, exportVars>>

\* Mutant of Reap: the result is waited for, and not the process.
BugReap(r) ==
    /\ future[r] = "running" /\ "result" \in evidence[r] /\ worker[r] = "exited"
    /\ future' = [future EXCEPT ![r] = IF sound[r] THEN "returned" ELSE "raised"]
    /\ UNCHANGED <<main, resolution, results, row, environment, integratedWith, after, faults, exportVars>>

\* The process ends; a thread accepts its result only with its status.
Reap(r) ==
    /\ future[r] = "running" /\ worker[r] = "exited"
    /\ future' = [future EXCEPT ![r] = IF sound[r] THEN "returned" ELSE "raised"]
    /\ UNCHANGED <<main, resolution, results, row, environment, integratedWith, after, faults, exportVars>>

-----------------------------------------------------------------------------
(* The process of a row. *)

At(r, step) == worker[r] = step
WorkerGoto(r, step) == worker' = [worker EXCEPT ![r] = step]
Unsound(r) == sound' = [sound EXCEPT ![r] = FALSE]

\* ci_python_rows.unchanged before anything is written, and again at the end.
Recheck(r) ==
    /\ At(r, "started") \/ At(r, "recheck")
    /\ IF Unchanged
       THEN WorkerGoto(r, IF worker[r] = "started" THEN "build" ELSE "exited") /\ UNCHANGED sound
       ELSE WorkerGoto(r, "exited") /\ Unsound(r)
    /\ UNCHANGED <<main, resolution, pool, staged, evidence, builtWith,
                   environment, integratedWith, after, faults, exportVars>>

\* The gates of both targets run, and the environment is compared with the one
\* that was there before.
Build(r) ==
    /\ At(r, "build") /\ staged[r] = "none"
    /\ staged' = [staged EXCEPT ![r] = "held"]
    /\ builtWith' = [builtWith EXCEPT ![r] = environment]
    /\ UNCHANGED <<main, resolution, pool, worker, sound, evidence,
                   environment, integratedWith, after, faults, exportVars>>

Built(r) ==
    /\ At(r, "build") /\ staged[r] = "held"
    /\ \/ Unchanged /\ WorkerGoto(r, "export") /\ Start(r) /\ UNCHANGED <<sound, faults>>
       \/ /\ WorkerGoto(r, "preserve") /\ Unsound(r)
          /\ IF Unchanged THEN Fault ELSE UNCHANGED faults
          /\ UNCHANGED exportVars
    /\ UNCHANGED <<main, resolution, pool, staged, evidence, builtWith,
                   environment, integratedWith, after>>

Export(r) ==
    /\ At(r, "export") /\ CallerStep(r)
    /\ UNCHANGED <<main, resolution, pool, row, environment, integratedWith, after, faults>>

Transfer(r) ==
    /\ At(r, "export") /\ TransferStep(r)
    /\ UNCHANGED <<main, resolution, pool, row, environment, integratedWith, after, faults>>

\* What was extracted is compared with what was sealed.
Exported(r) ==
    /\ At(r, "export") /\ export[r] \in {"completed", "failed"}
    /\ WorkerGoto(r, "preserve")
    /\ \/ export[r] = "completed" /\ UNCHANGED <<sound, faults>>
       \/ Unsound(r) /\ IF export[r] = "completed" THEN Fault ELSE UNCHANGED faults
    /\ UNCHANGED <<main, resolution, pool, staged, evidence, builtWith,
                   environment, integratedWith, after, exportVars>>

\* Diagnostics are copied whether or not the row has succeeded; that may fail.
Preserve(r) ==
    /\ At(r, "preserve")
    /\ \/ /\ evidence' = [evidence EXCEPT ![r] = @ \cup {"diagnostics"}]
          /\ WorkerGoto(r, IF sound[r] THEN "accept" ELSE "exited")
          /\ UNCHANGED <<sound, faults>>
       \/ WorkerGoto(r, "exited") /\ Unsound(r) /\ Fault /\ UNCHANGED evidence
    /\ UNCHANGED <<main, resolution, pool, staged, builtWith,
                   environment, integratedWith, after, exportVars>>

\* The planned inputs, the receipt and the producer are compared; then the
\* staged files are discarded and the result is left for the pool.
Accept(r) ==
    /\ At(r, "accept")
    /\ \/ /\ WorkerGoto(r, "recheck")
          /\ staged' = [staged EXCEPT ![r] = "discarded"]
          /\ evidence' = [evidence EXCEPT ![r] = @ \cup {"result"}]
          /\ UNCHANGED <<sound, faults>>
       \/ WorkerGoto(r, "exited") /\ Unsound(r) /\ Fault /\ UNCHANGED <<staged, evidence>>
    /\ UNCHANGED <<main, resolution, pool, builtWith, environment, integratedWith, after, exportVars>>

OwnStep(r) ==
    \/ Recheck(r)
    \/ Build(r)
    \/ Built(r)
    \/ Export(r)
    \/ Exported(r)
    \/ Preserve(r)
    \/ Accept(r)

WorkerStep(r) == OwnStep(r) \/ Transfer(r)

\* A process is killed and leaves its transfer behind.
WorkerDies(r) ==
    /\ worker[r] \in Alive
    /\ WorkerGoto(r, "exited") /\ Unsound(r) /\ Fault
    /\ UNCHANGED <<main, resolution, pool, staged, evidence, builtWith,
                   environment, integratedWith, after, exportVars>>

-----------------------------------------------------------------------------
(* The job around them. *)

Change ==
    /\ job = "integration"
    /\ environment' = environment + 1 /\ Fault
    /\ UNCHANGED <<main, resolution, pool, row, integratedWith, after, exportVars>>

\* Mutant of EndIntegration: a failed job is not followed by a snapshot.
BugEndIntegration ==
    /\ job = "integration" /\ main \in {"done", "failed"}
    /\ job' = "ended"
    /\ UNCHANGED <<main, resolution, pool, row, environment, integratedWith, snapshot, faults, exportVars>>

EndIntegration ==
    /\ job = "integration" /\ main \in {"done", "failed"}
    /\ job' = IF main = "done" THEN "ended" ELSE "snapshot"
    /\ UNCHANGED <<main, resolution, pool, row, environment, integratedWith, snapshot, faults, exportVars>>

\* Files that change or cannot be read make a row's snapshot partial, and leave
\* the other rows alone.
Snapshot(r) ==
    /\ job = "snapshot"
    /\ First(r, {other \in Rows : snapshot[other] = "none"})
    /\ \/ /\ snapshot' = [snapshot EXCEPT ![r] = IF staged[r] = "none" THEN "absent" ELSE "copied"]
          /\ UNCHANGED faults
       \/ staged[r] # "none" /\ Fault /\ snapshot' = [snapshot EXCEPT ![r] = "partial"]
    /\ UNCHANGED <<main, resolution, pool, row, environment, integratedWith, job, exportVars>>

EndJob ==
    /\ job = "snapshot" /\ \A r \in Rows : snapshot[r] # "none"
    /\ job' = "ended"
    /\ UNCHANGED <<main, resolution, pool, row, environment, integratedWith, snapshot, faults, exportVars>>

MainStep ==
    \/ Acquire
    \/ \E r \in Rows : Collect(r)
    \/ Cancel
    \/ Drain
    \/ Assemble
    \/ Bind
    \/ Integrate
    \/ Conclude

JobStep ==
    \/ EndIntegration
    \/ \E r \in Rows : Snapshot(r)
    \/ EndJob

RowStep(r) ==
    \/ Take(r)
    \/ Reap(r)
    \/ WorkerStep(r)

SdkNext ==
    \/ MainStep
    \/ JobStep
    \/ \E r \in Rows : RowStep(r) \/ WorkerDies(r)
    \/ Interrupt
    \/ Change

SdkSpec == SdkInit /\ [][SdkNext]_sdkVars

\* Threads and workers are scheduled and builds end.  The processes of a transfer
\* need not end, nor do anything at all.
SdkFairSpec ==
    /\ SdkSpec
    /\ WF_sdkVars(MainStep) /\ WF_sdkVars(JobStep)
    /\ \A r \in Rows : WF_sdkVars(Take(r) \/ Reap(r) \/ OwnStep(r))

-----------------------------------------------------------------------------
\* The SDK is integrated only from rows of the catalog and rows whose process
\* has ended well, in the environment the job has started with, although rows
\* end in any order and the environment may change at any time.
IntegratedFromAllRows ==
    main = "done" =>
        /\ integratedWith = 0
        /\ \A r \in Rows :
            \/ resolution[r] = "verified-qualified-row"
            \/ /\ worker[r] = "exited" /\ sound[r] /\ builtWith[r] = 0
               /\ evidence[r] = {"diagnostics", "result"} /\ staged[r] = "discarded"

\* When the main process ends by itself no worker of a row is left, and none will
\* be started.  A transfer has a session of its own (local_export.py:81): one can
\* outlive its row, but only a row that has failed and not when the main process
\* has succeeded.
NoRowLeftRunning ==
    main \in {"done", "failed"} =>
        \A r \in Rows :
            /\ worker[r] \notin Alive /\ future[r] \notin {"pending", "running"}
            /\ (\E n \in 1 .. 2 : group[r][n] # {}) => main = "failed" /\ ~sound[r]

\* What a row has left behind is saved by its own process, by the snapshot, or
\* reported as partly saved, whichever of the processes has failed.
DiagnosticsSurvive ==
    job = "ended" =>
        \A r \in Rows : staged[r] # "none" =>
            "diagnostics" \in evidence[r] \/ snapshot[r] \in {"copied", "partial"}

\* The job ends: a row that fails, hangs in its transfer or is killed blocks
\* neither the pool nor the other rows.
EventuallyEnded == <>(job = "ended")
=============================================================================
