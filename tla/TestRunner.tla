----------------------------- MODULE TestRunner -----------------------------
(***************************************************************************)
(* The configuration tests, run by worker processes in parallel.           *)
(*                                                                         *)
(* A first process discovers the tests.  Their modules are divided among   *)
(* workers, which are started one by one, polled until the last has ended  *)
(* or a common deadline has passed, and always stopped with whatever they  *)
(* have left in their process groups.  The run passes when every worker    *)
(* has accounted for its tests and no source file has changed.  A signal   *)
(* may interrupt the run at any point before its result is written.        *)
(***************************************************************************)
EXTENDS Integers, FiniteSets

CONSTANTS Modules,        \* test modules, as numbers in the order of their names
          Hints,          \* timings a module may have
          WorkerCount,    \* workers asked for
          MaxInterrupts   \* bound: signals

ASSUME TestAssumption ==
    /\ Modules \subseteq Nat /\ Modules # {} /\ IsFiniteSet(Modules) /\ Hints \subseteq Nat \ {0}
    /\ WorkerCount \in 1 .. 4 /\ MaxInterrupts \in Nat

VARIABLES
    main,        \* what the run is doing
    planned,     \* whether the modules have been divided
    plan,        \* the modules of each process
    workers,     \* the processes that execute has recorded
    pending,     \* those it has not seen end
    leader,      \* of each process group: the interpreter, or its exit status
    children,    \* whether other processes of the group live
    report,      \* what the worker has written
    accounted,   \* modules it has executed, or skipped with a reason
    edited,      \* whether a source file has changed
    failing,     \* whether an exception is on its way
    status,      \* of the result document
    abandoned,   \* whether a signal has come while a process was not recorded
                 \* yet, or while processes were being stopped
    interrupts

processes == <<leader, children, report, accounted>>
testVars == <<main, planned, plan, workers, pending, processes, edited, failing,
              status, abandoned, interrupts>>

Discovery == 0
Processes == Discovery .. WorkerCount

TestTypeOK ==
    /\ main \in {"start", "record", "poll", "stop", "judge", "written"}
    /\ planned \in BOOLEAN
    /\ plan \in [Processes -> SUBSET Modules]
    /\ pending \subseteq workers /\ workers \subseteq Processes
    /\ leader \in [Processes -> {"none", "running", "zero", "nonzero"}]
    /\ children \in [Processes -> BOOLEAN]
    /\ report \in [Processes -> {"none", "passed", "failed"}]
    /\ accounted \in [Processes -> SUBSET Modules]
    /\ edited \in BOOLEAN /\ failing \in BOOLEAN /\ abandoned \in BOOLEAN
    /\ status \in {"none", "passed", "failed"}
    /\ interrupts \in 0 .. MaxInterrupts

TestInit ==
    /\ main = "start" /\ planned = FALSE
    /\ plan = [p \in Processes |-> {}]
    /\ workers = {} /\ pending = {}
    /\ leader = [p \in Processes |-> "none"]
    /\ children = [p \in Processes |-> FALSE]
    /\ report = [p \in Processes |-> "none"]
    /\ accounted = [p \in Processes |-> {}]
    /\ edited = FALSE /\ failing = FALSE
    /\ status = "none"
    /\ abandoned = FALSE /\ interrupts = 0

-----------------------------------------------------------------------------
(* How the modules are divided. *)

\* The heaviest module goes first, to the first of the lightest groups.
Heavier(hints, a, b) == hints[a] > hints[b] \/ (hints[a] = hints[b] /\ a < b)

Smaller(a, b) == IF a < b THEN a ELSE b
Groups == 1 .. Smaller(WorkerCount, Cardinality(Modules))

Lightest(weight) ==
    CHOOSE g \in Groups : \A other \in Groups :
        weight[g] < weight[other] \/ (weight[g] = weight[other] /\ g <= other)

Heaviest(hints, some) ==
    CHOOSE m \in some : \A other \in some \ {m} : Heavier(hints, m, other)

Undivided == [left |-> Modules, modules |-> [p \in Processes |-> {}], weight |-> [g \in Groups |-> 0]]

Assign(hints, groups) ==
    LET m == Heaviest(hints, groups.left)
        g == Lightest(groups.weight)
    IN  [left    |-> groups.left \ {m},
         modules |-> [groups.modules EXCEPT ![g] = @ \cup {m}],
         weight  |-> [groups.weight EXCEPT ![g] = @ + hints[m]]]

Partition(hints) ==
    LET after[n \in 0 .. Cardinality(Modules)] ==
            IF n = 0 THEN Undivided ELSE Assign(hints, after[n - 1])
    IN  after[Cardinality(Modules)].modules

Commands == IF planned THEN Groups ELSE {Discovery}

-----------------------------------------------------------------------------
(* execute, for the discovery and for the workers. *)

Goto(step) == main' = step

\* The next process is started; that may fail.
Start ==
    /\ main = "start" /\ Commands \ workers # {}
    /\ \/ LET p == CHOOSE p \in Commands \ workers : \A q \in Commands \ workers : p <= q
          IN  leader' = [leader EXCEPT ![p] = "running"] /\ Goto("record") /\ UNCHANGED failing
       \/ Goto("stop") /\ failing' = TRUE /\ UNCHANGED leader
    /\ UNCHANGED <<planned, plan, workers, pending, children, report, accounted, edited,
                   status, abandoned, interrupts>>

Record ==
    /\ main = "record"
    /\ LET started == {p \in Commands : leader[p] # "none"}
       IN  workers' = started /\ pending' = started
    /\ Goto("start")
    /\ UNCHANGED <<planned, plan, processes, edited, failing, status, abandoned, interrupts>>

AllStarted ==
    /\ main = "start" /\ workers = Commands
    /\ Goto("poll")
    /\ UNCHANGED <<planned, plan, workers, pending, processes, edited, failing, status,
                   abandoned, interrupts>>

Poll ==
    /\ main = "poll" /\ pending # {}
    /\ \E p \in pending : leader[p] # "running" /\ pending' = pending \ {p}
    /\ UNCHANGED <<main, planned, plan, workers, processes, edited, failing, status,
                   abandoned, interrupts>>

AllEnded ==
    /\ main = "poll" /\ pending = {}
    /\ Goto("stop")
    /\ UNCHANGED <<planned, plan, workers, pending, processes, edited, failing, status,
                   abandoned, interrupts>>

\* Mutant of Overdue: the deadline is compared only when a process has ended.
BugOverdue ==
    /\ main = "poll" /\ pending # {} /\ pending # workers
    /\ Goto("stop") /\ failing' = TRUE
    /\ UNCHANGED <<planned, plan, workers, pending, processes, edited, status,
                   abandoned, interrupts>>

\* The deadline has passed.
Overdue ==
    /\ main = "poll" /\ pending # {}
    /\ Goto("stop") /\ failing' = TRUE
    /\ UNCHANGED <<planned, plan, workers, pending, processes, edited, status,
                   abandoned, interrupts>>

Terminated(p) ==
    /\ leader' = [leader EXCEPT ![p] = IF @ = "running" THEN "nonzero" ELSE @]
    /\ children' = [children EXCEPT ![p] = FALSE]

\* Mutant of Stop: processes that have been seen to end are left alone.
BugStop ==
    /\ main = "stop" /\ workers # {}
    /\ \E p \in workers :
        /\ \A q \in workers : p <= q
        /\ IF p \in pending THEN Terminated(p) ELSE UNCHANGED <<leader, children>>
        /\ workers' = workers \ {p} /\ pending' = pending \ {p}
    /\ UNCHANGED <<main, planned, plan, report, accounted, edited, failing, status,
                   abandoned, interrupts>>

\* The process groups are terminated in turn, then killed and waited for.
Stop ==
    /\ main = "stop" /\ workers # {}
    /\ \E p \in workers :
        /\ \A q \in workers : p <= q
        /\ Terminated(p)
        /\ workers' = workers \ {p} /\ pending' = pending \ {p}
    /\ UNCHANGED <<main, planned, plan, report, accounted, edited, failing, status,
                   abandoned, interrupts>>

-----------------------------------------------------------------------------
(* run. *)

\* The discovery has succeeded: its modules are divided among the workers.
Divide ==
    /\ main = "stop" /\ workers = {} /\ ~planned
    /\ IF ~failing /\ leader[Discovery] = "zero" /\ report[Discovery] = "passed"
       THEN /\ \E hints \in [Modules -> Hints] : plan' = Partition(hints)
            /\ planned' = TRUE
            /\ Goto("start")
            /\ UNCHANGED status
       ELSE /\ Goto("written") /\ status' = "failed"
            /\ UNCHANGED <<plan, planned>>
    /\ UNCHANGED <<workers, pending, processes, edited, failing, abandoned, interrupts>>

Gather ==
    /\ main = "stop" /\ workers = {} /\ planned
    /\ Goto("judge")
    /\ UNCHANGED <<planned, plan, workers, pending, processes, edited, failing, status,
                   abandoned, interrupts>>

\* Mutant of Passed: a worker passes by its exit status.
BugPassed(p) == leader[p] = "zero"

\* The exit status, the report and the coverage of a worker agree.
Passed(p) ==
    leader[p] = "zero" /\ report[p] = "passed" /\ accounted[p] = plan[p]

Judge ==
    /\ main = "judge"
    /\ status' = IF ~failing /\ ~edited /\ \A p \in Groups : Passed(p) THEN "passed" ELSE "failed"
    /\ Goto("written")
    /\ UNCHANGED <<planned, plan, workers, pending, processes, edited, failing, abandoned, interrupts>>

MainStep ==
    \/ Start
    \/ Record
    \/ AllStarted
    \/ Poll
    \/ AllEnded
    \/ Overdue
    \/ Stop
    \/ Divide
    \/ Gather
    \/ Judge

\* A signal raises an exception: what is recorded will be stopped, and the
\* result written.  While processes are stopped it ends their stopping, with
\* or without the one at hand.
Interrupt ==
    /\ main # "written" /\ interrupts < MaxInterrupts
    /\ interrupts' = interrupts + 1
    /\ failing' = TRUE
    /\ \/ /\ main \in {"start", "record", "poll"}
          /\ Goto("stop")
          /\ abandoned' = (abandoned \/ main = "record")
          /\ UNCHANGED <<leader, children, workers, pending>>
       \/ /\ main = "stop" /\ workers # {}
          /\ abandoned' = TRUE
          /\ \/ UNCHANGED <<leader, children>>
             \/ \E p \in workers : (\A q \in workers : p <= q) /\ Terminated(p)
          /\ workers' = {} /\ pending' = {}
          /\ UNCHANGED main
       \/ /\ main = "judge"
          /\ UNCHANGED <<main, abandoned, leader, children, workers, pending>>
    /\ UNCHANGED <<planned, plan, report, accounted, edited, status>>

-----------------------------------------------------------------------------
(* The processes. *)

\* One module's tests are executed, or skipped by a fixture.
Account(p) ==
    /\ leader[p] = "running"
    /\ \E m \in plan[p] \ accounted[p] : accounted' = [accounted EXCEPT ![p] = @ \cup {m}]
    /\ UNCHANGED <<main, planned, plan, workers, pending, leader, children, report, edited,
                   failing, status, abandoned, interrupts>>

\* A worker reports success only of all its tests; it may end in any way
\* before or after its report.
End(p) ==
    /\ leader[p] = "running"
    /\ \E said \in {"none", "passed", "failed"}, code \in {"zero", "nonzero"} :
        /\ said = "passed" => accounted[p] = plan[p]
        /\ said = "failed" => code = "nonzero"
        /\ leader' = [leader EXCEPT ![p] = code]
        /\ report' = [report EXCEPT ![p] = said]
    /\ UNCHANGED <<main, planned, plan, workers, pending, children, accounted, edited,
                   failing, status, abandoned, interrupts>>

Spawn(p) ==
    /\ leader[p] = "running" /\ ~children[p]
    /\ children' = [children EXCEPT ![p] = TRUE]
    /\ UNCHANGED <<main, planned, plan, workers, pending, leader, report, accounted, edited,
                   failing, status, abandoned, interrupts>>

\* A test, or anybody else, changes a source file.
Edit ==
    /\ main # "written"
    /\ ~edited /\ edited' = TRUE
    /\ UNCHANGED <<main, planned, plan, workers, pending, processes, failing, status,
                   abandoned, interrupts>>

TestNext ==
    \/ MainStep
    \/ Interrupt
    \/ \E p \in Processes : Account(p) \/ End(p) \/ Spawn(p)
    \/ Edit

TestSpec == TestInit /\ [][TestNext]_testVars

\* The run is scheduled and its clock advances; its processes promise nothing.
TestFairSpec == TestSpec /\ WF_testVars(MainStep)

-----------------------------------------------------------------------------
\* A run passes only when every module was accounted for by one worker, however
\* the timings have divided them and the workers have ended, and only when the
\* source is the one that was tested.
PassedMeansComplete ==
    status = "passed" =>
        /\ ~edited
        /\ \A m \in Modules : \E p \in Processes :
            m \in accounted[p] /\ \A q \in Processes \ {p} : m \notin accounted[q]

\* No process is left when the result is written, and none of the discovery
\* when the tests begin, after failures, timeouts and interruptions, but for
\* the signals that come in the two windows of `abandoned'.
NoSurvivor ==
    ~abandoned =>
        \A p \in Processes :
            main = "written" \/ (planned /\ p = Discovery) => leader[p] # "running" /\ ~children[p]

\* The result is written: neither a worker that hangs nor a child that stays
\* can hold up the run.
EventuallyWritten == <>(main = "written")
=============================================================================
