----------------------------- MODULE MainBuild -----------------------------
(***************************************************************************)
(* The required check of pushes to main.                                   *)
(*                                                                         *)
(* Each push starts a run.  Its quick job compares the commit with the one *)
(* that was the tip before, and selects the stages whose sources differ.   *)
(* The selected stages are built by a graph of jobs in which all others    *)
(* are skipped; gates compare the results of the jobs with the selection.  *)
(* The builds of all pushes belong to one concurrency group: the one that  *)
(* arrives cancels the one in progress.  A run that has failed is executed *)
(* again from the jobs that did not succeed.                               *)
(*                                                                         *)
(* A job of the model stands for all members of the code's job matrix, and *)
(* a path for all files that are treated alike.                            *)
(***************************************************************************)
EXTENDS Integers, FiniteSets

CONSTANTS MaxPushes,    \* bound: pushes after a commit that has been verified
          Changes,      \* for each push: the sets of paths that it may change
          MaxSetbacks   \* bound: jobs that fail by themselves, and runs repeated
                        \* that are not the newest or need not be

Pushes == 1 .. MaxPushes
Stages == {"inputs", "toolchains", "python", "vcpkg", "sdk", "gcc"}

\* Stages whose source closure contains a path, and stages whose execution a
\* path controls without being part of their sources.
Materials == [document |-> {}, license |-> {"sdk"}, control |-> {},
              policy |-> {"inputs"},
              compiler |-> {"toolchains", "python", "vcpkg", "sdk", "gcc"},
              cpython |-> {"python", "sdk"}, ports |-> {"vcpkg", "sdk"},
              consumer |-> {"sdk"}, baseline |-> {"gcc"},
              sdkController |-> {}, rowController |-> {}, executor |-> {}, unknown |-> {}]
Paths == DOMAIN Materials
Controlled == [path \in Paths |->
    CASE path = "sdkController" -> {"sdk"}
      [] path = "rowController" -> {"python"}
      [] path \in {"executor", "unknown"} -> Stages
      [] OTHER -> {}]
QuickOnly == {"document", "license"}

ASSUME MainAssumption ==
    /\ MaxPushes \in Nat /\ MaxSetbacks \in Nat
    /\ Changes \in [Pushes -> SUBSET SUBSET Paths]

\* The jobs of the run and of the two workflows it calls, with what they need.
\* A job that repeats the plan for the inner workflow belongs to `ready', and
\* the gates that ask for the results of whole workflows to `required'.
Needs == [quick |-> {}, plan |-> {"quick"}, toolchainParts |-> {"plan"},
          ready |-> {"plan", "toolchainParts"},
          inputs |-> {"ready"},
          toolchains |-> {"ready", "inputs"},
          pythonParts |-> {"ready", "inputs", "toolchains"},
          python |-> {"ready", "inputs", "toolchains", "pythonParts"},
          vcpkg |-> {"ready", "inputs", "toolchains"},
          gcc |-> {"ready", "inputs", "toolchains"},
          sdk |-> {"ready", "inputs", "toolchains", "pythonParts", "python", "vcpkg"},
          verified |-> {"ready", "pythonParts"} \cup Stages,
          required |-> {"quick", "verified"}]
Jobs == DOMAIN Needs
Called == Jobs \ {"quick", "required"}   \* by builds-components
Producers == {"toolchainParts", "pythonParts"}
Gates == {"ready", "verified", "required"}

VARIABLES
    pushes,      \* how many there have been
    change,      \* of each push: the paths in which it differs from the tip before
    result,      \* of each job of each run, or "none"
    selection,   \* stages that the quick job has selected
    producing,   \* producers that the selected graph asks for
    holder,      \* run whose builds are in progress, or 0
    setbacks

run == <<result, selection, producing, holder>>
mainVars == <<pushes, change, run, setbacks>>

NoResults == [job \in Jobs |-> "none"]

MainTypeOK ==
    /\ pushes \in 0 .. MaxPushes
    /\ change \in [Pushes -> SUBSET Paths]
    /\ result \in [Pushes -> [Jobs -> {"none", "success", "failure", "cancelled", "skipped"}]]
    /\ selection \in [Pushes -> SUBSET Stages]
    /\ producing \in [Pushes -> SUBSET Producers]
    /\ holder \in 0 .. pushes
    /\ setbacks \in 0 .. MaxSetbacks

MainInit ==
    /\ pushes = 0
    /\ change = [p \in Pushes |-> {}]
    /\ result = [p \in Pushes |-> NoResults]
    /\ selection = [p \in Pushes |-> {}]
    /\ producing = [p \in Pushes |-> {}]
    /\ holder = 0
    /\ setbacks = 0

Setback == setbacks < MaxSetbacks /\ setbacks' = setbacks + 1

Push ==
    /\ pushes < MaxPushes
    /\ pushes' = pushes + 1
    /\ \E paths \in Changes[pushes + 1] : change' = [change EXCEPT ![pushes + 1] = paths]
    /\ UNCHANGED <<run, setbacks>>

-----------------------------------------------------------------------------
(***************************************************************************)
(* Selection                                                               *)
(***************************************************************************)
Sources(paths) == UNION {Materials[path] : path \in paths}
Control(paths) == UNION {Controlled[path] : path \in paths}

\* Mutant of Select: a stage is selected by its sources alone.
BugSelect(paths, comparable) ==
    IF ~comparable THEN Stages ELSE IF paths \subseteq QuickOnly THEN {} ELSE Sources(paths)

\* Without a base, or an inventory of both commits, everything is selected.
\* Paths that only the quick job reads select nothing when they come alone.
\* Otherwise the closures of both commits are compared, and controllers add
\* the stages they execute; an unknown path may affect every stage.
Select(paths, comparable) ==
    IF ~comparable THEN Stages
    ELSE IF paths \subseteq QuickOnly THEN {}
    ELSE Sources(paths) \cup Control(paths)

\* The selected graph asks for raw components of the compilers, and for those
\* of Python rows at least if a row is selected and at most if a row or the
\* SDK is.
Requirements(selected) ==
    {needed \in SUBSET Producers :
        /\ "toolchainParts" \in needed <=> selected \ {"inputs"} # {}
        /\ "python" \in selected => "pythonParts" \in needed
        /\ "pythonParts" \in needed => selected \cap {"python", "sdk"} # {}}

-----------------------------------------------------------------------------
(***************************************************************************)
(* Jobs                                                                    *)
(***************************************************************************)
Is(r, job, outcome) == result[r][job] = outcome
Unfinished(r) == {job \in Called : Is(r, job, "none")}

\* Mutant of Expected: a job that nothing has asked for is to succeed, too.
BugExpected(r, job, asked) == Is(r, job, "success")

Expected(r, job, asked) == Is(r, job, IF asked THEN "success" ELSE "skipped")

\* `if' of a job: a stage is executed when it is selected and nothing it needs
\* has failed, although that may have been skipped; gates are always executed.
Runs(r, job) ==
    CASE job = "toolchainParts" -> Is(r, "plan", "success") /\ job \in producing[r]
      [] job = "verified" -> Is(r, "ready", "success")
      [] job \in Stages \cup {"pythonParts"} ->
            /\ Is(r, "ready", "success")
            /\ job \in selection[r] \cup producing[r]
            /\ \A need \in Needs[job] : result[r][need] \notin {"failure", "cancelled"}
      [] OTHER -> TRUE

\* What the called workflow reports.
BuildsResult(r) ==
    CASE \E job \in Called : Is(r, job, "failure") -> "failure"
      [] \E job \in Called : Is(r, job, "cancelled") -> "cancelled"
      [] \A job \in Called : Is(r, job, "skipped") -> "skipped"
      [] OTHER -> "success"

\* What a gate demands of the results: success of what was asked for, and that
\* nothing else was executed.
Accepts(r, gate) ==
    CASE gate = "ready" ->
            /\ Is(r, "plan", "success")
            /\ Expected(r, "toolchainParts", "toolchainParts" \in producing[r])
      [] gate = "verified" ->
            /\ Expected(r, "pythonParts", "pythonParts" \in producing[r])
            /\ \A s \in Stages : Expected(r, s, s \in selection[r])
      [] gate = "required" ->
            /\ Is(r, "quick", "success")
            /\ Is(r, "ready", "success") /\ Is(r, "verified", "success")
            /\ BuildsResult(r) = "success"
      [] OTHER -> TRUE

Eligible(r, job) ==
    /\ r <= pushes
    /\ Is(r, job, "none")
    /\ \A need \in Needs[job] : ~Is(r, need, "none")
    /\ job \in Called => holder = r

\* The group is left with the last job of the called workflow.
ConcludeAll(r, jobs, outcome) ==
    /\ result' = [result EXCEPT ![r] = [job \in Jobs |-> IF job \in jobs THEN outcome ELSE @[job]]]
    /\ holder' = IF holder = r /\ Unfinished(r) \subseteq jobs THEN 0 ELSE holder
    /\ UNCHANGED <<pushes, change>>

Conclude(r, job, outcome) == ConcludeAll(r, {job}, outcome)

\* Conditions are evaluated together, before a runner is asked for.
Skippable(r) == {job \in Jobs : Eligible(r, job) /\ ~Runs(r, job)}

Skip(r) ==
    /\ Skippable(r) # {}
    /\ ConcludeAll(r, Skippable(r), "skipped")
    /\ UNCHANGED <<selection, producing, setbacks>>

Quick(r) ==
    /\ Eligible(r, "quick")
    /\ Conclude(r, "quick", "success")
    /\ \E comparable \in BOOLEAN :
        selection' = [selection EXCEPT ![r] = Select(change[r], comparable)]
    /\ UNCHANGED <<producing, setbacks>>

Plan(r) ==
    /\ Eligible(r, "plan")
    /\ Conclude(r, "plan", "success")
    /\ \E needed \in Requirements(selection[r]) : producing' = [producing EXCEPT ![r] = needed]
    /\ UNCHANGED <<selection, setbacks>>

\* A producer, a stage or a gate.
Succeed(r, job) ==
    /\ job \notin {"quick", "plan"}
    /\ Eligible(r, job) /\ Runs(r, job) /\ Accepts(r, job)
    /\ Skippable(r) = {}
    /\ Conclude(r, job, "success")
    /\ UNCHANGED <<selection, producing, setbacks>>

Refuse(r, gate) ==
    /\ gate \in Gates
    /\ Eligible(r, gate) /\ Runs(r, gate) /\ ~Accepts(r, gate)
    /\ Conclude(r, gate, "failure")
    /\ UNCHANGED <<selection, producing, setbacks>>

Fail(r, job) ==
    /\ Eligible(r, job) /\ Runs(r, job)
    /\ Setback
    /\ Conclude(r, job, "failure")
    /\ UNCHANGED <<selection, producing>>

\* builds-components enters its group, whatever push it belongs to: the run
\* that holds the group loses the jobs it has not finished.
\* Gates that are executed although the workflow is cancelled cannot accept:
\* they are counted as cancelled.
Enter(r) ==
    /\ r <= pushes /\ holder # r
    /\ Is(r, "quick", "success") /\ Unfinished(r) # {}
    /\ holder' = r
    /\ result' = [p \in Pushes |-> [job \in Jobs |->
            IF p = holder /\ job \in Unfinished(p) THEN "cancelled" ELSE result[p][job]]]
    /\ UNCHANGED <<pushes, change, selection, producing, setbacks>>

\* After a quick job that has failed nothing is called.
Bypass(r) ==
    /\ Is(r, "quick", "failure") /\ Unfinished(r) # {}
    /\ result' = [result EXCEPT ![r] = [job \in Jobs |-> IF job \in Called THEN "skipped" ELSE @[job]]]
    /\ UNCHANGED <<pushes, change, selection, producing, holder, setbacks>>

-----------------------------------------------------------------------------
(***************************************************************************)
(* Repeated runs                                                           *)
(***************************************************************************)
Completed(r) == ~Is(r, "required", "none")
Newest(r) == r = pushes

\* Jobs that have failed or were cancelled, and all that need them.
Again(r) ==
    LET again[job \in Jobs] ==
            \/ result[r][job] \in {"failure", "cancelled"}
            \/ \E need \in Needs[job] : again[need]
    IN  {job \in Jobs : again[job]}

Repeat(r, jobs) ==
    /\ result' = [result EXCEPT ![r] = [job \in Jobs |-> IF job \in jobs THEN "none" ELSE @[job]]]
    /\ UNCHANGED <<pushes, change, selection, producing, holder>>

RerunFailed(r) ==
    /\ r <= pushes /\ Completed(r) /\ ~Is(r, "required", "success")
    /\ IF Newest(r) THEN UNCHANGED setbacks ELSE Setback
    /\ Repeat(r, Again(r))

RerunAll(r) ==
    /\ r <= pushes /\ Completed(r)
    /\ Setback
    /\ Repeat(r, Jobs)

-----------------------------------------------------------------------------
JobStep(r) ==
    \/ Quick(r)
    \/ Plan(r)
    \/ Skip(r)
    \/ \E job \in Jobs : Succeed(r, job) \/ Refuse(r, job)
    \/ Bypass(r)

MainNext ==
    \/ Push
    \/ \E r \in Pushes :
        \/ JobStep(r)
        \/ Enter(r)
        \/ \E job \in Jobs : Fail(r, job)
        \/ RerunFailed(r)
        \/ RerunAll(r)

MainSpec == MainInit /\ [][MainNext]_mainVars

\* Runners take jobs, groups are entered, and the newest run is repeated until
\* it succeeds.  That the system as a whole goes on is all that is assumed:
\* nothing about one run in particular.
Progress ==
    \E r \in Pushes : JobStep(r) \/ Enter(r) \/ (Newest(r) /\ RerunFailed(r))

MainFairSpec == MainSpec /\ WF_mainVars(Progress)

-----------------------------------------------------------------------------
(***************************************************************************)
(* Properties                                                              *)
(***************************************************************************)
Green(r) == Is(r, "required", "success")

\* Stages whose outcome a push may change, as far as it is not by paths that
\* only the quick job reads.
Affected(r) ==
    IF change[r] \subseteq QuickOnly THEN {} ELSE Sources(change[r]) \cup Control(change[r])

\* A tip whose required check, and those of the pushes before it, have
\* succeeded is verified as a whole, although each run has built a part only:
\* every stage has passed at a commit that contains the last change to it.
GreenChainVerified ==
    \A p \in 1 .. pushes :
        (\A q \in 1 .. p : Green(q)) =>
            \A q \in 1 .. p : \A s \in Affected(q) : \E v \in q .. p : Is(v, s, "success")

\* The newest push gets its required check, through failures, cancellations by
\* builds of older pushes that arrive late, and repeated runs.
EventuallyRequired ==
    \A p \in Pushes : pushes = p ~> (Green(p) \/ pushes > p)
=============================================================================
