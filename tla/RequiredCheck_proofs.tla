------------------------- MODULE RequiredCheck_proofs -------------------------
(***************************************************************************)
(* What a green Required check rests on.  MainBuild: a push whose Required *)
(* check is green has built, and verified, all that the push affects.      *)
(* TestRunner: the quick job of that push runs the tests, and passes only  *)
(* when every module of the checkout has run in exactly one process and    *)
(* none of them failed; the runner leaves no process behind.               *)
(***************************************************************************)
EXTENDS MainBuild, TestRunner, FiniteSetTheorems, WellFoundedInduction, TLAPS


-----------------------------------------------------------------------------
(***************************************************************************)
(* The inductive invariant                                                 *)
(***************************************************************************)
\* A job has a result only after the push, and after the jobs that it needs.
InOrder(r) ==
    \A job \in Jobs : ~Is(r, job, "none") =>
        /\ r <= pushes
        /\ \A need \in Needs[job] : ~Is(r, need, "none")

SelectsAffected(r) == Is(r, "quick", "success") => Affected(r) \subseteq selection[r]

VerifiesSelected(r) ==
    Is(r, "verified", "success") => \A s \in selection[r] : Is(r, s, "success")

RequiresVerified(r) ==
    Is(r, "required", "success") => Is(r, "quick", "success") /\ Is(r, "verified", "success")

PushInv(r) == InOrder(r) /\ SelectsAffected(r) /\ VerifiesSelected(r) /\ RequiresVerified(r)

\* The run that holds the group has something left to do in it.
HolderBusy == holder # 0 => Is(holder, "quick", "success") /\ Unfinished(holder) # {}

MainInv == MainTypeOK /\ HolderBusy /\ \A r \in Pushes : PushInv(r)

Outcomes == {"none", "success", "failure", "cancelled", "skipped"}

-----------------------------------------------------------------------------
(***************************************************************************)
(* The graph of jobs                                                       *)
(***************************************************************************)
LEMMA Graph ==
    /\ Jobs = {"quick", "plan", "toolchainParts", "ready", "inputs", "toolchains", "pythonParts",
               "python", "vcpkg", "gcc", "sdk", "verified", "required"}
    /\ Needs["quick"] = {} /\ Needs["plan"] = {"quick"} /\ Needs["toolchainParts"] = {"plan"}
    /\ Needs["ready"] = {"plan", "toolchainParts"}
    /\ Needs["inputs"] = {"ready"} /\ Needs["toolchains"] = {"ready", "inputs"}
    /\ Needs["pythonParts"] = {"ready", "inputs", "toolchains"}
    /\ Needs["python"] = {"ready", "inputs", "toolchains", "pythonParts"}
    /\ Needs["vcpkg"] = {"ready", "inputs", "toolchains"}
    /\ Needs["gcc"] = {"ready", "inputs", "toolchains"}
    /\ Needs["sdk"] = {"ready", "inputs", "toolchains", "pythonParts", "python", "vcpkg"}
    /\ Needs["verified"] = {"ready", "pythonParts", "inputs", "toolchains", "python", "vcpkg", "sdk", "gcc"}
    /\ Needs["required"] = {"quick", "verified"}
BY DEF Jobs, Needs, Stages

LEMMA NeedsAreJobs ==
    /\ \A job \in Jobs : Needs[job] \subseteq Jobs
    /\ \A job \in Called : Needs[job] \subseteq Called \cup {"quick"}
    /\ \A job \in Jobs : job # "quick" => Needs[job] # {}
    /\ Called \subseteq Jobs /\ Stages \subseteq Called /\ Stages \subseteq Needs["verified"]
    /\ {"quick", "plan", "verified", "required"} \subseteq Jobs
    /\ "quick" \notin Called /\ "required" \notin Called /\ "verified" \in Called
<1>1. \A job \in Jobs : Needs[job] \subseteq Jobs
  BY Graph
<1>2. \A job \in Called : Needs[job] \subseteq Called \cup {"quick"}
  BY Graph DEF Called
<1>3. \A job \in Jobs : job # "quick" => Needs[job] # {}
  BY Graph
<1>. QED BY <1>1, <1>2, <1>3, Graph DEF Called, Stages

\* Nothing has a result before the quick job, and the required gate has one
\* after everything else.
LEMMA FirstAndLast ==
    ASSUME NEW r, InOrder(r)
    PROVE  /\ Is(r, "quick", "none") => \A job \in Jobs : Is(r, job, "none")
           /\ ~Is(r, "required", "none") => Unfinished(r) = {}
<1>. DEFINE got(job) == ~Is(r, job, "none")
<1>1. \A job \in Jobs : got(job) => \A need \in Needs[job] : got(need)
  BY DEF InOrder
<1>. HIDE DEF got
<1>2. \A job \in Jobs : got(job) => got("quick")
  BY <1>1, Graph
<1>3. got("required") => \A job \in Called : got(job)
  BY <1>1, Graph DEF Called
<1>. QED BY <1>2, <1>3 DEF got, Unfinished

-----------------------------------------------------------------------------
(***************************************************************************)
(* Jobs that come to an end                                                *)
(***************************************************************************)
\* A run that an action leaves alone keeps its invariant.
LEMMA OtherRuns ==
    ASSUME NEW q \in Pushes, PushInv(q), pushes \in Nat, pushes' \in Nat, pushes' >= pushes,
           UNCHANGED <<change[q], result[q], selection[q]>>
    PROVE  PushInv(q)'
<1>1. \A job \in Jobs, outcome \in Outcomes : Is(q, job, outcome)' <=> Is(q, job, outcome)
  BY DEF Is
<1>2. Affected(q)' = Affected(q)
  BY DEF Affected
<1>3. InOrder(q)'
  <2>. SUFFICES ASSUME NEW job \in Jobs, ~Is(q, job, "none")'
                PROVE  q <= pushes' /\ \A need \in Needs[job] : ~Is(q, need, "none")'
    BY DEF InOrder
  <2>1. ~Is(q, job, "none")
    BY DEF Is
  <2>2. q <= pushes /\ \A need \in Needs[job] : ~Is(q, need, "none")
    BY <2>1 DEF PushInv, InOrder
  <2>. QED BY <2>2 DEF Is, Pushes
<1>4. SelectsAffected(q)' /\ VerifiesSelected(q)' /\ RequiresVerified(q)'
  BY <1>2 DEF PushInv, SelectsAffected, VerifiesSelected, RequiresVerified, Is
<1>. QED BY <1>3, <1>4 DEF PushInv

\* Jobs conclude of which each is eligible.  A success of the quick job comes with
\* a selection, one of a gate with the results it demands.
LEMMA ConcludeKeeps ==
    ASSUME MainInv, NEW r \in Pushes, NEW jobs \in SUBSET Jobs, NEW outcome \in Outcomes \ {"none"},
           \A job \in jobs : Eligible(r, job),
           ConcludeAll(r, jobs, outcome),
           selection' \in [Pushes -> SUBSET Stages], producing' \in [Pushes -> SUBSET Producers],
           setbacks' \in 0 .. MaxSetbacks,
           \A q \in Pushes : q # r \/ "quick" \notin jobs => selection'[q] = selection[q],
           outcome = "success" /\ "quick" \in jobs => Affected(r) \subseteq selection'[r],
           outcome = "success" /\ "verified" \in jobs => \A s \in selection[r] : Is(r, s, "success"),
           outcome = "success" /\ "required" \in jobs => Is(r, "quick", "success") /\ Is(r, "verified", "success")
    PROVE  MainInv'
<1>1. /\ result \in [Pushes -> [Jobs -> Outcomes]] /\ pushes \in Nat /\ holder \in 0 .. pushes
      /\ pushes' = pushes /\ change' = change
      /\ result' = [result EXCEPT ![r] = [job \in Jobs |-> IF job \in jobs THEN outcome ELSE @[job]]]
  BY DEF MainInv, MainTypeOK, ConcludeAll, Outcomes
<1>2. /\ \A job \in Jobs : result'[r][job] = IF job \in jobs THEN outcome ELSE result[r][job]
      /\ \A q \in Pushes : q # r => result'[q] = result[q]
  BY <1>1
<1>3. result' \in [Pushes -> [Jobs -> Outcomes]]
  BY <1>1
<1>4. holder' = IF holder = r /\ Unfinished(r) \subseteq jobs THEN 0 ELSE holder
  BY DEF ConcludeAll
<1>5. MainTypeOK'
  BY <1>1, <1>3, <1>4 DEF MainInv, MainTypeOK, Outcomes
<1>6. PushInv(r) /\ \A job \in jobs : r <= pushes /\ Is(r, job, "none") /\ \A need \in Needs[job] : ~Is(r, need, "none")
  BY DEF MainInv, Eligible
<1>7. "quick" \in jobs => jobs = {"quick"} /\ \A job \in Jobs : Is(r, job, "none")
  <2>. SUFFICES ASSUME "quick" \in jobs
                PROVE  jobs = {"quick"} /\ \A job \in Jobs : Is(r, job, "none")
    OBVIOUS
  <2>1. \A job \in Jobs : Is(r, job, "none")
    BY <1>6, FirstAndLast DEF PushInv
  <2>2. \A job \in jobs : job = "quick"
    BY <1>6, <2>1, NeedsAreJobs
  <2>. QED BY <2>1, <2>2
<1>8. InOrder(r)'
  <2>. SUFFICES ASSUME NEW job \in Jobs, result'[r][job] # "none"
                PROVE  r <= pushes /\ \A need \in Needs[job] : result'[r][need] # "none"
    BY <1>1 DEF InOrder, Is
  <2>1. r <= pushes /\ \A need \in Needs[job] : result[r][need] # "none"
    BY <1>2, <1>6 DEF PushInv, InOrder, Is
  <2>2. \A need \in Needs[job] : need \in Jobs
    BY NeedsAreJobs
  <2>. QED BY <1>2, <2>1, <2>2
<1>9. SelectsAffected(r)'
  <2>. SUFFICES ASSUME result'[r]["quick"] = "success" PROVE Affected(r) \subseteq selection'[r]
    BY <1>1 DEF SelectsAffected, Is, Affected
  <2>1. CASE "quick" \in jobs
    BY <1>2, <2>1, NeedsAreJobs
  <2>2. CASE "quick" \notin jobs
    BY <1>2, <1>6, <2>2, NeedsAreJobs DEF PushInv, SelectsAffected, Is
  <2>. QED BY <2>1, <2>2
<1>10. VerifiesSelected(r)'
  <2>. SUFFICES ASSUME result'[r]["verified"] = "success", NEW s \in selection'[r]
                PROVE  result'[r][s] = "success"
    BY DEF VerifiesSelected, Is
  <2>1. "quick" \notin jobs
    BY <1>2, <1>7, NeedsAreJobs DEF Is
  <2>2. s \in selection[r] /\ s \in Jobs
    BY <2>1, NeedsAreJobs
  <2>3. result[r][s] = "success"
    BY <1>2, <1>6, <2>2, NeedsAreJobs DEF PushInv, VerifiesSelected, Is
  <2>4. s \notin jobs
    BY <1>6, <2>3 DEF Is
  <2>. QED BY <1>2, <2>2, <2>3, <2>4
<1>11. RequiresVerified(r)'
  <2>. SUFFICES ASSUME result'[r]["required"] = "success"
                PROVE  result'[r]["quick"] = "success" /\ result'[r]["verified"] = "success"
    BY DEF RequiresVerified, Is
  <2>1. result[r]["quick"] = "success" /\ result[r]["verified"] = "success"
    BY <1>2, <1>6, NeedsAreJobs DEF PushInv, RequiresVerified, Is
  <2>2. "quick" \notin jobs /\ "verified" \notin jobs
    BY <1>6, <2>1 DEF Is
  <2>. QED BY <1>2, <2>1, <2>2, NeedsAreJobs
<1>12. ASSUME NEW q \in Pushes PROVE PushInv(q)'
  <2>1. CASE q = r
    BY <1>8, <1>9, <1>10, <1>11, <2>1 DEF PushInv
  <2>2. CASE q # r
    BY <1>1, <1>2, <2>2, OtherRuns DEF MainInv
  <2>. QED BY <2>1, <2>2
<1>13. HolderBusy'
  <2>. SUFFICES ASSUME holder' # 0
                PROVE  /\ result'[holder']["quick"] = "success"
                       /\ \E job \in Called : result'[holder'][job] = "none"
    BY DEF HolderBusy, Unfinished, Is
  <2>1. /\ holder' = holder /\ holder # 0 /\ Is(holder, "quick", "success") /\ Unfinished(holder) # {}
        /\ (holder = r => ~(Unfinished(r) \subseteq jobs))
    BY <1>4 DEF MainInv, HolderBusy
  <2>2. holder \in Pushes
    BY <1>1, <2>1, MainAssumption DEF MainInv, MainTypeOK, Pushes
  <2>3. CASE holder # r
    BY <1>2, <2>1, <2>2, <2>3 DEF Is, Unfinished
  <2>4. CASE holder = r
    <3>1. "quick" \notin jobs
      BY <1>6, <2>1, <2>4 DEF Is
    <3>2. result'[r]["quick"] = "success"
      BY <1>2, <2>1, <2>4, <3>1, NeedsAreJobs DEF Is
    <3>3. PICK job \in Called : result[r][job] = "none" /\ job \notin jobs
      BY <2>1, <2>4 DEF Unfinished, Is
    <3>4. result'[r][job] = "none"
      BY <1>2, <3>3, NeedsAreJobs
    <3>. QED BY <2>1, <2>4, <3>2, <3>4
  <2>. QED BY <2>3, <2>4
<1>. QED BY <1>5, <1>12, <1>13 DEF MainInv
LEMMA SkipStep ==
    ASSUME MainInv, NEW r \in Pushes, Skip(r)
    PROVE  MainInv'
<1>1. /\ Skippable(r) \in SUBSET Jobs /\ \A job \in Skippable(r) : Eligible(r, job)
      /\ "skipped" \in Outcomes \ {"none"} /\ "skipped" # "success"
  BY DEF Skippable, Outcomes
<1>2. /\ ConcludeAll(r, Skippable(r), "skipped")
      /\ selection' = selection /\ producing' = producing /\ setbacks' = setbacks
  BY DEF Skip
<1>3. /\ selection \in [Pushes -> SUBSET Stages] /\ producing \in [Pushes -> SUBSET Producers]
      /\ setbacks \in 0 .. MaxSetbacks
  BY DEF MainInv, MainTypeOK
<1>. QED BY <1>1, <1>2, <1>3, ConcludeKeeps

\* Whatever is compared, the selection has the stages that the push affects.
LEMMA SelectsEnough ==
    ASSUME MainInv, NEW r \in Pushes, NEW comparable \in BOOLEAN
    PROVE  Affected(r) \subseteq Select(change[r], comparable) /\ Select(change[r], comparable) \subseteq Stages
<1>1. change[r] \subseteq Paths
  BY DEF MainInv, MainTypeOK
<1>2. \A path \in Paths : Materials[path] \subseteq Stages /\ Controlled[path] \subseteq Stages
  <2>1. \A path \in Paths : Materials[path] \subseteq Stages
    BY DEF Paths, Materials, Stages
  <2>2. \A path \in Paths : Controlled[path] \subseteq Stages
    BY DEF Controlled, Stages
  <2>. QED BY <2>1, <2>2
<1>3. Sources(change[r]) \cup Control(change[r]) \subseteq Stages
  BY <1>1, <1>2 DEF Sources, Control
<1>. QED BY <1>3 DEF Affected, Select

LEMMA QuickStep ==
    ASSUME MainInv, NEW r \in Pushes, Quick(r)
    PROVE  MainInv'
<1>1. PICK comparable \in BOOLEAN : selection' = [selection EXCEPT ![r] = Select(change[r], comparable)]
  BY DEF Quick
<1>2. /\ {"quick"} \in SUBSET Jobs /\ \A job \in {"quick"} : Eligible(r, job)
      /\ "success" \in Outcomes \ {"none"} /\ "verified" \notin {"quick"} /\ "required" \notin {"quick"}
  BY NeedsAreJobs DEF Outcomes, Quick
<1>3. ConcludeAll(r, {"quick"}, "success")  /\ producing' = producing /\ setbacks' = setbacks
  BY DEF Quick, Conclude
<1>4. /\ selection \in [Pushes -> SUBSET Stages] /\ producing \in [Pushes -> SUBSET Producers]
      /\ setbacks \in 0 .. MaxSetbacks
  BY DEF MainInv, MainTypeOK
<1>5. /\ selection' \in [Pushes -> SUBSET Stages] /\ Affected(r) \subseteq selection'[r]
      /\ \A q \in Pushes : q # r => selection'[q] = selection[q]
  BY <1>1, <1>4, SelectsEnough
<1>. QED BY <1>2, <1>3, <1>4, <1>5, ConcludeKeeps

\* Jobs that conclude without a selection.
LEMMA OneConcludes ==
    ASSUME MainInv, NEW r \in Pushes, NEW job \in Jobs, NEW outcome \in Outcomes \ {"none"},
           Eligible(r, job), Conclude(r, job, outcome), selection' = selection,
           producing' \in [Pushes -> SUBSET Producers], setbacks' \in 0 .. MaxSetbacks,
           outcome = "success" => job # "quick",
           outcome = "success" /\ job = "verified" => \A s \in selection[r] : Is(r, s, "success"),
           outcome = "success" /\ job = "required" => Is(r, "quick", "success") /\ Is(r, "verified", "success")
    PROVE  MainInv'
<1>1. {job} \in SUBSET Jobs /\ \A j \in {job} : Eligible(r, j)
  OBVIOUS
<1>2. ConcludeAll(r, {job}, outcome)
  BY DEF Conclude
<1>3. selection' \in [Pushes -> SUBSET Stages]
  BY DEF MainInv, MainTypeOK
<1>. QED BY <1>1, <1>2, <1>3, ConcludeKeeps

LEMMA PlanStep ==
    ASSUME MainInv, NEW r \in Pushes, Plan(r)
    PROVE  MainInv'
<1>1. PICK needed \in Requirements(selection[r]) : producing' = [producing EXCEPT ![r] = needed]
  BY DEF Plan
<1>2. producing' \in [Pushes -> SUBSET Producers] /\ setbacks' \in 0 .. MaxSetbacks
  BY <1>1 DEF MainInv, MainTypeOK, Requirements, Plan
<1>3. "plan" \in Jobs /\ "success" \in Outcomes \ {"none"}
  BY NeedsAreJobs DEF Outcomes
<1>. QED BY <1>2, <1>3, OneConcludes DEF Plan

LEMMA SucceedStep ==
    ASSUME MainInv, NEW r \in Pushes, NEW job \in Jobs, Succeed(r, job)
    PROVE  MainInv'
<1>1. producing' \in [Pushes -> SUBSET Producers] /\ setbacks' \in 0 .. MaxSetbacks /\ selection' = selection
  BY DEF MainInv, MainTypeOK, Succeed
<1>2. ASSUME job = "verified", NEW s \in selection[r] PROVE Is(r, s, "success")
  <2>1. s \in Stages
    BY DEF MainInv, MainTypeOK
  <2>2. Expected(r, s, TRUE)
    BY <1>2, <2>1 DEF Succeed, Accepts, Expected
  <2>. QED BY <2>2 DEF Expected
<1>3. job = "required" => Is(r, "quick", "success") /\ Is(r, "verified", "success")
  BY DEF Succeed, Accepts
<1>4. /\ job # "quick" /\ Eligible(r, job) /\ Conclude(r, job, "success")
      /\ "success" \in Outcomes \ {"none"}
  BY DEF Succeed, Outcomes
<1>. QED BY <1>1, <1>2, <1>3, <1>4, OneConcludes

LEMMA RefuseStep ==
    ASSUME MainInv, NEW r \in Pushes, NEW job \in Jobs, Refuse(r, job) \/ Fail(r, job)
    PROVE  MainInv'
<1>1. /\ Eligible(r, job) /\ Conclude(r, job, "failure") /\ selection' = selection /\ producing' = producing
      /\ setbacks' = setbacks \/ (setbacks < MaxSetbacks /\ setbacks' = setbacks + 1)
  BY DEF Refuse, Fail, Setback
<1>2. producing' \in [Pushes -> SUBSET Producers] /\ setbacks' \in 0 .. MaxSetbacks
  BY <1>1, MainAssumption DEF MainInv, MainTypeOK
<1>3. "failure" \in Outcomes \ {"none"}
  BY DEF Outcomes
<1>. QED BY <1>1, <1>2, <1>3, OneConcludes

-----------------------------------------------------------------------------
(***************************************************************************)
(* Runs that are cancelled, bypassed and repeated                          *)
(***************************************************************************)
LEMMA EnterStep ==
    ASSUME MainInv, NEW r \in Pushes, Enter(r)
    PROVE  MainInv'
<1>1. /\ result \in [Pushes -> [Jobs -> Outcomes]] /\ pushes \in Nat /\ pushes \in 0 .. MaxPushes
      /\ pushes' = pushes /\ change' = change /\ selection' = selection /\ holder \in 0 .. pushes
      /\ holder' = r /\ r # holder /\ r \in 1 .. pushes /\ MainTypeOK
  BY MainAssumption DEF MainInv, MainTypeOK, Enter, Outcomes, Pushes
<1>2. result' = [p \in Pushes |-> [job \in Jobs |->
            IF p = holder /\ job \in Unfinished(p) THEN "cancelled" ELSE result[p][job]]]
  BY DEF Enter
<1>3. MainTypeOK'
  BY <1>1, <1>2 DEF MainTypeOK, Enter, Outcomes
<1>4. ASSUME NEW q \in Pushes PROVE PushInv(q)'
  <2>1. CASE q # holder
    <3>1. result'[q] = [job \in Jobs |-> result[q][job]]
      BY <1>2, <2>1
    <3>2. result'[q] = result[q]
      BY <1>1, <3>1
    <3>3. PushInv(q) /\ pushes' \in Nat /\ pushes' >= pushes
      BY <1>1 DEF MainInv
    <3>4. UNCHANGED <<change[q], result[q], selection[q]>>
      BY <1>1, <3>2
    <3>. QED BY <1>1, <3>3, <3>4, OtherRuns
  <2>2. CASE q = holder
    <3>1. \A job \in Jobs : result'[q][job] = IF job \in Called /\ result[q][job] = "none" THEN "cancelled"
                                              ELSE result[q][job]
      BY <1>2, <2>2, NeedsAreJobs DEF Unfinished, Is
    <3>2. result[q]["quick"] = "success" /\ q \in 1 .. pushes /\ PushInv(q)
      BY <1>1, <2>2 DEF MainInv, HolderBusy, Is, Pushes
    <3>3. \A job \in Called \cup {"quick"} : result'[q][job] # "none"
      BY <3>1, <3>2, NeedsAreJobs
    <3>4. InOrder(q)'
      <4>. SUFFICES ASSUME NEW job \in Jobs, result'[q][job] # "none"
                    PROVE  q <= pushes /\ \A need \in Needs[job] : result'[q][need] # "none"
        BY <1>1 DEF InOrder, Is
      <4>1. CASE job \in Called
        BY <1>1, <3>2, <3>3, <4>1, NeedsAreJobs
      <4>2. CASE job \notin Called
        <5>1. result[q][job] # "none"
          BY <3>1, <4>2
        <5>2. \A need \in Needs[job] : need \in Jobs /\ result[q][need] # "none"
          BY <3>2, <5>1, NeedsAreJobs DEF PushInv, InOrder, Is
        <5>. QED BY <1>1, <3>1, <3>2, <5>2
      <4>. QED BY <4>1, <4>2
    <3>5. SelectsAffected(q)'
      BY <1>1, <3>2 DEF PushInv, SelectsAffected, Affected, Is
    <3>6. \A job \in Jobs : result'[q][job] = "success" <=> result[q][job] = "success"
      BY <3>1
    <3>7. selection[q] \subseteq Jobs
      BY <1>1, NeedsAreJobs DEF MainTypeOK
    <3>8. VerifiesSelected(q)' /\ RequiresVerified(q)'
      BY <1>1, <3>2, <3>6, <3>7, NeedsAreJobs DEF PushInv, VerifiesSelected, RequiresVerified, Is
    <3>. QED BY <3>4, <3>5, <3>8 DEF PushInv
  <2>. QED BY <2>1, <2>2
<1>5. HolderBusy'
  <2>1. \A job \in Jobs : result'[r][job] = result[r][job]
    BY <1>1, <1>2
  <2>2. result[r]["quick"] = "success" /\ \E job \in Called : result[r][job] = "none"
    BY DEF Enter, Unfinished, Is
  <2>. QED BY <1>1, <2>1, <2>2, NeedsAreJobs DEF HolderBusy, Unfinished, Is
<1>. QED BY <1>3, <1>4, <1>5 DEF MainInv
LEMMA BypassStep ==
    ASSUME MainInv, NEW r \in Pushes, Bypass(r)
    PROVE  MainInv'
<1>1. /\ result \in [Pushes -> [Jobs -> Outcomes]] /\ pushes \in Nat /\ pushes \in 0 .. MaxPushes
      /\ pushes' = pushes /\ change' = change /\ selection' = selection /\ holder \in 0 .. pushes
      /\ holder' = holder /\ MainTypeOK /\ PushInv(r)
      /\ result[r]["quick"] = "failure"
  BY MainAssumption DEF MainInv, MainTypeOK, Bypass, Outcomes, Is
<1>2. result' = [result EXCEPT ![r] = [job \in Jobs |-> IF job \in Called THEN "skipped" ELSE @[job]]]
  BY DEF Bypass
<1>3. MainTypeOK'
  BY <1>1, <1>2 DEF MainTypeOK, Bypass, Outcomes
<1>4. /\ \A job \in Jobs : result'[r][job] = IF job \in Called THEN "skipped" ELSE result[r][job]
      /\ \A q \in Pushes : q # r => result'[q] = result[q]
  BY <1>1, <1>2
<1>5. r <= pushes
  BY <1>1, NeedsAreJobs DEF PushInv, InOrder, Is
<1>6. InOrder(r)'
  <2>. SUFFICES ASSUME NEW job \in Jobs, result'[r][job] # "none"
                PROVE  \A need \in Needs[job] : result'[r][need] # "none"
    BY <1>1, <1>5 DEF InOrder, Is
  <2>. SUFFICES ASSUME NEW need \in Needs[job] PROVE result'[r][need] # "none"
    OBVIOUS
  <2>1. need \in Jobs
    BY NeedsAreJobs
  <2>2. CASE job \in Called
    BY <1>1, <1>4, <2>1, <2>2, NeedsAreJobs
  <2>3. CASE job \notin Called
    BY <1>1, <1>4, <2>1, <2>3 DEF PushInv, InOrder, Is
  <2>. QED BY <2>2, <2>3
<1>7. result'[r]["quick"] = "failure" /\ result'[r]["verified"] = "skipped" /\ result'[r]["required"] # "success"
  BY <1>1, <1>4, NeedsAreJobs DEF PushInv, RequiresVerified, Is
<1>8. PushInv(r)'
  BY <1>1, <1>6, <1>7 DEF PushInv, SelectsAffected, VerifiesSelected, RequiresVerified, Is
<1>9. ASSUME NEW q \in Pushes PROVE PushInv(q)'
  <2>1. CASE q = r
    BY <1>8, <2>1
  <2>2. CASE q # r
    <3>1. PushInv(q) /\ pushes' \in Nat /\ pushes' >= pushes
      BY <1>1 DEF MainInv
    <3>2. UNCHANGED <<change[q], result[q], selection[q]>>
      BY <1>1, <1>4, <2>2
    <3>. QED BY <1>1, <3>1, <3>2, OtherRuns
  <2>. QED BY <2>1, <2>2
<1>10. HolderBusy'
  <2>. SUFFICES ASSUME holder # 0
                PROVE  result'[holder]["quick"] = "success" /\ \E job \in Called : result'[holder][job] = "none"
    BY <1>1 DEF HolderBusy, Unfinished, Is
  <2>1. result[holder]["quick"] = "success" /\ \E job \in Called : result[holder][job] = "none"
    BY DEF MainInv, HolderBusy, Unfinished, Is
  <2>2. holder # r /\ holder \in Pushes
    BY <1>1, <2>1, MainAssumption DEF Pushes
  <2>. QED BY <1>4, <2>1, <2>2
<1>. QED BY <1>3, <1>9, <1>10 DEF MainInv

\* Jobs whose result is withdrawn, with all that need them, when a run that has
\* completed is repeated.
LEMMA RepeatKeeps ==
    ASSUME MainInv, NEW r \in Pushes, r <= pushes, Completed(r), NEW jobs \in SUBSET Jobs,
           \A job \in Jobs : (\E need \in Needs[job] : need \in jobs) => job \in jobs,
           Repeat(r, jobs), setbacks' \in 0 .. MaxSetbacks
    PROVE  MainInv'
<1>1. /\ result \in [Pushes -> [Jobs -> Outcomes]] /\ pushes \in Nat /\ pushes \in 0 .. MaxPushes
      /\ pushes' = pushes /\ change' = change /\ selection' = selection /\ holder \in 0 .. pushes
      /\ holder' = holder /\ MainTypeOK /\ PushInv(r)
  BY MainAssumption DEF MainInv, MainTypeOK, Repeat, Outcomes
<1>2. result' = [result EXCEPT ![r] = [job \in Jobs |-> IF job \in jobs THEN "none" ELSE @[job]]]
  BY DEF Repeat
<1>3. MainTypeOK'
  BY <1>1, <1>2 DEF MainTypeOK, Repeat, Outcomes
<1>4. /\ \A job \in Jobs : result'[r][job] = IF job \in jobs THEN "none" ELSE result[r][job]
      /\ \A q \in Pushes : q # r => result'[q] = result[q]
  BY <1>1, <1>2
<1>5. Unfinished(r) = {}
  BY <1>1, FirstAndLast DEF Completed, PushInv
<1>6. InOrder(r)'
  <2>. SUFFICES ASSUME NEW job \in Jobs, result'[r][job] # "none", NEW need \in Needs[job]
                PROVE  result'[r][need] # "none"
    BY <1>1 DEF InOrder, Is
  <2>1. need \in Jobs /\ job \notin jobs /\ result[r][job] # "none"
    BY <1>4, NeedsAreJobs
  <2>2. result[r][need] # "none" /\ need \notin jobs
    BY <1>1, <2>1 DEF PushInv, InOrder, Is
  <2>. QED BY <1>4, <2>1, <2>2
<1>7. SelectsAffected(r)'
  BY <1>1, <1>4, NeedsAreJobs DEF PushInv, SelectsAffected, Affected, Is
<1>8. VerifiesSelected(r)'
  <2>. SUFFICES ASSUME result'[r]["verified"] = "success", NEW s \in selection[r]
                PROVE  result'[r][s] = "success"
    BY <1>1 DEF VerifiesSelected, Is
  <2>1. "verified" \notin jobs /\ result[r]["verified"] = "success"
    BY <1>4, NeedsAreJobs
  <2>2. s \in Jobs /\ s \in Needs["verified"]
    BY <1>1, NeedsAreJobs DEF MainTypeOK
  <2>3. s \notin jobs /\ result[r][s] = "success"
    BY <1>1, <2>1, <2>2, NeedsAreJobs DEF PushInv, VerifiesSelected, Is
  <2>. QED BY <1>4, <2>2, <2>3
<1>9. RequiresVerified(r)'
  <2>. SUFFICES ASSUME result'[r]["required"] = "success"
                PROVE  result'[r]["quick"] = "success" /\ result'[r]["verified"] = "success"
    BY DEF RequiresVerified, Is
  <2>1. "required" \notin jobs /\ result[r]["required"] = "success"
    BY <1>4, NeedsAreJobs
  <2>2. "quick" \notin jobs /\ "verified" \notin jobs
    BY <2>1, Graph, NeedsAreJobs
  <2>. QED BY <1>1, <1>4, <2>1, <2>2, NeedsAreJobs DEF PushInv, RequiresVerified, Is
<1>10. ASSUME NEW q \in Pushes PROVE PushInv(q)'
  <2>1. CASE q = r
    BY <1>6, <1>7, <1>8, <1>9, <2>1 DEF PushInv
  <2>2. CASE q # r
    <3>1. PushInv(q) /\ pushes' \in Nat /\ pushes' >= pushes
      BY <1>1 DEF MainInv
    <3>2. UNCHANGED <<change[q], result[q], selection[q]>>
      BY <1>1, <1>4, <2>2
    <3>. QED BY <1>1, <3>1, <3>2, OtherRuns
  <2>. QED BY <2>1, <2>2
<1>11. HolderBusy'
  <2>. SUFFICES ASSUME holder # 0
                PROVE  result'[holder]["quick"] = "success" /\ \E job \in Called : result'[holder][job] = "none"
    BY <1>1 DEF HolderBusy, Unfinished, Is
  <2>1. result[holder]["quick"] = "success" /\ \E job \in Called : result[holder][job] = "none"
    BY DEF MainInv, HolderBusy, Unfinished, Is
  <2>2. holder # r /\ holder \in Pushes
    BY <1>1, <1>5, <2>1, MainAssumption DEF Pushes, Unfinished, Is
  <2>. QED BY <1>4, <2>1, <2>2
<1>. QED BY <1>3, <1>10, <1>11 DEF MainInv
\* Each job with everything it needs, directly or not.
UpToReady == {"quick", "plan", "toolchainParts", "ready"}
UpToToolchains == UpToReady \cup {"inputs", "toolchains"}
Behind == [quick |-> {"quick"}, plan |-> {"quick", "plan"},
           toolchainParts |-> {"quick", "plan", "toolchainParts"}, ready |-> UpToReady,
           inputs |-> UpToReady \cup {"inputs"}, toolchains |-> UpToToolchains,
           pythonParts |-> UpToToolchains \cup {"pythonParts"},
           python |-> UpToToolchains \cup {"pythonParts", "python"},
           vcpkg |-> UpToToolchains \cup {"vcpkg"}, gcc |-> UpToToolchains \cup {"gcc"},
           sdk |-> UpToToolchains \cup {"pythonParts", "python", "vcpkg", "sdk"},
           verified |-> Jobs \ {"required"}, required |-> Jobs]

LEMMA BehindNeeds ==
    ASSUME NEW job \in Jobs
    PROVE  /\ \A need \in Needs[job] : Behind[need] \subseteq Behind[job]
           /\ \A j \in Behind[job] : j = job \/ \E need \in Needs[job] : j \in Behind[need]
           /\ job \in Behind[job]
<1>1. \A j \in Behind[job] : j = job \/ \E need \in Needs[job] : j \in Behind[need]
  BY Graph DEF Behind, UpToReady, UpToToolchains
<1>2. \A need \in Needs[job] : Behind[need] \subseteq Behind[job]
  BY Graph DEF Behind, UpToReady, UpToToolchains
<1>3. job \in Behind[job]
  BY Graph DEF Behind, UpToReady, UpToToolchains
<1>. QED BY <1>1, <1>2, <1>3

\* What is repeated has no result left of a job that needs it.
LEMMA AgainClosed ==
    ASSUME NEW r
    PROVE  /\ Again(r) \in SUBSET Jobs
           /\ \A job \in Jobs : (\E need \in Needs[job] : need \in Again(r)) => job \in Again(r)
<1>. DEFINE bad(job) == result[r][job] \in {"failure", "cancelled"}
            Recurs(w) == w = [job \in Jobs |-> bad(job) \/ \E need \in Needs[job] : w[need]]
            v == [job \in Jobs |-> \E j \in Behind[job] : bad(j)]
            again == CHOOSE w : Recurs(w)
<1>1. Recurs(v)
  <2>. HIDE DEF bad
  <2>1. ASSUME NEW job \in Jobs
        PROVE  (\E j \in Behind[job] : bad(j)) <=> (bad(job) \/ \E need \in Needs[job] : v[need])
    <3>1. \A need \in Needs[job] : v[need] <=> \E j \in Behind[need] : bad(j)
      BY NeedsAreJobs, Zenon
    <3>. HIDE DEF v
    <3>. QED BY <3>1, BehindNeeds, Zenon
  <2>. QED BY <2>1, Zenon
<1>2. Recurs(again)
  BY <1>1, Zenon
<1>3. Again(r) = {job \in Jobs : again[job]}
  BY DEF Again
<1>. HIDE DEF again, bad
<1>4. \A job \in Jobs : (\E need \in Needs[job] : again[need]) => again[job]
  BY <1>2, Zenon
<1>. QED BY <1>3, <1>4, NeedsAreJobs, Zenon

LEMMA RerunStep ==
    ASSUME MainInv, NEW r \in Pushes, RerunFailed(r) \/ RerunAll(r)
    PROVE  MainInv'
<1>1. setbacks' \in 0 .. MaxSetbacks /\ r <= pushes /\ Completed(r)
  BY MainAssumption DEF MainInv, MainTypeOK, RerunFailed, RerunAll, Setback
<1>2. CASE RerunFailed(r)
  BY <1>1, <1>2, AgainClosed, RepeatKeeps DEF RerunFailed
<1>3. CASE RerunAll(r)
  BY <1>1, <1>3, RepeatKeeps DEF RerunAll
<1>. QED BY <1>2, <1>3

LEMMA PushStep ==
    ASSUME MainInv, Push
    PROVE  MainInv'
<1>1. /\ pushes \in Nat /\ pushes < MaxPushes /\ pushes' = pushes + 1 /\ pushes + 1 \in Pushes
      /\ UNCHANGED <<result, selection, producing, holder, setbacks>>
      /\ change \in [Pushes -> SUBSET Paths] /\ MainTypeOK
  BY MainAssumption DEF MainInv, MainTypeOK, Push, Pushes, run
<1>2. PICK paths \in Changes[pushes + 1] : change' = [change EXCEPT ![pushes + 1] = paths]
  BY DEF Push
<1>3. paths \subseteq Paths
  BY <1>1, MainAssumption
<1>4. change' \in [Pushes -> SUBSET Paths]
  BY <1>1, <1>2, <1>3
<1>5. MainTypeOK'
  BY <1>1, <1>4, MainAssumption DEF MainTypeOK
<1>6. ASSUME NEW q \in Pushes PROVE PushInv(q)'
  <2>1. CASE q = pushes + 1
    <3>1. \A job \in Jobs : result[q][job] = "none"
      <4>1. ~(q <= pushes)
        BY <1>1, <2>1
      <4>. QED BY <4>1 DEF MainInv, PushInv, InOrder, Is
    <3>. QED BY <1>1, <3>1, NeedsAreJobs DEF PushInv, InOrder, SelectsAffected, VerifiesSelected, RequiresVerified, Is
  <2>2. CASE q # pushes + 1
    <3>1. PushInv(q) /\ pushes' \in Nat /\ pushes' >= pushes
      BY <1>1 DEF MainInv
    <3>2. UNCHANGED <<change[q], result[q], selection[q]>>
      BY <1>1, <1>2, <2>2
    <3>. QED BY <1>1, <3>1, <3>2, OtherRuns
  <2>. QED BY <2>1, <2>2
<1>7. HolderBusy'
  BY <1>1 DEF MainInv, HolderBusy, Unfinished, Is
<1>. QED BY <1>5, <1>6, <1>7 DEF MainInv

\* Runs start without results, and every step keeps the invariant.
THEOREM MainInvariant == MainSpec => []MainInv
<1>1. MainInit => MainInv
  <2>. SUFFICES ASSUME MainInit PROVE MainInv
    OBVIOUS
  <2>1. \A r \in Pushes, job \in Jobs : result[r][job] = "none"
    BY DEF MainInit, NoResults
  <2>2. MainTypeOK
    BY MainAssumption DEF MainInit, MainTypeOK, NoResults
  <2>3. ASSUME NEW r \in Pushes PROVE PushInv(r)
    BY <2>1, NeedsAreJobs DEF PushInv, InOrder, SelectsAffected, VerifiesSelected, RequiresVerified, Is
  <2>4. HolderBusy
    BY DEF MainInit, HolderBusy
  <2>. QED BY <2>2, <2>3, <2>4 DEF MainInv
<1>2. MainInv /\ [MainNext]_mainVars => MainInv'
  <2>. SUFFICES ASSUME MainInv, [MainNext]_mainVars PROVE MainInv'
    OBVIOUS
  <2>1. CASE Push
    BY <2>1, PushStep
  <2>2. ASSUME NEW r \in Pushes, JobStep(r) PROVE MainInv'
    BY <2>2, QuickStep, PlanStep, SkipStep, SucceedStep, RefuseStep, BypassStep DEF JobStep
  <2>3. ASSUME NEW r \in Pushes, NEW job \in Jobs, Fail(r, job) PROVE MainInv'
    BY <2>3, RefuseStep
  <2>4. ASSUME NEW r \in Pushes, Enter(r) \/ RerunFailed(r) \/ RerunAll(r) PROVE MainInv'
    BY <2>4, EnterStep, RerunStep
  <2>5. CASE UNCHANGED mainVars
    BY <2>5 DEF mainVars, run, MainInv, MainTypeOK, HolderBusy, PushInv, InOrder, SelectsAffected,
       VerifiesSelected, RequiresVerified, Is, Unfinished, Affected
  <2>. QED BY <2>1, <2>2, <2>3, <2>4, <2>5 DEF MainNext
<1>. QED BY <1>1, <1>2, PTL DEF MainSpec

\* A chain of pushes whose required checks have succeeded is verified as a whole,
\* whatever each run has built, failed, lost and repeated.
THEOREM GreenChain == MainSpec => []GreenChainVerified
<1>1. MainInv => GreenChainVerified
  <2>. SUFFICES ASSUME MainInv, NEW p \in 1 .. pushes, NEW q \in 1 .. p, Green(q), NEW s \in Affected(q)
                PROVE  \E v \in q .. p : Is(v, s, "success")
    BY DEF GreenChainVerified
  <2>1. q \in Pushes /\ q \in q .. p
    BY MainAssumption DEF MainInv, MainTypeOK, Pushes
  <2>2. Is(q, s, "success")
    BY <2>1 DEF MainInv, PushInv, Green, RequiresVerified, SelectsAffected, VerifiesSelected
  <2>. QED BY <2>1, <2>2
<1>. QED BY <1>1, MainInvariant, PTL

-----------------------------------------------------------------------------
(***************************************************************************)
(* The division of the tests.  Induction is by a least counterexample.     *)
(***************************************************************************)
LEMMA LeastNatural ==
    ASSUME NEW T \in SUBSET Nat, T # {}
    PROVE  \E n \in T : \A m \in T : n <= m
<1>1. PICK n \in T : \A m \in T : ~(<<m, n>> \in OpToRel(<, Nat))
  BY NatLessThanWellFounded, WFMin, Zenon
<1>2. \A m \in T : ~(m < n)
  BY <1>1 DEF OpToRel
<1>. QED BY <1>2

LEMMA SomeGroup ==
    /\ Cardinality(Modules) \in Nat /\ Cardinality(Modules) > 0
    /\ Groups \subseteq Processes \ {Discovery} /\ Groups \subseteq Nat /\ Groups # {}
<1>1. Cardinality(Modules) \in Nat /\ Cardinality(Modules) # 0
  BY TestAssumption, FS_CardinalityType, FS_EmptySet
<1>2. \E n \in 1 .. WorkerCount : Groups = 1 .. n
  BY <1>1, TestAssumption DEF Groups, Smaller
<1>. QED BY <1>1, <1>2, TestAssumption DEF Processes, Discovery

LEMMA LightestExists ==
    ASSUME NEW weight \in [Groups -> Nat]
    PROVE  Lightest(weight) \in Groups
<1>1. PICK w \in {weight[g] : g \in Groups} : \A v \in {weight[g] : g \in Groups} : w <= v
  <2>1. {weight[g] : g \in Groups} \in SUBSET Nat /\ {weight[g] : g \in Groups} # {}
    BY SomeGroup
  <2>. QED BY <2>1, LeastNatural
<1>2. PICK g \in {h \in Groups : weight[h] = w} : \A h \in {h \in Groups : weight[h] = w} : g <= h
  <2>1. {h \in Groups : weight[h] = w} \in SUBSET Nat /\ {h \in Groups : weight[h] = w} # {}
    BY <1>1, SomeGroup
  <2>. QED BY <2>1, LeastNatural
<1>3. \A other \in Groups : weight[g] < weight[other] \/ (weight[g] = weight[other] /\ g <= other)
  <2>. TAKE other \in Groups
  <2>1. weight[other] \in Nat /\ weight[g] = w /\ w <= weight[other] /\ w \in Nat
    BY <1>1, <1>2
  <2>2. weight[other] = w => g <= other
    BY <1>2
  <2>. QED BY <2>1, <2>2
<1>. QED BY <1>2, <1>3 DEF Lightest

LEMMA HeaviestExists ==
    ASSUME NEW hints \in [Modules -> Hints], NEW some \in SUBSET Modules, some # {}
    PROVE  Heaviest(hints, some) \in some
<1>. DEFINE First(S, m) == \A other \in S \ {m} : Heavier(hints, m, other)
            K == {k \in Nat : \E S \in SUBSET Modules :
                                 S # {} /\ Cardinality(S) = k /\ \A m \in S : ~First(S, m)}
<1>1. \A m, n, o \in Modules :
         /\ hints[m] \in Nat /\ m \in Nat
         /\ m # n => Heavier(hints, m, n) \/ Heavier(hints, n, m)
         /\ Heavier(hints, m, n) /\ Heavier(hints, n, o) => Heavier(hints, m, o)
  <2>. TAKE m, n, o \in Modules
  <2>1. hints[m] \in Nat /\ hints[n] \in Nat /\ hints[o] \in Nat /\ m \in Nat /\ n \in Nat /\ o \in Nat
    BY TestAssumption
  <2>. QED BY <2>1 DEF Heavier
<1>2. \A S \in SUBSET Modules : IsFiniteSet(S) /\ Cardinality(S) \in Nat
  BY TestAssumption, FS_Subset, FS_CardinalityType
<1>3. K = {}
  <2>1. SUFFICES ASSUME K # {} PROVE FALSE
    OBVIOUS
  <2>2. PICK k \in K : \A j \in K : k <= j
    BY <2>1, LeastNatural
  <2>3. PICK S \in SUBSET Modules : S # {} /\ Cardinality(S) = k /\ \A m \in S : ~First(S, m)
    BY <2>2
  <2>4. PICK x \in S : TRUE
    BY <2>3
  <2>5. S \ {x} # {}
    BY <2>3, <2>4
  <2>6. Cardinality(S \ {x}) = k - 1 /\ Cardinality(S \ {x}) \in Nat
    BY <1>2, <2>3, <2>4, FS_RemoveElement
  <2>7. k - 1 \notin K
    BY <2>2
  <2>8. PICK m \in S \ {x} : First(S \ {x}, m)
    BY <2>5, <2>6, <2>7
  <2>9. First(S, m) \/ First(S, x)
    BY <1>1, <2>8
  <2>. QED BY <2>3, <2>8, <2>9
<1>4. \E m \in some : First(some, m)
  BY <1>2, <1>3
<1>. QED BY <1>4 DEF Heaviest
LEMMA RoundsExist ==
    ASSUME NEW hints, NEW last \in Nat
    PROVE  \E after : after = [n \in 0 .. last |->
                                 IF n = 0 THEN Undivided ELSE Assign(hints, after[n - 1])]
<1>. DEFINE Rounds(after, k) == after = [n \in 0 .. k |->
                                 IF n = 0 THEN Undivided ELSE Assign(hints, after[n - 1])]
            T == {k \in Nat : ~ \E after : Rounds(after, k)}
<1>1. SUFFICES ASSUME T # {} PROVE FALSE
  OBVIOUS
<1>2. PICK k \in T : \A m \in T : k <= m
  BY <1>1, LeastNatural
<1>3. CASE k = 0
  <2>. DEFINE h == [n \in 0 .. 0 |-> Undivided]
  <2>1. Rounds(h, 0)
    OBVIOUS
  <2>. QED BY <1>2, <1>3, <2>1
<1>4. CASE k # 0
  <2>1. k - 1 \in Nat /\ k - 1 \notin T
    BY <1>2, <1>4
  <2>2. PICK g : Rounds(g, k - 1)
    BY <2>1
  <2>. DEFINE h == [n \in 0 .. k |-> IF n = 0 THEN Undivided ELSE Assign(hints, g[n - 1])]
  <2>3. \A n \in 0 .. k - 1 : h[n] = g[n]
    BY <1>2, <2>1, <2>2
  <2>4. ASSUME NEW n \in 0 .. k
        PROVE  h[n] = IF n = 0 THEN Undivided ELSE Assign(hints, h[n - 1])
    <3>1. h[n] = IF n = 0 THEN Undivided ELSE Assign(hints, g[n - 1])
      OBVIOUS
    <3>2. CASE n # 0
      <4>1. n - 1 \in 0 .. k - 1
        BY <1>2, <3>2
      <4>. HIDE DEF h
      <4>. QED BY <2>3, <3>1, <3>2, <4>1
    <3>. HIDE DEF h
    <3>. QED BY <3>1, <3>2
  <2>5. DOMAIN h = 0 .. k /\ h = [n \in DOMAIN h |-> h[n]]
    OBVIOUS
  <2>. HIDE DEF h
  <2>6. Rounds(h, k)
    BY <2>4, <2>5
  <2>. QED BY <1>2, <2>6
<1>. QED BY <1>2, <1>3, <1>4

\* Whatever is left, each module that is not is in one group only.
Halfway(groups, n) ==
    /\ groups = [left |-> groups.left, modules |-> groups.modules, weight |-> groups.weight]
    /\ groups.left \subseteq Modules /\ Cardinality(groups.left) = Cardinality(Modules) - n
    /\ groups.modules \in [Processes -> SUBSET Modules]
    /\ groups.weight \in [Groups -> Nat]
    /\ \A m \in groups.left : \A q \in Processes : m \notin groups.modules[q]
    /\ \A m \in Modules \ groups.left : \E p \in Groups :
          m \in groups.modules[p] /\ \A q \in Processes \ {p} : m \notin groups.modules[q]

LEMMA AssignOne ==
    ASSUME NEW hints \in [Modules -> Hints], NEW groups, NEW n \in 0 .. Cardinality(Modules) - 1,
           Halfway(groups, n)
    PROVE  Halfway(Assign(hints, groups), n + 1)
<1>. DEFINE m == Heaviest(hints, groups.left)
            g == Lightest(groups.weight)
<1>1. IsFiniteSet(groups.left) /\ groups.left \in SUBSET Modules /\ groups.left # {}
  BY TestAssumption, SomeGroup, FS_Subset, FS_EmptySet DEF Halfway
<1>2. m \in groups.left /\ m \in Modules
  BY <1>1, HeaviestExists
<1>3. g \in Groups /\ g \in Processes
  BY LightestExists, SomeGroup DEF Halfway
<1>4. Cardinality(groups.left \ {m}) = Cardinality(Modules) - (n + 1)
  <2>1. Cardinality(groups.left \ {m}) = Cardinality(groups.left) - 1
    <3>. HIDE DEF m
    <3>. QED BY <1>1, <1>2, FS_RemoveElement
  <2>2. Cardinality(groups.left) = Cardinality(Modules) - n
    BY DEF Halfway
  <2>. QED BY <2>1, <2>2, SomeGroup
<1>5. Assign(hints, groups) = [left    |-> groups.left \ {m},
                               modules |-> [groups.modules EXCEPT ![g] = @ \cup {m}],
                               weight  |-> [groups.weight EXCEPT ![g] = @ + hints[m]]]
  BY DEF Assign
<1>. HIDE DEF m, g
<1>6. hints[m] \in Nat
  BY <1>2, TestAssumption
<1>7. [groups.weight EXCEPT ![g] = @ + hints[m]] \in [Groups -> Nat]
  BY <1>3, <1>6 DEF Halfway
<1>. DEFINE modules == [groups.modules EXCEPT ![g] = @ \cup {m}]
<1>8. /\ modules \in [Processes -> SUBSET Modules]
      /\ \A q \in Processes : modules[q] = IF q = g THEN groups.modules[q] \cup {m} ELSE groups.modules[q]
  BY <1>2, <1>3 DEF Halfway
<1>. HIDE DEF modules
<1>9. \A o \in groups.left \ {m} : \A q \in Processes : o \notin modules[q]
  BY <1>8 DEF Halfway
<1>10. ASSUME NEW o \in Modules \ (groups.left \ {m})
       PROVE  \E p \in Groups : o \in modules[p] /\ \A q \in Processes \ {p} : o \notin modules[q]
  <2>1. CASE o = m
    BY <1>2, <1>3, <1>8, <2>1 DEF Halfway
  <2>2. CASE o # m
    <3>1. PICK p \in Groups :
             o \in groups.modules[p] /\ \A q \in Processes \ {p} : o \notin groups.modules[q]
      BY <2>2 DEF Halfway
    <3>2. p \in Processes
      BY SomeGroup
    <3>. QED BY <1>8, <2>2, <3>1, <3>2
  <2>. QED BY <2>1, <2>2
<1>. QED BY <1>1, <1>4, <1>5, <1>7, <1>8, <1>9, <1>10 DEF Halfway, modules

\* Every module is given to one worker, whatever the hints.
LEMMA PartitionDivides ==
    ASSUME NEW hints \in [Modules -> Hints]
    PROVE  /\ Partition(hints) \in [Processes -> SUBSET Modules]
           /\ \A m \in Modules : \E p \in Groups :
                 m \in Partition(hints)[p] /\ \A q \in Processes \ {p} : m \notin Partition(hints)[q]
<1>. DEFINE last == Cardinality(Modules)
            Rounds(w) == w = [n \in 0 .. last |-> IF n = 0 THEN Undivided ELSE Assign(hints, w[n - 1])]
            after == CHOOSE w : Rounds(w)
            T == {n \in Nat : n <= last /\ ~Halfway(after[n], n)}
<1>1. last \in Nat
  BY SomeGroup
<1>2. Rounds(after)
  <2>1. \E w : Rounds(w)
    BY <1>1, RoundsExist
  <2>. QED BY <2>1, Zenon
<1>3. Partition(hints) = after[last].modules
  BY DEF Partition
<1>. HIDE DEF after
<1>4. \A n \in 0 .. last : after[n] = IF n = 0 THEN Undivided ELSE Assign(hints, after[n - 1])
  BY <1>2
<1>5. Halfway(after[0], 0)
  <2>1. after[0] = Undivided
    BY <1>1, <1>4
  <2>2. Halfway(Undivided, 0)
    BY SomeGroup DEF Halfway, Undivided
  <2>. QED BY <2>1, <2>2
<1>6. \A n : n \in T <=> n \in Nat /\ n <= last /\ ~Halfway(after[n], n)
  BY Zenon
<1>. HIDE DEF T, last
<1>7. T = {}
  <2>1. SUFFICES ASSUME T # {} PROVE FALSE
    OBVIOUS
  <2>2. PICK n \in T : \A k \in T : n <= k
    <3>1. T \in SUBSET Nat
      BY <1>6, Zenon
    <3>. QED BY <2>1, <3>1, LeastNatural
  <2>3. n \in Nat /\ n <= last /\ n # 0
    BY <1>5, <1>6, <2>2
  <2>4. n - 1 \in Nat /\ n - 1 <= last /\ n - 1 \notin T /\ n - 1 \in 0 .. last - 1 /\ (n - 1) + 1 = n /\ n \in 0 .. last
    BY <1>1, <2>2, <2>3
  <2>5. Halfway(after[n - 1], n - 1)
    BY <1>6, <2>4, Zenon
  <2>6. Halfway(Assign(hints, after[n - 1]), n)
    BY <2>4, <2>5, AssignOne DEF last
  <2>7. after[n] = Assign(hints, after[n - 1])
    BY <1>4, <2>3, <2>4
  <2>. QED BY <1>6, <2>2, <2>6, <2>7, Zenon
<1>8. Halfway(after[last], last)
  BY <1>1, <1>6, <1>7, last <= last, Zenon
<1>9. after[last].left = {}
  <2>1. IsFiniteSet(after[last].left) /\ Cardinality(after[last].left) = 0
    BY <1>1, <1>8, TestAssumption, FS_Subset DEF Halfway, last
  <2>. QED BY <2>1, FS_EmptySet
<1>. QED BY <1>3, <1>8, <1>9 DEF Halfway
-----------------------------------------------------------------------------
(***************************************************************************)
(* The inductive invariant                                                 *)
(***************************************************************************)
Alive(p) == leader[p] = "running" \/ children[p]

\* Nothing is executed before the division, and then what was divided.
Divided ==
    /\ ~planned => \A p \in Processes : plan[p] = {}
    /\ planned => \A m \in Modules : \E p \in Groups :
                     m \in plan[p] /\ \A q \in Processes \ {p} : m \notin plan[q]
    /\ \A p \in Processes : accounted[p] \subseteq plan[p]

PassedHolds ==
    /\ main = "judge" => planned
    /\ status = "passed" => /\ main = "written" /\ planned /\ ~edited
                            /\ \A p \in Groups : accounted[p] = plan[p]

\* Without a signal in one of the two windows, what lives is recorded, or is
\* about to be.
Tracked ==
    ~abandoned =>
        /\ \A p \in Processes : Alive(p) =>
              leader[p] # "none" /\ (p \in workers \/ (main = "record" /\ p \in Commands))
        /\ main \in {"judge", "written"} => workers = {}

TestInv == TestTypeOK /\ workers \subseteq Commands /\ Divided /\ PassedHolds /\ Tracked

LEMMA CommandsAreProcesses == Commands \subseteq Processes /\ Commands \subseteq Nat
BY SomeGroup, TestAssumption DEF Commands, Processes, Discovery

\* The process that is started is a command that has not been recorded.
LEMMA StartsCommand ==
    ASSUME Commands \ workers # {}
    PROVE  (CHOOSE p \in Commands \ workers : \A q \in Commands \ workers : p <= q) \in Commands
<1>1. \E p \in Commands \ workers : \A q \in Commands \ workers : p <= q
  BY CommandsAreProcesses, LeastNatural
<1>. QED BY <1>1

-----------------------------------------------------------------------------
(***************************************************************************)
(* The steps                                                               *)
(***************************************************************************)
LEMMA StartStep ==
    ASSUME TestInv, Start
    PROVE  TestInv'
<1>. DEFINE p == CHOOSE p \in Commands \ workers : \A q \in Commands \ workers : p <= q
<1>1. p \in Commands /\ p \in Processes
  BY StartsCommand, CommandsAreProcesses DEF Start
<1>2. /\ main = "start" /\ main' \in {"record", "stop"} /\ failing' \in BOOLEAN
      /\ UNCHANGED <<planned, plan, workers, pending, children, report, accounted, edited,
                     status, abandoned, interrupts>>
      /\ \/ leader' = [leader EXCEPT ![p] = "running"] /\ main' = "record"
         \/ leader' = leader
  BY DEF Start, Goto, TestInv, TestTypeOK
<1>. HIDE DEF p
<1>3. TestTypeOK'
  BY <1>1, <1>2 DEF TestInv, TestTypeOK
<1>4. Commands' = Commands
  BY <1>2 DEF Commands
<1>5. Divided' /\ PassedHolds'
  BY <1>2 DEF TestInv, Divided, PassedHolds
<1>6. Tracked'
  <2>. SUFFICES ASSUME ~abandoned, NEW q \in Processes, Alive(q)'
                PROVE  leader'[q] # "none" /\ (q \in workers \/ (main' = "record" /\ q \in Commands))
    BY <1>2, <1>4 DEF Tracked
  <2>1. CASE q = p /\ leader' = [leader EXCEPT ![p] = "running"] /\ main' = "record"
    BY <1>1, <2>1 DEF TestInv, TestTypeOK
  <2>2. CASE leader'[q] = leader[q]
    <3>1. Alive(q)
      BY <1>2, <2>2 DEF Alive
    <3>. QED BY <1>2, <2>2, <3>1 DEF TestInv, Tracked
  <2>. QED BY <1>1, <1>2, <2>1, <2>2 DEF TestInv, TestTypeOK
<1>. QED BY <1>2, <1>3, <1>4, <1>5, <1>6 DEF TestInv

LEMMA RecordStep ==
    ASSUME TestInv, Record
    PROVE  TestInv'
<1>1. /\ main = "record" /\ main' = "start" /\ pending' = workers'
      /\ workers' = {p \in Commands : leader[p] # "none"}
      /\ UNCHANGED <<planned, plan, leader, children, report, accounted, edited, failing,
                     status, abandoned, interrupts>>
  BY DEF Record, Goto, processes
<1>2. TestTypeOK'
  BY <1>1, CommandsAreProcesses DEF TestInv, TestTypeOK
<1>3. Commands' = Commands
  BY <1>1 DEF Commands
<1>4. Divided' /\ PassedHolds'
  BY <1>1 DEF TestInv, Divided, PassedHolds
<1>5. Tracked'
  BY <1>1 DEF TestInv, Tracked, Alive
<1>. QED BY <1>1, <1>2, <1>3, <1>4, <1>5 DEF TestInv

\* The other steps of the run before its processes are stopped, and the
\* change of a source.
LEMMA WaitStep ==
    ASSUME TestInv, AllStarted \/ Poll \/ AllEnded \/ Overdue \/ Gather \/ Edit
    PROVE  TestInv'
<1>1. /\ UNCHANGED <<planned, plan, workers, leader, children, report, accounted, status, abandoned, interrupts>>
      /\ pending' \subseteq pending /\ edited' \in BOOLEAN /\ failing' \in BOOLEAN
      /\ main # "written" /\ main' \in {"start", "record", "poll", "stop", "judge"}
      /\ main = "record" => main' = "record"
      /\ main' = "judge" => planned /\ (main = "judge" \/ workers = {})
  BY DEF TestInv, TestTypeOK, PassedHolds, AllStarted, Poll, AllEnded, Overdue, Gather, Edit, Goto, processes
<1>2. TestTypeOK'
  BY <1>1 DEF TestInv, TestTypeOK
<1>3. Commands' = Commands
  BY <1>1 DEF Commands
<1>4. Divided'
  BY <1>1 DEF TestInv, Divided
<1>5. PassedHolds'
  BY <1>1 DEF TestInv, PassedHolds
<1>6. Tracked'
  BY <1>1, <1>3 DEF TestInv, Tracked, Alive
<1>. QED BY <1>1, <1>2, <1>3, <1>4, <1>5, <1>6 DEF TestInv

LEMMA StopStep ==
    ASSUME TestInv, Stop
    PROVE  TestInv'
<1>1. PICK p \in workers : Terminated(p) /\ workers' = workers \ {p} /\ pending' = pending \ {p}
  BY DEF Stop
<1>2. /\ main = "stop" /\ p \in Processes
      /\ UNCHANGED <<main, planned, plan, report, accounted, edited, failing, status, abandoned, interrupts>>
      /\ leader' = [leader EXCEPT ![p] = IF @ = "running" THEN "nonzero" ELSE @]
      /\ children' = [children EXCEPT ![p] = FALSE]
  BY <1>1 DEF Stop, Terminated, TestInv, TestTypeOK
<1>3. TestTypeOK'
  BY <1>1, <1>2 DEF TestInv, TestTypeOK
<1>4. Commands' = Commands
  BY <1>2 DEF Commands
<1>5. Divided' /\ PassedHolds'
  BY <1>2 DEF TestInv, Divided, PassedHolds
<1>6. Tracked'
  <2>1. ~Alive(p)'
    BY <1>2 DEF Alive, TestInv, TestTypeOK
  <2>2. \A q \in Processes : q # p => leader'[q] = leader[q] /\ children'[q] = children[q]
    BY <1>2 DEF TestInv, TestTypeOK
  <2>. QED BY <1>1, <1>2, <2>1, <2>2 DEF TestInv, Tracked, Alive
<1>. QED BY <1>1, <1>3, <1>4, <1>5, <1>6 DEF TestInv

LEMMA DivideStep ==
    ASSUME TestInv, Divide
    PROVE  TestInv'
<1>1. /\ main = "stop" /\ workers = {} /\ ~planned
      /\ UNCHANGED <<workers, pending, leader, children, report, accounted, edited, failing, abandoned, interrupts>>
      /\ \/ (\E hints \in [Modules -> Hints] : plan' = Partition(hints)) /\ planned' = TRUE
              /\ main' = "start" /\ status' = status
         \/ main' = "written" /\ status' = "failed" /\ plan' = plan /\ planned' = planned
  BY DEF Divide, Goto, processes
<1>2. plan' \in [Processes -> SUBSET Modules]
  BY <1>1, PartitionDivides DEF TestInv, TestTypeOK
<1>3. TestTypeOK'
  BY <1>1, <1>2 DEF TestInv, TestTypeOK
<1>4. workers' \subseteq Commands'
  BY <1>1
<1>5. Divided'
  <2>1. \A p \in Processes : accounted[p] = {}
    BY <1>1 DEF TestInv, Divided
  <2>2. CASE planned'
    <3>1. PICK hints \in [Modules -> Hints] : plan' = Partition(hints)
      BY <1>1, <2>2
    <3>. QED BY <1>1, <2>1, <2>2, <3>1, PartitionDivides DEF Divided
  <2>3. CASE ~planned'
    BY <1>1, <2>3 DEF TestInv, Divided
  <2>. QED BY <2>2, <2>3
<1>6. PassedHolds'
  BY <1>1 DEF TestInv, PassedHolds
<1>7. Tracked'
  BY <1>1 DEF TestInv, Tracked, Alive
<1>. QED BY <1>3, <1>4, <1>5, <1>6, <1>7 DEF TestInv

LEMMA JudgeStep ==
    ASSUME TestInv, Judge
    PROVE  TestInv'
<1>1. /\ main = "judge" /\ main' = "written" /\ planned
      /\ UNCHANGED <<planned, plan, workers, pending, leader, children, report, accounted, edited,
                     failing, abandoned, interrupts>>
      /\ status' \in {"passed", "failed"}
      /\ status' = "passed" => ~edited /\ \A p \in Groups : accounted[p] = plan[p]
  BY DEF TestInv, PassedHolds, Judge, Goto, Passed, processes
<1>2. TestTypeOK'
  BY <1>1 DEF TestInv, TestTypeOK
<1>3. Commands' = Commands
  BY <1>1 DEF Commands
<1>4. Divided' /\ PassedHolds'
  BY <1>1 DEF TestInv, Divided, PassedHolds
<1>5. Tracked'
  BY <1>1 DEF TestInv, Tracked, Alive
<1>. QED BY <1>1, <1>2, <1>3, <1>4, <1>5 DEF TestInv

LEMMA InterruptStep ==
    ASSUME TestInv, Interrupt
    PROVE  TestInv'
<1>1. /\ main # "written" /\ failing' = TRUE /\ interrupts' \in 0 .. MaxInterrupts
      /\ UNCHANGED <<planned, plan, report, accounted, edited, status>>
  BY TestAssumption DEF Interrupt, TestInv, TestTypeOK
<1>2. Commands' = Commands /\ workers' \subseteq workers
  BY <1>1 DEF Commands, Interrupt
<1>3. Divided'
  BY <1>1 DEF TestInv, Divided
<1>4. CASE main \in {"start", "record", "poll"}
  <2>1. /\ main' = "stop" /\ abandoned' \in BOOLEAN /\ (~abandoned' => ~abandoned /\ main # "record")
        /\ UNCHANGED <<leader, children, workers, pending>>
    BY <1>4 DEF Interrupt, Goto, TestInv, TestTypeOK
  <2>2. TestTypeOK'
    BY <1>1, <2>1 DEF TestInv, TestTypeOK
  <2>3. PassedHolds' /\ Tracked'
    BY <1>1, <2>1 DEF TestInv, PassedHolds, Tracked, Alive
  <2>. QED BY <1>2, <1>3, <2>2, <2>3 DEF TestInv
<1>5. CASE main = "stop"
  <2>1. /\ main' = main /\ abandoned' = TRUE /\ workers' = {} /\ pending' = {}
        /\ (UNCHANGED <<leader, children>> \/ \E p \in workers : Terminated(p))
    BY <1>5 DEF Interrupt
  <2>2. TestTypeOK'
    BY <1>1, <2>1 DEF TestInv, TestTypeOK, Terminated
  <2>3. PassedHolds' /\ Tracked'
    BY <1>1, <1>5, <2>1 DEF TestInv, PassedHolds, Tracked
  <2>. QED BY <1>2, <1>3, <2>1, <2>2, <2>3 DEF TestInv
<1>6. CASE main = "judge"
  <2>1. UNCHANGED <<main, abandoned, leader, children, workers, pending>>
    BY <1>6 DEF Interrupt
  <2>2. TestTypeOK'
    BY <1>1, <2>1 DEF TestInv, TestTypeOK
  <2>3. PassedHolds' /\ Tracked'
    BY <1>1, <1>2, <2>1 DEF TestInv, PassedHolds, Tracked, Alive
  <2>. QED BY <1>2, <1>3, <2>1, <2>2, <2>3 DEF TestInv
<1>. QED BY <1>1, <1>4, <1>5, <1>6 DEF TestInv, TestTypeOK

\* The processes do as they like.
LEMMA ProcessStep ==
    ASSUME TestInv, NEW p \in Processes, Account(p) \/ End(p) \/ Spawn(p)
    PROVE  TestInv'
<1>1. /\ UNCHANGED <<main, planned, plan, workers, pending, edited, failing, status, abandoned, interrupts>>
      /\ leader[p] = "running"
  BY DEF Account, End, Spawn
<1>2. /\ leader' \in [Processes -> {"none", "running", "zero", "nonzero"}]
      /\ children' \in [Processes -> BOOLEAN] /\ report' \in [Processes -> {"none", "passed", "failed"}]
      /\ \A q \in Processes : Alive(q)' => Alive(q)
      /\ \A q \in Processes : leader[q] # "none" => leader'[q] # "none"
  BY DEF Account, End, Spawn, Alive, TestInv, TestTypeOK
<1>3. \A q \in Processes : accounted[q] \subseteq accounted'[q] /\ accounted'[q] \subseteq plan[q]
  BY DEF Account, End, Spawn, TestInv, TestTypeOK, Divided
<1>4. accounted' \in [Processes -> SUBSET Modules]
  BY DEF Account, End, Spawn, TestInv, TestTypeOK
<1>5. TestTypeOK'
  BY <1>1, <1>2, <1>4 DEF TestInv, TestTypeOK
<1>6. Commands' = Commands
  BY <1>1 DEF Commands
<1>7. Divided'
  BY <1>1, <1>3 DEF TestInv, Divided
<1>8. PassedHolds'
  BY <1>1, <1>3, SomeGroup DEF TestInv, PassedHolds
<1>9. Tracked'
  BY <1>1, <1>2, <1>6 DEF TestInv, Tracked
<1>. QED BY <1>1, <1>5, <1>6, <1>7, <1>8, <1>9 DEF TestInv

\* Every step of a run keeps its bookkeeping: each module is in one group and,
\* outside the two signal windows, every live process is recorded.
THEOREM TestInvariant == TestSpec => []TestInv
<1>1. TestInit => TestInv
  <2>. SUFFICES ASSUME TestInit PROVE TestInv
    OBVIOUS
  <2>1. TestTypeOK
    <3>1. /\ plan \in [Processes -> SUBSET Modules] /\ accounted \in [Processes -> SUBSET Modules]
          /\ leader \in [Processes -> {"none", "running", "zero", "nonzero"}]
          /\ children \in [Processes -> BOOLEAN] /\ report \in [Processes -> {"none", "passed", "failed"}]
      BY DEF TestInit
    <3>2. interrupts \in 0 .. MaxInterrupts
      BY TestAssumption DEF TestInit
    <3>. QED BY <3>1, <3>2 DEF TestInit, TestTypeOK
  <2>4. workers \subseteq Commands
    BY DEF TestInit
  <2>2. Divided /\ PassedHolds
    BY DEF TestInit, Divided, PassedHolds
  <2>3. Tracked
    BY DEF TestInit, Tracked, Alive
  <2>. QED BY <2>1, <2>2, <2>3, <2>4 DEF TestInv
<1>2. TestInv /\ [TestNext]_testVars => TestInv'
  <2>. SUFFICES ASSUME TestInv, [TestNext]_testVars PROVE TestInv'
    OBVIOUS
  <2>1. CASE MainStep
    BY <2>1, StartStep, RecordStep, WaitStep, StopStep, DivideStep, JudgeStep DEF MainStep
  <2>2. CASE Interrupt
    BY <2>2, InterruptStep
  <2>3. ASSUME NEW p \in Processes, Account(p) \/ End(p) \/ Spawn(p) PROVE TestInv'
    BY <2>3, ProcessStep
  <2>4. CASE Edit
    BY <2>4, WaitStep
  <2>5. CASE UNCHANGED testVars
    BY <2>5 DEF testVars, processes, TestInv, TestTypeOK, Divided, PassedHolds, Tracked, Alive, Commands
  <2>. QED BY <2>1, <2>2, <2>3, <2>4, <2>5 DEF TestNext
<1>. QED BY <1>1, <1>2, PTL DEF TestSpec

\* A run passes only when each module was accounted for by one worker.
THEOREM PassedComplete == TestSpec => []PassedMeansComplete
<1>1. TestInv => PassedMeansComplete
  BY SomeGroup DEF TestInv, PassedHolds, Divided, PassedMeansComplete
<1>. QED BY <1>1, TestInvariant, PTL

\* No process survives the run, nor the discovery the tests.
THEOREM NothingSurvives == TestSpec => []NoSurvivor
<1>1. TestInv => NoSurvivor
  <2>. SUFFICES ASSUME TestInv, ~abandoned, NEW p \in Processes,
                       main = "written" \/ (planned /\ p = Discovery)
                PROVE  ~Alive(p)
    BY DEF NoSurvivor, Alive
  <2>1. planned => Discovery \notin Commands
    BY SomeGroup DEF Commands
  <2>. QED BY <2>1 DEF TestInv, Tracked
<1>. QED BY <1>1, TestInvariant, PTL
=============================================================================
