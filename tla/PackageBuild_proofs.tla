------------------------- MODULE PackageBuild_proofs -------------------------
(***************************************************************************)
(* Proofs about crosspack.  Nothing locks the staging tree: that what is   *)
(* encoded is what was planned follows from comparisons before every       *)
(* package, because a change never restores an old version of an entry.    *)
(* What can be installed and loaded follows from the plan alone: links of  *)
(* an installation lead where they lead among everything that is planned.  *)
(***************************************************************************)
EXTENDS PackageBuild, SequenceTheorems, FiniteSetTheorems, WellFoundedInduction, TLAPS

-----------------------------------------------------------------------------
(***************************************************************************)
(* The inductive invariant                                                 *)
(***************************************************************************)
Versions == [DOMAIN Tree -> Nat]
Upto(old, new) == \A s \in DOMAIN Tree : old[s] <= new[s]

Shape(b) ==
    build[b] = [pc |-> build[b].pc, before |-> build[b].before, copy |-> build[b].copy,
                planned |-> build[b].planned, audited |-> build[b].audited,
                artifacts |-> build[b].artifacts]

Made(b) == 1 .. Len(build[b].artifacts)
Content(b, i) == build[b].artifacts[i].content
Same(content, versions) == \A s \in DOMAIN content : content[s] = versions[s]

\* Packages are made in the order of the tasks, by commands that encode.
TasksDone(b) ==
    /\ \E S : build[b].artifacts \in Seq(S)
    /\ Len(build[b].artifacts) <= Len(Tasks)
    /\ \A i \in Made(b) : build[b].artifacts[i].task = Tasks[i]
    /\ build[b].artifacts # <<>> => build[b].pc \in {"check", "encode", "done", "failed"}
    /\ build[b].pc = "encode" => Len(build[b].artifacts) < Len(Tasks)

\* A command that goes on has a plan that expands and passes the audit.
Vetted(b) ==
    /\ build[b].pc \in {"audit", "check", "encode", "done"} => Expands(Effective, Prepared)
    /\ build[b].pc \in {"check", "encode", "done"} => \A f \in Formats : Audited(Effective, Prepared, f)

\* When the tree itself is packaged, every reading of it comes after the plan,
\* and the last comparison before a package confirms all earlier readings.
ReadInOrder(b) ==
    /\ build[b].pc \in {"audit", "check", "encode"} =>
        build[b].planned \in Versions /\ Upto(build[b].planned, staged)
    /\ build[b].pc \in {"check", "encode"} =>
        /\ build[b].audited \in Versions
        /\ Upto(build[b].planned, build[b].audited) /\ Upto(build[b].audited, staged)
        /\ \A i \in Made(b) : \A s \in DOMAIN Content(b, i) :
              /\ s \in DOMAIN Tree /\ Content(b, i)[s] \in Nat
              /\ build[b].planned[s] <= Content(b, i)[s] /\ Content(b, i)[s] <= staged[s]

Confirmed(b) ==
    /\ build[b].pc = "encode" =>
        /\ build[b].audited = build[b].planned
        /\ \A i \in Made(b) : Same(Content(b, i), build[b].planned)
    /\ build[b].pc = "check" /\ build[b].artifacts # <<>> =>
        /\ build[b].audited = build[b].planned
        /\ \A i \in Made(b) : i < Len(build[b].artifacts) => Same(Content(b, i), build[b].planned)

\* A private copy does not change once it is planned.
CopyKept(b) ==
    /\ build[b].pc \in {"audit", "check", "encode"} => build[b].planned = build[b].copy
    /\ build[b].pc \in {"check", "encode"} =>
        /\ build[b].audited = build[b].copy
        /\ \A i \in Made(b) : Same(Content(b, i), build[b].copy)

CommandInv(b) ==
    /\ Shape(b)
    /\ TasksDone(b)
    /\ Vetted(b)
    /\ IF IsSplit THEN CopyKept(b) ELSE ReadInOrder(b) /\ Confirmed(b)

BuildInv ==
    /\ request \in Requests
    /\ staged \in Versions
    /\ DOMAIN build = Builders /\ build = [b \in Builders |-> build[b]]
    /\ \A b \in Builders : CommandInv(b)
    /\ PackagesMatchPlan
-----------------------------------------------------------------------------
(***************************************************************************)
(* Lemmas                                                                  *)
(***************************************************************************)
LEMMA Grow ==
    ASSUME NEW S, NEW s \in Seq(S), NEW e
    PROVE  /\ Append(s, e) \in Seq(S \cup {e})
           /\ Len(s) \in Nat /\ Len(Append(s, e)) = Len(s) + 1
           /\ \A i \in 1 .. Len(s) : Append(s, e)[i] = s[i]
           /\ Append(s, e)[Len(s) + 1] = e
<1>1. s \in Seq(S \cup {e})
  BY SeqMonotonic
<1>. QED BY <1>1

\* There is something to be made for every request.
LEMMA SomeTask ==
    ASSUME request \in Requests
    PROVE  /\ Len(Tasks) \in Nat /\ Len(Tasks) > 0
           /\ DOMAIN Tasks = 1 .. Len(Tasks)
           /\ Tasks = [i \in 1 .. Len(Tasks) |-> Tasks[i]]
<1>. DEFINE cs == SetToSeq(Components(Config))
            n == Cardinality(Components(Config))
            size == Len(request.formats) * Len(cs)
<1>1. /\ request.formats \in Seq(Formats) /\ request.formats # <<>>
      /\ IsFiniteSet(Components(Config)) /\ Components(Config) # {}
  BY BuildAssumption DEF Config, WellFormed
<1>2. n \in Nat /\ n # 0 /\ ExistsBijection(1 .. n, Components(Config))
  BY <1>1, FS_CardinalityType, FS_EmptySet
<1>3. cs \in [1 .. n -> Components(Config)]
  <2>1. PICK f \in [1 .. n -> Components(Config)] : IsInjective(f)
    BY <1>2 DEF ExistsBijection, Bijection, Injection, IsInjective
  <2>. QED BY <2>1 DEF SetToSeq
<1>4. Len(cs) = n
  <2>1. cs \in Seq(Components(Config))
    BY <1>2, <1>3, SeqDef
  <2>. QED BY <1>2, <1>3, <2>1, LenProperties
<1>5. Len(request.formats) \in Nat /\ Len(request.formats) # 0
  BY <1>1, EmptySeq
<1>6. size \in Nat /\ size > 0
  <2>1. Len(request.formats) \in Nat \ {0} /\ Len(cs) \in Nat \ {0}
    BY <1>2, <1>4, <1>5
  <2>. HIDE DEF cs
  <2>. QED BY <2>1
<1>7. Tasks = [i \in 1 .. size |-> [format    |-> request.formats[((i - 1) \div Len(cs)) + 1],
                                    component |-> cs[((i - 1) % Len(cs)) + 1]]]
  BY DEF Tasks
<1>. HIDE DEF size, cs, n
<1>8. Tasks = [i \in 1 .. size |-> Tasks[i]] /\ DOMAIN Tasks = 1 .. size
  BY <1>7
<1>9. Tasks \in Seq({Tasks[i] : i \in 1 .. size})
  BY <1>6, <1>8, SeqDef
<1>10. DOMAIN Tasks = 1 .. Len(Tasks) /\ Len(Tasks) \in Nat
  BY <1>9, LenProperties
<1>11. Len(Tasks) = size
  BY <1>6, <1>8, <1>10
<1>. QED BY <1>6, <1>8, <1>11

LEMMA SameRequest ==
    ASSUME UNCHANGED request
    PROVE  /\ UNCHANGED <<Tree, Config, IsSplit, Effective, Prepared, Tasks, Versions>>
           /\ Expands(Effective, Prepared)' <=> Expands(Effective, Prepared)
           /\ \A f \in Formats : Audited(Effective, Prepared, f)' <=> Audited(Effective, Prepared, f)
BY DEF Tree, Config, IsSplit, Effective, Prepared, Tasks, Versions

\* Versions only grow, whoever changes the tree.
LEMMA OnlyForward ==
    ASSUME BuildInv, [BuildNext]_buildVars
    PROVE  request' = request /\ staged' \in Versions /\ Upto(staged, staged')
<1>1. staged \in Versions
  BY DEF BuildInv
<1>2. ASSUME UNCHANGED <<request, staged>> PROVE request' = request /\ staged' \in Versions /\ Upto(staged, staged')
  BY <1>1, <1>2 DEF Upto, Versions
<1>3. CASE Seal \/ UNCHANGED buildVars
  BY <1>2, <1>3 DEF Seal, buildVars
<1>4. ASSUME NEW s \in DOMAIN staged, Edit(s) PROVE request' = request /\ staged' \in Versions /\ Upto(staged, staged')
  <2>1. request' = request /\ staged' = [staged EXCEPT ![s] = @ + 1] /\ DOMAIN staged = DOMAIN Tree
    BY <1>1, <1>4 DEF Edit, Versions
  <2>. QED BY <1>1, <2>1 DEF Versions, Upto
<1>5. ASSUME NEW b \in Builders, BuildStep(b) \/ Fail(b) PROVE UNCHANGED <<request, staged>>
  BY <1>5 DEF BuildStep, Fail, Verify, CheckOutput, Prepare, CopyEntry, SplitSymbols, PlanLayout, Audit,
              CheckSource, Encode, Publish
<1>. QED BY <1>2, <1>3, <1>4, <1>5 DEF BuildNext

LEMMA OnwardIsLater ==
    ASSUME NEW u \in Versions, NEW v \in Versions, NEW w \in Versions, Upto(u, v), Upto(v, w)
    PROVE  Upto(u, w)
BY DEF Versions, Upto

LEMMA BetweenEquals ==
    ASSUME NEW u \in Versions, NEW v \in Versions, Upto(u, v), Upto(v, u)
    PROVE  u = v
BY DEF Versions, Upto

\* What no step of a command touches is kept while the tree goes forward.
LEMMA Unmoved ==
    ASSUME BuildInv, [BuildNext]_buildVars, NEW b \in Builders, UNCHANGED build[b]
    PROVE  CommandInv(b)'
<1>1. /\ request' = request /\ staged' \in Versions /\ Upto(staged, staged')
      /\ CommandInv(b) /\ staged \in Versions
  BY OnlyForward DEF BuildInv
<1>2. Shape(b)' /\ TasksDone(b)' /\ Vetted(b)'
  BY <1>1, SameRequest DEF CommandInv, Shape, TasksDone, Vetted, Made
<1>3. IsSplit => CopyKept(b)'
  BY <1>1, SameRequest DEF CommandInv, CopyKept, Made, Content, Same
<1>4. ASSUME ~IsSplit PROVE ReadInOrder(b)' /\ Confirmed(b)'
  <2>1. Confirmed(b)'
    BY <1>1, <1>4 DEF CommandInv, Confirmed, Made, Content, Same
  <2>2. ReadInOrder(b)
    BY <1>1, <1>4 DEF CommandInv
  <2>3. Made(b)' = Made(b) /\ \A i \in Made(b) : Content(b, i)' = Content(b, i)
    BY DEF Made, Content
  <2>4. build[b].pc \in {"audit", "check", "encode"} =>
            build[b].planned \in Versions' /\ Upto(build[b].planned, staged)'
    BY <1>1, <2>2, SameRequest, OnwardIsLater DEF ReadInOrder, Upto
  <2>5. ASSUME build[b].pc \in {"check", "encode"}
        PROVE  /\ build[b].audited \in Versions
               /\ Upto(build[b].planned, build[b].audited) /\ Upto(build[b].audited, staged')
    BY <1>1, <2>2, <2>5, OnwardIsLater DEF ReadInOrder
  <2>6. ASSUME build[b].pc \in {"check", "encode"}, NEW i \in Made(b), NEW s \in DOMAIN Content(b, i)
        PROVE  /\ s \in DOMAIN Tree /\ Content(b, i)[s] \in Nat
               /\ build[b].planned[s] <= Content(b, i)[s] /\ Content(b, i)[s] <= staged'[s]
    <3>1. /\ s \in DOMAIN Tree /\ Content(b, i)[s] \in Nat
          /\ build[b].planned[s] <= Content(b, i)[s] /\ Content(b, i)[s] <= staged[s]
      BY <2>2, <2>6 DEF ReadInOrder
    <3>. QED BY <1>1, <3>1 DEF Upto, Versions
  <2>7. Tree' = Tree /\ build'[b] = build[b]
    BY <1>1, SameRequest
  <2>. QED BY <2>1, <2>3, <2>4, <2>5, <2>6, <2>7, SameRequest, <1>1 DEF ReadInOrder, Upto
<1>. QED BY <1>1, <1>2, <1>3, <1>4, SameRequest DEF CommandInv

-----------------------------------------------------------------------------
(***************************************************************************)
(* The steps of a command                                                  *)
(***************************************************************************)
\* A step that only goes on, and not into encoding, leaves what is held alone.
LEMMA Held ==
    ASSUME BuildInv, NEW b \in Builders, NEW step, Goto(b, step)
    PROVE  /\ Shape(b)' /\ build'[b].pc = step
           /\ build'[b].planned = build[b].planned /\ build'[b].audited = build[b].audited
           /\ build'[b].copy = build[b].copy /\ build'[b].artifacts = build[b].artifacts
BY DEF BuildInv, CommandInv, Shape, Goto

LEMMA EarlyStep ==
    ASSUME BuildInv, NEW b \in Builders, NEW step \in {"output", "prepare", "plan", "failed"},
           build[b].pc \in {"verify", "output", "prepare", "copy"} \/ step = "failed",
           Goto(b, step), UNCHANGED <<request, staged>>
    PROVE  CommandInv(b)'
<1>1. CommandInv(b)
  BY DEF BuildInv
<1>2. /\ Shape(b)' /\ build'[b].pc = step
      /\ build'[b].planned = build[b].planned /\ build'[b].audited = build[b].audited
      /\ build'[b].copy = build[b].copy /\ build'[b].artifacts = build[b].artifacts
  BY Held
<1>3. TasksDone(b)'
  BY <1>1, <1>2, SameRequest DEF CommandInv, TasksDone, Made
<1>4. Vetted(b)'
  BY <1>2 DEF Vetted
<1>5. CopyKept(b)' /\ ReadInOrder(b)' /\ Confirmed(b)'
  BY <1>2 DEF CopyKept, ReadInOrder, Confirmed
<1>. QED BY <1>2, <1>3, <1>4, <1>5 DEF CommandInv

LEMMA CopyStep ==
    ASSUME BuildInv, NEW b \in Builders, UNCHANGED <<request, staged>>,
           \/ Prepare(b)
           \/ \E s \in DOMAIN staged : CopyEntry(b, s)
           \/ SplitSymbols(b)
    PROVE  CommandInv(b)'
<1>1. CommandInv(b) /\ build[b].pc \in {"prepare", "copy"}
  BY DEF BuildInv, Prepare, CopyEntry, SplitSymbols, At
<1>2. /\ Shape(b)' /\ build'[b].pc \in {"prepare", "plan", "copy", "failed"}
      /\ build'[b].artifacts = build[b].artifacts
  <2>1. CASE Prepare(b)
    BY <1>1, <2>1 DEF Prepare, Goto, BuildInv, CommandInv, Shape
  <2>2. CASE \E s \in DOMAIN staged : CopyEntry(b, s)
    BY <1>1, <2>2 DEF CopyEntry, At, BuildInv, CommandInv, Shape
  <2>3. CASE SplitSymbols(b)
    BY <1>1, <2>3 DEF SplitSymbols, Goto, BuildInv, CommandInv, Shape
  <2>. QED BY <2>1, <2>2, <2>3
<1>3. TasksDone(b)'
  BY <1>1, <1>2, SameRequest DEF CommandInv, TasksDone, Made
<1>4. Vetted(b)'
  BY <1>2 DEF Vetted
<1>5. CopyKept(b)' /\ ReadInOrder(b)' /\ Confirmed(b)'
  BY <1>2 DEF CopyKept, ReadInOrder, Confirmed
<1>. QED BY <1>2, <1>3, <1>4, <1>5 DEF CommandInv

\* Nothing has been encoded when the layout is planned and audited.
LEMMA PlanStep ==
    ASSUME BuildInv, NEW b \in Builders, PlanLayout(b), Expands(Effective, Prepared)
    PROVE  CommandInv(b)'
<1>1. CommandInv(b) /\ build[b].pc = "plan" /\ UNCHANGED <<request, staged>> /\ staged \in Versions
  BY DEF BuildInv, PlanLayout, At
<1>2. /\ Shape(b)' /\ build'[b].pc = "audit" /\ build'[b].planned = Source(b)
      /\ build'[b].artifacts = build[b].artifacts /\ build'[b].copy = build[b].copy
  <2>1. DOMAIN build = Builders /\ Shape(b)
    BY <1>1 DEF BuildInv, CommandInv
  <2>2. build'[b] = [build[b] EXCEPT !.pc = "audit", !.planned = Source(b)]
    BY <2>1 DEF PlanLayout
  <2>. QED BY <2>1, <2>2 DEF Shape
<1>3. TasksDone(b)'
  BY <1>1, <1>2, SameRequest DEF CommandInv, TasksDone, Made
<1>4. Vetted(b)'
  BY <1>1, <1>2, SameRequest DEF Vetted
<1>5. IsSplit => CopyKept(b)'
  BY <1>2 DEF CopyKept, Source
<1>6. ~IsSplit => ReadInOrder(b)' /\ Confirmed(b)'
  <2>1. Upto(staged, staged)
    BY <1>1 DEF Upto, Versions
  <2>. QED BY <1>1, <1>2, <2>1, SameRequest DEF ReadInOrder, Confirmed, Source, Upto
<1>. QED BY <1>1, <1>2, <1>3, <1>4, <1>5, <1>6, SameRequest DEF CommandInv

LEMMA AuditStep ==
    ASSUME BuildInv, NEW b \in Builders, Audit(b), \A f \in Formats : Audited(Effective, Prepared, f)
    PROVE  CommandInv(b)'
<1>1. CommandInv(b) /\ build[b].pc = "audit" /\ UNCHANGED <<request, staged>> /\ staged \in Versions
  BY DEF BuildInv, Audit, At
<1>2. /\ Shape(b)' /\ build'[b].pc \in {"check", "done"} /\ build'[b].audited = Source(b)
      /\ build'[b].planned = build[b].planned
      /\ build'[b].artifacts = build[b].artifacts /\ build'[b].copy = build[b].copy
  <2>1. DOMAIN build = Builders /\ Shape(b)
    BY <1>1 DEF BuildInv, CommandInv
  <2>2. \E step \in {"check", "done"} : build'[b] = [build[b] EXCEPT !.pc = step, !.audited = Source(b)]
    BY <2>1 DEF Audit
  <2>. QED BY <2>1, <2>2 DEF Shape
<1>3. build[b].artifacts = <<>> /\ Made(b) = {} /\ Made(b)' = {}
  BY <1>1, <1>2 DEF CommandInv, TasksDone, Made
<1>4. TasksDone(b)'
  BY <1>1, <1>2, <1>3, SameRequest DEF CommandInv, TasksDone, Made
<1>5. Vetted(b)'
  BY <1>1, <1>2, SameRequest DEF Vetted, CommandInv
<1>6. IsSplit => CopyKept(b)'
  BY <1>1, <1>2, <1>3 DEF CopyKept, Source, CommandInv
<1>7. ~IsSplit => ReadInOrder(b)' /\ Confirmed(b)'
  <2>1. ~IsSplit => build[b].planned \in Versions /\ Upto(build[b].planned, staged)
    BY <1>1 DEF CommandInv, ReadInOrder
  <2>2. Upto(staged, staged)
    BY <1>1 DEF Upto, Versions
  <2>. QED BY <1>1, <1>2, <1>3, <2>1, <2>2, SameRequest DEF ReadInOrder, Confirmed, Source, Upto
<1>. QED BY <1>1, <1>2, <1>4, <1>5, <1>6, <1>7, SameRequest DEF CommandInv
\* The comparison before a package confirms every reading since the plan.
LEMMA CheckStep ==
    ASSUME BuildInv, NEW b \in Builders, CheckSource(b), Source(b) = build[b].planned
    PROVE  CommandInv(b)'
<1>1. /\ CommandInv(b) /\ build[b].pc = "check" /\ UNCHANGED <<request, staged>> /\ staged \in Versions
      /\ Goto(b, "encode") /\ Len(build[b].artifacts) < Len(Tasks)
  BY DEF BuildInv, CheckSource, At, Require
<1>2. /\ Shape(b)' /\ build'[b].pc = "encode"
      /\ build'[b].planned = build[b].planned /\ build'[b].audited = build[b].audited
      /\ build'[b].copy = build[b].copy /\ build'[b].artifacts = build[b].artifacts
  BY <1>1, Held
<1>3. TasksDone(b)'
  BY <1>1, <1>2, SameRequest DEF CommandInv, TasksDone, Made
<1>4. Vetted(b)'
  BY <1>1, <1>2, SameRequest DEF Vetted, CommandInv
<1>5. IsSplit => CopyKept(b)'
  BY <1>1, <1>2 DEF CopyKept, CommandInv, Made, Content, Same
<1>6. ASSUME ~IsSplit PROVE ReadInOrder(b)' /\ Confirmed(b)'
  <2>1. ReadInOrder(b) /\ build[b].planned = staged
    BY <1>1, <1>6 DEF CommandInv, Source
  <2>2. ReadInOrder(b)'
    BY <1>1, <1>2, <2>1, SameRequest DEF ReadInOrder, Made, Content, Upto
  <2>3. build[b].audited = build[b].planned
    BY <1>1, <2>1, BetweenEquals DEF ReadInOrder
  <2>4. ASSUME NEW i \in Made(b), NEW s \in DOMAIN Content(b, i)
        PROVE  Content(b, i)[s] = build[b].planned[s]
    <3>1. /\ s \in DOMAIN Tree /\ Content(b, i)[s] \in Nat
          /\ staged[s] <= Content(b, i)[s] /\ Content(b, i)[s] <= staged[s]
      BY <1>1, <2>1 DEF ReadInOrder
    <3>2. staged[s] \in Nat
      BY <1>1, <3>1 DEF Versions
    <3>. QED BY <2>1, <3>1, <3>2
  <2>5. Confirmed(b)'
    BY <1>2, <2>3, <2>4 DEF Confirmed, Made, Content, Same
  <2>. QED BY <2>2, <2>5
<1>. QED BY <1>1, <1>2, <1>3, <1>4, <1>5, <1>6, SameRequest DEF CommandInv

LEMMA ShippedEntries ==
    ASSUME NEW config, NEW tree, NEW f, NEW x \in Contents(config, tree, f)
    PROVE  x.source \in DOMAIN tree
<1>1. \E a \in Assignments(config, tree) : \E path :
        x = [component |-> a.component, source |-> a.source, destination |-> path]
  BY Zenon DEF Contents
<1>2. PICK a \in Assignments(config, tree) : x.source = a.source
  BY <1>1
<1>3. a.source \in DOMAIN tree
  BY DEF Assignments, Matches
<1>. QED BY <1>2, <1>3

LEMMA EncodeStep ==
    ASSUME BuildInv, NEW b \in Builders, Encode(b)
    PROVE  CommandInv(b)'
<1>1. /\ CommandInv(b) /\ build[b].pc = "encode" /\ UNCHANGED <<request, staged>> /\ staged \in Versions
      /\ DOMAIN build = Builders /\ Shape(b) /\ TasksDone(b)
  BY DEF BuildInv, Encode, At, CommandInv
<1>. DEFINE n == Len(build[b].artifacts)
            task == Tasks[n + 1]
            files == {x.source : x \in {y \in Contents(Effective, Prepared, task.format) :
                                            y.component = task.component}}
            new == [task |-> task, content |-> [s \in files |-> Source(b)[s]]]
<1>2. build' = [build EXCEPT ![b].pc = "check", ![b].artifacts = Append(@, new)]
  BY DEF Encode
<1>3. files \subseteq DOMAIN Prepared
  BY ShippedEntries
<1>. HIDE DEF files
<1>4. new.task = task /\ DOMAIN new.content = files /\ \A s \in files : new.content[s] = Source(b)[s]
  OBVIOUS
<1>. HIDE DEF new
<1>5. /\ Shape(b)' /\ build'[b].pc = "check"
      /\ build'[b].planned = build[b].planned /\ build'[b].audited = build[b].audited
      /\ build'[b].copy = build[b].copy /\ build'[b].artifacts = Append(build[b].artifacts, new)
  <2>1. build'[b] = [build[b] EXCEPT !.pc = "check", !.artifacts = Append(@, new)]
    BY <1>1, <1>2
  <2>. QED BY <1>1, <2>1 DEF Shape
<1>6. PICK S : build[b].artifacts \in Seq(S)
  BY <1>1 DEF TasksDone
<1>7. /\ build'[b].artifacts \in Seq(S \cup {new})
      /\ n \in Nat /\ Len(build'[b].artifacts) = n + 1
      /\ \A i \in 1 .. n : build'[b].artifacts[i] = build[b].artifacts[i]
      /\ build'[b].artifacts[n + 1] = new
  BY <1>5, <1>6, Grow
<1>8. TasksDone(b)'
  <2>1. \A i \in Made(b)' : i \in Made(b) \/ i = n + 1
    BY <1>7 DEF Made
  <2>2. \A i \in Made(b)' : build'[b].artifacts[i].task = Tasks[i]
    BY <1>1, <1>4, <1>7, <2>1 DEF TasksDone, Made
  <2>3. n + 1 <= Len(Tasks)
    BY <1>1, <1>7, SomeTask DEF TasksDone, BuildInv
  <2>. QED BY <1>1, <1>5, <1>7, <2>2, <2>3, SameRequest DEF TasksDone
<1>9. Vetted(b)'
  BY <1>1, <1>5, SameRequest DEF Vetted, CommandInv
<1>10. \A i \in Made(b)' :
            \/ i \in Made(b) /\ i <= n /\ Content(b, i)' = Content(b, i)
            \/ i = n + 1 /\ Content(b, i)' = new.content
  BY <1>7 DEF Made, Content
<1>11. IsSplit => CopyKept(b)'
  <2>1. ASSUME IsSplit, NEW i \in Made(b)' PROVE Same(Content(b, i)', build[b].copy)
    BY <1>1, <1>4, <1>10, <2>1 DEF CommandInv, CopyKept, Same, Source
  <2>. QED BY <1>1, <1>5, <2>1 DEF CommandInv, CopyKept, Same
<1>12. ASSUME ~IsSplit PROVE ReadInOrder(b)' /\ Confirmed(b)'
  <2>1. ReadInOrder(b) /\ Confirmed(b) /\ files \subseteq DOMAIN Tree /\ Source(b) = staged
    BY <1>1, <1>3, <1>12 DEF CommandInv, Prepared, Source
  <2>2. build[b].planned \in Versions /\ Upto(build[b].planned, staged)
    BY <1>1, <2>1 DEF ReadInOrder
  <2>3. ASSUME NEW i \in Made(b)', NEW s \in DOMAIN Content(b, i)'
        PROVE  /\ s \in DOMAIN Tree /\ Content(b, i)'[s] \in Nat
               /\ build[b].planned[s] <= Content(b, i)'[s] /\ Content(b, i)'[s] <= staged[s]
    <3>1. CASE i \in Made(b) /\ Content(b, i)' = Content(b, i)
      BY <1>1, <2>1, <3>1 DEF ReadInOrder
    <3>2. CASE Content(b, i)' = new.content
      <4>1. s \in DOMAIN Tree /\ Content(b, i)'[s] = staged[s]
        BY <1>4, <2>1, <3>2
      <4>. QED BY <1>1, <2>2, <4>1 DEF Upto, Versions
    <3>. QED BY <1>10, <3>1, <3>2
  <2>4. ReadInOrder(b)'
    BY <1>1, <1>5, <2>1, <2>2, <2>3, SameRequest DEF ReadInOrder, Upto
  <2>5. ASSUME NEW i \in Made(b)', i < n + 1 PROVE Same(Content(b, i)', build[b].planned)
    BY <1>1, <1>7, <1>10, <2>1, <2>5 DEF Confirmed
  <2>6. Confirmed(b)'
    BY <1>1, <1>5, <1>7, <2>1, <2>5 DEF Confirmed, Same
  <2>. QED BY <2>4, <2>6
<1>. QED BY <1>1, <1>5, <1>8, <1>9, <1>11, <1>12, SameRequest DEF CommandInv

LEMMA PublishStep ==
    ASSUME BuildInv, NEW b \in Builders, Publish(b)
    PROVE  CommandInv(b)' /\ PackagesMatchPlan'
<1>1. /\ CommandInv(b) /\ build[b].pc = "check" /\ UNCHANGED <<request, staged>> /\ staged \in Versions
      /\ Len(build[b].artifacts) = Len(Tasks) /\ PackagesMatchPlan
  BY DEF BuildInv, Publish, At
<1>2. Goto(b, "done") \/ Goto(b, "failed")
  BY DEF Publish
<1>3. CommandInv(b)'
  <2>1. CASE Goto(b, "failed")
    BY <1>1, <2>1, EarlyStep
  <2>2. CASE Goto(b, "done")
    <3>1. /\ Shape(b)' /\ build'[b].pc = "done" /\ build'[b].artifacts = build[b].artifacts
      BY <2>2, Held
    <3>2. TasksDone(b)' /\ Vetted(b)'
      BY <1>1, <3>1, SameRequest DEF CommandInv, TasksDone, Made, Vetted
    <3>3. CopyKept(b)' /\ ReadInOrder(b)' /\ Confirmed(b)'
      BY <3>1 DEF CopyKept, ReadInOrder, Confirmed
    <3>. QED BY <3>1, <3>2, <3>3 DEF CommandInv
  <2>. QED BY <1>2, <2>1, <2>2
<1>4. PackagesMatchPlan'
  <2>1. CASE UNCHANGED output
    BY <1>1, <2>1, SameRequest DEF PackagesMatchPlan
  <2>2. CASE output' = Result(b)
    <3>1. /\ output'.planned = build[b].planned /\ output'.audited = build[b].audited
          /\ output'.artifacts = build[b].artifacts
      BY <2>2 DEF Result
    <3>2. build[b].artifacts # <<>> /\ \E S : build[b].artifacts \in Seq(S)
      BY <1>1, SomeTask, EmptySeq DEF BuildInv, CommandInv, TasksDone
    <3>3. DOMAIN build[b].artifacts = Made(b)
      BY <3>2, LenProperties DEF Made
    <3>4. CASE IsSplit
      BY <1>1, <3>1, <3>3, <3>4 DEF CommandInv, CopyKept, PackagesMatchPlan, Same, Content
    <3>5. CASE ~IsSplit
      <4>1. Confirmed(b)
        BY <1>1, <3>5 DEF CommandInv
      <4>. QED BY <1>1, <3>1, <3>2, <3>3, <3>5, <4>1, SameRequest DEF Confirmed, PackagesMatchPlan, Same, Content
    <3>. QED BY <3>4, <3>5
  <2>. QED BY <2>1, <2>2 DEF Publish
<1>. QED BY <1>3, <1>4
\* Every step of a command keeps what is known of it.
LEMMA CommandStep ==
    ASSUME BuildInv, NEW b \in Builders, BuildStep(b) \/ Fail(b)
    PROVE  CommandInv(b)' /\ PackagesMatchPlan'
<1>1. UNCHANGED <<request, staged>> /\ CommandInv(b) /\ PackagesMatchPlan
  BY DEF BuildInv, BuildStep, Fail, Verify, CheckOutput, Prepare, CopyEntry, SplitSymbols, PlanLayout, Audit,
         CheckSource, Encode, Publish
<1>2. UNCHANGED output => PackagesMatchPlan'
  BY <1>1, SameRequest DEF PackagesMatchPlan
<1>3. CASE Fail(b)
  BY <1>1, <1>2, <1>3, EarlyStep DEF Fail
<1>4. CASE Verify(b)
  BY <1>1, <1>2, <1>4, EarlyStep DEF Verify, Require, At
<1>5. CASE CheckOutput(b)
  BY <1>1, <1>2, <1>5, EarlyStep DEF CheckOutput, Require, At
<1>6. CASE Prepare(b) \/ (\E s \in DOMAIN staged : CopyEntry(b, s)) \/ SplitSymbols(b)
  <2>1. CommandInv(b)'
    BY <1>1, <1>6, CopyStep
  <2>2. UNCHANGED output
    BY <1>6 DEF Prepare, CopyEntry, SplitSymbols
  <2>. QED BY <1>2, <2>1, <2>2
<1>7. CASE PlanLayout(b)
  <2>1. CASE Expands(Effective, Prepared)
    BY <1>2, <1>7, <2>1, PlanStep DEF PlanLayout
  <2>2. CASE ~Expands(Effective, Prepared)
    BY <1>1, <1>2, <1>7, <2>2, EarlyStep DEF PlanLayout
  <2>. QED BY <2>1, <2>2
<1>8. CASE Audit(b)
  <2>1. CASE \A f \in Formats : Audited(Effective, Prepared, f)
    BY <1>2, <1>8, <2>1, AuditStep DEF Audit
  <2>2. CASE ~\A f \in Formats : Audited(Effective, Prepared, f)
    BY <1>1, <1>2, <1>8, <2>2, EarlyStep DEF Audit
  <2>. QED BY <2>1, <2>2
<1>9. CASE CheckSource(b)
  <2>1. CASE Source(b) = build[b].planned
    BY <1>2, <1>9, <2>1, CheckStep DEF CheckSource
  <2>2. CASE Source(b) # build[b].planned
    BY <1>1, <1>2, <1>9, <2>2, EarlyStep DEF CheckSource, Require
  <2>. QED BY <2>1, <2>2
<1>10. CASE Encode(b)
  BY <1>2, <1>10, EncodeStep DEF Encode
<1>11. CASE Publish(b)
  BY <1>11, PublishStep
<1>. QED BY <1>3, <1>4, <1>5, <1>6, <1>7, <1>8, <1>9, <1>10, <1>11 DEF BuildStep

LEMMA Initially ==
    ASSUME BuildInit
    PROVE  BuildInv
<1>1. ASSUME NEW b \in Builders PROVE CommandInv(b)
  <2>1. build[b] = New /\ build[b].pc = "verify" /\ build[b].artifacts = <<>> /\ request \in Requests
    BY DEF BuildInit, New
  <2>2. Shape(b)
    BY <2>1 DEF Shape, New
  <2>3. <<>> \in Seq({}) /\ Len(build[b].artifacts) = 0 /\ Made(b) = {}
    BY <2>1 DEF Made
  <2>4. TasksDone(b)
    BY <2>1, <2>3, SomeTask DEF TasksDone
  <2>5. Vetted(b) /\ CopyKept(b) /\ ReadInOrder(b) /\ Confirmed(b)
    BY <2>1 DEF Vetted, CopyKept, ReadInOrder, Confirmed
  <2>. QED BY <2>2, <2>4, <2>5 DEF CommandInv
<1>2. request \in Requests /\ staged \in Versions /\ DOMAIN build = Builders
      /\ build = [b \in Builders |-> build[b]] /\ PackagesMatchPlan
  BY DEF BuildInit, Versions, Tree, PackagesMatchPlan
<1>. QED BY <1>1, <1>2 DEF BuildInv

-----------------------------------------------------------------------------
(***************************************************************************)
(* The theorems                                                            *)
(***************************************************************************)
\* In every reachable state, what each command holds was read in an order that
\* the comparisons confirm, and is planned and audited as far as it has come.
THEOREM BuildInvariant == BuildSpec => []BuildInv
<1>1. BuildInv /\ [BuildNext]_buildVars => BuildInv'
  <2>. SUFFICES ASSUME BuildInv, [BuildNext]_buildVars PROVE BuildInv'
    OBVIOUS
  <2>1. request' \in Requests /\ staged' \in Versions' /\ request' = request
    BY OnlyForward, SameRequest DEF BuildInv
  <2>2. CASE UNCHANGED <<build, output>>
    <3>1. \A b \in Builders : CommandInv(b)'
      BY <2>2, Unmoved
    <3>. QED BY <2>1, <2>2, <3>1, SameRequest DEF BuildInv, PackagesMatchPlan
  <2>3. CASE \E b \in Builders : BuildStep(b) \/ Fail(b)
    <3>1. PICK b \in Builders : BuildStep(b) \/ Fail(b)
      BY <2>3
    <3>2. \E held : build' = [build EXCEPT ![b] = held]
      BY <3>1 DEF BuildInv, BuildStep, Fail, Verify, CheckOutput, Prepare, CopyEntry, SplitSymbols, PlanLayout,
             Audit, CheckSource, Encode, Publish, Goto, Require
    <3>3. /\ DOMAIN build' = Builders /\ build' = [c \in Builders |-> build'[c]]
          /\ \A c \in Builders : c # b => UNCHANGED build[c]
      BY <3>2 DEF BuildInv
    <3>4. CommandInv(b)' /\ PackagesMatchPlan'
      BY <3>1, CommandStep
    <3>5. \A c \in Builders : CommandInv(c)'
      BY <3>3, <3>4, Unmoved
    <3>. QED BY <2>1, <3>3, <3>4, <3>5 DEF BuildInv
  <2>. QED BY <2>2, <2>3 DEF BuildNext, buildVars, Seal, Edit
<1>. QED BY <1>1, Initially, PTL DEF BuildSpec

\* What is packaged is what was planned and audited, though nothing locks the
\* tree, but for a package that is encoded last from the tree itself.
THEOREM PackagesAsPlanned == BuildSpec => []PackagesMatchPlan
<1>1. BuildInv => PackagesMatchPlan
  BY DEF BuildInv
<1>. QED BY <1>1, BuildInvariant, PTL

\* The output appears in one step, complete, and never changes again.
THEOREM OutputComplete == BuildSpec => OutputAppearsOnce
<1>1. BuildInv /\ [BuildNext]_buildVars =>
        [output' # output => /\ output = Missing
                             /\ [i \in DOMAIN output'.artifacts |-> output'.artifacts[i].task] = Tasks]_buildVars
  <2>. SUFFICES ASSUME BuildInv, BuildNext, output' # output
                PROVE  /\ output = Missing
                       /\ [i \in DOMAIN output'.artifacts |-> output'.artifacts[i].task] = Tasks
    OBVIOUS
  <2>1. PICK b \in Builders : Publish(b)
    BY DEF BuildNext, BuildStep, Fail, Seal, Edit, Verify, CheckOutput, Prepare, CopyEntry, SplitSymbols,
           PlanLayout, Audit, CheckSource, Encode
  <2>2. /\ output = Missing /\ output' = Result(b) /\ Len(build[b].artifacts) = Len(Tasks)
        /\ TasksDone(b) /\ request \in Requests
    BY <2>1 DEF Publish, BuildInv, CommandInv
  <2>3. output'.artifacts = build[b].artifacts
    BY <2>2 DEF Result
  <2>4. DOMAIN build[b].artifacts = 1 .. Len(Tasks)
    BY <2>2, LenProperties DEF TasksDone
  <2>. QED BY <2>2, <2>3, <2>4, SomeTask DEF TasksDone, Made
<1>. QED BY <1>1, BuildInvariant, PTL DEF BuildSpec, OutputAppearsOnce

\* The owners of what a link names are installed with the link.
LEMMA LinksStayInside ==
    ASSUME Expands(Effective, Prepared), NEW f \in Formats, NEW some \in Installations,
           NEW x \in Installed(f, some), IsLink(Prepared, x)
    PROVE  Named(Installed(f, some), LinkTarget(Prepared, x)) # {}
<1>. DEFINE contents == Contents(Effective, Prepared, f)
            target == LinkTarget(Prepared, x)
            owners == {y.component : y \in Named(contents, target)}
<1>1. x \in contents /\ x.component \in some
  BY DEF Installed
<1>2. LinksDeclared(Effective, Prepared, contents)
  BY DEF Expands
<1>3. owners # {} /\ owners \subseteq Declared(Effective, x.component)
  BY <1>1, <1>2 DEF LinksDeclared
<1>4. Declared(Effective, x.component) \subseteq some
  BY <1>1 DEF Declared, Installations
<1>5. PICK y \in Named(contents, target) : y.component \in some
  BY <1>3, <1>4
<1>6. y \in Named(Installed(f, some), target)
  BY <1>5 DEF Named, Installed
<1>. QED BY <1>6

\* Whichever components of an accepted plan are installed with everything they
\* require, no link dangles.
THEOREM InstalledLinksResolve == BuildSpec => []LinksResolve
<1>1. BuildInv => LinksResolve
  <2>. SUFFICES ASSUME BuildInv, Accepted PROVE LinksResolve
    BY DEF LinksResolve
  <2>1. Expands(Effective, Prepared)
    BY DEF Accepted, At, BuildInv, CommandInv, Vetted
  <2>. QED BY <2>1, LinksStayInside DEF LinksResolve
<1>. QED BY <1>1, BuildInvariant, PTL

-----------------------------------------------------------------------------
(***************************************************************************)
(* Chains of links.  Induction is by a least counterexample.               *)
(***************************************************************************)
LEMMA LeastNatural ==
    ASSUME NEW T \in SUBSET Nat, T # {}
    PROVE  \E n \in T : \A m \in T : n <= m
<1>1. PICK n \in T : \A m \in T : ~(<<m, n>> \in OpToRel(<, Nat))
  BY NatLessThanWellFounded, WFMin, Zenon
<1>2. \A m \in T : ~(m < n)
  BY <1>1 DEF OpToRel
<1>. QED BY <1>2

IsHops(h, last, tree, contents, path) ==
    h = [n \in 0 .. last |-> IF n = 0 THEN path ELSE Hop(tree, contents, h[n - 1])]

LEMMA HopsExist ==
    ASSUME NEW tree, NEW contents, NEW path, NEW last \in Nat
    PROVE  \E h : IsHops(h, last, tree, contents, path)
<1>. DEFINE T == {n \in Nat : ~ \E h : IsHops(h, n, tree, contents, path)}
<1>1. SUFFICES ASSUME T # {} PROVE FALSE
  OBVIOUS
<1>2. PICK n \in T : \A m \in T : n <= m
  BY <1>1, LeastNatural
<1>3. CASE n = 0
  <2>. DEFINE h == [i \in 0 .. 0 |-> path]
  <2>1. IsHops(h, 0, tree, contents, path)
    BY DEF IsHops
  <2>. QED BY <1>2, <1>3, <2>1
<1>4. CASE n # 0
  <2>1. n - 1 \in Nat /\ n - 1 \notin T
    BY <1>2, <1>4
  <2>2. PICK g : IsHops(g, n - 1, tree, contents, path)
    BY <2>1
  <2>. DEFINE h == [i \in 0 .. n |-> IF i = 0 THEN path ELSE Hop(tree, contents, g[i - 1])]
  <2>3. \A i \in 0 .. n - 1 : h[i] = g[i]
    BY <1>2, <2>1, <2>2 DEF IsHops
  <2>4. h = [i \in 0 .. n |-> IF i = 0 THEN path ELSE Hop(tree, contents, h[i - 1])]
    <3>1. ASSUME NEW i \in 0 .. n
          PROVE  h[i] = IF i = 0 THEN path ELSE Hop(tree, contents, h[i - 1])
      <4>1. h[i] = IF i = 0 THEN path ELSE Hop(tree, contents, g[i - 1])
        OBVIOUS
      <4>2. CASE i # 0
        <5>1. i - 1 \in 0 .. n - 1
          BY <1>2, <4>2
        <5>. HIDE DEF h
        <5>. QED BY <2>3, <4>1, <4>2, <5>1
      <4>. HIDE DEF h
      <4>. QED BY <4>1, <4>2
    <3>. HIDE DEF h
    <3>2. DOMAIN h = 0 .. n /\ h = [i \in DOMAIN h |-> h[i]]
      BY DEF h
    <3>. QED BY <3>1, <3>2
  <2>. HIDE DEF h
  <2>5. IsHops(h, n, tree, contents, path)
    BY <2>4 DEF IsHops
  <2>. QED BY <1>2, <2>5
<1>. QED BY <1>2, <1>3, <1>4

Hops(tree, contents, path) == CHOOSE h : IsHops(h, Cardinality(contents), tree, contents, path)

LEMMA FollowHops ==
    ASSUME NEW tree, NEW contents, NEW path
    PROVE  Follow(tree, contents, path) = Hops(tree, contents, path)[Cardinality(contents)]
BY DEF Follow, Hops, IsHops

LEMMA HopsStep ==
    ASSUME NEW tree, NEW contents, NEW path, Cardinality(contents) \in Nat
    PROVE  /\ Hops(tree, contents, path)[0] = path
           /\ \A n \in 0 .. Cardinality(contents) - 1 :
                Hops(tree, contents, path)[n + 1] = Hop(tree, contents, Hops(tree, contents, path)[n])
<1>. DEFINE last == Cardinality(contents)
            h == Hops(tree, contents, path)
<1>1. IsHops(h, last, tree, contents, path)
  BY HopsExist DEF Hops
<1>. HIDE DEF h
<1>2. \A n \in 0 .. last : h[n] = IF n = 0 THEN path ELSE Hop(tree, contents, h[n - 1])
  BY <1>1 DEF IsHops
<1>3. h[0] = path
  BY <1>2
<1>4. ASSUME NEW n \in 0 .. last - 1 PROVE h[n + 1] = Hop(tree, contents, h[n])
  <2>1. n + 1 \in 0 .. last /\ n + 1 # 0 /\ (n + 1) - 1 = n
    OBVIOUS
  <2>. QED BY <1>2, <2>1
<1>. QED BY <1>3, <1>4 DEF h

\* A path at which no link of `contents' is found.
LinkAt(tree, contents, path) == \E y \in contents : y.destination = path /\ IsLink(tree, y)

LEMMA HopStays ==
    ASSUME NEW tree, NEW contents, NEW path, ~LinkAt(tree, contents, path)
    PROVE  Hop(tree, contents, path) = path
BY DEF Hop, LinkAt

LEMMA HopLeads ==
    ASSUME NEW tree, NEW contents, NEW path, LinkAt(tree, contents, path)
    PROVE  \E y \in contents : /\ y.destination = path /\ IsLink(tree, y)
                               /\ Hop(tree, contents, path) = LinkTarget(tree, y)
<1>. DEFINE links == {x \in contents : x.destination = path /\ IsLink(tree, x)}
<1>1. links # {}
  BY DEF LinkAt
<1>2. (CHOOSE x \in links : TRUE) \in links
  BY <1>1
<1>. QED BY <1>1, <1>2 DEF Hop

\* A chain that has left the links stays where it is.
LEMMA ChainEnds ==
    ASSUME NEW tree, NEW contents, NEW path, Cardinality(contents) \in Nat,
           NEW n \in 0 .. Cardinality(contents),
           ~LinkAt(tree, contents, Hops(tree, contents, path)[n]),
           NEW k \in n .. Cardinality(contents)
    PROVE  Hops(tree, contents, path)[k] = Hops(tree, contents, path)[n]
<1>. DEFINE h == Hops(tree, contents, path)
            T == {j \in Nat : j >= n /\ j <= Cardinality(contents) /\ h[j] # h[n]}
<1>. HIDE DEF h
<1>1. SUFFICES ASSUME T # {} PROVE FALSE
  BY DEF h
<1>2. PICK j \in T : \A i \in T : j <= i
  BY <1>1, LeastNatural
<1>3. j > n /\ j - 1 \in 0 .. Cardinality(contents) - 1 /\ j - 1 \notin T
  BY <1>2
<1>4. h[j - 1] = h[n]
  BY <1>2, <1>3
<1>5. h[(j - 1) + 1] = Hop(tree, contents, h[j - 1])
  BY <1>3, HopsStep DEF h
<1>6. Hop(tree, contents, h[n]) = h[n]
  BY HopStays DEF h
<1>. QED BY <1>2, <1>3, <1>4, <1>5, <1>6

\* A chain that meets the same link again never leaves the links.
LEMMA ChainRepeats ==
    ASSUME NEW tree, NEW contents, NEW path, Cardinality(contents) \in Nat,
           NEW j \in 0 .. Cardinality(contents), NEW i \in 0 .. j - 1,
           Hops(tree, contents, path)[i] = Hops(tree, contents, path)[j],
           NEW n \in 0 .. Cardinality(contents)
    PROVE  \E l \in 0 .. j - 1 : Hops(tree, contents, path)[n] = Hops(tree, contents, path)[l]
<1>. DEFINE h == Hops(tree, contents, path)
            T == {k \in Nat : k <= Cardinality(contents) /\ ~ \E l \in 0 .. j - 1 : h[k] = h[l]}
<1>. HIDE DEF h
<1>1. SUFFICES ASSUME T # {} PROVE FALSE
  BY DEF h
<1>2. PICK k \in T : \A m \in T : k <= m
  BY <1>1, LeastNatural
<1>3. k >= j /\ k - 1 \in 0 .. Cardinality(contents) - 1 /\ k - 1 \notin T
  BY <1>2
<1>4. PICK l \in 0 .. j - 1 : h[k - 1] = h[l]
  BY <1>2, <1>3
<1>5. h[(k - 1) + 1] = Hop(tree, contents, h[k - 1]) /\ h[l + 1] = Hop(tree, contents, h[l])
  BY <1>3, HopsStep DEF h
<1>6. h[k] = h[l + 1]
  BY <1>2, <1>4, <1>5
<1>7. CASE l + 1 = j
  BY <1>2, <1>6, <1>7 DEF h
<1>8. CASE l + 1 # j
  <2>1. l + 1 \in 0 .. j - 1
    BY <1>8
  <2>. QED BY <1>2, <1>6, <2>1
<1>. QED BY <1>7, <1>8

\* Every link at the path belongs to the components `some'.
Inside(tree, contents, some, path) ==
    \A y \in contents : y.destination = path /\ IsLink(tree, y) => y.component \in some

\* Among the contents of some components, a path whose links are inside leads
\* where it leads among all contents.
LinksAt(tree, contents, path) == {x \in contents : x.destination = path /\ IsLink(tree, x)}
FirstOf(links) == CHOOSE x \in links : TRUE

LEMMA HopFirst ==
    ASSUME NEW tree, NEW contents, NEW path
    PROVE  Hop(tree, contents, path)
             = IF LinksAt(tree, contents, path) = {} THEN path
               ELSE LinkTarget(tree, FirstOf(LinksAt(tree, contents, path)))
BY DEF Hop, LinksAt, FirstOf

LEMMA HopInside ==
    ASSUME NEW tree, NEW contents, NEW some, NEW path, Inside(tree, contents, some, path)
    PROVE  Hop(tree, {x \in contents : x.component \in some}, path) = Hop(tree, contents, path)
<1>1. LinksAt(tree, {x \in contents : x.component \in some}, path) = LinksAt(tree, contents, path)
  BY Zenon DEF Inside, LinksAt
<1>. QED BY <1>1, HopFirst, Zenon

\* A link that is inside leads to a path whose links are inside, because the
\* links of a plan lead into required packages.
LEMMA HopStaysInside ==
    ASSUME NEW config, NEW tree, NEW contents, LinksDeclared(config, tree, contents),
           NEW some, \A c \in some : config.depends[c] \subseteq some,
           NEW path, Inside(tree, contents, some, path)
    PROVE  Inside(tree, contents, some, Hop(tree, contents, path))
<1>1. CASE ~LinkAt(tree, contents, path)
  BY <1>1, HopStays
<1>2. CASE LinkAt(tree, contents, path)
  <2>1. PICK z \in contents : /\ z.destination = path /\ IsLink(tree, z)
                              /\ Hop(tree, contents, path) = LinkTarget(tree, z)
    BY <1>2, HopLeads
  <2>2. z.component \in some
    BY <2>1 DEF Inside
  <2>3. {y.component : y \in Named(contents, LinkTarget(tree, z))} \subseteq Declared(config, z.component)
    BY <2>1 DEF LinksDeclared
  <2>4. Declared(config, z.component) \subseteq some
    BY <2>2 DEF Declared
  <2>5. ASSUME NEW y \in contents, y.destination = LinkTarget(tree, z) PROVE y.component \in some
    <3>1. y \in Named(contents, LinkTarget(tree, z))
      BY <2>5 DEF Named
    <3>. QED BY <2>3, <2>4, <3>1
  <2>. QED BY <2>1, <2>5 DEF Inside
<1>. QED BY <1>1, <1>2

\* From a path whose links are inside, the chains of an installation are those
\* of the whole plan.
LEMMA ChainStaysInside ==
    ASSUME NEW config, NEW tree, NEW contents, IsFiniteSet(contents),
           LinksDeclared(config, tree, contents),
           NEW some, \A c \in some : config.depends[c] \subseteq some,
           NEW path, Inside(tree, contents, some, path),
           NEW installed, installed = {x \in contents : x.component \in some},
           NEW n \in 0 .. Cardinality(installed)
    PROVE  /\ Hops(tree, installed, path)[n] = Hops(tree, contents, path)[n]
           /\ Inside(tree, contents, some, Hops(tree, contents, path)[n])
<1>. DEFINE h == Hops(tree, contents, path)
            g == Hops(tree, installed, path)
            Joint(k) == g[k] = h[k] /\ Inside(tree, contents, some, h[k])
            T == {k \in Nat : k <= Cardinality(installed) /\ ~Joint(k)}
<1>1. /\ Cardinality(contents) \in Nat /\ Cardinality(installed) \in Nat
      /\ Cardinality(installed) <= Cardinality(contents)
  BY FS_Subset, FS_CardinalityType
<1>2. h[0] = path /\ g[0] = path
  BY <1>1, HopsStep
<1>3. ASSUME NEW k \in 0 .. Cardinality(installed) - 1
      PROVE  g[k + 1] = Hop(tree, installed, g[k]) /\ h[k + 1] = Hop(tree, contents, h[k])
  BY <1>1, HopsStep
<1>. HIDE DEF h, g
<1>4. \A k : k \in T <=> k \in Nat /\ k <= Cardinality(installed) /\ ~Joint(k)
  BY Zenon
<1>. HIDE DEF T, Joint
<1>5. T = {}
  <2>1. SUFFICES ASSUME T # {} PROVE FALSE
    OBVIOUS
  <2>2. PICK k \in T : \A m \in T : k <= m
    BY <1>4, <2>1, LeastNatural, T \in SUBSET Nat
  <2>3. Joint(0)
    BY <1>2 DEF Joint
  <2>4. k \in Nat /\ k # 0 /\ k - 1 \in 0 .. Cardinality(installed) - 1 /\ Joint(k - 1)
    <3>1. k \in Nat /\ k <= Cardinality(installed)
      BY <1>4, <2>2
    <3>2. k # 0
      BY <1>4, <2>2, <2>3
    <3>3. k - 1 \notin T
      BY <2>2, <3>1, <3>2
    <3>4. /\ k - 1 \in Nat /\ k - 1 <= Cardinality(installed)
          /\ k - 1 \in 0 .. Cardinality(installed) - 1
      BY <1>1, <3>1, <3>2
    <3>. QED BY <1>4, <3>1, <3>2, <3>3, <3>4, Zenon
  <2>5. g[k - 1] = h[k - 1] /\ Inside(tree, contents, some, h[k - 1])
    BY <2>4, Zenon DEF Joint
  <2>6. g[k] = Hop(tree, installed, h[k - 1]) /\ h[k] = Hop(tree, contents, h[k - 1])
    <3>1. (k - 1) + 1 = k
      BY <2>4
    <3>. QED BY <1>3, <2>4, <2>5, <3>1
  <2>7. g[k] = h[k]
    BY <2>5, <2>6, HopInside
  <2>8. Inside(tree, contents, some, h[k])
    BY <2>5, <2>6, HopStaysInside
  <2>9. Joint(k)
    BY <2>7, <2>8, Zenon DEF Joint
  <2>. QED BY <1>4, <2>2, <2>9
<1>6. Joint(n)
  BY <1>1, <1>4, <1>5
<1>. QED BY <1>6, Zenon DEF Joint, h, g
\* A chain that ends, ends at the same path among the contents of an installation,
\* although it is followed for fewer steps there: meeting more links than are
\* installed, it would meet one of them again and not end.
LEMMA FollowInside ==
    ASSUME NEW config, NEW tree, NEW contents, IsFiniteSet(contents),
           LinksDeclared(config, tree, contents),
           NEW some, \A c \in some : config.depends[c] \subseteq some,
           NEW path, Inside(tree, contents, some, path),
           ~LinkAt(tree, contents, Follow(tree, contents, path)),
           NEW installed, installed = {x \in contents : x.component \in some}
    PROVE  /\ Follow(tree, installed, path) = Follow(tree, contents, path)
           /\ Inside(tree, contents, some, Follow(tree, installed, path))
<1>. DEFINE h == Hops(tree, contents, path)
            m == Cardinality(contents)
            k == Cardinality(installed)
<1>1. m \in Nat /\ k \in Nat /\ k <= m /\ IsFiniteSet(installed)
  BY FS_Subset, FS_CardinalityType
<1>2. /\ Follow(tree, contents, path) = h[m]
      /\ Follow(tree, installed, path) = h[k]
      /\ Inside(tree, contents, some, h[k])
  <2>1. k \in 0 .. k
    BY <1>1
  <2>2. /\ Hops(tree, installed, path)[k] = Hops(tree, contents, path)[k]
        /\ Inside(tree, contents, some, Hops(tree, contents, path)[k])
    BY <2>1, ChainStaysInside
  <2>. QED BY <2>2, FollowHops
<1>3. \A n \in 0 .. k : n \in 0 .. m /\ (~LinkAt(tree, contents, h[n]) => h[k] = h[n] /\ h[m] = h[n])
  <2>. SUFFICES ASSUME NEW n \in 0 .. k, ~LinkAt(tree, contents, h[n])
                PROVE  h[k] = h[n] /\ h[m] = h[n]
    BY <1>1
  <2>1. n \in 0 .. m /\ k \in n .. m /\ m \in n .. m
    BY <1>1
  <2>. QED BY <1>1, <2>1, ChainEnds
<1>4. ASSUME NEW j \in 0 .. k, NEW i \in 0 .. j - 1, h[i] = h[j]
      PROVE  \E l \in 0 .. k : h[m] = h[l]
  <2>1. j \in 0 .. m /\ m \in 0 .. m
    BY <1>1
  <2>2. PICK l \in 0 .. j - 1 : h[m] = h[l]
    BY <1>1, <1>4, <2>1, ChainRepeats
  <2>3. l \in 0 .. k
    BY <1>1
  <2>. QED BY <2>2, <2>3
<1>5. ASSUME NEW n \in 0 .. k
      PROVE  Inside(tree, contents, some, h[n])
  <2>1. Inside(tree, contents, some, Hops(tree, contents, path)[n])
    BY <1>5, ChainStaysInside
  <2>. QED BY <2>1
<1>. HIDE DEF h, m, k
<1>6. h[k] = h[m]
  <2>1. CASE ~LinkAt(tree, contents, h[k])
    BY <1>1, <1>3, <2>1
  <2>2. CASE LinkAt(tree, contents, h[k])
    <3>1. \A n \in 0 .. k : LinkAt(tree, contents, h[n])
      BY <1>3, <2>2, Zenon
    <3>2. \A n \in 0 .. k : \E y \in installed : y.destination = h[n]
      <4>. TAKE n \in 0 .. k
      <4>1. PICK y \in contents : y.destination = h[n] /\ IsLink(tree, y)
        BY <3>1 DEF LinkAt
      <4>2. y \in installed
        BY <1>5, <4>1 DEF Inside
      <4>. QED BY <4>1, <4>2
    <3>. DEFINE q == [n \in 0 .. k |-> CHOOSE y \in installed : y.destination = h[n]]
    <3>3. q \in [0 .. k -> installed] /\ \A n \in 0 .. k : q[n].destination = h[n]
      BY <3>2
    <3>. HIDE DEF q
    <3>4. IsFiniteSet(0 .. k) /\ Cardinality(installed) < Cardinality(0 .. k)
      BY <1>1, FS_Interval DEF k
    <3>5. PICK i, j \in 0 .. k : i # j /\ q[i] = q[j]
      <4>. DEFINE S == 0 .. k
      <4>1. IsFiniteSet(S) /\ Cardinality(installed) < Cardinality(S) /\ q \in [S -> installed]
        BY <3>3, <3>4
      <4>. HIDE DEF S
      <4>2. \E i, j \in S : i # j /\ q[i] = q[j]
        BY <1>1, <4>1, FS_PigeonHole
      <4>. QED BY <4>2 DEF S
    <3>6. i \in 0 .. j - 1 \/ j \in 0 .. i - 1
      BY <1>1, <3>5 DEF k
    <3>8. h[i] = h[j]
      BY <3>3, <3>5, Zenon
    <3>7. PICK l \in 0 .. k : h[m] = h[l]
      BY <1>4, <3>6, <3>8
    <3>. QED BY <1>2, <3>1, <3>7
  <2>. QED BY <2>1, <2>2
<1>. QED BY <1>2, <1>6

-----------------------------------------------------------------------------
(***************************************************************************)
(* What is planned is finite                                               *)
(***************************************************************************)
LEMMA FiniteImage ==
    ASSUME NEW S, IsFiniteSet(S), NEW g, DOMAIN g = S, g = [x \in S |-> g[x]]
    PROVE  IsFiniteSet({g[x] : x \in S})
<1>. DEFINE T == {g[x] : x \in S}
<1>1. g \in [S -> T]
  OBVIOUS
<1>2. g \in Surjection(S, T)
  BY <1>1 DEF Surjection
<1>. HIDE DEF T
<1>3. IsFiniteSet(T)
  BY <1>2, FS_Surjection
<1>. QED BY <1>3 DEF T

LEMMA FiniteAssignments ==
    ASSUME NEW config, NEW tree, IsFiniteSet(Components(config)), IsFiniteSet(DOMAIN tree),
           \A c \in Components(config) : IsFiniteSet(config.files[c])
    PROVE  /\ IsFiniteSet(Assignments(config, tree))
           /\ \A a \in Assignments(config, tree) :
                a.source \in DOMAIN tree /\ a.component \in Components(config)
<1>. DEFINE cs == Components(config)
            ss == DOMAIN tree
            of == [c \in cs |-> config.files[c]]
            ms == UNION {of[c] : c \in cs}
            ts == cs \X (ms \X ss)
            g == [t \in ts |-> [component |-> t[1], mapping |-> t[2][1], source |-> t[2][2]]]
<1>1. IsFiniteSet({of[c] : c \in cs}) /\ \A m \in {of[c] : c \in cs} : IsFiniteSet(m)
  <2>1. of = [c \in cs |-> of[c]] /\ DOMAIN of = cs
    OBVIOUS
  <2>2. \A c \in cs : IsFiniteSet(of[c])
    OBVIOUS
  <2>. HIDE DEF of, cs
  <2>. QED BY <2>1, <2>2, FiniteImage DEF cs
<1>2. IsFiniteSet(ms)
  <2>. DEFINE W == {of[c] : c \in cs}
  <2>1. IsFiniteSet(W) /\ \A m \in W : IsFiniteSet(m)
    BY <1>1
  <2>. HIDE DEF W
  <2>2. IsFiniteSet(UNION W)
    BY <2>1, FS_UNION
  <2>. QED BY <2>2 DEF W
<1>3. IsFiniteSet(cs \X (ms \X ss))
  <2>. HIDE DEF ms
  <2>. QED BY <1>2, FS_Product
<1>4. IsFiniteSet({g[t] : t \in ts})
  <2>1. IsFiniteSet(ts) /\ DOMAIN g = ts /\ g = [t \in ts |-> g[t]]
    BY <1>3
  <2>. HIDE DEF g, ts
  <2>. QED BY <2>1, FiniteImage
<1>5. ASSUME NEW a \in Assignments(config, tree)
      PROVE  a.source \in ss /\ a.component \in cs /\ a \in {g[t] : t \in ts}
  <2>. DEFINE Of(c, m) == {[component |-> c, mapping |-> m, source |-> s] : s \in Matches(tree, m)}
              In(c) == UNION {Of(c, m) : m \in config.files[c]}
  <2>0. a \in UNION {In(c) : c \in cs}
    BY DEF Assignments
  <2>1. PICK c \in cs : a \in In(c)
    <3>. HIDE DEF In
    <3>. QED BY <2>0
  <2>2. PICK m \in config.files[c] : a \in Of(c, m)
    <3>. HIDE DEF Of
    <3>. QED BY <2>1
  <2>3. PICK s \in Matches(tree, m) : a = [component |-> c, mapping |-> m, source |-> s]
    BY <2>2
  <2>4. s \in ss
    BY DEF Matches
  <2>5. m \in ms
    OBVIOUS
  <2>. HIDE DEF cs, ms, ss
  <2>6. <<c, <<m, s>>>> \in ts /\ g[<<c, <<m, s>>>>] = a
    BY <2>3, <2>4, <2>5
  <2>. QED BY <2>3, <2>4, <2>6
<1>6. Assignments(config, tree) \subseteq {g[t] : t \in ts}
  BY <1>5
<1>. HIDE DEF g, ts
<1>7. IsFiniteSet(Assignments(config, tree))
  BY <1>4, <1>6, FS_Subset
<1>. QED BY <1>5, <1>7

LEMMA FiniteContents ==
    ASSUME NEW config, NEW tree, IsFiniteSet(Components(config)), IsFiniteSet(DOMAIN tree),
           \A c \in Components(config) : IsFiniteSet(config.files[c]), NEW f
    PROVE  /\ IsFiniteSet(Contents(config, tree, f))
           /\ \A x \in Contents(config, tree, f) :
                x.source \in DOMAIN tree /\ x.component \in Components(config)
<1>. DEFINE assigned == Assignments(config, tree)
            g == [a \in assigned |->
                    [component   |-> a.component, source |-> a.source,
                     destination |-> a.mapping.destination[f]
                        \o SubSeq(a.source, Len(a.mapping.source) + 1, Len(a.source))]]
<1>1. /\ IsFiniteSet(assigned)
      /\ \A a \in assigned : a.source \in DOMAIN tree /\ a.component \in Components(config)
  BY FiniteAssignments
<1>2. Contents(config, tree, f) = {g[a] : a \in assigned}
  BY DEF Contents
<1>3. \A a \in assigned : g[a].source = a.source /\ g[a].component = a.component
  OBVIOUS
<1>4. ASSUME NEW x \in Contents(config, tree, f)
      PROVE  x.source \in DOMAIN tree /\ x.component \in Components(config)
  <2>. HIDE DEF g
  <2>. QED BY <1>1, <1>2, <1>3
<1>5. IsFiniteSet({g[a] : a \in assigned})
  <2>1. IsFiniteSet(assigned) /\ DOMAIN g = assigned /\ g = [a \in assigned |-> g[a]]
    BY <1>1
  <2>. HIDE DEF g, assigned
  <2>. QED BY <2>1, FiniteImage
<1>. HIDE DEF g, assigned
<1>. QED BY <1>2, <1>4, <1>5

\* The configuration and the tree that are planned are finite, and the run path
\* of every entry is a sequence.
LEMMA FinitePlan ==
    ASSUME request \in Requests, NEW f \in Formats
    PROVE  /\ IsFiniteSet(Contents(Effective, Prepared, f))
           /\ \A x \in Contents(Effective, Prepared, f) :
                /\ Elf(Prepared, x).runpath \in Seq(Seq(STRING))
                /\ x.component # NoComponent
<1>1. /\ IsFiniteSet(Components(Config)) /\ DOMAIN Config.files = Components(Config)
      /\ \A c \in Components(Config) : IsFiniteSet(Config.files[c])
      /\ IsFiniteSet(DOMAIN Tree)
      /\ \A s \in DOMAIN Tree : Tree[s].elf.runpath \in Seq(Seq(STRING))
      /\ NoComponent \notin Components(Config)
      /\ Config = [debug |-> Config.debug, depends |-> Config.depends, files |-> Config.files]
  BY BuildAssumption DEF Config, Tree, WellFormed
<1>2. Loadable(Tree) \subseteq DOMAIN Tree /\ IsFiniteSet(Loadable(Tree))
  <2>1. Loadable(Tree) \subseteq DOMAIN Tree
    BY DEF Loadable
  <2>. QED BY <1>1, <2>1, FS_Subset
<1>3. IsFiniteSet(DOMAIN Prepared)
  <2>1. CASE ~IsSplit
    BY <1>1, <2>1 DEF Prepared
  <2>2. CASE IsSplit
    <3>. DEFINE g == [l \in Loadable(Tree) |-> Companion(l)]
    <3>1. DOMAIN Prepared = DOMAIN Tree \cup {g[l] : l \in Loadable(Tree)}
      BY <2>2 DEF Prepared, SplitTree
    <3>2. DOMAIN g = Loadable(Tree) /\ g = [l \in Loadable(Tree) |-> g[l]]
      OBVIOUS
    <3>. HIDE DEF g
    <3>3. IsFiniteSet({g[l] : l \in Loadable(Tree)})
      BY <1>2, <3>2, FiniteImage
    <3>. QED BY <1>1, <3>1, <3>3, FS_Union
  <2>. QED BY <2>1, <2>2
<1>4. ASSUME NEW s \in DOMAIN Prepared PROVE Prepared[s].elf.runpath \in Seq(Seq(STRING))
  <2>1. CASE ~IsSplit
    BY <1>1, <2>1 DEF Prepared
  <2>2. CASE IsSplit
    <3>1. s \in DOMAIN SplitTree(Tree) /\ Prepared[s] = SplitTree(Tree)[s]
      BY <2>2 DEF Prepared
    <3>2. CASE s \in DOMAIN Tree
      BY <1>1, <3>1, <3>2 DEF SplitTree
    <3>3. CASE s \notin DOMAIN Tree
      <4>1. Prepared[s] = [type |-> "file", elf |-> NoElf]
        BY <3>1, <3>3 DEF SplitTree
      <4>2. NoElf.runpath = <<>>
        BY DEF NoElf
      <4>3. Prepared[s].elf = NoElf
        BY <4>1
      <4>. QED BY <4>2, <4>3, EmptySeq
    <3>. QED BY <3>2, <3>3
  <2>. QED BY <2>1, <2>2
<1>5. /\ Components(Effective) = Components(Config)
      /\ \A c \in Components(Effective) : IsFiniteSet(Effective.files[c])
  <2>1. CASE ~IsSplit
    BY <1>1, <2>1 DEF Effective
  <2>2. CASE IsSplit
    <3>. DEFINE path(s, t) ==
                    (CHOOSE x \in Contents(Base(Config), Tree, t) : x.source = s).destination
                g == [l \in Loadable(Tree) |->
                        [source |-> Companion(l),
                         destination |-> [t \in Formats |-> DebugRoot \o path(l, t) \o <<"debug">>]]]
                companions == {g[l] : l \in Loadable(Tree)}
    <3>1. Effective = [Config EXCEPT !.debug = NoComponent, !.files[Config.debug] = companions]
      BY <2>2 DEF Effective, SplitConfig
    <3>2. DOMAIN g = Loadable(Tree) /\ g = [l \in Loadable(Tree) |-> g[l]]
      OBVIOUS
    <3>. HIDE DEF g
    <3>3. IsFiniteSet(companions)
      BY <1>2, <3>2, FiniteImage
    <3>. HIDE DEF companions
    <3>4. /\ Effective.depends = Config.depends
          /\ Effective.files = [Config.files EXCEPT ![Config.debug] = companions]
      BY <1>1, <3>1
    <3>. QED BY <1>1, <3>3, <3>4 DEF Components
  <2>. QED BY <2>1, <2>2
<1>6. /\ IsFiniteSet(Contents(Effective, Prepared, f))
      /\ \A x \in Contents(Effective, Prepared, f) :
            x.source \in DOMAIN Prepared /\ x.component \in Components(Effective)
  BY <1>1, <1>3, <1>5, FiniteContents
<1>. QED BY <1>1, <1>4, <1>5, <1>6 DEF Elf
-----------------------------------------------------------------------------
(***************************************************************************)
(* What the loader finds                                                   *)
(***************************************************************************)
\* The directories that are searched are a sequence.
LEMMA SearchIsSequence ==
    ASSUME request \in Requests, NEW f \in Formats, NEW x \in Contents(Effective, Prepared, f)
    PROVE  \E n \in Nat : DOMAIN Search(Prepared, x, f) = 1 .. n
<1>. DEFINE dirs == RunDirs(Prepared, x)
            S == Seq(STRING) \cup {dirs[i] : i \in DOMAIN dirs}
<1>1. dirs \in Seq(S)
  <2>1. Elf(Prepared, x).runpath \in Seq(Seq(STRING))
    BY FinitePlan
  <2>2. DOMAIN dirs = 1 .. Len(Elf(Prepared, x).runpath) /\ Len(Elf(Prepared, x).runpath) \in Nat
    BY <2>1, LenProperties DEF RunDirs
  <2>3. dirs = [i \in DOMAIN dirs |-> dirs[i]]
    BY DEF RunDirs
  <2>. HIDE DEF dirs
  <2>4. dirs \in [1 .. Len(Elf(Prepared, x).runpath) -> S]
    BY <2>2, <2>3
  <2>. HIDE DEF S
  <2>. QED BY <2>2, <2>4, SeqDef
<1>2. PackageDirs[f] \in Seq(S) /\ SystemDirs \in Seq(S)
  <2>. HIDE DEF dirs
  <2>1. Seq(STRING) \subseteq S
    OBVIOUS
  <2>2. PackageDirs[f] \in Seq(Seq(STRING)) /\ SystemDirs \in Seq(Seq(STRING))
    BY BuildAssumption
  <2>. HIDE DEF S
  <2>. QED BY <2>1, <2>2, SeqMonotonic
<1>. HIDE DEF dirs, S
<1>3. Search(Prepared, x, f) \in Seq(S)
  BY <1>1, <1>2, ConcatProperties DEF Search, dirs
<1>. QED BY <1>3, LenProperties

\* Finding is finite.
LEMMA FoundFinite ==
    ASSUME NEW tree, NEW contents, IsFiniteSet(contents), NEW dir, NEW soname
    PROVE  IsFiniteSet(Found(tree, contents, dir, soname))
<1>. DEFINE here == {y \in contents : y.destination = Follow(tree, contents, Append(dir, soname))}
            g == [y \in here |-> [component |-> y.component, destination |-> y.destination]]
<1>1. IsFiniteSet({g[y] : y \in here})
  <2>1. IsFiniteSet(here)
    BY FS_Subset
  <2>2. DOMAIN g = here /\ g = [y \in here |-> g[y]]
    OBVIOUS
  <2>. HIDE DEF g, here
  <2>. QED BY <2>1, <2>2, FiniteImage
<1>2. Packaged(tree, contents, dir, soname) = {g[y] : y \in here}
  BY DEF Packaged
<1>3. IsFiniteSet(FromSysroot(dir, soname))
  <2>. DEFINE paths == {q \in DOMAIN Sysroot : dir \in Range(SystemDirs) /\ NamedIn(dir, soname, q)}
              h == [q \in paths |-> [component |-> NoComponent, destination |-> Sysroot[q]]]
  <2>1. IsFiniteSet(paths)
    BY BuildAssumption, FS_Subset
  <2>2. DOMAIN h = paths /\ h = [q \in paths |-> h[q]]
    OBVIOUS
  <2>3. FromSysroot(dir, soname) = {h[q] : q \in paths}
    BY DEF FromSysroot
  <2>. HIDE DEF h, paths
  <2>. QED BY <2>1, <2>2, <2>3, FiniteImage
<1>. HIDE DEF g, here
<1>. QED BY <1>1, <1>2, <1>3, FS_Union DEF Found

\* An accepted file has one provider of each name, which the searched directories lead to.
LEMMA OneProvider ==
    ASSUME request \in Requests, NEW f \in Formats, Audited(Effective, Prepared, f),
           NEW x \in Contents(Effective, Prepared, f), NEW soname \in Elf(Prepared, x).needed
    PROVE  \E p : /\ Providers(Prepared, Contents(Effective, Prepared, f), x, f, soname) = {p}
                  /\ p.component \in Declared(Effective, x.component) \cup {NoComponent}
                  /\ Matching(Prepared, Contents(Effective, Prepared, f), p, soname)
<1>. DEFINE contents == Contents(Effective, Prepared, f)
            dirs == Search(Prepared, x, f)
            providers == Providers(Prepared, contents, x, f, soname)
            g == [i \in DOMAIN dirs |-> Found(Prepared, contents, dirs[i], soname)]
            W == {g[i] : i \in DOMAIN dirs}
<1>1. IsFiniteSet(W)
  <2>1. IsFiniteSet(DOMAIN dirs)
    <3>1. Len(dirs) \in Nat /\ DOMAIN dirs = 1 .. Len(dirs)
      BY SearchIsSequence
    <3>. HIDE DEF dirs
    <3>. QED BY <3>1, FS_Interval
  <2>2. DOMAIN g = DOMAIN dirs /\ g = [i \in DOMAIN dirs |-> g[i]]
    OBVIOUS
  <2>. HIDE DEF g, dirs
  <2>. QED BY <2>1, <2>2, FiniteImage
<1>2. \A T \in W : IsFiniteSet(T)
  BY FinitePlan, FoundFinite
<1>3. providers = UNION W
  BY Zenon DEF Providers, Range
<1>. HIDE DEF W
<1>4. IsFiniteSet(providers)
  BY <1>1, <1>2, <1>3, FS_UNION
<1>5. ProviderAllowed(Effective, Prepared, contents, x, f, soname)
  BY DEF Audited
<1>6. /\ Cardinality(providers) = 1
      /\ \A p \in providers :
            /\ p.component \in Declared(Effective, x.component) \cup {NoComponent}
            /\ Matching(Prepared, contents, p, soname)
  BY <1>5, Zenon DEF ProviderAllowed
<1>. HIDE DEF providers
<1>7. PICK p : providers = {p}
  BY <1>4, <1>6, FS_Singleton
<1>. QED BY <1>6, <1>7, Zenon DEF providers

\* Every directory offers an installation what it offers the whole plan.
LEMMA SameFound ==
    ASSUME request \in Requests, Expands(Effective, Prepared), NEW f \in Formats,
           Audited(Effective, Prepared, f), NEW some \in Installations,
           NEW x \in Installed(f, some), LibraryLinksDeclared(x, f),
           NEW soname \in Elf(Prepared, x).needed, NEW i \in DOMAIN Search(Prepared, x, f)
    PROVE  Found(Prepared, Installed(f, some), Search(Prepared, x, f)[i], soname)
             = Found(Prepared, Contents(Effective, Prepared, f), Search(Prepared, x, f)[i], soname)
<1>. DEFINE contents == Contents(Effective, Prepared, f)
            installed == Installed(f, some)
            dir == Search(Prepared, x, f)[i]
            path == Append(dir, soname)
            end == Follow(Prepared, contents, path)
<1>1. /\ x \in contents /\ x.component \in some /\ installed = {y \in contents : y.component \in some}
      /\ \A c \in some : Effective.depends[c] \subseteq some
      /\ Declared(Effective, x.component) \subseteq some
  BY DEF Installed, Installations, Declared
<1>2. Inside(Prepared, contents, some, path)
  <2>. SUFFICES ASSUME NEW y \in contents, y.destination = path, IsLink(Prepared, y)
                PROVE  y.component \in some
    BY DEF Inside
  <2>1. y.component \in Declared(Effective, x.component)
    BY DEF LibraryLinksDeclared
  <2>. QED BY <1>1, <2>1
<1>3. PICK p : /\ Providers(Prepared, contents, x, f, soname) = {p}
               /\ p.component \in Declared(Effective, x.component) \cup {NoComponent}
               /\ Matching(Prepared, contents, p, soname)
  BY <1>1, OneProvider
<1>4. ASSUME NEW y \in contents, y.destination = end
      PROVE  y.component \in some /\ ~IsLink(Prepared, y)
  <2>. DEFINE q == [component |-> y.component, destination |-> y.destination]
  <2>1. q \in Packaged(Prepared, contents, dir, soname)
    BY <1>4 DEF Packaged
  <2>2. dir \in Range(Search(Prepared, x, f))
    BY DEF Range
  <2>. HIDE DEF q
  <2>3. q \in Providers(Prepared, contents, x, f, soname)
    <3>1. q \in Found(Prepared, contents, dir, soname)
      BY <2>1 DEF Found
    <3>. HIDE DEF dir, contents
    <3>. QED BY <2>2, <3>1 DEF Providers
  <2>4. q = p
    BY <1>3, <2>3
  <2>5. p.component = y.component /\ p.destination = y.destination
    BY <2>4 DEF q
  <2>6. y.component # NoComponent
    BY FinitePlan
  <2>7. Prepared[y.source].type = "file"
    BY <1>3, <2>5 DEF Matching
  <2>. QED BY <1>1, <1>3, <2>5, <2>6, <2>7 DEF IsLink
<1>5. ~LinkAt(Prepared, contents, end)
  BY <1>4 DEF LinkAt
<1>6. IsFiniteSet(contents) /\ LinksDeclared(Effective, Prepared, contents)
  BY FinitePlan DEF Expands
<1>. HIDE DEF contents, installed, path, dir
<1>7. Follow(Prepared, installed, path) = end
  BY <1>1, <1>2, <1>5, <1>6, FollowInside
<1>8. {y \in installed : y.destination = end} = {y \in contents : y.destination = end}
  BY <1>1, <1>4
<1>. HIDE DEF end
<1>9. Packaged(Prepared, installed, dir, soname) = Packaged(Prepared, contents, dir, soname)
  BY <1>7, <1>8 DEF Packaged, path, end
<1>. QED BY <1>9 DEF Found, dir, contents, installed

\* The loader finds exactly the recorded provider of every needed name.
LEMMA LoadsProviders ==
    ASSUME request \in Requests, Expands(Effective, Prepared), NEW f \in Formats,
           Audited(Effective, Prepared, f), NEW some \in Installations,
           NEW x \in Installed(f, some), LibraryLinksDeclared(x, f)
    PROVE  LoadsItsProviders(x, f, some)
<1>. SUFFICES ASSUME NEW soname \in Elf(Prepared, x).needed
              PROVE  Loaded(Installed(f, some), x, f, soname)
                       = Providers(Prepared, Contents(Effective, Prepared, f), x, f, soname)
  BY DEF LoadsItsProviders
<1>. DEFINE contents == Contents(Effective, Prepared, f)
            installed == Installed(f, some)
            dirs == Search(Prepared, x, f)
            here(i) == Found(Prepared, installed, dirs[i], soname)
            hits == {i \in DOMAIN dirs : here(i) # {}}
<1>1. PICK p : Providers(Prepared, contents, x, f, soname) = {p}
  BY OneProvider DEF Installed
<1>2. \A i \in DOMAIN dirs : here(i) = Found(Prepared, contents, dirs[i], soname)
  BY SameFound
<1>3. {p} = UNION {Found(Prepared, contents, dir, soname) : dir \in Range(dirs)}
  BY <1>1 DEF Providers
<1>. HIDE DEF contents, installed, dirs
<1>4. \A i \in DOMAIN dirs : here(i) \subseteq {p}
  BY <1>2, <1>3, Zenon DEF Range
<1>5. \E i \in DOMAIN dirs : p \in here(i)
  <2>1. PICK dir \in Range(dirs) : p \in Found(Prepared, contents, dir, soname)
    BY <1>3
  <2>2. PICK i \in DOMAIN dirs : dir = dirs[i]
    BY DEF Range
  <2>. HIDE DEF here
  <2>. QED BY <1>2, <2>1, <2>2
<1>. HIDE DEF here
<1>6. hits # {} /\ hits \in SUBSET Nat
  <2>1. DOMAIN dirs \subseteq Nat
    BY SearchIsSequence DEF dirs, Installed
  <2>. QED BY <1>5, <2>1
<1>7. Min(hits) \in hits
  <2>. HIDE DEF hits
  <2>1. \E i \in hits : \A j \in hits : i <= j
    BY <1>6, LeastNatural
  <2>. QED BY <2>1 DEF Min
<1>8. here(Min(hits)) = {p}
  BY <1>4, <1>7
<1>9. Loaded(installed, x, f, soname) = here(Min(hits))
  BY <1>6 DEF Loaded, dirs, here
<1>. QED BY <1>1, <1>8, <1>9 DEF contents, installed

\* Whichever components of an accepted plan are installed, the loader of the
\* target finds the one provider the audit has recorded, as long as the links to
\* libraries belong to packages that are required.
THEOREM LoaderFinds == BuildSpec => []LoaderFindsProvider
<1>1. BuildInv => LoaderFindsProvider
  <2>. SUFFICES ASSUME BuildInv, Accepted PROVE LoaderFindsProvider
    BY DEF LoaderFindsProvider
  <2>1. /\ request \in Requests /\ Expands(Effective, Prepared)
        /\ \A f \in Formats : Audited(Effective, Prepared, f)
    BY DEF Accepted, At, BuildInv, CommandInv, Vetted
  <2>. QED BY <2>1, LoadsProviders, Zenon DEF LoaderFindsProvider
<1>. QED BY <1>1, BuildInvariant, PTL
=============================================================================
