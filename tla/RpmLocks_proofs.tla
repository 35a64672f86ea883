--------------------------- MODULE RpmLocks_proofs ---------------------------
(***************************************************************************)
(* Proofs about RpmLocks, for every forest of roles, every solver and any  *)
(* number of images, snapshots and edits.                                  *)
(*                                                                         *)
(* The invariant has three parts: every document is a transaction that a   *)
(* resolver could have made, a stage beyond `absent' is bound to the tree  *)
(* as it stands, and what the stage has found installed decided its fate.  *)
(***************************************************************************)
EXTENDS RpmLocks, TLAPS

\* A transaction of role r: a root's base is the inventory of the image it was
\* solved in, and what it changes has the versions of its snapshot.
Document(r, tx) ==
    /\ tx.image \in Images /\ tx.snapshot \in Snapshots
    /\ tx.base \in Inventories /\ tx.result \in Inventories
    /\ Parent[r] = None => tx.base = Ground[r][tx.image]
    /\ \A p \in Packages : tx.result[p] # tx.base[p] => tx.result[p] = Offered[tx.snapshot][p]

\* A table of documents, one of every role.
Documents(table) ==
    /\ table = [r \in Roles |-> table[r]]
    /\ \A r \in Roles : table[r] # None => Document(r, table[r])

JobAt(r) ==
    job[r] # None =>
        /\ job[r] = [pc |-> job[r].pc, plan |-> job[r].plan, image |-> job[r].image,
                     base |-> job[r].base, snapshot |-> job[r].snapshot,
                     signature |-> job[r].signature]
        /\ job[r].image \in Images /\ job[r].base \in Inventories
        /\ job[r].snapshot \in Snapshots
        /\ Parent[r] = None => job[r].base = Ground[r][job[r].image]

Jobs == job = [r \in Roles |-> job[r]] /\ \A r \in Roles : JobAt(r)

Stage == [state : {"absent", "fetched", "installed", "refused"}, inventory : Inventories]

MirrorOK ==
    /\ upstream = [repomd |-> upstream.repomd, signature |-> upstream.signature,
                   served |-> upstream.served]
    /\ upstream.served \subseteq Snapshots

TypeOK ==
    /\ release \in Images
    /\ Documents(lock) /\ Documents(output)
    /\ Jobs
    /\ stage \in [Roles -> Stage]
    /\ MirrorOK

\* What a stage knows: its files are bound, and it is installed or refused by
\* what it has found over an installed parent.
StageAt(r) ==
    /\ stage[r].state # "absent" => Bound(r)
    /\ stage[r].state \in {"installed", "refused"} => ParentInstalled(r)
    /\ stage[r].state = "installed" =>
          Below(r) = lock[r].base /\ stage[r].inventory = lock[r].result
    /\ stage[r].state = "refused" =>
          ~ (Below(r) = lock[r].base /\ Upgraded(Below(r), lock[r]) = lock[r].result)

Stages == \A r \in Roles : StageAt(r)

IInv == TypeOK /\ Stages

\* Upgrading the base of a transaction gives its result.
LEMMA UpgradeGivesResult ==
    ASSUME NEW r, NEW tx, Document(r, tx)
    PROVE  Upgraded(tx.base, tx) = tx.result
<1>1. \A p \in Packages : p \notin Changed(tx) => tx.base[p] = tx.result[p]
    BY DEF Changed
<1>2. tx.result = [p \in Packages |-> tx.result[p]]
    BY DEF Document, Inventories
<1> QED
    BY <1>1, <1>2 DEF Upgraded

\* Putting a document of its role into a table, or None, leaves it a table.
LEMMA DocumentsUpdate ==
    ASSUME NEW table, Documents(table), NEW r \in Roles, NEW d, d # None => Document(r, d)
    PROVE  Documents([table EXCEPT ![r] = d])
<1> DEFINE new == [table EXCEPT ![r] = d]
<1>1. new = [x \in Roles |-> IF x = r THEN d ELSE table[x]]
    BY DEF Documents
<1>2. new = [x \in Roles |-> new[x]] /\ \A x \in Roles : new[x] = IF x = r THEN d ELSE table[x]
    BY <1>1
<1> HIDE DEF new
<1>3. \A x \in Roles : new[x] # None => Document(x, new[x])
    BY <1>2 DEF Documents
<1> QED
    BY <1>2, <1>3 DEF Documents, new

\* What a stage finds below it is an inventory.
LEMMA BelowIsInventory ==
    ASSUME TypeOK, NEW r \in Roles
    PROVE  Below(r) \in Inventories
BY LocksAssumption DEF TypeOK, Stage, Below

\* A resolver that solves makes a document of its role.
LEMMA SolvedIsDocument ==
    ASSUME TypeOK, NEW r \in Roles, job[r] # None
    PROVE  Document(r, Transaction(r, job[r]))
<1> DEFINE tx == Transaction(r, job[r])
<1>1. /\ job[r].image \in Images /\ job[r].base \in Inventories /\ job[r].snapshot \in Snapshots
      /\ Parent[r] = None => job[r].base = Ground[r][job[r].image]
    BY DEF TypeOK, Jobs, JobAt
<1>2. Offered[job[r].snapshot] \in Inventories
    BY <1>1, LocksAssumption
<1>3. /\ tx.image = job[r].image /\ tx.snapshot = job[r].snapshot /\ tx.base = job[r].base
      /\ tx.result = Solution(r, job[r].base, Offered[job[r].snapshot])
    BY DEF Transaction
<1> HIDE DEF tx
<1>4. tx.result = [p \in Packages |->
                     IF p \in Selected(r, job[r].base, Offered[job[r].snapshot])
                       THEN Offered[job[r].snapshot][p] ELSE job[r].base[p]]
    BY <1>3 DEF Solution
<1>5. tx.result \in Inventories
    BY <1>1, <1>2, <1>4 DEF Inventories
<1>6. \A p \in Packages : tx.result[p] # tx.base[p] => tx.result[p] = Offered[tx.snapshot][p]
    BY <1>3, <1>4
<1>7. Document(r, tx)
    BY <1>1, <1>3, <1>5, <1>6 DEF Document
<1> QED
    BY <1>7 DEF tx

\* The invariant holds before anything is locked.
LEMMA InitInvariant == Init => IInv
<1> SUFFICES ASSUME Init PROVE IInv
    OBVIOUS
<1>1. Nothing \in Inventories
    BY DEF Nothing, Inventories
<1>2. stage \in [Roles -> Stage] /\ \A r \in Roles : stage[r].state = "absent"
    BY <1>1 DEF Init, Unbuilt, Stage
<1>3. Documents(lock) /\ Documents(output)
    BY DEF Init, Unlocked, Documents
<1>4. Jobs
    BY DEF Init, Jobs, JobAt
<1>5. release \in Images /\ MirrorOK
    BY LocksAssumption DEF Init, MirrorOK
<1>6. Stages
    BY <1>2 DEF Stages, StageAt
<1> QED
    BY <1>2, <1>3, <1>4, <1>5, <1>6 DEF IInv, TypeOK

\* Editing the tree resets every stage.
LEMMA EditedStages ==
    ASSUME Edited
    PROVE  stage' \in [Roles -> Stage] /\ Stages'
<1>1. Nothing \in Inventories
    BY DEF Nothing, Inventories
<1>2. stage' \in [Roles -> Stage] /\ \A r \in Roles : stage'[r].state = "absent"
    BY <1>1 DEF Edited, Unbuilt, Stage
<1> QED
    BY <1>2 DEF Stages, StageAt

\* A resolver's step leaves every role a well-formed job or none.
LEMMA JobsUpdate ==
    ASSUME Jobs, NEW r \in Roles, NEW j, job' = [job EXCEPT ![r] = j],
           j # None =>
             /\ j = [pc |-> j.pc, plan |-> j.plan, image |-> j.image, base |-> j.base,
                     snapshot |-> j.snapshot, signature |-> j.signature]
             /\ j.image \in Images /\ j.base \in Inventories /\ j.snapshot \in Snapshots
             /\ Parent[r] = None => j.base = Ground[r][j.image]
    PROVE  Jobs'
<1>1. job' = [x \in Roles |-> job'[x]] /\ \A x \in Roles : job'[x] = IF x = r THEN j ELSE job[x]
    BY DEF Jobs
<1>2. ASSUME NEW x \in Roles PROVE JobAt(x)'
  <2>1. CASE x = r
    <3>1. job'[x] = j
        BY <1>1, <2>1
    <3> QED
        BY <2>1, <3>1 DEF JobAt
  <2>2. CASE x # r
    <3>1. job'[x] = job[x] /\ JobAt(x)
        BY <1>1, <2>2 DEF Jobs
    <3> QED
        BY <3>1 DEF JobAt
  <2> QED
      BY <2>1, <2>2
<1> QED
    BY <1>1, <1>2 DEF Jobs

\* What a resolver's job is after the repository was loaded ...
LEMMA LoadedJob ==
    ASSUME NEW j, NEW snapshot,
           j = [pc |-> j.pc, plan |-> j.plan, image |-> j.image, base |-> j.base,
                snapshot |-> j.snapshot, signature |-> j.signature]
    PROVE  [j EXCEPT !.pc = "evidence", !.snapshot = snapshot] =
               [pc |-> "evidence", plan |-> j.plan, image |-> j.image, base |-> j.base,
                snapshot |-> snapshot, signature |-> j.signature]
<1> DEFINE k == [j EXCEPT !.pc = "evidence"]
<1>1. k = [pc |-> "evidence", plan |-> j.plan, image |-> j.image, base |-> j.base,
           snapshot |-> j.snapshot, signature |-> j.signature]
    OBVIOUS
<1> HIDE DEF k
<1>2. [k EXCEPT !.snapshot = snapshot] =
          [pc |-> "evidence", plan |-> j.plan, image |-> j.image, base |-> j.base,
           snapshot |-> snapshot, signature |-> j.signature]
    BY <1>1
<1> QED
    BY <1>2 DEF k

\* ... and after its evidence was collected.
LEMMA CollectedJob ==
    ASSUME NEW j, NEW signature,
           j = [pc |-> j.pc, plan |-> j.plan, image |-> j.image, base |-> j.base,
                snapshot |-> j.snapshot, signature |-> j.signature]
    PROVE  [j EXCEPT !.pc = "solve", !.signature = signature] =
               [pc |-> "solve", plan |-> j.plan, image |-> j.image, base |-> j.base,
                snapshot |-> j.snapshot, signature |-> signature]
<1> DEFINE k == [j EXCEPT !.pc = "solve"]
<1>1. k = [pc |-> "solve", plan |-> j.plan, image |-> j.image, base |-> j.base,
           snapshot |-> j.snapshot, signature |-> j.signature]
    OBVIOUS
<1> HIDE DEF k
<1>2. [k EXCEPT !.signature = signature] =
          [pc |-> "solve", plan |-> j.plan, image |-> j.image, base |-> j.base,
           snapshot |-> j.snapshot, signature |-> signature]
    BY <1>1
<1> QED
    BY <1>2 DEF k

-----------------------------------------------------------------------------
\* The tree, the mirror and the stages keep their types in every step.
LEMMA TypeStep ==
    ASSUME IInv, [Next]_vars
    PROVE  TypeOK'
<1>0. TypeOK /\ Stages
    BY DEF IInv
<1>1. CASE UNCHANGED vars
    BY <1>0, <1>1 DEF vars, tree, TypeOK, Documents, Jobs, JobAt, MirrorOK
<1>2. CASE Mirror
  <2>1. upstream' = [repomd |-> upstream'.repomd, signature |-> upstream'.signature,
                     served |-> upstream'.served]
      BY <1>0, <1>2 DEF Mirror, AddSnapshot, ReplaceRepomd, ReplaceSignature, DropSnapshot, TypeOK, MirrorOK
  <2>2. upstream'.served \subseteq Snapshots
      BY <1>0, <1>2 DEF Mirror, AddSnapshot, ReplaceRepomd, ReplaceSignature, DropSnapshot, TypeOK, MirrorOK
  <2>3. UNCHANGED <<tree, stage, job, output>>
      BY <1>2 DEF Mirror, AddSnapshot, ReplaceRepomd, ReplaceSignature, DropSnapshot
  <2> QED
      BY <1>0, <2>1, <2>2, <2>3 DEF tree, TypeOK, Documents, Jobs, JobAt, MirrorOK
<1>3. CASE MoveImage
  <2>1. release' \in Images /\ Edited /\ lock' = lock
      BY <1>3 DEF MoveImage
  <2> QED
      BY <1>0, <2>1, EditedStages DEF Edited, TypeOK, Documents, Jobs, JobAt, MirrorOK
<1>4. ASSUME NEW r \in Roles, StartResolver(r) PROVE TypeOK'
  <2> DEFINE j == [pc |-> "load", plan |-> plan[r], image |-> release, base |-> Below(r),
                   snapshot |-> 1, signature |-> 1]
  <2>1. job' = [job EXCEPT ![r] = j] /\ UNCHANGED <<tree, stage, output, upstream>>
      BY <1>4 DEF StartResolver
  <2>2. /\ j.image \in Images /\ j.base \in Inventories /\ j.snapshot \in Snapshots
        /\ Parent[r] = None => j.base = Ground[r][j.image]
      BY <1>0, BelowIsInventory, LocksAssumption DEF TypeOK, Below
  <2>3. j = [pc |-> j.pc, plan |-> j.plan, image |-> j.image, base |-> j.base,
             snapshot |-> j.snapshot, signature |-> j.signature]
      OBVIOUS
  <2> HIDE DEF j
  <2>4. Jobs'
      BY <1>0, <2>1, <2>2, <2>3, JobsUpdate DEF TypeOK
  <2> QED
      BY <1>0, <2>1, <2>4 DEF tree, TypeOK, Documents, MirrorOK
<1>5. ASSUME NEW r \in Roles, Fail(r), UNCHANGED <<tree, stage, output, upstream>> PROVE TypeOK'
  <2>1. Jobs'
      BY <1>0, <1>5, JobsUpdate DEF Fail, TypeOK
  <2> QED
      BY <1>0, <1>5, <2>1 DEF tree, TypeOK, Documents, MirrorOK
<1>6. ASSUME NEW r \in Roles, LoadRepository(r) PROVE TypeOK'
  <2>1. CASE Fail(r)
      BY <1>5, <1>6, <2>1 DEF LoadRepository
  <2>2. CASE ~ Fail(r)
    <3> DEFINE j == [job[r] EXCEPT !.pc = "evidence", !.snapshot = upstream.repomd]
    <3>1. job[r] # None /\ upstream.repomd \in upstream.served
        BY <1>6, <2>2 DEF LoadRepository
    <3>2. job' = [job EXCEPT ![r] = j]
        BY <1>6, <2>2 DEF LoadRepository
    <3>3. JobAt(r) /\ upstream.repomd \in Snapshots
        BY <1>0, <3>1 DEF TypeOK, Jobs, MirrorOK
    <3>4. /\ j = [pc |-> j.pc, plan |-> j.plan, image |-> j.image, base |-> j.base,
                  snapshot |-> j.snapshot, signature |-> j.signature]
          /\ j.image = job[r].image /\ j.base = job[r].base /\ j.snapshot = upstream.repomd
      <4>1. job[r] = [pc |-> job[r].pc, plan |-> job[r].plan, image |-> job[r].image,
                      base |-> job[r].base, snapshot |-> job[r].snapshot,
                      signature |-> job[r].signature]
          BY <3>1, <3>3 DEF JobAt
      <4>2. j = [pc |-> "evidence", plan |-> job[r].plan, image |-> job[r].image,
                 base |-> job[r].base, snapshot |-> upstream.repomd,
                 signature |-> job[r].signature]
          BY <4>1, LoadedJob
      <4> QED
          BY <4>2
    <3> HIDE DEF j
    <3>5. Jobs'
        BY <1>0, <3>1, <3>2, <3>3, <3>4, JobsUpdate DEF TypeOK, JobAt
    <3> QED
        BY <1>0, <1>6, <3>5 DEF LoadRepository, tree, TypeOK, Documents, MirrorOK
  <2> QED
      BY <2>1, <2>2
<1>7. ASSUME NEW r \in Roles, CollectEvidence(r) PROVE TypeOK'
  <2>1. CASE Fail(r)
      BY <1>5, <1>7, <2>1 DEF CollectEvidence
  <2>2. CASE ~ Fail(r)
    <3> DEFINE j == [job[r] EXCEPT !.pc = "solve", !.signature = upstream.signature]
    <3>1. job[r] # None /\ job' = [job EXCEPT ![r] = j]
        BY <1>7, <2>2 DEF CollectEvidence
    <3>2. JobAt(r)
        BY <1>0 DEF TypeOK, Jobs
    <3>3. /\ j = [pc |-> j.pc, plan |-> j.plan, image |-> j.image, base |-> j.base,
                  snapshot |-> j.snapshot, signature |-> j.signature]
          /\ j.image = job[r].image /\ j.base = job[r].base /\ j.snapshot = job[r].snapshot
      <4>1. job[r] = [pc |-> job[r].pc, plan |-> job[r].plan, image |-> job[r].image,
                      base |-> job[r].base, snapshot |-> job[r].snapshot,
                      signature |-> job[r].signature]
          BY <3>1, <3>2 DEF JobAt
      <4>2. j = [pc |-> "solve", plan |-> job[r].plan, image |-> job[r].image,
                 base |-> job[r].base, snapshot |-> job[r].snapshot,
                 signature |-> upstream.signature]
          BY <4>1, CollectedJob
      <4> QED
          BY <4>2
    <3> HIDE DEF j
    <3>4. Jobs'
        BY <1>0, <3>1, <3>2, <3>3, JobsUpdate DEF TypeOK, JobAt
    <3> QED
        BY <1>0, <1>7, <3>4 DEF CollectEvidence, tree, TypeOK, Documents, MirrorOK
  <2> QED
      BY <2>1, <2>2
<1>8. ASSUME NEW r \in Roles, Solve(r) PROVE TypeOK'
  <2>1. Document(r, Transaction(r, job[r]))
      BY <1>0, <1>8, SolvedIsDocument DEF Solve
  <2>2. output' = output \/ output' = [output EXCEPT ![r] = Transaction(r, job[r])]
      BY <1>8 DEF Solve
  <2>3. Documents(output')
      BY <1>0, <2>1, <2>2, DocumentsUpdate DEF TypeOK
  <2>4. Jobs'
      BY <1>0, <1>8, JobsUpdate DEF Solve, Fail, TypeOK
  <2> QED
      BY <1>0, <1>8, <2>3, <2>4 DEF Solve, tree, TypeOK, Documents, MirrorOK
<1>9. ASSUME NEW r \in Roles, CopyLock(r) PROVE TypeOK'
  <2>1. output[r] # None => Document(r, output[r])
      BY <1>0 DEF TypeOK, Documents
  <2>2. lock' = [lock EXCEPT ![r] = output[r]] /\ Edited /\ release' = release
      BY <1>9 DEF CopyLock
  <2>3. Documents(lock')
      BY <1>0, <2>1, <2>2, DocumentsUpdate DEF TypeOK
  <2> QED
      BY <1>0, <2>2, <2>3, EditedStages DEF Edited, TypeOK, Documents, Jobs, JobAt, MirrorOK
<1>10. ASSUME NEW r \in Roles, CopyEvidence(r) \/ PinLock(r) \/ NameParent(r) PROVE TypeOK'
  <2>1. Edited /\ UNCHANGED <<release, lock>>
      BY <1>10 DEF CopyEvidence, PinLock, NameParent
  <2> QED
      BY <1>0, <2>1, EditedStages DEF Edited, TypeOK, Documents, Jobs, JobAt, MirrorOK
<1>11. ASSUME NEW r \in Roles, Fetch(r) PROVE TypeOK'
  <2>1. stage' \in [Roles -> Stage]
      BY <1>0, <1>11 DEF Fetch, TypeOK, Stage
  <2> QED
      BY <1>0, <1>11, <2>1 DEF Fetch, tree, TypeOK, Documents, Jobs, JobAt, MirrorOK
<1>12. ASSUME NEW r \in Roles, Install(r) PROVE TypeOK'
  <2>1. Below(r) \in Inventories
      BY <1>0, BelowIsInventory
  <2>2. lock[r].result \in Inventories
    <3>1. lock[r] # None
        BY <1>0, <1>12 DEF Install, Stages, StageAt, Bound, Transacted, Pinned
    <3> QED
        BY <1>0, <3>1 DEF TypeOK, Documents, Document
  <2>3. Upgraded(Below(r), lock[r]) \in Inventories
      BY <2>1, <2>2 DEF Upgraded, Inventories
  <2>4. stage' \in [Roles -> Stage]
    <3>1. [state |-> "installed", inventory |-> Upgraded(Below(r), lock[r])] \in Stage
        BY <2>3 DEF Stage
    <3>2. [stage[r] EXCEPT !.state = "refused"] \in Stage
        BY <1>0 DEF TypeOK, Stage
    <3> QED
        BY <1>0, <1>12, <3>1, <3>2 DEF Install, TypeOK
  <2> QED
      BY <1>0, <1>12, <2>4 DEF Install, tree, TypeOK, Documents, Jobs, JobAt, MirrorOK
<1>13. ASSUME NEW r \in Roles,
              \/ StartResolver(r)
              \/ ResolverStep(r)
              \/ MaintainerStep(r)
              \/ BuildStep(r)
       PROVE  TypeOK'
    BY <1>4, <1>6, <1>7, <1>8, <1>9, <1>10, <1>11, <1>12, <1>13
    DEF ResolverStep, MaintainerStep, BuildStep
<1>14. CASE Next
    BY <1>2, <1>3, <1>13, <1>14 DEF Next
<1> QED
    BY <1>1, <1>14

-----------------------------------------------------------------------------
\* As long as neither the tree nor a stage changes, the stages know what they
\* knew.
LEMMA StagesKept ==
    ASSUME Stages, UNCHANGED <<tree, stage>>
    PROVE  Stages'
BY DEF Stages, StageAt, Bound, Transacted, Pinned, ParentInstalled, Below, Upgraded, Changed, tree

\* A stage that was not installed yet may change: no stage over it was decided.
LEMMA StageChanged ==
    ASSUME IInv, UNCHANGED tree, NEW r \in Roles, stage[r].state # "installed",
           \A x \in Roles : x # r => stage'[x] = stage[x],
           StageAt(r)'
    PROVE  Stages'
<1>1. ASSUME NEW x \in Roles, x # r PROVE StageAt(x)'
  <2>1. StageAt(x) /\ stage'[x] = stage[x]
      BY <1>1 DEF IInv, Stages
  <2>2. CASE stage[x].state \in {"installed", "refused"}
    <3>1. ParentInstalled(x)
        BY <2>1, <2>2 DEF StageAt
    <3>2. Parent[x] # None => Parent[x] \in Roles /\ Parent[x] # r
        BY <3>1, LocksAssumption DEF ParentInstalled
    <3>3. Parent[x] # None => stage'[Parent[x]] = stage[Parent[x]]
        BY <3>2
    <3>4. Below(x)' = Below(x) /\ ParentInstalled(x)'
        BY <3>1, <3>3 DEF Below, ParentInstalled, tree
    <3> QED
        BY <2>1, <2>2, <3>4 DEF StageAt, Bound, Transacted, Pinned, Upgraded, Changed, tree
  <2>3. CASE stage[x].state \notin {"installed", "refused"}
      BY <2>1, <2>3 DEF StageAt, Bound, Transacted, Pinned, tree
  <2> QED
      BY <2>2, <2>3
<1> QED
    BY <1>1 DEF Stages

\* Every step keeps what the stages know.
LEMMA StageStep ==
    ASSUME IInv, [Next]_vars
    PROVE  Stages'
<1>0. TypeOK /\ Stages
    BY DEF IInv
<1>1. CASE UNCHANGED vars
    BY <1>0, <1>1, StagesKept DEF vars
<1>2. CASE Mirror
  <2>1. UNCHANGED <<tree, stage>>
      BY <1>2 DEF Mirror, AddSnapshot, ReplaceRepomd, ReplaceSignature, DropSnapshot
  <2> QED
      BY <1>0, <2>1, StagesKept
<1>3. CASE MoveImage
    BY <1>3, EditedStages DEF MoveImage
<1>4. ASSUME NEW r \in Roles, StartResolver(r) \/ ResolverStep(r) PROVE Stages'
  <2>1. UNCHANGED <<tree, stage>>
      BY <1>4 DEF StartResolver, ResolverStep, LoadRepository, CollectEvidence, Solve
  <2> QED
      BY <1>0, <2>1, StagesKept
<1>5. ASSUME NEW r \in Roles, MaintainerStep(r) PROVE Stages'
  <2>1. Edited
      BY <1>5 DEF MaintainerStep, CopyLock, CopyEvidence, PinLock, NameParent
  <2> QED
      BY <2>1, EditedStages
<1>6. ASSUME NEW r \in Roles, Fetch(r) PROVE Stages'
  <2>1. /\ stage[r].state = "absent" /\ Bound(r) /\ UNCHANGED tree
        /\ stage' = [stage EXCEPT ![r].state = "fetched"]
      BY <1>6 DEF Fetch
  <2>2. stage'[r].state = "fetched" /\ \A x \in Roles : x # r => stage'[x] = stage[x]
      BY <1>0, <2>1 DEF TypeOK, Stage
  <2>3. StageAt(r)'
      BY <2>1, <2>2 DEF StageAt, Bound, Transacted, Pinned, tree
  <2> QED
      BY <2>1, <2>2, <2>3, StageChanged
<1>7. ASSUME NEW r \in Roles, Install(r) PROVE Stages'
  <2> DEFINE after == Upgraded(Below(r), lock[r])
  <2> DEFINE same == Below(r) = lock[r].base /\ after = lock[r].result
  <2>1. /\ stage[r].state = "fetched" /\ ParentInstalled(r) /\ Bound(r) /\ UNCHANGED tree
        /\ stage' = IF same
                      THEN [stage EXCEPT ![r] = [state |-> "installed", inventory |-> after]]
                      ELSE [stage EXCEPT ![r].state = "refused"]
      BY <1>0, <1>7 DEF Install, SameInventory, Stages, StageAt
  <2>2. Parent[r] # None => Parent[r] \in Roles /\ Parent[r] # r
      BY <2>1, LocksAssumption DEF ParentInstalled
  <2>3. \A x \in Roles : x # r => stage'[x] = stage[x]
      BY <1>0, <2>1 DEF TypeOK
  <2>4. Below(r)' = Below(r) /\ ParentInstalled(r)' /\ Bound(r)' /\ lock' = lock
      BY <2>1, <2>2, <2>3 DEF Below, ParentInstalled, Bound, Transacted, Pinned, tree
  <2>5. Upgraded(Below(r), lock[r])' = after
      BY <2>4 DEF Upgraded, Changed
  <2> HIDE DEF after
  <2>6. CASE same
    <3>1. stage'[r] = [state |-> "installed", inventory |-> after]
        BY <1>0, <2>1, <2>6 DEF TypeOK
    <3>2. StageAt(r)'
        BY <2>4, <2>6, <3>1 DEF StageAt
    <3> QED
        BY <2>1, <2>3, <3>2, StageChanged
  <2>7. CASE ~ same
    <3>1. stage'[r].state = "refused"
        BY <1>0, <2>1, <2>7 DEF TypeOK, Stage
    <3>2. StageAt(r)'
        BY <2>4, <2>5, <2>7, <3>1 DEF StageAt
    <3> QED
        BY <2>1, <2>3, <3>2, StageChanged
  <2> QED
      BY <2>6, <2>7
<1>8. CASE Next
    BY <1>2, <1>3, <1>4, <1>5, <1>6, <1>7, <1>8 DEF Next, BuildStep
<1> QED
    BY <1>1, <1>8

-----------------------------------------------------------------------------
\* Whatever the mirror, the resolvers, the maintainers and the builds do, the
\* documents are transactions that a resolver could have made and a stage has
\* been decided by the tree as it stands and what lay below it.
THEOREM LocksInvariant == Spec => []IInv
<1>1. IInv /\ [Next]_vars => IInv'
    BY TypeStep, StageStep DEF IInv
<1> QED
    BY InitInvariant, <1>1, PTL DEF Spec

\* In an accepted tree the environment below a role is what its lock starts from.
LEMMA AcceptedGround ==
    ASSUME IInv, Accepted, NEW r \in Roles, ParentInstalled(r)
    PROVE  Below(r) = lock[r].base
<1>1. Bound(r) /\ FollowsPlan(r)
    BY DEF Accepted, Valid
<1>2. CASE Parent[r] # None
  <2>1. Parent[r] \in Roles /\ stage[Parent[r]].state = "installed"
      BY <1>2, LocksAssumption DEF ParentInstalled
  <2>2. stage[Parent[r]].inventory = lock[Parent[r]].result
      BY <2>1 DEF IInv, Stages, StageAt
  <2>3. lock[r].base = lock[Parent[r]].result
      BY <1>1, <1>2 DEF FollowsPlan, ParentOf
  <2> QED
      BY <1>2, <2>2, <2>3 DEF Below
<1>3. CASE Parent[r] = None
  <2>1. lock[r] # None /\ lock[r].image = release
      BY <1>1 DEF Bound, Transacted, Pinned
  <2>2. Document(r, lock[r])
      BY <2>1 DEF IInv, TypeOK, Documents
  <2> QED
      BY <1>3, <2>1, <2>2 DEF Document, Below
<1> QED
    BY <1>2, <1>3

\* No build of a tree that Quick CI accepts refuses an inventory, in whatever
\* order the files of a refresh were resolved, copied and edited.
THEOREM AcceptedNeverRefused == Spec => []AcceptedInstalls
<1>1. IInv => AcceptedInstalls
  <2> SUFFICES ASSUME IInv, Accepted, NEW r \in Roles, stage[r].state = "refused"
               PROVE  FALSE
      BY DEF AcceptedInstalls
  <2>1. StageAt(r) /\ ParentInstalled(r) /\ lock[r] # None
      BY DEF IInv, Stages, StageAt, Bound, Transacted, Pinned
  <2>2. Below(r) = lock[r].base
      BY <2>1, AcceptedGround
  <2>3. Upgraded(lock[r].base, lock[r]) = lock[r].result
      BY <2>1, UpgradeGivesResult DEF IInv, TypeOK, Documents
  <2> QED
      BY <2>1, <2>2, <2>3 DEF StageAt
<1> QED
    BY <1>1, LocksInvariant, PTL

\* What carries a marker is what was locked over what the parent's lock promises,
\* and of the snapshot that was signed, whether or not the tree is accepted.
THEOREM InstalledIsLocked == Spec => []InstalledAsLocked
<1>1. IInv => InstalledAsLocked
  <2> SUFFICES ASSUME IInv, NEW r \in Roles, stage[r].state = "installed"
               PROVE  /\ stage[r].inventory = lock[r].result
                      /\ Parent[r] # None => lock[r].base = lock[Parent[r]].result
                      /\ \A p \in Changed(lock[r]) :
                            lock[r].result[p] = Offered[lock[r].signature][p]
      BY DEF InstalledAsLocked
  <2>1. /\ Bound(r) /\ ParentInstalled(r)
        /\ Below(r) = lock[r].base /\ stage[r].inventory = lock[r].result
      BY DEF IInv, Stages, StageAt
  <2>2. ASSUME Parent[r] # None PROVE lock[r].base = lock[Parent[r]].result
    <3>1. Parent[r] \in Roles /\ stage[Parent[r]].state = "installed"
        BY <2>1, <2>2, LocksAssumption DEF ParentInstalled
    <3>2. stage[Parent[r]].inventory = lock[Parent[r]].result
        BY <3>1 DEF IInv, Stages, StageAt
    <3> QED
        BY <2>1, <2>2, <3>2 DEF Below
  <2>3. Document(r, lock[r]) /\ lock[r].snapshot = lock[r].signature
      BY <2>1 DEF IInv, TypeOK, Documents, Bound, Transacted, Pinned, Signed
  <2>4. \A p \in Changed(lock[r]) : lock[r].result[p] = Offered[lock[r].signature][p]
      BY <2>3 DEF Document, Changed
  <2> QED
      BY <2>1, <2>2, <2>4
<1> QED
    BY <1>1, LocksInvariant, PTL
=============================================================================
