------------------------------- MODULE RpmLocks -------------------------------
(***************************************************************************)
(* RPM plans, transactions and locks.                                      *)
(*                                                                         *)
(* Every RPM environment has a role: a plan, a transaction solved by DNF   *)
(* from one signed repository snapshot, and a lock of the payloads.  Some  *)
(* roles start from the pinned base image or an empty root; the others are *)
(* deltas, solved in and installed over the environment of a parent role,  *)
(* whose lock their plan names by digest.  Resolvers run in builds of      *)
(* their own while the mirror replaces its files one after the other, and  *)
(* maintainers carry the results into the tree one file at a time.  Quick  *)
(* CI validates all of it with the plans; a build opens only what its own  *)
(* release component binds.                                                *)
(*                                                                         *)
(* Documents are values, and a digest is the document it is the digest of. *)
(* A lock adds to its transaction only what follows from it (the verified  *)
(* header and bytes of every payload), so one value stands for both.       *)
(***************************************************************************)
EXTENDS Naturals

CONSTANTS Roles,      \* host build roles and target sysroots
          Parent,     \* [Roles -> Roles or None] plan.base.parent_lock
          Packages,
          Images,     \* 1 .. n: digests the base image has one after the other
          Ground,     \* [Roles -> [Images -> Inventories]] what a role without
                      \* parent starts from: the image, or nothing (a sysroot)
          Snapshots,  \* 1 .. n: states of the signed repository
          Offered,    \* [Snapshots -> Inventories] its newest packages
          Selected(_, _, _), \* DNF: the packages to install or to upgrade
          MaxEarly,   \* bound: resolvers started without need or out of turn
          None

Inventories == [Packages -> Nat]      \* version installed; 0: not installed
Nothing == [p \in Packages |-> 0]

ASSUME LocksAssumption ==
    /\ Parent \in [Roles -> Roles \cup {None}] /\ None \notin Roles
    /\ Images \subseteq Nat /\ 1 \in Images
    /\ Snapshots \subseteq Nat /\ 1 \in Snapshots
    /\ Ground \in [Roles -> [Images -> Inventories]]
    /\ Offered \in [Snapshots -> Inventories]
    /\ MaxEarly \in Nat

VARIABLES
    release,   \* base image of release.json
    lock,      \* [Roles -> lock or None] locks/<role>.json
    evidence,  \* [Roles -> lock or None] whose transaction and metadata are there
    pin,       \* [Roles -> lock or None] the release's pin, with its component
    plan,      \* [Roles -> lock or None] parent_sha256 of the role's plan
    stage,     \* [Roles -> the role's build stages on the present tree]
    job,       \* [Roles -> a resolver in progress or None]
    output,    \* [Roles -> the resolver's last transaction or None]
    upstream,  \* the mirror: current repomd and signature, snapshots still served
    early

tree == <<release, lock, evidence, pin, plan>>
vars == <<tree, stage, job, output, upstream, early>>

Unlocked == [r \in Roles |-> None]
Unbuilt == [r \in Roles |-> [state |-> "absent", inventory |-> Nothing]]

\* No role is locked at first.
Init ==
    /\ release = 1
    /\ lock = Unlocked /\ evidence = Unlocked /\ pin = Unlocked /\ plan = Unlocked
    /\ stage = Unbuilt
    /\ job = [r \in Roles |-> None]
    /\ output = Unlocked
    /\ upstream = [repomd |-> 1, signature |-> 1, served |-> {1}]
    /\ early = 0

-----------------------------------------------------------------------------
(***************************************************************************)
(* Documents                                                               *)
(***************************************************************************)
Changed(tx) == {p \in Packages : tx.result[p] # tx.base[p]}

\* Payloads are content-addressed by the metadata: one is to be had as long as
\* a snapshot is served that offers just this version.
Fetchable(tx) ==
    \A p \in Changed(tx) : \E s \in upstream.served : Offered[s][p] = tx.result[p]

\* A detached signature verifies the repomd it was made for.
Signed(repomd, signature) == repomd = signature

\* Mutant of ParentOf: a delta's parent lock is not opened.
BugParentOf(r) == None

ParentOf(r) == Parent[r]

\* The transaction that a lock names by digest, with its metadata, is there.
Transacted(r) == lock[r] # None /\ evidence[r] = lock[r]

\* The release component names the base image and pins the lock.
Pinned(r) == lock[r].image = release /\ pin[r] = lock[r]

\* What a build checks of a role's files: transaction and metadata are those of
\* the lock, solved in the image of the release and signed, and the component
\* pins the lock.  The plan is not opened.
Bound(r) == Transacted(r) /\ Pinned(r) /\ Signed(lock[r].snapshot, lock[r].signature)

\* A delta's plan names the parent's lock as it stands.
NamesParent(r) == Parent[r] # None => plan[r] = lock[Parent[r]]

\* The transaction was solved for the plan as it stands.
Planned(r) == lock[r].plan = plan[r]

\* A transaction belongs to the plan; a delta's plan names the parent's lock,
\* whose own transaction is there, and the delta starts from its result.
FollowsPlan(r) ==
    LET parent == ParentOf(r)
    IN /\ Planned(r)
       /\ parent # None =>
             /\ lock[parent] = plan[r] /\ Transacted(parent)
             /\ lock[r].base = lock[parent].result

Valid(r) == Bound(r) /\ FollowsPlan(r)

\* Quick CI, over every lock.  (A parent is also validated as a role itself.)
Accepted == \A r \in Roles : Valid(r)

-----------------------------------------------------------------------------
(***************************************************************************)
(* The mirror (external)                                                   *)
(***************************************************************************)
Newest == CHOOSE s \in upstream.served : \A other \in upstream.served : other <= s

\* Metadata and payloads of a snapshot are there before its repomd; a repomd
\* and its signature are two files.
AddSnapshot ==
    /\ Newest + 1 \in Snapshots
    /\ upstream.repomd = Newest /\ upstream.signature = Newest
    /\ upstream' = [upstream EXCEPT !.served = @ \cup {Newest + 1}]
    /\ UNCHANGED <<tree, stage, job, output, early>>

ReplaceRepomd ==
    /\ upstream.repomd # Newest
    /\ upstream' = [upstream EXCEPT !.repomd = Newest]
    /\ UNCHANGED <<tree, stage, job, output, early>>

ReplaceSignature ==
    /\ upstream.signature # Newest
    /\ upstream' = [upstream EXCEPT !.signature = Newest]
    /\ UNCHANGED <<tree, stage, job, output, early>>

\* Superseded metadata and payloads go away, also under a running resolver.
DropSnapshot(s) ==
    /\ s \in upstream.served \ {upstream.repomd, upstream.signature, Newest}
    /\ upstream' = [upstream EXCEPT !.served = @ \ {s}]
    /\ UNCHANGED <<tree, stage, job, output, early>>

-----------------------------------------------------------------------------
(***************************************************************************)
(* Build: fetch a role's payloads, then install them without network       *)
(***************************************************************************)
\* What the stage finds installed: the parent's environment or the ground.
Below(r) == IF Parent[r] # None THEN stage[Parent[r]].inventory ELSE Ground[r][release]

ParentInstalled(r) == Parent[r] # None => stage[Parent[r]].state = "installed"

Fetch(r) ==
    /\ stage[r].state = "absent"
    /\ Bound(r) /\ Fetchable(lock[r])
    /\ stage' = [stage EXCEPT ![r].state = "fetched"]
    /\ UNCHANGED <<tree, job, output, upstream, early>>

\* Mutant of SameInventory: names are compared, versions are not.
BugSameInventory(actual, expected) ==
    \A p \in Packages : (actual[p] = 0) = (expected[p] = 0)

SameInventory(actual, expected) == actual = expected

\* rpm -U replaces and adds the packages of the lock.
Upgraded(inventory, tx) ==
    [p \in Packages |-> IF p \in Changed(tx) THEN tx.result[p] ELSE inventory[p]]

\* The inventory is compared before and after, and only then the marker is
\* written; otherwise the stage fails.
Install(r) ==
    /\ stage[r].state = "fetched" /\ ParentInstalled(r)
    /\ LET after == Upgraded(Below(r), lock[r])
       IN IF SameInventory(Below(r), lock[r].base) /\ SameInventory(after, lock[r].result)
            THEN stage' = [stage EXCEPT ![r] = [state |-> "installed", inventory |-> after]]
            ELSE stage' = [stage EXCEPT ![r].state = "refused"]
    /\ UNCHANGED <<tree, job, output, upstream, early>>

-----------------------------------------------------------------------------
(***************************************************************************)
(* Resolving a role, in a build of its own                                 *)
(***************************************************************************)
Needed(r) == ~ (Valid(r) /\ Fetchable(lock[r]))

\* Nothing that was resolved is still to be carried into the tree.
Carried(r) ==
    /\ output[r] # None => lock[r] = output[r] /\ evidence[r] = output[r]
    /\ pin[r] = lock[r]
    /\ NamesParent(r)

\* `Refresh common before either delta': the parent's turn comes first.
InTurn(r) == Needed(r) /\ Carried(r) /\ (Parent[r] # None => ~ Needed(Parent[r]))

\* The build context is copied when the resolver starts.  A delta's resolver
\* runs in the locked environment of its parent, and its plan must name the
\* parent's lock.
StartResolver(r) ==
    /\ job[r] = None
    /\ ParentInstalled(r) /\ NamesParent(r)
    /\ job' = [job EXCEPT ![r] =
          [pc |-> "load", plan |-> plan[r], image |-> release, base |-> Below(r),
           snapshot |-> 1, signature |-> 1]]
    /\ early' = IF InTurn(r) THEN early ELSE early + 1
    /\ UNCHANGED <<tree, stage, output, upstream>>

Fail(r) == job' = [job EXCEPT ![r] = None]

\* Mutant of LoadRepository: DNF's cache survives from the last resolution.
BugLoadRepository(r) ==
    /\ job[r] # None /\ job[r].pc = "load"
    /\ job' = [job EXCEPT ![r].pc = "evidence",
                  ![r].snapshot = IF output[r] # None THEN output[r].snapshot ELSE upstream.repomd]
    /\ UNCHANGED <<tree, stage, output, upstream, early>>

\* DNF loads repomd, signature and metadata into an empty cache and verifies them.
LoadRepository(r) ==
    /\ job[r] # None /\ job[r].pc = "load"
    /\ IF Signed(upstream.repomd, upstream.signature) /\ upstream.repomd \in upstream.served
         THEN job' = [job EXCEPT ![r].pc = "evidence", ![r].snapshot = upstream.repomd]
         ELSE Fail(r)
    /\ UNCHANGED <<tree, stage, output, upstream, early>>

\* The cached repomd is kept as evidence, with the signature and the metadata
\* as the mirror has them now: they must belong to that repomd.
CollectEvidence(r) ==
    /\ job[r] # None /\ job[r].pc = "evidence"
    /\ IF Signed(job[r].snapshot, upstream.signature) /\ job[r].snapshot \in upstream.served
         THEN job' = [job EXCEPT ![r].pc = "solve", ![r].signature = upstream.signature]
         ELSE Fail(r)
    /\ UNCHANGED <<tree, stage, output, upstream, early>>

Solution(r, base, offered) ==
    [p \in Packages |-> IF p \in Selected(r, base, offered) THEN offered[p] ELSE base[p]]

Transaction(r, j) ==
    [plan |-> j.plan, image |-> j.image, snapshot |-> j.snapshot, signature |-> j.signature,
     base |-> j.base, result |-> Solution(r, j.base, Offered[j.snapshot])]

\* A delta starts from the result of the lock that its plan names.
FromParent(r, tx) == Parent[r] # None => SameInventory(tx.base, tx.plan.result)

\* The payloads that were downloaded are those of the transaction, and there is
\* at least one: a transaction without items fits neither schema.
Lockable(tx) == Changed(tx) # {} /\ Fetchable(tx)

\* Solve, download and verify the payloads, write the transaction, and render
\* the lock in the same build context.
Solve(r) ==
    /\ job[r] # None /\ job[r].pc = "solve"
    /\ LET tx == Transaction(r, job[r])
       IN output' = IF FromParent(r, tx) /\ Lockable(tx)
                    THEN [output EXCEPT ![r] = tx] ELSE output
    /\ Fail(r)
    /\ UNCHANGED <<tree, stage, upstream, early>>

-----------------------------------------------------------------------------
(***************************************************************************)
(* Maintainers: one file at a time, in any order.  Every change of the     *)
(* tree is another build context, with no stage built.                     *)
(***************************************************************************)
Edited == stage' = Unbuilt /\ UNCHANGED <<job, output, upstream, early>>

CopyLock(r) ==
    /\ output[r] \notin {None, lock[r]}
    /\ lock' = [lock EXCEPT ![r] = output[r]]
    /\ Edited /\ UNCHANGED <<release, evidence, pin, plan>>

\* The transaction and the metadata directory.
CopyEvidence(r) ==
    /\ output[r] \notin {None, evidence[r]}
    /\ evidence' = [evidence EXCEPT ![r] = output[r]]
    /\ Edited /\ UNCHANGED <<release, lock, pin, plan>>

\* release.json and the component generated from it.
PinLock(r) ==
    /\ pin[r] # lock[r]
    /\ pin' = [pin EXCEPT ![r] = lock[r]]
    /\ Edited /\ UNCHANGED <<release, lock, evidence, plan>>

NameParent(r) ==
    /\ Parent[r] # None
    /\ plan[r] # lock[Parent[r]]
    /\ plan' = [plan EXCEPT ![r] = lock[Parent[r]]]
    /\ Edited /\ UNCHANGED <<release, lock, evidence, pin>>

\* A new digest of the base image in release.json.
MoveImage ==
    /\ release + 1 \in Images
    /\ release' = release + 1
    /\ Edited /\ UNCHANGED <<lock, evidence, pin, plan>>

-----------------------------------------------------------------------------
Mirror ==
    \/ AddSnapshot
    \/ ReplaceRepomd
    \/ ReplaceSignature
    \/ \E s \in Snapshots : DropSnapshot(s)

ResolverStep(r) ==
    \/ LoadRepository(r)
    \/ CollectEvidence(r)
    \/ Solve(r)

MaintainerStep(r) ==
    \/ CopyLock(r)
    \/ CopyEvidence(r)
    \/ PinLock(r)
    \/ NameParent(r)

BuildStep(r) ==
    \/ Fetch(r)
    \/ Install(r)

Next ==
    \/ Mirror
    \/ MoveImage
    \/ \E r \in Roles :
          \/ StartResolver(r) /\ (InTurn(r) \/ early < MaxEarly)
          \/ ResolverStep(r)
          \/ MaintainerStep(r)
          \/ BuildStep(r)

Spec == Init /\ [][Next]_vars

\* What is left to do for a role, parents first.
Work(r) ==
    \/ StartResolver(r) /\ InTurn(r)
    \/ ResolverStep(r)
    \/ MaintainerStep(r)
    \/ BuildStep(r)

\* The mirror finishes a replacement, and maintainers and builds go on with
\* each role.  Nobody has to move the image or to resolve out of turn.
FairSpec ==
    /\ Spec
    /\ WF_vars(ReplaceRepomd \/ ReplaceSignature)
    /\ \A r \in Roles : WF_vars(Work(r))

-----------------------------------------------------------------------------
(***************************************************************************)
(* Correctness                                                             *)
(***************************************************************************)
\* No build of an accepted tree finds other packages than its locks were
\* solved over, in whatever order files were resolved, copied and edited and
\* although the build itself never compares a delta with its parent's lock.
AcceptedInstalls ==
    Accepted => \A r \in Roles : stage[r].state # "refused"

\* An environment that carries a marker has exactly the packages of the lock's
\* result manifest, over the result of its parent's lock, and what was added is
\* of one snapshot, the one that the committed signature vouches for.  This
\* holds of every tree, accepted or not.
InstalledAsLocked ==
    \A r \in Roles : stage[r].state = "installed" =>
        /\ stage[r].inventory = lock[r].result
        /\ Parent[r] # None => lock[r].base = lock[Parent[r]].result
        /\ \A p \in Changed(lock[r]) : lock[r].result[p] = Offered[lock[r].signature][p]

Refreshed == Accepted /\ \A r \in Roles : stage[r].state = "installed"

\* Whatever the mirror replaced and maintainers did out of turn, refreshing the
\* roles parents first ends in an accepted tree all of whose stages are built.
EventuallyRefreshed == <>[]Refreshed
=============================================================================
