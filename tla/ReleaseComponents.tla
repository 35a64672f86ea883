-------------------------- MODULE ReleaseComponents --------------------------
(***************************************************************************)
(* Writing the release components.                                         *)
(*                                                                         *)
(* The renderer derives one document per component from release.json, and  *)
(* a binding that names the release and every component by digest.  A run  *)
(* stages all changed documents next to their files, replaces the files    *)
(* one by one with the binding last, and then removes what no release asks *)
(* for.  An exception puts the files back, again with the binding last; a  *)
(* killed run leaves everything as it is to the next one.                  *)
(***************************************************************************)
CONSTANTS Components,       \* paths of component documents
          Binding,          \* path of the binding
          Releases,         \* contents of release.json
          Document(_, _),   \* of a release and a component, or None
          None

\* A file's place; its temporaries lie next to it.
Paths == Components \cup {Binding}

\* What a release has at a path; the binding is as good as the release itself,
\* whose digest it has.
Target(r, p) == IF p = Binding THEN r ELSE Document(r, p)

\* The paths that a release renders.
Rendered(r) == {p \in Paths : p = Binding \/ Document(r, p) # None}

VARIABLES
    source,       \* release.json
    tree,         \* [Paths -> a release (of the binding), a document or None]
    litter,       \* paths with abandoned temporaries
    pc,           \* what the renderer does
    release,      \* the release that it has loaded
    plan,         \* documents to be replaced
    stale,        \* component files that the release does not render
    staged,       \* documents with a temporary of this run
    treeBefore,   \* the snapshots: of `plan' and `stale' from this,
    litterBefore, \* and of abandoned temporaries from this
    restored,     \* files that a rollback is done with
    spoiled,      \* whether restoring a file has failed
    lost,         \* temporaries of this run that nothing will unlink
    outcome       \* of the last run

files == <<tree, litter>>
planned == <<release, plan, stale, treeBefore, litterBefore>>
vars == <<source, files, pc, planned, staged, restored, spoiled, lost, outcome>>

Affected == plan \cup stale

TypeOK ==
    /\ source \in Releases /\ release \in Releases
    /\ tree = [p \in Paths |-> tree[p]]
    /\ treeBefore = [p \in Paths |-> treeBefore[p]]
    /\ litter \subseteq Paths /\ litterBefore \subseteq Paths
    /\ pc \in {"idle", "stage", "replace", "clean", "undo"}
    /\ plan \subseteq Paths /\ stale \subseteq Paths
    /\ staged \subseteq plan /\ restored \subseteq Affected
    /\ spoiled \in BOOLEAN /\ lost \subseteq Affected
    /\ outcome \in {"none", "written", "restored", "failed", "killed"}

\* A merge may have left files of different releases.
Init ==
    /\ source \in Releases /\ release = source
    /\ \E from \in [Paths -> Releases] : tree = [p \in Paths |-> Target(from[p], p)]
    /\ treeBefore = tree
    /\ litter = {} /\ litterBefore = {}
    /\ pc = "idle" /\ outcome = "none"
    /\ plan = {} /\ stale = {} /\ staged = {} /\ restored = {}
    /\ spoiled = FALSE /\ lost = {}

\* A maintainer edits release.json, also under a running renderer.
EditRelease ==
    /\ source' \in Releases
    /\ UNCHANGED <<files, pc, planned, staged, restored, spoiled, lost, outcome>>

\* Documents that differ from their files, and files that no document is for.
Changed(r) == {p \in Rendered(r) : tree[p] # Target(r, p)}
Unrendered(r) == {p \in Paths \ Rendered(r) : tree[p] # None}

\* Load and render the release, compare every file, and take the snapshots.
Begin ==
    /\ pc = "idle"
    /\ release' = source
    /\ plan' = Changed(source) /\ stale' = Unrendered(source)
    /\ treeBefore' = tree /\ litterBefore' = litter
    /\ staged' = {} /\ restored' = {} /\ spoiled' = FALSE /\ lost' = {}
    /\ pc' = "stage" /\ outcome' = "none"
    /\ UNCHANGED <<source, files>>

\* The payload is durable in a temporary before any file is replaced.
Stage(p) ==
    /\ pc = "stage" /\ p \in plan \ staged
    /\ staged' = staged \cup {p}
    /\ UNCHANGED <<source, files, pc, planned, restored, spoiled, lost, outcome>>

AllStaged ==
    /\ pc = "stage" /\ staged = plan
    /\ pc' = "replace"
    /\ UNCHANGED <<source, files, planned, staged, restored, spoiled, lost, outcome>>

\* The binding is the last file of a list.
InTurn(p, left) == p \in left /\ (p = Binding => left = {Binding})

Replace(p) ==
    /\ pc = "replace" /\ InTurn(p, staged)
    /\ tree' = [tree EXCEPT ![p] = Target(release, p)]
    /\ staged' = staged \ {p}
    /\ UNCHANGED <<source, litter, pc, planned, restored, spoiled, lost, outcome>>

AllReplaced ==
    /\ pc = "replace" /\ staged = {}
    /\ pc' = "clean"
    /\ UNCHANGED <<source, files, planned, staged, restored, spoiled, lost, outcome>>

\* Files that the release does not render and temporaries of killed runs go.
Remove(p) ==
    /\ pc = "clean" /\ p \in stale
    /\ tree' = [tree EXCEPT ![p] = None]
    /\ UNCHANGED <<source, litter, pc, planned, staged, restored, spoiled, lost, outcome>>

Sweep(p) ==
    /\ pc = "clean" /\ p \in litterBefore
    /\ litter' = litter \ {p}
    /\ UNCHANGED <<source, tree, pc, planned, staged, restored, spoiled, lost, outcome>>

FinishUpdate ==
    /\ pc = "clean"
    /\ \A p \in stale : tree[p] = None
    /\ litter \cap litterBefore = {}
    /\ pc' = "idle" /\ outcome' = "written"
    /\ UNCHANGED <<source, files, planned, staged, restored, spoiled, lost>>

-----------------------------------------------------------------------------
(* Exceptions and kills. *)

\* Any exception: the run's temporaries are unlinked and a rollback begins.
Raise ==
    /\ pc \in {"stage", "replace", "clean"}
    /\ staged' = {} /\ pc' = "undo"
    /\ UNCHANGED <<source, files, planned, restored, spoiled, lost, outcome>>

\* An interrupt while a temporary exists that is not on the list yet: it is not
\* among those that are unlinked.
Interrupt(p) ==
    /\ pc = "stage" /\ p \in plan \ staged
    /\ litter' = litter \cup {p} /\ lost' = {p}
    /\ staged' = {} /\ pc' = "undo"
    /\ UNCHANGED <<source, tree, planned, restored, spoiled, outcome>>

\* A second exception while they are unlinked: the rollback is left out.
RaiseAgain ==
    /\ pc \in {"stage", "replace", "clean"}
    /\ \E left \in SUBSET staged, writing \in {{}} \cup {{p} : p \in plan \ staged} :
          /\ writing # {} => pc = "stage"
          /\ litter' = litter \cup left \cup writing
    /\ staged' = {} /\ pc' = "idle" /\ outcome' = "failed"
    /\ UNCHANGED <<source, tree, planned, restored, spoiled, lost>>

\* One file gets its snapshot back, or its error is noted.  What is noted may
\* be an interrupt that leaves a temporary here, too.
Undo(p) ==
    /\ pc = "undo" /\ InTurn(p, Affected \ restored)
    /\ p = Binding => spoiled \/ litterBefore \subseteq litter
    /\ restored' = restored \cup {p}
    /\ \/ /\ tree' = [tree EXCEPT ![p] = treeBefore[p]]
          /\ spoiled' \in {spoiled, TRUE}
          /\ UNCHANGED <<litter, lost>>
       \/ /\ spoiled' = TRUE
          /\ \E left \in {{}, {p}} : litter' = litter \cup left /\ lost' = lost \cup left
          /\ UNCHANGED tree
    /\ UNCHANGED <<source, pc, planned, staged, outcome>>

\* Temporaries of killed runs have snapshots, too.
UndoSweep(p) ==
    /\ pc = "undo" /\ p \in litterBefore \ litter
    /\ \/ litter' = litter \cup {p} /\ UNCHANGED spoiled
       \/ spoiled' = TRUE /\ UNCHANGED litter
    /\ UNCHANGED <<source, tree, pc, planned, staged, restored, lost, outcome>>

\* All errors are reported in the end.
UndoFinish ==
    /\ pc = "undo" /\ restored = Affected
    /\ spoiled \/ litterBefore \subseteq litter
    /\ pc' = "idle" /\ outcome' = IF spoiled THEN "failed" ELSE "restored"
    /\ UNCHANGED <<source, files, planned, staged, restored, spoiled, lost>>

\* The process is killed or the machine stops: its temporaries stay, and the
\* one it was writing for a replacement or a rollback.
Kill ==
    /\ pc # "idle"
    /\ \E writing \in {{}} \cup {{p} : p \in Affected} :
          /\ writing # {} => pc \in {"stage", "undo"}
          /\ litter' = litter \cup staged \cup writing
    /\ staged' = {} /\ pc' = "idle" /\ outcome' = "killed"
    /\ UNCHANGED <<source, tree, planned, restored, spoiled, lost>>

RendererStep ==
    \/ Begin \/ AllStaged \/ AllReplaced \/ FinishUpdate
    \/ \E p \in Paths : Stage(p) \/ Replace(p) \/ Remove(p) \/ Sweep(p)
    \/ \E p \in Paths : Undo(p) \/ UndoSweep(p)
    \/ UndoFinish

Next ==
    \/ EditRelease \/ RendererStep
    \/ Raise \/ RaiseAgain \/ (\E p \in Paths : Interrupt(p))
    \/ Kill

Spec == Init /\ [][Next]_vars
-----------------------------------------------------------------------------
(* Correctness. *)

\* The tree holds everything that a release renders.  A tree whose binding
\* names a release without being its rendering fails on digests.
IsRendering(r) == \A p \in Rendered(r) : tree[p] = Target(r, p)

\* What `--check' accepts: the rendering and nothing else.
NoDrift(r) == IsRendering(r) /\ (\A p \in Paths \ Rendered(r) : tree[p] = None) /\ litter = {}

\* After a successful run nothing drifts from the release that it has loaded,
\* whatever state earlier runs were killed in, and although each file was
\* compared before the first one was replaced.
WrittenIsCurrent == outcome = "written" => NoDrift(release)

\* What is in place when a binding is written, and when one is put back.
Committed == tree'[Binding] = release /\ IsRendering(release)'

TakenBack ==
    /\ pc = "undo" /\ tree'[Binding] = treeBefore[Binding]
    /\ spoiled' = TRUE \/ (tree' = treeBefore /\ litterBefore \subseteq litter')

\* A binding that is written is a commit: all components of its release are in
\* place.  Otherwise it is one that a rollback puts back, after it has done
\* with every other file.
BindingCommits == [][tree'[Binding] # tree[Binding] => Committed \/ TakenBack]_vars

\* A run that raises once, at any point, puts every file back, and the abandoned
\* temporaries that it has found are there again, unless it reports that the
\* rollback failed.  It adds at most one temporary, of the document that it was
\* staging (release-components-core.py:1883-1886), which the next run sweeps.
RaisedPutsBack ==
    outcome = "restored" =>
        /\ tree = treeBefore /\ litter = litterBefore \cup lost
        /\ lost = {} \/ \E p \in plan : lost = {p}

\* With exceptions, kills and edits in between, every file is at any time one
\* that the run has found, or one of the release that it writes.
NoForeignFile ==
    pc # "idle" =>
        \A p \in Paths :
            tree[p] = treeBefore[p] \/ tree[p] = IF p \in Rendered(release)
                                                THEN Target(release, p) ELSE None
=============================================================================
