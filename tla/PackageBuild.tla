---------------------------- MODULE PackageBuild ----------------------------
(***************************************************************************)
(* crosspack at work.  A staging tree is sealed once; `plan' and `package' *)
(* commands, several at a time, check it against the seal, prepare it,     *)
(* plan, audit and encode it entry by entry, while somebody may still      *)
(* change it.  A package command makes its result in a private directory   *)
(* and gives it the name of the output in one step.                        *)
(***************************************************************************)
EXTENDS PackageLayout

CONSTANTS Requests,   \* what may be asked for
          Builders,   \* commands, which all get the same request
          MaxEdits    \* bound: changes of the staging tree

\* What validation accepts is finite, some format and some component are always
\* selected, and nothing is called like the owner of what nobody provides.
WellFormed(asked) ==
    /\ asked.formats \in Seq(Formats) \ {<<>>}
    /\ asked.config = [debug |-> asked.config.debug, depends |-> asked.config.depends,
                       files |-> asked.config.files]
    /\ IsFiniteSet(Components(asked.config)) /\ Components(asked.config) # {}
    /\ NoComponent \notin Components(asked.config)
    /\ DOMAIN asked.config.files = Components(asked.config)
    /\ \A c \in Components(asked.config) : IsFiniteSet(asked.config.files[c])
    /\ IsFiniteSet(DOMAIN asked.tree)
    /\ \A s \in DOMAIN asked.tree : asked.tree[s].elf.runpath \in Seq(Seq(STRING))

ASSUME BuildAssumption ==
    /\ MaxEdits \in Nat
    /\ IsFiniteSet(DOMAIN Sysroot)
    /\ SystemDirs \in Seq(Seq(STRING)) /\ PackageDirs \in [Formats -> Seq(Seq(STRING))]
    /\ \A asked \in Requests : WellFormed(asked)

VARIABLES
    request,  \* [tree, config, command, formats], the same throughout
    staged,   \* version of every staged entry: a change never restores an old one
    sealed,   \* the versions that the manifest records, or Missing
    build,    \* what every command holds
    output    \* the output directory: a result, or Missing

buildVars == <<request, staged, sealed, build, output>>

Missing == <<>>
Tree == request.tree
Config == request.config
IsSplit == Config.debug # NoComponent

\* The configuration and the tree that are planned, with the debug component's files.
Effective == IF IsSplit THEN SplitConfig(Config, Tree) ELSE Config
Prepared == IF IsSplit THEN SplitTree(Tree) ELSE Tree

\* Packages in the order they are encoded.
Tasks ==
    LET cs == SetToSeq(Components(Config))
    IN [i \in 1 .. Len(request.formats) * Len(cs) |->
           [format    |-> request.formats[((i - 1) \div Len(cs)) + 1],
            component |-> cs[((i - 1) % Len(cs)) + 1]]]

New == [pc |-> "verify", before |-> Missing, copy |-> Missing,
        planned |-> Missing, audited |-> Missing, artifacts |-> <<>>]

BuildInit ==
    /\ request \in Requests
    /\ staged = [s \in DOMAIN request.tree |-> 0]
    /\ sealed = Missing /\ output = Missing
    /\ build = [b \in Builders |-> New]

At(b, pc) == build[b].pc = pc
Goto(b, pc) == build' = [build EXCEPT ![b].pc = pc]
Require(b, condition, pc) == Goto(b, IF condition THEN pc ELSE "failed")

-----------------------------------------------------------------------------
\* Somebody changes a staged entry.
Edit(s) ==
    /\ MapThenSumSet(LAMBDA t : staged[t], DOMAIN staged) < MaxEdits
    /\ staged' = [staged EXCEPT ![s] = @ + 1]
    /\ UNCHANGED <<request, sealed, build, output>>

\* The manifest is created exclusively, and never written again.
Seal ==
    /\ sealed = Missing
    /\ sealed' = staged
    /\ UNCHANGED <<request, staged, build, output>>

Verify(b) ==
    /\ At(b, "verify") /\ sealed # Missing
    /\ Require(b, ValidConfig(Config) /\ staged = sealed,
               IF request.command = "package" THEN "output" ELSE "prepare")
    /\ UNCHANGED <<request, staged, sealed, output>>

CheckOutput(b) ==
    /\ At(b, "output")
    /\ Require(b, output = Missing, "prepare")
    /\ UNCHANGED <<request, staged, sealed, output>>

-----------------------------------------------------------------------------
\* Without debug symbols to split, the staging tree itself is packaged.
Prepare(b) ==
    /\ At(b, "prepare")
    /\ IF ~IsSplit THEN Goto(b, "plan")
       ELSE IF ~Splits(Config, Tree) THEN Goto(b, "failed")
       ELSE build' = [build EXCEPT ![b].pc = "copy", ![b].before = staged]
    /\ UNCHANGED <<request, staged, sealed, output>>

CopyEntry(b, s) ==
    /\ At(b, "copy") /\ s \notin DOMAIN build[b].copy
    /\ build' = [build EXCEPT ![b].copy = (s :> staged[s]) @@ @]
    /\ UNCHANGED <<request, staged, sealed, output>>

\* The versions of the prepared tree: a companion has that of its file.
WithCompanions(versions) ==
    [s \in DOMAIN Prepared |->
        IF s \in DOMAIN versions THEN versions[s] ELSE versions[Tail(s)]]

\* The copy is complete: unless the tree has changed meanwhile, every loadable
\* file of the copy gets a companion made from it.
SplitSymbols(b) ==
    /\ At(b, "copy") /\ DOMAIN build[b].copy = DOMAIN staged
    /\ IF staged = build[b].before
         THEN build' = [build EXCEPT ![b].pc = "plan", ![b].copy = WithCompanions(@)]
         ELSE Goto(b, "failed")
    /\ UNCHANGED <<request, staged, sealed, output>>

\* Mutant of Source: the tree itself is packaged although it has been copied.
BugSource(b) == WithCompanions(staged)

\* What is packaged: the private copy, or the tree that others can still change.
Source(b) == IF IsSplit THEN build[b].copy ELSE staged

-----------------------------------------------------------------------------
PlanLayout(b) ==
    /\ At(b, "plan")
    /\ IF Expands(Effective, Prepared)
         THEN build' = [build EXCEPT ![b].pc = "audit", ![b].planned = Source(b)]
         ELSE Goto(b, "failed")
    /\ UNCHANGED <<request, staged, sealed, output>>

\* readelf reads the files again.
Audit(b) ==
    /\ At(b, "audit")
    /\ IF \A f \in Formats : Audited(Effective, Prepared, f)
         THEN build' = [build EXCEPT ![b].pc = IF request.command = "package" THEN "check" ELSE "done",
                                     ![b].audited = Source(b)]
         ELSE Goto(b, "failed")
    /\ UNCHANGED <<request, staged, sealed, output>>

CheckSource(b) ==
    /\ At(b, "check") /\ Len(build[b].artifacts) < Len(Tasks)
    /\ Require(b, Source(b) = build[b].planned, "encode")
    /\ UNCHANGED <<request, staged, sealed, output>>

\* nFPM reads the files of one package.
Encode(b) ==
    /\ At(b, "encode")
    /\ LET task  == Tasks[Len(build[b].artifacts) + 1]
           files == {x.source : x \in {y \in Contents(Effective, Prepared, task.format) :
                                          y.component = task.component}}
       IN build' = [build EXCEPT ![b].pc = "check",
                    ![b].artifacts = Append(@, [task |-> task,
                        content |-> [s \in files |-> Source(b)[s]]])]
    /\ UNCHANGED <<request, staged, sealed, output>>

Result(b) == [planned |-> build[b].planned, audited |-> build[b].audited,
              artifacts |-> build[b].artifacts]

\* Mutant of Publish: the output directory is replaced, whatever it holds.
BugPublish(b) ==
    /\ At(b, "check") /\ Len(build[b].artifacts) = Len(Tasks)
    /\ output' = Result(b)
    /\ Goto(b, "done")
    /\ UNCHANGED <<request, staged, sealed>>

\* A directory that holds something is never replaced: the second of two
\* commands fails.
Publish(b) ==
    /\ At(b, "check") /\ Len(build[b].artifacts) = Len(Tasks)
    /\ IF output = Missing
         THEN output' = Result(b) /\ Goto(b, "done")
         ELSE Goto(b, "failed") /\ UNCHANGED output
    /\ UNCHANGED <<request, staged, sealed>>

\* An external tool fails or the command is killed; the private directory is
\* all it leaves.
Fail(b) ==
    /\ ~(At(b, "done") \/ At(b, "failed"))
    /\ Goto(b, "failed")
    /\ UNCHANGED <<request, staged, sealed, output>>

BuildStep(b) ==
    \/ Verify(b) \/ CheckOutput(b) \/ Prepare(b)
    \/ \E s \in DOMAIN staged : CopyEntry(b, s)
    \/ SplitSymbols(b) \/ PlanLayout(b) \/ Audit(b)
    \/ CheckSource(b) \/ Encode(b) \/ Publish(b)

BuildNext ==
    \/ Seal
    \/ \E s \in DOMAIN staged : Edit(s)
    \/ \E b \in Builders : BuildStep(b) \/ Fail(b)

BuildSpec == BuildInit /\ [][BuildNext]_buildVars

-----------------------------------------------------------------------------
(***************************************************************************)
(* What is delivered                                                       *)
(***************************************************************************)
\* A result appears at once, with every selected package, and stays as it is,
\* whatever commands run for the same output and wherever they are stopped.
OutputAppearsOnce ==
    [][output' # output =>
          /\ output = Missing
          /\ [i \in DOMAIN output'.artifacts |-> output'.artifacts[i].task] = Tasks]_buildVars

\* Packages contain the entries that were planned and audited.  The exception is
\* the last package when the tree itself is packaged: nothing is compared after
\* it.  So a package that differs can only come alone.
PackagesMatchPlan ==
    output # Missing =>
        /\ output.audited = output.planned
        /\ \A i \in DOMAIN output.artifacts :
              i < Len(output.artifacts) \/ IsSplit =>
                  \A s \in DOMAIN output.artifacts[i].content :
                      output.artifacts[i].content[s] = output.planned[s]

-----------------------------------------------------------------------------
(***************************************************************************)
(* What can be installed                                                   *)
(***************************************************************************)
Accepted == \E b \in Builders : At(b, "done")

\* Components with everything they require: what a package manager lets one install.
Installations ==
    {some \in SUBSET Components(Effective) :
        \A c \in some : Effective.depends[c] \subseteq some}

Installed(f, some) ==
    {x \in Contents(Effective, Prepared, f) : x.component \in some}

\* The first file found: how the loader of the target system searches.
Loaded(installed, x, f, soname) ==
    LET dirs == Search(Prepared, x, f)
        hits == {i \in DOMAIN dirs : Found(Prepared, installed, dirs[i], soname) # {}}
    IN IF hits = {} THEN {} ELSE Found(Prepared, installed, dirs[Min(hits)], soname)

\* Whichever components of an accepted plan are installed, no link dangles.
LinksResolve ==
    Accepted => \A f \in Formats : \A some \in Installations :
        LET installed == Installed(f, some)
        IN \A x \in installed :
              IsLink(Prepared, x) => Named(installed, LinkTarget(Prepared, x)) # {}

LoadsItsProviders(x, f, some) ==
    \A soname \in Elf(Prepared, x).needed :
        Loaded(Installed(f, some), x, f, soname)
            = Providers(Prepared, Contents(Effective, Prepared, f), x, f, soname)

\* The links that name a needed library belong to packages the file's package requires.
LibraryLinksDeclared(x, f) ==
    \A y \in Contents(Effective, Prepared, f) :
        /\ IsLink(Prepared, y)
        /\ \E i \in DOMAIN Search(Prepared, x, f) : \E soname \in Elf(Prepared, x).needed :
              y.destination = Append(Search(Prepared, x, f)[i], soname)
        => y.component \in Declared(Effective, x.component)

\* Whichever components of an accepted plan are installed, the loader finds the
\* one provider the audit has recorded, provided that the links to libraries
\* belong to required packages too.
LoaderFindsProvider ==
    Accepted => \A f \in Formats : \A some \in Installations : \A x \in Installed(f, some) :
        LibraryLinksDeclared(x, f) => LoadsItsProviders(x, f, some)

\* README.md: every provider must be uniquely reachable, and cross-component
\* providers require an explicit component dependency.
EveryInstallationLoads ==
    Accepted => \A f \in Formats : \A some \in Installations : \A x \in Installed(f, some) :
        LoadsItsProviders(x, f, some)
=============================================================================
