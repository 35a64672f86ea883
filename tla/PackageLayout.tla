---------------------------- MODULE PackageLayout ----------------------------
(***************************************************************************)
(* What crosspack plans: which component ships which staged entry, where   *)
(* each package format puts it, and which file every shared library that   *)
(* an ELF file needs is loaded from.                                       *)
(*                                                                         *)
(* A path is the sequence of its names.  A staging tree maps the paths of  *)
(* its files, links and empty directories to what the inventory says of    *)
(* them; a configuration maps subtrees of it to destinations.              *)
(***************************************************************************)
EXTENDS SequencesExt

CONSTANTS Formats,      \* package formats
          PackageDirs,  \* [Formats -> Seq of paths] library directories of the format's systems
          SystemDirs,   \* sequence of the library directories of every target
          Sysroot,      \* the target's shared libraries: [paths -> the files they resolve to]
          DebugRoot,    \* where split debug symbols are installed
          NoComponent   \* owner of what no package provides

\* str.startswith(dir + "/"): nothing is below the root in this sense.
Below(path, dir) == dir # <<>> /\ IsStrictPrefix(dir, path)

\* posixpath.normpath(posixpath.join(base, relative))
Normal(base, relative) ==
    FoldLeft(LAMBDA dir, name : IF name # ".." THEN Append(dir, name)
                                ELSE IF dir = <<>> THEN <<>> ELSE Front(dir),
             base, relative)

-----------------------------------------------------------------------------
(***************************************************************************)
(* Configuration                                                           *)
(***************************************************************************)
Components(config) == DOMAIN config.depends

Declared(config, c) == config.depends[c] \cup {c}

\* Depth-first search meets no component it is still visiting.
Acyclic(config) ==
    \A some \in SUBSET Components(config) :
        some # {} => \E c \in some : config.depends[c] \cap some = {}

\* Only the component of split debug symbols declares no files.
ValidConfig(config) ==
    /\ \A c \in Components(config) :
          /\ config.depends[c] \subseteq Components(config) \ {c}
          /\ (config.files[c] = {}) <=> (c = config.debug)
    /\ \A c \in Components(config) : config.debug \notin config.depends[c]
    /\ config.debug \in Components(config) \cup {NoComponent}
    /\ Acyclic(config)

-----------------------------------------------------------------------------
(***************************************************************************)
(* Expansion of the mappings                                               *)
(***************************************************************************)
Matches(tree, mapping) == {s \in DOMAIN tree : IsPrefix(mapping.source, s)}

Assignments(config, tree) ==
    UNION {UNION {{[component |-> c, mapping |-> m, source |-> s] : s \in Matches(tree, m)}
                     : m \in config.files[c]}
              : c \in Components(config)}

\* What the packages of one format contain.
Contents(config, tree, f) ==
    {[component   |-> a.component, source |-> a.source,
      destination |-> a.mapping.destination[f]
                         \o SubSeq(a.source, Len(a.mapping.source) + 1, Len(a.source))]
        : a \in Assignments(config, tree)}

IsLink(tree, content) == tree[content.source].type = "link"

LinkTarget(tree, content) ==
    LET target == tree[content.source].target
    IN Normal(IF target.absolute THEN <<>> ELSE Front(content.destination), target.path)

\* What a link's target names: an entry, or everything in a directory.
Named(contents, path) ==
    {x \in contents : x.destination = path \/ Below(x.destination, path)}

\* Every mapping finds something, every entry is shipped by one mapping, and no
\* single entry replaces the root.
AssignedOnce(config, tree) ==
    /\ \A c \in Components(config) : \A m \in config.files[c] :
          /\ Matches(tree, m) # {}
          /\ m.source \in DOMAIN tree => \A f \in Formats : m.destination[f] # <<>>
    /\ \A s \in DOMAIN tree :
          Cardinality({a \in Assignments(config, tree) : a.source = s}) = 1

\* No two entries meet, and none lies below another.
Apart(contents) ==
    \A x, y \in contents :
        x # y => x.destination # y.destination /\ ~Below(x.destination, y.destination)

\* Mutant of LinksDeclared: the target of a link may be in any package.
BugLinksDeclared(config, tree, contents) ==
    \A x \in contents :
        IsLink(tree, x) => Named(contents, LinkTarget(tree, x)) # {}

\* A link leads into packages that its own package requires.
LinksDeclared(config, tree, contents) ==
    \A x \in contents :
        IsLink(tree, x) =>
            LET owners == {y.component : y \in Named(contents, LinkTarget(tree, x))}
            IN owners # {} /\ owners \subseteq Declared(config, x.component)

Expands(config, tree) ==
    /\ AssignedOnce(config, tree)
    /\ \A f \in Formats :
          LET contents == Contents(config, tree, f)
          IN Apart(contents) /\ LinksDeclared(config, tree, contents)

-----------------------------------------------------------------------------
(***************************************************************************)
(* The loader's view: where a needed library comes from                    *)
(***************************************************************************)
Elf(tree, x) == tree[x.source].elf

\* Directories of DT_RUNPATH, all relative to the file that has it.
RunDirs(tree, x) ==
    [i \in DOMAIN Elf(tree, x).runpath |->
        Normal(Front(x.destination), Elf(tree, x).runpath[i])]

Private(destination) ==
    /\ Len(destination) >= 4
    /\ \/ destination[1] = "opt"
       \/ destination[1] = "usr" /\ destination[2] = "libexec"

\* An entry may climb only within a private prefix, and no directory comes twice.
RunDirsAllowed(tree, x) ==
    LET dirs == RunDirs(tree, x)
    IN /\ \A i \in DOMAIN dirs :
             ".." \in Range(Elf(tree, x).runpath[i]) =>
                 /\ Private(x.destination)
                 /\ IsPrefix(SubSeq(x.destination, 1, 3), dirs[i])
       /\ IsInjective(dirs)

Search(tree, x, f) == RunDirs(tree, x) \o PackageDirs[f] \o SystemDirs

Hop(tree, contents, path) ==
    LET links == {x \in contents : x.destination = path /\ IsLink(tree, x)}
    IN IF links = {} THEN path ELSE LinkTarget(tree, CHOOSE x \in links : TRUE)

\* Where a chain of links ends; a cycle ends at one of its links.
Follow(tree, contents, path) ==
    LET hop[n \in 0 .. Cardinality(contents)] ==
            IF n = 0 THEN path ELSE Hop(tree, contents, hop[n - 1])
    IN hop[Cardinality(contents)]

Packaged(tree, contents, dir, soname) ==
    {[component |-> x.component, destination |-> x.destination] :
        x \in {y \in contents : y.destination = Follow(tree, contents, Append(dir, soname))}}

\* A name in a directory of the target, or one level below it.
NamedIn(dir, soname, path) ==
    /\ Len(path) \in {Len(dir) + 1, Len(dir) + 2}
    /\ IsPrefix(dir, path)
    /\ Last(path) = soname

\* Paths that resolve to one file are one provider.
FromSysroot(dir, soname) ==
    {[component |-> NoComponent, destination |-> Sysroot[path]] :
        path \in {p \in DOMAIN Sysroot : dir \in Range(SystemDirs) /\ NamedIn(dir, soname, p)}}

Found(tree, contents, dir, soname) ==
    Packaged(tree, contents, dir, soname) \cup FromSysroot(dir, soname)

\* The candidates of all directories, whichever comes first.
Providers(tree, contents, x, f, soname) ==
    UNION {Found(tree, contents, dir, soname) : dir \in Range(Search(tree, x, f))}

\* A packaged candidate is a shared library of that name.
Matching(tree, contents, provider, soname) ==
    \A y \in contents :
        y.destination = provider.destination /\ y.component = provider.component =>
            tree[y.source].type = "file" /\ tree[y.source].elf.soname = soname

\* Mutant of ProviderAllowed: the first of several candidates is taken.
BugProviderAllowed(config, tree, contents, x, f, soname) ==
    LET providers == Providers(tree, contents, x, f, soname)
    IN /\ providers # {}
       /\ \A p \in providers :
             p.component \in Declared(config, x.component) \cup {NoComponent}

\* One provider, in a package that the one of the file requires.
ProviderAllowed(config, tree, contents, x, f, soname) ==
    LET providers == Providers(tree, contents, x, f, soname)
    IN /\ Cardinality(providers) = 1
       /\ \A p \in providers :
             /\ p.component \in Declared(config, x.component) \cup {NoComponent}
             /\ Matching(tree, contents, p, soname)

Audited(config, tree, f) ==
    LET contents == Contents(config, tree, f)
    IN \A x \in contents :
          /\ RunDirsAllowed(tree, x)
          /\ \A soname \in Elf(tree, x).needed :
                ProviderAllowed(config, tree, contents, x, f, soname)

-----------------------------------------------------------------------------
(***************************************************************************)
(* Split debug symbols: every loadable ELF file gets a companion in the    *)
(* component that declares no files                                        *)
(***************************************************************************)
Reserved == ".crossforge-debug-symbols"
NoElf == [loadable |-> FALSE, soname |-> "", needed |-> {}, runpath |-> <<>>]

Base(config) ==
    LET rest == Components(config) \ {config.debug}
    IN [debug |-> NoComponent, files |-> [c \in rest |-> config.files[c]],
        depends |-> [c \in rest |-> config.depends[c]]]

Loadable(tree) == {s \in DOMAIN tree : tree[s].elf.loadable}

\* The component depends on exactly the owners of what was split.
Splits(config, tree) ==
    /\ \A s \in DOMAIN tree : s[1] # Reserved
    /\ Expands(Base(config), tree)
    /\ Loadable(tree) # {}
    /\ config.depends[config.debug]
          = {a.component : a \in {b \in Assignments(config, tree) : b.source \in Loadable(tree)}}

Companion(s) == <<Reserved>> \o s

SplitTree(tree) ==
    [s \in DOMAIN tree \cup {Companion(l) : l \in Loadable(tree)} |->
        IF s \in DOMAIN tree THEN tree[s] ELSE [type |-> "file", elf |-> NoElf]]

SplitConfig(config, tree) ==
    LET path(s, f) ==
            (CHOOSE x \in Contents(Base(config), tree, f) : x.source = s).destination
        companions ==
            {[source |-> Companion(s),
              destination |-> [f \in Formats |-> DebugRoot \o path(s, f) \o <<"debug">>]]
                : s \in Loadable(tree)}
    IN [config EXCEPT !.debug = NoComponent, !.files[config.debug] = companions]
=============================================================================
