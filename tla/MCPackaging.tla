----------------------------- MODULE MCPackaging -----------------------------
\* A program that needs the target's C library and a library of its own (with a
\* link, or twice), or one that the target has too, for TLC.
EXTENDS PackageBuild

Program == <<"bin", "app">>
Library == <<"lib", "libx.1.2">>
Link    == <<"lib", "libx.1">>
Second  == <<"alt", "libx.1">>

File(loadable, soname, needed, runpath) ==
    [type |-> "file", elf |-> [loadable |-> loadable, soname |-> soname,
                               needed |-> needed, runpath |-> runpath]]

RunPath == <<<<"..", "lib">>, <<"..", "alt">>>>
Common == (Program :> File(TRUE, "", {"libx.1", "libc.6"}, RunPath))
Linked == Common @@ (Library :> File(TRUE, "libx.1", {}, <<>>))
                 @@ (Link :> [type |-> "link", elf |-> NoElf,
                              target |-> [absolute |-> FALSE, path |-> <<"libx.1.2">>]])
Doubled == Common @@ (<<"lib", "libx.1">> :> File(TRUE, "libx.1", {}, <<>>))
                  @@ (Second :> File(TRUE, "libx.1", {}, <<>>))
\* A private copy of a library that the target provides in a subdirectory, and
\* none of one that it provides twice.
Copied == (Program :> File(TRUE, "", {"libz.1"}, RunPath))
              @@ (<<"lib", "libz.1">> :> File(TRUE, "libz.1", {}, <<>>))
Plain(soname) == Program :> File(TRUE, "", {soname}, <<>>)

\* Everything below /opt, or libraries where each format's systems keep them.
PrivatePlace(s) == [f \in Formats |-> <<"opt", "vendor", "product">> \o s]
SystemPlace(s) ==
    [f \in Formats |->
        IF s[1] # "lib" THEN <<"usr", "libexec", "product">> \o s
        ELSE (IF f = "deb" THEN PackageDirs[f][1] ELSE <<"usr", "lib64">>) \o Tail(s)]

\* Every division of the tree among three components that require one another.
Names == {"tools", "runtime", "devel"}
Divisions(tree) == {owner \in [DOMAIN tree -> Names] : owner[Program] = "tools"}
Dependencies(used) == {d \in [used -> SUBSET used] : \A c \in used : c \notin d[c]}

Files(owner, c, place(_)) ==
    {[source |-> s, destination |-> place(s)] : s \in {t \in DOMAIN owner : owner[t] = c}}

Configs(owner, place(_)) ==
    LET used == {owner[s] : s \in DOMAIN owner}
    IN {[debug |-> NoComponent, depends |-> d, files |-> [c \in used |-> Files(owner, c, place)]]
           : d \in Dependencies(used)}

\* The library in a package of its own, and the debug symbols in a third one.
Whole == [s \in DOMAIN Linked |-> IF s = Program THEN "tools" ELSE "runtime"]
Split ==
    [debug   |-> "debug",
     depends |-> [tools |-> {"runtime"}, runtime |-> {}, debug |-> {"tools", "runtime"}],
     files   |-> [tools |-> Files(Whole, "tools", PrivatePlace),
                  runtime |-> Files(Whole, "runtime", PrivatePlace), debug |-> {}]]

Ask(command, tree, config, formats) ==
    [command |-> command, tree |-> tree, config |-> config, formats |-> formats]

PlanRequests ==
    UNION {{Ask("plan", tree, config, <<"deb", "rpm">>)
              : config \in UNION {Configs(owner, PrivatePlace) \cup Configs(owner, SystemPlace)
                                     : owner \in Divisions(tree)}}
           : tree \in {Linked, Doubled, Copied, Plain("libz.1"), Plain("libm.6")}}

BuildRequests ==
    {Ask("package", Linked, Split, <<"deb">>)}
      \cup {Ask("package", Linked, config, <<"deb", "rpm">>)
               : config \in {c \in Configs(Whole, SystemPlace) : c.depends.tools = {"runtime"}}}

AllRequests == PlanRequests \cup BuildRequests
BothFormats == {"deb", "rpm"}
MultiarchDirs == [deb |-> <<<<"usr", "lib", "multiarch">>>>, rpm |-> <<>>]

\* /lib64 is a link to /usr/lib64; libm is there twice.
TargetLibraries ==
    (<<"lib64", "libc.6">> :> <<"usr", "lib64", "libc.2">>)
      @@ (<<"usr", "lib64", "libc.6">> :> <<"usr", "lib64", "libc.2">>)
      @@ (<<"usr", "lib64", "compat", "libz.1">> :> <<"usr", "lib64", "compat", "libz.1">>)
      @@ (<<"usr", "lib64", "libm.6">> :> <<"usr", "lib64", "libm.6">>)
      @@ (<<"usr", "lib64", "compat", "libm.6">> :> <<"usr", "lib64", "compat", "libm.6">>)
TargetDirs == <<<<"lib">>, <<"lib64">>, <<"usr", "lib">>, <<"usr", "lib64">>>>
DebugDir == <<"usr", "lib", "debug">>
OneCommand == {"first"}
TwoCommands == {"first", "second"}
=============================================================================
