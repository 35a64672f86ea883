-------------------------------- MODULE MCRpm --------------------------------
EXTENDS RpmLocks, TLC
CONSTANTS common, delta, lib, make, gcc

MCParent == [r \in Roles |-> IF r = delta THEN common ELSE None]

\* The image ships a library; every snapshot has newer packages than the last.
MCGround == [r \in Roles |-> [i \in Images |-> (lib :> i) @@ (make :> 0) @@ (gcc :> 0)]]
MCOffered == [s \in Snapshots |-> (lib :> s + 1) @@ (make :> s) @@ (gcc :> s)]

\* common asks for make, delta for gcc, which needs the newest library; nothing
\* is downgraded or removed.
Asked(r) == IF r = delta THEN {gcc, lib} ELSE {make}
MCSelected(r, base, offered) == {p \in Asked(r) : base[p] < offered[p]}
=============================================================================
