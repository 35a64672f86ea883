--------------------------- MODULE ComponentIndex ---------------------------
(***************************************************************************)
(* What the durable component store promises its consumers, without saying *)
(* how a catalog is produced, signed or retried.                           *)
(*                                                                         *)
(* The store holds build artifacts that are never replaced.  For each      *)
(* input identity the index is either silent (a producer is requested) or  *)
(* points at one stored artifact built from exactly that input.  It may    *)
(* move from one such artifact to another: it is a discovery hint.  It     *)
(* never becomes silent again.                                             *)
(***************************************************************************)
CONSTANTS Keys,        \* input identities: component, role and input hash
          Artifact,    \* every artifact a producer could build
          KeyOf(_),    \* the input identity an artifact was built from
          None         \* "the index has no entry"

VARIABLES stored,      \* artifacts retained in the registry
          index        \* [Keys -> Artifact \cup {None}]

Init == /\ stored = {}
        /\ index = [k \in Keys |-> None]

\* A producer retains a new artifact; the index does not see it yet.
Store == /\ \E a \in Artifact \ stored : stored' = stored \cup {a}
         /\ UNCHANGED index

\* A publisher points one input at an artifact that is already stored.
Point == \E k \in Keys, a \in stored :
            /\ KeyOf(a) = k
            /\ index' = [index EXCEPT ![k] = a]
            /\ UNCHANGED stored

Next == Store \/ Point

Spec == Init /\ [][Next]_<<stored, index>>
=============================================================================
