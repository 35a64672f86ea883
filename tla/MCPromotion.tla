---------------------------- MODULE MCPromotion ----------------------------
EXTENDS StablePromotion, TLC
CONSTANTS a, other, b, v1, v2, h1, h2, h3,
          sdk1, sdk2, sdk3, src1, src2, src3

\* Two candidates of the same version and one of the next; a run picks some.
Picked(table) == [c \in Candidates |-> table[c]]
MCVersionOf == Picked((a :> v1) @@ (other :> v1) @@ (b :> v2))
MCHeadOf    == Picked((a :> h1) @@ (other :> h2) @@ (b :> h3))
MCSdkOf     == Picked((a :> sdk1) @@ (other :> sdk2) @@ (b :> sdk3))
MCSourceOf  == Picked((a :> src1) @@ (other :> src2) @@ (b :> src3))
=============================================================================
