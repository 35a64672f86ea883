---------------------------- MODULE MCProduction ----------------------------
EXTENDS ComponentProduction, TLC
CONSTANTS r1, r2, k1, k2
MCWants == (r1 :> {k1, k2}) @@ (r2 :> {k1})
=============================================================================
