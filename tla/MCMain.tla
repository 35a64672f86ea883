------------------------------- MODULE MCMain -------------------------------
(* Two pushes: one of a controller, and one that comes with a copied document. *)
EXTENDS MainBuild

MCChanges == <<{{"sdkController"}}, {{"license", "baseline"}}>>
=============================================================================
