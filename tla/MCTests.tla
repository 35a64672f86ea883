------------------------------ MODULE MCTests ------------------------------
(* More modules than workers, so that a group holds several. *)
EXTENDS TestRunner

MCModules == 1 .. 4
=============================================================================
