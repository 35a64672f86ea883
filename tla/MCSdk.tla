------------------------------- MODULE MCSdk -------------------------------
(* Three rows, so that one waits for a thread of the pool. *)
EXTENDS SdkIntegration

ThreeRows == 1 .. 3
=============================================================================
