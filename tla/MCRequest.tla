------------------------------ MODULE MCRequest ------------------------------
\* One candidate run, and requests for its commit, for TLC.
EXTENDS ReleaseRequest

OneRun == 1 .. 1
=============================================================================
