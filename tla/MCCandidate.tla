----------------------------- MODULE MCCandidate -----------------------------
\* Two runs of one commit for TLC.
EXTENDS CandidateRun

TwoRuns == 1 .. 2
=============================================================================
