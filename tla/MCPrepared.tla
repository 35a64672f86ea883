----------------------------- MODULE MCPrepared -----------------------------
EXTENDS PreparedConsumer, TLC
CONSTANTS r1, r2, install, context
MCSymmetry == Permutations({r1, r2}) \cup Permutations({install, context})
=============================================================================
