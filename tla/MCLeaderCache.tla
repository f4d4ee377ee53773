--------------------------- MODULE MCLeaderCache ---------------------------
EXTENDS LeaderCache, TLC

Symmetry == Permutations(Node)
=============================================================================
