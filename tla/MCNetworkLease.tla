--------------------------- MODULE MCNetworkLease ---------------------------
EXTENDS NetworkLease, TLC
Symmetry == Permutations(Conns) \cup Permutations(Callers)
=============================================================================
