------------------------- MODULE MCQueryMultiplexer -------------------------
EXTENDS QueryMultiplexer, TLC
Symmetry == Permutations(Queries) \cup Permutations(Links)
=============================================================================
