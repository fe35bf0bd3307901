---------------------------- MODULE MCDiscCache -----------------------------
EXTENDS DiscCache

Symmetry == Permutations(Urls)
=============================================================================
