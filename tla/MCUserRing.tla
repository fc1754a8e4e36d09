----------------------------- MODULE MCUserRing -----------------------------
EXTENDS UserRing, TLC

Symmetry == Permutations(Keys) \cup Permutations(Bodies)
=============================================================================
