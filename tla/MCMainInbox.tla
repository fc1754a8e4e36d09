---------------------------- MODULE MCMainInbox ----------------------------
EXTENDS MainInbox, TLC

Symmetry == Permutations(Keys) \cup Permutations(Bodies)
=============================================================================
