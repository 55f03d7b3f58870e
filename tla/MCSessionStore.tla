--------------------------- MODULE MCSessionStore ----------------------------
EXTENDS SessionStore, TLC

Symmetry == Permutations(Ids) \union Permutations(Creators)
=============================================================================
