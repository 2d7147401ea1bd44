--------------------------- MODULE MCModelObjects ---------------------------
EXTENDS ModelObjects, TLC

Alike == Permutations(Id) \union Permutations(Name)
=============================================================================
