--------------------------- MODULE MCContextStore ---------------------------
EXTENDS ContextStore, TLC, Naturals

CONSTANTS MaxContended   \* names that programs may work on at once

\* Programs and names are interchangeable.
Alike == Permutations(Process) \union Permutations(Name)

Bounded == Cardinality(contended) <= MaxContended
=============================================================================
