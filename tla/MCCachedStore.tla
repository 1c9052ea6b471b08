---------------------------- MODULE MCCachedStore ----------------------------
EXTENDS CachedStore
\* The goroutines, the keys and the values are interchangeable, and no property names one.
Symmetry == Permutations(Clients) \cup Permutations(Keys) \cup Permutations(Values)
=============================================================================
