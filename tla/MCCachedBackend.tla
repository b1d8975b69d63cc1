-------------------------- MODULE MCCachedBackend --------------------------
EXTENDS CachedBackend, TLC

\* Keys, values and readers are interchangeable.
Symmetry == Permutations(Key) \cup Permutations(Value) \cup Permutations(Reader)
=============================================================================
