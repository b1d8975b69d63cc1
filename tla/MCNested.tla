---- MODULE MCNested ----
EXTENDS Nested, TLC
Symmetry == Permutations(Synchronous) \cup Permutations(Tx \ Synchronous)
====
