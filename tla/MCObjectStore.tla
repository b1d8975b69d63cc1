--------------------------- MODULE MCObjectStore ---------------------------
EXTENDS StoreRefinement, TLC

\* Transactions are interchangeable, and so are snapshots.
Symmetry == Permutations(Tx) \cup Permutations(Snap)
=============================================================================
