----------------------------- MODULE MCCombined -----------------------------
EXTENDS CombinedTransaction, TLC
CONSTANTS a, b, a1, a2, a3, b1, c
\* One combined transaction on two stores, and plain transactions beside it.
MCStoreOf == [t \in Tx |-> IF t \in {a1, a2, a3} THEN a ELSE b]
MCMemberOf == [t \in Tx |-> IF t \in {a1, b1} THEN c ELSE Null]
=============================================================================
