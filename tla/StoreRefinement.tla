-------------------------- MODULE StoreRefinement --------------------------
(***************************************************************************)
(* The object store with its stack of layers and its asynchronous flushes  *)
(* implements the plain snapshot-isolated store of AbstractStore.          *)
(***************************************************************************)
EXTENDS ObjectStore

\* What became of a transaction, as its commit or abort decided: the promise
\* that reports it to the client is resolved later.
Status(t) ==
    IF t \in closed THEN "committed"
    ELSE IF call[t] = "conflict" THEN "conflicted"
    ELSE IF call[t] = "abort" THEN "aborted"
    ELSE state[t]

Abstract == INSTANCE AbstractStore WITH
    Initial   <- [Key -> {Seed, Absent}],
    persisted <- ver[Backend],
    status    <- [t \in Tx |-> Status(t)],
    since     <- [t \in Tx |-> IF Ready(t) THEN ver[t] ELSE 0],
    view      <- [t \in Tx |-> IF Ready(t) THEN View(t) ELSE Nothing]

\* Every step of the store is a step of the abstract store or invisible: reads
\* are isolated, the first committer wins and only it, opening after a commit
\* sees that commit, flushes are invisible, and the database always holds one
\* whole committed state and moves only to newer ones.
ImplementsAbstractStore == Abstract!Spec
=============================================================================
