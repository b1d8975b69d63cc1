------------------------------- MODULE Nested -------------------------------
(***************************************************************************)
(* Transactions nested in transactions, and SynchronousTransactions with   *)
(* the values they have preloaded (Transaction.transaction, commit(tx) and *)
(* abort(tx); SynchronousTransaction.js).  An outer transaction is the     *)
(* backend of the ones nested in it: the first commit of a round is merged *)
(* into it, the others conflict, and it may be written again when all are  *)
(* closed.                                                                 *)
(*                                                                         *)
(* The store below is reduced to what nested transactions meet: a stack of *)
(* committed states whose bottom is flushed when nobody reads the backend  *)
(* (its jobs and its other merges are in ObjectStore).  A step is the code *)
(* between two awaits.  Each client awaits the calls on its transaction.   *)
(***************************************************************************)
EXTENDS Overlay, Naturals, Sequences, SequencesExt

CONSTANTS Tx, Backend, Null,
          Synchronous,    \* the transactions made by synchronousTransaction
          Writes,         \* what clients do: "put", "remove", "truncate"
          Seeds,          \* values the database may hold at the start
          Kinds           \* kinds of backends: "async" (LevelDB, IndexedDB),
                          \* "lmdb" (synchronous), "memory" (and always cached)

ASSUME NestedAssumption ==
    /\ Tx \subseteq Value /\ Seeds \subseteq Value \cup {Absent}
    /\ Synchronous \subseteq Tx /\ Writes \subseteq {"put", "remove", "truncate"}
    /\ Kinds \subseteq {"async", "lmdb", "memory"}
    /\ Backend \notin Tx /\ Null \notin Tx /\ Backend # Null
    /\ "throws" \notin Value \cup {Absent}

VARIABLES
    kind, db,       \* the backend
    state,          \* Transaction._state ("none": not created yet)
    outer,          \* Transaction._managingBackend (Backend: the store)
    base,           \* Transaction._parent
    change,         \* Transaction._modified, _removed, _truncated
    cache,          \* SynchronousTransaction._cache (Untouched: no entry)
    nested,         \* Transaction._nested
    merged,         \* Transaction._nestedCommitted
    call, waits,    \* the call under way; the nested aborts an abort awaits
    stack,          \* ObjectStore._stateStack
    round, born,    \* history: how often it was reopened; the round it began in
    seen, moved,    \* history: what it was opened on; what that stands for may be another by now
    early           \* history: reopened while a merge into it was under way

store == <<kind, db, stack>>
data == <<change, cache>>
tree == <<outer, base>>
history == <<round, born, seen, moved, early>>
vars == <<store, state, tree, data, nested, merged, call, waits, history>>

Usable(t) == state[t] \in {"OPEN", "NESTED"}
IsRoot(t) == outer[t] = Backend
IsIn(t) == IF IsRoot(t) THEN TRUE ELSE t \in nested[outer[t]]
Merging(o) == {t \in Tx : outer[t] = o /\ call[t] \in {"merging", "merged"}}
Top == IF stack = <<>> THEN Backend ELSE Last(stack)

\* Transaction.isSynchronous and that of the backends
IsSynchronous(n) == IF n = Backend THEN kind # "async" ELSE n \in Synchronous

Init ==
    /\ kind \in Kinds /\ db \in [Key -> Seeds] /\ stack = <<>>
    /\ state = [t \in Tx |-> "none"]
    /\ outer = [t \in Tx |-> Null] /\ base = [t \in Tx |-> Null]
    /\ change = [t \in Tx |-> NoChange]
    /\ cache = [t \in Tx |-> [k \in Key |-> Untouched]]
    /\ nested = [t \in Tx |-> {}] /\ merged = [t \in Tx |-> FALSE]
    /\ call = [t \in Tx |-> "none"] /\ waits = [t \in Tx |-> {}]
    /\ round = [t \in Tx |-> 0] /\ born = [t \in Tx |-> 0]
    /\ seen = [t \in Tx |-> Nothing] /\ moved = {} /\ early = {}

-----------------------------------------------------------------------------
(* Reading.                                                                *)

\* The backend and the transactions there are.
Created == {t \in Tx : state[t] # "none"}
Nodes == Created \cup {Backend}

\* What a node stands for: its own changes over those below.
View(n) ==
    LET view[m \in Nodes] == IF m = Backend THEN db ELSE On(change[m], view[base[m]])
    IN  view[n]

\* The transaction's own changes answer a read.
Decides(n, k) == change[n].cell[k] # Untouched \/ change[n].truncated

\* SynchronousTransaction.isCached and that of the backends
IsCached(n, k) ==
    LET cached[m \in Nodes] ==
            IF m = Backend THEN kind = "memory"
            ELSE cache[m][k] # Untouched \/ (IsSynchronous(base[m]) /\ cached[base[m]])
    IN  cached[n]

Missing(v) == v \in {Absent, Untouched} \cup Falsy

\* Mutant: what is cached comes before the changes.
GetSyncCachedFirst(n, k, expectPresence) ==
    LET get[m \in Nodes] ==
            IF m = Backend THEN db[k]
            ELSE IF ~Missing(cache[m][k]) THEN cache[m][k]
            ELSE IF Decides(m, k) THEN Get(change[m], Nothing, k)
            ELSE IF IsSynchronous(base[m]) THEN get[base[m]]
            ELSE IF expectPresence THEN "throws"
            ELSE IF cache[m][k] = Untouched THEN Absent ELSE cache[m][k]
    IN  get[n]

\* SynchronousTransaction.getSync with _getCached: a value that is missing or
\* falsy is asked of a synchronous parent, and an error if it was expected.
GetSync(n, k, expectPresence) ==
    LET get[m \in Nodes] ==
            IF m = Backend THEN db[k]
            ELSE IF Decides(m, k) THEN Get(change[m], Nothing, k)
            ELSE IF Missing(cache[m][k]) /\ IsSynchronous(base[m]) THEN get[base[m]]
            ELSE IF Missing(cache[m][k]) /\ expectPresence THEN "throws"
            ELSE IF cache[m][k] = Untouched THEN Absent ELSE cache[m][k]
    IN  get[n]

\* SynchronousTransaction.get and Transaction.get
Read(n, k) ==
    LET read[m \in Nodes] ==
            IF m = Backend THEN db[k]
            ELSE IF m \in Synchronous /\ IsCached(m, k) THEN GetSync(m, k, FALSE)
            ELSE IF Decides(m, k) THEN Get(change[m], Nothing, k)
            ELSE read[base[m]]
    IN  read[n]

\* The synchronous transactions that remember the answer of such a read.
Remembering(n, k) ==
    LET asked[m \in Nodes] ==
            IF m = Backend \/ (m \in Synchronous /\ IsCached(m, k)) THEN {}
            ELSE ({m} \cap Synchronous) \cup (IF Decides(m, k) THEN {} ELSE asked[base[m]])
    IN  asked[n]

\* preload of one key, or get
Preload(t, k) ==
    /\ Usable(t) /\ call[t] = "none"
    /\ cache' = [n \in Tx |-> IF n \in Remembering(t, k) THEN [cache[n] EXCEPT ![k] = Read(t, k)]
                              ELSE cache[n]]
    /\ UNCHANGED <<store, state, tree, change, nested, merged, call, waits, history>>

-----------------------------------------------------------------------------
(* Opening and writing.                                                    *)

Create(t, o, b) ==
    /\ state[t] = "none"
    /\ outer' = [outer EXCEPT ![t] = o] /\ base' = [base EXCEPT ![t] = b]
    /\ seen' = [seen EXCEPT ![t] = View(b)]
    /\ moved' = IF b \in moved THEN moved \cup {t} ELSE moved
    /\ UNCHANGED <<store, data, merged, call, waits, round, early>>

\* ObjectStore.transaction and synchronousTransaction
OpenRoot(t) ==
    /\ Create(t, Backend, Top)
    /\ state' = [state EXCEPT ![t] = "OPEN"]
    /\ kind = "async" \/ t \in Synchronous
    /\ UNCHANGED <<nested, born>>

\* transaction and synchronousTransaction of a transaction
OpenNested(t, o) ==
    /\ Usable(o) /\ call[o] = "none"
    /\ Create(t, o, o)
    /\ state' = [state EXCEPT ![t] = "OPEN", ![o] = "NESTED"]
    /\ nested' = [nested EXCEPT ![o] = @ \cup {t}]
    /\ born' = [born EXCEPT ![t] = round[o]]

\* Mutant: an outer transaction may be written.
WritableAlways(t) == Usable(t) /\ call[t] = "none"
Writable(t) == state[t] = "OPEN" /\ call[t] = "none"

\* put, remove, truncate. Bound: one write, before anything has been merged.
Write(t) ==
    /\ Writable(t) /\ change[t] = NoChange
    /\ \E k \in Key, w \in Writes :
          change' = [change EXCEPT ![t] = CASE w = "put" -> PutKey(@, k, t)
                                            [] w = "remove" -> RemoveKey(@, k)
                                            [] w = "truncate" -> Emptied]
    /\ UNCHANGED <<store, state, tree, cache, nested, merged, call, waits, history>>

-----------------------------------------------------------------------------
(* Leaving an outer transaction.                                           *)

\* Each of S leaves its outer transaction; the flags of unflagged are reset.
LeftBy(S) == {o \in Tx : nested[o] # {} /\ nested[o] \subseteq S}
LeaveOuter(S, unflagged) ==
    /\ nested' = [o \in Tx |-> nested[o] \ S]
    /\ state' = [o \in Tx |-> IF o \in LeftBy(S) THEN "OPEN" ELSE state[o]]
    /\ merged' = [o \in Tx |-> merged[o] /\ o \notin unflagged]
    /\ round' = [o \in Tx |-> IF o \in LeftBy(S) THEN round[o] + 1 ELSE round[o]]
    /\ early' = early \cup {o \in LeftBy(S) : Merging(o) # {}}

\* Mutant: _nestedCommitted stays.
DepartMerged(S) == LeaveOuter(S, {})

\* Transaction.abort(tx) for each of S: the outer transaction is reopened, and its
\* _nestedCommitted reset, when the last one leaves.
Depart(S) == LeaveOuter(S, LeftBy(S))

\* A transaction and all that are nested in it, at any depth.
Closed(F) == \A n \in F : nested[n] \subseteq F
Family(t) == {n \in Tx : \A F \in SUBSET Tx : t \in F /\ Closed(F) => n \in F}

\* _abortBackend up to its first await. With transactions nested in it, these
\* are aborted first; those with none leave at once.
Abort(t) ==
    LET leaves == {n \in Family(t) : state[n] = "OPEN"}
    IN  /\ Usable(t) /\ \A n \in Family(t) : call[n] = "none"
        /\ state[t] = "OPEN" => IsIn(t)
        /\ Depart(leaves)
        /\ call' = [n \in Tx |-> IF n \notin Family(t) THEN call[n]
                                 ELSE IF n \in leaves THEN "leaving" ELSE "closing"]
        /\ waits' = [n \in Tx |-> IF n \in Family(t) \ leaves THEN nested[n] ELSE waits[n]]
        /\ UNCHANGED <<store, tree, data, born, seen, moved>>

\* The nested ones have gone: the abort goes on. It throws if the transaction is
\* still NESTED (a commit into it is being merged) or not in its outer one.
AbortGoesOn(t) ==
    /\ call[t] = "closing" /\ waits[t] = {} /\ state[t] = "OPEN" /\ IsIn(t)
    /\ Depart({t})
    /\ call' = [call EXCEPT ![t] = "leaving"]
    /\ UNCHANGED <<store, tree, data, waits, born, seen, moved>>

AbortThrows(t) ==
    /\ \/ call[t] = "closing" /\ waits[t] = {} /\ (state[t] # "OPEN" \/ ~IsIn(t))
       \/ call[t] = "failing"
    /\ call' = [n \in Tx |-> IF n = t THEN "none"
                             ELSE IF t \in waits[n] /\ call[n] = "closing" THEN "failing"
                             ELSE call[n]]
    /\ waits' = [n \in Tx |-> IF n = t THEN {} ELSE waits[n] \ {t}]
    /\ UNCHANGED <<store, state, tree, data, nested, merged, history>>

FinishAbort(t) ==
    /\ call[t] = "leaving"
    /\ state' = [state EXCEPT ![t] = "ABORTED"] /\ call' = [call EXCEPT ![t] = "none"]
    /\ waits' = [n \in Tx |-> waits[n] \ {t}]
    /\ UNCHANGED <<store, tree, data, nested, merged, history>>

-----------------------------------------------------------------------------
(* Committing.                                                             *)

\* Mutant: the state is not looked at.
CommitsAlways(t) == Usable(t) /\ call[t] = "none" /\ IsIn(t)

\* _commitBackend up to the manager's commit
Commits(t) == state[t] = "OPEN" /\ call[t] = "none" /\ IsIn(t)

\* ObjectStore.commit: the state a root is based on has a successor, or not.
CommitRoot(t) ==
    /\ Commits(t) /\ IsRoot(t)
    /\ IF base[t] = Top
         THEN stack' = Append(stack, t) /\ call' = [call EXCEPT ![t] = "committing"]
         ELSE call' = [call EXCEPT ![t] = "conflicting"] /\ UNCHANGED stack
    /\ UNCHANGED <<kind, db, state, tree, data, nested, merged, waits, history>>

\* Mutant: _nestedCommitted is not set before the await.
AcceptLater(o) == UNCHANGED merged
Accept(o) == merged' = [merged EXCEPT ![o] = TRUE]

\* Transaction.commit(tx) up to the await of _apply: accepted
CommitNested(t) ==
    /\ Commits(t) /\ ~IsRoot(t) /\ ~merged[outer[t]]
    /\ nested' = [nested EXCEPT ![outer[t]] = @ \ {t}]
    /\ Accept(outer[t])
    /\ call' = [call EXCEPT ![t] = "merging"]
    /\ UNCHANGED <<store, state, tree, data, waits, history>>

\* ... or not, when one of the round was
ConflictNested(t) ==
    /\ Commits(t) /\ ~IsRoot(t) /\ merged[outer[t]]
    /\ Depart({t})
    /\ call' = [call EXCEPT ![t] = "conflicting"]
    /\ UNCHANGED <<store, tree, data, waits, born, seen, moved>>

\* Transactions that read through o.
Below(t) ==
    LET below[m \in Nodes] == IF m = Backend THEN {} ELSE {base[m]} \cup below[base[m]]
    IN  below[t]
Readers(o) == {t \in Created : o \in Below(t)}

\* _apply, after the await of applyTx
ApplyNested(t) ==
    LET o == outer[t]
    IN  /\ call[t] = "merging" /\ (change[t].truncated => state[o] = "OPEN")
        /\ change' = [change EXCEPT ![o] = Merge(@, change[t])]
        /\ call' = [call EXCEPT ![t] = "merged"]
        /\ moved' = moved \cup Readers(o)
        /\ UNCHANGED <<store, state, tree, cache, nested, merged, waits, round, born, seen, early>>

\* truncateSync throws, because the outer transaction is not OPEN: the commit
\* rejects, and the nested transaction is open but no longer in _nested.
ApplyThrows(t) ==
    /\ call[t] = "merging" /\ change[t].truncated /\ state[outer[t]] # "OPEN"
    /\ call' = [call EXCEPT ![t] = "none"]
    /\ UNCHANGED <<store, state, tree, data, nested, merged, waits, history>>

\* Mutant: reopened though transactions are left.
ReopensAlways(o) == TRUE
Reopens(o) == nested[o] = {}

\* The end of _commitInternal. One that was reopened early may be closed by now: it is opened again.
EndMerge(t) ==
    LET o == outer[t]
    IN  /\ call[t] = "merged"
        /\ IF Reopens(o)
             THEN /\ state' = [state EXCEPT ![o] = "OPEN"]
                  /\ merged' = [merged EXCEPT ![o] = FALSE]
                  /\ round' = [round EXCEPT ![o] = @ + 1]
                  /\ moved' = IF Usable(o) THEN moved ELSE moved \cup {o} \cup Readers(o)
             ELSE UNCHANGED <<state, merged, round, moved>>
        /\ call' = [call EXCEPT ![t] = "committing"]
        /\ UNCHANGED <<store, tree, data, nested, waits, born, seen, early>>

\* _commitBackend, when the manager has answered
FinishCommit(t) ==
    /\ call[t] \in {"committing", "conflicting"}
    /\ state' = [state EXCEPT ![t] = IF call[t] = "committing" THEN "COMMITTED" ELSE "CONFLICTED"]
    /\ call' = [call EXCEPT ![t] = "none"]
    /\ UNCHANGED <<store, tree, data, nested, merged, waits, history>>

\* Roots that a flush into the backend would move.
ReadsBackend(t) ==
    /\ base[t] = Backend /\ Usable(t) /\ call[t] \notin {"leaving", "conflicting"}
    /\ \A i \in DOMAIN stack : stack[i] # t

\* The bottom of the stack is merged into the backend (ObjectStore._flattenState).
FlushBottom ==
    /\ stack # <<>> /\ \A t \in Tx : ~ReadsBackend(t)
    /\ db' = On(change[Head(stack)], db) /\ stack' = Tail(stack)
    /\ base' = [t \in Tx |-> IF base[t] = Head(stack) /\ IsRoot(t) THEN Backend ELSE base[t]]
    /\ UNCHANGED <<kind, state, outer, data, nested, merged, call, waits, history>>

Work(t) ==
    \/ AbortGoesOn(t) \/ AbortThrows(t) \/ FinishAbort(t)
    \/ ApplyNested(t) \/ ApplyThrows(t) \/ EndMerge(t) \/ FinishCommit(t)

Next ==
    \/ \E t \in Tx :
          \/ OpenRoot(t) \/ \E o \in Tx : OpenNested(t, o)
          \/ Write(t) \/ \E k \in Key : Preload(t, k)
          \/ Abort(t) \/ CommitRoot(t) \/ CommitNested(t) \/ ConflictNested(t)
          \/ Work(t)
    \/ FlushBottom

Spec == Init /\ [][Next]_vars

-----------------------------------------------------------------------------
(* Properties.                                                             *)

\* A commit that truncates was rejected in the middle of the merge (or it has been reopened
\* by the end of a merge into it).
Rejected(t) == ~IsRoot(t) /\ Usable(t) /\ ~IsIn(t) /\ call[t] \in {"none", "closing", "failing"}

\* An outer transaction is read-only as long as one nested in it is open or being
\* merged, and no longer: whoever leaves last, in whatever way and whatever else is
\* under way, reopens it. Two things the code lets happen are left out: a merge that
\* was rejected leaves it NESTED, and the abort of a sibling during a merge reopens
\* it before the merge is done.
OuterFollowsNested ==
    \A o \in Tx :
        /\ nested[o] # {} \/ merged[o] => state[o] = "NESTED"
        /\ state[o] = "NESTED" =>
              \/ nested[o] # {} \/ Merging(o) # {}
              \/ \E t \in Tx : outer[t] = o /\ Rejected(t)
        /\ Merging(o) # {} => (state[o] = "NESTED" /\ merged[o]) \/ o \in early

\* Of the transactions nested in an outer one in the same round, that is until it is
\* reopened, the first to commit wins: no second one is merged. A rejected commit counts as
\* accepted, for the flag stays set, unless it has been reopened by a merge into it.
Accepted(t) ==
    \/ state[t] = "COMMITTED" \/ call[t] \in {"merging", "merged", "committing"}
    \/ Rejected(t) /\ t \notin early
FirstCommitWins ==
    \A t, u \in {n \in Created : ~IsRoot(n) /\ Accepted(n)} :
        outer[t] = outer[u] /\ born[t] = born[u] => t = u

\* Not about to leave, and in _nested all the way up to a root.
Anchored(t) ==
    LET anchored[m \in Nodes] ==
            IF m = Backend THEN TRUE
            ELSE /\ Usable(m) /\ call[m] \notin {"leaving", "conflicting"} /\ IsIn(m)
                 /\ anchored[outer[m]]
    IN  anchored[t]

\* What a transaction reads is what it was opened on with its own changes, through
\* flushes of the states below and whatever has been cached by which transaction, until
\* a commit is merged into one it reads through, or one of these is reopened after it was
\* closed. A synchronous read of a cached key
\* gives just this, or an error for a value that is missing or falsy; it gives no
\* error if the transaction itself has preloaded the value or changed the key.
ReadsAreIsolated ==
    \A t \in Created \ moved, k \in Key :
        Anchored(t) =>
            LET v == Get(change[t], seen[t], k)
            IN  /\ Read(t, k) = v
                /\ t \in Synchronous =>
                      /\ IsCached(t, k) => GetSync(t, k, FALSE) = v
                      /\ GetSync(t, k, TRUE) \in {v, "throws"}
                      /\ GetSync(t, k, TRUE) = "throws" =>
                            ~Decides(t, k) /\ Missing(cache[t][k])

\* A transaction that is closed keeps its state and its changes: layers and nested
\* transactions still to be merged are never edited by whoever held them. Outer
\* transactions that were reopened during a merge are left out: the end of that merge
\* reopens them again, whatever they have become.
ClosedStaysClosed ==
    [][\A t \in Tx \ early : state[t] \in {"COMMITTED", "ABORTED", "CONFLICTED"} =>
          state'[t] = state[t] /\ change'[t] = change[t]]_vars

\* A merge makes of the outer transaction what the nested one has read: nobody has
\* changed it since the round began. An outer transaction reopened before its merge is done
\* is left out: it may be changed meanwhile.
MergeMatchesReads ==
    [][\A t \in Created \ moved :
          call[t] = "merging" /\ call'[t] = "merged" /\ outer[t] \notin early /\ Anchored(outer[t])
          => View(outer[t])' = On(change[t], seen[t])]_vars
=============================================================================
