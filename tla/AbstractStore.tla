--------------------------- MODULE AbstractStore ---------------------------
(***************************************************************************)
(* What an object store promises its clients, with no stack, no queue and  *)
(* no asynchronous flush (the class comments of Transaction and            *)
(* ObjectStore): a transaction reads the state that was committed last     *)
(* when it began plus its own writes; of the transactions begun on one     *)
(* state only the first to commit succeeds; a commit makes the whole view  *)
(* of its transaction the newest state at once; and the persistent         *)
(* contents are always one whole committed state, never an older one than  *)
(* before.                                                                 *)
(***************************************************************************)
EXTENDS Naturals, Sequences

CONSTANTS Tx, Key,
          Initial,       \* the contents the store may have at the start
          Nothing,       \* the contents without any key
          Absent         \* what is under a key that does not exist

VARIABLES
    log,          \* the states committed so far, oldest first
    persisted,    \* the index in log of the state that is durable
    db,           \* the durable contents
    status,       \* status[t]: what became of transaction t
    since,        \* since[t]: the index in log of the state t began on
    view          \* view[t]: what an open t reads

vars == <<log, persisted, db, status, since, view>>

Init ==
    /\ db \in Initial
    /\ log = <<db>>
    /\ persisted = 1
    /\ status = [t \in Tx |-> "none"]
    /\ since = [t \in Tx |-> 0]
    /\ view = [t \in Tx |-> Nothing]

Begin(t) ==
    /\ status[t] = "none"
    /\ status' = [status EXCEPT ![t] = "open"]
    /\ since' = [since EXCEPT ![t] = Len(log)]
    /\ view' = [view EXCEPT ![t] = log[Len(log)]]
    /\ UNCHANGED <<log, persisted, db>>

Write(t, k) ==
    /\ status[t] = "open"
    /\ \E v \in {t, Absent} : view' = [view EXCEPT ![t][k] = v]
    /\ UNCHANGED <<log, persisted, db, status, since>>

Clear(t) ==
    /\ status[t] = "open"
    /\ view' = [view EXCEPT ![t] = Nothing]
    /\ UNCHANGED <<log, persisted, db, status, since>>

Close(t, outcome) ==
    /\ status[t] = "open"
    /\ status' = [status EXCEPT ![t] = outcome]
    /\ since' = [since EXCEPT ![t] = 0]
    /\ view' = [view EXCEPT ![t] = Nothing]
    /\ UNCHANGED <<persisted, db>>

\* The first transaction to commit on the newest state replaces that state.
Commit(t) ==
    /\ since[t] = Len(log)
    /\ log' = Append(log, view[t])
    /\ Close(t, "committed")

\* Every other transaction begun on a state that has a successor conflicts.
Conflict(t) ==
    /\ since[t] < Len(log)
    /\ log' = log
    /\ Close(t, "conflicted")

Abort(t) ==
    /\ log' = log
    /\ Close(t, "aborted")

\* Some newer committed state becomes durable, as a whole.
Persist ==
    /\ persisted' \in (persisted + 1)..Len(log)
    /\ db' = log[persisted']
    /\ UNCHANGED <<log, status, since, view>>

Next ==
    \/ \E t \in Tx :
         \/ Begin(t) \/ Clear(t) \/ Commit(t) \/ Conflict(t) \/ Abort(t)
         \/ \E k \in Key : Write(t, k)
    \/ Persist

Spec == Init /\ [][Next]_vars
=============================================================================
