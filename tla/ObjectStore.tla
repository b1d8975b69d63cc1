---------------------------- MODULE ObjectStore ----------------------------
(***************************************************************************)
(* One ObjectStore (src/main/generic/ObjectStore.js) and the transactions  *)
(* and snapshots on it.  The store keeps a stack of committed transactions *)
(* that could not be written to the backend yet because an open            *)
(* transaction still reads the state below them; a Synchronizer runs the   *)
(* flatten jobs that merge the stack downwards one at a time.              *)
(*                                                                         *)
(* JavaScript runs on one thread: the code between two awaits is one step, *)
(* and anything else may run at an await.  Each client awaits the calls it *)
(* makes on its own transaction; different clients interleave freely.      *)
(*                                                                         *)
(* Every transaction writes its own name (Tx is part of Value), so that a  *)
(* value tells who wrote it.  log, ver and late are history variables: the *)
(* states committed so far, the number of the committed state each node    *)
(* stands for or began on, and the snapshots taken in the middle of a      *)
(* merge.                                                                  *)
(***************************************************************************)
EXTENDS Overlay, Naturals, Sequences, SequencesExt

CONSTANTS
    Tx,               \* the transactions
    Snap,             \* the snapshots
    Seed,             \* the value a key may have in the database at the start
    Backend,          \* the node of the backend (BACKEND_ID, _backendInfo)
    Null,             \* JavaScript's null
    MaxStackSize,     \* ObjectStore.MAX_STACK_SIZE
    Truncates,        \* whether clients truncate
    Failing           \* whether the backend may refuse a write

ASSUME StoreAssumption ==
    /\ Tx \cup {Seed} \subseteq Value
    /\ Backend \notin Tx /\ Null \notin Tx /\ Backend # Null
    /\ MaxStackSize \in Nat \ {0}
    /\ Truncates \in BOOLEAN /\ Failing \in BOOLEAN

Node == Tx \cup {Backend}

VARIABLES
    state,      \* Transaction._state ("none": not created yet)
    change,     \* Transaction._modified, _removed and _truncated
    base,       \* Transaction._parent
    call,       \* the call the client of a transaction is waiting for
    parent,     \* TransactionInfo._parentInfo
    children,   \* TransactionInfo.children
    closed,     \* the infos whose _open is false
    known,      \* ObjectStore._transactions
    stack,      \* ObjectStore._stateStack, the newest state last
    db,         \* what the backend holds
    queue,      \* Synchronizer._queue
    run,        \* the job the synchronizer is running and how far it is
    snap,       \* Snapshot._state
    old,        \* a snapshot's _modified, _removed and _truncated
    under,      \* a snapshot's _parent
    managed,    \* the SnapshotManager of each node
    log, ver,   \* history: the committed states, the state each node stands for
    late        \* history: the snapshots taken of a state while it was merged

txVars   == <<state, change, base>>
infoVars == <<parent, children, closed, known, stack>>
snapVars == <<snap, old, under, managed>>
history  == <<log, ver, late>>
vars == <<txVars, call, infoVars, db, queue, run, snapVars, history>>

-----------------------------------------------------------------------------
\* A job of the synchronizer: merge one transaction, or flatten both ends of
\* the stack. tx is the transaction whose call awaits the job (Null: none).
Job == [kind : {"merge"}, tx : Tx] \cup [kind : {"all"}, tx : Tx \cup {Null}]

Phase == {"applying", "applied", "failed", "true", "false", "thrown"}

\* end: which loop of the "all" job is running. target: the transaction being
\* merged. phase: what the job awaits, or what the merge returned.
Running == [job : Job, end : {"top", "bottom"}, target : Tx \cup {Null}, phase : Phase]

Idle == [job |-> Null, end |-> "top", target |-> Null, phase |-> "idle"]

\* _currentState
Top == IF stack = <<>> THEN Backend ELSE stack[Len(stack)]

\* What a reader of a node gets: get recurses along _parent to the backend.
View(n) ==
    LET view[m \in Node] == IF m = Backend THEN db ELSE On(change[m], view[base[m]])
    IN  view[n]

SnapView(s) == On(old[s], View(under[s]))

\* Mutants: layers count as readers; a second successor is not refused.
NoChildren(n) == children[n] = {}
CommittableOnce(t) == parent[t] # Null

\* numOpenChildren === 0
NoOpenChildren(n) == children[n] \subseteq closed

\* TransactionInfo.isCommittable
Committable(t) == parent[t] # Null /\ children[parent[t]] \cap closed = {}

\* Mutant: readers do not hold up a merge.
FlushableAlways(t) == parent[t] # Null

\* TransactionInfo.isFlushable, for a transaction outside a CombinedTransaction
Flushable(t) == parent[t] # Null /\ NoOpenChildren(parent[t])

-----------------------------------------------------------------------------
\* Mutants: the TypeError leaves the job hanging; readers are not looked at.
OutcomeHangs(t) ==
    IF t \notin known THEN "hangs" ELSE IF Flushable(t) THEN "applying" ELSE "false"
OutcomeUnasked(t) == IF t \notin known THEN "thrown" ELSE "applying"

\* The head of _flattenStateInternal(t), up to its first await: a transaction
\* that is gone from _transactions raises a TypeError.
Outcome(t) ==
    IF t \notin known THEN "thrown" ELSE IF Flushable(t) THEN "applying" ELSE "false"

\* SnapshotManager.applyTx(t, parent): the parent's snapshots remember what t
\* changes, and the parent takes over the snapshots of t.
ApplySnapshots(t) ==
    /\ old' = [s \in Snap |-> IF s \in managed[parent[t]]
                                THEN Preserve(old[s], change[t], SnapView(s))
                                ELSE old[s]]
    /\ managed' = [managed EXCEPT ![parent[t]] = @ \cup managed[t]]
    /\ UNCHANGED <<snap, under>>

\* Whether t can be flushed is asked in the state the calling step leaves.
Attempt(job, end, t) ==
    /\ run' = [job |-> job, end |-> end, target |-> t, phase |-> Outcome(t)']
    /\ IF run'.phase = "applying" THEN ApplySnapshots(t) ELSE UNCHANGED snapVars

Start(job) ==
    IF job.kind = "merge"
      THEN Attempt(job, "top", job.tx)
      ELSE IF stack = <<>>
        THEN /\ run' = [job |-> job, end |-> "bottom", target |-> Null, phase |-> "false"]
             /\ UNCHANGED snapVars
        ELSE \E t \in {Top} : Attempt(job, "top", t)

\* Synchronizer.push: an idle synchronizer starts the job before push returns.
Push(job) ==
    IF run = Idle
      THEN Start(job) /\ UNCHANGED queue
      ELSE queue' = Append(queue, job) /\ UNCHANGED <<run, snapVars>>

\* The call of t awaits a job that has not finished.
Awaiting(t) ==
    \/ run # Idle /\ run.job.tx = t
    \/ \E i \in DOMAIN queue : queue[i].tx = t

-----------------------------------------------------------------------------
Init ==
    /\ db \in [Key -> {Seed, Absent}]
    /\ state = [t \in Tx |-> "none"]
    /\ change = [t \in Tx |-> NoChange]
    /\ base = [t \in Tx |-> Backend]
    /\ call = [t \in Tx |-> "none"]
    /\ parent = [t \in Tx |-> Null]
    /\ children = [n \in Node |-> {}]
    /\ closed = {} /\ known = {} /\ stack = <<>>
    /\ queue = <<>> /\ run = Idle
    /\ snap = [s \in Snap |-> "none"]
    /\ old = [s \in Snap |-> NoChange]
    /\ under = [s \in Snap |-> Backend]
    /\ managed = [n \in Node |-> {}]
    /\ log = <<db>>
    /\ ver = [n \in Node |-> 1]
    /\ late = {}

\* ObjectStore.transaction: based on whatever is the current state.
Open(t) ==
    /\ state[t] = "none"
    /\ state' = [state EXCEPT ![t] = "open"]
    /\ base' = [base EXCEPT ![t] = Top]
    /\ parent' = [parent EXCEPT ![t] = Top]
    /\ children' = [children EXCEPT ![Top] = @ \cup {t}]
    /\ known' = known \cup {t}
    /\ ver' = [ver EXCEPT ![t] = ver[Top]]
    /\ UNCHANGED <<change, call, closed, stack, db, queue, run, snapVars, log, late>>

\* The client of t may act on it: t is open and no call of its is pending. A
\* refused commit leaves it open; after a TypeError ("threw") the client stops.
Ready(t) == state[t] = "open" /\ call[t] \in {"none", "refused"}

Modify(t, c) ==
    /\ Ready(t)
    /\ change' = [change EXCEPT ![t] = c]
    /\ UNCHANGED <<state, base, call, infoVars, db, queue, run, snapVars, history>>

\* Transaction.put, remove and truncate
TxPut(t, k) == Modify(t, PutKey(change[t], k, t))
TxRemove(t, k) == Modify(t, RemoveKey(change[t], k))
TxTruncate(t) == Truncates /\ Modify(t, Emptied)

\* ObjectStore.commit and _commitInternal of a committable transaction: it goes
\* on the stack and, if nobody reads the state below it, is to be merged.
Commit(t) ==
    /\ Ready(t) /\ Committable(t)
    /\ Len(stack) < MaxStackSize
    /\ stack' = Append(stack, t)
    /\ closed' = closed \cup {t}
    /\ call' = [call EXCEPT ![t] = "commit"]
    /\ log' = Append(log, On(change[t], log[ver[t]]))
    /\ ver' = [ver EXCEPT ![t] = Len(log) + 1]
    /\ UNCHANGED <<txVars, parent, children, known, db, late>>
    /\ IF Flushable(t)'
         THEN Push([kind |-> "merge", tx |-> t])
         ELSE UNCHANGED <<queue, run, snapVars>>

\* _commitInternal: 'Transaction stack size exceeded'
CommitRefused(t) ==
    /\ Ready(t) /\ Committable(t)
    /\ Len(stack) >= MaxStackSize
    /\ call' = [call EXCEPT ![t] = "refused"]
    /\ UNCHANGED <<txVars, infoVars, db, queue, run, snapVars, history>>

\* Mutant: whether the parent has open children is asked before t has left.
LeaveAfterwards(t, why) ==
    /\ Ready(t)
    /\ children' = [children EXCEPT ![parent[t]] = @ \ {t}]
    /\ call' = [call EXCEPT ![t] = why]
    /\ UNCHANGED <<txVars, parent, closed, known, stack, db, history>>
    /\ IF NoOpenChildren(parent[t])
         THEN Push([kind |-> "all", tx |-> t])
         ELSE UNCHANGED <<queue, run, snapVars>>

\* ObjectStore.abort, also called by a commit that conflicts: leave the parent
\* and, if the parent has no open child any more, flatten the stack.
Leave(t, why) ==
    /\ Ready(t)
    /\ children' = [children EXCEPT ![parent[t]] = @ \ {t}]
    /\ call' = [call EXCEPT ![t] = why]
    /\ UNCHANGED <<txVars, parent, closed, known, stack, db, history>>
    /\ \E p \in {parent[t]} :
         IF NoOpenChildren(p)'
           THEN Push([kind |-> "all", tx |-> t])
           ELSE UNCHANGED <<queue, run, snapVars>>

CommitConflict(t) == ~Committable(t) /\ Leave(t, "conflict")
Abort(t) == Leave(t, "abort")

\* The continuations of commit and abort in Transaction, once the promise they
\* await has been resolved.
FinishCommit(t) ==
    /\ call[t] = "commit" /\ ~Awaiting(t)
    /\ call' = [call EXCEPT ![t] = "none"]
    /\ state' = [state EXCEPT ![t] = "committed"]
    /\ UNCHANGED <<change, base, infoVars, db, queue, run, snapVars, history>>

FinishLeave(t) ==
    /\ call[t] \in {"abort", "conflict"} /\ ~Awaiting(t)
    /\ call' = [call EXCEPT ![t] = "none"]
    /\ state' = [state EXCEPT ![t] = IF call[t] = "abort" THEN "aborted" ELSE "conflicted"]
    /\ known' = known \ {t}
    /\ UNCHANGED <<change, base, parent, children, closed, stack, db, queue, run,
                   snapVars, history>>

-----------------------------------------------------------------------------
\* The asynchronous part of _flattenStateInternal(target).

\* backend._apply(tx) on the backend: one atomic database write.
ApplyToBackend ==
    /\ run.phase = "applying" /\ parent[run.target] = Backend
    /\ db' = On(change[run.target], db)
    /\ ver' = [ver EXCEPT ![Backend] = ver[run.target]]
    /\ run' = [run EXCEPT !.phase = "applied"]
    /\ UNCHANGED <<txVars, call, infoVars, queue, snapVars, log, late>>

\* truncateSync throws on a transaction that is no longer open.
Rejects(n, c) == n # Backend /\ c.truncated /\ state[n] # "open"

\* Transaction._apply: merge into the committed transaction below.
ApplyToParent ==
    /\ run.phase = "applying" /\ parent[run.target] # Backend
    /\ ~Rejects(parent[run.target], change[run.target])
    /\ change' = [change EXCEPT ![parent[run.target]] = Merge(@, change[run.target])]
    /\ ver' = [ver EXCEPT ![parent[run.target]] = ver[run.target]]
    /\ run' = [run EXCEPT !.phase = "applied"]
    /\ UNCHANGED <<state, base, call, infoVars, db, queue, snapVars, log, late>>

\* backend._apply(tx) rejects: a refused write, or a truncated transaction on
\* top of a committed one.
ApplyFails ==
    /\ run.phase = "applying"
    /\ \/ Failing /\ parent[run.target] = Backend
       \/ Rejects(parent[run.target], change[run.target])
    /\ run' = [run EXCEPT !.phase = "failed"]
    /\ UNCHANGED <<txVars, call, infoVars, db, queue, snapVars, history>>

\* Mutant: the children are forgotten.
FlushForgetsChildren(t) ==
    /\ children' = [children EXCEPT ![parent[t]] = @ \ {t}, ![t] = {}]
    /\ parent' = [x \in Tx |-> IF x = t THEN Null
                               ELSE IF x \in children[t] THEN parent[t] ELSE parent[x]]
    /\ base' = [x \in Tx |-> IF x \in children[t] THEN parent[t] ELSE base[x]]

\* TransactionInfo.flush: the children of t and their transactions move down to
\* its parent.
Flush(t) ==
    /\ children' = [children EXCEPT ![parent[t]] = (@ \ {t}) \cup children[t], ![t] = {}]
    /\ parent' = [x \in Tx |-> IF x = t THEN Null
                               ELSE IF x \in children[t] THEN parent[t] ELSE parent[x]]
    /\ base' = [x \in Tx |-> IF x \in children[t] THEN parent[t] ELSE base[x]]

\* cleanup(), after the catch branch if the application failed: the merged
\* transaction leaves the stack and another flatten is pushed.
Cleanup ==
    /\ run.phase \in {"applied", "failed"}
    /\ LET t == run.target
       IN  /\ Flush(t)
           /\ known' = known \ {t}
           /\ \E i \in DOMAIN stack : stack[i] = t /\ stack' = RemoveAt(stack, i)
           /\ state' = IF run.phase = "failed" THEN [state EXCEPT ![t] = "aborted"] ELSE state
    /\ queue' = Append(queue, [kind |-> "all", tx |-> Null])
    /\ run' = [run EXCEPT !.phase = "true"]
    /\ UNCHANGED <<change, call, closed, db, snapVars, history>>

\* The loops of the "all" job: merge the newest state while that succeeds, then
\* the oldest.
Continue ==
    /\ run # Idle /\ run.job.kind = "all" /\ stack # <<>>
    /\ UNCHANGED <<txVars, call, infoVars, db, queue, history>>
    /\ IF run.end = "top"
         THEN \/ run.phase = "true" /\ \E t \in {Top} : Attempt(run.job, "top", t)
              \/ run.phase = "false" /\ \E t \in {stack[1]} : Attempt(run.job, "bottom", t)
         ELSE run.phase = "true" /\ \E t \in {stack[1]} : Attempt(run.job, "bottom", t)

\* Mutant: a job that threw is never settled.
FinishedUnlessThrown ==
    \/ run.phase \in {"true", "false"} /\ run.job.kind = "merge"
    \/ run.phase = "true" /\ stack = <<>>
    \/ run.phase = "false" /\ run.end = "bottom"

Finished ==
    \/ run.phase = "thrown"
    \/ run.phase \in {"true", "false"} /\ run.job.kind = "merge"
    \/ run.phase = "true" /\ stack = <<>>
    \/ run.phase = "false" /\ run.end = "bottom"

\* Synchronizer._doWork: settle the promise of the job and start the next one.
EndJob ==
    /\ run # Idle /\ Finished
    /\ call' = IF run.phase = "thrown" /\ run.job.tx # Null
                 THEN [call EXCEPT ![run.job.tx] = "threw"] ELSE call
    /\ UNCHANGED <<txVars, infoVars, db, history>>
    /\ IF queue = <<>>
         THEN run' = Idle /\ UNCHANGED <<queue, snapVars>>
         ELSE /\ queue' = Tail(queue)
              /\ \E job \in {Head(queue)} : Start(job)

-----------------------------------------------------------------------------
\* The layer being merged and the state below it: their snapshot managers have
\* been gone through (applyTx) and will not be again for this merge.
BeingMerged ==
    IF run.phase \in {"applying", "applied"} THEN {run.target, parent[run.target]} ELSE {}

\* SnapshotManager.createSnapshot in the manager of n, with differences c that
\* are taken as already applied (inherit).
Register(s, n, c) ==
    /\ snap' = [snap EXCEPT ![s] = "open"]
    /\ old' = [old EXCEPT ![s] = c]
    /\ under' = [under EXCEPT ![s] = n]
    /\ managed' = [managed EXCEPT ![n] = @ \cup {s}]
    /\ late' = IF n \in BeingMerged THEN late \cup {s} ELSE late

SnapshotThrows(s) ==
    /\ snap' = [snap EXCEPT ![s] = "threw"]
    /\ UNCHANGED <<old, under, managed, late>>

\* ObjectStore.snapshot and Transaction.snapshot call each other for ever while
\* the newest committed transaction is still waiting for its commit call.
Recurses == Top # Backend /\ state[Top] # "committed"

\* ObjectStore.snapshot: of the newest committed state.
StoreSnapshot(s) ==
    /\ snap[s] = "none"
    /\ IF Recurses THEN SnapshotThrows(s) ELSE Register(s, Top, NoChange)
    /\ UNCHANGED <<txVars, call, infoVars, db, queue, run, log, ver>>

\* Transaction.snapshot: a committed transaction keeps its own snapshots; any
\* other lays its differences over a snapshot of the store. A snapshot cannot
\* inherit a truncation: it is registered, then truncateSync throws.
TxSnapshot(s, t) ==
    /\ snap[s] = "none" /\ state[t] # "none"
    /\ \/ state[t] = "committed" /\ Register(s, t, NoChange)
       \/ /\ state[t] # "committed"
          /\ IF Recurses THEN SnapshotThrows(s)
             ELSE IF change[t].truncated
               THEN /\ snap' = [snap EXCEPT ![s] = "threw"]
                    /\ under' = [under EXCEPT ![s] = Top]
                    /\ managed' = [managed EXCEPT ![Top] = @ \cup {s}]
                    /\ UNCHANGED <<old, late>>
               ELSE Register(s, Top, change[t])
    /\ UNCHANGED <<txVars, call, infoVars, db, queue, run, log, ver>>

\* Snapshot._abortBackend: only the store's own manager is asked. A snapshot it
\* does not manage stays open (abort returns false).
SnapshotAbort(s) ==
    /\ snap[s] = "open" /\ s \in managed[Backend]
    /\ managed' = [managed EXCEPT ![Backend] = @ \ {s}]
    /\ snap' = [snap EXCEPT ![s] = "aborted"]
    /\ old' = [old EXCEPT ![s] = Emptied]
    /\ UNCHANGED <<txVars, call, infoVars, db, queue, run, under, history>>

-----------------------------------------------------------------------------
Client(t) ==
    \/ Open(t) \/ TxTruncate(t)
    \/ \E k \in Key : TxPut(t, k) \/ TxRemove(t, k)
    \/ Commit(t) \/ CommitRefused(t) \/ CommitConflict(t) \/ Abort(t)

Finish(t) == FinishCommit(t) \/ FinishLeave(t)

Synchronizer == ApplyToBackend \/ ApplyToParent \/ ApplyFails \/ Cleanup \/ Continue \/ EndJob

Snapshots(s) ==
    \/ StoreSnapshot(s) \/ SnapshotAbort(s)
    \/ \E t \in Tx : TxSnapshot(s, t)

Next ==
    \/ \E t \in Tx : Client(t) \/ Finish(t)
    \/ Synchronizer
    \/ \E s \in Snap : Snapshots(s)

Spec == Init /\ [][Next]_vars

\* A resolved promise runs its continuation, and a backend answers every write.
\* Clients owe nothing: they may leave a transaction open for ever.
Fairness == WF_vars(Synchronizer) /\ \A t \in Tx : WF_vars(Finish(t))

FairSpec == Spec /\ Fairness

-----------------------------------------------------------------------------
(***************************************************************************)
(* Safety                                                                  *)
(***************************************************************************)

\* The committed transactions that are still on the stack.
Layers == {stack[i] : i \in DOMAIN stack}

\* Type correctness of every variable but old: what a snapshot remembers has the type
\* of what it reads, which needs the walk down the stack (SnapshotsFit of the proofs).
TypeOK ==
    /\ state \in [Tx -> {"none", "open", "committed", "aborted", "conflicted"}]
    /\ change \in [Tx -> Change]
    /\ base \in [Tx -> Node]
    /\ call \in [Tx -> {"none", "refused", "commit", "abort", "conflict", "threw"}]
    /\ parent \in [Tx -> Node \cup {Null}]
    /\ children \in [Node -> SUBSET Tx]
    /\ closed \subseteq Tx /\ known \subseteq Tx
    /\ stack \in Seq(Tx)
    /\ db \in Contents
    /\ queue \in Seq(Job)
    /\ run \in Running \cup {Idle}
    /\ snap \in [Snap -> {"none", "open", "aborted", "threw"}]
    /\ under \in [Snap -> Node]
    /\ managed \in [Node -> SUBSET Snap]
    /\ log \in Seq(Contents)
    /\ ver \in [Node -> 1..Len(log)]
    /\ late \subseteq Snap

\* A state has at most one committed successor: the stack is one chain from the
\* backend up, each layer the only committed child of the one below, and the
\* current state has no committed child. The comments of _commitInternal ("the
\* underlying layer *has to be* the last one in our stack") and of cleanup rely
\* on it; a commit racing a flush or an abort would be what breaks it.
StackIsChain ==
    /\ \A i \in DOMAIN stack :
         /\ parent[stack[i]] = IF i = 1 THEN Backend ELSE stack[i - 1]
         /\ children[parent[stack[i]]] \cap closed = {stack[i]}
    /\ children[Top] \cap closed = {}

\* A transaction whose client may act reads its own writes over the state that
\* had been committed when it began, whatever has been committed, merged,
\* written to the backend or aborted since (get through _parent, _setParent).
ReadIsolation ==
    \A t \in Tx : Ready(t) => View(t) = On(change[t], log[ver[t]])

\* "New transactions will always be based on the new state" (Transaction.commit):
\* what a reader of the current state gets is what was committed last.
CurrentIsNewest == View(Top) = log[Len(log)]

\* The link by link form of the two properties above, without the recursion of
\* View: each layer is its difference over the state below it, an open
\* transaction began on the state it is now based on, and the backend holds one
\* whole committed state.
LayersMatchHistory ==
    /\ db = log[ver[Backend]]
    /\ ver[Top] = Len(log)
    /\ \A t \in Layers : log[ver[t]] = On(change[t], log[ver[base[t]]])
    /\ \A t \in Tx : Ready(t) => ver[t] = ver[base[t]]

\* While a layer is being merged, the layer stays on the stack and registered
\* and nobody comes to read the state it is merged into: the check at the head
\* of _flattenStateInternal still holds after its awaits.
FlushStaysLegal ==
    run.phase \in {"applying", "applied", "failed"} =>
        /\ run.target \in Layers \cap known
        /\ Flushable(run.target)

\* When the synchronizer is at rest and layers are left, readers are the reason:
\* somebody's client still reads the backend, and somebody's the state below the
\* newest layer. No abort, conflict or commit between two awaits of a job leaves an
\* end of the stack free without a job to look at it. So a commit refused by a full
\* stack is held up by the readers of older states, not by itself or a lost job.
LayersAreHeld ==
    run = Idle /\ stack # <<>> =>
        \A n \in {Backend, parent[Top]} : \E t \in Tx : Ready(t) /\ base[t] = n

\* A node is attached while somebody may read through it or merge it.
Attached(t) == Ready(t) \/ t \in Layers

\* The registration of transactions and layers is exact at every step, which is
\* what the properties above rest on: a layer is a closed info that has a parent
\* and is on the stack once, above its parent; the children of a node are just
\* the layers and usable transactions based on it; all of them are known.
Registered ==
    /\ Layers = {t \in closed : parent[t] # Null}
    /\ \A i, j \in DOMAIN stack : stack[i] = stack[j] => i = j
    /\ \A i \in DOMAIN stack : parent[stack[i]] = IF i = 1 THEN Backend ELSE stack[i - 1]
    /\ \A n \in Node : children[n] = {t \in Tx : Attached(t) /\ parent[t] = n}
    /\ \A t \in Tx : Attached(t) =>
         t \in known /\ base[t] = parent[t] /\ parent[t] \in Layers \cup {Backend}
    /\ \A t \in closed : call[t] \in {"none", "commit", "threw"} /\ ~Ready(t)
    /\ \A t \in Tx : state[t] = "none" => t \notin closed /\ call[t] = "none"

\* A job that merges one transaction was pushed by the commit of it, and only
\* such a job can find its transaction gone.
JobsAreLegal ==
    /\ \A i \in DOMAIN queue : queue[i].kind = "merge" => queue[i].tx \in closed
    /\ run # Idle /\ run.job.kind = "merge" => run.job.tx \in closed
    /\ run.phase = "thrown" => run # Idle /\ run.job.kind = "merge"

\* The snapshots that some state on the stack (or the backend) keeps up to date
\* and that were not taken of a state in the middle of a merge.
Maintained(s) == s \notin late /\ \E n \in Layers \cup {Backend} : s \in managed[n]

\* A snapshot that is kept up to date never changes what it reads, whatever is
\* committed, merged, written or taken over while it is open.
MaintainedSnapshotsAreStable ==
    [][\A s \in Snap : snap[s] = "open" /\ snap'[s] = "open" /\ Maintained(s)'
                         => SnapView(s)' = SnapView(s)]_vars

(***************************************************************************)
(* Liveness, under Fairness                                                *)
(***************************************************************************)

\* No commit or abort waits for ever: the synchronizer gets to every job, even
\* when a job throws, and no job waits for another transaction to close.
CallsSettle ==
    \A t \in Tx : call[t] \in {"commit", "abort", "conflict"}
                    ~> call[t] \notin {"commit", "abort", "conflict"}

\* Once no transaction is left open, the stack empties: no layer is forgotten by
\* the two ends of the stack that the "all" job looks at, whatever jobs threw and
\* whatever writes the backend refused. (CurrentIsNewest then says that all that
\* was committed is in the backend.)
AllIsFlushed == <>[](\A t \in Tx : ~Ready(t)) => <>[](stack = <<>>)
=============================================================================
