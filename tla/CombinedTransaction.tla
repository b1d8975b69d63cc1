------------------------ MODULE CombinedTransaction ------------------------
(***************************************************************************)
(* Transactions on several object stores of one JungleDB that are          *)
(* committed together (src/main/generic/CombinedTransaction.js), with the  *)
(* stacks and synchronizers of the object stores they belong to.           *)
(*                                                                         *)
(* Each store works as in ObjectStore: what is added here is that a member *)
(* of a combined transaction may be merged only into the backend, that it  *)
(* then waits until all members can be, and that all are written in one    *)
(* batch by the synchronizer of the store that reported the last one.      *)
(* Values, snapshots and the stack limit are left out (see ObjectStore):   *)
(* holds[t] says whose writes a layer contains.                            *)
(***************************************************************************)
EXTENDS Naturals, Sequences, SequencesExt, FiniteSets

CONSTANTS
    Store,            \* the object stores; each also stands for its backend
    Tx,               \* the transactions
    Comb,             \* the combined transactions
    StoreOf,          \* the store of each transaction
    MemberOf,         \* the combined transaction each transaction is to join, or Null
    Null,
    Failing           \* whether the database may refuse a write

ASSUME CombinedAssumption ==
    /\ StoreOf \in [Tx -> Store] /\ MemberOf \in [Tx -> Comb \cup {Null}]
    /\ Null \notin Tx \cup Store \cup Comb /\ Tx \cap Store = {}
    \* isConsistent: the members of a combined transaction are on different stores
    /\ \A t, u \in Tx : t # u /\ MemberOf[t] # Null /\ MemberOf[t] = MemberOf[u]
                          => StoreOf[t] # StoreOf[u]
    /\ Failing \in BOOLEAN

Node == Tx \cup Store
Members(c) == {t \in Tx : MemberOf[t] = c}

VARIABLES
    state,       \* Transaction._state
    call,        \* the call the client of a plain transaction is waiting for
    joined,      \* the combined transactions that have been created
    ctx,         \* how far the commit or abort of a combined transaction is
    flushable,   \* CombinedTransaction._flushable
    parent, children, closed, known,    \* the TransactionInfos, as in ObjectStore
    stack, queue, run,                  \* of each store, as in ObjectStore
    turn,        \* the members that the current map over transactions has still to call
    holds,       \* the transactions whose writes are in each layer
    persisted    \* the transactions whose writes are in the database

infoVars == <<parent, children, closed, known, stack>>
dataVars == <<holds, persisted>>
vars == <<state, call, joined, ctx, flushable, infoVars, queue, run, turn, dataVars>>

Idle == [kind |-> "idle", tx |-> Null, end |-> "top", target |-> Null, onto |-> Null,
         batch |-> {}, phase |-> "idle"]

Dep(t) == IF MemberOf[t] \in joined THEN MemberOf[t] ELSE Null

Top(s) == IF stack[s] = <<>> THEN s ELSE stack[s][Len(stack[s])]

\* Mutants: layers count as readers; a second successor is not refused.
NoChildren(n) == children[n] = {}
CommittableOnce(t) == parent[t] # Null

NoOpenChildren(n) == children[n] \subseteq closed
Committable(t) == parent[t] # Null /\ children[parent[t]] \cap closed = {}

\* TransactionInfo.isFlushable
Flushable(t) ==
    /\ parent[t] # Null /\ NoOpenChildren(parent[t])
    /\ Dep(t) # Null => parent[t] \in Store

-----------------------------------------------------------------------------
\* JavaScript runs to completion: a job pushed to an idle synchronizer starts at
\* once, then the code that pushed it goes on; anybody else waits for an await.
JobStarts(s) == run[s] = Idle /\ queue[s] # <<>>
NoJobStarts == \A s \in Store : ~JobStarts(s)
Quiet == NoJobStarts /\ turn = {}

\* The calls that await a job.
Awaiting(t) ==
    \E s \in Store : run[s].tx = t \/ \E i \in DOMAIN queue[s] : queue[s][i].tx = t

Push(s, kind, t) == queue' = [queue EXCEPT ![s] = Append(@, [kind |-> kind, tx |-> t])]

\* Mutant: a member reports before it can be flushed.
ReportsEarly(t) == t \in known /\ Dep(t) # Null

Reports(t) == t \in known /\ Flushable(t) /\ Dep(t) # Null

\* The head of _flattenStateInternal(t), for a job of store s. A member reports
\* to its combined transaction (onFlushable), which flushes once all have.
Attempt(s, kind, tx, end, t) ==
    LET all == \A c \in {Dep(t)} : Members(c) \subseteq flushable[c] \cup {t}
        phase == IF t \notin known THEN "thrown"
                 ELSE IF ~Flushable(t) THEN "false"
                 ELSE IF Dep(t) = Null THEN "applying"
                 ELSE IF all THEN "flushing" ELSE "false"
    IN  /\ run' = [run EXCEPT ![s] =
                     [kind |-> kind, tx |-> tx, end |-> end, target |-> t,
                      onto |-> IF phase = "applying" THEN parent[t] ELSE Null,
                      batch |-> {}, phase |-> phase]]
        /\ flushable' = IF Reports(t) THEN [flushable EXCEPT ![Dep(t)] = @ \cup {t}] ELSE flushable

StartJob(s) ==
    /\ JobStarts(s)
    /\ queue' = [queue EXCEPT ![s] = Tail(@)]
    /\ \E job \in {Head(queue[s])} :
         IF job.kind = "merge" THEN Attempt(s, "merge", job.tx, "top", job.tx)
         ELSE IF stack[s] # <<>> THEN Attempt(s, "all", job.tx, "top", Top(s))
         ELSE /\ run' = [run EXCEPT ![s] = [Idle EXCEPT !.kind = "all", !.tx = job.tx,
                                              !.end = "bottom", !.phase = "false"]]
              /\ UNCHANGED flushable
    /\ UNCHANGED <<state, call, joined, ctx, infoVars, turn, dataVars>>

-----------------------------------------------------------------------------
Init ==
    /\ state = [t \in Tx |-> "none"] /\ call = [t \in Tx |-> "none"]
    /\ joined = {} /\ ctx = [c \in Comb |-> "none"] /\ flushable = [c \in Comb |-> {}]
    /\ parent = [t \in Tx |-> Null] /\ children = [n \in Node |-> {}]
    /\ closed = {} /\ known = {}
    /\ stack = [s \in Store |-> <<>>] /\ queue = [s \in Store |-> <<>>]
    /\ run = [s \in Store |-> Idle] /\ turn = {}
    /\ holds = [t \in Tx |-> {t}] /\ persisted = {}

\* ObjectStore.transaction
Open(t) ==
    /\ Quiet /\ state[t] = "none"
    /\ state' = [state EXCEPT ![t] = "open"]
    /\ known' = known \cup {t}
    /\ \E n \in {Top(StoreOf[t])} :
         /\ parent' = [parent EXCEPT ![t] = n]
         /\ children' = [children EXCEPT ![n] = @ \cup {t}]
    /\ UNCHANGED <<call, joined, ctx, flushable, closed, stack, queue, run, turn, dataVars>>

Usable(t) == state[t] = "open" /\ call[t] = "none"

\* new CombinedTransaction(...): all members must be open.
Combine(c) ==
    /\ Quiet /\ c \notin joined /\ \A t \in Members(c) : Usable(t)
    /\ joined' = joined \cup {c}
    /\ UNCHANGED <<state, call, ctx, flushable, infoVars, queue, run, turn, dataVars>>

-----------------------------------------------------------------------------
\* ObjectStore.commit of a committable transaction, up to its first await.
PutOnStack(t) ==
    /\ Committable(t)
    /\ stack' = [stack EXCEPT ![StoreOf[t]] = Append(@, t)]
    /\ closed' = closed \cup {t}
    /\ call' = [call EXCEPT ![t] = "commit"]
    /\ UNCHANGED <<parent, children, known>>
    /\ IF Flushable(t)' THEN Push(StoreOf[t], "merge", t) ELSE UNCHANGED queue

\* ObjectStore.abort, up to its first await.
TakeOff(t, why) ==
    /\ children' = [children EXCEPT ![parent[t]] = @ \ {t}]
    /\ call' = [call EXCEPT ![t] = why]
    /\ UNCHANGED <<parent, closed, known, stack>>
    /\ IF \A n \in {parent[t]} : NoOpenChildren(n)'
         THEN Push(StoreOf[t], "all", t) ELSE UNCHANGED queue

StoreCommit(t) == PutOnStack(t) \/ (~Committable(t) /\ TakeOff(t, "conflict"))

\* Transaction.commit and abort of a transaction without a dependency.
Commit(t) ==
    /\ Quiet /\ Usable(t) /\ Dep(t) = Null
    /\ UNCHANGED <<state, joined, ctx, flushable, run, turn, dataVars>>
    /\ StoreCommit(t)

Abort(t) ==
    /\ Quiet /\ Usable(t) /\ Dep(t) = Null /\ TakeOff(t, "abort")
    /\ UNCHANGED <<state, joined, ctx, flushable, run, turn, dataVars>>

\* Mutant: the state names the call instead of what became of it.
OutcomeIsCall(t) == call[t]

Outcome(t) == CASE call[t] = "commit" -> "committed"
                [] call[t] = "conflict" -> "conflicted"
                [] call[t] = "abort" -> "aborted"

\* The continuations of _commitBackend and _abortBackend in Transaction.
Finish(t) ==
    /\ Quiet /\ call[t] \in {"commit", "conflict", "abort"} /\ ~Awaiting(t)
    /\ call' = [call EXCEPT ![t] = "none"]
    /\ state' = [state EXCEPT ![t] = Outcome(t)]
    /\ known' = IF call[t] = "commit" THEN known ELSE known \ {t}
    /\ UNCHANGED <<joined, ctx, flushable, parent, children, closed, stack, queue, run, turn,
                   dataVars>>

-----------------------------------------------------------------------------
Idling(c) == c \in joined /\ ctx[c] = "none"

\* CombinedTransaction.commit up to its first await: if every member is
\* committable the constraints are checked, else all members are aborted.
CombinedCommit(c) ==
    /\ Quiet /\ Idling(c)
    /\ IF \A t \in Members(c) : Committable(t)
         THEN /\ ctx' = [ctx EXCEPT ![c] = "checking"]
              /\ UNCHANGED turn
         ELSE /\ ctx' = [ctx EXCEPT ![c] = "aborting"]
              /\ turn' = Members(c)
    /\ UNCHANGED <<state, call, joined, flushable, infoVars, queue, run, dataVars>>

\* _checkConstraints has been awaited. If it passed, _commitBackend commits the
\* members, without asking again whether all of them are committable; if a
\* unique index refused, all are aborted and the commit throws.
Checked(c) ==
    /\ Quiet /\ ctx[c] = "checking"
    /\ \E next \in {"committing", "rejecting"} : ctx' = [ctx EXCEPT ![c] = next]
    /\ turn' = Members(c)
    /\ UNCHANGED <<state, call, joined, flushable, infoVars, queue, run, dataVars>>

CombinedAbort(c) ==
    /\ Quiet /\ Idling(c)
    /\ ctx' = [ctx EXCEPT ![c] = "aborting"]
    /\ turn' = Members(c)
    /\ UNCHANGED <<state, call, joined, flushable, infoVars, queue, run, dataVars>>

\* transactions.map(tx => tx._commitBackend()) and the same for _abortBackend:
\* each member is committed or aborted up to its first await, one after another,
\* in the order in which the client has listed them (any).
MemberStep ==
    /\ NoJobStarts
    /\ UNCHANGED <<state, joined, ctx, flushable, run, dataVars>>
    /\ \E t \in turn :
         /\ turn' = turn \ {t}
         /\ IF ctx[MemberOf[t]] = "committing" THEN StoreCommit(t) ELSE TakeOff(t, "abort")

\* Promise.all over the members: the result of commit is true whatever became
\* of them, and a member whose commit threw makes it throw.
CombinedDone(c) ==
    /\ Quiet /\ ctx[c] \in {"committing", "aborting", "rejecting"}
    /\ \/ \E t \in Members(c) : call[t] = "threw"
       \/ \A t \in Members(c) : call[t] = "none"
    /\ ctx' = [ctx EXCEPT ![c] =
                 IF ctx[c] = "rejecting" \/ \E t \in Members(c) : call[t] = "threw" THEN "threw"
                 ELSE IF ctx[c] = "committing" THEN "true" ELSE "false"]
    /\ UNCHANGED <<state, call, joined, flushable, infoVars, queue, run, turn, dataVars>>

-----------------------------------------------------------------------------
(***************************************************************************)
(* The synchronizer of store s                                             *)
(***************************************************************************)

SetPhase(s, phase) == run' = [run EXCEPT ![s].phase = phase]

\* backend._apply(tx) on the backend that was the parent when the merge began.
Apply(s) ==
    /\ Quiet /\ run[s].phase = "applying"
    /\ LET t == run[s].target
           n == run[s].onto
       IN  IF n \in Store
             THEN persisted' = persisted \cup holds[t] /\ UNCHANGED holds
             ELSE holds' = [holds EXCEPT ![n] = @ \cup holds[t]] /\ UNCHANGED persisted
    /\ SetPhase(s, "applied")
    /\ UNCHANGED <<state, call, joined, ctx, flushable, infoVars, queue, turn>>

ApplyFails(s) ==
    /\ Quiet /\ Failing /\ run[s].phase = "applying" /\ run[s].onto \in Store
    /\ SetPhase(s, "failed")
    /\ UNCHANGED <<state, call, joined, ctx, flushable, infoVars, queue, turn, dataVars>>

\* stack.splice(stack.indexOf(tx), 1), for the one layer of the stack q in D, if any.
Without(q, D) ==
    LET at == {i \in DOMAIN q : q[i] \in D}
    IN  IF at = {} THEN q ELSE RemoveAt(q, CHOOSE i \in at : TRUE)

\* cleanup() of the layers D, which are on different stores: an info that has
\* been flushed before is left alone (isBackend).
CleanupOf(D) ==
    LET here == {d \in D : parent[d] # Null}
    IN  /\ children' = [n \in Node |->
             IF n \in here THEN {}
             ELSE (children[n] \ here) \cup UNION {children[d] : d \in {x \in here : parent[x] = n}}]
        /\ parent' = [x \in Tx |->
             IF x \in here THEN Null
             ELSE IF \E d \in here : x \in children[d] THEN parent[parent[x]] ELSE parent[x]]
        /\ known' = known \ D
        /\ stack' = [s \in Store |-> Without(stack[s], D)]
        /\ queue' = [s \in Store |-> IF \E d \in D : StoreOf[d] = s
                                      THEN Append(queue[s], [kind |-> "all", tx |-> Null])
                                      ELSE queue[s]]

Cleanup(s) ==
    /\ Quiet /\ run[s].phase \in {"applied", "failed"}
    /\ CleanupOf({run[s].target})
    /\ state' = IF run[s].phase = "failed" THEN [state EXCEPT ![run[s].target] = "aborted"]
                                           ELSE state
    /\ SetPhase(s, "true")
    /\ UNCHANGED <<call, joined, ctx, flushable, closed, turn, dataVars>>

\* Mutant: only the member that was reported last is written.
BatchOfOne(s) == holds[run[s].target]

\* The writes of all members.
Batch(s) == UNION {holds[t] : t \in Members(Dep(run[s].target))}

\* CombinedTransaction.onFlushable once all members are flushable. The other
\* stores' synchronizers know nothing of it.
\* JungleDB.commitCombined: the writes of all members are collected ...
Encode(s) ==
    /\ Quiet /\ run[s].phase = "flushing"
    /\ run' = [run EXCEPT ![s].phase = "writing", ![s].batch = Batch(s)]
    /\ UNCHANGED <<state, call, joined, ctx, flushable, infoVars, queue, turn, dataVars>>

\* ... and written in one batch, or none of them is.
WriteBatch(s) ==
    /\ Quiet /\ run[s].phase = "writing"
    /\ persisted' = persisted \cup run[s].batch
    /\ SetPhase(s, "written")
    /\ UNCHANGED <<state, call, joined, ctx, flushable, infoVars, queue, turn, holds>>

WriteFails(s) ==
    /\ Quiet /\ Failing /\ run[s].phase = "writing"
    /\ SetPhase(s, "thrown")
    /\ UNCHANGED <<state, call, joined, ctx, flushable, infoVars, queue, turn, dataVars>>

\* The clean-ups of all members, in whichever store they are.
Callbacks(s) ==
    /\ Quiet /\ run[s].phase = "written"
    /\ CleanupOf(flushable[Dep(run[s].target)])
    /\ SetPhase(s, "true")
    /\ UNCHANGED <<state, call, joined, ctx, flushable, closed, turn, dataVars>>

\* The loops of the "all" job.
Continue(s) ==
    /\ Quiet /\ run[s].kind = "all" /\ stack[s] # <<>>
    /\ \E end \in {"top", "bottom"} :
         /\ \/ run[s].phase = "true" /\ end = run[s].end
            \/ run[s].phase = "false" /\ run[s].end = "top" /\ end = "bottom"
         /\ Attempt(s, "all", run[s].tx, end, IF end = "top" THEN Top(s) ELSE stack[s][1])
    /\ UNCHANGED <<state, call, joined, ctx, infoVars, queue, turn, dataVars>>

Finished(s) ==
    \/ run[s].phase = "thrown"
    \/ run[s].phase \in {"true", "false"} /\ run[s].kind = "merge"
    \/ run[s].phase \in {"true", "false"} /\ stack[s] = <<>>
    \/ run[s].phase = "false" /\ run[s].end = "bottom"

EndJob(s) ==
    /\ Quiet /\ run[s] # Idle /\ Finished(s)
    /\ run' = [run EXCEPT ![s] = Idle]
    /\ call' = IF run[s].phase = "thrown" /\ run[s].tx # Null
                 THEN [call EXCEPT ![run[s].tx] = "threw"] ELSE call
    /\ UNCHANGED <<state, joined, ctx, flushable, infoVars, queue, turn, dataVars>>

-----------------------------------------------------------------------------
Synchronizer(s) ==
    \/ StartJob(s) \/ Apply(s) \/ ApplyFails(s) \/ Cleanup(s)
    \/ Encode(s) \/ WriteBatch(s) \/ WriteFails(s) \/ Callbacks(s)
    \/ Continue(s) \/ EndJob(s)

Client ==
    \/ \E t \in Tx : Open(t) \/ Commit(t) \/ Abort(t)
    \/ \E c \in Comb : Combine(c) \/ CombinedCommit(c) \/ CombinedAbort(c)

Next ==
    \/ Client \/ MemberStep
    \/ \E s \in Store : Synchronizer(s)
    \/ \E t \in Tx : Finish(t)
    \/ \E c \in Comb : Checked(c) \/ CombinedDone(c)

Spec == Init /\ [][Next]_vars

\* Promises that are resolved run their continuations and the database answers;
\* clients may leave transactions open for ever.
Fairness ==
    /\ WF_vars(MemberStep) /\ \A s \in Store : WF_vars(Synchronizer(s))
    /\ \A t \in Tx : WF_vars(Finish(t))
    /\ \A c \in Comb : WF_vars(Checked(c)) /\ WF_vars(CombinedDone(c))

FairSpec == Spec /\ Fairness

-----------------------------------------------------------------------------
Layers(s) == {stack[s][i] : i \in DOMAIN stack[s]}

Job == [kind : {"merge", "all"}, tx : Tx \cup {Null}]

Phase == {"idle", "applying", "applied", "failed", "flushing", "writing", "written",
          "true", "false", "thrown"}

Running == [kind : {"idle", "merge", "all"}, tx : Tx \cup {Null}, end : {"top", "bottom"},
            target : Tx \cup {Null}, onto : Node \cup {Null}, batch : SUBSET Tx, phase : Phase]

\* Type correctness of every variable.
TypeOK ==
    /\ state \in [Tx -> {"none", "open", "committed", "aborted", "conflicted"}]
    /\ call \in [Tx -> {"none", "commit", "abort", "conflict", "threw"}]
    /\ joined \subseteq Comb
    /\ ctx \in [Comb -> {"none", "checking", "committing", "rejecting", "aborting",
                         "true", "false", "threw"}]
    /\ flushable \in [Comb -> SUBSET Tx]
    /\ parent \in [Tx -> Node \cup {Null}] /\ children \in [Node -> SUBSET Tx]
    /\ closed \subseteq Tx /\ known \subseteq Tx
    /\ stack \in [Store -> Seq(Tx)] /\ turn \subseteq Tx
    /\ queue \in [Store -> Seq(Job)] /\ run \in [Store -> Running]
    /\ holds \in [Tx -> SUBSET Tx] /\ persisted \subseteq Tx

\* "This guarantees that either all transactions are written or none"
\* (JungleDB.commitCombined), in the database and at every moment.
AllOrNothing ==
    \A c \in joined : Members(c) \cap persisted = {} \/ Members(c) \subseteq persisted

\* A member that has been reported flushable stays so until it is flushed: the
\* report is remembered and acted on much later, by another store's synchronizer.
ReportsStayTrue ==
    \A c \in joined : \A t \in flushable[c] \cap known :
        t \in Layers(StoreOf[t]) /\ Flushable(t)

\* Each store's stack stays one chain of committed states, although the stacks
\* are also shortened by the synchronizers of other stores.
StacksAreChains ==
    \A s \in Store :
        /\ \A i \in DOMAIN stack[s] :
             parent[stack[s][i]] = IF i = 1 THEN s ELSE stack[s][i - 1]
        /\ children[Top(s)] \cap closed = {}

\* What has been committed is in the database or in a layer above it, whenever
\* no synchronizer is at work: nothing that commit reported as done is lost.
NothingLost ==
    (\A s \in Store : run[s] = Idle /\ queue[s] = <<>>) =>
        \A t \in Tx : state[t] = "committed" =>
            t \in persisted \/ \E l \in Layers(StoreOf[t]) : t \in holds[l]

\* The job whose batch the database has refused.
Refused(s) == run[s].phase = "thrown" /\ run[s].batch # {}

\* Once nothing is left open, a combined transaction all of whose members were
\* committed is written, unless the database refuses it.
CombinedIsPersisted ==
    \A c \in Comb :
        <>[](c \in joined /\ Members(c) \subseteq closed /\ \A t \in Tx : ~Usable(t))
            => <>(Members(c) \subseteq persisted \/ \E s \in Store : Refused(s))
=============================================================================
