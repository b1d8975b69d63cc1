# Verification of jungle-db

TLA+ models of [jungle-db](../src), a JavaScript library that puts transactions
with snapshot isolation on top of IndexedDB, LevelDB, LMDB or memory, with the
TLC configurations that check them and the theorems that TLAPS proves about
them. Paths below are relative to `src/src/main/`.

    tlc -workers 2 -config StoreIsolation.cfg MCObjectStore     # a run
    tlapm ObjectStoreProofs.tla                                 # the proofs

`PROJECT.json` lists the runs, which lines of the source every definition stands
for, the mutants that show that each property can fail, the findings, the hazards
of the code and the theorems. Where a property leaves a case out because the code
goes wrong there, the case is named in the property and again under *known limits*
(section 5).

## 1. The system

JavaScript runs on one thread: the code between two `await`s cannot be
interrupted, and at each `await` anything else may run. All the difficulty of
this library is in what may run there. Nothing is locked; the library relies on
queues (`Synchronizer`), on the order in which promises are resolved, and on
conditions checked before an `await` still being true after it.

| Component | State | Operations | Talks to |
|---|---|---|---|
| **ObjectStore** with its **TransactionInfo** tree (`generic/ObjectStore.js`) | `_stateStack`, `_transactions`, per info: parent, children, open flag | `transaction`, `snapshot`, `commit`, `abort`, `_flattenState`, `close` | Transaction (reads its difference, `_setParent`), Synchronizer (jobs), SnapshotManager (`applyTx`), the backend (`_apply`), CombinedTransaction (`onFlushable`) |
| **Transaction**, **SynchronousTransaction** (`generic/*Transaction.js`) | `_cache` of preloaded values; `_modified`, `_removed`, `_truncated`, `_parent`, `_state`, `_nested`, its snapshots and indices | `get`, `put`, `remove`, `truncate`, `keys`, `commit`, `abort`, `snapshot`, nested `transaction`, `_apply` | its parent (another transaction or the backend), the store's commit and abort |
| **Snapshot**, **SnapshotManager** (`generic/Snapshot*.js`) | a reverse difference; the set of snapshots a state keeps up to date | `_apply`, `inherit`, `abort`; `createSnapshot`, `applyTx`, `abortSnapshot` | called by every merge |
| **Synchronizer** (`generic/utils/Synchronizer.js`) | queue, `_working` | `push`, `_doWork` | the jobs of one store |
| **CombinedTransaction** (`generic/CombinedTransaction.js`) | members, `_flushable`, `_preprocessing`, state | `commit`, `abort`, `onFlushable` | `JungleDB.commitCombined`, members' stores |
| **JungleDB** front ends (`backend/*/JungleDB.js`) | version, stores, connection | `connect`, `close`, `createObjectStore`, `commitCombined`, upgrade, LMDB resize | the database |
| **Backends** (`backend/*/*Backend.js`, `generic/InMemoryBackend.js`) | the database | `_apply`, reads, cursors, `applyCombined` | native library |
| **CachedBackend**, **LRUMap** | cache of values, cache of encodings, LRU queue | `get` (hit and miss), `_apply` | the backend below |
| **Indices** (`generic/InMemoryIndex.js`, `TransactionIndex.js`, `backend/*/PersistentIndex.js`), **BTree**, **SortedList** | trees from secondary to primary keys | `put`, `remove`, `keys`, ranges | Transaction |
| **Query**, **KeyRange** | none | evaluation over ranges | indices |
| Encodings and utilities | none | pure functions | everything |

### How a commit travels

`tx.commit()` calls `ObjectStore.commit`. If a sibling based on the same state has
been committed, the transaction conflicts and leaves. Otherwise it is pushed on
`_stateStack` and becomes the *current state*, on which new transactions are based.
If nobody reads the state below it, a *merge* job is pushed to the store's
Synchronizer and the commit awaits it; otherwise the commit returns at once and the
layer stays in memory. The abort or conflict of the last reader of a state pushes
an *all* job, which merges layers from both ends of the stack; every merge ends in
a clean-up that moves the merged layer's children down one level and pushes another
*all* job. A merge into the backend is a database write, a merge into another layer
combines two differences, and both are awaited: other clients run meanwhile.
A layer that belongs to a combined transaction may only be merged into the backend,
and waits until all members can be: then all are written in one batch, by whichever
store's synchronizer reported the last one.

### What is hard, and what makes each component correct

* ObjectStore: the check "nobody reads the state below" is made before the awaits and
  used after them; children are re-parented while commits on the same state race; the
  two ends of the stack are merged by one job while commits push further jobs; the
  backend may refuse a write. Correct means: a reader always sees the state it began
  on plus its own writes; first committer wins; the current state is what was
  committed last; the database holds one whole committed state; all calls settle; the
  stack empties when readers leave.
* Transaction: puts, removals and a truncation merge like composition of differences.
* Snapshot: reads the same for ever although the states below it are rewritten.
* Synchronizer: a job that throws must not stop the queue.
* CombinedTransaction: all or none in the database at every moment; a report that a
  member is flushable must stay true; nothing committed may be lost although one
  store's synchronizer edits other stores' stacks.
* CachedBackend: no read may return, or put in the cache, a value older than what has
  been applied. LRUMap: queue and map hold the same keys.
* JungleDB: an interrupted upgrade is safe to run again; LMDB's map grows in time.
* Indices: the index a transaction sees is the index of what the transaction sees.
* BTree, SortedList: order, balance, and the contents of a sorted set; the cursor
  survives every change of the tree under it.
* Range reads: every backend gives the same answer to the same range, and a transaction
  the answer of its view.
* Nested transactions: an outer transaction is read-only just as long as it has nested
  ones; the first commit of a round wins; nobody sees a merge who should not.

The hazards, each at its line and with the properties that cover it, are `hazards` in
`PROJECT.json`. Where the code goes wrong and the properties leave the case out, it is
under *known limits* in section 5.

## 2. The modules

    Overlay
       |
    ObjectStore
       |
    StoreRefinement ----- ObjectStoreProofs
       |   |
       |  AbstractStore (INSTANCE ... WITH)
       |
    MCObjectStore

    CombinedTransaction - CombinedTransactionProofs,  MCCombined

    Overlay ------------- Nested --- NestedProofs,  MCNested

    Overlay, LRUMap ----- CachedBackend --- CachedBackendProofs,  MCCachedBackend

    KeyRange -- Scan -- BackendReads -- Reads ------ ReadsProofs,  MCReads
                  |
                  +-- IndexTables -- Indices -- IndicesProofs,  MCIndices
                           |
                           +-------- Upgrade -- UpgradeProofs,  MCUpgrade

    BTree ------------------------------------------ MCBTree

**SequenceLemmas** is what the proofs share: removing and inserting an element of a sequence,
lists in order, how often an element occurs, stacks that are chains, induction and recursion
along a chain of parents, the steps of a fold, and what the scans of the backends visit.

**Overlay** is the data part of `Transaction.js` and `Snapshot.js` as pure operators.
`_modified` and `_removed` are disjoint because `_put` and `_remove` keep them so, and
one function `cell` stands for both. `Get`, `On` and `KeysOn` are `get` and `keys`;
`Merge` is `_applySync` (truncate, puts, removals); `Preserve` is `Snapshot._apply`,
with its two peculiarities: a removed key that did not exist is remembered as
*undefined*, and an old value that is falsy counts as missing.

**ObjectStore** is one store, its transactions, snapshots and synchronizer.

| Variable | Code |
|---|---|
| `state`, `change`, `base` | `Transaction._state`; `_modified`, `_removed`, `_truncated`; `_parent` |
| `parent`, `children`, `closed` | `TransactionInfo._parentInfo`, `children`, `_open = false` |
| `known`, `stack` | `ObjectStore._transactions`, `_stateStack` |
| `queue`, `run` | `Synchronizer._queue` and the running job: its phase says what it awaits |
| `snap`, `old`, `under`, `managed` | a snapshot's state, difference, parent; the SnapshotManagers |
| `call` | the call a client waits for |
| `log`, `ver`, `late` | history only: committed states, the state a node stands for, snapshots taken during a merge |

Actions: `Open`, `TxPut`, `TxRemove`, `TxTruncate`; `Commit`, `CommitRefused`
(stack full), `CommitConflict`, `Abort`, and the continuations `FinishCommit`,
`FinishLeave` of the promises these await; `ApplyToBackend`, `ApplyToParent`,
`ApplyFails`, `Cleanup`, `Continue`, `EndJob` of the flatten jobs; `StoreSnapshot`,
`TxSnapshot`, `SnapshotAbort`. `Push` starts a job inside the same step when the
synchronizer is idle, because `Synchronizer.push` calls `_doWork` synchronously and
the job runs up to its first `await`.

**AbstractStore** is what clients are promised, without stack, queue or flush;
**StoreRefinement** maps the one to the other: `persisted` is the committed state the
database holds, and an open transaction's `view` is what it reads.

**CombinedTransaction** is several stores and the combined transactions over them.
Stacks, infos and synchronizers work as in ObjectStore (per store); values are
replaced by `holds`, the set of transactions whose writes a layer contains, and
`persisted`, those whose writes are in the database. `turn` makes the synchronous
loops over the members explicit: nobody else runs between two members, but a job
pushed to an idle synchronizer starts there.

**LRUMap** is the map of bounded size as pure operators: a function `map` and the list
of uses `queue`. `Put` is `set` with its peculiarity: it evicts whenever the map is full,
also when the key is only replaced, and stores nothing in a map of size 0.

**CachedBackend** is the cache between a store and its database.

| Variable | Code |
|---|---|
| `cache`, `raw` | `_cache`, `_rawCache` |
| `read` | the calls of `get` that missed: what they wait for, and the answer on its way |
| `flush`, `todo` | the transaction being applied, and the changed keys `_applyLocally` has not come to |
| `db` | the database below |
| `suspect` | history only: the keys the code does not keep current |

`Ask`, `Answer` and `Return` are `get` before, during and after its await; `GetSync` is a
miss of `getSync` on a synchronous backend; `Apply`, `ApplyKey`, `Write` and `WriteFails`
are `_apply`; `ApplyCombined`, `WriteBatch`, `BatchFails`, `Callback`, `Resolve` are the
combined flush, which encodes the changes for the batch (`flush.batch`) and brings the cache
up to date after the write, from the member as it is by then (`CachedBackend.js:350`).
`_applyLocally` is synchronous: it takes several steps here, one for each key, but `Settled`
keeps everything else out until it is done. The environment is the store's: one layer at a
time is applied, and no read comes of a key that this layer answers itself (`Forwarded`).
During its own flush the store merges nothing; a combined flush runs in the synchronizer of
the store that reported last, and if that is another one (`Foreign`), this store goes on and
may merge layers into the member (`MergeInto`), before its callback reads it.
`suspect` is told by what happened, not by what the caches hold: a key enters it when a
transaction changes it while a read of it is under way or its encoding is cached, when
the database refuses a transaction that changes it, or when the callback of a combined flush
caches a value that was merged into the member after the encoding (`NeverWritten`). It
leaves it with the next transaction that changes it undisturbed.

**Nested** is the tree of transactions: an outer transaction is the managing backend of
the ones nested in it.

| Variable | Code |
|---|---|
| `state`, `change`, `base`, `outer` | `_state`; `_modified`, `_removed`, `_truncated`; `_parent`; `_managingBackend` |
| `nested`, `merged` | `_nested`, `_nestedCommitted` |
| `cache` | `SynchronousTransaction._cache` |
| `call`, `waits` | the call under way and what it awaits; the nested aborts an abort has called |
| `kind`, `db`, `stack` | the backend (asynchronous, synchronous or always cached), the database, `_stateStack` |
| `round`, `born`, `seen`, `moved`, `early` | history only: how often a transaction was reopened, the round one was begun in, what it was begun on, whether a commit was merged in below it, whether it was reopened during a merge |

`CommitNested`, `ApplyNested` and `EndMerge` are `commit(tx)` before and after its awaits;
`Abort` is `_abortBackend` with the aborts of all nested ones that its `map` calls at
once, `AbortGoesOn` and `AbortThrows` what follows when these have settled. A commit of a
transaction at the root goes on a stack whose bottom is flushed when nobody reads the
backend (`FlushBottom`); jobs, layer merges and the stack's limit are in ObjectStore.
`Read` and `GetSync` follow `get` and `getSync` down the chain of parents with what each
has cached, and `Preload` puts a value into the cache of every synchronous transaction
that the read passes.

**BTree** is the tree under every in-memory index, with nodes, links and cursor as the
code has them. Every operation ends in a renumbering of the nodes, breadth first, so that
two trees of the same shape are one state. `content` is the set of keys it should hold.

**KeyRange**, **Scan** and **BackendReads** are pure operators: ranges; how each backend
walks over a sorted table within a range (the in-memory cursor, LevelDB's options,
IndexedDB's key ranges, LMDB's cursor moves one by one); and the eleven reads of each
backend on a table. **Reads** puts a transaction over such a table and has both change:
`MergeStreams` is the loop of `keyStream` that merges the transaction's keys into the
backend's, `NextMax` and `NextMin` the search of `maxKey` and `minKey` past removed keys.

**IndexTables** is how the four backends maintain a secondary index, as operators on a
function from secondary keys to lists of primary keys; an accumulator carries the
uniqueness error. LMDB's goes through the encoded transaction. **Indices** is a store with
one index and one transaction at a time: `tree` is the transaction's own index
(`TransactionIndex`), `Put` checks its constraint at once, `Commit` checks all of them
(`Passes`) and applies. `suspect` is history: the secondary keys that an update of the
kinds named under known limits may have left wrong.

**Upgrade** is `connect`, step by step, of an application that declares a store and an
index with upgrade conditions: emptying deleted tables, deleting the index, opening it,
filling it, the user's upgrade function, writing the version. A crash may come at any
step; the disk is what it was. IndexedDB does all in one transaction of its own
(`OpenIdb`). Put and removal of an object keep the index as IndexTables does, only under
versions that declare it. `Sensible` says of the declarations that they fill an index wherever
it may be missing; a condition that leaves out a version which did not have the index is the
application's mistake, and the index stays empty. `doubt` is history, why the index may be wrong: `partial`
(LevelDB filled it with the first object only), `torn` (LMDB created it and crashed before
filling), `kept` (objects were changed under a version without it), `halfway` (a deletion
of the store was interrupted).

### Decisions

* One step is the code between two awaits. Awaits that only resume the same
  continuation with nothing of this store in between are merged into the neighbouring
  step: `SnapshotManager.applyTx` reads values through the snapshots one key at a time,
  and is one step here, taken when the merge begins. Snapshots that are taken of a
  state during such a merge are told apart by `late`.
* Each client awaits the calls on its own transaction before it makes another;
  different clients interleave freely. Calls that are not awaited are a listed hazard.
* A transaction writes its own name, so a value tells who wrote it. That loses
  nothing: the store never compares values.
* The `_transactions.delete` at the end of `ObjectStore.abort` is taken with the
  continuation that follows it. No code looks at the entry between the two.
* Unique-index violations make a commit abort; for a store this is `Abort`, and for a
  combined transaction `Checked` takes both outcomes.
* No client puts `undefined` as a value.
* In Nested, a client does not abort a transaction while a call on one nested in it is
  under way, except that the abort of a family calls all of them itself. Each transaction
  writes once, before anything has been merged into it. A read through synchronous layers
  is one step, because it awaits nothing that changes.
* In Indices, no flush passes under the open transaction: that races are ObjectStore's.
* In Upgrade, a restarted application is of the same version or a later one, the store is
  not used while `connect` is under way, and a transaction is one step.
* A database write is atomic: all three databases promise it of a batch or transaction.
* Clean-up after a failed application is the code's: the layer is aborted and its
  children move down anyway.

## 3. The runs

| Run | Question | Instance, states |
|---|---|---|
| `store_isolation` | Do stack and asynchronous flushes implement a snapshot-isolated, first-committer-wins store? Refinement, plus the reads (`ReadIsolation`, `CurrentIsNewest`) and their link by link form; does a maintained snapshot read the same for ever? | 3 transactions, 1 snapshot, 1 key, stack of 2, symmetry; 822,479 |
| `store_faults` | With truncations, refused writes and jobs that throw: is the registration exact, does the check before a merge stay true, do calls settle, does the stack empty? | 3 transactions, no keys, no symmetry; 258,415 |
| `store_full` | At rest, are layers left on the stack held by open readers at both its ends, also when a full stack has refused a commit? | 5 transactions, no keys, stack of 2, no truncations, refused writes, symmetry; 1,990,379 |
| `combined` | All or nothing, reports stay true, stacks stay chains, with refused writes; is a committed combined transaction written once all is closed, unless it is refused? | 2 stores: a member and two plain transactions in one, a member in the other; no symmetry; 1,006,534 |
| `cache` | Do both maps keep their size and the agreement of list and map? Is the cache out of date for no keys but the suspect ones? With refused writes, combined flushes, merges into the member meanwhile, `getSync` | 2 keys, 1 value, 2 reads at once, a map of 2 and one of 1 entries, symmetry; 2,586,585 |
| `nested` | Is an outer transaction reopened by the last to leave, and by nobody else? Does one commit of a round win? Are reads, synchronous and preloaded ones too, those of the state begun on? Is the outer transaction after a merge what the nested one has read? | 3 transactions, 2 of them synchronous, 1 key, 3 kinds of backends, symmetry; 1,537,619 |
| `btree` | Is the tree a balanced search tree with sound links after any operations, and do cursor, searches and steps agree with the sorted set? | keys 1 to 7, orders 3 and 4; 7,362 |
| `reads` | Do the reads of all backends, and of a transaction over them, agree with the sorted contents? | 3 keys, 2 values, every range, limits to 2; 11,664 |
| `indices` | Does the index list the objects after any transactions? Do the checks of a commit suffice? Do reads of the index, and of a transaction's view of it, agree with the objects? | 2 objects, 3 secondary keys, single or arrays, unique or not, 4 backends; 82,274 |
| `upgrade` | Is the index of a connected store that of its objects, whatever upgrades and crashes came before? Is no upgrade function passed by? | 3 versions, 6 applications, 2 objects, 2 secondary keys, 2 crashes, 3 databases; 1,202,169 |
| `combined_lost` | Finding 1 below | 2 stores |
| `cache_stale_read` | Finding 2 | 1 key, 1 read, no raw cache |

**Why these bounds.** Three transactions are what a merge race needs: a layer being
merged, the layer or reader below it, and one that commits or opens during the await.
The tree then has depth three, and a stack of two layers has a top and a bottom that
differ, so that both loops of the *all* job matter; with `MaxStackSize = 2` (10 in the
code) the limit is reached too. Keys do not interact in `Merge`, `Get` and `Preserve`,
which work key by key, so one key shows what many would; in `store_faults`, whose
properties do not mention values, there are none, and a difference is just truncated or
not. `store_full` has five transactions, because a stack at rest needs two layers, two
readers that hold its ends, and one more to be refused. Two stores and one member each is the smallest combined
transaction. Two plain transactions in one store let one hold up the member from below
while the other comes and goes above it, so that flatten jobs look at a member that cannot
be flushed yet, and one store merges while the other runs the combined flush.
In `cache`, two keys overflow the map of one entry, so that every conversion evicts, and
just fill the map of two, so that replacing a key evicts another; two reads under way can
be of one key and return out of order, across a whole flush; a value and its absence are
enough to tell new from old.
In `nested`, three transactions make a chain of depth three, two siblings in one outer
transaction, and a nested one over a layer that is flushed under it. Two are synchronous, so
that a synchronous one stands above and below another kind; values are the transactions'
names and one that is falsy. Trees of order 3 and 4 with seven keys have up to three levels,
so that inner nodes split, merge and borrow, and both parities of the order occur. Three keys have
a first, a last and one in between for every kind of bound, are stored, removed, modified or
absent in every combination, and as strings sort otherwise (10 before 2). Two objects
under three secondary keys share one, swap them and leave them; one key is falsy (0), and one is
only in arrays, so that a bound is a value between two keys. The six
applications of `upgrade` (`MCPrograms`) are an index that comes later, one that is filled
again, deleted, not declared for a version, deleted with its store, and one whose condition
fails for who skips a version; two crashes interrupt the repetition of what a first one
interrupted.
Symmetry over transactions and over snapshots is used in runs without liveness only: the
model treats them alike.

**Deadlock** is checked in `cache`, `btree`, `reads`, `indices` and `upgrade`, where there is always
a call to make or to finish. It is not checked in the other passing runs: when the clients stop, nothing is left to do. What must
not stop is stated as liveness instead.

**Fairness.** Weak fairness of the synchronizer and of the continuations: a resolved
promise runs its continuation, and the backend answers every call, be it with an error.
Clients have no fairness: they may leave a transaction open for ever, and the
properties say "once nothing is left open" where this matters (`AllIsFlushed`,
`CombinedIsPersisted`). `CallsSettle` needs no such premise: no call waits for another
transaction to close.

Every property has a mutant of the modelled code in `PROJECT.json` that breaks it;
the mutated operators stand next to the originals in the modules.

## 4. The proofs

All for any sets of transactions, keys, values, snapshots, stores and versions, and any
limits. The theorems below state properties that a run checks, or the lemmas about operators
that several of them rest on; the invariants that carry the proofs were checked by TLC on the
instances of the runs first.

**ObjectStoreProofs** proves `TypeOK`, `Registered`, `FlushStaysLegal`, `StackIsChain`
and `LayersAreHeld` of `Spec`, with truncations, refused writes and thrown jobs
allowed. The inductive invariant of the first four is

    IInv == TypeOK /\ Registered /\ JobsAreLegal /\ FlushStaysLegal

`FlushStaysLegal` alone is not inductive: that nobody comes to read the state a layer is
merged into follows from new readers always being based on the top of the stack, which
is never below a layer; that takes the exact correspondence between stack, tree and
`_transactions` (`Registered`): the children of a node are just the layers and usable
transactions based on it, and each layer's parent is the layer below it. `Registered`
in turn survives a clean-up only if the layer being cleaned up is still registered,
which is `FlushStaysLegal`. `JobsAreLegal` says that only the job of a commit can find
its transaction gone, so the *all* job never throws half-way. There is one lemma per
action, and under it one step per conjunct the action can disturb.

`LayersAreHeld` (theorem `LayersStayHeld`) says that no wake-up is lost. Its invariant `WInv`
says that while there are layers, either something is on its way that ends in a look at both
ends of the stack (`Busy`: an *all* job in the queue, the waiting merge of a known
transaction, a merge under way, whose clean-up pushes an *all* job), or both ends are held
(`EndsHeld`), where the oldest need not be yet while an *all* job turns from the newest to
it (`Turning`). A waiting merge counts
only because it can go on when its turn comes: nobody comes to read the state below a layer
that is not the newest (`MergesCanRun`); one that found it cannot would push no job.

Its second half proves `LayersMatchHistory` (theorem `FlushIsInvisible`) under
`~Truncates /\ ~Failing`: a truncation or a refused write makes the code drop
a committed layer (section 5), and then it is false. The inductive invariant adds to
`IInv` and the property itself that no difference is truncated, that no application
fails, and that between application and clean-up the layer and the state below it stand
for the same committed state (`HInv`). There the merged difference is read twice, which
is harmless because applying it twice is applying it once (`ApplyTwice`).

Its third part goes on from there, under the same two assumptions, to what
clients see. `View`, what `get` finds through the chain of parents, is a recursive function
along `_parent`; that it is what its equation says (`ViewFacts`) needs that no chain is
endless, those of closed transactions included (`Founded`). With `RInv`, which adds this to
`HInv`, and that a layer stands for a later committed state than the one below it, follow
`ReadIsolation`, `CurrentIsNewest` and the refinement: `StoreImplementsAbstractStore` maps
every step of the store, merges in the background included, to a step of AbstractStore or a
stutter. `SnapshotsStayStable` proves `MaintainedSnapshotsAreStable` if no value is falsy
either (`Falsy = {}`; `Snapshot._apply` loses falsy values, and the run has none). Its
invariant `SInv` says where the reads of a snapshot get to when merged layers are skipped
(`Landing`), that the manager of that state keeps the snapshot (`ManagedWhereRead`), and
that during a merge the snapshot has the old value of every key about to change
(`Remembered`).

**CombinedTransactionProofs** proves `TypeOK`, `AllOrNothing` (theorem `CombinedIsAtomic`),
`ReportsStayTrue` and `StacksAreChains`, with refused writes. The invariant `IInv` has,
besides those and the analogues of ObjectStore's parts across all stores, that a flush is of
a combined transaction all of whose members have reported, and that its batch holds all of
them and otherwise only plain transactions merged into them (`FlushesAreLegal`); that the
members are open until the combined transaction decides (`MembersAreReady`); and that a
layer holds no other combined transaction's writes (`HoldsAreLegal`). `ReportsStayTrue` is
what atomicity rests on: between the report of the last member and the write, every other
store goes on.

**NestedProofs** proves a type invariant and all five properties of the run `nested`, for
transactions nested to any depth. Five groups of invariants follow one another: `Shape`
(who is nested in and based on whom; no chain is endless), `Control` (who is read-only, who
is being merged, which round it is), `Footing` (what an open transaction reads through
stays where it is), `Isolated` (what it is based on is what it was opened on) and
`Remembered` (a cached value that no own change hides is that of the state below, and every
synchronous transaction further down knows the key). The recursive functions of the module
(`View`, `Read`, `GetSync`, `Anchored`) are taken for what their equations say by recursion
along the chain. The attempt showed that the properties claimed too much: an outer
transaction that the abort of a sibling reopens during a merge can be closed before the
merge ends, which then sets it to OPEN again, with whatever has been built on it since. The
properties now name this case (`moved`, `early`).

**UpgradeProofs** proves all three properties of the run `upgrade`, for any versions,
declarations and number of crashes and the three databases; `IndexIsComplete` for
declarations that are `Sensible`, an assumption that the run evaluates on its six
applications and that the proof attempt brought up. The first half is about the tables:
what the folds over keys, objects and recorded changes write for one object
(`LevelPutsOne`, `LmdbPutsOne`: nothing but the lists of its old and its new key changes),
and for all objects when LMDB fills an index (`FilledFollows`). The second half is about the
steps. `TypeOK`, `Control` (where the process is, and what is half done there) and `Tables`
(IndexedDB's index is always the one made from the objects; LMDB's is empty until its table
exists; a unique one lists one object) carry three invariants: `Callbacks`; `IndexSound`,
which fails only between the two steps of a store's deletion; and `IndexComplete`, which is
the property made inductive: *an index that misses an object is empty, its table is new or
emptied, and a version not older than the stored one left it undeclared or deleted it*, so
that the next version which declares it is bound to fill it before it is used.

**IndicesProofs** proves `IndexMatchesObjects`, with the transaction's own index in it
(`OwnIndicesMatch` states that part alone), `IndexReadsAgree`, `TxIndexReadsAgree` and
`ChecksSuffice`, all invariants of the run `indices`, for any sets of keys and objects, the
four backends, and every order in which a commit takes its removals and its puts. The
inductive invariant is

    IInv == StateOK /\ TxOK /\ TreeRight /\ IndexRight

A list is described by how often it holds each primary key, for that is what an operation
changes one at a time. `IndexRight` says so of the backend's lists under every secondary key
that is not suspect, `TreeRight` of the transaction's own; `TxOK` that what is removed is not
put, so that the two loops of an application never meet in one object. Each loop has a lemma
that says what it does to one secondary key in terms of the lists before and after one object
(`RemovalsCounts`, `ReplacementsCounts`); LMDB's goes through what has been recorded
(`EncodeRecorded`), IndexedDB's through the objects (`IdbPuttingKeys`). `NotWrong` says that a
key outside `Wrong` is one that the loops keep right, which makes `Wrong` the exact account of
the lists they lose.

For the reads, `ScansAreRight` of SequenceLemmas gives that all four scans visit the rows within
the range, in order, or none where LMDB starts in the wrong place (`LmdbLost`). That a table
listed key by key is the table listed row by row follows because both are the same set, in the
same strict order (`RisingIsUnique`, with `RowBefore` for rows). `AstrayIsLost` connects
`LmdbAstray`, which speaks of the index, with `LmdbLost`, which speaks of rows; proving it showed
that the property had excused too few ranges.

For the uniqueness checks, `PassesFacts` says what a check that passes tells: the index and the
transaction's own are read right for a range of one key (`OnlyIsRight`, `OwnOnlyIsRight`), so no
two objects that the transaction sees have a secondary key in common. With the two excuses of
the property this gives `Unshared`: a key that is put is put once, and had, if any object had it
before, that object itself or one that is removed. In a unique index a removal empties the
whole list of a key, so the lists of all keys still to be put are empty, or the object's own,
at every step of the loops (`WalksAdmit` in memory and LevelDB); LMDB's encoding removes all
keys before the first insertion and inserts none twice (`EncodeOnce`, `StoringAdmits`); in
IndexedDB no object written so far has the key (`IdbAdmits`).

For the reads of a transaction (`TransactionsReadTheirIndex`), `SeenFacts` takes its view of a
secondary key apart: the parent's holders that it has not touched, and its own. What `keys`
collects is the union of the two over the range (`TxIndexKeysAreRight`); under a limit, where the
two sides are cut off, filtered and cut off again, it is part of that union and no longer than
the limit (`LimitedKeysAreRight`). For the extremes `ObjectsOK` is needed beside `IInv`: the
objects of an index of single keys have one key at most (`OneKey`), so that any object of a set
tells the key of all. The walk past keys whose objects are all touched leads further along the
range with each step or ends, by which the function exists (`PassEnds`, `PassExists`), and leaves
the untouched objects ahead as they were (`PassStep`), so that it ends at the first key that has
any, or at none of the range (`PassFinds`, `FromParent`). The in-memory cursors, which look at
one bound only, may stand past the range when it is empty (`CursorLeads`), on either side; every
key of the other side is then nearer and wins (`NearerSideWins`, `UnifiedIsFirst`).
What the theorem excuses is what the property names: a put that threw, keys left wrong by
`Wrong`, LMDB where `LmdbAstray` holds or a key of its index has several entries, LevelDB where
the range has stored objects and all are touched, and the extremes of arrays.

**ReadsProofs** proves `ReadsAgree` and `TxReadsAgree`, of the run `reads`, for any finite set
of keys, in the order of numbers or of strings, any table and any transaction over it. The inductive
invariant is the type invariant alone (with it that no key is both put and removed): a read
depends on the state it finds and on nothing before, and the work lies in what the reads
compute.

* *The backends* (`BackendsReadAlike`). `ScansAreRight` gives the positions that a scan visits,
  and `VisitedInOrder` the keys there: the range in order, by `InOrderIsUnique` (a strictly
  ordered list of a set is the only one). As a primary index holds each key once, `LmdbLost`
  shrinks to the two cases of `LmdbAstray` (`AstrayIsLost`). The extreme key is the head of the
  stream; the in-memory cursor, which looks at one bound only, leads to the same key if the range
  has one (`MemoryExtreme`), else to a key beyond the range (`MemoryBeyond`).
* *The merge* (`MergeIsOrdered`). After i keys of the parent's stream, what has been given out is
  the own keys and the parent's kept ones up to the i-th, in order, and what is left is the own
  keys after it (`MergedUpTo`, along the fold by `MergeSteps`). So the merge holds what the
  transaction sees, in order, and is the list of its view (`MergedStream`).
* *The extreme keys* (`TxExtremeIsHead`). `NextMax` and `NextMin` go from one removed key to the
  next. Every step leads further along the range or ends, so that the function exists
  (`SearchesEnd`, `NextIsSkips`), and leaves the parent's kept keys ahead as they were
  (`SearchStep`); by `ChainInduction` the search gives the first of them (`SearchFacts`). A range
  without any is where backends differ, and where the in-memory cursor may stand beyond it: then
  all own keys in the range go before its key, and the transaction's own extreme key is right
  nevertheless (`FromParentFacts`, `WithOwnFacts`).

**Differences.** The proofs of the store rest on `MergeIsComposition` (reading a merged layer is
reading through both), `ApplyTwice`, `PreserveKeepsView` (a snapshot's view survives any
difference applied below it, assuming that no old value is falsy), and `KeysAgreeWithGet`, at
the head of ObjectStoreProofs. NestedProofs and CachedBackendProofs repeat those they need.

**CachedBackendProofs** proves `TypeOK`, `CachesAreSound` and `CurrentUnlessSuspect` of
`Spec`, for maps of any size and any number of reads under way. The first part is about
the map alone: `PutFacts`, `DropFacts` and `UseFacts` say that an operation leaves list and
keys in agreement and changes one entry, besides dropping others; that an eviction frees
an entry rests on that agreement. The inductive invariant adds to the three properties
that, while a transaction is written behind the cache or `_applyLocally` goes through it, a
changed key that is not suspect has neither an encoding in the cache nor a read under way
(`Quiet`), without which an answer from before the write could come back under a key that
counts as current; that a member only grows after its encoding (`BatchIsWithin`), so that
what the batch changes is what the callback takes out of the cache or puts there anew; and
that the callback puts no value but the database's under a key that is not suspect
(`PutsAreWritten`).

**Recursion and folds.** The library's induction theorems take an operator, which the
provers cannot instantiate. SequenceLemmas has the forms that were needed over sets and
functions instead, general lemmas that say nothing of this code: `ChainInduction` for a set
that contains the end of a chain of parents and with every node the ones above it,
`ChainRecursion` for the function that goes up the chain by a given step, from which
everything written as a recursive function along `_parent`
gets its equation, and `FoldSteps`, `FoldIsUnique` and `StepInduction` for the folds, which
the community modules define as a recursion over the sets of positions.

**Only model-checked:** all liveness (`CallsSettle`, `AllIsFlushed`, `CombinedIsPersisted`), which
is out of the provers' reach, and BTree, which declares
`RECURSIVE` operators, without which the walk over a tree cannot be written and with which the
provers have no arithmetic and no sets. The runs go through every state within their bounds.

## 5. What was found

Two findings have a run that TLC finds violated by what the code does.

1. **A commit beside a combined flush is lost** (`combined_lost`). The other member's
   store keeps merging; what is merged into the member's layer after its writes have been
   collected and before the clean-up removes it is in neither database nor stack.
2. **The cache keeps an old value** (`cache_stale_read`). A `get` that missed stores its
   answer when it arrives, without looking whether a transaction has been applied to the
   cache meanwhile (`CachedBackend.js:140-146`). `ObjectStore.get` opens no transaction and
   holds up no flush, so a put can overtake it; all later reads get the old value until the
   key is evicted or written again. IndexedDB stores have the cache by default. The theorem
   `OnlySuspectsAreStale` says that within the model there are only three other ways to a
   cached value that is not the database's: the cache of encodings, which `_applyLocally` does
   not touch; a refused write; and a combined flush into whose member a layer was merged
   after the encoding, whose values the callback caches although finding 1 loses them.

### Known limits

What else the code does otherwise than one would expect. The models do the same, and the
properties name it as an exception, or restrict the instance so that it cannot happen; that
nothing else goes wrong is what the runs show.

*Store and transactions.*

* A commit has a third outcome: if an earlier job merges a transaction before the job its
  own commit has queued, that job finds no entry in `_transactions` and raises a TypeError
  (`ObjectStore.js:405`): the commit rejects, although it has taken effect.
* A truncating commit that is merged into a committed layer is lost: `truncateSync` throws
  because the layer is not open, the error is logged, and `commit` returns true
  (`Transaction.js:137`). `StoreIsolation.cfg` therefore has no truncations.
* A snapshot of a transaction that has been flushed is registered with that transaction's
  own manager, which nobody applies anything to any more (`Transaction.js:602`).
* A combined commit returns true although a member conflicted: committability is asked before
  the constraints are awaited and the members' results are ignored
  (`CombinedTransaction.js:114`). The other members are committed but never written.
* A nested commit that truncates is rejected in the middle of its merge
  (`Transaction.js:137`, called from `:768`): it has left `_nested` already, so its outer
  transaction stays NESTED until another one has been nested in it and closed (`Rejected`).
* While the merge of a nested commit is awaited, the abort or conflict of the last sibling
  reopens the outer transaction. It may then be changed, or even closed, before the merge
  is done, and the end of the merge sets it to OPEN again, over what has been committed and
  opened since (`early`, `moved`).
* "Ensuring read isolation" (`Transaction.js:545`) does not hold between siblings: when one
  is committed, the others see its changes through the outer transaction (`moved`).
* What a synchronous transaction finds in the cache of a layer below it counts as
  preloaded; when that layer is flushed to an asynchronous backend, `getSync` throws
  "Missing key in cache". It throws, too, for preloaded values that are falsy.

*Range reads.*

* LMDB's `_readStream` finds nothing downwards from a closed upper bound that is no key,
  from one behind the last key if the range includes null, and, in an index, from an open
  bound if it, or the next key above when it is no key, has several entries (the one step back from
  the last of these stays among them); an exact match passes over a falsy value
  (`LMDBBaseBackend.js:238-287`; `LmdbAstray`). Its extremes give null for none, which the
  search of a transaction's extremes takes for a key.
* The in-memory extremes look at one bound of the range only.
* A transaction's streams sort its own keys as strings (`Transaction.js:299`), so numbers
  such as 2 and 10 come in the wrong order.

*Indices.*

* LevelDB and LMDB lose the index entry of an object that is put again, with the same
  secondary key, in a transaction that truncated; LMDB keeps an entry when two objects of
  one secondary key are removed in one transaction (`Wrong`).
* Passing a unique key from one object to another within a transaction passes the
  checks, and the index throws when it is applied; the in-memory backend has stored the
  objects by then (`HandsOver`). A `putSync` that throws on the transaction's own index leaves
  the object in the transaction (`thrown`).
* A limit is handed to the backend's index before the removed and modified objects are
  taken out, so fewer are returned than there are (`TransactionIndex.js:83`).
* LMDB's `count` of an index counts its least secondary key only; LevelDB's extremes of a
  range without objects give undefined as a key.

*Upgrades.*

* A new index of LevelDB is filled with the first object only: the callback of
  `PersistentIndex.init` (`:91`) returns nothing, which stops the stream of values
  (`partial`).
* LMDB creates the table of an index and fills it in another write: after a crash in between
  it is never filled (`torn`). If filling it throws on a unique key, `connect` rejects and
  the write transaction stays open. `deleteIndex` names the wrong table
  (`LMDBBackend.js:45`), so the index is found again as it was (`kept`).
* A deletion of a store that is interrupted and not repeated by the next version leaves the
  index of what is gone (`halfway`).

## 6. Not modelled, and the plan

Not modelled:

* **Query**: it intersects and unites the sets of keys that the reads of Indices and
  Reads give, and keeps no state. A limit goes to every part of a conjunction before the
  intersection, and it reads keys first and objects later, so that on a store, which
  opens no transaction for it, objects removed in between come as undefined.
* Reads of values and streams through an index, which look up the keys modelled.
* LMDB's resize of its map, and a write transaction left open by an error: arithmetic and
  locks of a native library.
* The events `blocked` and `versionchange` of IndexedDB, and calls of `connect` and `close` that
  overlap.
* Layer-to-layer merges under nested transactions: Nested has flushes of the bottom only.
* `CachedBackend.truncate`, which no part of the library calls (emptying a store is a
  transaction).
* Calls that a client does not await on its own transaction, such as a `put` whose
  constraint check is overtaken by a commit.
* The native databases themselves (a write is one atomic step, as their documentation
  promises), encodings of keys and values, logging, the benchmark and loader code.

What is left to do, most important first:

1. **Streams of a transaction's index**: the merge of the parent's rows with its own.
2. **Nested** over the whole of ObjectStore, with layer merges, and the order of two
   combined flushes.
3. **Query** over an index that changes between its reads.
