------------------------------ MODULE Upgrade ------------------------------
(***************************************************************************)
(* Connecting to a database whose structure changes from one version of    *)
(* the application to the next: a process declares an object store and     *)
(* one index with their upgrade conditions, connects, changes objects and  *)
(* ends, and it may crash at any step.  Restarted applications are of the  *)
(* same version or a later one.                                            *)
(*                                                                         *)
(* A condition is Null, NoCall where the declaration was not made, or the  *)
(* set of the stored versions it holds for (true is the set of all).       *)
(***************************************************************************)
EXTENDS IndexTables

CONSTANTS Kinds,            \* the databases
          Versions,         \* the application's versions, 1..n
          Programs,         \* applications: for each version its declarations
          Null, NoCall,
          MaxCrashes        \* bound

Condition == {NoCall, Null} \cup SUBSET (Versions \cup {0})
Declarations == [drop : Condition, store : Condition, unindex : Condition, index : Condition]

ASSUME UpgradeAssumption ==
    /\ Kinds \subseteq {"leveldb", "lmdb", "indexeddb"}
    /\ Versions \subseteq Nat \ {0} /\ MaxCrashes \in Nat
    /\ Programs \subseteq [Versions -> Declarations]
    /\ PK \subseteq Nat \ {0} /\ SK \subseteq Nat /\ NoCall # Null

VARIABLES kind, unique, program,
          version, data, index,     \* the database: its version, the objects, the index
          hasStore, hasIndex,       \* whether their tables exist
          pc, v, old, todo,         \* the process: its version, the one it read, tables to empty
          crashes,
          doubt,                    \* history: why the index may be wrong
          calls                     \* history: how often each version's upgrade function has ended

disk == <<version, data, index, hasStore, hasIndex>>
vars == <<kind, unique, program, disk, pc, v, old, todo, crashes, doubt, calls>>

Holds(condition) == condition # NoCall /\ (condition = Null \/ old \in condition)
Declared == program[v]
UsesIndex == Declared.index # NoCall
Clashes == \E sk \in SK : Cardinality(Holders(data, sk)) > 1

Go(label) == pc' = label

Init ==
    /\ kind \in Kinds /\ unique \in BOOLEAN /\ program \in Programs
    /\ version = 0 /\ data = <<>> /\ index = NoEntries
    /\ hasStore = (kind # "indexeddb") /\ hasIndex = (kind = "leveldb")
    /\ pc = "down" /\ v = 1 /\ old = 0 /\ todo = {} /\ crashes = 0
    /\ doubt = {} /\ calls = [n \in Versions |-> 0]

-----------------------------------------------------------------------------
(* LevelDB and LMDB: _initDB step by step.                                 *)

Connect ==
    /\ pc = "down"
    /\ v' \in {n \in Versions : n >= v} /\ Go(IF kind = "indexeddb" THEN "open" ELSE "read")
    /\ UNCHANGED <<kind, unique, program, disk, old, todo, crashes, doubt, calls>>

\* Mutant: the tables of the deleted store's indices are left.
ToEmptyStoreOnly == IF v > version /\ Declared.drop # NoCall THEN {"store"} ELSE {}

\* What deleteObjectStore empties: only if the version is a new one.
ToEmpty ==
    IF v > version /\ Declared.drop # NoCall /\ (Declared.drop = Null \/ version \in Declared.drop)
    THEN {"store", "index"} ELSE {}

ReadVersion ==
    /\ pc = "read"
    /\ old' = version /\ todo' = ToEmpty
    /\ Go("drop")
    /\ UNCHANGED <<kind, unique, program, disk, v, crashes, doubt, calls>>

\* One table after the other in LMDB, in any order in LevelDB.
Empty(table) ==
    /\ pc = "drop" /\ table \in todo
    /\ kind = "lmdb" /\ table = "index" => "store" \notin todo
    /\ todo' = todo \ {table}
    /\ IF table = "store" THEN data' = <<>> /\ UNCHANGED <<index, hasIndex>>
       ELSE index' = NoEntries /\ hasIndex' = (kind # "lmdb") /\ UNCHANGED data
    /\ doubt' = IF table = "index" THEN {} ELSE doubt
    /\ UNCHANGED <<kind, unique, program, version, hasStore, pc, v, old, crashes, calls>>

\* Indices to delete.  LMDB names the wrong table.
DeleteIndex ==
    /\ pc = "drop" /\ todo = {}
    /\ IF kind = "leveldb" /\ Holds(Declared.unindex)
       THEN index' = NoEntries /\ doubt' = {}
       ELSE UNCHANGED <<index, doubt>>
    /\ Go(IF UsesIndex THEN "create" ELSE "ready")
    /\ UNCHANGED <<kind, unique, program, version, data, hasStore, hasIndex, v, old, todo, crashes, calls>>

\* Mutant: without a condition, nothing is filled.
IsUpgradeIfTold == Declared.index # Null /\ Holds(Declared.index)

\* Whether the index is to be filled: an empty one or a new table, if no condition was given.
IsUpgrade ==
    IF Declared.index # Null THEN Holds(Declared.index)
    ELSE IF kind = "leveldb" THEN index = NoEntries ELSE ~hasIndex

OpenIndex ==
    /\ pc = "create"
    /\ hasIndex' = TRUE
    /\ Go(IF IsUpgrade THEN "fill" ELSE "ready")
    /\ UNCHANGED <<kind, unique, program, version, data, index, hasStore, v, old, todo, crashes, doubt, calls>>

\* LevelDB: the callback returns nothing, and so the stream of the objects stops after the first.
\* Its keys are written over what the table holds for them.
LevelFill ==
    LET pk == Ascending(DOMAIN data)[1]
    IN  IF data = <<>> \/ data[pk] = <<>> THEN index ELSE [index EXCEPT ![data[pk][1]] = <<pk>>]

\* LMDB: every object is put, as if it were new.
LmdbFill ==
    FoldLeft(LAMBDA a, pk : IF a.ok /\ data[pk] # <<>> THEN LmdbStore(a, data[pk][1], pk, unique) ELSE a,
             Good(index), Ascending(DOMAIN data))

\* All in one write.  If LMDB's uniqueness check throws, connect is rejected and the write
\* transaction stays open.
Fill ==
    /\ pc = "fill"
    /\ IF kind = "leveldb"
       THEN /\ index' = LevelFill /\ Go("ready")
            /\ doubt' = IF Cardinality(DOMAIN data) > 1 THEN doubt \cup {"partial"} ELSE doubt
       ELSE IF LmdbFill.ok
       THEN index' = LmdbFill.ix /\ Go("ready") /\ doubt' = doubt \ {"torn"}
       ELSE UNCHANGED index /\ Go("stuck") /\ doubt' = doubt \cup {"torn"}
    /\ UNCHANGED <<kind, unique, program, version, data, hasStore, hasIndex, v, old, todo, crashes, calls>>

Ready ==
    /\ pc = "ready"
    /\ Go(IF v > old THEN "callback" ELSE "on")
    /\ UNCHANGED <<kind, unique, program, disk, v, old, todo, crashes, doubt, calls>>

\* onUpgradeNeeded has ended.
EndCallback ==
    /\ pc = "callback"
    /\ calls' = [calls EXCEPT ![v] = IF @ < 2 THEN @ + 1 ELSE @]
    /\ Go(IF kind = "indexeddb" THEN "on" ELSE "persist")
    /\ UNCHANGED <<kind, unique, program, disk, v, old, todo, crashes, doubt>>

\* Mutant: the upgrade function is not awaited.
WriteVersionEarly ==
    /\ pc \in {"callback", "persist"}
    /\ version' = v /\ Go("on")
    /\ UNCHANGED <<kind, unique, program, data, index, hasStore, hasIndex, v, old, todo, crashes, doubt, calls>>

WriteVersion ==
    /\ pc = "persist"
    /\ version' = v /\ Go("on")
    /\ UNCHANGED <<kind, unique, program, data, index, hasStore, hasIndex, v, old, todo, crashes, doubt, calls>>

-----------------------------------------------------------------------------
(* IndexedDB: one version change transaction, then the success handler.    *)

\* The database as the handler leaves it: a missing store whose condition fails throws, the rest is
\* skipped and the transaction commits with what has been done.
IdbUpgraded ==
    LET If(c)  == c # NoCall /\ (c = Null \/ version \in c)
        gone   == If(Declared.drop)
        kept   == hasStore /\ ~gone
        exists == kept \/ If(Declared.store)
        listed == kept /\ hasIndex /\ ~If(Declared.unindex)
        made   == exists /\ ~listed /\ If(Declared.index)
    IN  [data  |-> IF kept THEN data ELSE <<>>, store |-> exists, index |-> listed \/ made, made |-> made]

\* An index that objects already break aborts it all.
OpenIdb ==
    /\ pc = "open"
    /\ IF v <= version THEN Go("on") /\ UNCHANGED <<disk, old>>
       ELSE IF unique /\ IdbUpgraded.made /\ IdbUpgraded.data # <<>> /\ Clashes
       THEN Go("stuck") /\ UNCHANGED <<disk, old>>
       ELSE /\ version' = v /\ old' = version
            /\ data' = IdbUpgraded.data /\ hasStore' = IdbUpgraded.store /\ hasIndex' = IdbUpgraded.index
            /\ index' = IF IdbUpgraded.index THEN Indexed(IdbUpgraded.data) ELSE NoEntries
            /\ Go(IF IdbUpgraded.store THEN "ready" ELSE "on")
    /\ UNCHANGED <<kind, unique, program, v, todo, crashes, doubt, calls>>

-----------------------------------------------------------------------------
(* The connected database, and its end.                                    *)

Without(pk) == [p \in DOMAIN data \ {pk} |-> data[p]]

\* The index and the objects after one object has been put or removed.
Stored(new, gone, puts) ==
    LET objects == Without(IF gone = <<>> THEN 0 ELSE gone[1])
        all     == [p \in DOMAIN objects \cup DOMAIN new |-> IF p \in DOMAIN new THEN new[p] ELSE objects[p]]
        after   == IF kind = "leveldb" /\ UsesIndex THEN LevelApply(index, data, new, gone, puts, FALSE, unique, FALSE)
                   ELSE IF kind = "lmdb" /\ UsesIndex THEN LmdbApply(index, data, new, gone, puts, FALSE, unique, FALSE)
                   ELSE IF kind = "indexeddb" /\ hasIndex THEN Good(Indexed(all))
                   ELSE Good(index)
    IN  /\ after.ok /\ data' = all /\ index' = after.ix
        \* Objects change while the index of the database is not among the declarations.
        /\ doubt' = IF ~UsesIndex /\ ((kind = "lmdb" /\ hasIndex) \/ (kind = "leveldb" /\ index # NoEntries))
                    THEN doubt \cup {"kept"} ELSE doubt
        /\ UNCHANGED <<kind, unique, program, version, hasStore, hasIndex, pc, v, old, todo, crashes, calls>>

Usable == pc \in {"callback", "on"} /\ hasStore

\* put of the object store: a declared unique index is asked, and IndexedDB asks any.
Refused(pk, sks) ==
    /\ unique
    /\ IF UsesIndex THEN ~hasIndex \/ \E sk \in ToSet(sks) : index[sk] # <<>>
       ELSE kind = "indexeddb" /\ \E sk \in ToSet(sks) : ToSet(index[sk]) \ {pk} # {}

PutObject(pk, sks) ==
    /\ Usable /\ ~Refused(pk, sks)
    /\ Stored([p \in {pk} |-> sks], <<>>, <<pk>>)

RemoveObject(pk) == Usable /\ pk \in DOMAIN data /\ Stored(<<>>, <<pk>>, <<>>)

Ended == Go("down") /\ old' = 0 /\ todo' = {} /\ UNCHANGED <<kind, unique, program, disk, v, calls>>

\* The process ends, after close or because its connect was rejected.
Close == pc \in {"on", "stuck"} /\ Ended /\ UNCHANGED <<crashes, doubt>>

\* LMDB: a table that has been created by itself counts as filled.  A later version may not repeat
\* the deletion of a store that was interrupted.
Crash ==
    /\ pc # "down" /\ crashes < MaxCrashes
    /\ crashes' = crashes + 1
    /\ doubt' = IF kind = "lmdb" /\ pc = "fill" /\ data # <<>> THEN doubt \cup {"torn"}
                ELSE IF Cardinality(todo) = 1 THEN doubt \cup {"halfway"} ELSE doubt
    /\ Ended

Next ==
    \/ Connect \/ ReadVersion \/ (\E t \in todo : Empty(t)) \/ DeleteIndex \/ OpenIndex \/ Fill
    \/ Ready \/ EndCallback \/ WriteVersion \/ OpenIdb \/ Close \/ Crash
    \/ \E pk \in PK : RemoveObject(pk) \/ \E sks \in {<<>>} \cup {<<sk>> : sk \in SK} : PutObject(pk, sks)

Spec == Init /\ [][Next]_vars
-----------------------------------------------------------------------------
(* Properties.                                                             *)

InUse == pc \in {"callback", "on"} /\ UsesIndex

\* The index of a connected store lists no object under a key that it does not have, whatever crash
\* or upgrade came before, unless objects were changed under a version without the index, which a
\* later version finds as it was left (in LMDB even if the index was deleted in between), or a
\* deletion of the store was interrupted between the store and its index.
IndexIsSound ==
    InUse /\ {"kept", "halfway"} \cap doubt = {} =>
        \A sk \in SK : ToSet(index[sk]) \subseteq Holders(data, sk)

\* Whether an index is filled wherever it may be missing: if a condition leaves out a stored version,
\* then every version from that one on declares the index, and none of them deletes it there, so that a
\* database of that version has it.
Deletes(declarations, stored) ==
    declarations.unindex # NoCall /\ (declarations.unindex = Null \/ stored \in declarations.unindex)
Sensible ==
    \A p \in Programs, n \in Versions, stored \in Versions \cup {0} :
        p[n].index \notin {NoCall, Null} /\ stored \notin p[n].index =>
            \A w \in Versions : stored <= w /\ w <= n => p[w].index # NoCall /\ ~Deletes(p[w], stored)

Missing == {sk \in SK : Holders(data, sk) \ ToSet(index[sk]) # {}}

\* The index of a connected store lists every object if the declarations are sensible, except
\* - LevelDB: it was filled over more than one object, of which it took the first;
\* - LMDB: the process ended between the creation of its table and the write that fills it;
\* - objects were changed under a version without it, or the store's deletion interrupted, as above.
\* An IndexedDB upgrade whose store was refused leaves no index.
IndexIsComplete == InUse /\ doubt = {} /\ (kind = "indexeddb" => hasIndex) => Missing = {}

\* A version is recorded in LevelDB and LMDB only when its upgrade function has ended, so that a crash
\* repeats it; in IndexedDB it is recorded before, and the function runs at most once.
UpgradeFunctionRuns ==
    IF kind = "indexeddb" THEN \A n \in Versions : calls[n] <= 1
    ELSE version > 0 => calls[version] > 0
=============================================================================
