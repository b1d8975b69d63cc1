---------------------------- MODULE IndexTables ----------------------------
(***************************************************************************)
(* How the backends keep a secondary index up to date.  An object counts   *)
(* by the sequence of its secondary keys: the components of the array at   *)
(* the key path of a multi-entry index, else one key or none.  An index is *)
(* a function from secondary keys to lists of primary keys, empty where    *)
(* the table has no entry.  Changes go through an accumulator [ix, ok]     *)
(* whose ok turns FALSE when the uniqueness error is thrown.               *)
(*                                                                         *)
(* The objects that a transaction changed are taken in an order, for the   *)
(* code walks over a Map and a Set in the order of the calls.              *)
(***************************************************************************)
EXTENDS Scan

CONSTANTS PK,               \* primary keys, positive integers
          SK                \* secondary keys, numbers; 0 is falsy

NoEntries == [sk \in SK |-> <<>>]
Good(ix) == [ix |-> ix, ok |-> TRUE]
KeysOf(data, pk) == IF pk \in DOMAIN data THEN data[pk] ELSE <<>>

\* SortedList.add and remove
Added(list, pk) == InsertAt(list, 1 + Cardinality({i \in DOMAIN list : list[i] < pk}), pk)
Dropped(list, pk) == RemoveFirst(list, pk)

\* ComparisonUtils.equals: two arrays are never the same.
SameKeys(old, new, multi) == old = new /\ (~multi \/ old = <<>>)

\* put of an index: remove under the old keys, insert under the new ones, if they differ.
Rekeyed(acc, old, new, multi, Out(_, _), In(_, _)) ==
    IF ~acc.ok \/ SameKeys(old, new, multi) THEN acc ELSE In(Out(acc, old), new)

-----------------------------------------------------------------------------
(* InMemoryIndex: the index of the in-memory backend and of a transaction. *)

MemoryInsert(acc, pk, sks, unique) ==
    FoldLeft(LAMBDA a, sk : IF ~a.ok THEN a
                            ELSE IF a.ix[sk] = <<>> THEN [a EXCEPT !.ix[sk] = <<pk>>]
                            ELSE IF unique THEN [a EXCEPT !.ok = FALSE]
                            ELSE [a EXCEPT !.ix[sk] = Added(@, pk)], acc, sks)

\* The list of a secondary key goes as a whole if it has one entry, whosever that is.
MemoryRemove(acc, pk, sks, unique) ==
    FoldLeft(LAMBDA a, sk : IF ~unique /\ Len(a.ix[sk]) > 1 THEN [a EXCEPT !.ix[sk] = Dropped(@, pk)]
                            ELSE [a EXCEPT !.ix[sk] = <<>>], acc, sks)

MemoryPut(acc, pk, old, new, unique, multi) ==
    Rekeyed(acc, old, new, multi, LAMBDA a, sks : MemoryRemove(a, pk, sks, unique),
                                  LAMBDA a, sks : MemoryInsert(a, pk, sks, unique))

\* Mutant: objects are removed from the index without their old values.
MemoryApplyNoRemoval(ix, data, new, gone, puts, truncated, unique, multi) ==
    LET base == IF truncated THEN NoEntries ELSE ix
        Old(pk) == IF truncated THEN <<>> ELSE KeysOf(data, pk)
    IN  FoldLeft(LAMBDA a, pk : MemoryPut(a, pk, Old(pk), new[pk], unique, multi), Good(base), puts)

\* InMemoryBackend._indexApply; a truncation has emptied data and index before.
MemoryApply(ix, data, new, gone, puts, truncated, unique, multi) ==
    LET base == IF truncated THEN NoEntries ELSE ix
        Old(pk) == IF truncated THEN <<>> ELSE KeysOf(data, pk)
        cleared == FoldLeft(LAMBDA a, pk : MemoryRemove(a, pk, Old(pk), unique), Good(base), gone)
    IN  FoldLeft(LAMBDA a, pk : MemoryPut(a, pk, Old(pk), new[pk], unique, multi), cleared, puts)

-----------------------------------------------------------------------------
(* LevelDB's PersistentIndex, through a transaction on the index table.    *)

LevelInsert(acc, pk, sks, unique) ==
    FoldLeft(LAMBDA a, sk : IF ~a.ok \/ (unique /\ a.ix[sk] # <<>>) THEN [a EXCEPT !.ok = FALSE]
                            ELSE IF pk \in ToSet(a.ix[sk]) THEN a
                            ELSE [a EXCEPT !.ix[sk] = Added(@, pk)], acc, sks)

LevelRemove(acc, pk, sks, unique) ==
    FoldLeft(LAMBDA a, sk : IF ~unique /\ Len(a.ix[sk]) > 1 THEN [a EXCEPT !.ix[sk] = Dropped(@, pk)]
                            ELSE [a EXCEPT !.ix[sk] = <<>>], acc, sks)

LevelPut(acc, pk, old, new, unique, multi) ==
    Rekeyed(acc, old, new, multi, LAMBDA a, sks : LevelRemove(a, pk, sks, unique),
                                  LAMBDA a, sks : LevelInsert(a, pk, sks, unique))

\* _apply: old values come from the store, which the truncation has not reached yet.
LevelApply(ix, data, new, gone, puts, truncated, unique, multi) ==
    LET cleared == FoldLeft(LAMBDA a, pk : LevelRemove(a, pk, KeysOf(data, pk), unique),
                            Good(IF truncated THEN NoEntries ELSE ix), gone)
    IN  FoldLeft(LAMBDA a, pk : LevelPut(a, pk, KeysOf(data, pk), new[pk], unique, multi), cleared, puts)

-----------------------------------------------------------------------------
(* LMDB's PersistentIndex: changes are recorded first and applied later.   *)

\* EncodedLMDBTransaction: one primary key is kept for each secondary key to remove, the last.
NoChanges == [removed |-> [sk \in {} |-> 0], modified |-> <<>>]
RecordRemove(e, sk, pk) ==
    [e EXCEPT !.removed = [s \in DOMAIN e.removed \cup {sk} |-> IF s = sk THEN pk ELSE e.removed[s]]]
RecordPut(e, sk, pk) == [e EXCEPT !.modified = Append(@, <<sk, pk>>)]

LmdbInsert(e, pk, sks) == FoldLeft(LAMBDA f, sk : RecordPut(f, sk, pk), e, sks)
LmdbRemove(e, pk, sks) == FoldLeft(LAMBDA f, sk : RecordRemove(f, sk, pk), e, sks)
LmdbPut(e, pk, old, new, multi) ==
    IF SameKeys(old, new, multi) THEN e ELSE LmdbInsert(LmdbRemove(e, pk, old), pk, new)

\* encodeTransaction of the index
LmdbEncode(data, new, gone, puts, multi) ==
    FoldLeft(LAMBDA e, pk : LmdbPut(e, pk, KeysOf(data, pk), new[pk], multi),
             FoldLeft(LAMBDA e, pk : LmdbRemove(e, pk, KeysOf(data, pk)), NoChanges, gone), puts)

\* _put of LMDBBaseBackend: a pair that is there stays there once.
LmdbStore(acc, sk, pk, unique) ==
    IF unique /\ acc.ix[sk] # <<>> THEN [acc EXCEPT !.ok = FALSE]
    ELSE IF pk \in ToSet(acc.ix[sk]) THEN acc
    ELSE [acc EXCEPT !.ix[sk] = Added(@, pk)]

\* applyEncodedTransaction: removals first, all entries of the key if the index is unique.
LmdbApply(ix, data, new, gone, puts, truncated, unique, multi) ==
    LET e       == LmdbEncode(data, new, gone, puts, multi)
        base    == IF truncated THEN NoEntries ELSE ix
        cleared == [sk \in SK |-> IF sk \notin DOMAIN e.removed THEN base[sk]
                                  ELSE IF unique THEN <<>> ELSE Dropped(base[sk], e.removed[sk])]
    IN  FoldLeft(LAMBDA a, pair : IF a.ok THEN LmdbStore(a, pair[1], pair[2], unique) ELSE a,
                 Good(cleared), e.modified)

-----------------------------------------------------------------------------
(* IndexedDB keeps its indices itself: object by object, each component of *)
(* an array once, and an object that breaks uniqueness aborts it all.      *)

Holders(data, sk) == {pk \in DOMAIN data : sk \in ToSet(data[pk])}
Indexed(data) == [sk \in SK |-> Ascending(Holders(data, sk))]

Written(data, pk, sks) == [p \in DOMAIN data \cup {pk} |-> IF p = pk THEN sks ELSE data[p]]
Base(data, gone, truncated) == IF truncated THEN <<>> ELSE [p \in DOMAIN data \ ToSet(gone) |-> data[p]]

IdbApply(data, new, gone, puts, truncated, unique) ==
    LET Clash(d, pk) == unique /\ \E sk \in ToSet(new[pk]) : Holders(d, sk) \ {pk} # {}
        end == FoldLeft(LAMBDA a, pk : IF ~a.ok \/ Clash(a.ix, pk) THEN [a EXCEPT !.ok = FALSE]
                                       ELSE [a EXCEPT !.ix = Written(@, pk, new[pk])],
                        Good(Base(data, gone, truncated)), puts)
    IN  [ix |-> Indexed(end.ix), ok |-> end.ok]
=============================================================================
