------------------------------ MODULE Indices ------------------------------
(***************************************************************************)
(* An object store with one secondary index, in the four backends, under   *)
(* one transaction at a time: the transaction's own index, the uniqueness  *)
(* checks of put and commit, the application of the transaction to store   *)
(* and index, and the reads of the index and of the transaction's view of  *)
(* it.  No flush passes under an open transaction, and the commit of the   *)
(* transaction is followed by its flush here.                              *)
(***************************************************************************)
EXTENDS IndexTables

CONSTANTS Kinds,            \* the backends
          Single, Arrays    \* the objects: without and with a multi-entry index

ASSUME IndicesAssumption ==
    /\ PK \subseteq Nat \ {0} /\ SK \subseteq Nat /\ NoKey \notin Int
    /\ Kinds \subseteq {"memory", "leveldb", "lmdb", "indexeddb"}
    /\ Single \cup Arrays \subseteq Seq(SK) /\ \A sks \in Single : Len(sks) <= 1

VARIABLES kind, unique, multi,
          data,             \* the stored objects
          index,            \* the backend's index
          modified, removed, truncated, tree,   \* the open transaction and its own index
          thrown,           \* a put of the transaction has thrown after changing it
          suspect           \* history: the secondary keys that an update may have left wrong

store == <<data, index, suspect>>
tx == <<modified, removed, truncated, tree, thrown>>
vars == <<kind, unique, multi, store, tx>>

Objects == IF multi THEN Arrays ELSE Single

\* How often an element is in a list.
Count(list, x) == Cardinality({i \in DOMAIN list : list[i] = x})
InOrder(list) == \A i, j \in DOMAIN list : i < j => list[i] <= list[j]

-----------------------------------------------------------------------------
(* Reads of the backend's index.  Rows are the entries of a table.         *)

AllRanges == Ranges(SK)

Heads == Ascending({sk \in SK : index[sk] # <<>>})
Rows == FlattenSeq([i \in DOMAIN Heads |-> [j \in DOMAIN index[Heads[i]] |-> <<Heads[i], index[Heads[i]][j]>>]])
RowKeys == [i \in DOMAIN Rows |-> Rows[i][1]]

\* The lists that a scan of one row per secondary key visits, each in the scan's direction.
Lists(scan, asc) == FlattenSeq([i \in DOMAIN scan |-> InDirection(index[Heads[scan[i]]], asc)])
Visits(scan) == [i \in DOMAIN scan |-> Rows[scan[i]]]
PrimaryKeys(rows) == [i \in DOMAIN rows |-> rows[i][2]]

MemoryIndexStream(r, asc) == Lists(MemoryScan(Heads, r, asc), asc)
LevelIndexStream(r, asc) == Lists(LevelScan(Heads, r, asc), asc)
IdbIndexStream(r, asc) == PrimaryKeys(Visits(IdbScan(RowKeys, r, asc)))
LmdbIndexStream(r, asc) == PrimaryKeys(Visits(LmdbScan(RowKeys, r, asc, TRUE)))

\* keyStream of the index
IndexStream(r, asc) ==
    CASE kind = "memory" -> MemoryIndexStream(r, asc) [] kind = "leveldb" -> LevelIndexStream(r, asc)
      [] kind = "indexeddb" -> IdbIndexStream(r, asc) [] kind = "lmdb" -> LmdbIndexStream(r, asc)

\* keys of the index; in memory an exact match is looked up.
IndexKeys(r) ==
    IF kind = "memory" /\ ExactMatch(r) THEN ToSet(index[r.lower]) ELSE ToSet(IndexStream(r, TRUE))

\* Mutant: the cursor stops behind the first entry.
FirstRow(rows) == {rows[i][2] : i \in DOMAIN rows \cap {1}}

\* As many rows from the front as have the same secondary key as the first.
SameHead(rows) == {rows[i][2] : i \in {j \in DOMAIN rows : \A l \in 1..j : rows[l][1] = rows[1][1]}}

\* maxKeys and minKeys: in memory the other bound is not looked at; in LevelDB there is always one
\* entry, undefined if nothing was found.
MemoryExtremes(r, asc) ==
    LET i == MemoryStart(Heads, r, asc) IN IF i = 0 THEN {} ELSE ToSet(index[Heads[i]])
LevelExtremes(r, asc) ==
    LET s == LevelScan(Heads, r, asc) IN IF s = <<>> THEN {NoKey} ELSE ToSet(index[Heads[s[1]]])
IdbExtremes(r, asc) == SameHead(Visits(IdbScan(RowKeys, r, asc)))
LmdbExtremes(r, asc) == SameHead(Visits(LmdbScan(RowKeys, r, asc, TRUE)))
IndexExtremes(r, asc) ==
    CASE kind = "memory" -> MemoryExtremes(r, asc) [] kind = "leveldb" -> LevelExtremes(r, asc)
      [] kind = "indexeddb" -> IdbExtremes(r, asc) [] kind = "lmdb" -> LmdbExtremes(r, asc)

\* count: in LMDB that of the least secondary key.
IndexCount(r) ==
    CASE kind = "memory" -> Cardinality(IndexKeys(r))
      [] kind = "leveldb" -> Len(LevelIndexStream(r, TRUE))
      [] kind = "indexeddb" -> Len(IdbIndexStream(r, TRUE))
      [] kind = "lmdb" -> Cardinality(LmdbExtremes(r, TRUE))

-----------------------------------------------------------------------------
(* Reads of the transaction's index.                                       *)

TreeHeads == Ascending({sk \in SK : tree[sk] # <<>>})
OwnIndexKeys(r) == UNION {ToSet(tree[sk]) : sk \in {k \in SK : Includes(r, k)}}
OwnExtremes(r, asc) ==
    LET i == MemoryStart(TreeHeads, r, asc) IN IF i = 0 THEN {} ELSE ToSet(tree[TreeHeads[i]])

\* Mutant: what the transaction has changed is left in.
Unremoved(keys) == keys \ removed

Untouched(keys) == (keys \ removed) \ DOMAIN modified

TxIndexKeys(r) == Untouched(IF truncated THEN {} ELSE IndexKeys(r)) \cup OwnIndexKeys(r)
TxIndexCount(r) == Cardinality(TxIndexKeys(r))

\* The members of s at the positions P, in their order.
PickedAt(s, P) == LET at == Ascending(P) IN [i \in DOMAIN at |-> s[at[i]]]
Once(s) == PickedAt(s, {i \in DOMAIN s : \A j \in 1..(i - 1) : s[j] # s[i]})

\* keys of the index with a limit, in order: LevelDB and LMDB count entries, the others objects.
LimitedIndexKeys(r, limit) ==
    Limited(IF kind \in {"leveldb", "lmdb"} THEN IndexStream(r, TRUE) ELSE Once(IndexStream(r, TRUE)), limit)

\* Both sides are asked for so many keys before what the transaction changed is taken out; the
\* backend's come first.
LimitedTxIndexKeys(r, limit) ==
    LET theirs == IF truncated THEN <<>> ELSE LimitedIndexKeys(r, limit)
        own    == [i \in DOMAIN TreeHeads |-> IF Includes(r, TreeHeads[i]) THEN tree[TreeHeads[i]] ELSE <<>>]
        kept   == PickedAt(theirs, {i \in DOMAIN theirs : Untouched({theirs[i]}) # {}})
        both   == kept \o Limited(Once(FlattenSeq(own)), limit)
    IN  ToSet(Limited(Once(both), limit))

\* The object at the head of a set that the backend returned, and its secondary key.
Sampled(keys) == keys \cap DOMAIN data
HeadOf(keys) == LET pk == CHOOSE pk \in Sampled(keys) : TRUE IN data[pk][1]

Further(head, asc) == IndexExtremes(IF asc THEN LowerBound(head, TRUE) ELSE UpperBound(head, TRUE), asc)
LeftRange(r, head) == head # 0 /\ r # Everything /\ ~Includes(r, head)

\* Further down or up, as long as all keys found are removed or modified here.  A head of 0 is
\* taken for none where the range is left.
PassTouched(r, keys, head, asc) ==
    LET Enough(found) == Sampled(found) = {} \/ Untouched(found) # {}
        pass[last \in SK] ==
            LET found == Further(last, asc)
                next  == IF Sampled(found) = {} THEN last ELSE HeadOf(found)
            IN  IF LeftRange(r, next) THEN [keys |-> {}, head |-> next]
                ELSE IF Enough(found) THEN [keys |-> Untouched(found), head |-> next]
                ELSE pass[next]
    IN  IF Enough(keys) THEN [keys |-> Untouched(keys), head |-> head] ELSE pass[head]

\* maxKeys and minKeys of the transaction, from what the parent gave and what its own index gives.
\* undefined is neither greater nor less than a number.
ParentExtremes(r, first, asc) ==
    IF Sampled(first) = {} THEN [keys |-> Untouched(first), head |-> NoKey]
    ELSE PassTouched(r, first, HeadOf(first), asc)
Unified(theirs, mine, asc) ==
    LET head == modified[CHOOSE pk \in mine : TRUE][1]
    IN  IF theirs.keys = {} THEN mine
        ELSE IF mine = {} THEN theirs.keys
        ELSE IF theirs.head = NoKey \/ theirs.head = head THEN theirs.keys \cup mine
        ELSE IF (theirs.head < head) = asc THEN theirs.keys ELSE mine
TxIndexExtremes(r, asc) ==
    Unified(ParentExtremes(r, IF truncated THEN {} ELSE IndexExtremes(r, asc), asc), OwnExtremes(r, asc), asc)

-----------------------------------------------------------------------------
(* The transaction's operations.                                           *)

NoTx == /\ modified' = [p \in {} |-> <<>>] /\ removed' = {} /\ truncated' = FALSE
        /\ tree' = NoEntries /\ thrown' = FALSE

Init ==
    /\ kind \in Kinds /\ unique \in BOOLEAN /\ multi \in BOOLEAN
    /\ data = [p \in {} |-> <<>>] /\ index = NoEntries /\ suspect = {}
    /\ modified = [p \in {} |-> <<>>] /\ removed = {} /\ truncated = FALSE
    /\ tree = NoEntries /\ thrown = FALSE

\* Mutant: one holder too many is let through.
AllowedOneMore(sks, max) == unique => \A sk \in ToSet(sks) : TxIndexCount(Only(sk)) <= max + 1

\* checkUniqueConstraint: no secondary key has more than max holders.
Allowed(sks, max) == unique => \A sk \in ToSet(sks) : TxIndexCount(Only(sk)) <= max

\* putSync: the value is set, and then the index may throw.
PutSync(pk, sks) ==
    LET after == MemoryPut(Good(tree), pk, KeysOf(modified, pk), sks, unique, multi)
    IN  /\ modified' = Written(modified, pk, sks) /\ removed' = removed \ {pk}
        /\ tree' = after.ix /\ thrown' = (thrown \/ ~after.ok)
        /\ UNCHANGED <<kind, unique, multi, truncated, store>>

\* put: the key itself must not be in use, not even by the object that is put again.
Put(pk, sks) == Allowed(sks, 0) /\ PutSync(pk, sks)

RemoveSync(pk) ==
    /\ modified' = [p \in DOMAIN modified \ {pk} |-> modified[p]] /\ removed' = removed \cup {pk}
    /\ tree' = MemoryRemove(Good(tree), pk, KeysOf(modified, pk), unique).ix
    /\ UNCHANGED <<kind, unique, multi, truncated, thrown, store>>

TruncateSync ==
    /\ modified' = [p \in {} |-> <<>>] /\ removed' = {} /\ truncated' = TRUE /\ tree' = NoEntries
    /\ UNCHANGED <<kind, unique, multi, thrown, store>>

Abort == NoTx /\ UNCHANGED <<kind, unique, multi, store>>

-----------------------------------------------------------------------------
(* Commit and application.                                                 *)

NewData == [p \in DOMAIN Base(data, SetToSeq(removed), truncated) \cup DOMAIN modified |->
               IF p \in DOMAIN modified THEN modified[p] ELSE data[p]]

Applied(gone, puts) ==
    CASE kind = "memory" -> MemoryApply(index, data, modified, gone, puts, truncated, unique, multi)
      [] kind = "leveldb" -> LevelApply(index, data, modified, gone, puts, truncated, unique, multi)
      [] kind = "lmdb" -> LmdbApply(index, data, modified, gone, puts, truncated, unique, multi)
      [] kind = "indexeddb" -> IdbApply(data, modified, gone, puts, truncated, unique)

\* The objects whose entries an application moves, and those whose entries it counts on.
Moved == {pk \in DOMAIN data : pk \in removed \/ (pk \in DOMAIN modified /\ ~SameKeys(data[pk], modified[pk], multi))}
Taken(pks, objects) == UNION {ToSet(KeysOf(objects, pk)) : pk \in pks}

\* The secondary keys that an application leaves wrong, from what the code does:
\* - LevelDB and LMDB after a truncation: the object keeps its secondary key and is not put again;
\*   in LevelDB also one that is removed for an object that had it before the truncation;
\* - LevelDB: a key twice in one array, whose second removal takes the other objects with it;
\* - LMDB: removals of two objects under one secondary key, of which the last is remembered.
Wrong ==
    CASE kind = "leveldb" /\ truncated ->
            Taken(DOMAIN modified \cap DOMAIN data, data) \cap Taken(DOMAIN modified, modified)
      [] kind = "leveldb" /\ ~truncated ->
            {sk \in SK : \E pk \in Moved : Count(data[pk], sk) > 1}
      [] kind = "lmdb" ->
            IF truncated THEN {sk \in SK : \E pk \in (DOMAIN modified \cap DOMAIN data) \ Moved : sk \in ToSet(data[pk])}
            ELSE IF unique THEN {}
            ELSE {sk \in SK : Cardinality({pk \in Moved : sk \in ToSet(data[pk])}) > 1}
      [] OTHER -> {}

Passes == \A pk \in DOMAIN modified : Allowed(modified[pk], 1)

Orders(S) == {s \in [1..Cardinality(S) -> S] : ToSet(s) = S}

\* If the index throws, the databases have written nothing, but the in-memory backend has stored
\* the objects already.
Apply(after) ==
    IF after.ok
    THEN /\ data' = NewData /\ index' = after.ix
         /\ suspect' = (IF truncated THEN {} ELSE suspect) \cup Wrong
    ELSE IF kind = "memory"
    THEN data' = NewData /\ index' = after.ix /\ suspect' = SK
    ELSE UNCHANGED store

\* _checkConstraints aborts the transaction; else it is applied.
Commit ==
    /\ IF Passes THEN \E gone \in Orders(removed), puts \in Orders(DOMAIN modified) : Apply(Applied(gone, puts))
       ELSE UNCHANGED store
    /\ NoTx
    /\ UNCHANGED <<kind, unique, multi>>

Next ==
    \/ \E pk \in PK, sks \in Objects : Put(pk, sks) \/ PutSync(pk, sks)
    \/ \E pk \in PK : RemoveSync(pk)
    \/ TruncateSync \/ Commit \/ Abort

Spec == Init /\ [][Next]_vars
-----------------------------------------------------------------------------
(* Properties.                                                             *)

\* How often an object with the secondary keys sks is listed under sk: in memory as often as the array
\* holds the key, elsewhere once.
Times(sks, sk) == LET n == Count(sks, sk) IN IF kind = "memory" \/ n = 0 THEN n ELSE 1

\* The transaction's own index lists what it has put and not removed since, as often as the array
\* holds the key, as long as no put has thrown.
OwnIndexMatches ==
    thrown \/ \A sk \in SK :
        /\ InOrder(tree[sk])
        /\ ToSet(tree[sk]) = Holders(modified, sk)
        /\ \A pk \in DOMAIN modified : Count(tree[sk], pk) = Count(modified[pk], sk)

\* The index lists the objects under their secondary keys, in order, after every sequence of
\* transactions, except for the keys that history tells: those of Wrong, and all after a throw in memory;
\* and so does the index of the transaction, in whatever order it put, removed and put again.
IndexMatchesObjects ==
    /\ \A sk \in SK \ suspect :
          /\ InOrder(index[sk])
          /\ ToSet(index[sk]) = Holders(data, sk)
          /\ \A pk \in DOMAIN data : Count(index[sk], pk) = Times(data[pk], sk)
    /\ OwnIndexMatches

\* What the transaction sees under a secondary key.
View(pk) ==
    IF pk \in DOMAIN modified THEN modified[pk]
    ELSE IF truncated \/ pk \in removed THEN <<>> ELSE KeysOf(data, pk)
Seen(sk) == {pk \in PK : sk \in ToSet(View(pk))}

\* A commit whose constraints hold is not refused by the index later, when it has been reported,
\* unless a secondary key passes from one object to another in it or is twice in one array.
ChecksSuffice ==
    LET HandsOver == \E p, q \in DOMAIN modified : /\ p # q /\ q \in DOMAIN data
                                                 /\ ToSet(modified[p]) \cap ToSet(data[q]) # {}
        Doubled   == \E p \in DOMAIN modified : ~IsInjective(modified[p])
    IN  unique /\ suspect = {} /\ ~thrown /\ Passes /\ ~HandsOver /\ ~Doubled =>
            \A gone \in Orders(removed), puts \in Orders(DOMAIN modified) : Applied(gone, puts).ok

Inside(r) == {sk \in SK : Includes(r, sk)}
Extreme(S, asc) == CHOOSE sk \in S : \A k \in S : IF asc THEN sk <= k ELSE sk >= k

\* Where LMDB's scan of the index goes wrong: upwards from an open bound with several entries; downwards
\* from a closed bound that is no key, from an open one if the key it leads to, the next from the bound
\* on, has several entries, and from behind the last key if the range is taken to include null.
LmdbAstray(r, asc) ==
    LET next == {sk \in ToSet(Heads) : sk >= r.upper}
    IN  /\ kind = "lmdb"
        /\ IF asc THEN r.lowerOpen /\ Len(index[r.lower]) > 1
           ELSE /\ r.upper # NoKey
                /\ IF r.upperOpen
                   THEN IF next = {} THEN IncludesNull(r, TRUE) ELSE Len(index[Extreme(next, TRUE)]) > 1
                   ELSE index[r.upper] = <<>>

\* The stream, the keys, the extremes and the count of a range of the index are those of the objects
\* in every backend; where LMDB goes astray it finds nothing, and it counts one secondary key only.
IndexReadsAgree ==
    suspect = {} =>
        \A r \in AllRanges, asc \in BOOLEAN :
            LET sks  == InDirection(Ascending({sk \in Inside(r) : Holders(data, sk) # {}}), asc)
                rows == FlattenSeq([i \in DOMAIN sks |-> InDirection(index[sks[i]], asc)])
            IN  IF LmdbAstray(r, asc) THEN IndexStream(r, asc) = <<>> /\ IndexExtremes(r, asc) = {}
                ELSE /\ IndexStream(r, asc) = rows
                     /\ asc => IndexKeys(r) = ToSet(rows)
                     /\ sks # <<>> => IndexExtremes(r, asc) = Holders(data, sks[1])
                     /\ asc /\ (kind # "lmdb" \/ Len(sks) < 2) => IndexCount(r) \in {Len(rows), Cardinality(ToSet(rows))}

\* The transaction's index gives the objects of its view: all of them, only such within a limit, and
\* those of the extreme key if the range has any.  Excused: a put that threw, LMDB astray (in the passing
\* over, too), LevelDB when the backend's objects in the range are all touched (its {undefined} may
\* win), and the extremes of arrays, which are compared with single keys.
TxIndexReadsAgree ==
    suspect = {} /\ ~thrown =>
        \A r \in AllRanges :
            LET sks == {sk \in Inside(r) : Seen(sk) # {}}
                all == UNION {Seen(sk) : sk \in sks}
                Left == \E pk \in Untouched(DOMAIN data) : ToSet(data[pk]) \cap Inside(r) # {}
                Plain(asc) ==
                    \/ truncated
                    \/ kind = "leveldb" /\ (Left \/ IndexExtremes(r, asc) = {NoKey})
                    \/ kind = "lmdb" /\ ~LmdbAstray(r, asc) /\ \A sk \in SK : Len(index[sk]) < 2
                    \/ kind \in {"memory", "indexeddb"}
            IN  /\ truncated \/ ~LmdbAstray(r, TRUE) =>
                      /\ TxIndexKeys(r) = all
                      /\ \A limit \in 0..2 : /\ LimitedTxIndexKeys(r, limit) \subseteq all
                                            /\ Cardinality(LimitedTxIndexKeys(r, limit)) <= limit
                /\ \A asc \in BOOLEAN : ~multi /\ sks # {} /\ Plain(asc) =>
                      TxIndexExtremes(r, asc) \ {NoKey} = Seen(Extreme(sks, asc))
=============================================================================
