---------------------------- MODULE BackendReads ----------------------------
(***************************************************************************)
(* The read operations of the four backends on a table T (a function from  *)
(* the stored keys to their values): what each returns, or, for a stream,  *)
(* what it hands to its callback, in order.  A stream that its callback    *)
(* stops is a prefix of the stream that runs to the end, which is the one  *)
(* modelled.  Decoding is the codec's business and left out.               *)
(***************************************************************************)
EXTENDS Scan

CONSTANT Null               \* null, which some reads give for undefined

Falsy == 0                  \* a stored value that is 0, '' or false

Visited(T, scan) == LET ks == Ascending(DOMAIN T) IN [i \in DOMAIN scan |-> ks[scan[i]]]
At(T, k) == IF k \in DOMAIN T THEN T[k] ELSE NoKey
Valued(T, ks) == [i \in DOMAIN ks |-> T[ks[i]]]
Paired(T, ks) == [i \in DOMAIN ks |-> <<T[ks[i]], ks[i]>>]
First(s, none) == IF s = <<>> THEN none ELSE Head(s)

-----------------------------------------------------------------------------
(* InMemoryBackend, over its primary index.                                *)

MemoryGet(T, k) == At(T, k)
MemoryKeyStream(T, r, asc) == Visited(T, MemoryScan(Ascending(DOMAIN T), r, asc))
MemoryValueStream(T, r, asc) == Paired(T, MemoryKeyStream(T, r, asc))
MemoryKeys(T, r, limit) ==
    Limited(IF ExactMatch(r) THEN IF r.lower \in DOMAIN T THEN <<r.lower>> ELSE <<>>
            ELSE MemoryKeyStream(T, r, TRUE), limit)
MemoryValues(T, r, limit) == Valued(T, MemoryKeys(T, r, limit))

\* Mutant: the open bound is taken in.
MemoryMaxKeyClosed(T, r) ==
    LET ks == Ascending(DOMAIN T) i == MemoryStart(ks, [r EXCEPT !.upperOpen = FALSE], FALSE)
    IN  IF i = 0 THEN NoKey ELSE ks[i]

\* The cursor goes to the one bound, and nothing looks at the other.
MemoryMaxKey(T, r) ==
    LET ks == Ascending(DOMAIN T) i == MemoryStart(ks, r, FALSE) IN IF i = 0 THEN NoKey ELSE ks[i]
MemoryMinKey(T, r) ==
    LET ks == Ascending(DOMAIN T) i == MemoryStart(ks, r, TRUE) IN IF i = 0 THEN NoKey ELSE ks[i]
MemoryMaxValue(T, r) == At(T, MemoryMaxKey(T, r))
MemoryMinValue(T, r) == At(T, MemoryMinKey(T, r))
MemoryCount(T, r) == Len(MemoryKeys(T, r, NoLimit))

-----------------------------------------------------------------------------
(* LevelDBBackend.                                                         *)

LevelGet(T, k) == At(T, k)
LevelRead(T, r, asc, limit) == Limited(Visited(T, LevelScan(Ascending(DOMAIN T), r, asc)), limit)
LevelKeyStream(T, r, asc) == LevelRead(T, r, asc, NoLimit)
LevelValueStream(T, r, asc) == Paired(T, LevelRead(T, r, asc, NoLimit))
LevelKeys(T, r, limit) == LevelRead(T, r, TRUE, limit)
LevelValues(T, r, limit) == Valued(T, LevelRead(T, r, TRUE, limit))
LevelMaxKey(T, r) == First(LevelRead(T, r, FALSE, 1), NoKey)
LevelMinKey(T, r) == First(LevelRead(T, r, TRUE, 1), NoKey)
LevelMaxValue(T, r) == First(Valued(T, LevelRead(T, r, FALSE, 1)), NoKey)
LevelMinValue(T, r) == First(Valued(T, LevelRead(T, r, TRUE, 1)), NoKey)
LevelCount(T, r) == Len(LevelKeys(T, r, NoLimit))

-----------------------------------------------------------------------------
(* IDBBackend.                                                             *)

IdbGet(T, k) == At(T, k)
IdbKeyStream(T, r, asc) == Visited(T, IdbScan(Ascending(DOMAIN T), r, asc))
IdbValueStream(T, r, asc) == Paired(T, Visited(T, IdbScan(Ascending(DOMAIN T), r, asc)))
IdbKeys(T, r, limit) == Limited(Visited(T, IdbScan(Ascending(DOMAIN T), r, TRUE)), limit)
IdbValues(T, r, limit) == Limited(Valued(T, Visited(T, IdbScan(Ascending(DOMAIN T), r, TRUE))), limit)
IdbMaxKey(T, r) == First(IdbKeyStream(T, r, FALSE), NoKey)
IdbMinKey(T, r) == First(IdbKeyStream(T, r, TRUE), NoKey)
IdbMaxValue(T, r) == First(Valued(T, IdbKeyStream(T, r, FALSE)), NoKey)
IdbMinValue(T, r) == First(Valued(T, IdbKeyStream(T, r, TRUE)), NoKey)
IdbCount(T, r) == Cardinality({k \in DOMAIN T : Includes(IdbRange(r), k)})

-----------------------------------------------------------------------------
(* LMDBBackend.  numeric: the keys are numbers.                            *)

LmdbGet(T, k) == At(T, k)

\* _readStream: an exact match is looked up, and a falsy value taken for none.
LmdbRead(T, r, asc, numeric) ==
    IF ExactMatch(r) THEN IF At(T, r.lower) \notin {NoKey, Falsy} THEN <<r.lower>> ELSE <<>>
    ELSE Visited(T, LmdbScan(Ascending(DOMAIN T), r, asc, numeric))

LmdbKeyStream(T, r, asc, numeric) == LmdbRead(T, r, asc, numeric)
LmdbValueStream(T, r, asc, numeric) == Paired(T, LmdbRead(T, r, asc, numeric))
LmdbKeys(T, r, limit, numeric) == Limited(LmdbRead(T, r, TRUE, numeric), limit)
LmdbValues(T, r, limit, numeric) == Limited(Valued(T, LmdbRead(T, r, TRUE, numeric)), limit)
LmdbMaxKey(T, r, numeric) == First(LmdbRead(T, r, FALSE, numeric), Null)
LmdbMinKey(T, r, numeric) == First(LmdbRead(T, r, TRUE, numeric), Null)
LmdbMaxValue(T, r, numeric) == First(Valued(T, LmdbRead(T, r, FALSE, numeric)), Null)
LmdbMinValue(T, r, numeric) == First(Valued(T, LmdbRead(T, r, TRUE, numeric)), Null)
LmdbCount(T, r, numeric) == Len(LmdbRead(T, r, TRUE, numeric))
=============================================================================
