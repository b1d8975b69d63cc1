-------------------------------- MODULE Scan --------------------------------
(***************************************************************************)
(* How the four backends walk over a range of a sorted table: the sorted   *)
(* keys of the table are a sequence, with a key repeated where a table     *)
(* holds several entries for it (the indices of LMDB and IndexedDB), and a *)
(* scan is the sequence of the positions it visits, in order.              *)
(*                                                                         *)
(* The read streams of LevelDB, the key ranges of IndexedDB and the cursor *)
(* moves of LMDB are external; they are taken to do what their names say.  *)
(***************************************************************************)
EXTENDS KeyRange, Sequences, FiniteSets, SequencesExt

NoLimit == -1
Limited(s, limit) == IF limit = NoLimit \/ limit >= Len(s) THEN s ELSE SubSeq(s, 1, limit)

Ascending(S) == [i \in 1..Cardinality(S) |-> CHOOSE k \in S : Cardinality({l \in S : l <= k}) = i]
InDirection(s, asc) == IF asc THEN s ELSE Reverse(s)

\* The positions from i on, in one direction, as long as the range includes their keys.
Walk(keys, i, asc, r) ==
    LET Stop(j) == j \notin DOMAIN keys \/ ~Includes(r, keys[j])
        step == IF asc THEN 1 ELSE -1
        n == CHOOSE m \in 0..Len(keys) :
                /\ Stop(i + step * m)
                /\ \A l \in 0..(m - 1) : ~Stop(i + step * l)
    IN  [m \in 1..n |-> i + step * (m - 1)]

-----------------------------------------------------------------------------
(* InMemoryIndex: the B+ tree's cursor goes to the bound and walks on.     *)

MemoryStart(keys, r, asc) ==
    IF asc THEN SelectInSeq(keys, LAMBDA k : AboveLower(r, k))
    ELSE SelectLastInSeq(keys, LAMBDA k : BelowUpper(r, k))

From(keys, i, asc, r) == IF i \in DOMAIN keys THEN Walk(keys, i, asc, r) ELSE <<>>

MemoryScan(keys, r, asc) == From(keys, MemoryStart(keys, r, asc), asc, r)

-----------------------------------------------------------------------------
(* LMDBBaseBackend._readStream, beside its shortcut for exact matches.     *)

\* Where goToRange leads for the bound, and goToLastDup before a descending walk: to the first key
\* not below it, or past the end (0 for an ascending walk, which ends there).
LmdbBound(keys, bound, asc) ==
    LET first == SelectInSeq(keys, LAMBDA k : k >= bound)
    IN  IF asc THEN first
        ELSE IF first = 0 THEN Len(keys) + 1
        ELSE SelectLastInSeq(keys, LAMBDA k : k = keys[first])

\* One step on if the bound is open and has not been met.  Past the end the current key is null;
\* stepping back from there leads to the last entry.
LmdbStepped(keys, at, r, asc, numeric) ==
    LET met == IF at > Len(keys) THEN IncludesNull(r, numeric) ELSE Includes(r, keys[at])
    IN  IF asc /\ at = 0 THEN 0
        ELSE IF ~met /\ asc /\ r.lowerOpen THEN at + 1
        ELSE IF ~met /\ ~asc /\ r.upperOpen THEN at - 1
        ELSE at

LmdbStart(keys, r, asc, numeric) ==
    LET bound == IF asc THEN r.lower ELSE r.upper
    IN  IF bound = NoKey THEN IF asc THEN 1 ELSE Len(keys)
        ELSE LmdbStepped(keys, LmdbBound(keys, bound, asc), r, asc, numeric)

LmdbScan(keys, r, asc, numeric) == From(keys, LmdbStart(keys, r, asc, numeric), asc, r)

-----------------------------------------------------------------------------
(* LevelDB and IndexedDB: the range is converted and the database walks.   *)

\* LevelDBTools.convertKeyRange
LevelOptions(r) ==
    [gt  |-> IF r.lowerOpen THEN r.lower ELSE NoKey,
     gte |-> IF r.lowerOpen THEN NoKey ELSE r.lower,
     lt  |-> IF r.upperOpen THEN r.upper ELSE NoKey,
     lte |-> IF r.upperOpen THEN NoKey ELSE r.upper]

\* createReadStream
LevelScan(keys, r, asc) ==
    LET o == LevelOptions(r)
        Within(k) == /\ o.gt = NoKey \/ k > o.gt
                     /\ o.gte = NoKey \/ k >= o.gte
                     /\ o.lt = NoKey \/ k < o.lt
                     /\ o.lte = NoKey \/ k <= o.lte
    IN  InDirection(Ascending({i \in DOMAIN keys : Within(keys[i])}), asc)

\* Mutant: what is left open in one bound is left open in the other.
IdbRangeMixed(r) ==
    IF ExactMatch(r) THEN Only(r.lower)
    ELSE IF r.lower # NoKey /\ r.upper = NoKey THEN LowerBound(r.lower, r.lowerOpen)
    ELSE IF r.upper # NoKey /\ r.lower = NoKey THEN UpperBound(r.upper, r.upperOpen)
    ELSE Bound(r.lower, r.upper, r.upperOpen, r.lowerOpen)

\* IDBTools.convertKeyRange
IdbRange(r) ==
    IF ExactMatch(r) THEN Only(r.lower)
    ELSE IF r.lower # NoKey /\ r.upper = NoKey THEN LowerBound(r.lower, r.lowerOpen)
    ELSE IF r.upper # NoKey /\ r.lower = NoKey THEN UpperBound(r.upper, r.upperOpen)
    ELSE Bound(r.lower, r.upper, r.lowerOpen, r.upperOpen)

\* openCursor
IdbScan(keys, r, asc) ==
    InDirection(Ascending({i \in DOMAIN keys : Includes(IdbRange(r), keys[i])}), asc)
=============================================================================
