------------------------------- MODULE Reads -------------------------------
(***************************************************************************)
(* Range reads of a backend's table and of a transaction over it, while    *)
(* flushes change the table and calls the transaction: get, keys, values,  *)
(* count, the streams in both directions, and the extreme keys and values. *)
(* The transaction's parent is the backend.                                *)
(***************************************************************************)
EXTENDS BackendReads

CONSTANTS Key,              \* primary keys, positive integers
          SortedAsStrings,  \* the same keys in the order that Array.sort gives them
          Kinds,            \* the backends
          MaxLimit          \* the largest limit tried

ASSUME ReadsAssumption ==
    /\ Key \subseteq Nat \ {0} /\ NoKey \notin Int /\ Null \notin Int /\ Null # NoKey
    /\ SortedAsStrings \in Seq(Key) /\ ToSet(SortedAsStrings) = Key
    /\ Kinds \subseteq {"memory", "leveldb", "lmdb", "indexeddb"} /\ MaxLimit \in Nat

Value == {Falsy, 1}

VARIABLES kind,
          numeric,          \* whether the keys are numbers; else they are strings, in their order
          table,            \* the stored entries
          modified, removed, truncated      \* the transaction over them

vars == <<kind, numeric, table, modified, removed, truncated>>

Stored == DOMAIN table
AllRanges == Ranges(Key)

-----------------------------------------------------------------------------
(* The backend's reads.                                                    *)

BackendGet(k) ==
    CASE kind = "memory" -> MemoryGet(table, k) [] kind = "leveldb" -> LevelGet(table, k)
      [] kind = "indexeddb" -> IdbGet(table, k) [] kind = "lmdb" -> LmdbGet(table, k)
KeyStream(r, asc) ==
    CASE kind = "memory" -> MemoryKeyStream(table, r, asc) [] kind = "leveldb" -> LevelKeyStream(table, r, asc)
      [] kind = "indexeddb" -> IdbKeyStream(table, r, asc) [] kind = "lmdb" -> LmdbKeyStream(table, r, asc, numeric)
ValueStream(r, asc) ==
    CASE kind = "memory" -> MemoryValueStream(table, r, asc) [] kind = "leveldb" -> LevelValueStream(table, r, asc)
      [] kind = "indexeddb" -> IdbValueStream(table, r, asc) [] kind = "lmdb" -> LmdbValueStream(table, r, asc, numeric)
BackendKeys(r, limit) ==
    CASE kind = "memory" -> MemoryKeys(table, r, limit) [] kind = "leveldb" -> LevelKeys(table, r, limit)
      [] kind = "indexeddb" -> IdbKeys(table, r, limit) [] kind = "lmdb" -> LmdbKeys(table, r, limit, numeric)
BackendValues(r, limit) ==
    CASE kind = "memory" -> MemoryValues(table, r, limit) [] kind = "leveldb" -> LevelValues(table, r, limit)
      [] kind = "indexeddb" -> IdbValues(table, r, limit) [] kind = "lmdb" -> LmdbValues(table, r, limit, numeric)
BackendCount(r) ==
    CASE kind = "memory" -> MemoryCount(table, r) [] kind = "leveldb" -> LevelCount(table, r)
      [] kind = "indexeddb" -> IdbCount(table, r) [] kind = "lmdb" -> LmdbCount(table, r, numeric)
MaxKey(r) ==
    CASE kind = "memory" -> MemoryMaxKey(table, r) [] kind = "leveldb" -> LevelMaxKey(table, r)
      [] kind = "indexeddb" -> IdbMaxKey(table, r) [] kind = "lmdb" -> LmdbMaxKey(table, r, numeric)
MinKey(r) ==
    CASE kind = "memory" -> MemoryMinKey(table, r) [] kind = "leveldb" -> LevelMinKey(table, r)
      [] kind = "indexeddb" -> IdbMinKey(table, r) [] kind = "lmdb" -> LmdbMinKey(table, r, numeric)
MaxValue(r) ==
    CASE kind = "memory" -> MemoryMaxValue(table, r) [] kind = "leveldb" -> LevelMaxValue(table, r)
      [] kind = "indexeddb" -> IdbMaxValue(table, r) [] kind = "lmdb" -> LmdbMaxValue(table, r, numeric)
MinValue(r) ==
    CASE kind = "memory" -> MemoryMinValue(table, r) [] kind = "leveldb" -> LevelMinValue(table, r)
      [] kind = "indexeddb" -> IdbMinValue(table, r) [] kind = "lmdb" -> LmdbMinValue(table, r, numeric)

-----------------------------------------------------------------------------
(* The transaction's reads.                                                *)

Get(key) ==
    IF key \in removed THEN NoKey
    ELSE IF key \in DOMAIN modified THEN modified[key]
    ELSE IF truncated THEN NoKey
    ELSE BackendGet(key)

Included(r, keys) == {k \in keys : Includes(r, k)}

\* The parent's keys first, then what was put here.
TxKeys(r) ==
    ((IF truncated THEN {} ELSE ToSet(BackendKeys(r, NoLimit))) \ removed) \cup Included(r, DOMAIN modified)
TxValues(r) == [k \in TxKeys(r) |-> Get(k)]
TxCount(r) == Cardinality(TxKeys(r))

\* Array.sort compares as strings, whatever the keys are.
Sorted(keys) ==
    IF numeric THEN SelectSeq(SortedAsStrings, LAMBDA k : k \in keys) ELSE Ascending(keys)
Own(r, asc) == InDirection(Sorted(Included(r, DOMAIN modified)), asc)

Before(l, k, asc) == IF asc THEN l < k ELSE l > k

\* The own keys that go before the parent's key k, and the rest.
Passed(mine, k, asc) ==
    LET first == SelectInSeq(mine, LAMBDA l : ~Before(l, k, asc))
    IN  IF first = 0 THEN mine ELSE SubSeq(mine, 1, first - 1)
Left(mine, k, asc) == SubSeq(mine, Len(Passed(mine, k, asc)) + 1, Len(mine))

\* Mutant: a key of the transaction that the parent has too is given twice.
MergeStepTwice(s, k, asc) ==
    [out  |-> s.out \o Passed(s.mine, k, asc) \o IF k \in removed THEN <<>> ELSE <<k>>,
     mine |-> Left(s.mine, k, asc)]

\* The callback on the parent's stream: own keys go before the parent's greater ones.
MergeStep(s, k, asc) ==
    LET rest == Left(s.mine, k, asc)
        same == rest # <<>> /\ Head(rest) = k
    IN  [out  |-> s.out \o Passed(s.mine, k, asc) \o IF k \in removed /\ ~same THEN <<>> ELSE <<k>>,
         mine |-> IF same THEN Tail(rest) ELSE rest]

MergeStreams(mine, theirs, asc) ==
    LET end == FoldLeft(LAMBDA s, k : MergeStep(s, k, asc), [out |-> <<>>, mine |-> mine], theirs)
    IN  end.out \o end.mine

TxKeyStream(r, asc) == MergeStreams(Own(r, asc), IF truncated THEN <<>> ELSE KeyStream(r, asc), asc)

\* The transaction's value where it has one, else the one that the parent's stream gave.
WithValues(ks, theirs) ==
    LET Theirs(k) == (CHOOSE pair \in ToSet(theirs) : pair[2] = k)[1]
    IN  [i \in DOMAIN ks |-> <<IF ks[i] \in DOMAIN modified THEN modified[ks[i]] ELSE Theirs(ks[i]), ks[i]>>]
TxValueStream(r, asc) ==
    LET theirs == IF truncated THEN <<>> ELSE ValueStream(r, asc)
    IN  WithValues(MergeStreams(Own(r, asc), [i \in DOMAIN theirs |-> theirs[i][2]], asc), theirs)

\* query !== null && !query.includes(key)
LeftRange(r, key) ==
    /\ r # Everything
    /\ IF key = NoKey THEN TRUE ELSE IF key = Null THEN ~IncludesNull(r, numeric) ELSE ~Includes(r, key)

InRange(r, key) == IF LeftRange(r, key) THEN NoKey ELSE key

\* Mutant: only one removed key is passed over.
NextMaxOnce(r, k) == IF k \in removed THEN InRange(r, MaxKey(UpperBound(k, TRUE))) ELSE k

\* Past the parent's extreme keys as long as they are removed here.
NextMax(r, k) ==
    LET Kept[l \in Key \cup {NoKey, Null}] ==
            IF l \in removed THEN Kept[InRange(r, MaxKey(UpperBound(l, TRUE)))] ELSE l
    IN  Kept[k]
NextMin(r, k) ==
    LET Kept[l \in Key \cup {NoKey, Null}] ==
            IF l \in removed THEN Kept[InRange(r, MinKey(LowerBound(l, TRUE)))] ELSE l
    IN  Kept[k]

\* The transaction's keys against the parent's extreme key k.  A number is greater than null;
\* otherwise nothing is greater or less than null.
MaxWithOwn(r, k) ==
    LET mine == {key \in Included(r, DOMAIN modified) :
                    IF k = NoKey THEN TRUE ELSE IF k = Null THEN numeric ELSE key > k}
    IN  IF mine = {} THEN k ELSE CHOOSE key \in mine : \A l \in mine : l <= key
MinWithOwn(r, k) ==
    LET mine == {key \in Included(r, DOMAIN modified) :
                    IF k = NoKey THEN TRUE ELSE IF k = Null THEN FALSE ELSE key < k}
    IN  IF mine = {} THEN k ELSE CHOOSE key \in mine : \A l \in mine : l >= key
TxMaxKey(r) == MaxWithOwn(r, IF truncated THEN NoKey ELSE NextMax(r, MaxKey(r)))
TxMinKey(r) == MinWithOwn(r, IF truncated THEN NoKey ELSE NextMin(r, MinKey(r)))
TxMaxValue(r) == Get(TxMaxKey(r))
TxMinValue(r) == Get(TxMinKey(r))

-----------------------------------------------------------------------------
(* The store changes under a flush, the transaction by its own calls.      *)

Init ==
    /\ kind \in Kinds /\ numeric \in BOOLEAN
    /\ table = <<>> /\ modified = <<>> /\ removed = {} /\ truncated = FALSE

Extended(f, key, v) == [k \in DOMAIN f \cup {key} |-> IF k = key THEN v ELSE f[k]]
Without(f, key) == [k \in DOMAIN f \ {key} |-> f[k]]

StorePut(key, v) == table' = Extended(table, key, v) /\ UNCHANGED <<kind, numeric, modified, removed, truncated>>
StoreRemove(key) == table' = Without(table, key) /\ UNCHANGED <<kind, numeric, modified, removed, truncated>>

TxPut(key, v) ==
    /\ modified' = Extended(modified, key, v) /\ removed' = removed \ {key}
    /\ UNCHANGED <<kind, numeric, table, truncated>>
TxRemove(key) ==
    /\ modified' = Without(modified, key) /\ removed' = removed \cup {key}
    /\ UNCHANGED <<kind, numeric, table, truncated>>
TxTruncate ==
    /\ truncated' = TRUE /\ modified' = <<>> /\ removed' = {}
    /\ UNCHANGED <<kind, numeric, table>>

Next ==
    \/ \E key \in Key, v \in Value : StorePut(key, v)
    \/ \E key \in Key : StoreRemove(key) \/ TxRemove(key) \/ TxPut(key, 1)
    \/ TxTruncate

Spec == Init /\ [][Next]_vars

-----------------------------------------------------------------------------
(* Properties.                                                             *)

Contents == {k \in Key : Get(k) # NoKey}
InOrder(r, keys, asc) == InDirection(Ascending(Included(r, keys)), asc)

\* Where LMDB's stream goes wrong: an exact match with a falsy value, and downwards from a bound
\* that is closed and no key, or lies behind the last one and is taken to include null.
LmdbAstray(r, asc) ==
    /\ kind = "lmdb"
    /\ IF ExactMatch(r) THEN r.lower \in Stored /\ table[r.lower] = Falsy
       ELSE /\ ~asc /\ r.upper # NoKey /\ r.upper \notin Stored
            /\ ~r.upperOpen \/ (IncludesNull(r, numeric) /\ \A k \in Stored : k < r.upper)

Limits == {NoLimit} \cup 0..MaxLimit

\* In every backend a stream visits the keys of the range in order with their values, and keys,
\* values and count agree with it at any limit.  LMDB alone may miss keys, in the cases named, and
\* then finds none.
ScansAgree ==
    \A r \in AllRanges :
        /\ \A asc \in BOOLEAN :
              LET ref == IF LmdbAstray(r, asc) THEN <<>> ELSE InOrder(r, Stored, asc)
              IN  KeyStream(r, asc) = ref /\ ValueStream(r, asc) = Paired(table, ref)
        /\ LET ref == IF LmdbAstray(r, TRUE) THEN <<>> ELSE InOrder(r, Stored, TRUE)
           IN  \A limit \in Limits : /\ BackendKeys(r, limit) = Limited(ref, limit)
                                     /\ BackendValues(r, limit) = Valued(table, Limited(ref, limit))
        /\ BackendCount(r) = Cardinality(Included(r, Stored)) \/ LmdbAstray(r, TRUE)

\* The extreme keys and values are those of the range in every backend if it has any and LMDB finds
\* them; if it has none, only the in-memory backend may give a key, on the far side of the other bound.
ExtremesAgree ==
    \A r \in AllRanges :
        LET Sound(max, key, value) ==
                LET ref == InOrder(r, Stored, ~max)
                IN  /\ ref # <<>> /\ ~LmdbAstray(r, ~max) => key = Head(ref) /\ value = table[Head(ref)]
                    /\ ref = <<>> /\ kind # "memory" => key \in {NoKey, Null} /\ value \in {NoKey, Null}
        IN  Sound(TRUE, MaxKey(r), MaxValue(r)) /\ Sound(FALSE, MinKey(r), MinValue(r))

\* All reads of a backend agree with its table (looked at without a transaction, on which they do
\* not depend).
ReadsAgree == modified = <<>> /\ removed = {} /\ ~truncated => ScansAgree /\ ExtremesAgree

\* A transaction's streams give the keys of its view in order, and keys, values and count agree with
\* get, unless LMDB's stream below goes astray, or two numbers were put that sort otherwise as strings.
TxScansAgree ==
    \A r \in AllRanges :
        /\ truncated \/ ~LmdbAstray(r, TRUE) =>
              TxKeys(r) = Included(r, Contents) /\ TxCount(r) = Cardinality(Included(r, Contents))
        /\ \A k \in TxKeys(r) : TxValues(r)[k] # NoKey
        /\ \A asc \in BOOLEAN :
              LET ref == InOrder(r, Contents, asc)
              IN  (truncated \/ ~LmdbAstray(r, asc)) /\ Own(r, asc) = InOrder(r, DOMAIN modified, asc) =>
                      /\ TxKeyStream(r, asc) = ref
                      /\ TxValueStream(r, asc) = [i \in DOMAIN ref |-> <<Get(ref[i]), ref[i]>>]

\* A transaction's extreme keys and values are those of its view if that has any in the range.  Over
\* LMDB one of the parent's keys must be left in the range, or the parent's null may stand.
TxExtremesAgree ==
    \A r \in AllRanges :
        LET Sound(max, key, value) ==
                LET ref == InOrder(r, Contents, ~max)
                IN  ref # <<>> => key = Head(ref) /\ value = Get(Head(ref))
            Usable(asc) == \/ truncated \/ kind # "lmdb"
                           \/ ~LmdbAstray(r, asc) /\ Included(r, Stored \ removed) # {}
        IN  /\ Usable(FALSE) => Sound(TRUE, TxMaxKey(r), TxMaxValue(r))
            /\ Usable(TRUE) => Sound(FALSE, TxMinKey(r), TxMinValue(r))

\* All reads of a transaction agree with what get gives.
TxReadsAgree == TxScansAgree /\ TxExtremesAgree
=============================================================================
