---------------------------- MODULE ReadsProofs ----------------------------
(***************************************************************************)
(* The reads of the four backends and of a transaction over them are       *)
(* right, for every set of keys, every table and every transaction.        *)
(***************************************************************************)
EXTENDS Reads, SequenceLemmas

-----------------------------------------------------------------------------
(* States.                                                                 *)

\* The store and the transaction; a key that the transaction has put is not one that it has removed.
TypeOK ==
    /\ kind \in {"memory", "leveldb", "lmdb", "indexeddb"} /\ numeric \in BOOLEAN
    /\ DOMAIN table \in SUBSET Key /\ \A k \in DOMAIN table : table[k] \in Value
    /\ DOMAIN modified \in SUBSET Key /\ \A k \in DOMAIN modified : modified[k] \in Value
    /\ removed \in SUBSET Key /\ removed \cap DOMAIN modified = {} /\ truncated \in BOOLEAN

LEMMA ReadsTypeCorrect == Spec => []TypeOK
<1>1. Init => TypeOK
  <2>1. DOMAIN <<>> = {}
    OBVIOUS
  <2> QED BY <2>1, ReadsAssumption DEF Init, TypeOK
<1>2. ASSUME TypeOK, [Next]_vars PROVE TypeOK'
  <2> USE DEF TypeOK
  <2>1. ASSUME NEW key \in Key, NEW v \in Value, StorePut(key, v) PROVE TypeOK'
    BY <1>2, <2>1 DEF StorePut, Extended
  <2>2. ASSUME NEW key \in Key, StoreRemove(key) PROVE TypeOK'
    BY <1>2, <2>2 DEF StoreRemove, Without
  <2>3. ASSUME NEW key \in Key, TxRemove(key) PROVE TypeOK'
    BY <1>2, <2>3 DEF TxRemove, Without
  <2>4. ASSUME NEW key \in Key, TxPut(key, 1) PROVE TypeOK'
    BY <1>2, <2>4 DEF TxPut, Extended, Value
  <2>5. CASE TxTruncate
    BY <1>2, <2>5 DEF TxTruncate
  <2>6. CASE UNCHANGED vars
    BY <1>2, <2>6 DEF vars
  <2> QED BY <1>2, <2>1, <2>2, <2>3, <2>4, <2>5, <2>6 DEF Next
<1> QED BY <1>1, <1>2, PTL DEF Spec

LEMMA KeysAreIntegers ==
    /\ Key \in SUBSET Int /\ IsFiniteSet(Key) /\ NoKey \notin Int /\ Null \notin Int /\ Null # NoKey
    /\ NoKey \notin Key /\ Null \notin Key
    /\ \A D \in SUBSET Key : D \in SUBSET Int /\ IsFiniteSet(D)
<1>1. Key \in SUBSET Int /\ NoKey \notin Int /\ Null \notin Int /\ Null # NoKey
  BY ReadsAssumption
<1>2. IsFiniteSet(Key)
  <2>1. SortedAsStrings \in Seq(Key) /\ ToSet(SortedAsStrings) = Key
    BY ReadsAssumption
  <2>2. Len(SortedAsStrings) \in Nat /\ DOMAIN SortedAsStrings = 1..Len(SortedAsStrings)
    BY <2>1
  <2>3. Key = {SortedAsStrings[i] : i \in 1..Len(SortedAsStrings)}
    BY <2>1, <2>2 DEF ToSet
  <2>4. IsFiniteSet(1..Len(SortedAsStrings))
    BY <2>2, FS_Interval
  <2> DEFINE f == SortedAsStrings
             I == 1..Len(f)
  <2>5. IsFiniteSet({f[i] : i \in I})
    <3>1. f \in [I -> Key] /\ f \in Surjection(I, Key)
      BY <2>1, <2>2, <2>3 DEF Surjection
    <3> HIDE DEF f, I
    <3> QED BY <2>3, <2>4, <3>1, FS_Surjection DEF f, I
  <2> QED BY <2>3, <2>5
<1>3. \A D \in SUBSET Key : D \in SUBSET Int /\ IsFiniteSet(D)
  BY <1>1, <1>2, FS_Subset
<1> QED BY <1>1, <1>2, <1>3

-----------------------------------------------------------------------------
(* Keys listed in order.                                                   *)

LEMMA IncludedFacts ==
    ASSUME NEW r, NEW D \in SUBSET Key
    PROVE  /\ Included(r, D) \in SUBSET D /\ Included(r, D) \in SUBSET Int /\ IsFiniteSet(Included(r, D))
           /\ Included(r, D) \in SUBSET Key
<1>1. Included(r, D) \in SUBSET D /\ Included(r, D) \in SUBSET Key
  BY DEF Included
<1> QED BY <1>1, KeysAreIntegers

LEMMA InOrderFacts ==
    ASSUME NEW r, NEW D \in SUBSET Key, NEW asc \in BOOLEAN
    PROVE  /\ InOrder(r, D, asc) \in Seq(D) /\ InOrder(r, D, asc) \in Seq(Int)
           /\ ToSet(InOrder(r, D, asc)) = Included(r, D) /\ Rising(InOrder(r, D, asc), Follows(asc))
           /\ Len(InOrder(r, D, asc)) = Cardinality(Included(r, D))
           /\ InOrder(r, D, asc) = <<>> <=> Included(r, D) = {}
<1> DEFINE S == Included(r, D)
           s == InOrder(r, D, asc)
<1>1. S \in SUBSET D /\ S \in SUBSET Int /\ IsFiniteSet(S)
  BY IncludedFacts
<1>2. s = InDirection(Ascending(S), asc)
  BY DEF InOrder
<1> HIDE DEF S, s
<1>3. s \in Seq(S) /\ ToSet(s) = S /\ Rising(s, Follows(asc))
  BY <1>1, <1>2, DirectedFacts
<1>4. s \in Seq(D) /\ s \in Seq(Int)
  BY <1>1, <1>3, SeqMonotonic
<1>5. Len(s) = Cardinality(S)
  <2>1. Ascending(S) \in Seq(S) /\ Len(Ascending(S)) = Cardinality(S)
    BY <1>1, AscendingFacts
  <2>2. Len(Reverse(Ascending(S))) = Len(Ascending(S))
    BY <2>1, ReverseFacts
  <2> QED BY <1>2, <2>1, <2>2 DEF InDirection
<1>6. s = <<>> <=> S = {}
  BY <1>3 DEF ToSet
<1> QED BY <1>3, <1>4, <1>5, <1>6 DEF S, s

\* A strictly ordered list of the keys in the range is that list.
LEMMA InOrderIsUnique ==
    ASSUME NEW r, NEW D \in SUBSET Key, NEW asc \in BOOLEAN, NEW s \in Seq(Int),
           Rising(s, Follows(asc)), ToSet(s) = Included(r, D)
    PROVE  s = InOrder(r, D, asc)
<1> DEFINE S == Included(r, D)
<1>1. S \in SUBSET Int /\ IsFiniteSet(S)
  BY IncludedFacts
<1> HIDE DEF S
<1>2. s = InDirection(Ascending(S), asc)
  BY <1>1, DirectedIsUnique DEF S
<1> QED BY <1>2 DEF InOrder, S

\* Its head is the extreme key.
LEMMA HeadIsExtreme ==
    ASSUME NEW r, NEW D \in SUBSET Key, NEW asc \in BOOLEAN
    PROVE  /\ Included(r, D) # {} =>
                /\ Head(InOrder(r, D, asc)) \in Included(r, D)
                /\ \A l \in Included(r, D) : IF asc THEN Head(InOrder(r, D, asc)) <= l
                                                    ELSE Head(InOrder(r, D, asc)) >= l
           /\ \A k \in Included(r, D) :
                (\A l \in Included(r, D) : IF asc THEN k <= l ELSE k >= l) => k = Head(InOrder(r, D, asc))
<1> DEFINE S == Included(r, D)
           s == InOrder(r, D, asc)
<1>1. s \in Seq(Int) /\ ToSet(s) = S /\ Rising(s, Follows(asc)) /\ (s = <<>> <=> S = {}) /\ S \in SUBSET Int
  BY InOrderFacts, IncludedFacts
<1> SUFFICES ASSUME S # {}
             PROVE  /\ Head(s) \in S
                    /\ \A l \in S : IF asc THEN Head(s) <= l ELSE Head(s) >= l
                    /\ \A k \in S : (\A l \in S : IF asc THEN k <= l ELSE k >= l) => k = Head(s)
  OBVIOUS
<1> HIDE DEF S, s
<1>2. Len(s) \in Nat /\ DOMAIN s = 1..Len(s) /\ 1 \in 1..Len(s) /\ Head(s) = s[1]
  <2>1. s \in Seq(Int) /\ s # <<>>
    BY <1>1
  <2>2. Len(s) \in Nat /\ DOMAIN s = 1..Len(s) /\ Len(s) # 0 /\ Head(s) = s[1]
    BY <2>1
  <2> QED BY <2>2
<1>3. Head(s) \in S /\ Head(s) \in Int
  BY <1>1, <1>2 DEF ToSet
<1>4. ASSUME NEW l \in S PROVE IF asc THEN Head(s) <= l ELSE Head(s) >= l
  <2>1. PICK i \in 1..Len(s) : s[i] = l
    BY <1>1, <1>2 DEF ToSet
  <2>2. l \in Int
    BY <1>1
  <2>3. CASE i = 1
    BY <1>2, <1>3, <2>1, <2>3
  <2>4. CASE 1 < i
    <3>1. <<s[1], s[i]>> \in Follows(asc)
      BY <1>1, <1>2, <2>4 DEF Rising
    <3> QED BY <1>2, <1>3, <2>1, <2>2, <3>1, FollowsFacts
  <2> QED BY <1>2, <2>3, <2>4
<1>5. ASSUME NEW k \in S, \A l \in S : IF asc THEN k <= l ELSE k >= l PROVE k = Head(s)
  <2>1. IF asc THEN k <= Head(s) ELSE k >= Head(s)
    BY <1>3, <1>5
  <2>2. IF asc THEN Head(s) <= k ELSE Head(s) >= k
    BY <1>4
  <2>3. k \in Int
    BY <1>1
  <2> QED BY <1>3, <2>1, <2>2, <2>3
<1> QED BY <1>3, <1>4, <1>5

\* The sorted keys of the table.
LEMMA SortedKeys ==
    ASSUME NEW D \in SUBSET Key
    PROVE  /\ Ascending(D) \in Seq(D) /\ Ascending(D) \in Seq(Int) /\ ToSet(Ascending(D)) = D
           /\ Nondecreasing(Ascending(D))
           /\ \A i, j \in DOMAIN Ascending(D) : i < j <=> Ascending(D)[i] < Ascending(D)[j]
<1> DEFINE ks == Ascending(D)
<1>1. D \in SUBSET Int /\ IsFiniteSet(D)
  BY KeysAreIntegers
<1>2. /\ ks \in Seq(D) /\ DOMAIN ks = 1..Cardinality(D) /\ ToSet(ks) = D
      /\ \A i, j \in 1..Cardinality(D) : i < j <=> ks[i] < ks[j]
  BY <1>1, AscendingFacts
<1> HIDE DEF ks
<1>3. ks \in Seq(Int)
  BY <1>1, <1>2, SeqMonotonic
<1>4. Nondecreasing(ks)
  <2>1. \A i \in DOMAIN ks : ks[i] \in Int
    BY <1>3
  <2> QED BY <1>2, <2>1 DEF Nondecreasing
<1> QED BY <1>2, <1>3, <1>4 DEF ks

\* The keys at the positions that a scan visits are those of the range, in order.
LEMMA VisitedInOrder ==
    ASSUME NEW T, DOMAIN T \in SUBSET Key, NEW r, NEW asc \in BOOLEAN
    PROVE  Visited(T, InDirection(Ascending(Within(Ascending(DOMAIN T), r)), asc)) = InOrder(r, DOMAIN T, asc)
<1> DEFINE D == DOMAIN T
           ks == Ascending(D)
           W == Within(ks, r)
           scan == InDirection(Ascending(W), asc)
           s == Visited(T, scan)
<1>1. /\ ks \in Seq(D) /\ ks \in Seq(Int) /\ ToSet(ks) = D
      /\ \A i, j \in DOMAIN ks : i < j <=> ks[i] < ks[j]
  BY SortedKeys
<1>2. s = [i \in DOMAIN scan |-> ks[scan[i]]]
  BY DEF Visited
<1> HIDE DEF D, ks
<1>3. /\ W \in SUBSET (1..Len(ks)) /\ W \in SUBSET Int /\ IsFiniteSet(W) /\ Len(ks) \in Nat
      /\ DOMAIN ks = 1..Len(ks) /\ \A i \in 1..Len(ks) : ks[i] \in Int
  BY <1>1, WithinFacts
<1>4. \A i \in 1..Len(ks) : i \in W <=> Includes(r, ks[i])
  BY <1>3 DEF Within
<1> HIDE DEF W
<1>5. scan \in Seq(W) /\ ToSet(scan) = W /\ Rising(scan, Follows(asc))
  BY <1>3, DirectedFacts
<1> HIDE DEF scan, s
<1>6. Len(scan) \in Nat /\ DOMAIN scan = 1..Len(scan) /\ \A i \in 1..Len(scan) : scan[i] \in W
  BY <1>5
<1>7. s \in Seq(Int) /\ DOMAIN s = 1..Len(scan)
  <2>1. \A i \in 1..Len(scan) : ks[scan[i]] \in Int
    BY <1>3, <1>6
  <2> QED BY <1>2, <1>6, <2>1
<1>8. Rising(s, Follows(asc))
  <2> SUFFICES ASSUME NEW i \in 1..Len(scan), NEW j \in 1..Len(scan), i < j
               PROVE  <<ks[scan[i]], ks[scan[j]]>> \in Follows(asc)
    BY <1>2, <1>6, <1>7 DEF Rising
  <2>1. <<scan[i], scan[j]>> \in Follows(asc)
    BY <1>5, <1>6 DEF Rising
  <2>2. /\ scan[i] \in 1..Len(ks) /\ scan[j] \in 1..Len(ks) /\ scan[i] \in Int /\ scan[j] \in Int
        /\ ks[scan[i]] \in Int /\ ks[scan[j]] \in Int
    BY <1>3, <1>6
  <2>3. IF asc THEN scan[i] < scan[j] ELSE scan[j] < scan[i]
    BY <2>1, <2>2, FollowsFacts
  <2>4. IF asc THEN ks[scan[i]] < ks[scan[j]] ELSE ks[scan[j]] < ks[scan[i]]
    BY <1>1, <1>3, <2>2, <2>3
  <2> QED BY <2>2, <2>4, FollowsFacts
<1>9. ToSet(s) = Included(r, D)
  <2>1. ToSet(s) = {ks[i] : i \in W}
    <3>1. W = {scan[i] : i \in 1..Len(scan)}
      BY <1>5, <1>6 DEF ToSet
    <3>2. ToSet(s) = {ks[scan[i]] : i \in 1..Len(scan)}
      BY <1>2, <1>6 DEF ToSet
    <3> QED BY <3>1, <3>2
  <2>2. D = {ks[i] : i \in 1..Len(ks)}
    BY <1>1, <1>3 DEF ToSet
  <2> QED BY <1>3, <1>4, <2>1, <2>2 DEF Included
<1>10. s = InOrder(r, D, asc)
  <2>1. D \in SUBSET Key
    BY DEF D
  <2> QED BY <1>7, <1>8, <1>9, <2>1, InOrderIsUnique
<1> QED BY <1>10 DEF s, scan, W, ks, D

LEMMA NothingVisited == \A T : Visited(T, <<>>) = <<>>
BY DEF Visited

-----------------------------------------------------------------------------
(* Streams.                                                                *)

LEMMA RangesFacts ==
    ASSUME NEW r \in AllRanges
    PROVE  /\ ProperRange(r)
           /\ r.lower \in Key \cup {NoKey} /\ r.upper \in Key \cup {NoKey}
           /\ r.lowerOpen \in BOOLEAN /\ r.upperOpen \in BOOLEAN
           /\ ExactMatch(r) => r.lower \in Key /\ \A k \in Key : Includes(r, k) <=> k = r.lower
<1>1. Key \in SUBSET Int /\ NoKey \notin Int
  BY KeysAreIntegers
<1>2. ProperRange(r)
  BY <1>1, RangesAreProper DEF AllRanges
<1>3. /\ r.lower \in Key \cup {NoKey} /\ r.upper \in Key \cup {NoKey}
      /\ r.lowerOpen \in BOOLEAN /\ r.upperOpen \in BOOLEAN
  BY DEF AllRanges, Ranges
<1>4. ASSUME ExactMatch(r) PROVE r.lower \in Key /\ \A k \in Key : Includes(r, k) <=> k = r.lower
  <2>1. r.lower \in Key /\ r.upper = r.lower /\ ~r.lowerOpen /\ ~r.upperOpen /\ r.lower # NoKey
    BY <1>3, <1>4 DEF ExactMatch
  <2>2. r.lower \in Int /\ \A k \in Key : k \in Int
    BY <1>1, <2>1
  <2> QED BY <2>1, <2>2 DEF Includes, AboveLower, BelowUpper
<1> QED BY <1>2, <1>3, <1>4

\* The keys of a table are there once each, so that a walk over them goes astray in two cases only.
LEMMA AstrayIsLost ==
    ASSUME TypeOK, kind = "lmdb", NEW r \in AllRanges, NEW asc \in BOOLEAN, ~ExactMatch(r)
    PROVE  LmdbAstray(r, asc) <=> LmdbLost(Ascending(Stored), r, asc, numeric)
<1> DEFINE ks == Ascending(Stored)
<1>1. Stored \in SUBSET Key
  BY DEF TypeOK, Stored
<1>2. /\ ks \in Seq(Int) /\ ToSet(ks) = Stored
      /\ \A i, j \in DOMAIN ks : i < j <=> ks[i] < ks[j]
  BY <1>1, SortedKeys
<1> HIDE DEF ks
<1>3. Len(ks) \in Nat /\ DOMAIN ks = 1..Len(ks) /\ \A i \in 1..Len(ks) : ks[i] \in Int
  BY <1>2
<1>4. \A k : ~Twice(ks, k)
  BY <1>2, <1>3 DEF Twice
<1>5. \A k : k \in Stored <=> \E i \in 1..Len(ks) : ks[i] = k
  BY <1>2, <1>3 DEF ToSet
<1>6. LmdbLost(ks, r, asc, numeric) <=>
        /\ ~asc /\ r.upper # NoKey
        /\ IF r.upperOpen THEN UpFrom(ks, r.upper) = {} /\ IncludesNull(r, numeric)
           ELSE r.upper \notin Stored
  BY <1>3, <1>4, <1>5 DEF LmdbLost
<1>7. LmdbAstray(r, asc) <=>
        /\ ~asc /\ r.upper # NoKey /\ r.upper \notin Stored
        /\ ~r.upperOpen \/ (IncludesNull(r, numeric) /\ \A k \in Stored : k < r.upper)
  BY DEF LmdbAstray
<1>8. ASSUME r.upper # NoKey
      PROVE  UpFrom(ks, r.upper) = {} <=> r.upper \notin Stored /\ \A k \in Stored : k < r.upper
  <2>1. r.upper \in Key /\ r.upper \in Int
    BY <1>8, RangesFacts, KeysAreIntegers
  <2>2. UpFrom(ks, r.upper) = {} <=> \A i \in 1..Len(ks) : ~(ks[i] >= r.upper)
    BY DEF UpFrom
  <2>3. UpFrom(ks, r.upper) = {} <=> \A i \in 1..Len(ks) : ks[i] < r.upper
    BY <1>3, <2>1, <2>2
  <2> QED BY <1>5, <2>1, <2>3
<1> QED BY <1>6, <1>7, <1>8 DEF ks

\* What is visited: the range in order, or nothing where LMDB goes astray.
Found(r, asc) == IF LmdbAstray(r, asc) THEN <<>> ELSE InOrder(r, Stored, asc)

LEMMA FoundFacts ==
    ASSUME TypeOK, NEW r \in AllRanges, NEW asc \in BOOLEAN
    PROVE  /\ Found(r, asc) \in Seq(Stored) /\ Len(Found(r, asc)) \in Nat
           /\ DOMAIN Found(r, asc) = 1..Len(Found(r, asc))
           /\ \A i \in 1..Len(Found(r, asc)) : Found(r, asc)[i] \in Stored
           /\ kind # "lmdb" => Found(r, asc) = InOrder(r, Stored, asc)
<1>1. Stored \in SUBSET Key
  BY DEF TypeOK, Stored
<1>2. InOrder(r, Stored, asc) \in Seq(Stored)
  BY <1>1, InOrderFacts
<1>3. Found(r, asc) \in Seq(Stored)
  BY <1>2 DEF Found
<1> DEFINE s == Found(r, asc)
<1>4. kind # "lmdb" => s = InOrder(r, Stored, asc)
  BY DEF Found, LmdbAstray
<1> HIDE DEF s
<1>5. Len(s) \in Nat /\ DOMAIN s = 1..Len(s) /\ \A i \in 1..Len(s) : s[i] \in Stored
  BY <1>3 DEF s
<1> QED BY <1>3, <1>4, <1>5 DEF s

\* An exact match: the key if it is there.
LEMMA ExactIsOne ==
    ASSUME NEW D \in SUBSET Key, NEW r \in AllRanges, ExactMatch(r), NEW asc \in BOOLEAN
    PROVE  InOrder(r, D, asc) = IF r.lower \in D THEN <<r.lower>> ELSE <<>>
<1>1. r.lower \in Key /\ \A k \in Key : Includes(r, k) <=> k = r.lower
  BY RangesFacts
<1>2. Included(r, D) = {r.lower} \cap D
  BY <1>1 DEF Included
<1>3. CASE r.lower \in D
  <2> DEFINE s == <<r.lower>>
  <2>1. s \in Seq(Int) /\ DOMAIN s = {1} /\ s[1] = r.lower
    <3>1. r.lower \in Int
      BY <1>1, KeysAreIntegers
    <3>2. s \in Seq(Int) /\ DOMAIN s = 1..1 /\ s[1] = r.lower
      BY <3>1
    <3> QED BY <3>2
  <2>2. ToSet(s) = Included(r, D)
    BY <1>2, <1>3, <2>1 DEF ToSet
  <2>3. Rising(s, Follows(asc))
    BY <2>1 DEF Rising
  <2> HIDE DEF s
  <2>4. s = InOrder(r, D, asc)
    BY <2>1, <2>2, <2>3, InOrderIsUnique
  <2> QED BY <1>3, <2>4 DEF s
<1>4. CASE r.lower \notin D
  <2>1. Included(r, D) = {}
    BY <1>2, <1>4
  <2> QED BY <1>4, <2>1, InOrderFacts
<1> QED BY <1>3, <1>4

LEMMA ScansOfTable ==
    ASSUME TypeOK, NEW r \in AllRanges, NEW asc \in BOOLEAN
    PROVE  /\ MemoryKeyStream(table, r, asc) = InOrder(r, Stored, asc)
           /\ Visited(table, LevelScan(Ascending(DOMAIN table), r, asc)) = InOrder(r, Stored, asc)
           /\ Visited(table, IdbScan(Ascending(DOMAIN table), r, asc)) = InOrder(r, Stored, asc)
           /\ kind = "lmdb" => LmdbRead(table, r, asc, numeric) = Found(r, asc)
<1> DEFINE ks == Ascending(DOMAIN table)
           scan == InDirection(Ascending(Within(ks, r)), asc)
<1>1. DOMAIN table \in SUBSET Key /\ Stored = DOMAIN table /\ Stored \in SUBSET Key /\ numeric \in BOOLEAN
  BY DEF TypeOK, Stored
<1>2. ks \in Seq(Int) /\ Nondecreasing(ks)
  BY <1>1, SortedKeys
<1>3. ProperRange(r)
  BY RangesFacts
<1>4. Visited(table, scan) = InOrder(r, Stored, asc)
  BY <1>1, VisitedInOrder
<1> HIDE DEF ks
<1>5. /\ MemoryScan(ks, r, asc) = scan /\ LevelScan(ks, r, asc) = scan /\ IdbScan(ks, r, asc) = scan
      /\ LmdbScan(ks, r, asc, numeric) = IF LmdbLost(ks, r, asc, numeric) THEN <<>> ELSE scan
  BY <1>1, <1>2, <1>3, ScansAreRight
<1> HIDE DEF scan
<1>6. MemoryKeyStream(table, r, asc) = InOrder(r, Stored, asc)
  BY <1>4, <1>5 DEF MemoryKeyStream, ks
<1>7. ASSUME kind = "lmdb" PROVE LmdbRead(table, r, asc, numeric) = Found(r, asc)
  <2>1. CASE ExactMatch(r)
    <3>1. r.lower \in Key /\ r.lower # NoKey
      BY <2>1, RangesFacts DEF ExactMatch
    <3>2. LmdbRead(table, r, asc, numeric) =
            IF At(table, r.lower) \notin {NoKey, Falsy} THEN <<r.lower>> ELSE <<>>
      BY <2>1 DEF LmdbRead
    <3>3. LmdbAstray(r, asc) <=> r.lower \in Stored /\ table[r.lower] = Falsy
      BY <1>7, <2>1 DEF LmdbAstray
    <3>4. InOrder(r, Stored, asc) = IF r.lower \in Stored THEN <<r.lower>> ELSE <<>>
      BY <1>1, <2>1, ExactIsOne
    <3>5. \A k \in Stored : table[k] \in Int
      BY DEF TypeOK, Value, Falsy, Stored
    <3>6. r.lower \in Stored => table[r.lower] # NoKey
      BY <3>5, KeysAreIntegers
    <3> QED BY <1>1, <3>2, <3>3, <3>4, <3>6 DEF Found, At
  <2>2. CASE ~ExactMatch(r)
    <3>1. LmdbRead(table, r, asc, numeric) = Visited(table, LmdbScan(ks, r, asc, numeric))
      BY <2>2 DEF LmdbRead, ks
    <3>2. LmdbAstray(r, asc) <=> LmdbLost(ks, r, asc, numeric)
      BY <1>1, <1>7, <2>2, AstrayIsLost DEF ks
    <3>3. CASE LmdbLost(ks, r, asc, numeric)
      BY <1>5, <3>1, <3>2, <3>3, NothingVisited DEF Found
    <3>4. CASE ~LmdbLost(ks, r, asc, numeric)
      BY <1>4, <1>5, <3>1, <3>2, <3>4 DEF Found
    <3> QED BY <3>3, <3>4
  <2> QED BY <2>1, <2>2
<1> QED BY <1>4, <1>5, <1>6, <1>7 DEF ks

LEMMA LimitedFacts ==
    ASSUME NEW S, NEW s \in Seq(S)
    PROVE  /\ Limited(s, NoLimit) = s
           /\ s = <<>> <=> Limited(s, 1) = <<>>
           /\ s # <<>> => Limited(s, 1) = <<Head(s)>>
           /\ \A limit \in Nat \cup {NoLimit} :
                /\ Limited(s, limit) \in Seq(S)
                /\ \A T : Limited(Valued(T, s), limit) = Valued(T, Limited(s, limit))
<1>1. Len(s) \in Nat /\ DOMAIN s = 1..Len(s)
  OBVIOUS
<1>2. Limited(s, NoLimit) = s
  BY DEF Limited
<1>3. s = <<>> => Limited(s, 1) = <<>>
  BY DEF Limited, NoLimit
<1>4. s # <<>> => Limited(s, 1) = <<Head(s)>>
  <2> SUFFICES ASSUME s # <<>> PROVE Limited(s, 1) = <<Head(s)>>
    OBVIOUS
  <2>1. CASE Len(s) = 1
    <3>1. s = <<Head(s)>>
      BY <2>1
    <3> QED BY <2>1, <3>1 DEF Limited, NoLimit
  <2>2. CASE Len(s) # 1
    <3>1. ~(1 >= Len(s)) /\ 1 # NoLimit
      BY <1>1, <2>2 DEF NoLimit
    <3>2. SubSeq(s, 1, 1) = <<Head(s)>>
      <4>1. Len(s) # 0 /\ Head(s) = s[1]
        OBVIOUS
      <4> DEFINE t == SubSeq(s, 1, 1)
      <4>2. t \in Seq(S) /\ Len(t) = 1 /\ t[1] = s[1]
        BY <1>1, <4>1
      <4> HIDE DEF t
      <4>3. t = <<t[1]>>
        BY <4>2
      <4> QED BY <4>1, <4>2, <4>3 DEF t
    <3> QED BY <3>1, <3>2 DEF Limited
  <2> QED BY <2>1, <2>2
<1>5. ASSUME NEW limit \in Nat \cup {NoLimit}
      PROVE  /\ Limited(s, limit) \in Seq(S)
             /\ \A T : Limited(Valued(T, s), limit) = Valued(T, Limited(s, limit))
  <2>1. CASE limit = NoLimit \/ limit >= Len(s)
    <3>1. Limited(s, limit) = s
      BY <2>1 DEF Limited
    <3> SUFFICES ASSUME NEW T PROVE Limited(Valued(T, s), limit) = Valued(T, s)
      BY <3>1
    <3>2. Len(Valued(T, s)) = Len(s)
      BY <1>1 DEF Valued
    <3> QED BY <2>1, <3>2 DEF Limited
  <2>2. CASE ~(limit = NoLimit \/ limit >= Len(s))
    <3>1. Limited(s, limit) = SubSeq(s, 1, limit) /\ limit \in Nat /\ limit < Len(s)
      BY <1>1, <2>2 DEF Limited
    <3>2. SubSeq(s, 1, limit) \in Seq(S) /\ SubSeq(s, 1, limit) = [i \in 1..limit |-> s[i]]
      BY <1>1, <3>1
    <3>3. ASSUME NEW T PROVE Limited(Valued(T, s), limit) = Valued(T, Limited(s, limit))
      <4> DEFINE v == Valued(T, s)
      <4>1. v = [i \in 1..Len(s) |-> T[s[i]]]
        BY <1>1 DEF Valued
      <4>2. Len(v) = Len(s)
        BY <1>1, <4>1
      <4> HIDE DEF v
      <4>3. Limited(v, limit) = SubSeq(v, 1, limit)
        BY <2>2, <4>2 DEF Limited
      <4>4. SubSeq(v, 1, limit) = [i \in 1..limit |-> v[i]]
        BY <1>1, <3>1, <4>1, <4>2
      <4>5. [i \in 1..limit |-> v[i]] = [i \in 1..limit |-> T[s[i]]]
        BY <1>1, <3>1, <4>1
      <4>6. Valued(T, Limited(s, limit)) = [i \in 1..limit |-> T[s[i]]]
        BY <3>1, <3>2 DEF Valued
      <4> QED BY <4>3, <4>4, <4>5, <4>6 DEF v
    <3> QED BY <3>1, <3>2, <3>3
  <2> QED BY <2>1, <2>2
<1>6. s = <<>> <=> Limited(s, 1) = <<>>
  <2>1. <<Head(s)>> # <<>>
    OBVIOUS
  <2> QED BY <1>3, <1>4, <2>1
<1> QED BY <1>2, <1>4, <1>5, <1>6

-----------------------------------------------------------------------------
(* The backends.                                                           *)

LEMMA StreamsAreRight ==
    ASSUME TypeOK, NEW r \in AllRanges, NEW asc \in BOOLEAN
    PROVE  KeyStream(r, asc) = Found(r, asc) /\ ValueStream(r, asc) = Paired(table, Found(r, asc))
<1> DEFINE a == InOrder(r, Stored, asc)
           f == Found(r, asc)
<1>1. /\ MemoryKeyStream(table, r, asc) = a
      /\ Visited(table, LevelScan(Ascending(DOMAIN table), r, asc)) = a
      /\ Visited(table, IdbScan(Ascending(DOMAIN table), r, asc)) = a
      /\ kind = "lmdb" => LmdbRead(table, r, asc, numeric) = f
  BY ScansOfTable
<1>2. kind # "lmdb" => f = a
  BY FoundFacts
<1>3. a \in Seq(Stored)
  BY InOrderFacts DEF TypeOK, Stored
<1> HIDE DEF a, f
<1>4. LevelRead(table, r, asc, NoLimit) = a
  BY <1>1, <1>3, LimitedFacts DEF LevelRead
<1>5. CASE kind = "memory"
  BY <1>1, <1>2, <1>5 DEF KeyStream, ValueStream, MemoryValueStream, f
<1>6. CASE kind = "leveldb"
  BY <1>2, <1>4, <1>6 DEF KeyStream, ValueStream, LevelKeyStream, LevelValueStream, f
<1>7. CASE kind = "indexeddb"
  BY <1>1, <1>2, <1>7 DEF KeyStream, ValueStream, IdbKeyStream, IdbValueStream, f
<1>8. CASE kind = "lmdb"
  BY <1>1, <1>8 DEF KeyStream, ValueStream, LmdbKeyStream, LmdbValueStream, f
<1> QED BY <1>5, <1>6, <1>7, <1>8 DEF TypeOK

LEMMA KeysAndValuesAreRight ==
    ASSUME TypeOK, NEW r \in AllRanges, NEW limit \in Nat \cup {NoLimit}
    PROVE  /\ BackendKeys(r, limit) = Limited(Found(r, TRUE), limit)
           /\ BackendValues(r, limit) = Valued(table, Limited(Found(r, TRUE), limit))
<1> DEFINE asc == TRUE
           a == InOrder(r, Stored, asc)
           f == Found(r, asc)
<1>0. asc \in BOOLEAN
  OBVIOUS
<1> HIDE DEF asc
<1>1. /\ MemoryKeyStream(table, r, asc) = a
      /\ Visited(table, LevelScan(Ascending(DOMAIN table), r, asc)) = a
      /\ Visited(table, IdbScan(Ascending(DOMAIN table), r, asc)) = a
      /\ kind = "lmdb" => LmdbRead(table, r, asc, numeric) = f
  BY <1>0, ScansOfTable
<1>2. kind # "lmdb" => f = a
  BY <1>0, FoundFacts
<1>3. f \in Seq(Stored)
  BY <1>0, FoundFacts
<1>4. ExactMatch(r) => a = IF r.lower \in DOMAIN table THEN <<r.lower>> ELSE <<>>
  BY <1>0, ExactIsOne DEF TypeOK, Stored
<1> HIDE DEF a, f
<1>5. Limited(Valued(table, f), limit) = Valued(table, Limited(f, limit))
  BY <1>3, LimitedFacts
<1> SUFFICES BackendKeys(r, limit) = Limited(f, limit) /\ BackendValues(r, limit) = Valued(table, Limited(f, limit))
  BY DEF f, asc
<1>6. CASE kind = "memory"
  <2>1. MemoryKeys(table, r, limit) = Limited(f, limit)
    BY <1>1, <1>2, <1>4, <1>6 DEF MemoryKeys, asc
  <2> QED BY <1>6, <2>1 DEF BackendKeys, BackendValues, MemoryValues
<1>7. CASE kind = "leveldb"
  <2>1. LevelRead(table, r, asc, limit) = Limited(f, limit)
    BY <1>1, <1>2, <1>7 DEF LevelRead
  <2> QED BY <1>7, <2>1 DEF BackendKeys, BackendValues, LevelKeys, LevelValues, asc
<1>8. CASE kind = "indexeddb"
  BY <1>1, <1>2, <1>5, <1>8 DEF BackendKeys, BackendValues, IdbKeys, IdbValues, asc
<1>9. CASE kind = "lmdb"
  BY <1>1, <1>5, <1>9 DEF BackendKeys, BackendValues, LmdbKeys, LmdbValues, asc
<1> QED BY <1>6, <1>7, <1>8, <1>9 DEF TypeOK

LEMMA CountIsRight ==
    ASSUME TypeOK, NEW r \in AllRanges
    PROVE  BackendCount(r) = Cardinality(Included(r, Stored)) \/ LmdbAstray(r, TRUE)
<1> DEFINE asc == TRUE
           a == InOrder(r, Stored, asc)
           f == Found(r, asc)
           n == Cardinality(Included(r, Stored))
<1>0. asc \in BOOLEAN
  OBVIOUS
<1> HIDE DEF asc
<1> SUFFICES ASSUME ~LmdbAstray(r, asc) PROVE BackendCount(r) = n
  BY DEF asc
<1>1. f = a
  BY DEF Found
<1>2. Len(a) = n
  BY <1>0, InOrderFacts DEF TypeOK, Stored
<1>3. f \in Seq(Stored)
  BY <1>0, FoundFacts
<1>4. kind = "lmdb" => LmdbRead(table, r, asc, numeric) = f
  BY <1>0, ScansOfTable
<1>5. BackendKeys(r, NoLimit) = Limited(f, NoLimit)
  BY KeysAndValuesAreRight DEF asc
<1> HIDE DEF a, f
<1>6. BackendKeys(r, NoLimit) = f
  BY <1>3, <1>5, LimitedFacts
<1>7. kind = "indexeddb" => IdbCount(table, r) = n
  <2>1. \A k \in Int : Includes(IdbRange(r), k) <=> Includes(r, k)
    <3>1. ProperRange(r)
      BY RangesFacts
    <3> QED BY <3>1 DEF IdbRange, ProperRange, Includes, AboveLower, BelowUpper, ExactMatch, Only, LowerBound,
                        UpperBound, Bound
  <2>2. {k \in DOMAIN table : Includes(IdbRange(r), k)} = Included(r, Stored)
    BY <2>1, KeysAreIntegers DEF Included, Stored, TypeOK
  <2> QED BY <2>2 DEF IdbCount
<1> HIDE DEF n
<1>8. CASE kind = "memory"
  BY <1>1, <1>2, <1>6, <1>8 DEF BackendCount, BackendKeys, MemoryCount
<1>9. CASE kind = "leveldb"
  BY <1>1, <1>2, <1>6, <1>9 DEF BackendCount, BackendKeys, LevelCount
<1>10. CASE kind = "indexeddb"
  BY <1>7, <1>10 DEF BackendCount
<1>11. CASE kind = "lmdb"
  BY <1>1, <1>2, <1>4, <1>11 DEF BackendCount, LmdbCount, asc
<1> QED BY <1>8, <1>9, <1>10, <1>11 DEF TypeOK

LEMMA ScansAreInOrder ==
    ASSUME TypeOK
    PROVE  ScansAgree
<1> SUFFICES ASSUME NEW r \in AllRanges
             PROVE  /\ \A asc \in BOOLEAN :
                          KeyStream(r, asc) = Found(r, asc) /\ ValueStream(r, asc) = Paired(table, Found(r, asc))
                    /\ \A limit \in Limits :
                          /\ BackendKeys(r, limit) = Limited(Found(r, TRUE), limit)
                          /\ BackendValues(r, limit) = Valued(table, Limited(Found(r, TRUE), limit))
                    /\ BackendCount(r) = Cardinality(Included(r, Stored)) \/ LmdbAstray(r, TRUE)
  BY DEF ScansAgree, Found
<1>1. Limits \subseteq Nat \cup {NoLimit}
  BY ReadsAssumption DEF Limits
<1> QED BY <1>1, StreamsAreRight, KeysAndValuesAreRight, CountIsRight

\* The in-memory cursor leads to the first key of the range, if there is one.
LEMMA MemoryExtreme ==
    ASSUME TypeOK, NEW r \in AllRanges, NEW asc \in BOOLEAN, Included(r, Stored) # {}
    PROVE  LET ks == Ascending(DOMAIN table) i == MemoryStart(ks, r, asc)
           IN  i # 0 /\ ks[i] = Head(InOrder(r, Stored, asc)) /\ ks[i] \in Stored
<1> DEFINE ks == Ascending(DOMAIN table)
           W == Within(ks, r)
           i == MemoryStart(ks, r, asc)
<1>1. Stored = DOMAIN table /\ Stored \in SUBSET Key
  BY DEF TypeOK, Stored
<1>2. ks \in Seq(Int) /\ Nondecreasing(ks) /\ ToSet(ks) = Stored
  BY <1>1, SortedKeys
<1> HIDE DEF ks
<1>3. /\ W \in SUBSET (1..Len(ks)) /\ Len(ks) \in Nat /\ DOMAIN ks = 1..Len(ks)
      /\ \A j \in 1..Len(ks) : ks[j] \in Int
  BY <1>2, WithinFacts
<1>4. \A j \in 1..Len(ks) : j \in W <=> Includes(r, ks[j])
  BY <1>3 DEF Within
<1>5. \A k : k \in Included(r, Stored) <=> \E j \in W : k = ks[j]
  BY <1>2, <1>3, <1>4 DEF Included, ToSet
<1>6. W # {}
  BY <1>5
<1>7. ProperRange(r)
  BY RangesFacts
<1>8. FirstOf(W, i, asc)
  BY <1>2, <1>6, <1>7, MemoryStartFacts
<1> HIDE DEF W, i
<1>9. i \in W /\ i \in 1..Len(ks) /\ i # 0
  BY <1>3, <1>8 DEF FirstOf
<1>10. ks[i] \in Included(r, Stored) /\ ks[i] \in Stored
  BY <1>5, <1>9 DEF Included
<1>11. \A p, q \in 1..Len(ks) : p <= q => ks[p] <= ks[q]
  BY <1>2, OrderedFacts
<1>12. ASSUME NEW l \in Included(r, Stored) PROVE IF asc THEN ks[i] <= l ELSE ks[i] >= l
  <2>1. PICK j \in W : l = ks[j]
    BY <1>5
  <2>2. j \in 1..Len(ks) /\ IF asc THEN i <= j ELSE i >= j
    BY <1>3, <1>8, <2>1 DEF FirstOf
  <2> QED BY <1>3, <1>9, <1>11, <2>1, <2>2
<1>13. ks[i] = Head(InOrder(r, Stored, asc))
  BY <1>1, <1>10, <1>12, HeadIsExtreme
<1> QED BY <1>9, <1>10, <1>13 DEF ks, i

\* The extreme key of a range is the head of its stream.
ExtremeKey(r, max) == IF max THEN MaxKey(r) ELSE MinKey(r)
ExtremeValue(r, max) == IF max THEN MaxValue(r) ELSE MinValue(r)

LEMMA ExtremesAreHeads ==
    ASSUME TypeOK, NEW r \in AllRanges, NEW asc \in BOOLEAN
    PROVE  /\ InOrder(r, Stored, asc) # <<>> /\ ~LmdbAstray(r, asc) =>
                  /\ ExtremeKey(r, ~asc) = Head(InOrder(r, Stored, asc))
                  /\ ExtremeValue(r, ~asc) = table[Head(InOrder(r, Stored, asc))]
           /\ InOrder(r, Stored, asc) = <<>> /\ kind # "memory" =>
                  ExtremeKey(r, ~asc) \in {NoKey, Null} /\ ExtremeValue(r, ~asc) \in {NoKey, Null}
           /\ LmdbAstray(r, asc) => ExtremeKey(r, ~asc) = Null
<1> DEFINE a == InOrder(r, Stored, asc)
           f == Found(r, asc)
           one == Limited(a, 1)
           key == ExtremeKey(r, ~asc)
           value == ExtremeValue(r, ~asc)
<1>1. /\ MemoryKeyStream(table, r, asc) = a
      /\ Visited(table, LevelScan(Ascending(DOMAIN table), r, asc)) = a
      /\ Visited(table, IdbScan(Ascending(DOMAIN table), r, asc)) = a
      /\ kind = "lmdb" => LmdbRead(table, r, asc, numeric) = f
  BY ScansOfTable
<1>2. Stored \in SUBSET Key /\ Stored = DOMAIN table
  BY DEF TypeOK, Stored
<1>3. a \in Seq(Stored) /\ (a = <<>> <=> Included(r, Stored) = {})
  BY <1>2, InOrderFacts
<1>4. f = IF LmdbAstray(r, asc) THEN <<>> ELSE a
  BY DEF Found
<1>5. LmdbAstray(r, asc) => kind = "lmdb"
  BY DEF LmdbAstray
<1>6. CASE kind = "memory"
  <2> DEFINE ks == Ascending(DOMAIN table)
             i == MemoryStart(ks, r, asc)
  <2>1. key = IF i = 0 THEN NoKey ELSE ks[i]
    BY <1>6 DEF ExtremeKey, MaxKey, MinKey, MemoryMaxKey, MemoryMinKey
  <2>2. value = At(table, key)
    BY <1>6 DEF ExtremeKey, ExtremeValue, MaxKey, MinKey, MaxValue, MinValue, MemoryMaxValue, MemoryMinValue
  <2>3. a # <<>> => i # 0 /\ ks[i] = Head(a) /\ ks[i] \in Stored
    BY <1>3, MemoryExtreme
  <2> HIDE DEF ks, i, a, key, value
  <2>4. a # <<>> => key = Head(a) /\ value = table[Head(a)]
    BY <1>2, <2>1, <2>2, <2>3 DEF At
  <2> QED BY <1>5, <1>6, <2>4 DEF a, key, value
<1>7. /\ one \in Seq(Stored) /\ (a = <<>> => one = <<>>) /\ (a # <<>> => one = <<Head(a)>>)
  <2> HIDE DEF a
  <2> QED BY <1>3, LimitedFacts
<1>8. CASE kind = "leveldb"
  <2>1. LevelRead(table, r, asc, 1) = one
    BY <1>1 DEF LevelRead
  <2>2. key = First(one, NoKey)
    BY <1>8, <2>1 DEF ExtremeKey, MaxKey, MinKey, LevelMaxKey, LevelMinKey
  <2>3. value = First(Valued(table, one), NoKey)
    BY <1>8, <2>1 DEF ExtremeValue, MaxValue, MinValue, LevelMaxValue, LevelMinValue
  <2> HIDE DEF a, key, value, one
  <2>4. a # <<>> => key = Head(a) /\ value = table[Head(a)]
    BY <1>7, <2>2, <2>3 DEF First, Valued
  <2>5. a = <<>> => key = NoKey /\ value = NoKey
    BY <1>7, <2>2, <2>3 DEF First, Valued
  <2> QED BY <1>5, <1>8, <2>4, <2>5 DEF a, key, value
<1>9. /\ \A none : a # <<>> => First(a, none) = Head(a) /\ First(Valued(table, a), none) = table[Head(a)]
      /\ \A none : First(<<>>, none) = none /\ First(Valued(table, <<>>), none) = none
  <2> HIDE DEF a
  <2>1. Len(a) \in Nat /\ DOMAIN a = 1..Len(a)
    BY <1>3
  <2>2. Valued(table, a) = [j \in 1..Len(a) |-> table[a[j]]]
    BY <2>1 DEF Valued
  <2>3. Len(Valued(table, a)) = Len(a) /\ \A j \in 1..Len(a) : Valued(table, a)[j] = table[a[j]]
    BY <2>1, <2>2
  <2>4. a # <<>> => 1 \in 1..Len(a) /\ Head(a) = a[1] /\ Valued(table, a) # <<>>
                    /\ Head(Valued(table, a)) = Valued(table, a)[1]
    BY <1>3, <2>1, <2>2, <2>3
  <2>5. Valued(table, <<>>) = <<>>
    BY DEF Valued
  <2> QED BY <2>3, <2>4, <2>5 DEF First
<1>10. CASE kind = "indexeddb"
  <2>1. key = First(a, NoKey)
    BY <1>1, <1>10 DEF ExtremeKey, MaxKey, MinKey, IdbMaxKey, IdbMinKey, IdbKeyStream
  <2>2. value = First(Valued(table, a), NoKey)
    BY <1>1, <1>10 DEF ExtremeValue, MaxValue, MinValue, IdbMaxValue, IdbMinValue, IdbKeyStream
  <2> HIDE DEF a, key, value
  <2>3. a # <<>> => key = Head(a) /\ value = table[Head(a)]
    BY <1>9, <2>1, <2>2
  <2>4. a = <<>> => key = NoKey /\ value = NoKey
    BY <1>9, <2>1, <2>2
  <2> QED BY <1>5, <1>10, <2>3, <2>4 DEF a, key, value
<1>11. CASE kind = "lmdb"
  <2>1. key = First(f, Null)
    BY <1>1, <1>11 DEF ExtremeKey, MaxKey, MinKey, LmdbMaxKey, LmdbMinKey
  <2>2. value = First(Valued(table, f), Null)
    BY <1>1, <1>11 DEF ExtremeValue, MaxValue, MinValue, LmdbMaxValue, LmdbMinValue
  <2> HIDE DEF a, key, value, f
  <2>3. a # <<>> /\ ~LmdbAstray(r, asc) => key = Head(a) /\ value = table[Head(a)]
    BY <1>4, <1>9, <2>1, <2>2
  <2>4. a = <<>> \/ LmdbAstray(r, asc) => key = Null /\ value = Null
    BY <1>4, <1>9, <2>1, <2>2
  <2> QED BY <1>11, <2>3, <2>4 DEF a, key, value
<1> QED BY <1>6, <1>8, <1>10, <1>11 DEF TypeOK

LEMMA ExtremesAreRight ==
    ASSUME TypeOK
    PROVE  ExtremesAgree
<1> DEFINE Right(r, max) ==
             LET ref == InOrder(r, Stored, ~max)
             IN  /\ ref # <<>> /\ ~LmdbAstray(r, ~max) =>
                       ExtremeKey(r, max) = Head(ref) /\ ExtremeValue(r, max) = table[Head(ref)]
                 /\ ref = <<>> /\ kind # "memory" =>
                       ExtremeKey(r, max) \in {NoKey, Null} /\ ExtremeValue(r, max) \in {NoKey, Null}
<1>1. ASSUME NEW r \in AllRanges, NEW asc \in BOOLEAN PROVE Right(r, ~asc)
  <2>1. ~~asc = asc
    OBVIOUS
  <2> QED BY <2>1, ExtremesAreHeads
<1> HIDE DEF Right
<1>2. ASSUME NEW r \in AllRanges PROVE Right(r, TRUE) /\ Right(r, FALSE)
  <2>1. Right(r, ~FALSE) /\ Right(r, ~TRUE)
    BY <1>1
  <2> QED BY <2>1
<1> QED BY <1>2 DEF ExtremesAgree, Right, ExtremeKey, ExtremeValue

\* A backend's reads agree with its table: streams, keys, values and count with the keys of the range in
\* their order, and the extreme keys with the first of them, in every backend and for every table.
THEOREM BackendsReadAlike == Spec => []ReadsAgree
<1>1. TypeOK => ReadsAgree
  BY ScansAreInOrder, ExtremesAreRight DEF ReadsAgree
<1> QED BY <1>1, ReadsTypeCorrect, PTL

-----------------------------------------------------------------------------
(* The transaction's streams.                                              *)

\* One list after another.
LEMMA ConcatRises ==
    ASSUME NEW S, NEW s \in Seq(S), NEW t \in Seq(S), NEW R, Rising(s, R), Rising(t, R),
           \A x \in ToSet(s), y \in ToSet(t) : <<x, y>> \in R
    PROVE  s \o t \in Seq(S) /\ Rising(s \o t, R) /\ ToSet(s \o t) = ToSet(s) \cup ToSet(t)
<1> DEFINE c == s \o t
<1>1. Len(s) \in Nat /\ DOMAIN s = 1..Len(s) /\ Len(t) \in Nat /\ DOMAIN t = 1..Len(t)
  OBVIOUS
<1>2. /\ c \in Seq(S) /\ DOMAIN c = 1..(Len(s) + Len(t))
      /\ \A i \in 1..Len(s) : c[i] = s[i]
      /\ \A i \in 1..(Len(s) + Len(t)) : ~(i <= Len(s)) => i - Len(s) \in 1..Len(t) /\ c[i] = t[i - Len(s)]
  OBVIOUS
<1> HIDE DEF c
<1>3. /\ \A i \in 1..Len(s) : s[i] \in ToSet(s)
      /\ \A i \in 1..Len(t) : t[i] \in ToSet(t)
  BY <1>1 DEF ToSet
<1>4. Rising(c, R)
  <2> SUFFICES ASSUME NEW i \in 1..(Len(s) + Len(t)), NEW j \in 1..(Len(s) + Len(t)), i < j
               PROVE  <<c[i], c[j]>> \in R
    BY <1>2 DEF Rising
  <2>1. CASE j <= Len(s)
    <3>1. i \in 1..Len(s) /\ j \in 1..Len(s)
      BY <1>1, <2>1
    <3> QED BY <1>1, <1>2, <3>1 DEF Rising
  <2>2. CASE i <= Len(s) /\ ~(j <= Len(s))
    <3>1. i \in 1..Len(s) /\ j - Len(s) \in 1..Len(t) /\ c[j] = t[j - Len(s)]
      BY <1>1, <1>2, <2>2
    <3> QED BY <1>2, <1>3, <3>1
  <2>3. CASE ~(i <= Len(s)) /\ ~(j <= Len(s))
    <3>1. /\ i - Len(s) \in 1..Len(t) /\ c[i] = t[i - Len(s)]
          /\ j - Len(s) \in 1..Len(t) /\ c[j] = t[j - Len(s)] /\ i - Len(s) < j - Len(s)
      BY <1>1, <1>2, <2>3
    <3> QED BY <1>1, <3>1 DEF Rising
  <2>4. i <= Len(s) \/ ~(i <= Len(s))
    OBVIOUS
  <2>5. ~(i <= Len(s)) => ~(j <= Len(s))
    BY <1>1
  <2> QED BY <2>1, <2>2, <2>3, <2>5
<1>5. ToSet(c) = ToSet(s) \cup ToSet(t)
  <2>1. \A x : x \in ToSet(c) <=> \E i \in 1..(Len(s) + Len(t)) : c[i] = x
    BY <1>2 DEF ToSet
  <2>2. \A x : x \in ToSet(s) <=> \E i \in 1..Len(s) : s[i] = x
    BY <1>1 DEF ToSet
  <2>3. \A x : x \in ToSet(t) <=> \E i \in 1..Len(t) : t[i] = x
    BY <1>1 DEF ToSet
  <2>4. ASSUME NEW x \in ToSet(c) PROVE x \in ToSet(s) \cup ToSet(t)
    <3>1. PICK i \in 1..(Len(s) + Len(t)) : c[i] = x
      BY <2>1
    <3>2. CASE i <= Len(s)
      <4>1. i \in 1..Len(s)
        BY <1>1, <3>2
      <4> QED BY <1>2, <1>3, <3>1, <4>1
    <3>3. CASE ~(i <= Len(s))
      BY <1>2, <1>3, <3>1, <3>3
    <3> QED BY <3>2, <3>3
  <2>5. ASSUME NEW x \in ToSet(s) PROVE x \in ToSet(c)
    <3>1. PICK i \in 1..Len(s) : s[i] = x
      BY <2>2
    <3>2. i \in 1..(Len(s) + Len(t))
      BY <1>1
    <3> QED BY <1>2, <2>1, <3>1, <3>2
  <2>6. ASSUME NEW x \in ToSet(t) PROVE x \in ToSet(c)
    <3>1. PICK i \in 1..Len(t) : t[i] = x
      BY <2>3
    <3>2. i + Len(s) \in 1..(Len(s) + Len(t)) /\ ~(i + Len(s) <= Len(s)) /\ (i + Len(s)) - Len(s) = i
      BY <1>1
    <3>3. c[i + Len(s)] = t[i]
      BY <1>2, <3>2
    <3> QED BY <2>1, <3>1, <3>2, <3>3
  <2> QED BY <2>4, <2>5, <2>6
<1> QED BY <1>2, <1>4, <1>5 DEF c

\* A list cut in two.
LEMMA CutRises ==
    ASSUME NEW S, NEW s \in Seq(S), NEW R, Rising(s, R), NEW n \in 0..Len(s)
    PROVE  /\ SubSeq(s, 1, n) \in Seq(S) /\ Len(SubSeq(s, 1, n)) = n /\ Rising(SubSeq(s, 1, n), R)
           /\ ToSet(SubSeq(s, 1, n)) = {s[i] : i \in 1..n}
           /\ SubSeq(s, n + 1, Len(s)) \in Seq(S) /\ Rising(SubSeq(s, n + 1, Len(s)), R)
           /\ Len(SubSeq(s, n + 1, Len(s))) = Len(s) - n
           /\ \A i \in 1..(Len(s) - n) : SubSeq(s, n + 1, Len(s))[i] = s[n + i]
           /\ ToSet(SubSeq(s, n + 1, Len(s))) = {s[i] : i \in (n + 1)..Len(s)}
<1> DEFINE a == SubSeq(s, 1, n)
           b == SubSeq(s, n + 1, Len(s))
<1>1. Len(s) \in Nat /\ DOMAIN s = 1..Len(s) /\ n \in Nat
  OBVIOUS
<1>2. a \in Seq(S) /\ Len(a) = n /\ DOMAIN a = 1..n /\ \A i \in 1..n : a[i] = s[i] /\ i \in 1..Len(s)
  BY <1>1
<1>3. /\ b \in Seq(S) /\ Len(b) = Len(s) - n /\ DOMAIN b = 1..(Len(s) - n)
      /\ \A i \in 1..(Len(s) - n) : b[i] = s[n + i] /\ n + i \in 1..Len(s)
  <2>1. b \in Seq(S) /\ Len(b) = Len(s) - n /\ \A i \in 1..(Len(s) - n) : b[i] = s[n + i]
    OBVIOUS
  <2>2. \A i \in 1..(Len(s) - n) : n + i \in 1..Len(s)
    BY <1>1
  <2> HIDE DEF b
  <2> QED BY <2>1, <2>2
<1> HIDE DEF a, b
<1>4. Rising(a, R)
  BY <1>1, <1>2 DEF Rising
<1>5. Rising(b, R)
  <2> SUFFICES ASSUME NEW i \in 1..(Len(s) - n), NEW j \in 1..(Len(s) - n), i < j
               PROVE  <<s[n + i], s[n + j]>> \in R
    BY <1>3 DEF Rising
  <2>1. n + i < n + j
    BY <1>1
  <2> QED BY <1>1, <1>3, <2>1 DEF Rising
<1>6. ToSet(a) = {s[i] : i \in 1..n}
  BY <1>2 DEF ToSet
<1>7. ToSet(b) = {s[i] : i \in (n + 1)..Len(s)}
  <2>1. ToSet(b) = {s[n + i] : i \in 1..(Len(s) - n)}
    BY <1>3 DEF ToSet
  <2>2. \A i \in (n + 1)..Len(s) : i - n \in 1..(Len(s) - n) /\ n + (i - n) = i
    BY <1>1
  <2>3. \A i \in 1..(Len(s) - n) : n + i \in (n + 1)..Len(s)
    BY <1>1
  <2> QED BY <2>1, <2>2, <2>3
<1> QED BY <1>2, <1>3, <1>4, <1>5, <1>6, <1>7 DEF a, b

LEMMA BeforeFacts ==
    ASSUME NEW asc \in BOOLEAN
    PROVE  /\ \A k, l \in Int : Before(k, l, asc) <=> <<k, l>> \in Follows(asc)
           /\ \A k, l \in Int : Before(k, l, asc) \/ k = l \/ Before(l, k, asc)
           /\ \A k, l \in Int : Before(k, l, asc) => k # l /\ ~Before(l, k, asc)
           /\ \A k, l, m \in Int : Before(k, l, asc) /\ Before(l, m, asc) => Before(k, m, asc)
<1>1. \A k, l \in Int : Before(k, l, asc) <=> <<k, l>> \in Follows(asc)
  BY FollowsFacts DEF Before
<1> QED BY <1>1 DEF Before

\* The own keys are cut where they come to the parent's key.
LEMMA PassedFacts ==
    ASSUME NEW mine \in Seq(Int), NEW asc \in BOOLEAN, Rising(mine, Follows(asc)), NEW k \in Int
    PROVE  LET p == Passed(mine, k, asc) l == Left(mine, k, asc)
           IN  /\ p \in Seq(Int) /\ Rising(p, Follows(asc)) /\ ToSet(p) = {m \in ToSet(mine) : Before(m, k, asc)}
               /\ l \in Seq(Int) /\ Rising(l, Follows(asc)) /\ ToSet(l) = {m \in ToSet(mine) : ~Before(m, k, asc)}
               /\ l # <<>> /\ Head(l) = k <=> k \in ToSet(mine)
               /\ l # <<>> => /\ Tail(l) \in Seq(Int) /\ Rising(Tail(l), Follows(asc))
                              /\ ToSet(Tail(l)) = ToSet(l) \ {Head(l)}
<1> DEFINE I == {i \in 1..Len(mine) : ~Before(mine[i], k, asc)}
           n == IF I = {} THEN Len(mine) ELSE Min(I) - 1
           p == Passed(mine, k, asc)
           l == Left(mine, k, asc)
<1>1. Len(mine) \in Nat /\ DOMAIN mine = 1..Len(mine) /\ \A i \in 1..Len(mine) : mine[i] \in Int
  OBVIOUS
<1>2. I # {} => Min(I) \in I /\ \A i \in I : Min(I) <= i
  <2>1. I \in SUBSET (1..Len(mine))
    OBVIOUS
  <2> HIDE DEF I
  <2> QED BY <1>1, <2>1, FirstPosition
<1>3. n \in 0..Len(mine) /\ (I # {} => Min(I) # 0)
  <2>1. I # {} => Min(I) \in 1..Len(mine)
    BY <1>2
  <2> HIDE DEF I
  <2> QED BY <1>1, <2>1
<1>4. p = SubSeq(mine, 1, n)
  <2>1. SelectInSeq(mine, LAMBDA m : ~Before(m, k, asc)) = IF I # {} THEN Min(I) ELSE 0
    BY DEF SelectInSeq
  <2>2. SubSeq(mine, 1, Len(mine)) = mine
    OBVIOUS
  <2> HIDE DEF I
  <2> QED BY <1>1, <1>3, <2>1, <2>2 DEF Passed
<1>5. \A i \in 1..Len(mine) : Before(mine[i], k, asc) <=> i <= n
  <2> TAKE i \in 1..Len(mine)
  <2>1. CASE I = {}
    BY <1>1, <2>1
  <2>2. CASE I # {}
    <3> DEFINE f == Min(I)
    <3>1. f \in 1..Len(mine) /\ ~Before(mine[f], k, asc) /\ n = f - 1 /\ \A j \in I : f <= j
      BY <1>2, <2>2
    <3>2. i \in I <=> ~Before(mine[i], k, asc)
      OBVIOUS
    <3> HIDE DEF f, I, n
    <3>3. CASE i < f
      BY <1>1, <3>1, <3>2, <3>3
    <3>4. CASE i = f
      BY <1>1, <3>1, <3>4
    <3>5. CASE f < i
      <4>1. <<mine[f], mine[i]>> \in Follows(asc)
        BY <1>1, <3>1, <3>5 DEF Rising
      <4>2. Before(mine[f], mine[i], asc) /\ mine[f] \in Int /\ mine[i] \in Int
        BY <1>1, <3>1, <4>1, BeforeFacts
      <4>3. ~Before(mine[i], k, asc)
        BY <3>1, <4>2, BeforeFacts
      <4> QED BY <1>1, <3>1, <3>5, <4>3
    <3> QED BY <1>1, <3>1, <3>3, <3>4, <3>5
  <2> QED BY <2>1, <2>2
<1> HIDE DEF I, n, p
<1>6. n \in Nat /\ n <= Len(mine)
  BY <1>1, <1>3
<1>7. /\ p \in Seq(Int) /\ Len(p) = n /\ Rising(p, Follows(asc)) /\ ToSet(p) = {mine[i] : i \in 1..n}
  BY <1>3, <1>4, CutRises
<1>8. l = SubSeq(mine, n + 1, Len(mine))
  BY <1>7 DEF Left, p
<1> HIDE DEF l
<1>9. /\ l \in Seq(Int) /\ Rising(l, Follows(asc)) /\ Len(l) = Len(mine) - n
      /\ \A i \in 1..(Len(mine) - n) : l[i] = mine[n + i]
      /\ ToSet(l) = {mine[i] : i \in (n + 1)..Len(mine)}
  BY <1>3, <1>8, CutRises
<1>10. ToSet(mine) = {mine[i] : i \in 1..Len(mine)}
  BY <1>1 DEF ToSet
<1>11. ToSet(p) = {m \in ToSet(mine) : Before(m, k, asc)}
  <2>1. \A i \in 1..n : i \in 1..Len(mine) /\ i <= n
    BY <1>1, <1>6
  <2>2. \A i \in 1..Len(mine) : i <= n => i \in 1..n
    BY <1>1, <1>6
  <2> QED BY <1>5, <1>7, <1>10, <2>1, <2>2
<1>12. ToSet(l) = {m \in ToSet(mine) : ~Before(m, k, asc)}
  <2>1. \A i \in (n + 1)..Len(mine) : i \in 1..Len(mine) /\ ~(i <= n)
    BY <1>1, <1>6
  <2>2. \A i \in 1..Len(mine) : ~(i <= n) => i \in (n + 1)..Len(mine)
    BY <1>1, <1>6
  <2> QED BY <1>5, <1>9, <1>10, <2>1, <2>2
<1>13. ASSUME l # <<>>
       PROVE  /\ Head(l) \in ToSet(l) /\ Tail(l) \in Seq(Int) /\ Rising(Tail(l), Follows(asc))
              /\ ToSet(Tail(l)) = ToSet(l) \ {Head(l)}
              /\ \A m \in ToSet(l) : m = Head(l) \/ Before(Head(l), m, asc)
  <2>1. Len(l) \in Nat /\ DOMAIN l = 1..Len(l) /\ Len(l) # 0 /\ Head(l) = l[1] /\ \A i \in 1..Len(l) : l[i] \in Int
    BY <1>9, <1>13
  <2>2. 1 \in 0..Len(l) /\ 1 \in 1..Len(l)
    BY <2>1
  <2>3. Tail(l) = SubSeq(l, 1 + 1, Len(l))
    BY <1>9, <1>13
  <2>4. /\ Tail(l) \in Seq(Int) /\ Rising(Tail(l), Follows(asc))
        /\ ToSet(Tail(l)) = {l[i] : i \in (1 + 1)..Len(l)}
    <3> DEFINE one == 1
               R == Follows(asc)
    <3>1. one \in 0..Len(l) /\ Rising(l, R) /\ l \in Seq(Int) /\ Tail(l) = SubSeq(l, one + 1, Len(l))
      BY <1>9, <2>2, <2>3
    <3> HIDE DEF one, R
    <3>2. /\ SubSeq(l, one + 1, Len(l)) \in Seq(Int) /\ Rising(SubSeq(l, one + 1, Len(l)), R)
          /\ ToSet(SubSeq(l, one + 1, Len(l))) = {l[i] : i \in (one + 1)..Len(l)}
      BY <3>1, CutRises
    <3> QED BY <3>1, <3>2 DEF one, R
  <2>5. ToSet(l) = {l[i] : i \in 1..Len(l)}
    BY <2>1 DEF ToSet
  <2>6. \A i \in 1..Len(l) : i # 1 => i \in (1 + 1)..Len(l) /\ Before(l[1], l[i], asc)
    <3> TAKE i \in 1..Len(l)
    <3> SUFFICES ASSUME i # 1 PROVE i \in (1 + 1)..Len(l) /\ Before(l[1], l[i], asc)
      OBVIOUS
    <3>1. i \in (1 + 1)..Len(l) /\ 1 < i
      BY <2>1
    <3>2. <<l[1], l[i]>> \in Follows(asc)
      BY <1>9, <2>1, <2>2, <3>1 DEF Rising
    <3> QED BY <2>1, <2>2, <3>1, <3>2, BeforeFacts
  <2>7. \A i \in (1 + 1)..Len(l) : i \in 1..Len(l) /\ i # 1
    BY <2>1
  <2>8. \A i \in 1..Len(l) : i # 1 => l[i] # l[1]
    BY <2>1, <2>2, <2>6, BeforeFacts
  <2> QED BY <2>1, <2>2, <2>4, <2>5, <2>6, <2>7, <2>8
<1>14. l # <<>> /\ Head(l) = k <=> k \in ToSet(mine)
  <2>1. ASSUME l # <<>>, Head(l) = k PROVE k \in ToSet(mine)
    BY <1>12, <1>13, <2>1
  <2>2. ASSUME k \in ToSet(mine) PROVE l # <<>> /\ Head(l) = k
    <3>1. ~Before(k, k, asc)
      BY BeforeFacts
    <3>2. k \in ToSet(l)
      BY <1>12, <2>2, <3>1
    <3>3. l # <<>>
      BY <3>2 DEF ToSet
    <3>4. Head(l) \in ToSet(l) /\ (k = Head(l) \/ Before(Head(l), k, asc))
      BY <1>13, <3>2, <3>3
    <3> QED BY <1>12, <3>3, <3>4
  <2> QED BY <2>1, <2>2
<1> QED BY <1>7, <1>9, <1>11, <1>12, <1>13, <1>14 DEF p, l

\* The steps of a merge.
Merging == [out : Seq(Int), mine : Seq(Int)]

LEMMA MergeStepType ==
    ASSUME NEW asc \in BOOLEAN, NEW s \in Merging, NEW k \in Int
    PROVE  MergeStep(s, k, asc) \in Merging
<1> DEFINE mine == s.mine
           first == SelectInSeq(mine, LAMBDA l : ~Before(l, k, asc))
           p == Passed(mine, k, asc)
           rest == Left(mine, k, asc)
<1>1. mine \in Seq(Int) /\ s.out \in Seq(Int) /\ Len(mine) \in Nat
  BY DEF Merging
<1>2. first \in 0..Len(mine)
  <2> DEFINE I == {i \in 1..Len(mine) : ~Before(mine[i], k, asc)}
  <2>1. first = IF I # {} THEN Min(I) ELSE 0
    BY DEF SelectInSeq
  <2>2. I \in SUBSET (1..Len(mine))
    OBVIOUS
  <2> HIDE DEF I, mine, first
  <2>3. I # {} => Min(I) \in I
    BY <1>1, <2>2, FirstPosition
  <2>4. I # {} => Min(I) \in 1..Len(mine)
    BY <2>2, <2>3
  <2> QED BY <1>1, <2>1, <2>4
<1>3. p = IF first = 0 THEN mine ELSE SubSeq(mine, 1, first - 1)
  BY DEF Passed
<1> HIDE DEF mine, first, p
<1>4. p \in Seq(Int) /\ Len(p) \in Nat
  <2>1. SubSeq(mine, 1, first - 1) \in Seq(Int)
    BY <1>1, <1>2
  <2> QED BY <1>1, <1>3, <2>1
<1>5. rest = SubSeq(mine, Len(p) + 1, Len(mine))
  BY DEF Left, p
<1> HIDE DEF rest
<1>6. rest \in Seq(Int)
  <2>1. \A i \in (Len(p) + 1)..Len(mine) : mine[i] \in Int
    BY <1>1, <1>4
  <2> QED BY <1>1, <1>4, <1>5, <2>1
<1>7. rest # <<>> => Tail(rest) \in Seq(Int)
  BY <1>6
<1> DEFINE same == rest # <<>> /\ Head(rest) = k
           one == IF k \in removed /\ ~same THEN <<>> ELSE <<k>>
<1>8. one \in Seq(Int)
  OBVIOUS
<1>9. MergeStep(s, k, asc) = [out |-> s.out \o p \o one, mine |-> IF same THEN Tail(rest) ELSE rest]
  BY DEF MergeStep, rest, p, mine
<1> HIDE DEF one
<1>10. s.out \o p \o one \in Seq(Int)
  BY <1>1, <1>4, <1>8
<1>11. (IF same THEN Tail(rest) ELSE rest) \in Seq(Int)
  BY <1>6, <1>7
<1> HIDE DEF same
<1> QED BY <1>9, <1>10, <1>11 DEF Merging

Merges(f, mine, q, asc) ==
    /\ f \in [0..Len(q) -> Merging] /\ f[0] = [out |-> <<>>, mine |-> mine]
    /\ MergeStreams(mine, q, asc) = f[Len(q)].out \o f[Len(q)].mine
    /\ \A i \in 1..Len(q) : f[i] = MergeStep(f[i - 1], q[i], asc)

LEMMA MergeSteps ==
    ASSUME NEW asc \in BOOLEAN, NEW mine \in Seq(Int), NEW q \in Seq(Int)
    PROVE  \E f : Merges(f, mine, q, asc)
<1> DEFINE Step(a, k) == MergeStep(a, k, asc)
           n == Len(q)
           C == Merging
           c == [out |-> <<>>, mine |-> mine]
           g == [i \in 1..n |-> [a \in C |-> Step(a, q[i])]]
           F(k) == [s \in SUBSET DOMAIN q |-> IF s = {} THEN c ELSE Step(k[s \ {Max(s)}], q[Max(s)])]
           V == CHOOSE k : k = F(k)
<1>1. n \in Nat /\ DOMAIN q = 1..n /\ \A i \in 1..n : q[i] \in Int
  OBVIOUS
<1>2. c \in C
  BY DEF Merging
<1>3. \A a \in C, k \in Int : Step(a, k) \in C
  BY MergeStepType
<1>4. MergeStreams(mine, q, asc) = V[DOMAIN q].out \o V[DOMAIN q].mine
  BY DEF MergeStreams, Step, FoldLeft, MapThenFoldSet
<1>5. ASSUME NEW f, \A i \in 1..n : f[i] = Step(f[i - 1], q[i])
      PROVE  \A i \in 1..n : f[i] = MergeStep(f[i - 1], q[i], asc)
  BY <1>5
<1>6. c = [out |-> <<>>, mine |-> mine] /\ C = Merging
  OBVIOUS
<1> HIDE DEF Step, n, C, c
<1>7. g \in [1..n -> [C -> C]]
  BY <1>1, <1>3
<1>8. \A i \in 1..n, a \in C : g[i][a] = Step(a, q[i])
  OBVIOUS
<1> HIDE DEF g
<1> PICK f, h : Folds(f, h, n, C, c, g)
  BY <1>1, <1>2, <1>7, FoldSteps
<1>9. /\ f \in [0..n -> C] /\ f[0] = c /\ \A i \in 1..n : f[i] = g[i][f[i - 1]]
      /\ h \in [SUBSET (1..n) -> C]
      /\ \A s \in SUBSET (1..n) : h[s] = IF s = {} THEN c ELSE g[Max(s)][h[s \ {Max(s)}]]
      /\ h[1..n] = f[n]
  BY DEF Folds
<1>10. \A s \in SUBSET (1..n) : s # {} => Max(s) \in 1..n /\ s \ {Max(s)} \in SUBSET (1..n)
  BY <1>1, GreatestPosition
<1>11. \A s \in SUBSET (1..n) : h[s] = IF s = {} THEN c ELSE Step(h[s \ {Max(s)}], q[Max(s)])
  <2>1. \A s \in SUBSET (1..n) : s # {} => h[s \ {Max(s)}] \in C
    BY <1>9, <1>10
  <2> QED BY <1>8, <1>9, <1>10, <2>1
<1>12. h = F(h)
  <2>1. \A s \in SUBSET DOMAIN q : h[s] = F(h)[s]
    BY <1>1, <1>11
  <2>2. h = [s \in SUBSET DOMAIN q |-> h[s]]
    BY <1>1, <1>9
  <2> QED BY <2>1, <2>2
<1>13. V = F(V)
  BY <1>12
<1> HIDE DEF V
<1>14. V[1..n] = f[n]
  <2>1. \A s \in SUBSET DOMAIN q : V[s] = F(V)[s]
    BY <1>13
  <2>2. \A s \in SUBSET (1..n) : V[s] = IF s = {} THEN c ELSE Step(V[s \ {Max(s)}], q[Max(s)])
    BY <1>1, <2>1
  <2>3. V[{}] = h[{}]
    BY <1>11, <2>2
  <2>4. \A s \in SUBSET (1..n) : s # {} /\ V[s \ {Max(s)}] = h[s \ {Max(s)}] => V[s] = h[s]
    BY <1>11, <2>2
  <2> HIDE DEF F
  <2>5. V[1..n] = h[1..n]
    BY <1>1, <2>3, <2>4, FoldIsUnique
  <2> QED BY <1>9, <2>5
<1>15. \A i \in 1..n : f[i] = Step(f[i - 1], q[i])
  <2>1. \A i \in 1..n : i - 1 \in 0..n
    BY <1>1
  <2>2. \A i \in 1..n : f[i - 1] \in C
    BY <1>9, <2>1
  <2> QED BY <1>8, <1>9, <2>2
<1>16. \A i \in 1..n : f[i] = MergeStep(f[i - 1], q[i], asc)
  BY <1>5, <1>15
<1>17. MergeStreams(mine, q, asc) = f[n].out \o f[n].mine
  BY <1>1, <1>4, <1>14
<1> HIDE DEF F
<1>18. f \in [0..n -> Merging] /\ f[0] = [out |-> <<>>, mine |-> mine]
  BY <1>6, <1>9
<1>19. Merges(f, mine, q, asc)
  BY <1>16, <1>17, <1>18 DEF Merges, n
<1> QED BY <1>19

\* What has been given when the parent's stream has come to its i-th key q[i], of the keys M of the
\* transaction and those below, and what is left.
UpTo(q, i, x, asc) == i # 0 /\ ~Before(q[i], x, asc)
MergedUpTo(s, q, i, M, asc) ==
    /\ Rising(s.out, Follows(asc)) /\ Rising(s.mine, Follows(asc))
    /\ \A x : x \in ToSet(s.out) <=> x \in M \cup (ToSet(q) \ removed) /\ UpTo(q, i, x, asc)
    /\ \A x : x \in ToSet(s.mine) <=> x \in M /\ ~UpTo(q, i, x, asc)

LEMMA MergeStepFacts ==
    ASSUME NEW asc \in BOOLEAN, NEW q \in Seq(Int), Rising(q, Follows(asc)), NEW M \in SUBSET Int,
           M \cap removed = {}, NEW i \in 1..Len(q), NEW s \in Merging, MergedUpTo(s, q, i - 1, M, asc)
    PROVE  MergedUpTo(MergeStep(s, q[i], asc), q, i, M, asc)
<1> DEFINE R == Follows(asc)
           k == q[i]
           p == Passed(s.mine, k, asc)
           l == Left(s.mine, k, asc)
           same == l # <<>> /\ Head(l) = k
           one == IF k \in removed /\ ~same THEN <<>> ELSE <<k>>
           t == MergeStep(s, k, asc)
           Up(x) == UpTo(q, i - 1, x, asc)
           All == M \cup (ToSet(q) \ removed)
<1>1. /\ s.out \in Seq(Int) /\ s.mine \in Seq(Int) /\ Rising(s.out, R) /\ Rising(s.mine, R)
      /\ \A x : x \in ToSet(s.out) <=> x \in All /\ Up(x)
      /\ \A x : x \in ToSet(s.mine) <=> x \in M /\ ~Up(x)
  BY DEF MergedUpTo, Merging
<1>2. /\ k \in Int /\ Len(q) \in Nat /\ DOMAIN q = 1..Len(q) /\ \A j \in 1..Len(q) : q[j] \in Int
      /\ All \in SUBSET Int
  <2>1. Len(q) \in Nat /\ DOMAIN q = 1..Len(q) /\ \A j \in 1..Len(q) : q[j] \in Int
    OBVIOUS
  <2>2. ToSet(q) \in SUBSET Int
    BY <2>1 DEF ToSet
  <2> QED BY <2>1, <2>2
<1>3. t = [out |-> s.out \o p \o one, mine |-> IF same THEN Tail(l) ELSE l]
  BY DEF MergeStep
<1>4. \A j, m \in 1..Len(q) : j < m => Before(q[j], q[m], asc)
  <2>1. \A j, m \in 1..Len(q) : j < m => <<q[j], q[m]>> \in R
    BY <1>2 DEF Rising
  <2> QED BY <1>2, <2>1, BeforeFacts
<1>5. /\ \A x \in Int : Up(x) => Before(x, k, asc)
      /\ ~Up(k)
  <2>1. CASE i = 1
    <3>1. i - 1 = 0
      BY <2>1
    <3> QED BY <3>1 DEF UpTo
  <2>2. CASE i # 1
    <3>1. i - 1 # 0 /\ i - 1 \in 1..Len(q) /\ i - 1 < i
      BY <1>2, <2>2
    <3>2. Before(q[i - 1], k, asc) /\ q[i - 1] \in Int
      BY <1>2, <1>4, <3>1
    <3>3. \A x \in Int : Up(x) => ~Before(q[i - 1], x, asc)
      BY <3>1 DEF UpTo
    <3>4. ~Up(k)
      BY <3>1, <3>2 DEF UpTo
    <3> HIDE DEF k, Up
    <3> QED BY <1>2, <3>2, <3>3, <3>4, BeforeFacts
  <2> QED BY <2>1, <2>2
<1>6. \A x \in ToSet(q) : Up(x) \/ x = k \/ Before(k, x, asc)
  <2> SUFFICES ASSUME NEW j \in 1..Len(q) PROVE Up(q[j]) \/ q[j] = k \/ Before(k, q[j], asc)
    BY <1>2 DEF ToSet
  <2>1. CASE j < i
    <3>1. i - 1 # 0 /\ i - 1 \in 1..Len(q) /\ j <= i - 1
      BY <1>2, <2>1
    <3>2. ~Before(q[i - 1], q[j], asc)
      <4>1. CASE j = i - 1
        BY <1>2, <3>1, <4>1, BeforeFacts
      <4>2. CASE j < i - 1
        BY <1>2, <1>4, <3>1, <4>2, BeforeFacts
      <4> QED BY <1>2, <3>1, <4>1, <4>2
    <3> QED BY <3>1, <3>2 DEF UpTo
  <2>2. CASE j = i
    BY <2>2
  <2>3. CASE i < j
    BY <1>2, <1>4, <2>3
  <2> QED BY <1>2, <2>1, <2>2, <2>3
<1>7. k \in ToSet(q)
  BY <1>2 DEF ToSet
<1>8. \A x : UpTo(q, i, x, asc) <=> ~Before(k, x, asc)
  BY DEF UpTo
<1> HIDE DEF k, Up, All
<1>9. /\ p \in Seq(Int) /\ Rising(p, R) /\ ToSet(p) = {m \in ToSet(s.mine) : Before(m, k, asc)}
      /\ l \in Seq(Int) /\ Rising(l, R) /\ ToSet(l) = {m \in ToSet(s.mine) : ~Before(m, k, asc)}
      /\ (same <=> k \in ToSet(s.mine))
      /\ (l # <<>> => Tail(l) \in Seq(Int) /\ Rising(Tail(l), R) /\ ToSet(Tail(l)) = ToSet(l) \ {Head(l)})
  <2> DEFINE mine == s.mine
  <2>1. mine \in Seq(Int) /\ Rising(mine, Follows(asc))
    BY <1>1
  <2>2. p = Passed(mine, k, asc) /\ l = Left(mine, k, asc)
    OBVIOUS
  <2> HIDE DEF mine, p, l, R
  <2>3. LET pp == Passed(mine, k, asc) ll == Left(mine, k, asc)
        IN  /\ pp \in Seq(Int) /\ Rising(pp, Follows(asc)) /\ ToSet(pp) = {m \in ToSet(mine) : Before(m, k, asc)}
            /\ ll \in Seq(Int) /\ Rising(ll, Follows(asc)) /\ ToSet(ll) = {m \in ToSet(mine) : ~Before(m, k, asc)}
            /\ ll # <<>> /\ Head(ll) = k <=> k \in ToSet(mine)
            /\ ll # <<>> => /\ Tail(ll) \in Seq(Int) /\ Rising(Tail(ll), Follows(asc))
                            /\ ToSet(Tail(ll)) = ToSet(ll) \ {Head(ll)}
    BY <1>2, <2>1, PassedFacts
  <2> QED BY <2>2, <2>3 DEF mine, R
<1>10. k \in ToSet(s.mine) <=> k \in M
  BY <1>1, <1>5
<1> HIDE DEF p, l
<1>11. one \in Seq(Int) /\ Rising(one, R) /\ \A x : x \in ToSet(one) <=> x = k /\ k \in All
  <2>1. k \in removed /\ ~same <=> k \notin All
    BY <1>7, <1>9, <1>10 DEF All
  <2>2. CASE k \in All
    <3>1. one = <<k>>
      BY <2>1, <2>2
    <3>2. <<k>> \in Seq(Int) /\ DOMAIN <<k>> = 1..1 /\ <<k>>[1] = k
      BY <1>2
    <3>3. Rising(<<k>>, R) /\ ToSet(<<k>>) = {k}
      <4>1. DOMAIN <<k>> = {1}
        BY <3>2
      <4> QED BY <3>2, <4>1 DEF Rising, ToSet
    <3> QED BY <2>2, <3>1, <3>2, <3>3
  <2>3. CASE k \notin All
    <3>1. one = <<>>
      BY <2>1, <2>3
    <3>2. <<>> \in Seq(Int) /\ DOMAIN <<>> = {}
      OBVIOUS
    <3>3. Rising(<<>>, R) /\ ToSet(<<>>) = {}
      BY <3>2 DEF Rising, ToSet
    <3> QED BY <2>3, <3>1, <3>2, <3>3
  <2> QED BY <2>2, <2>3
<1> HIDE DEF one
<1>12. same => l # <<>> /\ Head(l) = k
  OBVIOUS
<1> HIDE DEF same, t
<1> DEFINE out == s.out \o p
<1>13. out \in Seq(Int) /\ Rising(out, R) /\ ToSet(out) = ToSet(s.out) \cup ToSet(p)
  <2>1. ASSUME NEW x \in ToSet(s.out), NEW y \in ToSet(p) PROVE <<x, y>> \in R
    <3>1. Up(x) /\ ~Up(y) /\ x \in Int /\ y \in Int
      BY <1>1, <1>2, <1>9, <2>1
    <3>2. Before(x, y, asc)
      <4>1. CASE i = 1
        <5>1. i - 1 = 0
          BY <4>1
        <5> QED BY <3>1, <5>1 DEF UpTo, Up
      <4>2. CASE i # 1
        <5>1. i - 1 # 0 /\ i - 1 \in 1..Len(q)
          BY <1>2, <4>2
        <5>2. ~Before(q[i - 1], x, asc) /\ Before(q[i - 1], y, asc) /\ q[i - 1] \in Int
          BY <1>2, <3>1, <5>1 DEF UpTo, Up
        <5> QED BY <3>1, <5>2, BeforeFacts
      <4> QED BY <4>1, <4>2
    <3> QED BY <3>1, <3>2, BeforeFacts
  <2> HIDE DEF R
  <2> QED BY <1>1, <1>9, <2>1, ConcatRises
<1> HIDE DEF out
<1>14. \A x \in ToSet(out) : x \in Int /\ Before(x, k, asc)
  BY <1>1, <1>2, <1>5, <1>9, <1>13
<1>15. out \o one \in Seq(Int) /\ Rising(out \o one, R) /\ ToSet(out \o one) = ToSet(out) \cup ToSet(one)
  <2>1. ASSUME NEW x \in ToSet(out), NEW y \in ToSet(one) PROVE <<x, y>> \in R
    BY <1>2, <1>11, <1>14, <2>1, BeforeFacts
  <2>2. one \in Seq(Int) /\ Rising(one, R)
    BY <1>11
  <2>3. \A x \in ToSet(out), y \in ToSet(one) : <<x, y>> \in R
    BY <2>1
  <2>4. out \in Seq(Int) /\ Rising(out, R)
    BY <1>13
  <2> HIDE DEF R
  <2> QED BY <2>2, <2>3, <2>4, ConcatRises
<1>16. t.out = out \o one /\ t.mine = IF same THEN Tail(l) ELSE l
  BY <1>3 DEF out
<1>17. \A x : x \in ToSet(out \o one) <=> x \in All /\ ~Before(k, x, asc)
  <2> TAKE x
  <2>1. ASSUME x \in ToSet(out \o one) PROVE x \in All /\ ~Before(k, x, asc)
    <3>1. CASE x \in ToSet(out)
      <4>1. x \in All
        BY <1>1, <1>9, <1>13, <3>1 DEF All
      <4> QED BY <1>2, <1>14, <3>1, <4>1, BeforeFacts
    <3>2. CASE x \in ToSet(one)
      BY <1>2, <1>11, <3>2, BeforeFacts
    <3> QED BY <1>15, <2>1, <3>1, <3>2
  <2>2. ASSUME x \in All, ~Before(k, x, asc) PROVE x \in ToSet(out \o one)
    <3>1. x \in Int
      BY <1>2, <2>2
    <3>2. CASE x = k
      BY <1>11, <1>15, <2>2, <3>2
    <3>3. CASE x # k /\ Up(x)
      BY <1>1, <1>13, <1>15, <2>2, <3>3
    <3>4. CASE x # k /\ ~Up(x)
      <4>1. x \notin ToSet(q)
        BY <1>6, <2>2, <3>4
      <4>2. x \in M
        BY <2>2, <4>1 DEF All
      <4>3. Before(x, k, asc)
        BY <1>2, <2>2, <3>1, <3>4, BeforeFacts
      <4> QED BY <1>1, <1>9, <1>13, <1>15, <3>4, <4>2, <4>3
    <3> QED BY <3>2, <3>3, <3>4
  <2> QED BY <2>1, <2>2
<1>18. Rising(t.mine, R) /\ \A x : x \in ToSet(t.mine) <=> x \in M /\ Before(k, x, asc)
  <2>1. \A x : x \in ToSet(l) <=> x \in M /\ ~Up(x) /\ ~Before(x, k, asc)
    BY <1>1, <1>9
  <2>2. \A x : x \in ToSet(l) <=> x \in M /\ (x = k \/ Before(k, x, asc))
    <3> TAKE x
    <3>1. x \in M => x \in Int
      OBVIOUS
    <3>2. x \in M /\ Before(k, x, asc) => ~Up(x) /\ ~Before(x, k, asc)
      BY <1>2, <1>5, <3>1, BeforeFacts
    <3>3. x \in M /\ x = k => ~Up(x) /\ ~Before(x, k, asc)
      BY <1>2, <1>5, BeforeFacts
    <3>4. x \in M /\ ~Before(x, k, asc) => x = k \/ Before(k, x, asc)
      BY <1>2, <3>1, BeforeFacts
    <3> QED BY <2>1, <3>2, <3>3, <3>4
  <2>3. ~Before(k, k, asc)
    BY <1>2, BeforeFacts
  <2>4. CASE same
    BY <1>9, <1>12, <1>16, <2>2, <2>3, <2>4
  <2>5. CASE ~same
    BY <1>9, <1>10, <1>16, <2>2, <2>5
  <2> QED BY <2>4, <2>5
<1>19. MergedUpTo(t, q, i, M, asc)
  BY <1>8, <1>15, <1>16, <1>17, <1>18 DEF MergedUpTo, All
<1> QED BY <1>19 DEF t, k

\* The merge of two lists is the list of what either holds, without what is removed from the second.
LEMMA MergeIsOrdered ==
    ASSUME NEW asc \in BOOLEAN, NEW mine \in Seq(Int), Rising(mine, Follows(asc)),
           NEW q \in Seq(Int), Rising(q, Follows(asc)), ToSet(mine) \cap removed = {}
    PROVE  /\ MergeStreams(mine, q, asc) \in Seq(Int) /\ Rising(MergeStreams(mine, q, asc), Follows(asc))
           /\ ToSet(MergeStreams(mine, q, asc)) = ToSet(mine) \cup (ToSet(q) \ removed)
<1> DEFINE M == ToSet(mine)
           n == Len(q)
<1>1. PICK f : Merges(f, mine, q, asc)
  BY MergeSteps
<1>2. /\ f \in [0..n -> Merging] /\ f[0] = [out |-> <<>>, mine |-> mine]
      /\ MergeStreams(mine, q, asc) = f[n].out \o f[n].mine
      /\ \A i \in 1..n : f[i] = MergeStep(f[i - 1], q[i], asc)
  BY <1>1 DEF Merges
<1>3. n \in Nat /\ DOMAIN q = 1..n /\ (\A i \in 1..n : q[i] \in Int) /\ M \in SUBSET Int
  BY DEF ToSet
<1>4. M \cap removed = {}
  OBVIOUS
<1> DEFINE P == {i \in 0..n : MergedUpTo(f[i], q, i, M, asc)}
<1>5. 0 \in P
  <2>1. f[0].out = <<>> /\ f[0].mine = mine /\ 0 \in 0..n
    BY <1>2, <1>3
  <2>2. Rising(<<>>, Follows(asc)) /\ ToSet(<<>>) = {}
    <3>1. DOMAIN <<>> = {}
      OBVIOUS
    <3> QED BY <3>1 DEF Rising, ToSet
  <2>3. MergedUpTo(f[0], q, 0, M, asc)
    BY <2>1, <2>2 DEF MergedUpTo, UpTo
  <2> QED BY <2>1, <2>3
<1> HIDE DEF M, n
<1>6. ASSUME NEW i \in 1..n, i - 1 \in P PROVE i \in P
  <2>1. i \in 0..n /\ i - 1 \in 0..n /\ MergedUpTo(f[i - 1], q, i - 1, M, asc) /\ f[i - 1] \in Merging
    BY <1>2, <1>3, <1>6
  <2>2. i \in 1..Len(q)
    BY DEF n
  <2>3. MergedUpTo(MergeStep(f[i - 1], q[i], asc), q, i, M, asc)
    BY <1>3, <1>4, <2>1, <2>2, MergeStepFacts
  <2>4. MergedUpTo(f[i], q, i, M, asc)
    BY <1>2, <2>3
  <2> QED BY <2>1, <2>4
<1>7. n \in P
  <2>1. 0..n \subseteq P
    <3> HIDE DEF P, n
    <3> QED BY <1>3, <1>5, <1>6, StepInduction
  <2> QED BY <1>3, <2>1
<1> DEFINE out == f[n].out
           left == f[n].mine
           R == Follows(asc)
<1>8. out \in Seq(Int) /\ left \in Seq(Int)
  <2>1. f[n] \in Merging
    BY <1>2, <1>3
  <2> QED BY <2>1 DEF Merging
<1>9. /\ Rising(out, R) /\ Rising(left, R)
      /\ \A x : x \in ToSet(out) <=> x \in M \cup (ToSet(q) \ removed) /\ UpTo(q, n, x, asc)
      /\ \A x : x \in ToSet(left) <=> x \in M /\ ~UpTo(q, n, x, asc)
  BY <1>7 DEF MergedUpTo
<1>10. MergeStreams(mine, q, asc) = out \o left
  BY <1>2
<1> HIDE DEF out, left, P
<1>11. ToSet(q) \in SUBSET Int
  BY <1>3 DEF ToSet
<1>12. \A x \in ToSet(q) : UpTo(q, n, x, asc)
  <2> SUFFICES ASSUME NEW j \in 1..n PROVE UpTo(q, n, q[j], asc)
    BY <1>3 DEF ToSet
  <2>1. n # 0 /\ n \in 1..n
    BY <1>3
  <2>2. ~Before(q[n], q[j], asc)
    <3>1. CASE j = n
      BY <1>3, <2>1, <3>1, BeforeFacts
    <3>2. CASE j < n
      <4>1. <<q[j], q[n]>> \in R
        BY <1>3, <2>1, <3>2 DEF Rising
      <4>2. Before(q[j], q[n], asc)
        BY <1>3, <2>1, <4>1, BeforeFacts
      <4> QED BY <1>3, <2>1, <4>2, BeforeFacts
    <3> QED BY <1>3, <3>1, <3>2
  <2> QED BY <2>1, <2>2 DEF UpTo
<1>13. ASSUME NEW x \in ToSet(out), NEW y \in ToSet(left) PROVE <<x, y>> \in R
  <2>1. UpTo(q, n, x, asc) /\ ~UpTo(q, n, y, asc) /\ x \in Int /\ y \in Int
    BY <1>3, <1>9, <1>11
  <2>2. n # 0 /\ n \in 1..n
    BY <1>3, <2>1 DEF UpTo
  <2>3. ~Before(q[n], x, asc) /\ Before(q[n], y, asc) /\ q[n] \in Int
    BY <1>3, <2>1, <2>2 DEF UpTo
  <2>4. Before(x, y, asc)
    BY <2>1, <2>3, BeforeFacts
  <2> QED BY <2>1, <2>4, BeforeFacts
<1>14. out \o left \in Seq(Int) /\ Rising(out \o left, R) /\ ToSet(out \o left) = ToSet(out) \cup ToSet(left)
  <2> HIDE DEF R
  <2> QED BY <1>8, <1>9, <1>13, ConcatRises
<1>15. ToSet(out) \cup ToSet(left) = M \cup (ToSet(q) \ removed)
  BY <1>9, <1>12
<1> QED BY <1>10, <1>14, <1>15 DEF M

\* What of the table the transaction sees.
Under == IF truncated THEN {} ELSE Stored

LEMMA ViewFacts ==
    ASSUME TypeOK
    PROVE  /\ Under \in SUBSET Key /\ DOMAIN modified \in SUBSET Key /\ Contents \in SUBSET Key
           /\ Contents = DOMAIN modified \cup (Under \ removed)
           /\ DOMAIN modified \cap removed = {}
           /\ \A k \in Contents : Get(k) = IF k \in DOMAIN modified THEN modified[k] ELSE table[k]
           /\ \A k \in Contents : Get(k) # NoKey
<1>1. Stored \in SUBSET Key /\ Stored = DOMAIN table
  BY DEF TypeOK, Stored
<1>2. DOMAIN modified \in SUBSET Key /\ DOMAIN modified \cap removed = {}
  BY DEF TypeOK
<1>3. Under \in SUBSET Key /\ Contents \in SUBSET Key
  BY <1>1 DEF Under, Contents
<1>4. \A k : BackendGet(k) = IF k \in Stored THEN table[k] ELSE NoKey
  BY <1>1 DEF TypeOK, BackendGet, MemoryGet, LevelGet, IdbGet, LmdbGet, At
<1>5. /\ \A k \in DOMAIN table : table[k] \in Int
      /\ \A k \in DOMAIN modified : modified[k] \in Int
  BY DEF TypeOK, Value, Falsy
<1>6. NoKey \notin Int
  BY KeysAreIntegers
<1>7. ASSUME NEW k \in Key
      PROVE  /\ Get(k) # NoKey <=> k \in DOMAIN modified \cup (Under \ removed)
             /\ Get(k) # NoKey => Get(k) = IF k \in DOMAIN modified THEN modified[k] ELSE table[k]
  <2>1. CASE k \in removed
    BY <1>2, <2>1 DEF Get
  <2>2. CASE k \in DOMAIN modified
    BY <1>2, <1>5, <1>6, <2>2 DEF Get
  <2>3. CASE k \notin removed /\ k \notin DOMAIN modified /\ truncated
    BY <2>3 DEF Get, Under
  <2>4. CASE k \notin removed /\ k \notin DOMAIN modified /\ ~truncated
    <3>1. Get(k) = IF k \in Stored THEN table[k] ELSE NoKey
      BY <1>4, <2>4 DEF Get
    <3>2. k \in Stored => table[k] # NoKey
      BY <1>1, <1>5, <1>6
    <3> QED BY <2>4, <3>1, <3>2 DEF Under
  <2> QED BY <2>1, <2>2, <2>3, <2>4
<1>8. Contents = DOMAIN modified \cup (Under \ removed)
  BY <1>2, <1>3, <1>7 DEF Contents
<1> QED BY <1>2, <1>3, <1>7, <1>8 DEF Contents

\* The keys of the range that the transaction sees: its own and the table's.
LEMMA SeenFacts ==
    ASSUME TypeOK, NEW r
    PROVE  /\ Included(r, Contents) = Included(r, DOMAIN modified) \cup (Included(r, Under) \ removed)
           /\ Included(r, DOMAIN modified) \cap removed = {}
<1>1. Contents = DOMAIN modified \cup (Under \ removed) /\ DOMAIN modified \cap removed = {}
  BY ViewFacts
<1> QED BY <1>1 DEF Included

LEMMA TxKeysAreRight ==
    ASSUME TypeOK, NEW r \in AllRanges
    PROVE  /\ TxKeys(r) \in SUBSET Contents
           /\ truncated \/ ~LmdbAstray(r, TRUE) => TxKeys(r) = Included(r, Contents)
<1> DEFINE below == IF truncated THEN {} ELSE ToSet(BackendKeys(r, NoLimit))
           f == Found(r, TRUE)
<1>1. BackendKeys(r, NoLimit) = f
  <2>1. BackendKeys(r, NoLimit) = Limited(f, NoLimit)
    BY KeysAndValuesAreRight
  <2>2. f \in Seq(Stored)
    BY FoundFacts
  <2> HIDE DEF f
  <2> QED BY <2>1, <2>2, LimitedFacts
<1>2. ToSet(InOrder(r, Stored, TRUE)) = Included(r, Stored)
  BY InOrderFacts DEF TypeOK, Stored
<1>3. ToSet(<<>>) = {}
  <2>1. DOMAIN <<>> = {}
    OBVIOUS
  <2> QED BY <2>1 DEF ToSet
<1>4. below \in SUBSET Included(r, Under) /\ (truncated \/ ~LmdbAstray(r, TRUE) => below = Included(r, Under))
  <2>1. CASE truncated
    BY <2>1 DEF Under, Included
  <2>2. CASE ~truncated /\ LmdbAstray(r, TRUE)
    BY <1>1, <1>3, <2>2 DEF Found, Under
  <2>3. CASE ~truncated /\ ~LmdbAstray(r, TRUE)
    BY <1>1, <1>2, <2>3 DEF Found, Under
  <2> QED BY <2>1, <2>2, <2>3
<1>5. TxKeys(r) = (below \ removed) \cup Included(r, DOMAIN modified)
  BY DEF TxKeys
<1> HIDE DEF below
<1>6. Included(r, Contents) = Included(r, DOMAIN modified) \cup (Included(r, Under) \ removed)
  BY SeenFacts
<1>7. Included(r, Contents) \in SUBSET Contents
  BY DEF Included
<1>8. TxKeys(r) \in SUBSET Included(r, Contents)
  BY <1>4, <1>5, <1>6
<1>9. truncated \/ ~LmdbAstray(r, TRUE) => TxKeys(r) = Included(r, Contents)
  BY <1>4, <1>5, <1>6
<1> QED BY <1>7, <1>8, <1>9

\* The stream of keys is the merge of the own keys with the parent's stream.
LEMMA MergedStream ==
    ASSUME TypeOK, NEW r \in AllRanges, NEW asc \in BOOLEAN
    PROVE  MergeStreams(InOrder(r, DOMAIN modified, asc), InOrder(r, Under, asc), asc) = InOrder(r, Contents, asc)
<1> DEFINE mine == InOrder(r, DOMAIN modified, asc)
           q == InOrder(r, Under, asc)
           s == MergeStreams(mine, q, asc)
<1>1. /\ Under \in SUBSET Key /\ DOMAIN modified \in SUBSET Key /\ Contents \in SUBSET Key
  BY ViewFacts
<1>2. mine \in Seq(Int) /\ ToSet(mine) = Included(r, DOMAIN modified) /\ Rising(mine, Follows(asc))
  BY <1>1, InOrderFacts
<1>3. q \in Seq(Int) /\ ToSet(q) = Included(r, Under) /\ Rising(q, Follows(asc))
  BY <1>1, InOrderFacts
<1> HIDE DEF mine, q
<1>4. /\ Included(r, Contents) = Included(r, DOMAIN modified) \cup (Included(r, Under) \ removed)
      /\ Included(r, DOMAIN modified) \cap removed = {}
  BY SeenFacts
<1>5. ToSet(mine) \cap removed = {}
  BY <1>2, <1>4
<1>6. s \in Seq(Int) /\ Rising(s, Follows(asc)) /\ ToSet(s) = ToSet(mine) \cup (ToSet(q) \ removed)
  BY <1>2, <1>3, <1>5, MergeIsOrdered
<1> HIDE DEF s
<1>7. ToSet(s) = Included(r, Contents)
  BY <1>2, <1>3, <1>4, <1>6
<1>8. s = InOrder(r, Contents, asc)
  BY <1>1, <1>6, <1>7, InOrderIsUnique
<1> QED BY <1>8 DEF s, mine, q

\* Every key has its value, the transaction's or the one that comes with it on the parent's stream.
LEMMA ValuesAreRight ==
    ASSUME TypeOK, NEW r, NEW asc \in BOOLEAN
    PROVE  LET ref == InOrder(r, Contents, asc)
           IN  WithValues(ref, Paired(table, InOrder(r, Under, asc))) = [i \in DOMAIN ref |-> <<Get(ref[i]), ref[i]>>]
<1> DEFINE ref == InOrder(r, Contents, asc)
           q == InOrder(r, Under, asc)
           theirs == Paired(table, q)
           Theirs(k) == (CHOOSE pair \in ToSet(theirs) : pair[2] = k)[1]
<1>1. /\ Under \in SUBSET Key /\ DOMAIN modified \in SUBSET Key /\ Contents \in SUBSET Key
      /\ \A k \in Contents : Get(k) = IF k \in DOMAIN modified THEN modified[k] ELSE table[k]
  BY ViewFacts
<1>2. ref \in Seq(Int) /\ ToSet(ref) = Included(r, Contents)
  BY <1>1, InOrderFacts
<1>3. q \in Seq(Int) /\ ToSet(q) = Included(r, Under)
  BY <1>1, InOrderFacts
<1>4. Included(r, Contents) = Included(r, DOMAIN modified) \cup (Included(r, Under) \ removed)
  BY SeenFacts
<1>5. theirs = [i \in DOMAIN q |-> <<table[q[i]], q[i]>>]
  BY DEF Paired
<1>6. WithValues(ref, theirs) =
        [i \in DOMAIN ref |-> <<IF ref[i] \in DOMAIN modified THEN modified[ref[i]] ELSE Theirs(ref[i]), ref[i]>>]
  BY DEF WithValues
<1> HIDE DEF ref, q, theirs
<1>7. ToSet(theirs) = {<<table[k], k>> : k \in ToSet(q)}
  BY <1>5 DEF ToSet
<1>8. ASSUME NEW k \in ToSet(q) PROVE Theirs(k) = table[k]
  <2> DEFINE Its(pair) == pair \in ToSet(theirs) /\ pair[2] = k
             pair0 == CHOOSE pair \in ToSet(theirs) : pair[2] = k
  <2>1. <<table[k], k>> \in ToSet(theirs) /\ <<table[k], k>>[2] = k
    BY <1>7
  <2>2. pair0 \in ToSet(theirs) /\ pair0[2] = k
    BY <2>1
  <2> HIDE DEF pair0
  <2>3. PICK l \in ToSet(q) : pair0 = <<table[l], l>>
    BY <1>7, <2>2
  <2>4. l = k /\ pair0[1] = table[k]
    BY <2>2, <2>3
  <2> QED BY <2>4 DEF pair0
<1> HIDE DEF Theirs
<1>9. ASSUME NEW i \in DOMAIN ref
      PROVE  (IF ref[i] \in DOMAIN modified THEN modified[ref[i]] ELSE Theirs(ref[i])) = Get(ref[i])
  <2>1. ref[i] \in Included(r, Contents)
    BY <1>2 DEF ToSet
  <2>2. ref[i] \in Contents
    BY <2>1 DEF Included
  <2>3. ref[i] \notin DOMAIN modified => ref[i] \in ToSet(q)
    BY <1>3, <1>4, <2>1 DEF Included
  <2> QED BY <1>1, <1>8, <2>2, <2>3
<1>10. WithValues(ref, theirs) = [i \in DOMAIN ref |-> <<Get(ref[i]), ref[i]>>]
  BY <1>6, <1>9
<1> QED BY <1>10 DEF ref, theirs, q

LEMMA TxStreamsAreRight ==
    ASSUME TypeOK, NEW r \in AllRanges, NEW asc \in BOOLEAN, truncated \/ ~LmdbAstray(r, asc),
           Own(r, asc) = InOrder(r, DOMAIN modified, asc)
    PROVE  LET ref == InOrder(r, Contents, asc)
           IN  /\ TxKeyStream(r, asc) = ref
               /\ TxValueStream(r, asc) = [i \in DOMAIN ref |-> <<Get(ref[i]), ref[i]>>]
<1> DEFINE ref == InOrder(r, Contents, asc)
           q == InOrder(r, Under, asc)
           mine == InOrder(r, DOMAIN modified, asc)
           theirs == IF truncated THEN <<>> ELSE ValueStream(r, asc)
<1>1. KeyStream(r, asc) = Found(r, asc) /\ ValueStream(r, asc) = Paired(table, Found(r, asc))
  BY StreamsAreRight
<1>2. Under \in SUBSET Key
  BY ViewFacts
<1>3. q \in Seq(Int) /\ (Under = {} => q = <<>>)
  <2>1. Under = {} => Included(r, Under) = {}
    BY DEF Included
  <2> QED BY <1>2, <2>1, InOrderFacts
<1>4. Paired(table, <<>>) = <<>>
  BY DEF Paired
<1>5. MergeStreams(mine, q, asc) = ref
  BY MergedStream
<1>6. WithValues(ref, Paired(table, q)) = [i \in DOMAIN ref |-> <<Get(ref[i]), ref[i]>>]
  BY ValuesAreRight
<1>7. /\ TxKeyStream(r, asc) = MergeStreams(mine, IF truncated THEN <<>> ELSE KeyStream(r, asc), asc)
      /\ TxValueStream(r, asc) =
            WithValues(MergeStreams(mine, [i \in DOMAIN theirs |-> theirs[i][2]], asc), theirs)
  BY DEF TxKeyStream, TxValueStream
<1>8. ~truncated => Found(r, asc) = q
  BY DEF Found, Under
<1>9. truncated => q = <<>>
  BY <1>3 DEF Under
<1>10. (IF truncated THEN <<>> ELSE KeyStream(r, asc)) = q /\ theirs = Paired(table, q)
  BY <1>1, <1>4, <1>8, <1>9
<1> HIDE DEF ref, q, mine, theirs
<1>11. [i \in DOMAIN theirs |-> theirs[i][2]] = q
  <2>1. theirs = [i \in DOMAIN q |-> <<table[q[i]], q[i]>>]
    BY <1>10 DEF Paired
  <2>2. DOMAIN theirs = DOMAIN q /\ \A i \in DOMAIN q : theirs[i][2] = q[i]
    BY <2>1
  <2>3. q = [i \in DOMAIN q |-> q[i]]
    BY <1>3
  <2> QED BY <2>2, <2>3
<1> QED BY <1>5, <1>6, <1>7, <1>10, <1>11 DEF ref

LEMMA TxScansAreRight ==
    ASSUME TypeOK
    PROVE  TxScansAgree
<1> SUFFICES ASSUME NEW r \in AllRanges
             PROVE  /\ truncated \/ ~LmdbAstray(r, TRUE) =>
                          TxKeys(r) = Included(r, Contents) /\ TxCount(r) = Cardinality(Included(r, Contents))
                    /\ \A k \in TxKeys(r) : TxValues(r)[k] # NoKey
                    /\ \A asc \in BOOLEAN :
                          LET ref == InOrder(r, Contents, asc)
                          IN  (truncated \/ ~LmdbAstray(r, asc)) /\ Own(r, asc) = InOrder(r, DOMAIN modified, asc) =>
                                  /\ TxKeyStream(r, asc) = ref
                                  /\ TxValueStream(r, asc) = [i \in DOMAIN ref |-> <<Get(ref[i]), ref[i]>>]
  BY DEF TxScansAgree
<1>1. /\ TxKeys(r) \in SUBSET Contents
      /\ truncated \/ ~LmdbAstray(r, TRUE) => TxKeys(r) = Included(r, Contents)
  BY TxKeysAreRight
<1>2. \A k \in TxKeys(r) : TxValues(r)[k] # NoKey
  BY <1>1, ViewFacts DEF TxValues
<1> QED BY <1>1, <1>2, TxStreamsAreRight DEF TxCount

-----------------------------------------------------------------------------
(* The transaction's extreme keys.                                         *)

\* The first key of a set in a direction.
IsFirst(e, T, asc) == e \in T /\ \A m \in T : m = e \/ Before(e, m, asc)

LEMMA HeadIsFirst ==
    ASSUME NEW r, NEW D \in SUBSET Key, NEW asc \in BOOLEAN
    PROVE  /\ Included(r, D) # {} => IsFirst(Head(InOrder(r, D, asc)), Included(r, D), asc)
           /\ \A k : IsFirst(k, Included(r, D), asc) => k = Head(InOrder(r, D, asc))
<1> DEFINE S == Included(r, D)
           h == Head(InOrder(r, D, asc))
<1>1. /\ S # {} => h \in S /\ \A l \in S : IF asc THEN h <= l ELSE h >= l
      /\ \A k \in S : (\A l \in S : IF asc THEN k <= l ELSE k >= l) => k = h
  BY HeadIsExtreme
<1>2. S \in SUBSET Int
  BY IncludedFacts
<1> HIDE DEF S, h
<1>3. \A k, l \in Int : (IF asc THEN k <= l ELSE k >= l) <=> l = k \/ Before(k, l, asc)
  BY DEF Before
<1>4. S # {} => IsFirst(h, S, asc)
  BY <1>1, <1>2, <1>3 DEF IsFirst
<1>5. ASSUME NEW k, IsFirst(k, S, asc) PROVE k = h
  BY <1>1, <1>2, <1>3, <1>5 DEF IsFirst
<1> QED BY <1>4, <1>5 DEF S, h

\* A key on the far side of the range.
PastRange(e, r, asc) == e \in Key /\ \A m \in Key : Includes(r, m) => Before(m, e, asc)
Starting(r, k, asc) == IF asc THEN AboveLower(r, k) ELSE BelowUpper(r, k)

\* The in-memory cursor may lead to a key behind the range.
LEMMA MemoryBeyond ==
    ASSUME TypeOK, NEW r \in AllRanges, NEW asc \in BOOLEAN, Included(r, Stored) = {}
    PROVE  LET ks == Ascending(DOMAIN table) i == MemoryStart(ks, r, asc)
           IN  i # 0 => ks[i] \in Stored /\ PastRange(ks[i], r, asc) /\ Starting(r, ks[i], asc)
<1> DEFINE ks == Ascending(DOMAIN table)
           i == MemoryStart(ks, r, asc)
           up == {j \in 1..Len(ks) : AboveLower(r, ks[j])}
           down == {j \in 1..Len(ks) : BelowUpper(r, ks[j])}
<1>1. Stored = DOMAIN table /\ Stored \in SUBSET Key /\ Key \in SUBSET Int
  BY KeysAreIntegers DEF TypeOK, Stored
<1>2. ks \in Seq(Int) /\ ToSet(ks) = Stored
  BY <1>1, SortedKeys
<1> HIDE DEF ks
<1>3. Len(ks) \in Nat /\ DOMAIN ks = 1..Len(ks) /\ \A j \in 1..Len(ks) : ks[j] \in Stored /\ ks[j] \in Int
  BY <1>1, <1>2 DEF ToSet
<1>4. asc => i = IF up # {} THEN Min(up) ELSE 0
  BY DEF MemoryStart, SelectInSeq
<1>5. ~asc => i = IF down # {} THEN Max(down) ELSE 0
  BY DEF MemoryStart, SelectLastInSeq
<1>6. up \in SUBSET (1..Len(ks)) /\ down \in SUBSET (1..Len(ks))
  OBVIOUS
<1>7. i # 0 => i \in 1..Len(ks) /\ Starting(r, ks[i], asc)
  <2> HIDE DEF i
  <2>1. asc /\ i # 0 => i \in up
    <3> HIDE DEF up
    <3> QED BY <1>3, <1>4, <1>6, FirstPosition
  <2>2. ~asc /\ i # 0 => i \in down
    <3> HIDE DEF down
    <3> QED BY <1>3, <1>5, <1>6, GreatestPosition
  <2> QED BY <2>1, <2>2 DEF Starting
<1> HIDE DEF i, up, down
<1> SUFFICES ASSUME i # 0
             PROVE  ks[i] \in Stored /\ PastRange(ks[i], r, asc) /\ Starting(r, ks[i], asc)
  BY DEF ks, i
<1> DEFINE e == ks[i]
<1>8. e \in Stored /\ e \in Int /\ e \in Key /\ Starting(r, e, asc)
  BY <1>1, <1>3, <1>7
<1> HIDE DEF e
<1>9. ~Includes(r, e)
  BY <1>8 DEF Included
<1>10. /\ r.lower \in Int \cup {NoKey} /\ r.upper \in Int \cup {NoKey} /\ NoKey \notin Int
       /\ r.lowerOpen \in BOOLEAN /\ r.upperOpen \in BOOLEAN
  BY <1>1, RangesFacts, KeysAreIntegers
<1>11. ASSUME NEW m \in Key, Includes(r, m) PROVE Before(m, e, asc)
  <2>1. m \in Int
    BY <1>1
  <2>2. CASE asc
    <3>1. ~BelowUpper(r, e)
      BY <1>8, <1>9, <2>2 DEF Includes, Starting
    <3>2. m < e
      BY <1>8, <1>10, <1>11, <2>1, <3>1 DEF Includes, BelowUpper
    <3> QED BY <2>2, <3>2 DEF Before
  <2>3. CASE ~asc
    <3>1. ~AboveLower(r, e)
      BY <1>8, <1>9, <2>3 DEF Includes, Starting
    <3>2. m > e
      BY <1>8, <1>10, <1>11, <2>1, <3>1 DEF Includes, AboveLower
    <3> QED BY <2>3, <3>2 DEF Before
  <2> QED BY <2>2, <2>3
<1> QED BY <1>8, <1>11 DEF PastRange, e

\* What is no key in the range, at the end of a search.
NoneLeft(e, r, asc) == e = NoKey \/ (kind = "lmdb" /\ e = Null) \/ PastRange(e, r, asc)

LEMMA ExtremeIsFirst ==
    ASSUME TypeOK, NEW r \in AllRanges, NEW asc \in BOOLEAN
    PROVE  LET e == ExtremeKey(r, ~asc)
           IN  /\ Included(r, Stored) # {} /\ ~LmdbAstray(r, asc) => IsFirst(e, Included(r, Stored), asc)
               /\ Included(r, Stored) = {} =>
                     \/ e = NoKey \/ (kind = "lmdb" /\ e = Null)
                     \/ e \in Stored /\ PastRange(e, r, asc) /\ Starting(r, e, asc)
               /\ LmdbAstray(r, asc) => kind = "lmdb" /\ e = Null
<1> DEFINE e == ExtremeKey(r, ~asc)
           a == InOrder(r, Stored, asc)
           S == Included(r, Stored)
<1>1. /\ a # <<>> /\ ~LmdbAstray(r, asc) => e = Head(a)
      /\ LmdbAstray(r, asc) => e = Null
  BY ExtremesAreHeads
<1>2. Stored \in SUBSET Key
  BY DEF TypeOK, Stored
<1>3. a = <<>> <=> S = {}
  BY <1>2, InOrderFacts
<1>4. S # {} => IsFirst(Head(a), S, asc)
  BY <1>2, HeadIsFirst
<1>5. LmdbAstray(r, asc) => kind = "lmdb"
  BY DEF LmdbAstray
<1>6. ASSUME S = {}
      PROVE  \/ e = NoKey \/ (kind = "lmdb" /\ e = Null)
             \/ e \in Stored /\ PastRange(e, r, asc) /\ Starting(r, e, asc)
  <2>1. /\ MemoryKeyStream(table, r, asc) = a
        /\ Visited(table, LevelScan(Ascending(DOMAIN table), r, asc)) = a
        /\ Visited(table, IdbScan(Ascending(DOMAIN table), r, asc)) = a
        /\ kind = "lmdb" => LmdbRead(table, r, asc, numeric) = Found(r, asc)
    BY ScansOfTable
  <2>2. a = <<>> /\ (kind = "lmdb" => Found(r, asc) = <<>>)
    BY <1>3, <1>6 DEF Found
  <2>3. Limited(<<>>, 1) = <<>>
    <3>1. Len(<<>>) = 0
      OBVIOUS
    <3> QED BY <3>1 DEF Limited
  <2>4. \A none : First(<<>>, none) = none
    BY DEF First
  <2> HIDE DEF a
  <2>5. CASE kind = "memory"
    <3> DEFINE ks == Ascending(DOMAIN table)
               i == MemoryStart(ks, r, asc)
    <3>1. e = IF i = 0 THEN NoKey ELSE ks[i]
      BY <2>5 DEF ExtremeKey, MaxKey, MinKey, MemoryMaxKey, MemoryMinKey
    <3>2. i # 0 => ks[i] \in Stored /\ PastRange(ks[i], r, asc) /\ Starting(r, ks[i], asc)
      BY <1>6, MemoryBeyond
    <3> HIDE DEF ks, i, e
    <3> QED BY <3>1, <3>2
  <2>6. CASE kind = "leveldb"
    <3>1. LevelRead(table, r, asc, 1) = <<>>
      BY <2>1, <2>2, <2>3 DEF LevelRead
    <3>2. e = NoKey
      BY <2>4, <2>6, <3>1 DEF ExtremeKey, MaxKey, MinKey, LevelMaxKey, LevelMinKey
    <3> QED BY <3>2
  <2>7. CASE kind = "indexeddb"
    <3>1. e = NoKey
      BY <2>1, <2>2, <2>4, <2>7 DEF ExtremeKey, MaxKey, MinKey, IdbMaxKey, IdbMinKey, IdbKeyStream
    <3> QED BY <3>1
  <2>8. CASE kind = "lmdb"
    <3>1. e = Null
      BY <2>1, <2>2, <2>4, <2>8 DEF ExtremeKey, MaxKey, MinKey, LmdbMaxKey, LmdbMinKey
    <3> QED BY <2>8, <3>1
  <2> QED BY <2>5, <2>6, <2>7, <2>8 DEF TypeOK
<1> HIDE DEF e, a, S
<1>7. /\ S # {} /\ ~LmdbAstray(r, asc) => IsFirst(e, S, asc)
      /\ S = {} => \/ e = NoKey \/ (kind = "lmdb" /\ e = Null)
                   \/ e \in Stored /\ PastRange(e, r, asc) /\ Starting(r, e, asc)
      /\ LmdbAstray(r, asc) => kind = "lmdb" /\ e = Null
  BY <1>1, <1>3, <1>4, <1>5, <1>6
<1> QED BY <1>7 DEF e, S

\* What lies beyond a key.
Beyond(l, asc) == IF asc THEN LowerBound(l, TRUE) ELSE UpperBound(l, TRUE)

LEMMA BeyondFacts ==
    ASSUME NEW l \in Key, NEW asc \in BOOLEAN
    PROVE  /\ Beyond(l, asc) \in AllRanges
           /\ \A k \in Key : Includes(Beyond(l, asc), k) <=> Before(l, k, asc)
           /\ \A k \in Key : Starting(Beyond(l, asc), k, asc) => Before(l, k, asc)
           /\ l \in Stored => ~LmdbAstray(Beyond(l, asc), asc)
<1>1. l \in Int /\ NoKey \notin Int /\ l # NoKey /\ NoKey \notin Key /\ \A k \in Key : k \in Int
  BY KeysAreIntegers
<1>2. CASE asc
  <2>1. Beyond(l, asc) = [lower |-> l, upper |-> NoKey, lowerOpen |-> TRUE, upperOpen |-> FALSE]
    BY <1>2 DEF Beyond, LowerBound, Bound
  <2>2. Beyond(l, asc) \in AllRanges
    BY <1>1, <2>1 DEF AllRanges, Ranges
  <2>3. \A k \in Key : (Includes(Beyond(l, asc), k) <=> l < k) /\ (AboveLower(Beyond(l, asc), k) <=> l < k)
    BY <1>1, <2>1 DEF Includes, AboveLower, BelowUpper
  <2>4. ~LmdbAstray(Beyond(l, asc), asc)
    <3>1. Beyond(l, asc).lowerOpen
      BY <2>1
    <3>2. ~ExactMatch(Beyond(l, asc))
      BY <3>1 DEF ExactMatch
    <3> QED BY <1>2, <3>2 DEF LmdbAstray
  <2> QED BY <1>2, <2>2, <2>3, <2>4 DEF Before, Starting
<1>3. CASE ~asc
  <2>1. Beyond(l, asc) = [lower |-> NoKey, upper |-> l, lowerOpen |-> FALSE, upperOpen |-> TRUE]
    BY <1>3 DEF Beyond, UpperBound, Bound
  <2>2. Beyond(l, asc) \in AllRanges
    BY <1>1, <2>1 DEF AllRanges, Ranges
  <2>3. \A k \in Key : (Includes(Beyond(l, asc), k) <=> l > k) /\ (BelowUpper(Beyond(l, asc), k) <=> l > k)
    BY <1>1, <2>1 DEF Includes, AboveLower, BelowUpper
  <2>4. l \in Stored => ~LmdbAstray(Beyond(l, asc), asc)
    BY <1>1, <1>3, <2>1 DEF LmdbAstray, ExactMatch
  <2> QED BY <1>3, <2>2, <2>3, <2>4 DEF Before, Starting
<1> QED BY <1>2, <1>3

LEMMA BeyondExtreme ==
    ASSUME TypeOK, NEW l \in Key, NEW asc \in BOOLEAN
    PROVE  LET e == ExtremeKey(Beyond(l, asc), ~asc) S == {m \in Stored : Before(l, m, asc)}
           IN  /\ e = NoKey \/ (kind = "lmdb" /\ e = Null) \/ IsFirst(e, S, asc)
               /\ l \in Stored /\ S # {} => IsFirst(e, S, asc)
<1> DEFINE r == Beyond(l, asc)
           e == ExtremeKey(r, ~asc)
           S == {m \in Stored : Before(l, m, asc)}
<1>1. Stored \in SUBSET Key
  BY DEF TypeOK, Stored
<1>2. /\ r \in AllRanges
      /\ \A k \in Key : Includes(r, k) <=> Before(l, k, asc)
      /\ \A k \in Key : Starting(r, k, asc) => Before(l, k, asc)
      /\ l \in Stored => ~LmdbAstray(r, asc)
  BY BeyondFacts
<1> HIDE DEF r
<1>3. Included(r, Stored) = S
  BY <1>1, <1>2 DEF Included
<1>4. /\ Included(r, Stored) # {} /\ ~LmdbAstray(r, asc) => IsFirst(e, Included(r, Stored), asc)
      /\ Included(r, Stored) = {} =>
            \/ e = NoKey \/ (kind = "lmdb" /\ e = Null)
            \/ e \in Stored /\ PastRange(e, r, asc) /\ Starting(r, e, asc)
      /\ LmdbAstray(r, asc) => kind = "lmdb" /\ e = Null
  BY <1>2, ExtremeIsFirst
<1> HIDE DEF e
<1>5. S = {} => ~(e \in Stored /\ Starting(r, e, asc))
  BY <1>1, <1>2
<1> HIDE DEF S
<1>6. /\ e = NoKey \/ (kind = "lmdb" /\ e = Null) \/ IsFirst(e, S, asc)
      /\ l \in Stored /\ S # {} => IsFirst(e, S, asc)
  BY <1>2, <1>3, <1>4, <1>5
<1> QED BY <1>6 DEF r, e, S

-----------------------------------------------------------------------------
(* Past the keys that the transaction has removed.                         *)

Nodes == Key \cup {NoKey, Null}
SkipTo(l, r, asc) == InRange(r, ExtremeKey(Beyond(l, asc), ~asc))
NextKey(r, k, asc) == IF asc THEN NextMin(r, k) ELSE NextMax(r, k)

\* f goes on from every removed key, and stays at every other.
Skips(f, r, asc) ==
    f \in [Nodes -> Nodes] /\ \A l \in Nodes : f[l] = IF l \in removed THEN f[SkipTo(l, r, asc)] ELSE l

\* From a removed key the search goes further along the range, or ends.
LEMMA SkipFacts ==
    ASSUME TypeOK, NEW r, NEW asc \in BOOLEAN, NEW l \in Key
    PROVE  SkipTo(l, r, asc) \in {NoKey, Null} \cup {m \in Key : Before(l, m, asc)}
<1> DEFINE e == ExtremeKey(Beyond(l, asc), ~asc)
           S == {m \in Stored : Before(l, m, asc)}
<1>1. e = NoKey \/ (kind = "lmdb" /\ e = Null) \/ IsFirst(e, S, asc)
  BY BeyondExtreme
<1>2. Stored \in SUBSET Key
  BY DEF TypeOK, Stored
<1> HIDE DEF e
<1>3. e \in {NoKey, Null} \cup {m \in Key : Before(l, m, asc)}
  BY <1>1, <1>2 DEF IsFirst
<1>4. InRange(r, e) \in {NoKey, e}
  BY DEF InRange
<1>5. SkipTo(l, r, asc) = InRange(r, e)
  BY DEF SkipTo, e
<1> QED BY <1>3, <1>4, <1>5

\* So that no search goes on for ever.
Below(r, asc) == [l \in Nodes |-> IF l \in removed THEN SkipTo(l, r, asc) ELSE NoKey]
Distance(asc) ==
    [l \in Nodes |-> IF l \in Key THEN Cardinality({m \in Key : Before(l, m, asc)}) + 2
                     ELSE IF l = Null THEN 1 ELSE 0]

LEMMA SearchesEnd ==
    ASSUME TypeOK, NEW r, NEW asc \in BOOLEAN
    PROVE  Chained(Nodes, NoKey, Below(r, asc), Distance(asc))
<1> DEFINE rest(l) == {m \in Key : Before(l, m, asc)}
           D == Distance(asc)
           B == Below(r, asc)
<1>1. /\ Key \in SUBSET Int /\ IsFiniteSet(Key) /\ NoKey \notin Key /\ Null \notin Key /\ Null # NoKey
  BY KeysAreIntegers
<1>2. removed \in SUBSET Key
  BY DEF TypeOK
<1>3. ASSUME NEW l \in Key PROVE IsFiniteSet(rest(l)) /\ Cardinality(rest(l)) \in Nat
  <2> HIDE DEF rest
  <2>1. rest(l) \in SUBSET Key
    BY DEF rest
  <2> QED BY <1>1, <2>1, FS_Subset, FS_CardinalityType
<1>4. ASSUME NEW l \in Key, NEW m \in rest(l) PROVE Cardinality(rest(m)) < Cardinality(rest(l))
  <2>1. m \in Key /\ m \in Int /\ l \in Int /\ Before(l, m, asc) /\ ~Before(m, m, asc)
    BY <1>1, BeforeFacts
  <2>2. rest(m) \in SUBSET rest(l)
    BY <1>1, <2>1, BeforeFacts
  <2>3. m \notin rest(m)
    BY <2>1
  <2> HIDE DEF rest
  <2>4. Cardinality(rest(m)) <= Cardinality(rest(l)) /\ (Cardinality(rest(l)) = Cardinality(rest(m)) => rest(l) = rest(m))
    BY <1>3, <2>2, FS_Subset
  <2>5. Cardinality(rest(l)) # Cardinality(rest(m))
    BY <2>3, <2>4
  <2> QED BY <1>3, <2>1, <2>4, <2>5
<1>5. \A l \in Nodes : D[l] = IF l \in Key THEN Cardinality(rest(l)) + 2 ELSE IF l = Null THEN 1 ELSE 0
  BY DEF Distance
<1>6. D \in [Nodes -> Nat]
  <2>1. \A l \in Nodes : D[l] \in Nat
    <3> HIDE DEF rest, D
    <3> QED BY <1>3, <1>5
  <2>2. D = [l \in Nodes |-> D[l]]
    BY DEF Distance
  <2> HIDE DEF D
  <2> QED BY <2>1, <2>2
<1>7. ASSUME NEW l \in Nodes \ {NoKey} PROVE B[l] \in Nodes /\ D[B[l]] < D[l]
  <2>1. B[l] = IF l \in removed THEN SkipTo(l, r, asc) ELSE NoKey
    BY DEF Below
  <2>2. l \in removed => l \in Key /\ B[l] \in {NoKey, Null} \cup rest(l)
    BY <1>2, <2>1, SkipFacts
  <2>3. l \notin removed => B[l] = NoKey
    BY <2>1
  <2>4. rest(l) \in SUBSET Key
    OBVIOUS
  <2> HIDE DEF B, D, rest
  <2>5. B[l] \in Nodes
    BY <2>2, <2>3, <2>4 DEF Nodes
  <2>6. D[NoKey] = 0 /\ D[Null] = 1
    BY <1>1, <1>5 DEF Nodes
  <2>7. l \in Key => D[l] = Cardinality(rest(l)) + 2 /\ Cardinality(rest(l)) \in Nat
    BY <1>3, <1>5 DEF Nodes
  <2>8. l \notin Key => l = Null
    BY DEF Nodes
  <2>9. CASE B[l] = NoKey
    BY <2>5, <2>6, <2>7, <2>8, <2>9
  <2>10. CASE B[l] # NoKey /\ B[l] = Null
    BY <2>2, <2>3, <2>5, <2>6, <2>7, <2>10
  <2>11. CASE B[l] # NoKey /\ B[l] # Null
    <3>1. l \in Key /\ B[l] \in rest(l) /\ B[l] \in Key
      BY <2>2, <2>3, <2>4, <2>11
    <3>2. Cardinality(rest(B[l])) < Cardinality(rest(l))
      BY <1>4, <3>1
    <3>3. D[B[l]] = Cardinality(rest(B[l])) + 2 /\ Cardinality(rest(B[l])) \in Nat
      BY <1>3, <1>5, <3>1 DEF Nodes
    <3> QED BY <2>5, <2>7, <3>1, <3>2, <3>3
  <2> QED BY <2>5, <2>9, <2>10, <2>11
<1>8. NoKey \in Nodes
  BY DEF Nodes
<1> HIDE DEF B, D
<1>9. Chained(Nodes, NoKey, B, D)
  BY <1>6, <1>7, <1>8 DEF Chained
<1> QED BY <1>9 DEF B, D

LEMMA SkipsExists ==
    ASSUME TypeOK, NEW r, NEW asc \in BOOLEAN
    PROVE  \E f : Skips(f, r, asc)
<1> DEFINE B == Below(r, asc)
           D == Distance(asc)
           g == [l \in Nodes |-> [x \in Nodes |-> IF l \in removed THEN x ELSE l]]
<1>1. Chained(Nodes, NoKey, B, D)
  BY SearchesEnd
<1>2. B \in [Nodes -> Nodes]
  <2>1. \A l \in Nodes : B[l] = IF l \in removed THEN SkipTo(l, r, asc) ELSE NoKey
    BY DEF Below
  <2>2. B = [l \in Nodes |-> B[l]]
    BY DEF Below
  <2>3. \A l \in Nodes : B[l] \in Nodes
    BY <2>1, SkipFacts DEF TypeOK, Nodes
  <2> HIDE DEF B
  <2> QED BY <2>2, <2>3
<1>3. \A l \in Nodes : l \in removed => B[l] = SkipTo(l, r, asc)
  BY DEF Below
<1>4. g \in [Nodes -> [Nodes -> Nodes]] /\ \A l, x \in Nodes : g[l][x] = IF l \in removed THEN x ELSE l
  OBVIOUS
<1>5. NoKey \in Nodes /\ NoKey \notin removed
  BY KeysAreIntegers DEF TypeOK, Nodes
<1> HIDE DEF B, D, g
<1>6. PICK f : GoesUp(f, Nodes, Nodes, NoKey, NoKey, B, g)
  BY <1>1, <1>4, <1>5, ChainRecursion
<1>7. f \in [Nodes -> Nodes] /\ \A l \in Nodes : f[l] = IF l = NoKey THEN NoKey ELSE g[l][f[B[l]]]
  BY <1>6 DEF GoesUp
<1>8. ASSUME NEW l \in Nodes PROVE f[l] = IF l \in removed THEN f[SkipTo(l, r, asc)] ELSE l
  <2>1. B[l] \in Nodes /\ f[B[l]] \in Nodes
    BY <1>2, <1>7
  <2>2. CASE l = NoKey
    BY <1>5, <1>7, <2>2
  <2>3. CASE l # NoKey
    <3>1. f[l] = IF l \in removed THEN f[B[l]] ELSE l
      BY <1>4, <1>7, <2>1, <2>3
    <3> QED BY <1>3, <3>1
  <2> QED BY <2>2, <2>3
<1>9. Skips(f, r, asc)
  BY <1>7, <1>8 DEF Skips
<1> QED BY <1>9

\* The search for the transaction's extreme key is such a function.
LEMMA NextIsSkips ==
    ASSUME TypeOK, NEW r, NEW asc \in BOOLEAN
    PROVE  \E f : Skips(f, r, asc) /\ \A k : NextKey(r, k, asc) = f[k]
<1> DEFINE Up(f) == f = [l \in Key \cup {NoKey, Null} |->
                            IF l \in removed THEN f[InRange(r, MinKey(LowerBound(l, TRUE)))] ELSE l]
           Down(f) == f = [l \in Key \cup {NoKey, Null} |->
                            IF l \in removed THEN f[InRange(r, MaxKey(UpperBound(l, TRUE)))] ELSE l]
<1>1. PICK h : Skips(h, r, asc)
  BY SkipsExists
<1>2. h \in [Nodes -> Nodes] /\ h = [l \in Nodes |-> IF l \in removed THEN h[SkipTo(l, r, asc)] ELSE l]
  <2>1. h = [l \in Nodes |-> h[l]]
    BY <1>1 DEF Skips
  <2> QED BY <1>1, <2>1 DEF Skips
<1>3. ASSUME NEW f, f = [l \in Nodes |-> IF l \in removed THEN f[SkipTo(l, r, asc)] ELSE l] PROVE Skips(f, r, asc)
  <2>1. \A l \in Nodes : f[l] = IF l \in removed THEN f[SkipTo(l, r, asc)] ELSE l
    BY <1>3
  <2> DEFINE B == Below(r, asc)
             P == {l \in Nodes : f[l] \in Nodes}
  <2>2. Chained(Nodes, NoKey, B, Distance(asc))
    BY SearchesEnd
  <2>3. \A l \in Nodes : B[l] = IF l \in removed THEN SkipTo(l, r, asc) ELSE NoKey
    BY DEF Below
  <2>4. NoKey \in Nodes /\ NoKey \notin removed
    BY KeysAreIntegers DEF TypeOK, Nodes
  <2> HIDE DEF B
  <2>5. NoKey \in P /\ \A l \in Nodes \ {NoKey} : B[l] \in P => l \in P
    BY <2>1, <2>3, <2>4
  <2>6. Nodes \subseteq P
    <3> HIDE DEF P
    <3> QED BY <2>2, <2>5, ChainInduction
  <2>7. f \in [Nodes -> Nodes]
    <3>1. \A l \in Nodes : f[l] \in Nodes
      BY <2>6
    <3>2. f = [l \in Nodes |-> f[l]]
      BY <1>3
    <3> QED BY <3>1, <3>2
  <2> QED BY <2>1, <2>7 DEF Skips
<1>4. CASE asc
  <2> DEFINE f == CHOOSE f : Up(f)
  <2>1. \A k : Up(k) <=> k = [l \in Nodes |-> IF l \in removed THEN k[SkipTo(l, r, asc)] ELSE l]
    BY <1>4 DEF SkipTo, ExtremeKey, Beyond, Nodes
  <2>2. \A k : NextMin(r, k) = f[k]
    BY DEF NextMin
  <2>3. Up(f)
    <3>1. Up(h)
      BY <1>2, <2>1
    <3> HIDE DEF Up
    <3> QED BY <3>1
  <2> HIDE DEF f
  <2>4. Skips(f, r, asc)
    BY <1>3, <2>1, <2>3
  <2>5. \A k : NextKey(r, k, asc) = f[k]
    BY <1>4, <2>2 DEF NextKey
  <2> QED BY <2>4, <2>5
<1>5. CASE ~asc
  <2> DEFINE f == CHOOSE f : Down(f)
  <2>1. \A k : Down(k) <=> k = [l \in Nodes |-> IF l \in removed THEN k[SkipTo(l, r, asc)] ELSE l]
    BY <1>5 DEF SkipTo, ExtremeKey, Beyond, Nodes
  <2>2. \A k : NextMax(r, k) = f[k]
    BY DEF NextMax
  <2>3. Down(f)
    <3>1. Down(h)
      BY <1>2, <2>1
    <3> HIDE DEF Down
    <3> QED BY <3>1
  <2> HIDE DEF f
  <2>4. Skips(f, r, asc)
    BY <1>3, <2>1, <2>3
  <2>5. \A k : NextKey(r, k, asc) = f[k]
    BY <1>5, <2>2 DEF NextKey
  <2> QED BY <2>4, <2>5
<1> QED BY <1>4, <1>5

\* A range holds what lies between two of its keys.
LEMMA RangeIsConvex ==
    ASSUME NEW r \in AllRanges, NEW asc \in BOOLEAN, NEW a \in Key, NEW b \in Key, NEW c \in Key,
           Includes(r, a), Includes(r, c), Before(a, b, asc), Before(b, c, asc)
    PROVE  Includes(r, b)
<1>1. a \in Int /\ b \in Int /\ c \in Int
  BY KeysAreIntegers
<1>2. r.lower \in Int \cup {NoKey} /\ r.upper \in Int \cup {NoKey} /\ NoKey \notin Int
  BY RangesFacts, KeysAreIntegers
<1>3. (a < b /\ b < c) \/ (c < b /\ b < a)
  BY <1>1 DEF Before
<1>4. AboveLower(r, b)
  BY <1>1, <1>2, <1>3 DEF Includes, AboveLower
<1>5. BelowUpper(r, b)
  BY <1>1, <1>2, <1>3 DEF Includes, BelowUpper
<1> QED BY <1>4, <1>5 DEF Includes

\* The parent's keys that are left in the range from l on, and what a search from l is to give.
Behind(r, l, asc) == {m \in Stored \ removed : Includes(r, m) /\ (m = l \/ Before(l, m, asc))}
Outcome(e, T, r, asc) == IF T # {} THEN IsFirst(e, T, asc) ELSE NoneLeft(e, r, asc)

\* Where a search may be: at a stored key that is in the range or past it, or at its end.
Reached(l, r, asc) == l \in Stored /\ (Includes(r, l) \/ PastRange(l, r, asc))
Ended(l) == l = NoKey \/ (kind = "lmdb" /\ l = Null)

LEMMA NothingPast ==
    ASSUME TypeOK, NEW r, NEW asc \in BOOLEAN, NEW l, PastRange(l, r, asc)
    PROVE  ~Includes(r, l) /\ Behind(r, l, asc) = {}
<1>1. Stored \in SUBSET Key /\ Key \in SUBSET Int
  BY KeysAreIntegers DEF TypeOK, Stored
<1>2. l \in Key /\ l \in Int /\ ~Before(l, l, asc)
  BY <1>1, BeforeFacts DEF PastRange
<1>3. ~Includes(r, l)
  BY <1>2 DEF PastRange
<1>4. ASSUME NEW m \in Key, Includes(r, m) PROVE m # l /\ ~Before(l, m, asc)
  <2>1. Before(m, l, asc) /\ m \in Int
    BY <1>1, <1>4 DEF PastRange
  <2> QED BY <1>2, <2>1, BeforeFacts
<1> QED BY <1>1, <1>3, <1>4 DEF Behind

\* One step of the search, from a removed key.
LEMMA SearchStep ==
    ASSUME TypeOK, NEW r \in AllRanges, NEW asc \in BOOLEAN, NEW l \in Key, l \in removed, Reached(l, r, asc)
    PROVE  LET n == SkipTo(l, r, asc)
           IN  \/ Ended(n) /\ Behind(r, l, asc) = {}
               \/ Reached(n, r, asc) /\ n \in Key /\ Behind(r, n, asc) = Behind(r, l, asc)
<1> DEFINE e == ExtremeKey(Beyond(l, asc), ~asc)
           S == {m \in Stored : Before(l, m, asc)}
           n == SkipTo(l, r, asc)
<1>1. Stored \in SUBSET Key /\ Key \in SUBSET Int /\ NoKey \notin Key /\ Null \notin Key
  BY KeysAreIntegers DEF TypeOK, Stored
<1>2. l \in Stored /\ (Includes(r, l) \/ PastRange(l, r, asc)) /\ l \in Int
  BY <1>1 DEF Reached
<1>3. /\ e = NoKey \/ (kind = "lmdb" /\ e = Null) \/ IsFirst(e, S, asc)
      /\ S # {} => IsFirst(e, S, asc)
  BY <1>2, BeyondExtreme
<1>4. n = InRange(r, e)
  BY DEF SkipTo
<1> HIDE DEF e
<1>5. \A m : m \in Behind(r, l, asc) <=> m \in S /\ m \notin removed /\ Includes(r, m)
  BY DEF Behind
<1> HIDE DEF n
<1>6. CASE S = {}
  <2>1. Behind(r, l, asc) = {}
    BY <1>5, <1>6
  <2>2. Ended(e)
    BY <1>3, <1>6 DEF Ended, IsFirst
  <2>3. n = NoKey \/ n = e
    BY <1>4 DEF InRange
  <2>4. Ended(n)
    BY <2>2, <2>3 DEF Ended
  <2> QED BY <2>1, <2>4 DEF n
<1>7. CASE S # {}
  <2>1. e \in Stored /\ Before(l, e, asc) /\ \A m \in S : m = e \/ Before(e, m, asc)
    BY <1>3, <1>7 DEF IsFirst
  <2>2. e \in Key /\ e \in Int /\ e # NoKey /\ e # Null
    BY <1>1, <2>1
  <2>3. LeftRange(r, e) <=> r # Everything /\ ~Includes(r, e)
    BY <2>2 DEF LeftRange
  <2>4. Includes(Everything, e)
    BY DEF Everything, Bound, Includes, AboveLower, BelowUpper
  <2>5. CASE Includes(r, e)
    <3>1. n = e
      BY <1>4, <2>3, <2>5 DEF InRange
    <3>2. ASSUME NEW m PROVE m \in Behind(r, e, asc) <=> m \in Behind(r, l, asc)
      <4>1. m \in Stored => m \in Int
        BY <1>1
      <4>2. m \in Stored /\ (m = e \/ Before(e, m, asc)) => m \in S
        BY <1>2, <2>1, <2>2, <4>1, BeforeFacts
      <4>3. m \in S => m \in Stored /\ (m = e \/ Before(e, m, asc))
        BY <2>1
      <4> HIDE DEF S
      <4> QED BY <1>5, <4>2, <4>3 DEF Behind
    <3>3. Behind(r, e, asc) = Behind(r, l, asc)
      <4>1. Behind(r, e, asc) \in SUBSET Stored /\ Behind(r, l, asc) \in SUBSET Stored
        BY DEF Behind
      <4> QED BY <3>2, <4>1
    <3>4. Reached(e, r, asc)
      BY <2>1, <2>5 DEF Reached
    <3> QED BY <2>2, <3>1, <3>3, <3>4 DEF n
  <2>6. CASE ~Includes(r, e)
    <3>1. n = NoKey
      BY <1>4, <2>3, <2>4, <2>6 DEF InRange
    <3>2. ASSUME NEW m \in Behind(r, l, asc) PROVE FALSE
      <4>1. m \in S /\ Includes(r, m) /\ m \in Key
        BY <1>1, <1>5, <3>2
      <4>2. Before(e, m, asc)
        BY <2>1, <2>6, <4>1
      <4>3. CASE Includes(r, l)
        BY <2>1, <2>2, <2>6, <4>1, <4>2, <4>3, RangeIsConvex
      <4>4. CASE PastRange(l, r, asc)
        BY <3>2, <4>4, NothingPast
      <4> QED BY <1>2, <4>3, <4>4
    <3>3. Ended(n) /\ Behind(r, l, asc) = {}
      BY <3>1, <3>2 DEF Ended
    <3> QED BY <3>3 DEF n
  <2> QED BY <2>5, <2>6
<1> QED BY <1>6, <1>7

\* A search gives the first key that is left, or that there is none.
LEMMA SearchFacts ==
    ASSUME TypeOK, NEW r \in AllRanges, NEW asc \in BOOLEAN
    PROVE  /\ \A l : Reached(l, r, asc) => Outcome(NextKey(r, l, asc), Behind(r, l, asc), r, asc)
           /\ \A l : Ended(l) => NextKey(r, l, asc) = l
<1>1. PICK f : Skips(f, r, asc) /\ \A k : NextKey(r, k, asc) = f[k]
  BY NextIsSkips
<1>2. \A l \in Nodes : f[l] = IF l \in removed THEN f[SkipTo(l, r, asc)] ELSE l
  BY <1>1 DEF Skips
<1>3. /\ Stored \in SUBSET Key /\ Key \in SUBSET Int /\ NoKey \notin Key /\ Null \notin Key
      /\ removed \in SUBSET Key
  BY KeysAreIntegers DEF TypeOK, Stored
<1>4. ASSUME NEW l, Ended(l) PROVE f[l] = l
  BY <1>2, <1>3, <1>4 DEF Ended, Nodes
<1> DEFINE B == Below(r, asc)
           P == {l \in Nodes : Reached(l, r, asc) => Outcome(f[l], Behind(r, l, asc), r, asc)}
<1>5. Chained(Nodes, NoKey, B, Distance(asc))
  BY SearchesEnd
<1>6. NoKey \in P
  BY <1>3 DEF Nodes, Reached
<1>7. ASSUME NEW l \in Nodes \ {NoKey}, B[l] \in P PROVE l \in P
  <2> SUFFICES ASSUME Reached(l, r, asc) PROVE Outcome(f[l], Behind(r, l, asc), r, asc)
    OBVIOUS
  <2>1. l \in Stored /\ l \in Key /\ l \in Int /\ (Includes(r, l) \/ PastRange(l, r, asc))
    BY <1>3 DEF Reached
  <2>2. CASE l \notin removed
    <3>1. f[l] = l
      BY <1>2, <2>2
    <3>2. CASE Includes(r, l)
      <4>1. l \in Behind(r, l, asc) /\ \A m \in Behind(r, l, asc) : m = l \/ Before(l, m, asc)
        BY <2>1, <2>2, <3>2 DEF Behind
      <4> QED BY <3>1, <4>1 DEF Outcome, IsFirst
    <3>3. CASE PastRange(l, r, asc)
      <4>1. Behind(r, l, asc) = {}
        BY <3>3, NothingPast
      <4> QED BY <3>1, <3>3, <4>1 DEF Outcome, NoneLeft
    <3> QED BY <2>1, <3>2, <3>3
  <2>3. CASE l \in removed
    <3> DEFINE n == SkipTo(l, r, asc)
    <3>1. f[l] = f[n]
      BY <1>2, <2>3
    <3>2. B[l] = n
      BY <2>3 DEF Below
    <3>3. \/ Ended(n) /\ Behind(r, l, asc) = {}
          \/ Reached(n, r, asc) /\ n \in Key /\ Behind(r, n, asc) = Behind(r, l, asc)
      BY <2>1, <2>3, SearchStep
    <3> HIDE DEF n, B
    <3>4. CASE Ended(n) /\ Behind(r, l, asc) = {}
      BY <1>4, <3>1, <3>4 DEF Outcome, NoneLeft, Ended
    <3>5. CASE Reached(n, r, asc) /\ n \in Key /\ Behind(r, n, asc) = Behind(r, l, asc)
      <4>1. Outcome(f[n], Behind(r, n, asc), r, asc)
        BY <1>7, <3>2, <3>5
      <4> QED BY <3>1, <3>5, <4>1
    <3> QED BY <3>3, <3>4, <3>5
  <2> QED BY <2>2, <2>3
<1>8. Nodes \subseteq P
  <2> HIDE DEF P, B
  <2> QED BY <1>5, <1>6, <1>7, ChainInduction
<1>9. \A l : Reached(l, r, asc) => l \in Nodes
  BY <1>3 DEF Reached, Nodes
<1> QED BY <1>1, <1>4, <1>8, <1>9

\* What the transaction gets from its parent.
FromParent(r, asc) == IF truncated THEN NoKey ELSE NextKey(r, ExtremeKey(r, ~asc), asc)
\* Where the search can be relied on.
CanUse(r, asc) ==
    truncated \/ kind # "lmdb" \/ (~LmdbAstray(r, asc) /\ Included(r, Stored \ removed) # {})

LEMMA FromParentFacts ==
    ASSUME TypeOK, NEW r \in AllRanges, NEW asc \in BOOLEAN, CanUse(r, asc)
    PROVE  LET e == FromParent(r, asc) T == Included(r, Under \ removed)
           IN  /\ T # {} => IsFirst(e, T, asc)
               /\ T = {} => e = NoKey \/ PastRange(e, r, asc)
<1> DEFINE e == FromParent(r, asc)
           T == Included(r, Under \ removed)
           first == ExtremeKey(r, ~asc)
           S == Included(r, Stored)
<1>1. CASE truncated
  <2>1. T = {}
    BY <1>1 DEF Under, Included
  <2>2. e = NoKey
    BY <1>1 DEF FromParent
  <2> QED BY <2>1, <2>2
<1>2. CASE ~truncated
  <2>1. T = Included(r, Stored \ removed) /\ T = S \ removed
    BY <1>2 DEF Under, Included
  <2>2. e = NextKey(r, first, asc)
    BY <1>2 DEF FromParent
  <2>3. T = {} => kind # "lmdb"
    BY <1>2, <2>1 DEF CanUse
  <2>4. ~LmdbAstray(r, asc)
    BY <1>2 DEF CanUse, LmdbAstray
  <2>5. /\ S # {} => IsFirst(first, S, asc)
        /\ S = {} => Ended(first) \/ (first \in Stored /\ PastRange(first, r, asc))
    BY <2>4, ExtremeIsFirst DEF Ended
  <2>6. /\ Reached(first, r, asc) => Outcome(NextKey(r, first, asc), Behind(r, first, asc), r, asc)
        /\ Ended(first) => NextKey(r, first, asc) = first
    BY SearchFacts
  <2>7. \A m : m \in S <=> m \in Stored /\ Includes(r, m)
    BY DEF Included
  <2> HIDE DEF S, T, e, first
  <2>8. CASE S # {}
    <3>1. first \in Stored /\ Includes(r, first) /\ \A m \in S : m = first \/ Before(first, m, asc)
      BY <2>5, <2>7, <2>8 DEF IsFirst
    <3>2. Behind(r, first, asc) = T
      BY <2>1, <2>7, <3>1 DEF Behind
    <3>3. Outcome(e, T, r, asc)
      BY <2>2, <2>6, <3>1, <3>2 DEF Reached
    <3>4. /\ T # {} => IsFirst(e, T, asc)
          /\ T = {} => e = NoKey \/ PastRange(e, r, asc)
      BY <2>3, <3>3 DEF Outcome, NoneLeft
    <3> QED BY <3>4 DEF T, e
  <2>9. CASE S = {}
    <3>1. T = {} /\ kind # "lmdb"
      BY <2>1, <2>3, <2>9
    <3>2. CASE Ended(first)
      <4>1. e = NoKey
        BY <2>2, <2>6, <3>1, <3>2 DEF Ended
      <4> QED BY <3>1, <4>1 DEF T, e
    <3>3. CASE first \in Stored /\ PastRange(first, r, asc)
      <4>1. Behind(r, first, asc) = {}
        BY <3>3, NothingPast
      <4>2. Outcome(e, {}, r, asc)
        BY <2>2, <2>6, <3>3, <4>1 DEF Reached
      <4>3. e = NoKey \/ PastRange(e, r, asc)
        BY <3>1, <4>2 DEF Outcome, NoneLeft
      <4> QED BY <3>1, <4>3 DEF T, e
    <3> QED BY <2>5, <2>9, <3>2, <3>3
  <2> QED BY <2>8, <2>9
<1> QED BY <1>1, <1>2

\* The transaction's own keys that go before what it got.
WithOwn(r, k, asc) == IF asc THEN MinWithOwn(r, k) ELSE MaxWithOwn(r, k)
Ahead(r, k, asc) == {l \in Included(r, DOMAIN modified) : k = NoKey \/ Before(l, k, asc)}

LEMMA WithOwnFacts ==
    ASSUME TypeOK, NEW r, NEW asc \in BOOLEAN, NEW k, k = NoKey \/ k \in Key
    PROVE  /\ Ahead(r, k, asc) = {} => WithOwn(r, k, asc) = k
           /\ Ahead(r, k, asc) # {} => IsFirst(WithOwn(r, k, asc), Ahead(r, k, asc), asc)
<1> DEFINE A == Ahead(r, k, asc)
           most == CHOOSE key \in A : \A l \in A : l <= key
           least == CHOOSE key \in A : \A l \in A : l >= key
<1>1. k # Null /\ Null # NoKey /\ NoKey \notin Key
  BY KeysAreIntegers
<1>2. A \in SUBSET Key /\ A \in SUBSET Int
  BY KeysAreIntegers DEF TypeOK, Ahead, Included
<1>3. ~asc => WithOwn(r, k, asc) = IF A = {} THEN k ELSE most
  <2> SUFFICES ASSUME ~asc PROVE MaxWithOwn(r, k) = IF A = {} THEN k ELSE most
    BY DEF WithOwn
  <2> DEFINE mine == {key \in Included(r, DOMAIN modified) :
                         IF k = NoKey THEN TRUE ELSE IF k = Null THEN numeric ELSE key > k}
  <2>1. A = mine
    BY <1>1 DEF Ahead, Before
  <2>2. MaxWithOwn(r, k) = IF mine = {} THEN k ELSE CHOOSE key \in mine : \A l \in mine : l <= key
    BY Zenon DEF MaxWithOwn
  <2> HIDE DEF A, mine
  <2> QED BY <2>1, <2>2
<1>4. asc => WithOwn(r, k, asc) = IF A = {} THEN k ELSE least
  <2> SUFFICES ASSUME asc PROVE MinWithOwn(r, k) = IF A = {} THEN k ELSE least
    BY DEF WithOwn
  <2> DEFINE mine == {key \in Included(r, DOMAIN modified) :
                         IF k = NoKey THEN TRUE ELSE IF k = Null THEN FALSE ELSE key < k}
  <2>1. A = mine
    BY <1>1 DEF Ahead, Before
  <2>2. MinWithOwn(r, k) = IF mine = {} THEN k ELSE CHOOSE key \in mine : \A l \in mine : l >= key
    BY Zenon DEF MinWithOwn
  <2> HIDE DEF A, mine
  <2> QED BY <2>1, <2>2
<1> HIDE DEF A, most, least
<1>5. CASE A = {}
  BY <1>3, <1>4, <1>5 DEF A
<1>6. CASE A # {}
  <2>1. Included(Everything, A) = A
    BY DEF Included, Everything, Bound, Includes, AboveLower, BelowUpper
  <2>2. PICK e : IsFirst(e, A, asc)
    <3>1. IsFirst(Head(InOrder(Everything, A, asc)), Included(Everything, A), asc)
      BY <1>2, <1>6, <2>1, HeadIsFirst
    <3> QED BY <2>1, <3>1
  <2>3. e \in A /\ e \in Int /\ \A m \in A : m \in Int /\ (m = e \/ Before(e, m, asc))
    BY <1>2, <2>2 DEF IsFirst
  <2>4. CASE asc
    <3>1. \A m \in A : m >= e
      BY <2>3, <2>4 DEF Before
    <3>2. least \in A /\ \A m \in A : m >= least
      BY <2>3, <3>1 DEF least
    <3>3. \A m \in A : m = least \/ Before(least, m, asc)
      BY <2>3, <2>4, <3>2 DEF Before
    <3> QED BY <1>4, <1>6, <2>4, <3>2, <3>3 DEF IsFirst, A
  <2>5. CASE ~asc
    <3>1. \A m \in A : m <= e
      BY <2>3, <2>5 DEF Before
    <3>2. most \in A /\ \A m \in A : m <= most
      BY <2>3, <3>1 DEF most
    <3>3. \A m \in A : m = most \/ Before(most, m, asc)
      BY <2>3, <2>5, <3>2 DEF Before
    <3> QED BY <1>3, <1>6, <2>5, <3>2, <3>3 DEF IsFirst, A
  <2> QED BY <2>4, <2>5
<1> QED BY <1>5, <1>6

\* The transaction's extreme key is the first of its view.
TxExtremeKey(r, max) == IF max THEN TxMaxKey(r) ELSE TxMinKey(r)

LEMMA TxExtremeIsHead ==
    ASSUME TypeOK, NEW r \in AllRanges, NEW asc \in BOOLEAN, CanUse(r, asc), Included(r, Contents) # {}
    PROVE  TxExtremeKey(r, ~asc) = Head(InOrder(r, Contents, asc))
<1> DEFINE k == FromParent(r, asc)
           T == Included(r, Under \ removed)
           O == Included(r, DOMAIN modified)
           A == Ahead(r, k, asc)
           C == Included(r, Contents)
           e == WithOwn(r, k, asc)
<1>1. /\ T # {} => IsFirst(k, T, asc)
      /\ T = {} => k = NoKey \/ PastRange(k, r, asc)
  BY FromParentFacts
<1>2. C = O \cup T
  BY SeenFacts DEF Included
<1>3. Contents \in SUBSET Key /\ Under \in SUBSET Key /\ DOMAIN modified \in SUBSET Key /\ Key \in SUBSET Int
  BY ViewFacts, KeysAreIntegers
<1>4. O \in SUBSET Key /\ T \in SUBSET Key /\ \A m \in O : Includes(r, m)
  BY <1>3 DEF Included
<1>5. k = NoKey \/ k \in Key
  <2> HIDE DEF k, T
  <2> QED BY <1>1, <1>4 DEF IsFirst, PastRange
<1>6. /\ A = {} => e = k
      /\ A # {} => IsFirst(e, A, asc)
  BY <1>5, WithOwnFacts
<1>7. \A m : m \in A <=> m \in O /\ (k = NoKey \/ Before(m, k, asc))
  BY DEF Ahead
<1>8. TxExtremeKey(r, ~asc) = e
  BY DEF TxExtremeKey, TxMaxKey, TxMinKey, WithOwn, FromParent, NextKey, ExtremeKey
<1>9. IsFirst(e, C, asc)
  <2> HIDE DEF k, T, O, A, C, e
  <2>1. NoKey \notin Key
    BY KeysAreIntegers
  <2>2. CASE T # {}
    <3>1. k \in T /\ k \in Int /\ k # NoKey /\ \A m \in T : m \in Int /\ (m = k \/ Before(k, m, asc))
      BY <1>1, <1>3, <1>4, <2>1, <2>2 DEF IsFirst
    <3>2. CASE A = {}
      <4>1. e = k
        BY <1>6, <3>2
      <4>2. ASSUME NEW m \in O PROVE m = k \/ Before(k, m, asc)
        <5>1. m \in Int /\ ~Before(m, k, asc)
          BY <1>3, <1>4, <1>7, <3>2
        <5> QED BY <3>1, <5>1, BeforeFacts
      <4> QED BY <1>2, <3>1, <4>1, <4>2 DEF IsFirst
    <3>3. CASE A # {}
      <4>1. e \in O /\ e \in Int /\ Before(e, k, asc) /\ \A m \in A : m = e \/ Before(e, m, asc)
        BY <1>3, <1>4, <1>6, <1>7, <3>1, <3>3 DEF IsFirst
      <4>2. ASSUME NEW m \in T PROVE Before(e, m, asc)
        BY <3>1, <4>1, BeforeFacts
      <4>3. ASSUME NEW m \in O PROVE m = e \/ Before(e, m, asc)
        <5>1. m \in Int
          BY <1>3, <1>4
        <5>2. CASE Before(m, k, asc)
          BY <1>7, <4>1, <5>2
        <5>3. CASE ~Before(m, k, asc)
          <6>1. m = k \/ Before(k, m, asc)
            BY <3>1, <5>1, <5>3, BeforeFacts
          <6> QED BY <3>1, <4>1, <5>1, <6>1, BeforeFacts
        <5> QED BY <5>2, <5>3
      <4> QED BY <1>2, <4>1, <4>2, <4>3 DEF IsFirst
    <3> QED BY <3>2, <3>3
  <2>3. CASE T = {}
    <3>1. A = O
      <4>1. k = NoKey \/ PastRange(k, r, asc)
        BY <1>1, <2>3
      <4>2. \A m \in O : k = NoKey \/ Before(m, k, asc)
        BY <1>4, <4>1 DEF PastRange
      <4> QED BY <1>7, <4>2
    <3>2. C = A /\ A # {}
      BY <1>2, <2>3, <3>1 DEF C
    <3> QED BY <1>6, <3>2
  <2> QED BY <2>2, <2>3
<1>10. e = Head(InOrder(r, Contents, asc))
  <2> HIDE DEF e
  <2> QED BY <1>3, <1>9, HeadIsFirst
<1> QED BY <1>8, <1>10

LEMMA TxExtremesAreRight ==
    ASSUME TypeOK
    PROVE  TxExtremesAgree
<1> DEFINE Right(r, max) ==
             InOrder(r, Contents, ~max) # <<>> =>
                 /\ TxExtremeKey(r, max) = Head(InOrder(r, Contents, ~max))
                 /\ Get(TxExtremeKey(r, max)) = Get(Head(InOrder(r, Contents, ~max)))
<1>1. ASSUME NEW r \in AllRanges, NEW asc \in BOOLEAN, CanUse(r, asc) PROVE Right(r, ~asc)
  <2>1. ~~asc = asc
    OBVIOUS
  <2>2. Contents \in SUBSET Key
    BY ViewFacts
  <2>3. InOrder(r, Contents, asc) # <<>> => Included(r, Contents) # {}
    BY <2>2, InOrderFacts
  <2>4. InOrder(r, Contents, asc) # <<>> => TxExtremeKey(r, ~asc) = Head(InOrder(r, Contents, asc))
    BY <1>1, <2>3, TxExtremeIsHead
  <2> QED BY <2>1, <2>4
<1> HIDE DEF Right
<1>2. ASSUME NEW r \in AllRanges PROVE (CanUse(r, FALSE) => Right(r, TRUE)) /\ (CanUse(r, TRUE) => Right(r, FALSE))
  <2>1. (CanUse(r, FALSE) => Right(r, ~FALSE)) /\ (CanUse(r, TRUE) => Right(r, ~TRUE))
    BY <1>1
  <2> QED BY <2>1
<1>3. ASSUME NEW r \in AllRanges
      PROVE  /\ Right(r, TRUE) <=> (InOrder(r, Contents, FALSE) # <<>> =>
                    /\ TxMaxKey(r) = Head(InOrder(r, Contents, FALSE))
                    /\ TxMaxValue(r) = Get(Head(InOrder(r, Contents, FALSE))))
             /\ Right(r, FALSE) <=> (InOrder(r, Contents, TRUE) # <<>> =>
                    /\ TxMinKey(r) = Head(InOrder(r, Contents, TRUE))
                    /\ TxMinValue(r) = Get(Head(InOrder(r, Contents, TRUE))))
  BY DEF Right, TxExtremeKey, TxMaxValue, TxMinValue
<1> QED BY <1>2, <1>3 DEF TxExtremesAgree, CanUse

\* What a transaction reads over a backend is what its get gives: streams, keys, values and count give the
\* keys of its view in order, and the extreme keys are the first of them, for every table, backend and
\* set of changes, as far as the backend's own streams are right.
THEOREM TransactionsReadTheirView == Spec => []TxReadsAgree
<1>1. TypeOK => TxReadsAgree
  BY TxScansAreRight, TxExtremesAreRight DEF TxReadsAgree
<1> QED BY <1>1, ReadsTypeCorrect, PTL
=============================================================================
