--------------------------- MODULE UpgradeProofs ---------------------------
(***************************************************************************)
(* Proofs about Upgrade: whatever the sequence of versions, declarations,  *)
(* changes and crashes, the upgrade functions run when they should, and    *)
(* the index in use has the objects that are there and no others.          *)
(*                                                                         *)
(* The index is a table of lists that folds over the objects write; the    *)
(* first half says what these folds do for one object, and for all of them *)
(* when an index is filled.  The second half is about the steps: an index  *)
(* that misses an object is empty and on its way to be filled.             *)
(***************************************************************************)
EXTENDS Upgrade, SequenceLemmas

-----------------------------------------------------------------------------
(* Lists of primary keys. *)

\* The list is a sequence of primary keys, none of them twice.
IsList(list) == list \in Seq(PK) /\ Distinct(list)

\* What a list has.
LEMMA ListFacts ==
    ASSUME NEW list, IsList(list)
    PROVE  /\ Len(list) \in Nat /\ DOMAIN list = 1..Len(list)
           /\ \A i \in 1..Len(list) : list[i] \in PK
           /\ \A i, j \in 1..Len(list) : list[i] = list[j] => i = j
           /\ ToSet(list) \subseteq PK
           /\ \A pk \in PK : pk \in ToSet(list) <=> \E i \in 1..Len(list) : list[i] = pk
           /\ list # <<>> <=> Len(list) > 0
           /\ list # <<>> <=> ToSet(list) # {}
<1>1. Len(list) \in Nat /\ DOMAIN list = 1..Len(list) /\ \A i \in 1..Len(list) : list[i] \in PK
  BY DEF IsList
<1>2. \A i, j \in 1..Len(list) : list[i] = list[j] => i = j
  BY <1>1 DEF IsList, Distinct
<1>3. list # <<>> <=> Len(list) > 0
  BY DEF IsList
<1>4. \A pk : pk \in ToSet(list) <=> \E i \in 1..Len(list) : list[i] = pk
  BY <1>1 DEF ToSet
<1>5. list # <<>> <=> ToSet(list) # {}
  <2>1. ASSUME list # <<>> PROVE list[1] \in ToSet(list)
    BY <2>1, <1>1, <1>3, <1>4
  <2>2. ASSUME list = <<>> PROVE \A pk : pk \notin ToSet(list)
    BY <2>2, <1>1, <1>3, <1>4
  <2> QED BY <2>1, <2>2
<1> QED BY <1>1, <1>2, <1>3, <1>4, <1>5

\* The lists of no key and of one.
LEMMA ShortLists ==
    /\ IsList(<<>>) /\ Len(<<>>) = 0 /\ ToSet(<<>>) = {}
    /\ \A pk \in PK : IsList(<<pk>>) /\ Len(<<pk>>) = 1 /\ ToSet(<<pk>>) = {pk}
<1>1. IsList(<<>>) /\ Len(<<>>) = 0 /\ ToSet(<<>>) = {}
  BY DEF IsList, ToSet, Distinct
<1>2. ASSUME NEW pk \in PK PROVE IsList(<<pk>>) /\ Len(<<pk>>) = 1 /\ ToSet(<<pk>>) = {pk}
  <2>1. <<pk>> \in Seq(PK) /\ Len(<<pk>>) = 1 /\ DOMAIN <<pk>> = {1} /\ <<pk>>[1] = pk
    OBVIOUS
  <2> QED BY <2>1 DEF IsList, ToSet, Distinct
<1> QED BY <1>1, <1>2

\* SortedList.add
LEMMA AddedFacts ==
    ASSUME NEW list, IsList(list), NEW pk \in PK, pk \notin ToSet(list)
    PROVE  /\ IsList(Added(list, pk)) /\ Len(Added(list, pk)) = Len(list) + 1
           /\ ToSet(Added(list, pk)) = ToSet(list) \cup {pk}
<1> DEFINE less == {k \in DOMAIN list : list[k] < pk}
           i == 1 + Cardinality(less)
           r == InsertAt(list, i, pk)
           n == Len(list)
<1>1. /\ list \in Seq(PK) /\ n \in Nat /\ DOMAIN list = 1..n
      /\ \A a \in 1..n : list[a] \in PK /\ list[a] # pk
      /\ \A a, b \in 1..n : list[a] = list[b] => a = b
      /\ \A k \in PK : k \in ToSet(list) <=> \E a \in 1..n : list[a] = k
  BY ListFacts DEF IsList
<1>2. i \in 1..(n + 1)
  <2>1. IsFiniteSet(1..n) /\ Cardinality(1..n) = n
    <3> HIDE DEF n
    <3> QED BY <1>1, FS_Interval
  <2>2. less \in SUBSET (1..n)
    BY <1>1
  <2>3. IsFiniteSet(less) /\ Cardinality(less) <= n /\ Cardinality(less) \in Nat
    BY <2>1, <2>2, FS_Subset, FS_CardinalityType
  <2> QED BY <2>3, <1>1
<1>3. Added(list, pk) = r
  BY DEF Added
<1> HIDE DEF i
<1>4. /\ r \in Seq(PK) /\ Len(r) = n + 1
      /\ \A j \in 1..(n + 1) : r[j] = IF j < i THEN list[j] ELSE IF j = i THEN pk ELSE list[j - 1]
  <2>1. list \in Seq(PK) /\ i \in 1..(Len(list) + 1)
    BY <1>1, <1>2
  <2> HIDE DEF less
  <2> QED BY <2>1, InsertAtFacts
<1> HIDE DEF r, n
<1>5. Distinct(r)
  <2>1. \A a, b \in 1..(n + 1) : r[a] = r[b] => a = b
    BY <1>1, <1>2, <1>4
  <2>2. DOMAIN r = 1..(n + 1)
    BY <1>4, <1>1
  <2> QED BY <2>1, <2>2 DEF Distinct
<1>6. IsList(r)
  BY <1>4, <1>5 DEF IsList
<1>7. \A k \in PK : k \in ToSet(r) <=> k \in ToSet(list) \/ k = pk
  <2>1. \A k \in PK : k \in ToSet(r) <=> \E a \in 1..(n + 1) : r[a] = k
    BY <1>6, <1>4, ListFacts
  <2>2. r[i] = pk
    BY <1>2, <1>4
  <2>3. ASSUME NEW a \in 1..n PROVE \E b \in 1..(n + 1) : r[b] = list[a]
    <3>1. CASE a < i
      BY <3>1, <1>1, <1>4
    <3>2. CASE ~(a < i)
      <4>1. a + 1 \in 1..(n + 1) /\ ~(a + 1 < i) /\ a + 1 # i /\ (a + 1) - 1 = a
        BY <3>2, <1>1, <1>2
      <4> QED BY <4>1, <1>4
    <3> QED BY <3>1, <3>2
  <2>4. ASSUME NEW b \in 1..(n + 1), r[b] # pk PROVE \E a \in 1..n : list[a] = r[b]
    BY <2>4, <1>1, <1>2, <1>4
  <2>5. \A k \in PK : k \in ToSet(list) <=> \E a \in 1..n : list[a] = k
    BY <1>1, ListFacts
  <2>6. ASSUME NEW k \in PK, k \in ToSet(r) PROVE k \in ToSet(list) \/ k = pk
    <3>1. PICK b \in 1..(n + 1) : r[b] = k
      BY <2>1, <2>6
    <3> QED BY <3>1, <2>4, <2>5
  <2>7. ASSUME NEW k \in PK, k \in ToSet(list) PROVE k \in ToSet(r)
    <3>1. PICK a \in 1..n : list[a] = k
      BY <2>5, <2>7
    <3>2. PICK b \in 1..(n + 1) : r[b] = list[a]
      BY <2>3
    <3> QED BY <3>1, <3>2, <2>1
  <2>8. pk \in ToSet(r)
    BY <2>1, <2>2, <1>1, <1>2
  <2> QED BY <2>6, <2>7, <2>8
<1>8. ToSet(r) = ToSet(list) \cup {pk}
  <2>1. ToSet(r) \subseteq PK /\ ToSet(list) \subseteq PK
    BY <1>6, ListFacts
  <2> QED BY <2>1, <1>7
<1> QED BY <1>3, <1>4, <1>6, <1>8 DEF n

\* SortedList.remove
LEMMA DroppedFacts ==
    ASSUME NEW list, IsList(list), NEW pk \in PK
    PROVE  /\ IsList(Dropped(list, pk)) /\ Len(Dropped(list, pk)) <= Len(list)
           /\ ToSet(Dropped(list, pk)) = ToSet(list) \ {pk}
<1> DEFINE n == Len(list)
<1>1. /\ list \in Seq(PK) /\ n \in Nat /\ DOMAIN list = 1..n /\ Distinct(list)
      /\ ToSet(list) \subseteq PK
      /\ \A k \in PK : k \in ToSet(list) <=> \E a \in 1..n : list[a] = k
  BY ListFacts DEF IsList
<1>2. CASE pk \notin ToSet(list)
  <2>1. Dropped(list, pk) = list
    BY <1>1, <1>2 DEF Dropped, RemoveFirst
  <2> QED BY <2>1, <1>1, <1>2
<1>3. CASE pk \in ToSet(list)
  <2> DEFINE I == {i \in 1..n : list[i] = pk}
             first == Min(I)
  <2>1. I # {} /\ I \subseteq 1..n
    BY <1>1, <1>3
  <2>2. first \in I
    <3>1. \E i \in I : \A j \in I : i <= j
      <4>1. I \subseteq Nat
        OBVIOUS
      <4> HIDE DEF I
      <4> QED BY <2>1, <4>1, LeastNat
    <3> HIDE DEF I
    <3> QED BY <3>1 DEF Min
  <2>3. Dropped(list, pk) = RemoveAt(list, first)
    BY <2>1 DEF Dropped, RemoveFirst, SelectInSeq
  <2> DEFINE r == RemoveAt(list, first)
  <2>4. first \in 1..n /\ list[first] = pk
    BY <2>2
  <2> HIDE DEF I, first
  <2>5. /\ r \in Seq(PK) /\ Len(r) = n - 1 /\ Distinct(r)
        /\ \A x \in PK : (\E j \in DOMAIN r : r[j] = x) <=> x # pk /\ \E j \in DOMAIN list : list[j] = x
    <3>1. first \in 1..Len(list)
      BY <2>4
    <3>2. r \in Seq(PK) /\ Len(r) = n - 1
      BY <1>1, <3>1, RemoveAtFacts
    <3>3. /\ Distinct(r)
          /\ \A x \in PK : (\E j \in DOMAIN r : r[j] = x) <=> x # list[first] /\ \E j \in DOMAIN list : list[j] = x
      BY <1>1, <3>1, RemoveFromDistinct
    <3> QED BY <3>2, <3>3, <2>4
  <2> HIDE DEF r
  <2>6. IsList(r)
    BY <2>5 DEF IsList
  <2>7. ToSet(r) \subseteq PK /\ \A k \in PK : k \in ToSet(r) <=> k # pk /\ k \in ToSet(list)
    <3>1. \A k : k \in ToSet(r) <=> \E j \in DOMAIN r : r[j] = k
      BY DEF ToSet
    <3>2. ToSet(r) \subseteq PK
      BY <2>6, ListFacts
    <3> QED BY <3>1, <3>2, <2>5, <1>1
  <2>8. ToSet(r) = ToSet(list) \ {pk}
    BY <2>7, <1>1
  <2> QED BY <2>3, <2>5, <2>6, <2>8, <1>1 DEF r
<1> QED BY <1>2, <1>3

\* Ascending lists a set of primary keys.
LEMMA AscendingLists ==
    ASSUME NEW S, IsFiniteSet(S), S \subseteq PK
    PROVE  IsList(Ascending(S)) /\ ToSet(Ascending(S)) = S /\ Len(Ascending(S)) = Cardinality(S)
<1>1. S \in SUBSET Int
  BY UpgradeAssumption
<1>2. /\ Ascending(S) \in Seq(S) /\ Len(Ascending(S)) = Cardinality(S) /\ ToSet(Ascending(S)) = S
      /\ DOMAIN Ascending(S) = 1..Cardinality(S)
      /\ \A i, j \in 1..Cardinality(S) : Ascending(S)[i] = Ascending(S)[j] => i = j
  BY <1>1, AscendingFacts
<1>3. Distinct(Ascending(S))
  BY <1>2 DEF Distinct
<1>4. Ascending(S) \in Seq(PK)
  BY <1>2
<1> QED BY <1>2, <1>3, <1>4 DEF IsList
-----------------------------------------------------------------------------
(* Objects and indices. *)

\* The objects, by the secondary keys that they have.
Objects == {<<>>} \cup {<<sk>> : sk \in SK}
IsData(d) == DOMAIN d \in SUBSET PK /\ IsFiniteSet(DOMAIN d) /\ d \in [DOMAIN d -> Objects]
IsIndex(ix) == ix \in [SK -> Seq(PK)] /\ \A sk \in SK : IsList(ix[sk])

\* An object has no secondary key, or one.
LEMMA ObjectFacts ==
    ASSUME NEW sks \in Objects
    PROVE  /\ sks = <<>> => ToSet(sks) = {}
           /\ sks # <<>> => /\ sks = <<sks[1]>> /\ sks[1] \in SK /\ ToSet(sks) = {sks[1]}
                            /\ Len(sks) = 1 /\ DOMAIN sks = {1}
<1>1. CASE sks = <<>>
  BY <1>1 DEF ToSet
<1>2. CASE sks # <<>>
  <2>1. PICK sk \in SK : sks = <<sk>>
    BY <1>2 DEF Objects
  <2>2. sks[1] = sk /\ DOMAIN sks = {1} /\ Len(sks) = 1
    BY <2>1
  <2> QED BY <1>2, <2>1, <2>2 DEF ToSet
<1> QED BY <1>1, <1>2

\* The holders of a secondary key are the objects that have it.
LEMMA HoldersFacts ==
    ASSUME NEW d, IsData(d), NEW sk \in SK
    PROVE  /\ Holders(d, sk) = {pk \in PK : KeysOf(d, pk) = <<sk>>}
           /\ IsFiniteSet(Holders(d, sk)) /\ Holders(d, sk) \subseteq PK
           /\ \A pk \in PK : KeysOf(d, pk) \in Objects
<1>1. \A pk \in PK : KeysOf(d, pk) \in Objects
  BY DEF IsData, KeysOf, Objects
<1>2. ASSUME NEW sks \in Objects PROVE sk \in ToSet(sks) <=> sks = <<sk>>
  <2>1. sks = <<>> => sks # <<sk>>
    OBVIOUS
  <2>2. sks # <<>> => (sks = <<sk>> <=> sks[1] = sk)
    BY ObjectFacts
  <2> QED BY <2>1, <2>2, ObjectFacts
<1>3. \A pk \in DOMAIN d : d[pk] \in Objects /\ pk \in PK
  BY DEF IsData
<1>4. \A pk \in PK : pk \in Holders(d, sk) <=> KeysOf(d, pk) = <<sk>>
  <2>1. ASSUME NEW pk \in PK, pk \notin DOMAIN d PROVE pk \notin Holders(d, sk) /\ KeysOf(d, pk) # <<sk>>
    BY <2>1 DEF Holders, KeysOf
  <2>2. ASSUME NEW pk \in PK, pk \in DOMAIN d PROVE pk \in Holders(d, sk) <=> KeysOf(d, pk) = <<sk>>
    BY <2>2, <1>2, <1>3 DEF Holders, KeysOf
  <2> QED BY <2>1, <2>2
<1>5. Holders(d, sk) \in SUBSET DOMAIN d /\ Holders(d, sk) \subseteq PK
  BY <1>3 DEF Holders
<1>6. IsFiniteSet(Holders(d, sk))
  BY <1>5, FS_Subset DEF IsData
<1> QED BY <1>1, <1>4, <1>5, <1>6

\* An index made from the objects has them all, and no others.
LEMMA IndexedFacts ==
    ASSUME NEW d, IsData(d)
    PROVE  IsIndex(Indexed(d)) /\ \A sk \in SK : ToSet(Indexed(d)[sk]) = Holders(d, sk)
<1>1. ASSUME NEW sk \in SK
      PROVE  IsList(Ascending(Holders(d, sk))) /\ ToSet(Ascending(Holders(d, sk))) = Holders(d, sk)
  BY HoldersFacts, AscendingLists
<1>2. \A sk \in SK : Indexed(d)[sk] = Ascending(Holders(d, sk))
  BY DEF Indexed
<1>3. \A sk \in SK : Indexed(d)[sk] \in Seq(PK)
  BY <1>1, <1>2 DEF IsList
<1>4. Indexed(d) \in [SK -> Seq(PK)]
  BY <1>3 DEF Indexed
<1> QED BY <1>1, <1>2, <1>4 DEF IsIndex

\* An empty index has nothing, and is the only one.
LEMMA NoEntriesFacts ==
    /\ IsIndex(NoEntries) /\ \A sk \in SK : NoEntries[sk] = <<>> /\ ToSet(NoEntries[sk]) = {}
    /\ \A ix : IsIndex(ix) /\ (\A sk \in SK : ix[sk] = <<>>) => ix = NoEntries
<1>1. \A sk \in SK : NoEntries[sk] = <<>> /\ ToSet(NoEntries[sk]) = {} /\ IsList(NoEntries[sk])
  BY ShortLists DEF NoEntries
<1>2. NoEntries \in [SK -> Seq(PK)]
  BY DEF NoEntries
<1> QED BY <1>1, <1>2 DEF IsIndex, NoEntries
-----------------------------------------------------------------------------
(* Folds over at most one element. *)

\* The lists that a fold has at most one step over: the keys of an object, the objects that one
\* operation removes or puts, the pairs that it writes.
IsShort(q) == q = <<>> \/ q = <<q[1]>>

\* FoldLeft is a function of the sets of a list's positions: there are the empty one and, at most, {1}.
LEMMA ShortFold ==
    ASSUME NEW q, IsShort(q)
    PROVE  /\ DOMAIN q = IF q = <<>> THEN {} ELSE {1}
           /\ \A s \in SUBSET DOMAIN q : s # {} => q # <<>> /\ s = {1} /\ Max(s) = 1 /\ s \ {Max(s)} = {}
<1>1. CASE q = <<>>
  BY <1>1
<1>2. CASE q = <<q[1]>>
  <2>1. DOMAIN q = {1} /\ q # <<>>
    BY <1>2
  <2>2. Max({1}) = 1
    BY GreatestPosition, 1..1 = {1}
  <2> QED BY <2>1, <2>2
<1> QED BY <1>1, <1>2 DEF IsShort

\* What each of the folds computes over such a list: the unchanged start, or one step from it.
LEMMA LevelRemoveStep ==
    ASSUME NEW acc, NEW pk, NEW u, NEW q, IsShort(q)
    PROVE  LevelRemove(acc, pk, q, u) =
             IF q = <<>> THEN acc
             ELSE IF ~u /\ Len(acc.ix[q[1]]) > 1 THEN [acc EXCEPT !.ix[q[1]] = Dropped(@, pk)]
             ELSE [acc EXCEPT !.ix[q[1]] = <<>>]
<1> DEFINE Step(a, sk) == IF ~u /\ Len(a.ix[sk]) > 1 THEN [a EXCEPT !.ix[sk] = Dropped(@, pk)]
                          ELSE [a EXCEPT !.ix[sk] = <<>>]
           F(f) == [s \in SUBSET DOMAIN q |-> IF s = {} THEN acc ELSE Step(f[s \ {Max(s)}], q[Max(s)])]
           V == CHOOSE f : f = F(f)
           h == [s \in SUBSET DOMAIN q |-> IF s = {} THEN acc ELSE Step(acc, q[1])]
<1>1. LevelRemove(acc, pk, q, u) = V[DOMAIN q]
  BY DEF LevelRemove, FoldLeft, MapThenFoldSet
<1> HIDE DEF Step
<1>2. h = F(h)
  <2>1. \A s \in SUBSET DOMAIN q : h[s] = F(h)[s]
    BY ShortFold
  <2> QED BY <2>1
<1>3. V = F(V)
  BY <1>2
<1> HIDE DEF V
<1>4. V[DOMAIN q] = IF q = <<>> THEN acc ELSE Step(acc, q[1])
  <2>1. \A s \in SUBSET DOMAIN q : V[s] = F(V)[s]
    BY <1>3
  <2>2. V[{}] = acc
    BY <2>1
  <2>3. CASE q # <<>>
    <3>1. DOMAIN q = {1} /\ Max({1}) = 1 /\ {1} \ {Max({1})} = {}
      BY <2>3, ShortFold
    <3>2. V[{1}] = Step(V[{1} \ {Max({1})}], q[Max({1})])
      BY <2>1, <3>1
    <3> QED BY <2>2, <2>3, <3>1, <3>2
  <2> QED BY <2>2, <2>3, ShortFold
<1> QED BY <1>1, <1>4 DEF Step

\* The folds of the backends over what a transaction removed and put.
LevelGone(acc, data_, gone, u) == FoldLeft(LAMBDA a, pk : LevelRemove(a, pk, KeysOf(data_, pk), u), acc, gone)
LevelPuts(acc, data_, new, puts, u, m) ==
    FoldLeft(LAMBDA a, pk : LevelPut(a, pk, KeysOf(data_, pk), new[pk], u, m), acc, puts)
LmdbGone(e, data_, gone) == FoldLeft(LAMBDA f, pk : LmdbRemove(f, pk, KeysOf(data_, pk)), e, gone)
LmdbPuts(e, data_, new, puts, m) == FoldLeft(LAMBDA f, pk : LmdbPut(f, pk, KeysOf(data_, pk), new[pk], m), e, puts)
LmdbModified(acc, pairs, u) ==
    FoldLeft(LAMBDA a, pair : IF a.ok THEN LmdbStore(a, pair[1], pair[2], u) ELSE a, acc, pairs)

LEMMA LevelInsertStep ==
    ASSUME NEW acc, NEW pk, NEW u, NEW q, IsShort(q)
    PROVE  LevelInsert(acc, pk, q, u) =
             IF q = <<>> THEN acc
             ELSE IF ~acc.ok \/ (u /\ acc.ix[q[1]] # <<>>) THEN [acc EXCEPT !.ok = FALSE]
             ELSE IF pk \in ToSet(acc.ix[q[1]]) THEN acc
             ELSE [acc EXCEPT !.ix[q[1]] = Added(@, pk)]
<1> DEFINE Step(a, x) == IF ~a.ok \/ (u /\ a.ix[x] # <<>>) THEN [a EXCEPT !.ok = FALSE]
                         ELSE IF pk \in ToSet(a.ix[x]) THEN a
                         ELSE [a EXCEPT !.ix[x] = Added(@, pk)]
           F(f) == [s \in SUBSET DOMAIN q |-> IF s = {} THEN acc ELSE Step(f[s \ {Max(s)}], q[Max(s)])]
           V == CHOOSE f : f = F(f)
           h == [s \in SUBSET DOMAIN q |-> IF s = {} THEN acc ELSE Step(acc, q[1])]
<1>1. LevelInsert(acc, pk, q, u) = V[DOMAIN q]
  BY DEF LevelInsert, FoldLeft, MapThenFoldSet
<1> HIDE DEF Step
<1>2. h = F(h)
  <2>1. \A s \in SUBSET DOMAIN q : h[s] = F(h)[s]
    BY ShortFold
  <2> QED BY <2>1
<1>3. V = F(V)
  BY <1>2
<1> HIDE DEF V
<1>4. V[DOMAIN q] = IF q = <<>> THEN acc ELSE Step(acc, q[1])
  <2>1. \A s \in SUBSET DOMAIN q : V[s] = F(V)[s]
    BY <1>3
  <2>2. V[{}] = acc
    BY <2>1
  <2>3. CASE q # <<>>
    <3>1. DOMAIN q = {1} /\ Max({1}) = 1 /\ {1} \ {Max({1})} = {}
      BY <2>3, ShortFold
    <3>2. V[{1}] = Step(V[{1} \ {Max({1})}], q[Max({1})])
      BY <2>1, <3>1
    <3> QED BY <2>2, <2>3, <3>1, <3>2
  <2> QED BY <2>2, <2>3, ShortFold
<1> QED BY <1>1, <1>4 DEF Step

LEMMA LmdbInsertStep ==
    ASSUME NEW e, NEW pk, NEW q, IsShort(q)
    PROVE  LmdbInsert(e, pk, q) =
             IF q = <<>> THEN e
             ELSE RecordPut(e, q[1], pk)
<1> DEFINE Step(a, x) == RecordPut(a, x, pk)
           F(f) == [s \in SUBSET DOMAIN q |-> IF s = {} THEN e ELSE Step(f[s \ {Max(s)}], q[Max(s)])]
           V == CHOOSE f : f = F(f)
           h == [s \in SUBSET DOMAIN q |-> IF s = {} THEN e ELSE Step(e, q[1])]
<1>1. LmdbInsert(e, pk, q) = V[DOMAIN q]
  BY DEF LmdbInsert, FoldLeft, MapThenFoldSet
<1> HIDE DEF Step
<1>2. h = F(h)
  <2>1. \A s \in SUBSET DOMAIN q : h[s] = F(h)[s]
    BY ShortFold
  <2> QED BY <2>1
<1>3. V = F(V)
  BY <1>2
<1> HIDE DEF V
<1>4. V[DOMAIN q] = IF q = <<>> THEN e ELSE Step(e, q[1])
  <2>1. \A s \in SUBSET DOMAIN q : V[s] = F(V)[s]
    BY <1>3
  <2>2. V[{}] = e
    BY <2>1
  <2>3. CASE q # <<>>
    <3>1. DOMAIN q = {1} /\ Max({1}) = 1 /\ {1} \ {Max({1})} = {}
      BY <2>3, ShortFold
    <3>2. V[{1}] = Step(V[{1} \ {Max({1})}], q[Max({1})])
      BY <2>1, <3>1
    <3> QED BY <2>2, <2>3, <3>1, <3>2
  <2> QED BY <2>2, <2>3, ShortFold
<1> QED BY <1>1, <1>4 DEF Step

LEMMA LmdbRemoveStep ==
    ASSUME NEW e, NEW pk, NEW q, IsShort(q)
    PROVE  LmdbRemove(e, pk, q) =
             IF q = <<>> THEN e
             ELSE RecordRemove(e, q[1], pk)
<1> DEFINE Step(a, x) == RecordRemove(a, x, pk)
           F(f) == [s \in SUBSET DOMAIN q |-> IF s = {} THEN e ELSE Step(f[s \ {Max(s)}], q[Max(s)])]
           V == CHOOSE f : f = F(f)
           h == [s \in SUBSET DOMAIN q |-> IF s = {} THEN e ELSE Step(e, q[1])]
<1>1. LmdbRemove(e, pk, q) = V[DOMAIN q]
  BY DEF LmdbRemove, FoldLeft, MapThenFoldSet
<1> HIDE DEF Step
<1>2. h = F(h)
  <2>1. \A s \in SUBSET DOMAIN q : h[s] = F(h)[s]
    BY ShortFold
  <2> QED BY <2>1
<1>3. V = F(V)
  BY <1>2
<1> HIDE DEF V
<1>4. V[DOMAIN q] = IF q = <<>> THEN e ELSE Step(e, q[1])
  <2>1. \A s \in SUBSET DOMAIN q : V[s] = F(V)[s]
    BY <1>3
  <2>2. V[{}] = e
    BY <2>1
  <2>3. CASE q # <<>>
    <3>1. DOMAIN q = {1} /\ Max({1}) = 1 /\ {1} \ {Max({1})} = {}
      BY <2>3, ShortFold
    <3>2. V[{1}] = Step(V[{1} \ {Max({1})}], q[Max({1})])
      BY <2>1, <3>1
    <3> QED BY <2>2, <2>3, <3>1, <3>2
  <2> QED BY <2>2, <2>3, ShortFold
<1> QED BY <1>1, <1>4 DEF Step

LEMMA LevelGoneStep ==
    ASSUME NEW acc, NEW d, NEW u, NEW gone, IsShort(gone)
    PROVE  LevelGone(acc, d, gone, u) =
             IF gone = <<>> THEN acc
             ELSE LevelRemove(acc, gone[1], KeysOf(d, gone[1]), u)
<1> DEFINE Step(a, x) == LevelRemove(a, x, KeysOf(d, x), u)
           F(f) == [s \in SUBSET DOMAIN gone |-> IF s = {} THEN acc ELSE Step(f[s \ {Max(s)}], gone[Max(s)])]
           V == CHOOSE f : f = F(f)
           h == [s \in SUBSET DOMAIN gone |-> IF s = {} THEN acc ELSE Step(acc, gone[1])]
<1>1. LevelGone(acc, d, gone, u) = V[DOMAIN gone]
  BY DEF LevelGone, FoldLeft, MapThenFoldSet
<1> HIDE DEF Step
<1>2. h = F(h)
  <2>1. \A s \in SUBSET DOMAIN gone : h[s] = F(h)[s]
    BY ShortFold
  <2> QED BY <2>1
<1>3. V = F(V)
  BY <1>2
<1> HIDE DEF V
<1>4. V[DOMAIN gone] = IF gone = <<>> THEN acc ELSE Step(acc, gone[1])
  <2>1. \A s \in SUBSET DOMAIN gone : V[s] = F(V)[s]
    BY <1>3
  <2>2. V[{}] = acc
    BY <2>1
  <2>3. CASE gone # <<>>
    <3>1. DOMAIN gone = {1} /\ Max({1}) = 1 /\ {1} \ {Max({1})} = {}
      BY <2>3, ShortFold
    <3>2. V[{1}] = Step(V[{1} \ {Max({1})}], gone[Max({1})])
      BY <2>1, <3>1
    <3> QED BY <2>2, <2>3, <3>1, <3>2
  <2> QED BY <2>2, <2>3, ShortFold
<1> QED BY <1>1, <1>4 DEF Step

LEMMA LevelPutsStep ==
    ASSUME NEW acc, NEW d, NEW new, NEW u, NEW m, NEW puts, IsShort(puts)
    PROVE  LevelPuts(acc, d, new, puts, u, m) =
             IF puts = <<>> THEN acc
             ELSE LevelPut(acc, puts[1], KeysOf(d, puts[1]), new[puts[1]], u, m)
<1> DEFINE Step(a, x) == LevelPut(a, x, KeysOf(d, x), new[x], u, m)
           F(f) == [s \in SUBSET DOMAIN puts |-> IF s = {} THEN acc ELSE Step(f[s \ {Max(s)}], puts[Max(s)])]
           V == CHOOSE f : f = F(f)
           h == [s \in SUBSET DOMAIN puts |-> IF s = {} THEN acc ELSE Step(acc, puts[1])]
<1>1. LevelPuts(acc, d, new, puts, u, m) = V[DOMAIN puts]
  BY DEF LevelPuts, FoldLeft, MapThenFoldSet
<1> HIDE DEF Step
<1>2. h = F(h)
  <2>1. \A s \in SUBSET DOMAIN puts : h[s] = F(h)[s]
    BY ShortFold
  <2> QED BY <2>1
<1>3. V = F(V)
  BY <1>2
<1> HIDE DEF V
<1>4. V[DOMAIN puts] = IF puts = <<>> THEN acc ELSE Step(acc, puts[1])
  <2>1. \A s \in SUBSET DOMAIN puts : V[s] = F(V)[s]
    BY <1>3
  <2>2. V[{}] = acc
    BY <2>1
  <2>3. CASE puts # <<>>
    <3>1. DOMAIN puts = {1} /\ Max({1}) = 1 /\ {1} \ {Max({1})} = {}
      BY <2>3, ShortFold
    <3>2. V[{1}] = Step(V[{1} \ {Max({1})}], puts[Max({1})])
      BY <2>1, <3>1
    <3> QED BY <2>2, <2>3, <3>1, <3>2
  <2> QED BY <2>2, <2>3, ShortFold
<1> QED BY <1>1, <1>4 DEF Step

LEMMA LmdbGoneStep ==
    ASSUME NEW e, NEW d, NEW gone, IsShort(gone)
    PROVE  LmdbGone(e, d, gone) =
             IF gone = <<>> THEN e
             ELSE LmdbRemove(e, gone[1], KeysOf(d, gone[1]))
<1> DEFINE Step(a, x) == LmdbRemove(a, x, KeysOf(d, x))
           F(f) == [s \in SUBSET DOMAIN gone |-> IF s = {} THEN e ELSE Step(f[s \ {Max(s)}], gone[Max(s)])]
           V == CHOOSE f : f = F(f)
           h == [s \in SUBSET DOMAIN gone |-> IF s = {} THEN e ELSE Step(e, gone[1])]
<1>1. LmdbGone(e, d, gone) = V[DOMAIN gone]
  BY DEF LmdbGone, FoldLeft, MapThenFoldSet
<1> HIDE DEF Step
<1>2. h = F(h)
  <2>1. \A s \in SUBSET DOMAIN gone : h[s] = F(h)[s]
    BY ShortFold
  <2> QED BY <2>1
<1>3. V = F(V)
  BY <1>2
<1> HIDE DEF V
<1>4. V[DOMAIN gone] = IF gone = <<>> THEN e ELSE Step(e, gone[1])
  <2>1. \A s \in SUBSET DOMAIN gone : V[s] = F(V)[s]
    BY <1>3
  <2>2. V[{}] = e
    BY <2>1
  <2>3. CASE gone # <<>>
    <3>1. DOMAIN gone = {1} /\ Max({1}) = 1 /\ {1} \ {Max({1})} = {}
      BY <2>3, ShortFold
    <3>2. V[{1}] = Step(V[{1} \ {Max({1})}], gone[Max({1})])
      BY <2>1, <3>1
    <3> QED BY <2>2, <2>3, <3>1, <3>2
  <2> QED BY <2>2, <2>3, ShortFold
<1> QED BY <1>1, <1>4 DEF Step

LEMMA LmdbPutsStep ==
    ASSUME NEW e, NEW d, NEW new, NEW m, NEW puts, IsShort(puts)
    PROVE  LmdbPuts(e, d, new, puts, m) =
             IF puts = <<>> THEN e
             ELSE LmdbPut(e, puts[1], KeysOf(d, puts[1]), new[puts[1]], m)
<1> DEFINE Step(a, x) == LmdbPut(a, x, KeysOf(d, x), new[x], m)
           F(f) == [s \in SUBSET DOMAIN puts |-> IF s = {} THEN e ELSE Step(f[s \ {Max(s)}], puts[Max(s)])]
           V == CHOOSE f : f = F(f)
           h == [s \in SUBSET DOMAIN puts |-> IF s = {} THEN e ELSE Step(e, puts[1])]
<1>1. LmdbPuts(e, d, new, puts, m) = V[DOMAIN puts]
  BY DEF LmdbPuts, FoldLeft, MapThenFoldSet
<1> HIDE DEF Step
<1>2. h = F(h)
  <2>1. \A s \in SUBSET DOMAIN puts : h[s] = F(h)[s]
    BY ShortFold
  <2> QED BY <2>1
<1>3. V = F(V)
  BY <1>2
<1> HIDE DEF V
<1>4. V[DOMAIN puts] = IF puts = <<>> THEN e ELSE Step(e, puts[1])
  <2>1. \A s \in SUBSET DOMAIN puts : V[s] = F(V)[s]
    BY <1>3
  <2>2. V[{}] = e
    BY <2>1
  <2>3. CASE puts # <<>>
    <3>1. DOMAIN puts = {1} /\ Max({1}) = 1 /\ {1} \ {Max({1})} = {}
      BY <2>3, ShortFold
    <3>2. V[{1}] = Step(V[{1} \ {Max({1})}], puts[Max({1})])
      BY <2>1, <3>1
    <3> QED BY <2>2, <2>3, <3>1, <3>2
  <2> QED BY <2>2, <2>3, ShortFold
<1> QED BY <1>1, <1>4 DEF Step

LEMMA LmdbModifiedStep ==
    ASSUME NEW acc, NEW u, NEW q, IsShort(q)
    PROVE  LmdbModified(acc, q, u) =
             IF q = <<>> THEN acc
             ELSE IF acc.ok THEN LmdbStore(acc, q[1][1], q[1][2], u) ELSE acc
<1> DEFINE Step(a, x) == IF a.ok THEN LmdbStore(a, x[1], x[2], u) ELSE a
           F(f) == [s \in SUBSET DOMAIN q |-> IF s = {} THEN acc ELSE Step(f[s \ {Max(s)}], q[Max(s)])]
           V == CHOOSE f : f = F(f)
           h == [s \in SUBSET DOMAIN q |-> IF s = {} THEN acc ELSE Step(acc, q[1])]
<1>1. LmdbModified(acc, q, u) = V[DOMAIN q]
  BY DEF LmdbModified, FoldLeft, MapThenFoldSet
<1> HIDE DEF Step
<1>2. h = F(h)
  <2>1. \A s \in SUBSET DOMAIN q : h[s] = F(h)[s]
    BY ShortFold
  <2> QED BY <2>1
<1>3. V = F(V)
  BY <1>2
<1> HIDE DEF V
<1>4. V[DOMAIN q] = IF q = <<>> THEN acc ELSE Step(acc, q[1])
  <2>1. \A s \in SUBSET DOMAIN q : V[s] = F(V)[s]
    BY <1>3
  <2>2. V[{}] = acc
    BY <2>1
  <2>3. CASE q # <<>>
    <3>1. DOMAIN q = {1} /\ Max({1}) = 1 /\ {1} \ {Max({1})} = {}
      BY <2>3, ShortFold
    <3>2. V[{1}] = Step(V[{1} \ {Max({1})}], q[Max({1})])
      BY <2>1, <3>1
    <3> QED BY <2>2, <2>3, <3>1, <3>2
  <2> QED BY <2>2, <2>3, ShortFold
<1> QED BY <1>1, <1>4 DEF Step

LEMMA LevelApplyStep ==
    ASSUME NEW ix, NEW d, NEW new, NEW gone, NEW puts, NEW u, NEW m, NEW trunc, ~trunc,
           IsShort(gone), IsShort(puts)
    PROVE  LevelApply(ix, d, new, gone, puts, trunc, u, m) =
             LET cleared == IF gone = <<>> THEN Good(ix)
                            ELSE LevelRemove(Good(ix), gone[1], KeysOf(d, gone[1]), u)
             IN  IF puts = <<>> THEN cleared
                 ELSE LevelPut(cleared, puts[1], KeysOf(d, puts[1]), new[puts[1]], u, m)
<1>1. LevelApply(ix, d, new, gone, puts, trunc, u, m) =
        LevelPuts(LevelGone(Good(IF trunc THEN NoEntries ELSE ix), d, gone, u), d, new, puts, u, m)
  BY DEF LevelApply, LevelPuts, LevelGone
<1> DEFINE c == LevelGone(Good(ix), d, gone, u)
<1>2. c = IF gone = <<>> THEN Good(ix) ELSE LevelRemove(Good(ix), gone[1], KeysOf(d, gone[1]), u)
  BY LevelGoneStep
<1>3. LevelPuts(c, d, new, puts, u, m) =
        IF puts = <<>> THEN c ELSE LevelPut(c, puts[1], KeysOf(d, puts[1]), new[puts[1]], u, m)
  <2> HIDE DEF c
  <2> QED BY LevelPutsStep
<1> QED BY <1>1, <1>2, <1>3

LEMMA LmdbEncodeStep ==
    ASSUME NEW d, NEW new, NEW gone, NEW puts, NEW m, IsShort(gone), IsShort(puts)
    PROVE  LmdbEncode(d, new, gone, puts, m) =
             LET e == IF gone = <<>> THEN NoChanges ELSE LmdbRemove(NoChanges, gone[1], KeysOf(d, gone[1]))
             IN  IF puts = <<>> THEN e ELSE LmdbPut(e, puts[1], KeysOf(d, puts[1]), new[puts[1]], m)
<1>1. LmdbEncode(d, new, gone, puts, m) = LmdbPuts(LmdbGone(NoChanges, d, gone), d, new, puts, m)
  BY DEF LmdbEncode, LmdbPuts, LmdbGone
<1> DEFINE c == LmdbGone(NoChanges, d, gone)
<1>2. c = IF gone = <<>> THEN NoChanges ELSE LmdbRemove(NoChanges, gone[1], KeysOf(d, gone[1]))
  BY LmdbGoneStep
<1>3. LmdbPuts(c, d, new, puts, m) =
        IF puts = <<>> THEN c ELSE LmdbPut(c, puts[1], KeysOf(d, puts[1]), new[puts[1]], m)
  <2> HIDE DEF c
  <2> QED BY LmdbPutsStep
<1> QED BY <1>1, <1>2, <1>3

LEMMA LmdbApplyStep ==
    ASSUME NEW ix, NEW d, NEW new, NEW gone, NEW puts, NEW u, NEW m, NEW trunc, ~trunc
    PROVE  LET e == LmdbEncode(d, new, gone, puts, m)
               cleared == [sk \in SK |-> IF sk \notin DOMAIN e.removed THEN ix[sk]
                                         ELSE IF u THEN <<>> ELSE Dropped(ix[sk], e.removed[sk])]
           IN  LmdbApply(ix, d, new, gone, puts, trunc, u, m) = LmdbModified(Good(cleared), e.modified, u)
<1>1. LmdbApply(ix, d, new, gone, puts, trunc, u, m) = 
           LET e == LmdbEncode(d, new, gone, puts, m)
               base == IF trunc THEN NoEntries ELSE ix
               cleared == [sk \in SK |-> IF sk \notin DOMAIN e.removed THEN base[sk]
                                         ELSE IF u THEN <<>> ELSE Dropped(base[sk], e.removed[sk])]
           IN  LmdbModified(Good(cleared), e.modified, u)
  BY DEF LmdbApply, LmdbModified
<1>2. (IF trunc THEN NoEntries ELSE ix) = ix
  OBVIOUS
<1> QED BY <1>1, <1>2
-----------------------------------------------------------------------------
(* What the backends do to an index for one object. *)

\* The object pk is taken from the lists of some keys, or the lists are emptied.
Cleared(ix, ix2, sks, pk, u) ==
    /\ IsIndex(ix2)
    /\ \A s \in SK \ ToSet(sks) : ix2[s] = ix[s]
    /\ \A s \in SK \cap ToSet(sks) :
          /\ Len(ix2[s]) <= Len(ix[s]) /\ ToSet(ix2[s]) \subseteq ToSet(ix[s]) \ {pk}
          /\ (u => Len(ix[s]) <= 1) /\ pk \in ToSet(ix[s]) => ToSet(ix2[s]) = ToSet(ix[s]) \ {pk}

\* It is put into the lists of some keys, or it is there.
Listed(ix, ix2, sks, pk, u) ==
    /\ IsIndex(ix2)
    /\ \A s \in SK \ ToSet(sks) : ix2[s] = ix[s]
    /\ \A s \in SK \cap ToSet(sks) :
          ToSet(ix2[s]) = ToSet(ix[s]) \cup {pk} /\ (u => Len(ix2[s]) <= 1)

\* Both for an object whose keys change, or nothing if they stay.
Rewritten(ix, ix2, before, after, pk, u) ==
    \/ before = after /\ ix2 = ix
    \/ \E mid : Cleared(ix, mid, before, pk, u) /\ Listed(mid, ix2, after, pk, u)

\* The lists here are short.
LEMMA ShortObjects ==
    /\ \A sks \in Objects : IsShort(sks)
    /\ \A pk : IsShort(<<pk>>) /\ <<pk>> # <<>> /\ <<pk>>[1] = pk
    /\ IsShort(<<>>)
<1>1. \A sks \in Objects : IsShort(sks)
  BY ObjectFacts DEF IsShort
<1>2. \A pk : IsShort(<<pk>>) /\ <<pk>> # <<>> /\ <<pk>>[1] = pk
  BY DEF IsShort
<1> QED BY <1>1, <1>2 DEF IsShort

\* Giving one list of an index another value.
LEMMA WithList ==
    ASSUME NEW ix, IsIndex(ix), NEW sk \in SK, NEW list, IsList(list)
    PROVE  /\ IsIndex([ix EXCEPT ![sk] = list])
           /\ [ix EXCEPT ![sk] = list][sk] = list
           /\ \A s \in SK \ {sk} : [ix EXCEPT ![sk] = list][s] = ix[s]
<1>1. list \in Seq(PK) /\ ix \in [SK -> Seq(PK)]
  BY DEF IsList, IsIndex
<1>2. [ix EXCEPT ![sk] = list] \in [SK -> Seq(PK)]
  BY <1>1
<1>3. \A s \in SK : [ix EXCEPT ![sk] = list][s] = IF s = sk THEN list ELSE ix[s]
  BY <1>1
<1> QED BY <1>2, <1>3 DEF IsIndex

\* A list that loses the object, or is emptied because it had no other.
LEMMA ClearedByList ==
    ASSUME NEW ix, IsIndex(ix), NEW sks \in Objects, sks # <<>>, NEW pk \in PK, NEW u, NEW list,
           \/ list = <<>> /\ (u \/ Len(ix[sks[1]]) <= 1)
           \/ list = Dropped(ix[sks[1]], pk)
    PROVE  Cleared(ix, [ix EXCEPT ![sks[1]] = list], sks, pk, u)
<1> DEFINE sk == sks[1]
           ix2 == [ix EXCEPT ![sk] = list]
<1>1. sk \in SK /\ ToSet(sks) = {sk}
  BY ObjectFacts
<1>2. IsList(ix[sk])
  BY <1>1 DEF IsIndex
<1> HIDE DEF sk
<1>3. /\ IsList(list) /\ Len(list) <= Len(ix[sk]) /\ ToSet(list) \subseteq ToSet(ix[sk]) \ {pk}
      /\ (u => Len(ix[sk]) <= 1) /\ pk \in ToSet(ix[sk]) => ToSet(list) = ToSet(ix[sk]) \ {pk}
  <2>1. CASE list = Dropped(ix[sk], pk)
    BY <1>2, <2>1, DroppedFacts
  <2>2. CASE list = <<>> /\ (u \/ Len(ix[sk]) <= 1)
    <3>1. IsList(list) /\ ToSet(list) = {} /\ Len(list) = 0
      BY <2>2, ShortLists
    <3>2. Len(ix[sk]) \in Nat
      BY <1>2, ListFacts
    <3>3. ASSUME u => Len(ix[sk]) <= 1, pk \in ToSet(ix[sk])
          PROVE  ToSet(ix[sk]) = {pk}
      <4>1. /\ \A i \in 1..Len(ix[sk]) : i = 1
            /\ \A k \in PK : k \in ToSet(ix[sk]) <=> \E i \in 1..Len(ix[sk]) : ix[sk][i] = k
            /\ ToSet(ix[sk]) \subseteq PK
        BY <3>2, <3>3, <2>2, <1>2, ListFacts
      <4>2. \A k \in ToSet(ix[sk]) : k = pk
        BY <4>1, <3>3
      <4> QED BY <4>2, <3>3
    <3> QED BY <3>1, <3>2, <3>3
  <2> QED BY <2>1, <2>2 DEF sk
<1>4. /\ IsIndex(ix2) /\ ix2[sk] = list /\ \A s \in SK \ {sk} : ix2[s] = ix[s]
  BY <1>1, <1>3, WithList
<1> HIDE DEF ix2
<1>5. Cleared(ix, ix2, sks, pk, u)
  BY <1>1, <1>3, <1>4 DEF Cleared
<1> QED BY <1>5 DEF ix2, sk

\* A list that gains the object.
LEMMA ListedByList ==
    ASSUME NEW ix, IsIndex(ix), NEW sks \in Objects, sks # <<>>, NEW pk \in PK, NEW u, NEW ix2,
           u => ix[sks[1]] = <<>>,
           ix2 = IF pk \in ToSet(ix[sks[1]]) THEN ix ELSE [ix EXCEPT ![sks[1]] = Added(@, pk)]
    PROVE  Listed(ix, ix2, sks, pk, u)
<1> DEFINE sk == sks[1]
           list == ix[sk]
<1>1. sk \in SK /\ ToSet(sks) = {sk}
  BY ObjectFacts
<1>2. IsList(list)
  BY <1>1 DEF IsIndex
<1>3. u => Len(list) = 0 /\ ToSet(list) = {}
  BY ShortLists
<1> HIDE DEF sk
<1>4. CASE pk \in ToSet(list)
  <2>1. ix2 = ix
    BY <1>4 DEF sk
  <2> QED BY <2>1, <1>1, <1>3, <1>4 DEF Listed
<1>5. CASE pk \notin ToSet(list)
  <2> DEFINE longer == Added(list, pk)
  <2>1. IsList(longer) /\ Len(longer) = Len(list) + 1 /\ ToSet(longer) = ToSet(list) \cup {pk}
    BY <1>2, <1>5, AddedFacts
  <2>2. ix2 = [ix EXCEPT ![sk] = longer]
    BY <1>5 DEF sk
  <2> HIDE DEF longer
  <2>3. IsIndex(ix2) /\ ix2[sk] = longer /\ \A s \in SK \ {sk} : ix2[s] = ix[s]
    <3>1. IsList(longer) /\ sk \in SK
      BY <1>1, <2>1
    <3>2. /\ IsIndex([ix EXCEPT ![sk] = longer]) /\ [ix EXCEPT ![sk] = longer][sk] = longer
          /\ \A s \in SK \ {sk} : [ix EXCEPT ![sk] = longer][s] = ix[s]
      BY <3>1, WithList
    <3> QED BY <2>2, <3>2
  <2> HIDE DEF list
  <2>4. ToSet(ix2[sk]) = ToSet(ix[sk]) \cup {pk} /\ (u => Len(ix2[sk]) <= 1)
    BY <1>3, <2>1, <2>3 DEF list
  <2> QED BY <1>1, <2>3, <2>4 DEF Listed
<1> QED BY <1>4, <1>5

\* An object without keys changes nothing.
LEMMA NothingCleared ==
    ASSUME NEW ix, IsIndex(ix), NEW pk, NEW u
    PROVE  Cleared(ix, ix, <<>>, pk, u) /\ Listed(ix, ix, <<>>, pk, u)
BY ShortLists DEF Cleared, Listed

\* The result of a step that did not fail.
LEMMA GoodFacts ==
    /\ \A ix : Good(ix).ix = ix /\ Good(ix).ok /\ ~[Good(ix) EXCEPT !.ok = FALSE].ok
    /\ \E t : \A ix : Good(ix) = [ix |-> ix, ok |-> t]
<1>1. ASSUME NEW ix PROVE Good(ix).ix = ix /\ Good(ix).ok /\ ~[Good(ix) EXCEPT !.ok = FALSE].ok
  BY DEF Good
<1>2. \A ix : Good(ix) = [ix |-> ix, ok |-> TRUE]
  BY DEF Good
<1> QED BY <1>1, <1>2

\* The steps of LevelDB: the old keys, the new ones, then both.
LEMMA LevelRemoveClears ==
    ASSUME NEW ix, IsIndex(ix), NEW pk \in PK, NEW sks \in Objects, NEW u
    PROVE  \E mid : LevelRemove(Good(ix), pk, sks, u) = Good(mid) /\ Cleared(ix, mid, sks, pk, u)
<1>1. IsShort(sks)
  BY ShortObjects
<1>2. CASE sks = <<>>
  <2>1. LevelRemove(Good(ix), pk, sks, u) = Good(ix)
    BY <1>1, <1>2, LevelRemoveStep
  <2> QED BY <2>1, <1>2, NothingCleared
<1>3. CASE sks # <<>>
  <2> DEFINE sk == sks[1]
  <2>1. LevelRemove(Good(ix), pk, sks, u) =
            IF ~u /\ Len(ix[sk]) > 1 THEN Good([ix EXCEPT ![sk] = Dropped(ix[sk], pk)])
            ELSE Good([ix EXCEPT ![sk] = <<>>])
    <3>1. LevelRemove(Good(ix), pk, sks, u) =
            IF ~u /\ Len(Good(ix).ix[sk]) > 1 THEN [Good(ix) EXCEPT !.ix[sk] = Dropped(Good(ix).ix[sk], pk)]
            ELSE [Good(ix) EXCEPT !.ix[sk] = <<>>]
      BY <1>1, <1>3, LevelRemoveStep
    <3> PICK t : \A q : Good(q) = [ix |-> q, ok |-> t]
      BY GoodFacts
    <3>2. [Good(ix) EXCEPT !.ix[sk] = Dropped(ix[sk], pk)] = Good([ix EXCEPT ![sk] = Dropped(ix[sk], pk)])
      OBVIOUS
    <3>3. [Good(ix) EXCEPT !.ix[sk] = <<>>] = Good([ix EXCEPT ![sk] = <<>>])
      OBVIOUS
    <3>4. Good(ix).ix = ix
      BY GoodFacts
    <3> QED BY <3>1, <3>2, <3>3, <3>4
  <2>2. Len(ix[sk]) \in Nat
    BY <1>3, ObjectFacts, ListFacts DEF IsIndex
  <2>3. CASE ~u /\ Len(ix[sk]) > 1
    <3> DEFINE mid == [ix EXCEPT ![sk] = Dropped(ix[sk], pk)]
    <3>1. LevelRemove(Good(ix), pk, sks, u) = Good(mid)
      BY <2>1, <2>3
    <3>2. Cleared(ix, mid, sks, pk, u)
      BY <1>3, ClearedByList
    <3> QED BY <3>1, <3>2
  <2>4. CASE ~(~u /\ Len(ix[sk]) > 1)
    <3> DEFINE mid == [ix EXCEPT ![sk] = <<>>]
    <3>1. LevelRemove(Good(ix), pk, sks, u) = Good(mid)
      BY <2>1, <2>4
    <3>2. u \/ Len(ix[sk]) <= 1
      BY <2>2, <2>4
    <3>3. Cleared(ix, mid, sks, pk, u)
      BY <1>3, <3>2, ClearedByList
    <3> QED BY <3>1, <3>3
  <2> QED BY <2>3, <2>4
<1> QED BY <1>2, <1>3

LEMMA LevelInsertLists ==
    ASSUME NEW ix, IsIndex(ix), NEW pk \in PK, NEW sks \in Objects, NEW u,
           LevelInsert(Good(ix), pk, sks, u).ok
    PROVE  Listed(ix, LevelInsert(Good(ix), pk, sks, u).ix, sks, pk, u)
<1> DEFINE r == LevelInsert(Good(ix), pk, sks, u)
<1>1. IsShort(sks)
  BY ShortObjects
<1>2. CASE sks = <<>>
  <2>1. r = Good(ix)
    BY <1>1, <1>2, LevelInsertStep
  <2>2. r.ix = ix
    BY <2>1, GoodFacts
  <2>3. Listed(ix, ix, <<>>, pk, u)
    BY NothingCleared
  <2> HIDE DEF r
  <2>4. Listed(ix, r.ix, sks, pk, u)
    BY <2>2, <2>3, <1>2
  <2> QED BY <2>4 DEF r
<1>3. CASE sks # <<>>
  <2> DEFINE sk == sks[1]
  <2>1. r = IF ~Good(ix).ok \/ (u /\ Good(ix).ix[sk] # <<>>) THEN [Good(ix) EXCEPT !.ok = FALSE]
            ELSE IF pk \in ToSet(Good(ix).ix[sk]) THEN Good(ix)
            ELSE [Good(ix) EXCEPT !.ix[sk] = Added(@, pk)]
    BY <1>1, <1>3, LevelInsertStep
  <2>2. r.ok
    OBVIOUS
  <2> HIDE DEF r
  <2>3. u => ix[sk] = <<>>
    BY <2>1, <2>2, GoodFacts
  <2>4. r = IF pk \in ToSet(ix[sk]) THEN Good(ix) ELSE [Good(ix) EXCEPT !.ix[sk] = Added(@, pk)]
    BY <2>1, <2>3, GoodFacts
  <2>5. r.ix = IF pk \in ToSet(ix[sk]) THEN ix ELSE [ix EXCEPT ![sk] = Added(@, pk)]
    <3> PICK t : \A q : Good(q) = [ix |-> q, ok |-> t]
      BY GoodFacts
    <3>1. [Good(ix) EXCEPT !.ix[sk] = Added(ix[sk], pk)] = Good([ix EXCEPT ![sk] = Added(ix[sk], pk)])
      OBVIOUS
    <3>2. \A q : Good(q).ix = q
      BY GoodFacts
    <3> QED BY <2>4, <3>1, <3>2
  <2>6. Listed(ix, r.ix, sks, pk, u)
    BY <1>3, <2>3, <2>5, ListedByList
  <2> QED BY <2>6 DEF r
<1> QED BY <1>2, <1>3

LEMMA LevelPutRewrites ==
    ASSUME NEW ix, IsIndex(ix), NEW pk \in PK, NEW before \in Objects, NEW after \in Objects, NEW u,
           NEW m, ~m, LevelPut(Good(ix), pk, before, after, u, m).ok
    PROVE  Rewritten(ix, LevelPut(Good(ix), pk, before, after, u, m).ix, before, after, pk, u)
<1> DEFINE r == LevelPut(Good(ix), pk, before, after, u, m)
<1>1. r = IF ~Good(ix).ok \/ SameKeys(before, after, m) THEN Good(ix)
          ELSE LevelInsert(LevelRemove(Good(ix), pk, before, u), pk, after, u)
  BY DEF LevelPut, Rekeyed
<1>2. r.ok
  OBVIOUS
<1> HIDE DEF r
<1>3. CASE before = after
  <2>1. r = Good(ix)
    BY <1>1, <1>3, GoodFacts DEF SameKeys
  <2>2. Rewritten(ix, r.ix, before, after, pk, u)
    BY <2>1, <1>3, GoodFacts DEF Rewritten
  <2> QED BY <2>2 DEF r
<1>4. CASE before # after
  <2>1. r = LevelInsert(LevelRemove(Good(ix), pk, before, u), pk, after, u)
    BY <1>1, <1>4, GoodFacts DEF SameKeys
  <2>2. PICK mid : LevelRemove(Good(ix), pk, before, u) = Good(mid) /\ Cleared(ix, mid, before, pk, u)
    BY LevelRemoveClears
  <2>3. IsIndex(mid) /\ r = LevelInsert(Good(mid), pk, after, u)
    BY <2>1, <2>2 DEF Cleared
  <2>4. Listed(mid, r.ix, after, pk, u)
    BY <1>2, <2>3, LevelInsertLists
  <2>5. Rewritten(ix, r.ix, before, after, pk, u)
    BY <2>2, <2>4 DEF Rewritten
  <2> QED BY <2>5 DEF r
<1> QED BY <1>3, <1>4

\* LevelDB puts one object, and removes one.
LEMMA LevelPutsOne ==
    ASSUME NEW ix, IsIndex(ix), NEW d, IsData(d), NEW pk \in PK, NEW sks \in Objects, NEW u,
           NEW m, ~m, NEW trunc, ~trunc, NEW new, new[pk] = sks,
           LevelApply(ix, d, new, <<>>, <<pk>>, trunc, u, m).ok
    PROVE  Rewritten(ix, LevelApply(ix, d, new, <<>>, <<pk>>, trunc, u, m).ix, KeysOf(d, pk), sks, pk, u)
<1>1. KeysOf(d, pk) \in Objects
  BY DEF KeysOf, IsData, Objects
<1>2. LevelApply(ix, d, new, <<>>, <<pk>>, trunc, u, m) = LevelPut(Good(ix), pk, KeysOf(d, pk), sks, u, m)
  BY ShortObjects, LevelApplyStep
<1> QED BY <1>1, <1>2, LevelPutRewrites

LEMMA LevelRemovesOne ==
    ASSUME NEW ix, IsIndex(ix), NEW d, IsData(d), NEW pk \in PK, NEW u, NEW m, NEW trunc, ~trunc, NEW new
    PROVE  Rewritten(ix, LevelApply(ix, d, new, <<pk>>, <<>>, trunc, u, m).ix, KeysOf(d, pk), <<>>, pk, u)
<1>1. KeysOf(d, pk) \in Objects
  BY DEF KeysOf, IsData, Objects
<1>2. LevelApply(ix, d, new, <<pk>>, <<>>, trunc, u, m) = LevelRemove(Good(ix), pk, KeysOf(d, pk), u)
  BY ShortObjects, LevelApplyStep
<1>3. PICK mid : LevelRemove(Good(ix), pk, KeysOf(d, pk), u) = Good(mid) /\ Cleared(ix, mid, KeysOf(d, pk), pk, u)
  BY <1>1, LevelRemoveClears
<1>4. Rewritten(ix, mid, KeysOf(d, pk), <<>>, pk, u)
  <2>1. Listed(mid, mid, <<>>, pk, u)
    BY <1>3, NothingCleared DEF Cleared
  <2> QED BY <1>3, <2>1 DEF Rewritten
<1> QED BY <1>2, <1>3, <1>4, GoodFacts

\* LMDB writes one pair.
LEMMA LmdbStoreLists ==
    ASSUME NEW ix, IsIndex(ix), NEW pk \in PK, NEW sks \in Objects, sks # <<>>, NEW u,
           LmdbStore(Good(ix), sks[1], pk, u).ok
    PROVE  \E ix2 : LmdbStore(Good(ix), sks[1], pk, u) = Good(ix2) /\ Listed(ix, ix2, sks, pk, u)
<1> DEFINE sk == sks[1]
           r == LmdbStore(Good(ix), sk, pk, u)
           ix2 == IF pk \in ToSet(ix[sk]) THEN ix ELSE [ix EXCEPT ![sk] = Added(@, pk)]
<1>1. r = IF u /\ ix[sk] # <<>> THEN [Good(ix) EXCEPT !.ok = FALSE]
          ELSE IF pk \in ToSet(ix[sk]) THEN Good(ix)
          ELSE [Good(ix) EXCEPT !.ix[sk] = Added(ix[sk], pk)]
  <2>1. Good(ix).ix = ix
    BY GoodFacts
  <2> QED BY <2>1 DEF LmdbStore
<1>2. r.ok
  OBVIOUS
<1> HIDE DEF r
<1>3. u => ix[sk] = <<>>
  BY <1>1, <1>2, GoodFacts
<1>4. r = Good(ix2)
  <2> PICK t : \A q : Good(q) = [ix |-> q, ok |-> t]
    BY GoodFacts
  <2>1. [Good(ix) EXCEPT !.ix[sk] = Added(ix[sk], pk)] = Good([ix EXCEPT ![sk] = Added(ix[sk], pk)])
    OBVIOUS
  <2> QED BY <1>1, <1>3, <2>1
<1>5. Listed(ix, ix2, sks, pk, u)
  BY <1>3, ListedByList
<1> QED BY <1>4, <1>5 DEF r

\* What an LMDB transaction records for one object that is removed, and for one that is put.
LEMMA LmdbRecordsOut ==
    ASSUME NEW pk, NEW before \in Objects, NEW e, e = LmdbRemove(NoChanges, pk, before)
    PROVE  /\ DOMAIN e.removed = ToSet(before) /\ e.modified = <<>>
           /\ \A s \in ToSet(before) : e.removed[s] = pk
           /\ DOMAIN e = {"removed", "modified"}
<1>1. IsShort(before)
  BY ShortObjects
<1>2. DOMAIN NoChanges.removed = {} /\ NoChanges.modified = <<>> /\ DOMAIN NoChanges = {"removed", "modified"}
  BY DEF NoChanges
<1>3. CASE before = <<>>
  BY <1>1, <1>2, <1>3, LmdbRemoveStep, ObjectFacts
<1>4. CASE before # <<>>
  <2> DEFINE sk == before[1]
  <2>1. e = RecordRemove(NoChanges, sk, pk) /\ ToSet(before) = {sk}
    BY <1>1, <1>4, LmdbRemoveStep, ObjectFacts
  <2>2. /\ DOMAIN RecordRemove(NoChanges, sk, pk).removed = {sk}
        /\ RecordRemove(NoChanges, sk, pk).removed[sk] = pk
        /\ RecordRemove(NoChanges, sk, pk).modified = <<>>
        /\ DOMAIN RecordRemove(NoChanges, sk, pk) = {"removed", "modified"}
    BY <1>2 DEF RecordRemove, NoChanges
  <2> QED BY <2>1, <2>2
<1> QED BY <1>3, <1>4

\* What LMDB records of an object that is put: the old key as removed and the new one as modified.
Recorded(put, before, after, pk) ==
    /\ before = after => DOMAIN put.removed = {} /\ put.modified = <<>>
    /\ before # after => /\ DOMAIN put.removed = ToSet(before)
                         /\ \A s \in ToSet(before) : put.removed[s] = pk
                         /\ after = <<>> => put.modified = <<>>
                         /\ after # <<>> => put.modified = <<<<after[1], pk>>>>

LEMMA LmdbRecords ==
    ASSUME NEW d, NEW new, NEW pk, NEW m, ~m,
           NEW before \in Objects, before = KeysOf(d, pk), NEW after \in Objects, after = new[pk],
           NEW put, put = LmdbEncode(d, new, <<>>, <<pk>>, m)
    PROVE  Recorded(put, before, after, pk)
<1> USE DEF Recorded
<1> DEFINE out == LmdbRemove(NoChanges, pk, before)
<1>1. IsShort(before) /\ IsShort(after) /\ IsShort(<<pk>>) /\ IsShort(<<>>) /\ <<pk>> # <<>> /\ <<pk>>[1] = pk
  BY ShortObjects
<1>2. DOMAIN NoChanges.removed = {} /\ NoChanges.modified = <<>>
  BY DEF NoChanges
<1>3. /\ DOMAIN out.removed = ToSet(before) /\ out.modified = <<>>
      /\ \A s \in ToSet(before) : out.removed[s] = pk
      /\ DOMAIN out = {"removed", "modified"}
  BY LmdbRecordsOut
<1>4. put = LmdbPut(NoChanges, pk, before, after, m)
  BY <1>1, LmdbEncodeStep
<1>5. CASE before = after
  BY <1>2, <1>4, <1>5 DEF LmdbPut, SameKeys
<1>6. CASE before # after
  <2>1. put = LmdbInsert(out, pk, after)
    BY <1>4, <1>6 DEF LmdbPut, SameKeys
  <2> HIDE DEF out
  <2>2. CASE after = <<>>
    <3>1. put = out
      BY <1>1, <2>1, <2>2, LmdbInsertStep
    <3> QED BY <1>3, <1>6, <2>2, <3>1
  <2>3. CASE after # <<>>
    <3>1. put = RecordPut(out, after[1], pk)
      BY <1>1, <2>1, <2>3, LmdbInsertStep
    <3>2. put.removed = out.removed
      BY <3>1, <1>3 DEF RecordPut
    <3>3. put.modified = <<<<after[1], pk>>>>
      BY <3>1, <1>3 DEF RecordPut
    <3> QED BY <1>3, <1>6, <2>3, <3>2, <3>3
  <2> QED BY <2>2, <2>3
<1> QED BY <1>5, <1>6

\* The index after the keys recorded as removed are worked off.
AfterRemovals(ix, removed, u) ==
    [sk \in SK |-> IF sk \notin DOMAIN removed THEN ix[sk]
                   ELSE IF u THEN <<>> ELSE Dropped(ix[sk], removed[sk])]

LEMMA LmdbClears ==
    ASSUME NEW ix, IsIndex(ix), NEW pk \in PK, NEW sks \in Objects, NEW u, NEW removed,
           DOMAIN removed = ToSet(sks), \A s \in ToSet(sks) : removed[s] = pk
    PROVE  Cleared(ix, AfterRemovals(ix, removed, u), sks, pk, u) /\ (sks = <<>> => AfterRemovals(ix, removed, u) = ix)
<1> DEFINE ix2 == AfterRemovals(ix, removed, u)
<1>1. ix \in [SK -> Seq(PK)]
  BY DEF IsIndex
<1>2. CASE sks = <<>>
  <2>1. \A sk \in SK : ix2[sk] = ix[sk]
    BY <1>2, ObjectFacts DEF AfterRemovals
  <2>2. ix2 = [sk \in SK |-> ix2[sk]]
    BY DEF AfterRemovals
  <2>3. ix2 = ix
    <3> HIDE DEF ix2
    <3> QED BY <1>1, <2>1, <2>2
  <2> QED BY <1>2, <2>3, NothingCleared
<1>3. CASE sks # <<>>
  <2> DEFINE sk == sks[1]
             list == IF u THEN <<>> ELSE Dropped(ix[sk], pk)
  <2>1. sk \in SK /\ ToSet(sks) = {sk}
    BY <1>3, ObjectFacts
  <2>2. \A s \in SK : ix2[s] = IF s = sk THEN list ELSE ix[s]
    BY <2>1 DEF AfterRemovals
  <2>3. ix2 = [s \in SK |-> ix2[s]]
    BY DEF AfterRemovals
  <2>4. ix2 = [ix EXCEPT ![sk] = list]
    <3> HIDE DEF ix2, list, sk
    <3> QED BY <1>1, <2>1, <2>2, <2>3
  <2>5. Cleared(ix, [ix EXCEPT ![sks[1]] = list], sks, pk, u)
    <3>1. (list = <<>> /\ u) \/ list = Dropped(ix[sks[1]], pk)
      OBVIOUS
    <3> HIDE DEF list
    <3> QED BY <1>3, <3>1, ClearedByList
  <2> QED BY <1>3, <2>4, <2>5
<1> QED BY <1>2, <1>3

\* LMDB removes one object, and puts one.
LEMMA LmdbRemovesOne ==
    ASSUME NEW ix, IsIndex(ix), NEW d, IsData(d), NEW pk \in PK, NEW u, NEW m, NEW trunc, ~trunc, NEW new
    PROVE  Rewritten(ix, LmdbApply(ix, d, new, <<pk>>, <<>>, trunc, u, m).ix, KeysOf(d, pk), <<>>, pk, u)
<1> DEFINE before == KeysOf(d, pk)
           gone == LmdbEncode(d, new, <<pk>>, <<>>, m)
           r == LmdbApply(ix, d, new, <<pk>>, <<>>, trunc, u, m)
           mid == AfterRemovals(ix, gone.removed, u)
<1>1. before \in Objects
  BY DEF KeysOf, IsData, Objects
<1>2. r = LmdbModified(Good(mid), gone.modified, u)
  BY LmdbApplyStep DEF AfterRemovals
<1>3. gone = LmdbRemove(NoChanges, pk, before)
  BY ShortObjects, LmdbEncodeStep
<1> HIDE DEF before, gone, r
<1>4. DOMAIN gone.removed = ToSet(before) /\ gone.modified = <<>> /\ \A s \in ToSet(before) : gone.removed[s] = pk
  BY <1>1, <1>3, LmdbRecordsOut
<1>5. Cleared(ix, mid, before, pk, u)
  BY <1>1, <1>4, LmdbClears
<1> HIDE DEF mid
<1>6. LmdbModified(Good(mid), <<>>, u) = Good(mid)
  BY ShortObjects, LmdbModifiedStep
<1>7. Listed(mid, mid, <<>>, pk, u)
  BY <1>5, NothingCleared DEF Cleared
<1>8. r.ix = mid
  BY <1>2, <1>4, <1>6, GoodFacts
<1> QED BY <1>5, <1>7, <1>8 DEF Rewritten, r, before

LEMMA LmdbPutsOne ==
    ASSUME NEW ix, IsIndex(ix), NEW d, IsData(d), NEW pk \in PK, NEW sks \in Objects, NEW u,
           NEW m, ~m, NEW trunc, ~trunc, NEW new, new[pk] = sks,
           LmdbApply(ix, d, new, <<>>, <<pk>>, trunc, u, m).ok
    PROVE  Rewritten(ix, LmdbApply(ix, d, new, <<>>, <<pk>>, trunc, u, m).ix, KeysOf(d, pk), sks, pk, u)
<1> DEFINE before == KeysOf(d, pk)
           put == LmdbEncode(d, new, <<>>, <<pk>>, m)
           r == LmdbApply(ix, d, new, <<>>, <<pk>>, trunc, u, m)
           mid == AfterRemovals(ix, put.removed, u)
<1>1. before \in Objects
  BY DEF KeysOf, IsData, Objects
<1>2. r = LmdbModified(Good(mid), put.modified, u) /\ r.ok
  BY LmdbApplyStep DEF AfterRemovals
<1>3. /\ before = sks => DOMAIN put.removed = {} /\ put.modified = <<>>
      /\ before # sks => /\ DOMAIN put.removed = ToSet(before)
                         /\ \A s \in ToSet(before) : put.removed[s] = pk
                         /\ sks = <<>> => put.modified = <<>>
                         /\ sks # <<>> => put.modified = <<<<sks[1], pk>>>>
  <2>1. put = LmdbEncode(d, new, <<>>, <<pk>>, m) /\ before = KeysOf(d, pk) /\ sks = new[pk]
    OBVIOUS
  <2> HIDE DEF before, put, r, mid
  <2>2. Recorded(put, before, sks, pk)
    BY <1>1, <2>1, LmdbRecords
  <2> QED BY <2>2 DEF Recorded
<1> HIDE DEF before, put, r
<1>4. CASE before = sks
  <2>1. DOMAIN put.removed = ToSet(<<>>) /\ \A s \in ToSet(<<>>) : put.removed[s] = pk
    BY <1>3, <1>4, ShortLists
  <2>2. mid = ix
    BY <1>1, <2>1, LmdbClears DEF Objects
  <2>3. LmdbModified(Good(ix), <<>>, u) = Good(ix)
    BY ShortObjects, LmdbModifiedStep
  <2>4. r = Good(ix)
    BY <1>2, <1>3, <1>4, <2>2, <2>3
  <2> QED BY <1>4, <2>4, GoodFacts DEF Rewritten, r, before
<1>5. CASE before # sks
  <2>1. Cleared(ix, mid, before, pk, u)
    BY <1>1, <1>3, <1>5, LmdbClears
  <2> HIDE DEF mid
  <2>2. CASE sks = <<>>
    <3>1. LmdbModified(Good(mid), <<>>, u) = Good(mid)
      BY ShortObjects, LmdbModifiedStep
    <3>2. r = Good(mid)
      BY <1>2, <1>3, <1>5, <2>2, <3>1
    <3>3. Listed(mid, mid, <<>>, pk, u)
      BY <2>1, NothingCleared DEF Cleared
    <3> QED BY <2>1, <2>2, <3>2, <3>3, GoodFacts DEF Rewritten, r, before
  <2>3. CASE sks # <<>>
    <3> DEFINE pair == <<sks[1], pk>>
               stored == LmdbStore(Good(mid), sks[1], pk, u)
    <3>1. pair[1] = sks[1] /\ pair[2] = pk
      OBVIOUS
    <3>2. LmdbModified(Good(mid), <<pair>>, u) = LmdbStore(Good(mid), pair[1], pair[2], u)
      <4> HIDE DEF pair
      <4>1. IsShort(<<pair>>) /\ <<pair>> # <<>> /\ <<pair>>[1] = pair
        BY ShortObjects
      <4> QED BY <4>1, LmdbModifiedStep, GoodFacts
    <3>3. r = stored /\ stored.ok
      BY <1>2, <1>3, <1>5, <2>3, <3>1, <3>2
    <3> HIDE DEF stored
    <3>4. PICK ix2 : stored = Good(ix2) /\ Listed(mid, ix2, sks, pk, u)
      BY <2>1, <2>3, <3>3, LmdbStoreLists DEF Cleared, stored
    <3> QED BY <2>1, <3>3, <3>4, GoodFacts DEF Rewritten, r, before
  <2> QED BY <2>2, <2>3
<1> QED BY <1>4, <1>5
-----------------------------------------------------------------------------
(* What an index and the objects have to do with each other. *)

\* The index lists only objects that have the key; it lists all of them; a unique one lists one for each.
Sound(ix, d) == \A sk \in SK : ToSet(ix[sk]) \subseteq Holders(d, sk)
Complete(ix, d) == \A sk \in SK : Holders(d, sk) \subseteq ToSet(ix[sk])
Narrow(ix, u) == u => \A sk \in SK : Len(ix[sk]) <= 1

\* An index rewritten as one object changes stays as sound, as complete and as narrow as it was.
LEMMA RewrittenFollows ==
    ASSUME NEW ix, IsIndex(ix), NEW d, IsData(d), NEW d2, IsData(d2), NEW pk \in PK, NEW after \in Objects,
           KeysOf(d2, pk) = after, \A q \in PK \ {pk} : KeysOf(d2, q) = KeysOf(d, q),
           NEW u, Narrow(ix, u), NEW ix2, Rewritten(ix, ix2, KeysOf(d, pk), after, pk, u)
    PROVE  /\ IsIndex(ix2) /\ Narrow(ix2, u)
           /\ Sound(ix, d) => Sound(ix2, d2)
           /\ Complete(ix, d) => Complete(ix2, d2)
<1> DEFINE before == KeysOf(d, pk)
           Keeps == /\ \A s \in SK : Sound(ix, d) => ToSet(ix2[s]) \subseteq Holders(d2, s)
                    /\ \A s \in SK : Complete(ix, d) => Holders(d2, s) \subseteq ToSet(ix2[s])
<1>1. /\ \A s \in SK : Holders(d, s) = {q \in PK : KeysOf(d, q) = <<s>>}
      /\ \A s \in SK : Holders(d2, s) = {q \in PK : KeysOf(d2, q) = <<s>>}
      /\ before \in Objects
  BY HoldersFacts DEF KeysOf, IsData, Objects
<1>2. \A sks \in Objects, s \in SK : s \in ToSet(sks) <=> sks = <<s>>
  <2>1. ASSUME NEW sks \in Objects, NEW s \in SK PROVE s \in ToSet(sks) <=> sks = <<s>>
    <3>1. CASE sks = <<>>
      BY <3>1, ShortLists
    <3>2. CASE sks # <<>>
      <4>1. sks = <<sks[1]>> /\ ToSet(sks) = {sks[1]}
        BY <3>2, ObjectFacts
      <4>2. (<<s>>)[1] = s
        OBVIOUS
      <4> QED BY <4>1, <4>2
    <3> QED BY <3>1, <3>2
  <2> QED BY <2>1
<1> HIDE DEF before
<1>3. ASSUME NEW s \in SK
      PROVE  /\ ~(s \in ToSet(before)) => Holders(d, s) \ {pk} = Holders(d, s)
             /\ s \in ToSet(before) => pk \in Holders(d, s)
             /\ s \in ToSet(after) => Holders(d2, s) = Holders(d, s) \cup {pk}
             /\ ~(s \in ToSet(after)) => Holders(d2, s) = Holders(d, s) \ {pk}
  <2>1. KeysOf(d, pk) = before
    BY DEF before
  <2>2. /\ (pk \in Holders(d, s) <=> s \in ToSet(before)) /\ (pk \in Holders(d2, s) <=> s \in ToSet(after))
        /\ \A q \in PK \ {pk} : q \in Holders(d, s) <=> q \in Holders(d2, s)
        /\ Holders(d, s) \subseteq PK /\ Holders(d2, s) \subseteq PK
    BY <1>1, <1>2, <2>1
  <2> QED BY <2>2
<1>4. CASE before = after /\ ix2 = ix
  <2>1. \A s \in SK : Holders(d2, s) = Holders(d, s)
    BY <1>3, <1>4
  <2> QED BY <1>4, <2>1 DEF Sound, Complete
<1>5. CASE \E mid : Cleared(ix, mid, before, pk, u) /\ Listed(mid, ix2, after, pk, u)
  <2>1. PICK mid : Cleared(ix, mid, before, pk, u) /\ Listed(mid, ix2, after, pk, u)
    BY <1>5
  <2>2. IsIndex(ix2) /\ IsIndex(mid)
    BY <2>1 DEF Listed, Cleared
  <2>3. ASSUME NEW s \in SK
        PROVE  /\ u => Len(ix2[s]) <= 1
               /\ Sound(ix, d) => ToSet(ix2[s]) \subseteq Holders(d2, s)
               /\ Complete(ix, d) => Holders(d2, s) \subseteq ToSet(ix2[s])
    <3>1. /\ s \notin ToSet(before) => mid[s] = ix[s]
          /\ s \in ToSet(before) =>
                /\ Len(mid[s]) <= Len(ix[s]) /\ ToSet(mid[s]) \subseteq ToSet(ix[s]) \ {pk}
                /\ pk \in ToSet(ix[s]) => ToSet(mid[s]) = ToSet(ix[s]) \ {pk}
      BY <2>1 DEF Cleared, Narrow
    <3>2. /\ s \notin ToSet(after) => ix2[s] = mid[s]
          /\ s \in ToSet(after) => ToSet(ix2[s]) = ToSet(mid[s]) \cup {pk} /\ (u => Len(ix2[s]) <= 1)
      BY <2>1 DEF Listed
    <3>3. Len(ix[s]) \in Nat /\ Len(mid[s]) \in Nat /\ (u => Len(ix[s]) <= 1)
      BY <2>2, ListFacts DEF Narrow, IsIndex
    <3>4. u => Len(ix2[s]) <= 1
      BY <3>1, <3>2, <3>3
    <3>5. ASSUME Sound(ix, d) PROVE ToSet(ix2[s]) \subseteq Holders(d2, s)
      <4>1. ToSet(ix[s]) \subseteq Holders(d, s)
        BY <3>5 DEF Sound
      <4>2. ToSet(mid[s]) \subseteq Holders(d, s) \ {pk}
        BY <3>1, <4>1, <1>3
      <4> QED BY <4>2, <3>2, <1>3
    <3>6. ASSUME Complete(ix, d) PROVE Holders(d2, s) \subseteq ToSet(ix2[s])
      <4>1. Holders(d, s) \subseteq ToSet(ix[s])
        BY <3>6 DEF Complete
      <4>2. Holders(d, s) \ {pk} \subseteq ToSet(mid[s])
        BY <3>1, <4>1, <1>3
      <4> QED BY <4>2, <3>2, <1>3
    <3> QED BY <3>4, <3>5, <3>6
  <2> QED BY <2>2, <2>3 DEF Sound, Complete, Narrow
<1> QED BY <1>4, <1>5 DEF Rewritten, before
-----------------------------------------------------------------------------
(* Filling an LMDB index. *)

\* One object put into the index, if none before failed; then all, in the order of the primary keys.
FillStep(a, d, pk, u) == IF a.ok /\ d[pk] # <<>> THEN LmdbStore(a, d[pk][1], pk, u) ELSE a
Filled(ix, d, u) == FoldLeft(LAMBDA a, pk : FillStep(a, d, pk, u), Good(ix), Ascending(DOMAIN d))

\* What the filling goes through.
Accumulators == {a \in [ix : [SK -> Seq(PK)], ok : BOOLEAN] : IsIndex(a.ix)}

LEMMA LmdbFillIsFilled == LmdbFill = Filled(index, data, unique)
BY DEF LmdbFill, Filled, FillStep

\* One object more.
LEMMA FillOne ==
    ASSUME NEW a \in Accumulators, NEW d, IsData(d), NEW pk \in DOMAIN d, NEW u, Narrow(a.ix, u)
    PROVE  LET b == FillStep(a, d, pk, u)
           IN  /\ b \in Accumulators /\ Narrow(b.ix, u)
               /\ \A s \in SK : /\ ToSet(a.ix[s]) \subseteq ToSet(b.ix[s])
                                /\ ToSet(b.ix[s]) \subseteq ToSet(a.ix[s]) \cup Holders(d, s)
               /\ b.ok => a.ok /\ (d[pk] # <<>> => pk \in ToSet(b.ix[d[pk][1]]))
<1> DEFINE b == FillStep(a, d, pk, u)
<1>1. a.ok \in BOOLEAN /\ IsIndex(a.ix) /\ a \in [ix : [SK -> Seq(PK)], ok : BOOLEAN]
  BY DEF Accumulators
<1>2. pk \in PK /\ d[pk] \in Objects
  BY DEF IsData
<1>3. CASE ~(a.ok /\ d[pk] # <<>>)
  BY <1>3, <1>1 DEF FillStep
<1>4. CASE a.ok /\ d[pk] # <<>>
  <2> DEFINE sk == d[pk][1]
             list == a.ix[sk]
  <2>1. sk \in SK /\ ToSet(d[pk]) = {sk} /\ d[pk] = <<sk>>
    BY <1>2, <1>4, ObjectFacts
  <2>2. b = LmdbStore(a, sk, pk, u)
    BY <1>4 DEF FillStep
  <2>3. IsList(list)
    BY <1>1, <2>1 DEF IsIndex
  <2>4. pk \in Holders(d, sk)
    BY <2>1 DEF Holders
  <2> HIDE DEF sk, list, b
  <2>5. CASE u /\ list # <<>>
    <3>1. b = [a EXCEPT !.ok = FALSE]
      BY <2>2, <2>5 DEF LmdbStore, list
    <3>2. b \in [ix : [SK -> Seq(PK)], ok : BOOLEAN] /\ b.ix = a.ix /\ ~b.ok
      BY <1>1, <3>1
    <3>3. b \in Accumulators
      BY <1>1, <3>2 DEF Accumulators
    <3> QED BY <3>2, <3>3 DEF b
  <2>6. CASE ~(u /\ list # <<>>) /\ pk \in ToSet(list)
    <3>1. b = a
      BY <2>2, <2>6 DEF LmdbStore, list
    <3> QED BY <3>1, <2>6, <1>1, <1>4 DEF b, list, sk
  <2>7. CASE ~(u /\ list # <<>>) /\ pk \notin ToSet(list)
    <3> DEFINE longer == Added(list, pk)
    <3>1. IsList(longer) /\ Len(longer) = Len(list) + 1 /\ ToSet(longer) = ToSet(list) \cup {pk}
      BY <1>2, <2>3, <2>7, AddedFacts
    <3>2. b = [a EXCEPT !.ix[sk] = longer]
      BY <2>2, <2>7 DEF LmdbStore, list
    <3> HIDE DEF longer
    <3>3. IsList(longer)
      BY <3>1
    <3>4. /\ IsIndex([a.ix EXCEPT ![sk] = longer]) /\ [a.ix EXCEPT ![sk] = longer][sk] = longer
          /\ \A s \in SK \ {sk} : [a.ix EXCEPT ![sk] = longer][s] = a.ix[s]
      BY <1>1, <2>1, <3>3, WithList
    <3>5. b.ix = [a.ix EXCEPT ![sk] = longer] /\ b.ok = a.ok
      BY <1>1, <3>2
    <3>6. b \in [ix : [SK -> Seq(PK)], ok : BOOLEAN]
      <4>1. [a.ix EXCEPT ![sk] = longer] \in [SK -> Seq(PK)]
        BY <3>4 DEF IsIndex
      <4> QED BY <1>1, <3>2, <4>1
    <3>7. b \in Accumulators /\ IsIndex(b.ix) /\ b.ix[sk] = longer /\ \A s \in SK \ {sk} : b.ix[s] = a.ix[s]
      BY <3>4, <3>5, <3>6 DEF Accumulators
    <3>8. u => Len(longer) <= 1
      BY <2>7, <3>1, ShortLists
    <3>9. Narrow(b.ix, u)
      BY <3>7, <3>8 DEF Narrow
    <3>10. \A s \in SK : /\ ToSet(a.ix[s]) \subseteq ToSet(b.ix[s])
                         /\ ToSet(b.ix[s]) \subseteq ToSet(a.ix[s]) \cup Holders(d, s)
      BY <3>7, <3>1, <2>4 DEF list
    <3>11. pk \in ToSet(b.ix[sk])
      BY <3>7, <3>1
    <3> QED BY <3>7, <3>9, <3>10, <3>11, <1>4 DEF b, sk
  <2> QED BY <2>5, <2>6, <2>7
<1> QED BY <1>3, <1>4

\* It does so one object after the other.
LEMMA FilledSteps ==
    ASSUME NEW ix, IsIndex(ix), NEW d, IsData(d), NEW u, Narrow(ix, u)
    PROVE  LET q == Ascending(DOMAIN d)
           IN  \E f \in [0..Len(q) -> {a \in Accumulators : Narrow(a.ix, u)}] :
                  /\ f[0] = Good(ix) /\ \A i \in 1..Len(q) : f[i] = FillStep(f[i - 1], d, q[i], u)
                  /\ Filled(ix, d, u) = f[Len(q)]
<1> DEFINE q == Ascending(DOMAIN d)
           n == Len(q)
           C == {a \in Accumulators : Narrow(a.ix, u)}
           c == Good(ix)
           g == [i \in 1..n |-> [a \in C |-> FillStep(a, d, q[i], u)]]
<1>1. n \in Nat /\ DOMAIN q = 1..n /\ \A i \in 1..n : q[i] \in DOMAIN d
  <2>1. IsList(q) /\ ToSet(q) = DOMAIN d
    BY AscendingLists DEF IsData
  <2> HIDE DEF q
  <2>2. n \in Nat /\ DOMAIN q = 1..n
    BY <2>1, ListFacts
  <2> QED BY <2>1, <2>2 DEF ToSet
<1>2. c \in C
  <2>1. c \in [ix : [SK -> Seq(PK)], ok : BOOLEAN] /\ c.ix = ix
    BY DEF Good, IsIndex
  <2> QED BY <2>1 DEF Accumulators
<1>3. g \in [1..n -> [C -> C]]
  <2>1. ASSUME NEW i \in 1..n, NEW a \in C PROVE FillStep(a, d, q[i], u) \in C
    BY <1>1, FillOne
  <2> QED BY <2>1
<1> HIDE DEF n, C, c, g
<1> PICK f, h : Folds(f, h, n, C, c, g)
  BY <1>1, <1>2, <1>3, FoldSteps
<1>4. /\ f \in [0..n -> C] /\ f[0] = c /\ \A i \in 1..n : f[i] = g[i][f[i - 1]]
      /\ h \in [SUBSET (1..n) -> C]
      /\ \A s \in SUBSET (1..n) : h[s] = IF s = {} THEN c ELSE g[Max(s)][h[s \ {Max(s)}]]
      /\ h[1..n] = f[n]
  BY DEF Folds
<1>5. \A i \in 1..n : f[i] = FillStep(f[i - 1], d, q[i], u)
  <2>1. ASSUME NEW i \in 1..n PROVE f[i - 1] \in C
    BY <1>1, <1>4
  <2>2. \A i \in 1..n, a \in C : g[i][a] = FillStep(a, d, q[i], u)
    BY DEF g
  <2> QED BY <1>4, <2>1, <2>2
<1> DEFINE Step(a, pk) == FillStep(a, d, pk, u)
           F(k) == [s \in SUBSET DOMAIN q |-> IF s = {} THEN c ELSE Step(k[s \ {Max(s)}], q[Max(s)])]
           V == CHOOSE k : k = F(k)
<1>6. Filled(ix, d, u) = V[DOMAIN q]
  BY DEF Filled, FoldLeft, MapThenFoldSet, c
<1> HIDE DEF Step
<1>7. \A s \in SUBSET (1..n) : s # {} => Max(s) \in 1..n /\ s \ {Max(s)} \in SUBSET (1..n)
  BY <1>1, GreatestPosition
<1>8. \A s \in SUBSET (1..n) : h[s] = IF s = {} THEN c ELSE Step(h[s \ {Max(s)}], q[Max(s)])
  <2>1. \A i \in 1..n, a \in C : g[i][a] = Step(a, q[i])
    BY DEF g, Step
  <2>2. \A s \in SUBSET (1..n) : s # {} => h[s \ {Max(s)}] \in C
    BY <1>4, <1>7
  <2> QED BY <1>4, <1>7, <2>1, <2>2
<1>9. h = F(h)
  <2>1. \A s \in SUBSET DOMAIN q : h[s] = F(h)[s]
    BY <1>1, <1>8
  <2>2. h = [s \in SUBSET DOMAIN q |-> h[s]]
    BY <1>1, <1>4
  <2> HIDE DEF q
  <2> QED BY <2>1, <2>2
<1>10. V = F(V)
  BY <1>9
<1> HIDE DEF V
<1>11. \A s \in SUBSET (1..n) : V[s] = IF s = {} THEN c ELSE Step(V[s \ {Max(s)}], q[Max(s)])
  <2>1. \A s \in SUBSET DOMAIN q : V[s] = F(V)[s]
    BY <1>10
  <2> HIDE DEF q
  <2> QED BY <1>1, <2>1
<1>12. V[1..n] = h[1..n]
  <2>1. V[{}] = h[{}]
    BY <1>8, <1>11
  <2>2. \A s \in SUBSET (1..n) : s # {} /\ V[s \ {Max(s)}] = h[s \ {Max(s)}] => V[s] = h[s]
    BY <1>8, <1>11
  <2> HIDE DEF Step
  <2> QED BY <1>1, <2>1, <2>2, FoldIsUnique
<1>13. Filled(ix, d, u) = f[n]
  BY <1>1, <1>4, <1>6, <1>12
<1> QED BY <1>4, <1>5, <1>13 DEF n, C, c

\* A filled index stays sound, and if nothing failed it is complete.
LEMMA FilledFollows ==
    ASSUME NEW ix, IsIndex(ix), NEW d, IsData(d), NEW u, Narrow(ix, u)
    PROVE  LET r == Filled(ix, d, u)
           IN  /\ IsIndex(r.ix) /\ Narrow(r.ix, u)
               /\ Sound(ix, d) => Sound(r.ix, d)
               /\ r.ok => Complete(r.ix, d)
<1> DEFINE q == Ascending(DOMAIN d)
           n == Len(q)
           C == {a \in Accumulators : Narrow(a.ix, u)}
           r == Filled(ix, d, u)
<1>1. IsList(q) /\ ToSet(q) = DOMAIN d
  BY AscendingLists DEF IsData
<1> HIDE DEF q
<1>2. n \in Nat /\ DOMAIN q = 1..n /\ \A i \in 1..n : q[i] \in DOMAIN d
  <2>1. n \in Nat /\ DOMAIN q = 1..n
    BY <1>1, ListFacts
  <2> QED BY <1>1, <2>1 DEF ToSet
<1>3. PICK f \in [0..n -> C] :
         /\ f[0] = Good(ix) /\ \A i \in 1..n : f[i] = FillStep(f[i - 1], d, q[i], u)
         /\ r = f[n]
  BY FilledSteps DEF q
<1> HIDE DEF n, r
<1> DEFINE P == {i \in 0..n :
                   /\ \A s \in SK : ToSet(f[i].ix[s]) \subseteq ToSet(ix[s]) \cup Holders(d, s)
                   /\ f[i].ok => \A j \in 1..i : d[q[j]] # <<>> => q[j] \in ToSet(f[i].ix[d[q[j]][1]])}
<1>4. 0 \in P
  <2>1. f[0].ix = ix /\ 0 \in 0..n /\ 1..0 = {}
    BY <1>2, <1>3, GoodFacts
  <2> QED BY <2>1
<1>5. ASSUME NEW i \in 1..n, i - 1 \in P PROVE i \in P
  <2> DEFINE a == f[i - 1]
             b == f[i]
  <2>1. i - 1 \in 0..n /\ i \in 0..n
    BY <1>2
  <2>2. a \in C /\ b \in C /\ b = FillStep(a, d, q[i], u)
    BY <1>3, <2>1
  <2>3. /\ \A s \in SK : ToSet(a.ix[s]) \subseteq ToSet(ix[s]) \cup Holders(d, s)
        /\ a.ok => \A j \in 1..(i - 1) : d[q[j]] # <<>> => q[j] \in ToSet(a.ix[d[q[j]][1]])
    BY <1>5
  <2> HIDE DEF a, b
  <2>4. /\ \A s \in SK : /\ ToSet(a.ix[s]) \subseteq ToSet(b.ix[s])
                         /\ ToSet(b.ix[s]) \subseteq ToSet(a.ix[s]) \cup Holders(d, s)
        /\ b.ok => a.ok /\ (d[q[i]] # <<>> => q[i] \in ToSet(b.ix[d[q[i]][1]]))
    BY <1>2, <2>2, FillOne
  <2>5. \A s \in SK : ToSet(b.ix[s]) \subseteq ToSet(ix[s]) \cup Holders(d, s)
    BY <2>3, <2>4
  <2>6. ASSUME b.ok, NEW j \in 1..i, d[q[j]] # <<>> PROVE q[j] \in ToSet(b.ix[d[q[j]][1]])
    <3>1. CASE j = i
      BY <2>4, <2>6, <3>1
    <3>2. CASE j # i
      <4>1. j \in 1..(i - 1) /\ j \in 1..n
        BY <1>2, <3>2
      <4>2. d[q[j]][1] \in SK
        BY <1>2, <2>6, <4>1, ObjectFacts DEF IsData
      <4> QED BY <2>3, <2>4, <2>6, <4>1, <4>2
    <3> QED BY <3>1, <3>2
  <2> QED BY <2>1, <2>5, <2>6 DEF b
<1>6. n \in P
  <2>1. 0..n \subseteq P
    <3> HIDE DEF P
    <3> QED BY <1>2, <1>4, <1>5, StepInduction
  <2> QED BY <1>2, <2>1
<1>7. IsIndex(r.ix) /\ Narrow(r.ix, u)
  <2>1. r \in C
    BY <1>2, <1>3
  <2> QED BY <2>1 DEF Accumulators
<1>8. Sound(ix, d) => Sound(r.ix, d)
  BY <1>3, <1>6 DEF Sound
<1>9. ASSUME r.ok PROVE Complete(r.ix, d)
  <2>1. ASSUME NEW s \in SK, NEW pk \in Holders(d, s) PROVE pk \in ToSet(r.ix[s])
    <3>1. pk \in DOMAIN d /\ s \in ToSet(d[pk]) /\ d[pk] \in Objects
      BY DEF Holders, IsData
    <3>2. d[pk] # <<>> /\ d[pk][1] = s
      BY <3>1, ObjectFacts
    <3>3. PICK j \in 1..n : q[j] = pk
      BY <1>1, <1>2, <3>1 DEF ToSet
    <3> QED BY <1>3, <1>6, <1>9, <3>2, <3>3
  <2> QED BY <2>1 DEF Complete
<1> QED BY <1>7, <1>8, <1>9 DEF r
-----------------------------------------------------------------------------
(* The invariants. *)

Labels == {"down", "read", "drop", "create", "fill", "ready", "callback", "persist", "on", "open", "stuck"}

\* The types.  A process that runs has one of the versions.
TypeOK ==
    /\ kind \in Kinds /\ unique \in BOOLEAN /\ program \in Programs
    /\ version \in Versions \cup {0} /\ old \in Versions \cup {0}
    /\ IsData(data) /\ IsIndex(index) /\ hasStore \in BOOLEAN /\ hasIndex \in BOOLEAN
    /\ pc \in Labels /\ v \in Versions \cup {1} /\ (pc # "down" => v \in Versions)
    /\ todo \subseteq {"store", "index"} /\ crashes \in Nat
    /\ doubt \subseteq {"kept", "halfway", "partial", "torn"}
    /\ calls \in [Versions -> Nat]

\* Where the process is, and what it knows there.
Control ==
    /\ version <= v
    /\ kind = "indexeddb" => pc \in {"down", "open", "ready", "callback", "on", "stuck"}
    /\ kind # "indexeddb" => pc # "open"
    /\ pc \notin {"down", "read", "open", "on", "stuck"} /\ kind # "indexeddb" => old = version
    /\ pc \in {"create", "fill"} => UsesIndex
    /\ todo # {} => pc = "drop"
    /\ todo = {"index"} => data = <<>>
    /\ todo = {"store"} => index = NoEntries

\* The tables, whatever has happened.
Tables ==
    /\ kind # "indexeddb" => Narrow(index, unique)
    /\ kind = "indexeddb" => index = IF hasIndex THEN Indexed(data) ELSE NoEntries
    /\ kind = "leveldb" => hasIndex
    /\ kind = "lmdb" /\ ~hasIndex => index = NoEntries
    /\ kind = "lmdb" /\ UsesIndex /\ pc \in {"fill", "ready", "callback", "persist", "on"} => hasIndex

\* The index is sound, except between the two steps of a store's deletion.
IndexSound == {"kept", "halfway"} \cap doubt = {} /\ todo # {"index"} => Sound(index, data)

\* A version left the index undeclared, or deleted it.
LeftOut ==
    \E w \in Versions :
        /\ version <= w /\ w <= v
        /\ program[w].index = NoCall \/ Deletes(program[w], version)

\* If the index lists less than there is, a version left it out, and it is empty and will be filled
\* before it is used.
IndexComplete ==
    kind # "indexeddb" /\ doubt = {} /\ todo # {"store"} /\ ~Complete(index, data) =>
        /\ index = NoEntries /\ (kind = "lmdb" => ~hasIndex \/ pc = "fill")
        /\ LeftOut
        /\ pc \in {"ready", "callback", "persist", "on"} => ~UsesIndex

\* An upgrade function is counted before its version is stored; in IndexedDB, a version that has not
\* been stored has not called it.
Callbacks ==
    IF kind = "indexeddb"
    THEN /\ \A n \in Versions : calls[n] <= 1 /\ (n > version => calls[n] = 0)
         /\ pc \in {"ready", "callback"} => version = v /\ calls[v] = 0
    ELSE /\ version > 0 => calls[version] > 0
         /\ pc = "persist" => calls[v] > 0
-----------------------------------------------------------------------------
(* One object put or removed. *)

\* The objects after one has been put with some keys, or removed.
WithObject(d, d2, pk, sks) ==
    /\ IsData(d2) /\ KeysOf(d2, pk) = sks
    /\ \A q \in PK \ {pk} : KeysOf(d2, q) = KeysOf(d, q)

\* The objects that Stored computes, of an object put and of one removed.
LEMMA PuttingOne ==
    ASSUME IsData(data), NEW pk \in PK, NEW sks \in Objects,
           NEW objects, objects = Without(0), NEW new, new = [p \in {pk} |-> sks], NEW all,
           all = [p \in DOMAIN objects \cup DOMAIN new |-> IF p \in DOMAIN new THEN new[p] ELSE objects[p]]
    PROVE  WithObject(data, all, pk, sks)
<1>1. DOMAIN data \in SUBSET PK /\ IsFiniteSet(DOMAIN data) /\ 0 \notin PK
  BY UpgradeAssumption DEF IsData
<1>2. DOMAIN objects = DOMAIN data /\ \A p \in DOMAIN data : objects[p] = data[p]
  BY <1>1 DEF Without
<1>3. DOMAIN new = {pk} /\ new[pk] = sks
  OBVIOUS
<1>4. /\ DOMAIN all = DOMAIN data \cup {pk} /\ all[pk] = sks
      /\ \A p \in DOMAIN data \ {pk} : all[p] = data[p]
  BY <1>2, <1>3
<1>5. \A p \in DOMAIN all : all[p] \in Objects
  BY <1>4 DEF IsData
<1>6. all \in [DOMAIN all -> Objects]
  BY <1>5
<1>7. DOMAIN all \in SUBSET PK /\ IsFiniteSet(DOMAIN all)
  BY <1>1, <1>4, FS_AddElement
<1>8. IsData(all)
  BY <1>6, <1>7 DEF IsData
<1>9. KeysOf(all, pk) = sks /\ \A q \in PK \ {pk} : KeysOf(all, q) = KeysOf(data, q)
  BY <1>4 DEF KeysOf
<1> QED BY <1>8, <1>9 DEF WithObject

LEMMA RemovingOne ==
    ASSUME IsData(data), NEW pk \in PK,
           NEW objects, objects = Without(pk), NEW new, new = <<>>, NEW all,
           all = [p \in DOMAIN objects \cup DOMAIN new |-> IF p \in DOMAIN new THEN new[p] ELSE objects[p]]
    PROVE  WithObject(data, all, pk, <<>>)
<1>1. DOMAIN data \in SUBSET PK /\ IsFiniteSet(DOMAIN data)
  BY DEF IsData
<1>2. DOMAIN objects = DOMAIN data \ {pk} /\ \A p \in DOMAIN data \ {pk} : objects[p] = data[p]
  BY DEF Without
<1>3. DOMAIN new = {}
  OBVIOUS
<1>4. DOMAIN all = DOMAIN data \ {pk} /\ \A p \in DOMAIN data \ {pk} : all[p] = data[p]
  BY <1>2, <1>3
<1>5. \A p \in DOMAIN all : all[p] \in Objects
  BY <1>4 DEF IsData
<1>6. all \in [DOMAIN all -> Objects]
  BY <1>5
<1>7. DOMAIN all \in SUBSET PK /\ IsFiniteSet(DOMAIN all)
  BY <1>1, <1>4, FS_RemoveElement
<1>8. IsData(all)
  BY <1>6, <1>7 DEF IsData
<1>9. KeysOf(all, pk) = <<>> /\ \A q \in PK \ {pk} : KeysOf(all, q) = KeysOf(data, q)
  BY <1>4 DEF KeysOf
<1> QED BY <1>8, <1>9 DEF WithObject

\* What Stored does to the index.
Reindexed(pk, sks) ==
    \/ kind # "indexeddb" /\ UsesIndex /\ Rewritten(index, index', KeysOf(data, pk), sks, pk, unique)
    \/ kind # "indexeddb" /\ ~UsesIndex /\ index' = index
    \/ kind = "indexeddb" /\ index' = IF hasIndex THEN Indexed(data') ELSE index

\* All that it does.
WrittenOne(pk, sks) ==
    /\ WithObject(data, data', pk, sks) /\ Reindexed(pk, sks)
    /\ pc \in {"callback", "on"}
    /\ doubt' = IF ~UsesIndex /\ ((kind = "lmdb" /\ hasIndex) \/ (kind = "leveldb" /\ index # NoEntries))
                THEN doubt \cup {"kept"} ELSE doubt
    /\ UNCHANGED <<kind, unique, program, version, hasStore, hasIndex, pc, v, old, todo, crashes, calls>>

\* Each of the two ways to change an object, in each backend, is such a step.
LEMMA PutWrites ==
    ASSUME TypeOK, NEW pk \in PK, NEW sks \in Objects, PutObject(pk, sks)
    PROVE  WrittenOne(pk, sks)
<1> DEFINE new == [p \in {pk} |-> sks]
           objects == Without(0)
           all == [p \in DOMAIN objects \cup DOMAIN new |-> IF p \in DOMAIN new THEN new[p] ELSE objects[p]]
           level == LevelApply(index, data, new, <<>>, <<pk>>, FALSE, unique, FALSE)
           lmdb == LmdbApply(index, data, new, <<>>, <<pk>>, FALSE, unique, FALSE)
           after == IF kind = "leveldb" /\ UsesIndex THEN level
                    ELSE IF kind = "lmdb" /\ UsesIndex THEN lmdb
                    ELSE IF kind = "indexeddb" /\ hasIndex THEN Good(Indexed(all))
                    ELSE Good(index)
<1>1. IsData(data) /\ IsIndex(index) /\ kind \in {"leveldb", "lmdb", "indexeddb"}
  BY UpgradeAssumption DEF TypeOK
<1>2. /\ after.ok /\ data' = all /\ index' = after.ix
      /\ pc \in {"callback", "on"}
      /\ doubt' = IF ~UsesIndex /\ ((kind = "lmdb" /\ hasIndex) \/ (kind = "leveldb" /\ index # NoEntries))
                  THEN doubt \cup {"kept"} ELSE doubt
      /\ UNCHANGED <<kind, unique, program, version, hasStore, hasIndex, pc, v, old, todo, crashes, calls>>
  BY DEF PutObject, Stored, Usable
<1>3. WithObject(data, all, pk, sks)
  <2>1. /\ new = [p \in {pk} |-> sks] /\ objects = Without(0)
        /\ all = [p \in DOMAIN objects \cup DOMAIN new |-> IF p \in DOMAIN new THEN new[p] ELSE objects[p]]
    OBVIOUS
  <2> HIDE DEF new, objects, all, level, lmdb
  <2> QED BY <1>1, <2>1, PuttingOne
<1>4. new[pk] = sks
  OBVIOUS
<1> HIDE DEF new, all
<1>5. level.ok => Rewritten(index, level.ix, KeysOf(data, pk), sks, pk, unique)
  <2> DEFINE no == FALSE
  <2>1. ~no
    OBVIOUS
  <2> HIDE DEF no
  <2>2. LevelApply(index, data, new, <<>>, <<pk>>, no, unique, no).ok =>
          Rewritten(index, LevelApply(index, data, new, <<>>, <<pk>>, no, unique, no).ix,
                    KeysOf(data, pk), sks, pk, unique)
    BY <1>1, <1>4, <2>1, LevelPutsOne
  <2> QED BY <2>2 DEF no
<1>6. lmdb.ok => Rewritten(index, lmdb.ix, KeysOf(data, pk), sks, pk, unique)
  <2> DEFINE no == FALSE
  <2>1. ~no
    OBVIOUS
  <2> HIDE DEF no
  <2>2. LmdbApply(index, data, new, <<>>, <<pk>>, no, unique, no).ok =>
          Rewritten(index, LmdbApply(index, data, new, <<>>, <<pk>>, no, unique, no).ix,
                    KeysOf(data, pk), sks, pk, unique)
    BY <1>1, <1>4, <2>1, LmdbPutsOne
  <2> QED BY <2>2 DEF no
<1> HIDE DEF level, lmdb
<1>7. Reindexed(pk, sks)
  <2>1. CASE kind = "leveldb" /\ UsesIndex
    BY <1>2, <1>5, <2>1 DEF Reindexed
  <2>2. CASE kind = "lmdb" /\ UsesIndex
    BY <1>2, <1>6, <2>2 DEF Reindexed
  <2>3. CASE kind # "indexeddb" /\ ~UsesIndex
    BY <1>2, <2>3, GoodFacts DEF Reindexed
  <2>4. CASE kind = "indexeddb"
    BY <1>2, <2>4, GoodFacts DEF Reindexed
  <2> QED BY <1>1, <2>1, <2>2, <2>3, <2>4
<1> QED BY <1>2, <1>3, <1>7 DEF WrittenOne

LEMMA RemoveWrites ==
    ASSUME TypeOK, NEW pk \in PK, RemoveObject(pk)
    PROVE  WrittenOne(pk, <<>>)
<1> DEFINE new == <<>>
           objects == Without(pk)
           all == [p \in DOMAIN objects \cup DOMAIN new |-> IF p \in DOMAIN new THEN new[p] ELSE objects[p]]
           level == LevelApply(index, data, new, <<pk>>, <<>>, FALSE, unique, FALSE)
           lmdb == LmdbApply(index, data, new, <<pk>>, <<>>, FALSE, unique, FALSE)
           after == IF kind = "leveldb" /\ UsesIndex THEN level
                    ELSE IF kind = "lmdb" /\ UsesIndex THEN lmdb
                    ELSE IF kind = "indexeddb" /\ hasIndex THEN Good(Indexed(all))
                    ELSE Good(index)
<1>1. IsData(data) /\ IsIndex(index) /\ kind \in {"leveldb", "lmdb", "indexeddb"}
  BY UpgradeAssumption DEF TypeOK
<1>2. /\ after.ok /\ data' = all /\ index' = after.ix
      /\ pc \in {"callback", "on"}
      /\ doubt' = IF ~UsesIndex /\ ((kind = "lmdb" /\ hasIndex) \/ (kind = "leveldb" /\ index # NoEntries))
                  THEN doubt \cup {"kept"} ELSE doubt
      /\ UNCHANGED <<kind, unique, program, version, hasStore, hasIndex, pc, v, old, todo, crashes, calls>>
  <2>1. (IF <<pk>> = <<>> THEN 0 ELSE <<pk>>[1]) = pk
    BY ShortObjects
  <2> QED BY <2>1 DEF RemoveObject, Stored, Usable
<1>3. WithObject(data, all, pk, <<>>)
  BY <1>1, RemovingOne
<1> HIDE DEF all
<1>4. Rewritten(index, level.ix, KeysOf(data, pk), <<>>, pk, unique)
  <2> DEFINE no == FALSE
  <2>1. ~no
    OBVIOUS
  <2> HIDE DEF no, new
  <2>2. Rewritten(index, LevelApply(index, data, new, <<pk>>, <<>>, no, unique, no).ix,
                  KeysOf(data, pk), <<>>, pk, unique)
    BY <1>1, <2>1, LevelRemovesOne
  <2> QED BY <2>2 DEF no
<1>5. Rewritten(index, lmdb.ix, KeysOf(data, pk), <<>>, pk, unique)
  <2> DEFINE no == FALSE
  <2>1. ~no
    OBVIOUS
  <2> HIDE DEF no, new
  <2>2. Rewritten(index, LmdbApply(index, data, new, <<pk>>, <<>>, no, unique, no).ix,
                  KeysOf(data, pk), <<>>, pk, unique)
    BY <1>1, <2>1, LmdbRemovesOne
  <2> QED BY <2>2 DEF no
<1> HIDE DEF level, lmdb
<1>6. Reindexed(pk, <<>>)
  <2>1. CASE kind = "leveldb" /\ UsesIndex
    BY <1>2, <1>4, <2>1 DEF Reindexed
  <2>2. CASE kind = "lmdb" /\ UsesIndex
    BY <1>2, <1>5, <2>2 DEF Reindexed
  <2>3. CASE kind # "indexeddb" /\ ~UsesIndex
    BY <1>2, <2>3, GoodFacts DEF Reindexed
  <2>4. CASE kind = "indexeddb"
    BY <1>2, <2>4, GoodFacts DEF Reindexed
  <2> QED BY <1>1, <2>1, <2>2, <2>3, <2>4
<1> QED BY <1>2, <1>3, <1>6 DEF WrittenOne

\* The backends, one by one.
LEMMA Kinded == kind \in Kinds => kind \in {"leveldb", "lmdb", "indexeddb"}
BY UpgradeAssumption

\* One object written: the index goes with the objects if it is declared.
LEMMA WriteFollows ==
    ASSUME TypeOK, Tables, NEW pk \in PK, NEW sks \in Objects, WrittenOne(pk, sks)
    PROVE  /\ IsData(data') /\ IsIndex(index')
           /\ kind # "indexeddb" => Narrow(index', unique)
           /\ kind = "indexeddb" => index' = IF hasIndex THEN Indexed(data') ELSE NoEntries
           /\ kind # "indexeddb" /\ UsesIndex =>
                 /\ Sound(index, data) => Sound(index', data')
                 /\ Complete(index, data) => Complete(index', data')
           /\ kind # "indexeddb" /\ ~UsesIndex => index' = index
<1>1. IsData(data) /\ IsIndex(index) /\ IsData(data') /\ WithObject(data, data', pk, sks)
  BY DEF TypeOK, WrittenOne, WithObject
<1>2. CASE kind # "indexeddb" /\ UsesIndex
  <2>1. Rewritten(index, index', KeysOf(data, pk), sks, pk, unique) /\ Narrow(index, unique)
    BY <1>2 DEF WrittenOne, Reindexed, Tables
  <2>2. /\ IsIndex(index') /\ Narrow(index', unique)
        /\ Sound(index, data) => Sound(index', data')
        /\ Complete(index, data) => Complete(index', data')
    BY <1>1, <2>1, RewrittenFollows DEF WithObject
  <2> QED BY <1>1, <1>2, <2>2
<1>3. CASE kind # "indexeddb" /\ ~UsesIndex
  <2>1. index' = index
    BY <1>3 DEF WrittenOne, Reindexed
  <2> QED BY <1>1, <1>3, <2>1 DEF Tables
<1>4. CASE kind = "indexeddb"
  <2>1. index' = IF hasIndex THEN Indexed(data') ELSE index
    BY <1>4 DEF WrittenOne, Reindexed
  <2>2. index = IF hasIndex THEN Indexed(data) ELSE NoEntries
    BY <1>4 DEF Tables
  <2>3. index' = IF hasIndex THEN Indexed(data') ELSE NoEntries
    BY <2>1, <2>2
  <2>4. IsIndex(index')
    BY <1>1, <2>3, IndexedFacts, NoEntriesFacts
  <2> QED BY <1>1, <1>4, <2>3, <2>4
<1> QED BY <1>2, <1>3, <1>4

\* LevelDB fills an index with at most one entry.
LEMMA LevelFillFollows ==
    ASSUME IsData(data), IsIndex(index), NEW u, Narrow(index, u)
    PROVE  /\ IsIndex(LevelFill) /\ Narrow(LevelFill, u)
           /\ Sound(index, data) => Sound(LevelFill, data)
           /\ Cardinality(DOMAIN data) <= 1 => Complete(LevelFill, data)
<1> DEFINE pk == Ascending(DOMAIN data)[1]
           n == Cardinality(DOMAIN data)
<1>1. /\ n \in Nat /\ (n = 0 <=> DOMAIN data = {})
      /\ data = <<>> <=> DOMAIN data = {}
      /\ DOMAIN data \subseteq PK /\ \A p \in DOMAIN data : data[p] \in Objects
  <2>1. n \in Nat /\ (n = 0 <=> DOMAIN data = {})
    BY FS_CardinalityType, FS_EmptySet DEF IsData
  <2>2. data = <<>> <=> DOMAIN data = {}
    BY DEF IsData
  <2> QED BY <2>1, <2>2 DEF IsData
<1>2. CASE data = <<>>
  <2>1. LevelFill = index
    BY <1>2 DEF LevelFill
  <2>2. \A sk \in SK : Holders(data, sk) = {}
    BY <1>1, <1>2 DEF Holders
  <2> QED BY <2>1, <2>2 DEF Complete
<1>3. CASE data # <<>>
  <2>1. pk \in DOMAIN data /\ (n <= 1 => DOMAIN data = {pk})
    <3> DEFINE q == Ascending(DOMAIN data)
    <3>1. IsList(q) /\ ToSet(q) = DOMAIN data /\ Len(q) = n
      BY AscendingLists DEF IsData
    <3> HIDE DEF q, n
    <3>2. DOMAIN q = 1..n /\ n > 0
      BY <1>1, <1>3, <3>1, ListFacts
    <3>3. 1 \in DOMAIN q /\ (n <= 1 => DOMAIN q = {1})
      BY <1>1, <3>2
    <3>4. ToSet(q) = {q[i] : i \in DOMAIN q}
      BY DEF ToSet
    <3> QED BY <3>1, <3>3, <3>4 DEF q
  <2> HIDE DEF pk
  <2>2. CASE data[pk] = <<>>
    <3>1. LevelFill = index
      BY <2>2 DEF LevelFill, pk
    <3>2. ASSUME n <= 1 PROVE Complete(LevelFill, data)
      <4>1. \A sk \in SK : Holders(data, sk) = {}
        BY <2>1, <2>2, <3>2, ShortLists DEF Holders
      <4> QED BY <4>1 DEF Complete
    <3> QED BY <3>1, <3>2
  <2>3. CASE data[pk] # <<>>
    <3> DEFINE sk == data[pk][1]
    <3>1. sk \in SK /\ ToSet(data[pk]) = {sk} /\ pk \in PK
      BY <1>1, <2>1, <2>3, ObjectFacts
    <3>2. LevelFill = [index EXCEPT ![sk] = <<pk>>]
      BY <1>3, <2>3 DEF LevelFill, pk
    <3>3. IsList(<<pk>>) /\ Len(<<pk>>) = 1 /\ ToSet(<<pk>>) = {pk}
      BY <3>1, ShortLists
    <3> DEFINE list == <<pk>>
    <3>4. pk \in Holders(data, sk)
      BY <2>1, <3>1 DEF Holders
    <3> HIDE DEF sk, list
    <3>5. IsIndex(LevelFill) /\ LevelFill[sk] = list /\ \A s \in SK \ {sk} : LevelFill[s] = index[s]
      <4> DEFINE ix2 == [index EXCEPT ![sk] = list]
      <4>1. IsList(list) /\ LevelFill = ix2
        BY <3>2, <3>3 DEF list
      <4>2. IsIndex(ix2) /\ ix2[sk] = list /\ \A s \in SK \ {sk} : ix2[s] = index[s]
        <5>1. index \in [SK -> Seq(PK)]
          BY DEF IsIndex
        <5>2. ix2[sk] = list
          BY <3>1, <5>1
        <5>3. \A s \in SK \ {sk} : ix2[s] = index[s]
          BY <5>1
        <5>4. IsList(list) /\ sk \in SK
          BY <3>1, <4>1
        <5> HIDE DEF sk, list
        <5>5. IsIndex(ix2)
          BY <5>4, WithList
        <5> QED BY <5>2, <5>3, <5>5
      <4> HIDE DEF ix2
      <4> QED BY <4>1, <4>2
    <3>6. Len(list) = 1 /\ ToSet(list) = {pk}
      BY <3>3 DEF list
    <3>7. Narrow(LevelFill, u)
      <4>1. u => \A s \in SK : Len(index[s]) <= 1
        BY DEF Narrow
      <4>2. ASSUME u, NEW s \in SK PROVE Len(LevelFill[s]) <= 1
        <5>1. CASE s = sk
          <6>1. LevelFill[s] = list
            BY <3>5, <5>1
          <6>2. Len(LevelFill[s]) = 1
            BY <6>1, <3>6, Zenon
          <6> QED BY <6>2
        <5>2. CASE s # sk
          BY <3>5, <4>1, <4>2, <5>2
        <5> QED BY <5>1, <5>2
      <4> QED BY <4>2 DEF Narrow
    <3>8. Sound(index, data) => Sound(LevelFill, data)
      BY <3>4, <3>5, <3>6 DEF Sound
    <3>9. ASSUME n <= 1 PROVE Complete(LevelFill, data)
      <4>1. \A s \in SK : Holders(data, s) = IF s = sk THEN {pk} ELSE {}
        BY <2>1, <3>1, <3>9 DEF Holders
      <4> QED BY <4>1, <3>5, <3>6 DEF Complete
    <3> QED BY <3>5, <3>7, <3>8, <3>9
  <2> QED BY <2>2, <2>3
<1> QED BY <1>2, <1>3

\* What Fill does.
LEMMA FillFollows ==
    ASSUME TypeOK, Control, Tables, Fill
    PROVE  /\ kind \in {"leveldb", "lmdb"} /\ IsIndex(index') /\ Narrow(index', unique)
           /\ Sound(index, data) => Sound(index', data)
           /\ kind = "leveldb" => /\ pc' = "ready"
                                  /\ doubt' = IF Cardinality(DOMAIN data) > 1 THEN doubt \cup {"partial"} ELSE doubt
                                  /\ Cardinality(DOMAIN data) <= 1 => Complete(index', data)
           /\ kind = "lmdb" => \/ pc' = "ready" /\ doubt' = doubt \ {"torn"} /\ Complete(index', data)
                               \/ pc' = "stuck" /\ doubt' = doubt \cup {"torn"} /\ index' = index
           /\ pc = "fill" /\ UNCHANGED <<kind, unique, program, version, data, hasStore, hasIndex, v, old, todo, crashes, calls>>
<1>1. /\ kind \in {"leveldb", "lmdb"} /\ pc = "fill" /\ IsData(data) /\ IsIndex(index) /\ Narrow(index, unique)
      /\ UNCHANGED <<kind, unique, program, version, data, hasStore, hasIndex, v, old, todo, crashes, calls>>
  BY Kinded DEF TypeOK, Control, Tables, Fill
<1>2. CASE kind = "leveldb"
  <2>1. /\ index' = LevelFill /\ pc' = "ready"
        /\ doubt' = IF Cardinality(DOMAIN data) > 1 THEN doubt \cup {"partial"} ELSE doubt
    BY <1>2 DEF Fill, Go
  <2> QED BY <1>1, <1>2, <2>1, LevelFillFollows
<1>3. CASE kind = "lmdb"
  <2> DEFINE r == Filled(index, data, unique)
  <2>1. /\ IsIndex(r.ix) /\ Narrow(r.ix, unique)
        /\ Sound(index, data) => Sound(r.ix, data)
        /\ r.ok => Complete(r.ix, data)
    BY <1>1, FilledFollows
  <2>2. IF r.ok THEN index' = r.ix /\ pc' = "ready" /\ doubt' = doubt \ {"torn"}
        ELSE index' = index /\ pc' = "stuck" /\ doubt' = doubt \cup {"torn"}
    BY <1>3, LmdbFillIsFilled DEF Fill, Go
  <2> HIDE DEF r
  <2>3. CASE r.ok
    BY <1>1, <1>3, <2>1, <2>2, <2>3
  <2>4. CASE ~r.ok
    BY <1>1, <1>3, <2>2, <2>4
  <2> QED BY <2>3, <2>4
<1> QED BY <1>1, <1>2, <1>3
-----------------------------------------------------------------------------
(* The steps preserve the types. *)

\* What is empty.
LEMMA EmptyFacts ==
    /\ IsData(<<>>) /\ IsIndex(NoEntries)
    /\ \A d : Sound(NoEntries, d)
    /\ \A u : Narrow(NoEntries, u)
    /\ \A ix : Complete(ix, <<>>)
<1>1. IsData(<<>>)
  BY FS_EmptySet DEF IsData
<1>2. IsIndex(NoEntries) /\ \A sk \in SK : NoEntries[sk] = <<>> /\ ToSet(NoEntries[sk]) = {}
  BY NoEntriesFacts
<1>3. \A sk \in SK : Len(NoEntries[sk]) <= 1
  BY <1>2
<1>4. \A sk \in SK : Holders(<<>>, sk) = {}
  BY DEF Holders
<1> QED BY <1>1, <1>2, <1>3, <1>4 DEF Sound, Narrow, Complete

\* What the IndexedDB upgrade leaves.
LEMMA IdbFacts ==
    ASSUME TypeOK
    PROVE  IsData(IdbUpgraded.data) /\ IdbUpgraded.store \in BOOLEAN /\ IdbUpgraded.index \in BOOLEAN
<1> DEFINE If(c)  == c # NoCall /\ (c = Null \/ version \in c)
           gone   == If(Declared.drop)
           kept   == hasStore /\ ~gone
           exists == kept \/ If(Declared.store)
           listed == kept /\ hasIndex /\ ~If(Declared.unindex)
           made   == exists /\ ~listed /\ If(Declared.index)
           both   == listed \/ made
           left   == IF kept THEN data ELSE <<>>
<1>1. IdbUpgraded = [data |-> left, store |-> exists, index |-> both, made |-> made]
  BY DEF IdbUpgraded
<1>2. exists \in BOOLEAN /\ both \in BOOLEAN
  OBVIOUS
<1>3. IsData(left)
  BY EmptyFacts DEF TypeOK
<1> HIDE DEF exists, both, left, made
<1> QED BY <1>1, <1>2, <1>3

\* What the actions are, with the objects put and removed as one.
LEMMA Steps ==
    ASSUME TypeOK, Next
    PROVE  \/ Connect \/ ReadVersion \/ (\E t \in todo : Empty(t)) \/ DeleteIndex \/ OpenIndex \/ Fill
           \/ Ready \/ EndCallback \/ WriteVersion \/ OpenIdb \/ Close \/ Crash
           \/ \E pk \in PK, sks \in Objects : WrittenOne(pk, sks)
<1>1. ASSUME NEW pk \in PK, RemoveObject(pk) PROVE \E sks \in Objects : WrittenOne(pk, sks)
  BY <1>1, RemoveWrites DEF Objects
<1>2. ASSUME NEW pk \in PK, NEW sks \in {<<>>} \cup {<<sk>> : sk \in SK}, PutObject(pk, sks)
      PROVE  \E k \in Objects : WrittenOne(pk, k)
  BY <1>2, PutWrites DEF Objects
<1> QED BY <1>1, <1>2 DEF Next

\* A table emptied.
LEMMA EmptyTable ==
    ASSUME TypeOK, NEW t \in todo, Empty(t)
    PROVE  /\ pc = "drop" /\ t \in {"store", "index"}
           /\ todo' = todo \ {t}
           /\ kind = "lmdb" /\ t = "index" => "store" \notin todo
           /\ t = "store" => data' = <<>> /\ index' = index /\ hasIndex' = hasIndex /\ doubt' = doubt
           /\ t = "index" => data' = data /\ index' = NoEntries /\ hasIndex' = (kind # "lmdb") /\ doubt' = {}
           /\ UNCHANGED <<kind, unique, program, version, hasStore, pc, v, old, crashes, calls>>
BY DEF TypeOK, Empty

LEMMA InitTypes == Init => TypeOK
<1> SUFFICES ASSUME Init PROVE TypeOK
  OBVIOUS
<1>1. IsData(data) /\ IsIndex(index)
  BY EmptyFacts DEF Init
<1>2. calls \in [Versions -> Nat]
  BY DEF Init
<1>3. hasStore \in BOOLEAN /\ hasIndex \in BOOLEAN
  BY Zenon DEF Init
<1>4. pc \in Labels /\ pc = "down"
  BY DEF Init, Labels
<1> QED BY <1>1, <1>2, <1>3, <1>4 DEF Init, TypeOK

LEMMA StepTypes ==
    ASSUME TypeOK, Control, Tables, [Next]_vars
    PROVE  TypeOK'
<1> USE DEF Labels, Go
<1>1. CASE Connect
  BY <1>1 DEF TypeOK, Connect, disk
<1>2. CASE ReadVersion
  <2>1. todo' \subseteq {"store", "index"} /\ old' = version /\ pc' = "drop" /\ pc = "read"
    BY <1>2 DEF ReadVersion, ToEmpty
  <2> QED BY <1>2, <2>1 DEF TypeOK, ReadVersion, disk
<1>3. CASE \E t \in todo : Empty(t)
  <2>1. PICK t \in todo : Empty(t)
    BY <1>3
  <2>2. IsData(data') /\ IsIndex(index')
    BY <2>1, EmptyTable, EmptyFacts DEF TypeOK
  <2>3. hasIndex' \in BOOLEAN
    BY <2>1, EmptyTable, Zenon DEF TypeOK
  <2>4. /\ todo' \subseteq todo /\ pc = "drop" /\ (doubt' = doubt \/ doubt' = {})
        /\ UNCHANGED <<kind, unique, program, version, hasStore, pc, v, old, crashes, calls>>
    BY <2>1, EmptyTable
  <2> QED BY <2>2, <2>3, <2>4 DEF TypeOK
<1>4. CASE DeleteIndex
  <2>1. IsIndex(index')
    BY <1>4, EmptyFacts DEF TypeOK, DeleteIndex
  <2> QED BY <1>4, <2>1 DEF TypeOK, DeleteIndex
<1>5. CASE OpenIndex
  BY <1>5 DEF TypeOK, OpenIndex
<1>6. CASE Fill
  <2>1. /\ IsIndex(index') /\ pc' \in {"ready", "stuck"} /\ doubt' \subseteq doubt \cup {"partial", "torn"} /\ pc = "fill"
        /\ UNCHANGED <<kind, unique, program, version, data, hasStore, hasIndex, v, old, todo, crashes, calls>>
    BY <1>6, FillFollows
  <2> QED BY <2>1 DEF TypeOK
<1>7. CASE Ready
  BY <1>7 DEF TypeOK, Ready, disk
<1>8. CASE EndCallback
  <2>1. pc = "callback" /\ v \in Versions
    BY <1>8 DEF TypeOK, EndCallback
  <2>2. calls' \in [Versions -> Nat]
    BY <1>8, <2>1 DEF TypeOK, EndCallback
  <2> QED BY <1>8, <2>1, <2>2 DEF TypeOK, EndCallback, disk
<1>9. CASE WriteVersion
  BY <1>9 DEF TypeOK, WriteVersion
<1>10. CASE OpenIdb
  <2>1. pc = "open" /\ v \in Versions /\ UNCHANGED <<kind, unique, program, v, todo, crashes, doubt, calls>>
    BY <1>10 DEF OpenIdb, TypeOK
  <2>2. CASE UNCHANGED <<disk, old>> /\ pc' \in {"on", "stuck"}
    BY <2>1, <2>2 DEF TypeOK, disk
  <2>3. CASE /\ version' = v /\ old' = version /\ pc' \in {"ready", "on"}
             /\ data' = IdbUpgraded.data /\ hasStore' = IdbUpgraded.store /\ hasIndex' = IdbUpgraded.index
             /\ index' = IF IdbUpgraded.index THEN Indexed(IdbUpgraded.data) ELSE NoEntries
    <3>1. IsData(data') /\ hasStore' \in BOOLEAN /\ hasIndex' \in BOOLEAN
      BY <2>3, IdbFacts
    <3>2. IsIndex(index')
      BY <2>3, IdbFacts, EmptyFacts, IndexedFacts
    <3> QED BY <2>1, <2>3, <3>1, <3>2 DEF TypeOK
  <2> QED BY <1>10, <2>2, <2>3 DEF OpenIdb
<1>11. CASE Close
  BY <1>11 DEF TypeOK, Close, Ended, disk
<1>12. CASE Crash
  <2>1. doubt' \subseteq doubt \cup {"torn", "halfway"}
    BY <1>12 DEF Crash
  <2> QED BY <1>12, <2>1 DEF TypeOK, Crash, Ended, disk
<1>13. CASE \E pk \in PK, sks \in Objects : WrittenOne(pk, sks)
  <2>1. PICK pk \in PK, sks \in Objects : WrittenOne(pk, sks)
    BY <1>13
  <2>2. IsData(data') /\ IsIndex(index')
    BY <2>1, WriteFollows
  <2>3. /\ doubt' \subseteq doubt \cup {"kept"}
        /\ UNCHANGED <<kind, unique, program, version, hasStore, hasIndex, pc, v, old, todo, crashes, calls>>
    BY <2>1 DEF WrittenOne
  <2> QED BY <2>2, <2>3 DEF TypeOK
<1>14. CASE UNCHANGED vars
  BY <1>14 DEF TypeOK, vars, disk
<1> QED
  BY <1>1, <1>2, <1>3, <1>4, <1>5, <1>6, <1>7, <1>8, <1>9, <1>10, <1>11, <1>12, <1>13, <1>14, Steps
-----------------------------------------------------------------------------
(* The control, and the tables. *)

\* What is needed of the versions.
LEMMA Numbers ==
    ASSUME TypeOK
    PROVE  /\ Versions \subseteq Nat \ {0} /\ version \in Nat /\ v \in Nat /\ old \in Nat
           /\ kind \in {"leveldb", "lmdb", "indexeddb"}
BY UpgradeAssumption DEF TypeOK

LEMMA InitControl == Init => Control
BY UpgradeAssumption DEF Init, Control

LEMMA StepControl ==
    ASSUME TypeOK, Control, Tables, [Next]_vars
    PROVE  Control'
<1> USE DEF Go
<1>1. CASE Connect
  <2>1. /\ v' \in Versions /\ v' >= v /\ pc' = (IF kind = "indexeddb" THEN "open" ELSE "read") /\ pc = "down"
        /\ UNCHANGED <<kind, unique, program, version, data, index, old, todo>>
    BY <1>1 DEF Connect, disk
  <2>2. version <= v' /\ todo = {}
    BY <2>1, Numbers DEF Control
  <2> QED BY <2>1, <2>2 DEF Control
<1>2. CASE ReadVersion
  <2>1. /\ old' = version /\ pc' = "drop" /\ pc = "read" /\ todo' \in {{}, {"store", "index"}}
        /\ UNCHANGED <<kind, unique, program, version, data, index, v>>
    BY <1>2 DEF ReadVersion, ToEmpty, disk
  <2>2. todo' # {"index"} /\ todo' # {"store"} /\ kind # "indexeddb"
    BY <2>1 DEF Control
  <2> QED BY <2>1, <2>2 DEF Control
<1>3. CASE \E t \in todo : Empty(t)
  <2>1. PICK t \in todo : Empty(t)
    BY <1>3
  <2>2. /\ t \in {"store", "index"} /\ todo' = todo \ {t} /\ pc = "drop"
        /\ t = "store" => data' = <<>>
        /\ t = "index" => index' = NoEntries
        /\ UNCHANGED <<kind, unique, program, version, pc, v, old>>
    BY <2>1, EmptyTable
  <2>3. (todo' = {"index"} => data' = <<>>) /\ (todo' = {"store"} => index' = NoEntries)
    BY <2>1, <2>2
  <2> QED BY <2>2, <2>3 DEF Control
<1>4. CASE DeleteIndex
  <2>1. /\ pc = "drop" /\ todo = {} /\ pc' = (IF UsesIndex THEN "create" ELSE "ready")
        /\ UNCHANGED <<kind, unique, program, version, v, old, todo>>
    BY <1>4 DEF DeleteIndex
  <2>2. UsesIndex' = UsesIndex
    BY <2>1 DEF UsesIndex, Declared
  <2> QED BY <2>1, <2>2 DEF Control
<1>5. CASE OpenIndex
  <2>1. /\ pc = "create" /\ pc' \in {"fill", "ready"}
        /\ UNCHANGED <<kind, unique, program, version, data, index, v, old, todo>>
    BY <1>5 DEF OpenIndex
  <2>2. UsesIndex' = UsesIndex
    BY <2>1 DEF UsesIndex, Declared
  <2> QED BY <2>1, <2>2 DEF Control
<1>6. CASE Fill
  <2>1. /\ pc = "fill" /\ pc' \in {"ready", "stuck"}
        /\ UNCHANGED <<kind, unique, program, version, data, v, old, todo>>
    BY <1>6, FillFollows
  <2> QED BY <2>1 DEF Control
<1>7. CASE Ready
  <2>1. /\ pc = "ready" /\ pc' \in {"callback", "on"}
        /\ UNCHANGED <<kind, unique, program, version, data, index, v, old, todo>>
    BY <1>7 DEF Ready, disk
  <2> QED BY <2>1 DEF Control
<1>8. CASE EndCallback
  <2>1. /\ pc = "callback" /\ pc' = (IF kind = "indexeddb" THEN "on" ELSE "persist")
        /\ UNCHANGED <<kind, unique, program, version, data, index, v, old, todo>>
    BY <1>8 DEF EndCallback, disk
  <2> QED BY <2>1 DEF Control
<1>9. CASE WriteVersion
  <2>1. /\ pc = "persist" /\ pc' = "on" /\ version' = v
        /\ UNCHANGED <<kind, unique, program, data, index, v, old, todo>>
    BY <1>9 DEF WriteVersion
  <2>2. version' <= v'
    BY <2>1, Numbers
  <2> QED BY <2>1, <2>2 DEF Control
<1>10. CASE OpenIdb
  <2>1. /\ pc = "open" /\ pc' \in {"on", "stuck", "ready"} /\ (version' = version \/ version' = v)
        /\ UNCHANGED <<kind, unique, program, v, todo>>
    BY <1>10 DEF OpenIdb, disk
  <2>2. version' <= v' /\ kind = "indexeddb" /\ todo = {}
    BY <2>1, Numbers DEF Control
  <2> QED BY <2>1, <2>2 DEF Control
<1>11. CASE Close
  <2>1. pc' = "down" /\ todo' = {} /\ UNCHANGED <<kind, version, v>>
    BY <1>11 DEF Close, Ended, disk
  <2> QED BY <2>1 DEF Control
<1>12. CASE Crash
  <2>1. pc' = "down" /\ todo' = {} /\ UNCHANGED <<kind, version, v>>
    BY <1>12 DEF Crash, Ended, disk
  <2> QED BY <2>1 DEF Control
<1>13. CASE \E pk \in PK, sks \in Objects : WrittenOne(pk, sks)
  <2>1. /\ pc \in {"callback", "on"}
        /\ UNCHANGED <<kind, unique, program, version, pc, v, old, todo>>
    BY <1>13 DEF WrittenOne
  <2> QED BY <2>1 DEF Control
<1>14. CASE UNCHANGED vars
  BY <1>14 DEF Control, vars, disk, UsesIndex, Declared
<1> QED
  BY <1>1, <1>2, <1>3, <1>4, <1>5, <1>6, <1>7, <1>8, <1>9, <1>10, <1>11, <1>12, <1>13, <1>14, Steps

LEMMA InitTables == Init => Tables
<1> SUFFICES ASSUME Init PROVE Tables
  OBVIOUS
<1>1. index = NoEntries /\ pc = "down" /\ hasIndex = (kind = "leveldb")
  BY DEF Init
<1>2. kind = "indexeddb" => ~hasIndex
  BY <1>1, Zenon
<1>3. kind = "leveldb" => hasIndex
  BY <1>1, Zenon
<1> QED BY <1>1, <1>2, <1>3, EmptyFacts DEF Tables

LEMMA StepTables ==
    ASSUME TypeOK, Control, Tables, [Next]_vars
    PROVE  Tables'
<1> USE DEF Go
<1>1. CASE Connect
  <2>1. /\ pc' \notin {"fill", "ready", "callback", "persist", "on"}
        /\ UNCHANGED <<kind, unique, program, data, index, hasIndex>>
    BY <1>1 DEF Connect, disk
  <2> QED BY <2>1 DEF Tables, Narrow
<1>2. CASE ReadVersion
  <2>1. pc' = "drop" /\ UNCHANGED <<kind, unique, program, data, index, hasIndex>>
    BY <1>2 DEF ReadVersion, disk
  <2> QED BY <2>1 DEF Tables, Narrow
<1>3. CASE \E t \in todo : Empty(t)
  <2>1. PICK t \in todo : Empty(t)
    BY <1>3
  <2>2. kind # "indexeddb" /\ pc' = "drop" /\ UNCHANGED <<kind, unique>>
    BY <2>1, EmptyTable DEF Control
  <2>3. CASE t = "store"
    <3>1. UNCHANGED <<index, hasIndex>>
      BY <2>1, <2>3, EmptyTable
    <3> QED BY <2>2, <3>1 DEF Tables, Narrow
  <2>4. CASE t = "index"
    <3>1. index' = NoEntries /\ hasIndex' = (kind # "lmdb")
      BY <2>1, <2>4, EmptyTable
    <3>2. kind = "leveldb" => hasIndex'
      BY <3>1, Zenon
    <3>3. Narrow(index', unique')
      BY <3>1, <2>2, EmptyFacts
    <3> QED BY <2>2, <3>1, <3>2, <3>3 DEF Tables
  <2> QED BY <2>1, <2>3, <2>4, EmptyTable
<1>4. CASE DeleteIndex
  <2>1. /\ kind # "indexeddb" /\ pc' = (IF UsesIndex THEN "create" ELSE "ready")
        /\ index' = index \/ index' = NoEntries
        /\ UNCHANGED <<kind, unique, program, hasIndex, v>>
    BY <1>4 DEF DeleteIndex, Control
  <2>2. Narrow(index', unique')
    BY <2>1, EmptyFacts DEF Tables
  <2>3. UsesIndex' = UsesIndex
    BY <2>1 DEF UsesIndex, Declared
  <2> QED BY <2>1, <2>2, <2>3 DEF Tables
<1>5. CASE OpenIndex
  <2>1. kind # "indexeddb" /\ hasIndex' = TRUE /\ UNCHANGED <<kind, unique, index>>
    BY <1>5 DEF OpenIndex, Control
  <2> QED BY <2>1 DEF Tables, Narrow
<1>6. CASE Fill
  <2>1. /\ Narrow(index', unique) /\ UNCHANGED <<kind, unique, program, data, hasIndex, v>>
        /\ kind # "indexeddb" /\ pc = "fill"
    BY <1>6, FillFollows
  <2>2. kind = "lmdb" => hasIndex
    BY <2>1 DEF Tables, Control
  <2> QED BY <2>1, <2>2 DEF Tables
<1>7. CASE Ready
  <2>1. pc = "ready" /\ UNCHANGED <<kind, unique, program, data, index, hasIndex, v>>
    BY <1>7 DEF Ready, disk
  <2> QED BY <2>1 DEF Tables, Narrow, UsesIndex, Declared
<1>8. CASE EndCallback
  <2>1. pc = "callback" /\ UNCHANGED <<kind, unique, program, data, index, hasIndex, v>>
    BY <1>8 DEF EndCallback, disk
  <2> QED BY <2>1 DEF Tables, Narrow, UsesIndex, Declared
<1>9. CASE WriteVersion
  <2>1. pc = "persist" /\ UNCHANGED <<kind, unique, program, data, index, hasIndex, v>>
    BY <1>9 DEF WriteVersion
  <2> QED BY <2>1 DEF Tables, Narrow, UsesIndex, Declared
<1>10. CASE OpenIdb
  <2>1. kind = "indexeddb" /\ kind' = kind
    BY <1>10 DEF OpenIdb, Control
  <2>2. CASE UNCHANGED disk
    BY <2>1, <2>2 DEF Tables, disk
  <2>3. CASE /\ data' = IdbUpgraded.data /\ hasIndex' = IdbUpgraded.index
             /\ index' = IF IdbUpgraded.index THEN Indexed(IdbUpgraded.data) ELSE NoEntries
    <3>1. index' = IF hasIndex' THEN Indexed(data') ELSE NoEntries
      BY <2>3
    <3> QED BY <2>1, <3>1 DEF Tables
  <2> QED BY <1>10, <2>2, <2>3 DEF OpenIdb
<1>11. CASE Close
  <2>1. pc' = "down" /\ UNCHANGED <<kind, unique, data, index, hasIndex>>
    BY <1>11 DEF Close, Ended, disk
  <2> QED BY <2>1 DEF Tables, Narrow
<1>12. CASE Crash
  <2>1. pc' = "down" /\ UNCHANGED <<kind, unique, data, index, hasIndex>>
    BY <1>12 DEF Crash, Ended, disk
  <2> QED BY <2>1 DEF Tables, Narrow
<1>13. CASE \E pk \in PK, sks \in Objects : WrittenOne(pk, sks)
  <2>1. PICK pk \in PK, sks \in Objects : WrittenOne(pk, sks)
    BY <1>13
  <2>2. UNCHANGED <<kind, unique, program, hasIndex, pc, v>> /\ pc \in {"callback", "on"}
    BY <2>1 DEF WrittenOne
  <2>3. /\ kind # "indexeddb" => Narrow(index', unique)
        /\ kind = "indexeddb" => index' = IF hasIndex THEN Indexed(data') ELSE NoEntries
        /\ kind # "indexeddb" /\ ~UsesIndex => index' = index
    BY <2>1, WriteFollows
  <2>4. UsesIndex' = UsesIndex
    BY <2>2 DEF UsesIndex, Declared
  <2> QED BY <2>2, <2>3, <2>4 DEF Tables
<1>14. CASE UNCHANGED vars
  BY <1>14 DEF Tables, Narrow, vars, disk, UsesIndex, Declared
<1> QED
  BY <1>1, <1>2, <1>3, <1>4, <1>5, <1>6, <1>7, <1>8, <1>9, <1>10, <1>11, <1>12, <1>13, <1>14, Steps
-----------------------------------------------------------------------------
(* What the index lists. *)

LEMMA InitSound == Init => IndexSound
BY EmptyFacts DEF Init, IndexSound

\* In IndexedDB, an index always has exactly the objects.
LEMMA IdbIndex ==
    ASSUME TypeOK, Tables, kind = "indexeddb"
    PROVE  Sound(index, data) /\ (hasIndex => Complete(index, data))
<1>1. IsData(data) /\ index = IF hasIndex THEN Indexed(data) ELSE NoEntries
  BY DEF TypeOK, Tables
<1>2. CASE hasIndex
  BY <1>1, <1>2, IndexedFacts DEF Sound, Complete
<1>3. CASE ~hasIndex
  BY <1>1, <1>3, EmptyFacts
<1> QED BY <1>2, <1>3

\* A crash leaves a mark on what it may have broken.
LEMMA Interrupted ==
    ASSUME TypeOK, Control, Crash
    PROVE  /\ todo \in {{"index"}, {"store"}} => "halfway" \in doubt'
           /\ kind = "lmdb" /\ pc = "fill" /\ data # <<>> => "torn" \in doubt'
           /\ doubt \subseteq doubt'
           /\ pc' = "down" /\ todo' = {}
           /\ UNCHANGED <<kind, unique, program, version, data, index, hasStore, hasIndex, v, calls>>
<1>1. pc = "fill" => todo = {}
  BY DEF Control
<1>2. Cardinality({"index"}) = 1 /\ Cardinality({"store"}) = 1
  BY FS_Singleton
<1>3. todo \in {{"index"}, {"store"}} => todo # {} /\ Cardinality(todo) = 1
  BY <1>2
<1>4. /\ doubt' = IF kind = "lmdb" /\ pc = "fill" /\ data # <<>> THEN doubt \cup {"torn"}
                  ELSE IF Cardinality(todo) = 1 THEN doubt \cup {"halfway"} ELSE doubt
      /\ pc' = "down" /\ todo' = {}
      /\ UNCHANGED <<kind, unique, program, version, data, index, hasStore, hasIndex, v, calls>>
  BY DEF Crash, Ended, Go, disk
<1> QED BY <1>1, <1>3, <1>4

LEMMA StepSound ==
    ASSUME TypeOK, Control, Tables, IndexSound, [Next]_vars
    PROVE  IndexSound'
<1> USE DEF Go
<1>1. CASE UNCHANGED <<data, index, doubt>> /\ todo = {}
  BY <1>1 DEF IndexSound
<1>2. CASE Connect \/ ReadVersion \/ OpenIndex \/ Ready \/ EndCallback \/ WriteVersion \/ Close
  <2>1. UNCHANGED <<data, index, doubt>> /\ pc # "drop"
    BY <1>2 DEF Connect, ReadVersion, OpenIndex, Ready, EndCallback, WriteVersion, Close, Ended, disk
  <2> QED BY <2>1, <1>1 DEF Control
<1>3. CASE \E t \in todo : Empty(t)
  <2>1. PICK t \in todo : Empty(t)
    BY <1>3
  <2>2. CASE t = "store"
    <3>1. index' = index /\ doubt' = doubt /\ todo' = todo \ {"store"} /\ todo \subseteq {"store", "index"}
      BY <2>1, <2>2, EmptyTable DEF TypeOK
    <3>2. todo' # {"index"} => todo = {"store"}
      BY <2>1, <2>2, <3>1
    <3>3. todo' # {"index"} => Sound(index', data')
      BY <3>1, <3>2, EmptyFacts DEF Control
    <3> QED BY <3>3 DEF IndexSound
  <2>3. CASE t = "index"
    <3>1. Sound(index', data')
      BY <2>1, <2>3, EmptyTable, EmptyFacts
    <3> QED BY <3>1 DEF IndexSound
  <2> QED BY <2>1, <2>2, <2>3, EmptyTable
<1>4. CASE DeleteIndex
  <2>1. todo = {} /\ data' = data /\ (index' = NoEntries \/ (index' = index /\ doubt' = doubt))
    BY <1>4 DEF DeleteIndex
  <2>2. CASE index' = NoEntries
    BY <2>2, EmptyFacts DEF IndexSound
  <2> QED BY <2>1, <2>2, <1>1
<1>6. CASE Fill
  <2>1. /\ pc = "fill" /\ data' = data /\ todo' = todo
        /\ Sound(index, data) => Sound(index', data)
        /\ doubt \subseteq doubt' \cup {"torn"}
    <3>1. /\ kind \in {"leveldb", "lmdb"} /\ pc = "fill" /\ data' = data /\ todo' = todo
          /\ Sound(index, data) => Sound(index', data)
          /\ kind = "leveldb" => doubt' \in {doubt, doubt \cup {"partial"}}
          /\ kind = "lmdb" => doubt' \in {doubt \ {"torn"}, doubt \cup {"torn"}}
      BY <1>6, FillFollows
    <3> QED BY <3>1
  <2>2. todo = {}
    BY <2>1 DEF Control
  <2>3. {"kept", "halfway"} \cap doubt' = {} => {"kept", "halfway"} \cap doubt = {}
    BY <2>1
  <2> QED BY <2>1, <2>2, <2>3 DEF IndexSound
<1>10. CASE OpenIdb
  <2>1. kind' = "indexeddb"
    BY <1>10 DEF OpenIdb, Control
  <2>2. TypeOK' /\ Tables'
    BY StepTypes, StepTables
  <2>3. kind' = "indexeddb" /\ TypeOK' /\ Tables' => Sound(index', data')
    <3>1. IsData(data') /\ index' = (IF hasIndex' THEN Indexed(data') ELSE NoEntries)
      BY <2>1, <2>2 DEF TypeOK, Tables
    <3>2. CASE hasIndex'
      BY <3>1, <3>2, IndexedFacts DEF Sound
    <3>3. CASE ~hasIndex'
      BY <3>1, <3>3, EmptyFacts
    <3> QED BY <3>2, <3>3
  <2> QED BY <2>1, <2>2, <2>3 DEF IndexSound
<1>12. CASE Crash
  <2>1. /\ todo = {"index"} => "halfway" \in doubt'
        /\ doubt \subseteq doubt' /\ UNCHANGED <<data, index>>
    BY <1>12, Interrupted
  <2> QED BY <2>1 DEF IndexSound
<1>13. CASE \E pk \in PK, sks \in Objects : WrittenOne(pk, sks)
  <2>1. PICK pk \in PK, sks \in Objects : WrittenOne(pk, sks)
    BY <1>13
  <2>2. /\ pc \in {"callback", "on"} /\ todo' = todo /\ kind' = kind
        /\ doubt' = IF ~UsesIndex /\ ((kind = "lmdb" /\ hasIndex) \/ (kind = "leveldb" /\ index # NoEntries))
                    THEN doubt \cup {"kept"} ELSE doubt
    BY <2>1 DEF WrittenOne
  <2>3. todo = {}
    BY <2>2 DEF Control
  <2>4. CASE kind = "indexeddb"
    <3>1. IsData(data') /\ index' = IF hasIndex THEN Indexed(data') ELSE NoEntries
      BY <2>1, <2>4, WriteFollows
    <3>2. Sound(index', data')
      <4>1. CASE hasIndex
        BY <3>1, <4>1, IndexedFacts DEF Sound
      <4>2. CASE ~hasIndex
        BY <3>1, <4>2, EmptyFacts
      <4> QED BY <4>1, <4>2
    <3> QED BY <3>2 DEF IndexSound
  <2>5. CASE kind # "indexeddb" /\ UsesIndex
    <3>1. doubt' = doubt /\ (Sound(index, data) => Sound(index', data'))
      BY <2>1, <2>2, <2>5, WriteFollows
    <3> QED BY <3>1, <2>3 DEF IndexSound
  <2>6. CASE kind # "indexeddb" /\ ~UsesIndex
    <3>1. index' = index
      BY <2>1, <2>6, WriteFollows
    <3>2. CASE index = NoEntries
      BY <3>1, <3>2, EmptyFacts DEF IndexSound
    <3>3. CASE index # NoEntries
      <4>1. "kept" \in doubt'
        BY <2>2, <2>6, <3>3, Numbers DEF Tables
      <4> QED BY <4>1 DEF IndexSound
    <3> QED BY <3>2, <3>3
  <2> QED BY <2>4, <2>5, <2>6
<1>14. CASE UNCHANGED vars
  BY <1>14 DEF IndexSound, vars, disk
<1> QED
  BY <1>2, <1>3, <1>4, <1>6, <1>10, <1>12, <1>13, <1>14, Steps
-----------------------------------------------------------------------------
(* The upgrade functions. *)

LEMMA InitCallbacks == Init => Callbacks
BY UpgradeAssumption DEF Init, Callbacks

LEMMA StepCallbacks ==
    ASSUME TypeOK, Control, Tables, Callbacks, [Next]_vars
    PROVE  Callbacks'
<1> USE DEF Go
<1>1. CASE kind' = kind /\ UNCHANGED <<version, calls>> /\ pc' \notin {"ready", "callback", "persist"}
  BY <1>1 DEF Callbacks
<1>2. CASE Connect \/ ReadVersion \/ Close \/ Crash
  BY <1>2, <1>1 DEF Connect, ReadVersion, Close, Crash, Ended, disk
<1>3. CASE \E t \in todo : Empty(t)
  <2>1. UNCHANGED <<kind, version, calls, pc>> /\ pc = "drop"
    BY <1>3, EmptyTable
  <2> QED BY <2>1, <1>1
<1>4. CASE DeleteIndex \/ OpenIndex \/ Fill
  <2>1. UNCHANGED <<kind, version, calls, v>> /\ pc' # "persist" /\ kind # "indexeddb"
    BY <1>4 DEF DeleteIndex, OpenIndex, Fill, Control
  <2> QED BY <2>1 DEF Callbacks
<1>5. CASE Ready
  <2>1. UNCHANGED <<kind, version, calls, v>> /\ pc' # "persist" /\ pc = "ready"
    BY <1>5 DEF Ready, disk
  <2> QED BY <2>1 DEF Callbacks
<1>6. CASE EndCallback
  <2>1. /\ UNCHANGED <<kind, version, v>> /\ pc = "callback" /\ pc' = IF kind = "indexeddb" THEN "on" ELSE "persist"
        /\ calls' = [calls EXCEPT ![v] = IF @ < 2 THEN @ + 1 ELSE @]
    BY <1>6 DEF EndCallback, disk
  <2>2. calls \in [Versions -> Nat] /\ v \in Versions /\ version \in Versions \cup {0}
    BY <2>1 DEF TypeOK
  <2>3. \A n \in Versions : calls'[n] = IF n = v THEN (IF calls[v] < 2 THEN calls[v] + 1 ELSE calls[v]) ELSE calls[n]
    BY <2>1, <2>2
  <2>4. CASE kind = "indexeddb"
    <3>1. /\ version = v /\ calls[v] = 0
          /\ \A n \in Versions : calls[n] <= 1 /\ (n > version => calls[n] = 0)
      BY <2>1, <2>4 DEF Callbacks
    <3>2. v \in Nat
      BY Numbers
    <3>3. ASSUME NEW n \in Versions PROVE calls'[n] <= 1 /\ (n > version => calls'[n] = 0)
      <4>1. CASE n = v
        BY <2>3, <3>1, <3>2, <4>1
      <4>2. CASE n # v
        BY <2>3, <3>1, <4>2
      <4> QED BY <4>1, <4>2
    <3> QED BY <2>1, <2>4, <3>3 DEF Callbacks
  <2>5. CASE kind # "indexeddb"
    <3>1. \A n \in Versions : calls[n] \in Nat
      BY <2>2
    <3>2. calls'[v] > 0 /\ \A n \in Versions : calls[n] > 0 => calls'[n] > 0
      BY <2>2, <2>3, <3>1
    <3>3. version > 0 => version \in Versions
      BY <2>2
    <3> QED BY <2>1, <2>5, <3>2, <3>3 DEF Callbacks
  <2> QED BY <2>4, <2>5
<1>7. CASE WriteVersion
  <2>1. /\ UNCHANGED <<kind, calls, v>> /\ pc = "persist" /\ pc' = "on" /\ version' = v
    BY <1>7 DEF WriteVersion
  <2>2. kind # "indexeddb"
    BY <2>1 DEF Control
  <2> QED BY <2>1, <2>2 DEF Callbacks
<1>8. CASE OpenIdb
  <2>1. kind = "indexeddb" /\ UNCHANGED <<kind, calls, v>> /\ pc = "open"
    BY <1>8 DEF OpenIdb, Control
  <2>2. CASE UNCHANGED disk /\ pc' \in {"on", "stuck"}
    BY <2>1, <2>2, <1>1 DEF disk
  <2>3. CASE v > version /\ version' = v
    <3>1. v \in Versions /\ version \in Nat /\ Versions \subseteq Nat
      BY <2>1, Numbers DEF TypeOK
    <3>2. calls[v] = 0 /\ \A n \in Versions : n > v => n > version
      BY <2>1, <2>3, <3>1 DEF Callbacks
    <3> QED BY <2>1, <2>3, <3>2 DEF Callbacks
  <2>4. (UNCHANGED disk /\ pc' \in {"on", "stuck"}) \/ (v > version /\ version' = v)
    <3>1. v <= version \/ v > version
      BY Numbers
    <3> QED BY <1>8, <3>1 DEF OpenIdb
  <2> QED BY <2>2, <2>3, <2>4
<1>9. CASE \E pk \in PK, sks \in Objects : WrittenOne(pk, sks)
  <2>1. UNCHANGED <<kind, version, calls, v, pc>>
    BY <1>9 DEF WrittenOne
  <2> QED BY <2>1 DEF Callbacks
<1>10. CASE UNCHANGED vars
  BY <1>10 DEF Callbacks, vars, disk
<1> QED
  BY <1>2, <1>3, <1>4, <1>5, <1>6, <1>7, <1>8, <1>9, <1>10, Steps
-----------------------------------------------------------------------------
(* What the index does not miss. *)

LEMMA InitComplete == Init => IndexComplete
BY EmptyFacts DEF Init, IndexComplete

\* If an index lists less than there is, a declaration that gives the versions to fill it for has this one.
LEMMA FillsWhatIsMissing ==
    ASSUME Sensible, TypeOK, pc = "create", UsesIndex, old = version,
           index = NoEntries, kind = "lmdb" => ~hasIndex, kind # "indexeddb", LeftOut
    PROVE  IsUpgrade
<1>1. v \in Versions /\ version \in Versions \cup {0} /\ program \in Programs /\ Declared = program[v]
  BY DEF TypeOK, Declared
<1>2. CASE Declared.index = Null
  BY <1>2, Numbers DEF IsUpgrade
<1>3. CASE Declared.index # Null
  <2>1. program[v].index \notin {NoCall, Null}
    BY <1>1, <1>3 DEF UsesIndex
  <2>2. version \in program[v].index
    BY <1>1, <2>1 DEF Sensible, LeftOut
  <2> QED BY <1>1, <1>3, <2>1, <2>2 DEF IsUpgrade, Holds
<1> QED BY <1>2, <1>3

LEMMA StepComplete ==
    ASSUME Sensible, TypeOK, Control, Tables, IndexComplete, [Next]_vars
    PROVE  IndexComplete'
<1> USE DEF Go
<1>1. CASE Connect
  <2>1. /\ v' \in Versions /\ v' >= v /\ pc' \in {"open", "read"} /\ pc = "down"
        /\ UNCHANGED <<kind, unique, program, version, data, index, hasIndex, todo, doubt>>
    BY <1>1 DEF Connect, disk
  <2>2. \A w \in Versions : w <= v => w <= v'
    BY <2>1, Numbers
  <2>3. LeftOut => LeftOut'
    BY <2>1, <2>2 DEF LeftOut
  <2> QED BY <2>1, <2>3 DEF IndexComplete
<1>2. CASE ReadVersion
  <2>1. /\ pc' = "drop" /\ pc = "read" /\ todo = {}
        /\ UNCHANGED <<kind, unique, program, version, data, index, hasIndex, v, doubt>>
    BY <1>2 DEF ReadVersion, disk, Control
  <2> QED BY <2>1 DEF IndexComplete, LeftOut
<1>3. CASE \E t \in todo : Empty(t)
  <2>1. PICK t \in todo : Empty(t)
    BY <1>3
  <2>2. CASE t = "store"
    <3>1. Complete(index', data')
      BY <2>1, <2>2, EmptyTable, EmptyFacts
    <3> QED BY <3>1 DEF IndexComplete
  <2>3. CASE t = "index"
    <3>1. data' = data /\ todo' = todo \ {"index"} /\ todo \subseteq {"store", "index"}
      BY <2>1, <2>3, EmptyTable DEF TypeOK
    <3>2. todo' # {"store"} => todo = {"index"}
      BY <2>1, <2>3, <3>1
    <3>3. todo' # {"store"} => Complete(index', data')
      BY <3>1, <3>2, EmptyFacts DEF Control
    <3> QED BY <3>3 DEF IndexComplete
  <2> QED BY <2>1, <2>2, <2>3, EmptyTable
<1>4. CASE DeleteIndex
  <2>1. /\ todo = {} /\ pc = "drop" /\ pc' = (IF UsesIndex THEN "create" ELSE "ready")
        /\ UNCHANGED <<kind, unique, program, version, data, hasIndex, v, old, todo>>
    BY <1>4 DEF DeleteIndex
  <2>2. UsesIndex' = UsesIndex
    BY <2>1 DEF UsesIndex, Declared
  <2>3. CASE kind = "leveldb" /\ Holds(Declared.unindex)
    <3>1. index' = NoEntries
      BY <1>4, <2>3 DEF DeleteIndex
    <3>2. old = version /\ version <= v /\ v \in Versions
      BY <2>1, <2>3 DEF Control, TypeOK
    <3>3. Deletes(program[v], version)
      BY <2>3, <3>2 DEF Holds, Declared, Deletes
    <3>4. v <= v
      BY Numbers
    <3>5. LeftOut'
      BY <2>1, <3>2, <3>3, <3>4 DEF LeftOut
    <3> QED BY <2>1, <2>2, <2>3, <3>1, <3>5 DEF IndexComplete
  <2>4. CASE ~(kind = "leveldb" /\ Holds(Declared.unindex))
    <3>1. UNCHANGED <<index, doubt>>
      BY <1>4, <2>4 DEF DeleteIndex
    <3> QED BY <2>1, <2>2, <3>1 DEF IndexComplete, LeftOut
  <2> QED BY <2>3, <2>4
<1>5. CASE OpenIndex
  <2>1. /\ pc = "create" /\ pc' = (IF IsUpgrade THEN "fill" ELSE "ready")
        /\ UNCHANGED <<kind, unique, program, version, data, index, v, old, todo, doubt>>
    BY <1>5 DEF OpenIndex
  <2>2. kind # "indexeddb" /\ UsesIndex /\ old = version
    BY <2>1 DEF Control
  <2>3. CASE doubt = {} /\ todo # {"store"} /\ ~Complete(index, data)
    <3>1. index = NoEntries /\ (kind = "lmdb" => ~hasIndex) /\ LeftOut
      BY <2>1, <2>2, <2>3 DEF IndexComplete
    <3>2. IsUpgrade
      BY <2>1, <2>2, <3>1, FillsWhatIsMissing
    <3> QED BY <2>1, <3>1, <3>2 DEF IndexComplete, LeftOut
  <2>4. CASE ~(doubt = {} /\ todo # {"store"} /\ ~Complete(index, data))
    BY <2>1, <2>4 DEF IndexComplete
  <2> QED BY <2>3, <2>4
<1>6. CASE Fill
  <2>1. data' = data
    BY <1>6, FillFollows
  <2>2. CASE kind = "leveldb"
    <3>1. /\ doubt' = IF Cardinality(DOMAIN data) > 1 THEN doubt \cup {"partial"} ELSE doubt
          /\ Cardinality(DOMAIN data) <= 1 => Complete(index', data)
      BY <1>6, <2>2, FillFollows
    <3>2. Cardinality(DOMAIN data) \in Nat
      BY FS_CardinalityType DEF TypeOK, IsData
    <3>3. CASE Cardinality(DOMAIN data) > 1
      <4>1. "partial" \in doubt'
        BY <3>1, <3>3
      <4> QED BY <4>1 DEF IndexComplete
    <3>4. CASE Cardinality(DOMAIN data) <= 1
      BY <2>1, <3>1, <3>4 DEF IndexComplete
    <3> QED BY <3>2, <3>3, <3>4
  <2>3. CASE kind = "lmdb"
    <3>1. "torn" \in doubt' \/ Complete(index', data)
      BY <1>6, <2>3, FillFollows
    <3> QED BY <2>1, <3>1 DEF IndexComplete
  <2> QED BY <1>6, <2>2, <2>3, FillFollows
<1>7. CASE Ready \/ EndCallback
  <2>1. /\ pc \in {"ready", "callback"} /\ pc' \in {"callback", "on", "persist"}
        /\ UNCHANGED <<kind, unique, program, version, data, index, hasIndex, v, todo, doubt>>
    BY <1>7 DEF Ready, EndCallback, disk
  <2>2. UsesIndex' = UsesIndex /\ (LeftOut' <=> LeftOut)
    BY <2>1 DEF UsesIndex, Declared, LeftOut
  <2> QED BY <2>1, <2>2 DEF IndexComplete
<1>9. CASE WriteVersion
  <2>1. /\ pc = "persist" /\ pc' = "on" /\ version' = v
        /\ UNCHANGED <<kind, unique, program, data, index, hasIndex, v, todo, doubt>>
    BY <1>9 DEF WriteVersion
  <2>2. UsesIndex' = UsesIndex
    BY <2>1 DEF UsesIndex, Declared
  <2>3. v \in Versions /\ v <= v
    BY <2>1, Numbers DEF TypeOK
  <2>4. ~UsesIndex => LeftOut'
    BY <2>1, <2>3 DEF UsesIndex, Declared, LeftOut
  <2> QED BY <2>1, <2>2, <2>4 DEF IndexComplete
<1>10. CASE OpenIdb
  <2>1. kind' = "indexeddb"
    BY <1>10 DEF OpenIdb, Control
  <2> QED BY <2>1 DEF IndexComplete
<1>11. CASE Close
  <2>1. /\ pc' = "down" /\ pc \in {"on", "stuck"} /\ todo = {}
        /\ UNCHANGED <<kind, unique, program, version, data, index, hasIndex, v, doubt>>
    BY <1>11 DEF Close, Ended, disk, Control
  <2>2. LeftOut' <=> LeftOut
    BY <2>1 DEF LeftOut
  <2> QED BY <2>1, <2>2 DEF IndexComplete
<1>12. CASE Crash
  <2>1. /\ todo = {"store"} => "halfway" \in doubt'
        /\ kind = "lmdb" /\ pc = "fill" /\ data # <<>> => "torn" \in doubt'
        /\ doubt \subseteq doubt' /\ pc' = "down"
        /\ UNCHANGED <<kind, unique, program, version, data, index, hasIndex, v>>
    BY <1>12, Interrupted
  <2>2. data = <<>> => Complete(index, data)
    BY EmptyFacts
  <2>3. LeftOut' <=> LeftOut
    BY <2>1 DEF LeftOut
  <2> QED BY <2>1, <2>2, <2>3 DEF IndexComplete
<1>13. CASE \E pk \in PK, sks \in Objects : WrittenOne(pk, sks)
  <2>1. PICK pk \in PK, sks \in Objects : WrittenOne(pk, sks)
    BY <1>13
  <2>2. /\ pc \in {"callback", "on"}
        /\ UNCHANGED <<kind, unique, program, version, hasIndex, pc, v, todo>>
        /\ doubt' = IF ~UsesIndex /\ ((kind = "lmdb" /\ hasIndex) \/ (kind = "leveldb" /\ index # NoEntries))
                    THEN doubt \cup {"kept"} ELSE doubt
    BY <2>1 DEF WrittenOne
  <2>3. todo = {}
    BY <2>2 DEF Control
  <2>4. CASE kind # "indexeddb" /\ UsesIndex
    <3>1. doubt' = doubt /\ (Complete(index, data) => Complete(index', data'))
      BY <2>1, <2>2, <2>4, WriteFollows
    <3>2. doubt = {} => Complete(index, data)
      BY <2>2, <2>3, <2>4 DEF IndexComplete
    <3> QED BY <3>1, <3>2 DEF IndexComplete
  <2>5. CASE kind # "indexeddb" /\ ~UsesIndex
    <3>1. index' = index
      BY <2>1, <2>5, WriteFollows
    <3>2. CASE "kept" \in doubt'
      BY <3>2 DEF IndexComplete
    <3>3. CASE "kept" \notin doubt'
      <4>1. index = NoEntries /\ (kind = "lmdb" => ~hasIndex)
        BY <2>2, <2>5, <3>3, Numbers DEF Tables
      <4>2. UsesIndex' = UsesIndex
        BY <2>2 DEF UsesIndex, Declared
      <4>3. v \in Versions /\ v <= v /\ version <= v
        BY <2>2, Numbers DEF TypeOK, Control
      <4>4. LeftOut'
        BY <2>2, <2>5, <4>3 DEF UsesIndex, Declared, LeftOut
      <4> QED BY <2>2, <2>5, <3>1, <4>1, <4>2, <4>4 DEF IndexComplete
    <3> QED BY <3>2, <3>3
  <2>6. CASE kind = "indexeddb"
    BY <2>2, <2>6 DEF IndexComplete
  <2> QED BY <2>4, <2>5, <2>6
<1>14. CASE UNCHANGED vars
  <2>1. UsesIndex' = UsesIndex
    BY <1>14 DEF UsesIndex, Declared, vars, disk
  <2>2. LeftOut' <=> LeftOut
    BY <1>14 DEF LeftOut, vars, disk
  <2> QED BY <1>14, <2>1, <2>2 DEF IndexComplete, vars, disk
<1> QED
  BY <1>1, <1>2, <1>3, <1>4, <1>5, <1>6, <1>7, <1>9, <1>10, <1>11, <1>12, <1>13, <1>14, Steps
-----------------------------------------------------------------------------
(* The theorems. *)

\* What the theorems have in common.
Inv == TypeOK /\ Control /\ Tables

LEMMA InvHolds == Spec => []Inv
<1>1. Init => Inv
  BY InitTypes, InitControl, InitTables DEF Inv
<1>2. Inv /\ [Next]_vars => Inv'
  BY StepTypes, StepControl, StepTables DEF Inv
<1> QED BY <1>1, <1>2, PTL DEF Spec

\* Every variable keeps to its type: the objects have at most one key, and the index lists, for each
\* key, distinct primary keys.
THEOREM TypeCorrect == Spec => []TypeOK
<1>1. Inv => TypeOK
  BY DEF Inv
<1> QED BY <1>1, InvHolds, PTL

\* A version is recorded only when its upgrade function has run, and IndexedDB runs none twice, for
\* every sequence of versions, declarations and crashes.
THEOREM UpgradeFunctionsRun == Spec => []UpgradeFunctionRuns
<1>1. Init => Callbacks
  BY InitCallbacks
<1>2. Inv /\ Callbacks /\ [Next]_vars => Callbacks'
  BY StepCallbacks DEF Inv
<1>3. Callbacks => UpgradeFunctionRuns
  BY DEF Callbacks, UpgradeFunctionRuns
<1> QED BY <1>1, <1>2, <1>3, InvHolds, PTL DEF Spec

\* The index in use lists no object under a key that it does not have, unless the objects were changed
\* without it or the deletion of the store was interrupted.
THEOREM IndexStaysSound == Spec => []IndexIsSound
<1>1. Init => IndexSound
  BY InitSound
<1>2. Inv /\ IndexSound /\ [Next]_vars => IndexSound'
  BY StepSound DEF Inv
<1>3. Inv /\ IndexSound => IndexIsSound
  <2> SUFFICES ASSUME Inv, IndexSound, InUse, {"kept", "halfway"} \cap doubt = {}
               PROVE  \A sk \in SK : ToSet(index[sk]) \subseteq Holders(data, sk)
    BY DEF IndexIsSound
  <2>1. todo = {}
    BY DEF Inv, Control, InUse
  <2>2. Sound(index, data)
    BY <2>1 DEF IndexSound
  <2> QED BY <2>2 DEF Sound
<1> QED BY <1>1, <1>2, <1>3, InvHolds, PTL DEF Spec

LEMMA CompleteWhenInUse == Inv /\ IndexComplete => IndexIsComplete
<1> SUFFICES ASSUME Inv, IndexComplete, InUse, doubt = {}, kind = "indexeddb" => hasIndex
             PROVE  Missing = {}
  BY DEF IndexIsComplete
<1>1. todo = {} /\ pc \in {"callback", "on"} /\ UsesIndex
  BY DEF Inv, Control, InUse
<1>2. Complete(index, data)
  <2>1. CASE kind = "indexeddb"
    BY <2>1, IdbIndex DEF Inv
  <2>2. CASE kind # "indexeddb"
    BY <1>1, <2>2 DEF IndexComplete
  <2> QED BY <2>1, <2>2
<1> QED BY <1>2 DEF Complete, Missing

\* The index in use lists every object, with the exceptions that the property names, if the declarations
\* are sensible: what a version left out or deleted is filled before a later one uses it.
THEOREM IndexStaysComplete ==
    ASSUME Sensible
    PROVE  Spec => []IndexIsComplete
<1>1. Init => IndexComplete
  BY InitComplete
<1>2. Inv /\ IndexComplete /\ [Next]_vars => IndexComplete'
  BY StepComplete DEF Inv
<1> QED BY <1>1, <1>2, CompleteWhenInUse, InvHolds, PTL DEF Spec
=============================================================================
