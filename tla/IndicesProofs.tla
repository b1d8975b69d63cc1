--------------------------- MODULE IndicesProofs ---------------------------
(***************************************************************************)
(* Proofs about Indices: in every backend the index lists the objects of   *)
(* the store under their secondary keys, in order, after every sequence of *)
(* transactions, its reads of a range are those of the objects, those of a *)
(* transaction's index are those of its view of them, and a commit whose   *)
(* uniqueness checks pass is not refused, for every set of keys and        *)
(* objects.                                                                *)
(***************************************************************************)
EXTENDS Indices, SequenceLemmas

-----------------------------------------------------------------------------
(* Lists of primary keys. *)

\* The lists that an index may hold: primary keys in order, some perhaps several times.
KeyLists == {list \in Seq(PK) : InOrder(list)}

LEMMA KeysAreIntegers == PK \in SUBSET Int /\ SK \in SUBSET Int
  BY IndicesAssumption

\* How often an element is in a sequence.
LEMMA CountFacts ==
    ASSUME NEW S, NEW s \in Seq(S), NEW x
    PROVE  Count(s, x) \in Nat /\ Count(s, x) <= Len(s) /\ (Count(s, x) = 0 <=> x \notin ToSet(s))
  BY PositionsFacts DEF Count, Positions

\* Two members of a set of one member are the same.
LEMMA AtMostOne ==
    ASSUME NEW S, IsFiniteSet(S), Cardinality(S) <= 1, NEW p \in S, NEW q \in S
    PROVE  p = q
<1>1. Cardinality(S) \in Nat /\ (Cardinality(S) = 0 <=> S = {})
  BY FS_CardinalityType, FS_EmptySet
<1>2. Cardinality(S) = 1
  BY <1>1
<1> QED BY <1>2, FS_Singleton

LEMMA EmptyCount == \A x : Count(<<>>, x) = 0
  BY FS_EmptySet DEF Count

\* The lists of no key and of one.
LEMMA ShortLists ==
    /\ <<>> \in KeyLists /\ Len(<<>>) = 0
    /\ \A pk \in PK : <<pk>> \in KeyLists /\ Len(<<pk>>) = 1
    /\ \A pk, x \in PK : Count(<<pk>>, x) = IF x = pk THEN 1 ELSE 0
<1>1. <<>> \in KeyLists /\ Len(<<>>) = 0
  BY DEF KeyLists, InOrder
<1>2. ASSUME NEW pk \in PK
      PROVE  <<pk>> \in KeyLists /\ Len(<<pk>>) = 1 /\ DOMAIN <<pk>> = {1} /\ <<pk>>[1] = pk
  <2>1. <<pk>> \in Seq(PK) /\ Len(<<pk>>) = 1 /\ DOMAIN <<pk>> = {1} /\ <<pk>>[1] = pk
    OBVIOUS
  <2> QED BY <2>1 DEF KeyLists, InOrder
<1>3. ASSUME NEW pk \in PK, NEW x \in PK PROVE Count(<<pk>>, x) = IF x = pk THEN 1 ELSE 0
  <2>1. CASE x = pk
    <3>1. {i \in DOMAIN <<pk>> : <<pk>>[i] = x} = {1}
      BY <1>2, <2>1
    <3> QED BY <2>1, <3>1, FS_Singleton DEF Count
  <2>2. CASE x # pk
    <3>1. {i \in DOMAIN <<pk>> : <<pk>>[i] = x} = {}
      BY <1>2, <2>2
    <3> QED BY <2>2, <3>1, FS_EmptySet DEF Count
  <2> QED BY <2>1, <2>2
<1> QED BY <1>1, <1>2, <1>3

\* A list that an element is in is not empty, and is that element if there is one entry.
LEMMA OneEntry ==
    ASSUME NEW list \in KeyLists, NEW pk \in PK, Count(list, pk) > 0, ~(Len(list) > 1)
    PROVE  \A x \in PK : Count(list, x) = IF x = pk THEN 1 ELSE 0
<1>1. list \in Seq(PK) /\ Len(list) \in Nat
  BY DEF KeyLists
<1>2. Len(list) = 1
  <2>1. Count(list, pk) \in Nat /\ Count(list, pk) <= Len(list)
    BY <1>1, CountFacts
  <2> DEFINE n == Count(list, pk)
             l == Len(list)
  <2>2. n \in Nat /\ l \in Nat /\ n <= l /\ n > 0 /\ ~(l > 1)
    BY <1>1, <2>1
  <2> HIDE DEF n, l
  <2>3. l = 1
    BY <2>2
  <2> QED BY <2>3 DEF l
<1>3. list = <<list[1]>> /\ list[1] \in PK
  <2>1. list[1] \in PK
    BY <1>1, <1>2
  <2>2. <<list[1]>> \in Seq(PK) /\ Len(<<list[1]>>) = 1 /\ <<list[1]>>[1] = list[1]
    BY <2>1
  <2> QED BY <1>1, <1>2, <2>1, <2>2, SeqEqual
<1>4. Count(list, pk) = IF pk = list[1] THEN 1 ELSE 0
  BY <1>3, ShortLists
<1>5. list = <<pk>>
  BY <1>3, <1>4
<1> QED BY <1>5, ShortLists

\* A list is empty if nothing is in it.
LEMMA NoEntry ==
    ASSUME NEW list \in KeyLists
    PROVE  list = <<>> <=> \A x \in PK : Count(list, x) = 0
<1>1. list \in Seq(PK) /\ Len(list) \in Nat
  BY DEF KeyLists
<1>2. ASSUME list # <<>> PROVE \E x \in PK : Count(list, x) # 0
  <2>1. 1 \in DOMAIN list /\ list[1] \in PK
    BY <1>1, <1>2
  <2>2. list[1] \in ToSet(list)
    BY <2>1 DEF ToSet
  <2> QED BY <1>1, <2>1, <2>2, CountFacts
<1> QED BY <1>2, EmptyCount

\* SortedList.add
LEMMA AddedCounts ==
    ASSUME NEW list \in KeyLists, NEW pk \in PK
    PROVE  /\ Added(list, pk) \in KeyLists /\ Len(Added(list, pk)) = Len(list) + 1
           /\ \A x \in PK : Count(Added(list, pk), x) = Count(list, x) + IF x = pk THEN 1 ELSE 0
<1> DEFINE k == 1 + Cardinality({i \in DOMAIN list : list[i] < pk})
<1>1. list \in Seq(PK) /\ Nondecreasing(list) /\ PK \in SUBSET Int
  BY KeysAreIntegers DEF KeyLists, InOrder, Nondecreasing
<1>2. k \in 1..(Len(list) + 1) /\ Nondecreasing(InsertAt(list, k, pk))
  BY <1>1, InsertionKeepsOrder
<1>3. Added(list, pk) = InsertAt(list, k, pk)
  BY DEF Added
<1> HIDE DEF k
<1>4. InsertAt(list, k, pk) \in Seq(PK) /\ Len(InsertAt(list, k, pk)) = Len(list) + 1
  BY <1>1, <1>2, InsertAtFacts
<1>5. ASSUME NEW x \in PK
      PROVE  Count(InsertAt(list, k, pk), x) = Count(list, x) + IF x = pk THEN 1 ELSE 0
  <2>1. Cardinality(Positions(InsertAt(list, k, pk), x)) =
          IF x = pk THEN Cardinality(Positions(list, x)) + 1 ELSE Cardinality(Positions(list, x))
    BY <1>1, <1>2, PositionsAfterInsertion
  <2>2. Count(InsertAt(list, k, pk), x) = IF x = pk THEN Count(list, x) + 1 ELSE Count(list, x)
    BY <2>1 DEF Count, Positions
  <2>3. Count(list, x) \in Nat
    BY <1>1, CountFacts
  <2> QED BY <2>2, <2>3
<1>6. InsertAt(list, k, pk) \in KeyLists
  BY <1>2, <1>4 DEF KeyLists, InOrder, Nondecreasing
<1> QED BY <1>3, <1>4, <1>5, <1>6

\* SortedList.remove
LEMMA DroppedCounts ==
    ASSUME NEW list \in KeyLists, NEW pk \in PK
    PROVE  /\ Dropped(list, pk) \in KeyLists /\ Len(Dropped(list, pk)) <= Len(list)
           /\ \A x \in PK : Count(Dropped(list, pk), x) =
                              IF x = pk /\ Count(list, x) > 0 THEN Count(list, x) - 1 ELSE Count(list, x)
<1>1. list \in Seq(PK) /\ Nondecreasing(list) /\ PK \in SUBSET Int /\ Len(list) \in Nat
  BY KeysAreIntegers DEF KeyLists, InOrder, Nondecreasing
<1>2. Count(list, pk) \in Nat /\ (Count(list, pk) = 0 <=> pk \notin ToSet(list))
  BY <1>1, CountFacts
<1> DEFINE I == {i \in 1..Len(list) : list[i] = pk}
           first == Min(I)
<1>3. CASE Count(list, pk) = 0
  <2>1. I = {}
    BY <1>1, <1>2, <1>3 DEF ToSet
  <2>2. Dropped(list, pk) = list
    BY <2>1 DEF Dropped, RemoveFirst
  <2> QED BY <1>1, <1>3, <2>2
<1>4. CASE Count(list, pk) > 0
  <2>1. I # {} /\ I \subseteq 1..Len(list)
    BY <1>1, <1>2, <1>4 DEF ToSet
  <2>2. first \in I
    <3>1. \E i \in I : \A j \in I : i <= j
      <4>1. I \subseteq Nat
        OBVIOUS
      <4> HIDE DEF I
      <4> QED BY <2>1, <4>1, LeastNat
    <3> HIDE DEF I
    <3> QED BY <3>1 DEF Min
  <2>3. Dropped(list, pk) = RemoveAt(list, first)
    BY <2>1 DEF Dropped, RemoveFirst, SelectInSeq
  <2>4. first \in 1..Len(list) /\ list[first] = pk
    BY <2>2
  <2> HIDE DEF I, first
  <2>5. RemoveAt(list, first) \in Seq(PK) /\ Len(RemoveAt(list, first)) = Len(list) - 1
    BY <1>1, <2>4, RemoveAtFacts
  <2>6. Nondecreasing(RemoveAt(list, first))
    BY <1>1, <2>4, RemovalKeepsOrder
  <2>7. ASSUME NEW x \in PK
        PROVE  Count(RemoveAt(list, first), x) = IF x = pk THEN Count(list, x) - 1 ELSE Count(list, x)
    <3>1. Cardinality(Positions(RemoveAt(list, first), x)) =
            IF x = list[first] THEN Cardinality(Positions(list, x)) - 1 ELSE Cardinality(Positions(list, x))
      BY <1>1, <2>4, PositionsAfterRemoval
    <3> QED BY <2>4, <3>1 DEF Count, Positions
  <2>8. RemoveAt(list, first) \in KeyLists
    BY <2>5, <2>6 DEF KeyLists, InOrder, Nondecreasing
  <2> QED BY <1>1, <1>4, <2>3, <2>5, <2>7, <2>8
<1> QED BY <1>2, <1>3, <1>4

\* Ascending lists each member of a set once.
LEMMA AscendingCounts ==
    ASSUME NEW S \in SUBSET PK, IsFiniteSet(S)
    PROVE  /\ Ascending(S) \in KeyLists
           /\ \A x \in PK : Count(Ascending(S), x) = IF x \in S THEN 1 ELSE 0
<1> DEFINE s == Ascending(S)
           n == Cardinality(S)
<1>1. S \in SUBSET Int
  BY KeysAreIntegers
<1>2. /\ s \in Seq(S) /\ DOMAIN s = 1..n /\ ToSet(s) = S /\ n \in Nat
      /\ \A i, j \in 1..n : (i < j <=> s[i] < s[j]) /\ (s[i] = s[j] => i = j)
      /\ \A k \in S : \E i \in 1..n : s[i] = k
  BY <1>1, AscendingFacts
<1> HIDE DEF s, n
<1>3. s \in Seq(PK)
  BY <1>2
<1>4. InOrder(s)
  <2>1. \A i \in 1..n : s[i] \in Int
    <3>1. \A i \in 1..n : s[i] \in S
      BY <1>2
    <3> QED BY <1>1, <3>1
  <2> QED BY <1>2, <2>1 DEF InOrder
<1>5. ASSUME NEW x \in PK PROVE Count(s, x) = IF x \in S THEN 1 ELSE 0
  <2>1. CASE x \in S
    <3>1. PICK i \in 1..n : s[i] = x
      BY <1>2, <2>1
    <3>2. {j \in DOMAIN s : s[j] = x} = {i}
      BY <1>2, <3>1
    <3> QED BY <2>1, <3>2, FS_Singleton DEF Count
  <2>2. CASE x \notin S
    <3>1. Count(s, x) = 0
      BY <1>2, <1>3, <2>2, CountFacts
    <3> QED BY <2>2, <3>1
  <2> QED BY <2>1, <2>2
<1> QED BY <1>3, <1>4, <1>5 DEF s, KeyLists

-----------------------------------------------------------------------------
(* Tables of lists, and what the changes of one list make of them. *)

\* In a unique index a secondary key has at most one entry.
Entries(u) == {list \in KeyLists : u => Len(list) <= 1}
Tables(u) == [SK -> Entries(u)]
Accumulators(u) == [ix : Tables(u), ok : BOOLEAN]

LEMMA EntriesFacts ==
    ASSUME NEW u \in BOOLEAN, NEW list \in Entries(u)
    PROVE  /\ list \in KeyLists /\ list \in Seq(PK) /\ Len(list) \in Nat
           /\ list = <<>> => Len(list) = 0
           /\ u => Len(list) <= 1
           /\ \A x \in PK : Count(list, x) \in Nat
<1>1. list \in KeyLists /\ (u => Len(list) <= 1)
  BY DEF Entries
<1>2. list \in Seq(PK) /\ Len(list) \in Nat
  BY <1>1 DEF KeyLists
<1> QED BY <1>1, <1>2, CountFacts, ShortLists

LEMMA ShortEntries ==
    ASSUME NEW u \in BOOLEAN
    PROVE  <<>> \in Entries(u) /\ \A pk \in PK : <<pk>> \in Entries(u)
  BY ShortLists DEF Entries

LEMMA NoEntriesFacts ==
    ASSUME NEW u \in BOOLEAN
    PROVE  /\ NoEntries \in Tables(u)
           /\ \A sk \in SK : NoEntries[sk] = <<>> /\ \A x \in PK : Count(NoEntries[sk], x) = 0
<1>1. NoEntries \in [SK -> Entries(u)] /\ \A sk \in SK : NoEntries[sk] = <<>>
  BY ShortEntries DEF NoEntries
<1> QED BY <1>1, EmptyCount DEF Tables

LEMMA GoodFacts ==
    ASSUME NEW u \in BOOLEAN, NEW t \in Tables(u)
    PROVE  Good(t) \in Accumulators(u) /\ Good(t).ix = t /\ Good(t).ok
  BY DEF Good, Accumulators

\* One list is changed, or the uniqueness error is thrown.
WithList(a, sk, list) == [a EXCEPT !.ix[sk] = list]
Failed(a) == [a EXCEPT !.ok = FALSE]

LEMMA WithListFacts ==
    ASSUME NEW u \in BOOLEAN, NEW a \in Accumulators(u), NEW sk \in SK, NEW list \in Entries(u)
    PROVE  /\ WithList(a, sk, list) \in Accumulators(u)
           /\ WithList(a, sk, list).ok = a.ok /\ WithList(a, sk, list).ix[sk] = list
           /\ \A x \in SK : x # sk => WithList(a, sk, list).ix[x] = a.ix[x]
<1> DEFINE b == WithList(a, sk, list)
<1>1. a.ix \in [SK -> Entries(u)] /\ a.ok \in BOOLEAN /\ a = [ix |-> a.ix, ok |-> a.ok]
  BY DEF Accumulators, Tables
<1>2. b = [ix |-> [a.ix EXCEPT ![sk] = list], ok |-> a.ok]
  BY <1>1 DEF WithList
<1> HIDE DEF b
<1>3. b.ix = [a.ix EXCEPT ![sk] = list] /\ b.ok = a.ok
  BY <1>2
<1>4. b.ix \in [SK -> Entries(u)] /\ b.ix[sk] = list /\ \A x \in SK : x # sk => b.ix[x] = a.ix[x]
  BY <1>1, <1>3
<1>5. b \in Accumulators(u)
  BY <1>1, <1>2, <1>3, <1>4 DEF Accumulators, Tables
<1> QED BY <1>3, <1>4, <1>5 DEF b

LEMMA FailedFacts ==
    ASSUME NEW u \in BOOLEAN, NEW a \in Accumulators(u)
    PROVE  Failed(a) \in Accumulators(u) /\ ~Failed(a).ok
<1> DEFINE T == Tables(u)
<1>1. a \in [ix : T, ok : BOOLEAN]
  BY DEF Accumulators
<1> HIDE DEF T
<1>2. Failed(a) \in [ix : T, ok : BOOLEAN] /\ ~Failed(a).ok
  BY <1>1 DEF Failed
<1> QED BY <1>2 DEF Accumulators, T

LEMMA AccumulatorFacts ==
    ASSUME NEW u \in BOOLEAN, NEW a \in Accumulators(u)
    PROVE  a.ix \in Tables(u) /\ a.ok \in BOOLEAN /\ \A sk \in SK : a.ix[sk] \in Entries(u)
<1>1. a.ix \in Tables(u) /\ a.ok \in BOOLEAN
  BY DEF Accumulators
<1> QED BY <1>1 DEF Tables

\* SortedList.add and remove within a unique index or another.
LEMMA AddedEntries ==
    ASSUME NEW u \in BOOLEAN, NEW list \in Entries(u), NEW pk \in PK, u => list = <<>>
    PROVE  Added(list, pk) \in Entries(u)
<1>1. list \in KeyLists /\ Len(list) \in Nat /\ (list = <<>> => Len(list) = 0)
  BY EntriesFacts
<1> QED BY <1>1, AddedCounts DEF Entries

LEMMA DroppedEntries ==
    ASSUME NEW u \in BOOLEAN, NEW list \in Entries(u), NEW pk \in PK
    PROVE  Dropped(list, pk) \in Entries(u)
<1>1. list \in KeyLists /\ Len(list) \in Nat /\ (u => Len(list) <= 1)
  BY EntriesFacts
<1>2. Dropped(list, pk) \in KeyLists /\ Len(Dropped(list, pk)) <= Len(list)
  BY <1>1, DroppedCounts
<1>3. Len(Dropped(list, pk)) \in Nat
  BY <1>2 DEF KeyLists
<1> QED BY <1>1, <1>2, <1>3 DEF Entries

-----------------------------------------------------------------------------
(* One object: the steps of the folds over its secondary keys. *)

\* What a removal of an object from an index does, key by key.
LEMMA MemoryRemoveSteps ==
    ASSUME NEW u \in BOOLEAN, NEW acc \in Accumulators(u), NEW pk \in PK, NEW q \in Seq(SK)
    PROVE  \E f \in [0..Len(q) -> Accumulators(u)] :
              /\ f[0] = acc /\ f[Len(q)] = MemoryRemove(acc, pk, q, u)
              /\ \A i \in 1..Len(q) : f[i] = IF ~u /\ Len(f[i - 1].ix[q[i]]) > 1 THEN WithList(f[i - 1], q[i], Dropped(f[i - 1].ix[q[i]], pk))
                        ELSE WithList(f[i - 1], q[i], <<>>)
<1> DEFINE Step(a, sk) == IF ~u /\ Len(a.ix[sk]) > 1 THEN WithList(a, sk, Dropped(a.ix[sk], pk))
                           ELSE WithList(a, sk, <<>>)
           n == Len(q)
           C == Accumulators(u)
           c == acc
           g == [i \in 1..n |-> [a \in C |-> Step(a, q[i])]]
           F(k) == [s \in SUBSET DOMAIN q |-> IF s = {} THEN c ELSE Step(k[s \ {Max(s)}], q[Max(s)])]
           V == CHOOSE k : k = F(k)
<1>1. n \in Nat /\ DOMAIN q = 1..n /\ \A i \in 1..n : q[i] \in SK
  OBVIOUS
<1>2. c \in C
  OBVIOUS
<1>3. ASSUME NEW a \in C, NEW sk \in SK PROVE Step(a, sk) \in C
  <2>1. a.ix[sk] \in Entries(u) /\ <<>> \in Entries(u)
    BY AccumulatorFacts, ShortEntries
  <2>2. Dropped(a.ix[sk], pk) \in Entries(u)
    BY <2>1, DroppedEntries
  <2> QED BY <2>1, <2>2, WithListFacts
<1>4. MemoryRemove(acc, pk, q, u) = V[DOMAIN q]
  BY DEF WithList, MemoryRemove, FoldLeft, MapThenFoldSet
<1>5. ASSUME NEW f, \A i \in 1..n : f[i] = Step(f[i - 1], q[i])
      PROVE  \A i \in 1..n : f[i] = IF ~u /\ Len(f[i - 1].ix[q[i]]) > 1 THEN WithList(f[i - 1], q[i], Dropped(f[i - 1].ix[q[i]], pk))
                        ELSE WithList(f[i - 1], q[i], <<>>)
  BY <1>5
<1> HIDE DEF Step, n, C, c
<1>6. g \in [1..n -> [C -> C]]
  BY <1>1, <1>3
<1>7. \A i \in 1..n, a \in C : g[i][a] = Step(a, q[i])
  OBVIOUS
<1> HIDE DEF g
<1> PICK f, h : Folds(f, h, n, C, c, g)
  BY <1>1, <1>2, <1>6, FoldSteps
<1>8. /\ f \in [0..n -> C] /\ f[0] = c /\ \A i \in 1..n : f[i] = g[i][f[i - 1]]
      /\ h \in [SUBSET (1..n) -> C]
      /\ \A s \in SUBSET (1..n) : h[s] = IF s = {} THEN c ELSE g[Max(s)][h[s \ {Max(s)}]]
      /\ h[1..n] = f[n]
  BY DEF Folds
<1>9. \A s \in SUBSET (1..n) : s # {} => Max(s) \in 1..n /\ s \ {Max(s)} \in SUBSET (1..n)
  BY <1>1, GreatestPosition
<1>10. \A s \in SUBSET (1..n) : h[s] = IF s = {} THEN c ELSE Step(h[s \ {Max(s)}], q[Max(s)])
  <2>1. \A s \in SUBSET (1..n) : s # {} => h[s \ {Max(s)}] \in C
    BY <1>8, <1>9
  <2> QED BY <1>7, <1>8, <1>9, <2>1
<1>11. h = F(h)
  <2>1. \A s \in SUBSET DOMAIN q : h[s] = F(h)[s]
    BY <1>1, <1>10
  <2>2. h = [s \in SUBSET DOMAIN q |-> h[s]]
    BY <1>1, <1>8
  <2> QED BY <2>1, <2>2
<1>12. V = F(V)
  BY <1>11
<1> HIDE DEF V
<1>13. V[1..n] = f[n]
  <2>1. \A s \in SUBSET DOMAIN q : V[s] = F(V)[s]
    BY <1>12
  <2>2. \A s \in SUBSET (1..n) : V[s] = IF s = {} THEN c ELSE Step(V[s \ {Max(s)}], q[Max(s)])
    BY <1>1, <2>1
  <2>3. V[{}] = h[{}]
    BY <1>10, <2>2
  <2>4. \A s \in SUBSET (1..n) : s # {} /\ V[s \ {Max(s)}] = h[s \ {Max(s)}] => V[s] = h[s]
    BY <1>10, <2>2
  <2> HIDE DEF F
  <2>5. V[1..n] = h[1..n]
    BY <1>1, <2>3, <2>4, FoldIsUnique
  <2> QED BY <1>8, <2>5
<1>14. \A i \in 1..n : f[i] = Step(f[i - 1], q[i])
  <2>1. \A i \in 1..n : f[i - 1] \in C
    <3>1. \A i \in 1..n : i - 1 \in 0..n
      BY <1>1
    <3> QED BY <1>8, <3>1
  <2> QED BY <1>7, <1>8, <2>1
<1>15. \A i \in 1..n : f[i] = IF ~u /\ Len(f[i - 1].ix[q[i]]) > 1 THEN WithList(f[i - 1], q[i], Dropped(f[i - 1].ix[q[i]], pk))
                        ELSE WithList(f[i - 1], q[i], <<>>)
  BY <1>5, <1>14
<1>16. f[n] = MemoryRemove(acc, pk, q, u)
  BY <1>1, <1>4, <1>13
<1> QED BY <1>8, <1>15, <1>16 DEF n, C, c

\* What an insertion into the in-memory index does, key by key.
LEMMA MemoryInsertSteps ==
    ASSUME NEW u \in BOOLEAN, NEW acc \in Accumulators(u), NEW pk \in PK, NEW q \in Seq(SK)
    PROVE  \E f \in [0..Len(q) -> Accumulators(u)] :
              /\ f[0] = acc /\ f[Len(q)] = MemoryInsert(acc, pk, q, u)
              /\ \A i \in 1..Len(q) : f[i] = IF ~f[i - 1].ok THEN f[i - 1]
                        ELSE IF f[i - 1].ix[q[i]] = <<>> THEN WithList(f[i - 1], q[i], <<pk>>)
                        ELSE IF u THEN Failed(f[i - 1])
                        ELSE WithList(f[i - 1], q[i], Added(f[i - 1].ix[q[i]], pk))
<1> DEFINE Step(a, sk) == IF ~a.ok THEN a
                           ELSE IF a.ix[sk] = <<>> THEN WithList(a, sk, <<pk>>)
                           ELSE IF u THEN Failed(a)
                           ELSE WithList(a, sk, Added(a.ix[sk], pk))
           n == Len(q)
           C == Accumulators(u)
           c == acc
           g == [i \in 1..n |-> [a \in C |-> Step(a, q[i])]]
           F(k) == [s \in SUBSET DOMAIN q |-> IF s = {} THEN c ELSE Step(k[s \ {Max(s)}], q[Max(s)])]
           V == CHOOSE k : k = F(k)
<1>1. n \in Nat /\ DOMAIN q = 1..n /\ \A i \in 1..n : q[i] \in SK
  OBVIOUS
<1>2. c \in C
  OBVIOUS
<1>3. ASSUME NEW a \in C, NEW sk \in SK PROVE Step(a, sk) \in C
  <2>1. a.ix[sk] \in Entries(u) /\ <<pk>> \in Entries(u)
    BY AccumulatorFacts, ShortEntries
  <2>2. WithList(a, sk, <<pk>>) \in C
    BY <2>1, WithListFacts
  <2>3. ASSUME ~u PROVE WithList(a, sk, Added(a.ix[sk], pk)) \in C
    <3>1. Added(a.ix[sk], pk) \in Entries(u)
      BY <2>1, <2>3, AddedEntries
    <3> QED BY <3>1, WithListFacts
  <2>4. Failed(a) \in C
    BY FailedFacts
  <2> QED BY <2>2, <2>3, <2>4
<1>4. MemoryInsert(acc, pk, q, u) = V[DOMAIN q]
  BY DEF WithList, Failed, MemoryInsert, FoldLeft, MapThenFoldSet
<1>5. ASSUME NEW f, \A i \in 1..n : f[i] = Step(f[i - 1], q[i])
      PROVE  \A i \in 1..n : f[i] = IF ~f[i - 1].ok THEN f[i - 1]
                        ELSE IF f[i - 1].ix[q[i]] = <<>> THEN WithList(f[i - 1], q[i], <<pk>>)
                        ELSE IF u THEN Failed(f[i - 1])
                        ELSE WithList(f[i - 1], q[i], Added(f[i - 1].ix[q[i]], pk))
  BY <1>5
<1> HIDE DEF Step, n, C, c
<1>6. g \in [1..n -> [C -> C]]
  BY <1>1, <1>3
<1>7. \A i \in 1..n, a \in C : g[i][a] = Step(a, q[i])
  OBVIOUS
<1> HIDE DEF g
<1> PICK f, h : Folds(f, h, n, C, c, g)
  BY <1>1, <1>2, <1>6, FoldSteps
<1>8. /\ f \in [0..n -> C] /\ f[0] = c /\ \A i \in 1..n : f[i] = g[i][f[i - 1]]
      /\ h \in [SUBSET (1..n) -> C]
      /\ \A s \in SUBSET (1..n) : h[s] = IF s = {} THEN c ELSE g[Max(s)][h[s \ {Max(s)}]]
      /\ h[1..n] = f[n]
  BY DEF Folds
<1>9. \A s \in SUBSET (1..n) : s # {} => Max(s) \in 1..n /\ s \ {Max(s)} \in SUBSET (1..n)
  BY <1>1, GreatestPosition
<1>10. \A s \in SUBSET (1..n) : h[s] = IF s = {} THEN c ELSE Step(h[s \ {Max(s)}], q[Max(s)])
  <2>1. \A s \in SUBSET (1..n) : s # {} => h[s \ {Max(s)}] \in C
    BY <1>8, <1>9
  <2> QED BY <1>7, <1>8, <1>9, <2>1
<1>11. h = F(h)
  <2>1. \A s \in SUBSET DOMAIN q : h[s] = F(h)[s]
    BY <1>1, <1>10
  <2>2. h = [s \in SUBSET DOMAIN q |-> h[s]]
    BY <1>1, <1>8
  <2> QED BY <2>1, <2>2
<1>12. V = F(V)
  BY <1>11
<1> HIDE DEF V
<1>13. V[1..n] = f[n]
  <2>1. \A s \in SUBSET DOMAIN q : V[s] = F(V)[s]
    BY <1>12
  <2>2. \A s \in SUBSET (1..n) : V[s] = IF s = {} THEN c ELSE Step(V[s \ {Max(s)}], q[Max(s)])
    BY <1>1, <2>1
  <2>3. V[{}] = h[{}]
    BY <1>10, <2>2
  <2>4. \A s \in SUBSET (1..n) : s # {} /\ V[s \ {Max(s)}] = h[s \ {Max(s)}] => V[s] = h[s]
    BY <1>10, <2>2
  <2> HIDE DEF F
  <2>5. V[1..n] = h[1..n]
    BY <1>1, <2>3, <2>4, FoldIsUnique
  <2> QED BY <1>8, <2>5
<1>14. \A i \in 1..n : f[i] = Step(f[i - 1], q[i])
  <2>1. \A i \in 1..n : f[i - 1] \in C
    <3>1. \A i \in 1..n : i - 1 \in 0..n
      BY <1>1
    <3> QED BY <1>8, <3>1
  <2> QED BY <1>7, <1>8, <2>1
<1>15. \A i \in 1..n : f[i] = IF ~f[i - 1].ok THEN f[i - 1]
                        ELSE IF f[i - 1].ix[q[i]] = <<>> THEN WithList(f[i - 1], q[i], <<pk>>)
                        ELSE IF u THEN Failed(f[i - 1])
                        ELSE WithList(f[i - 1], q[i], Added(f[i - 1].ix[q[i]], pk))
  BY <1>5, <1>14
<1>16. f[n] = MemoryInsert(acc, pk, q, u)
  BY <1>1, <1>4, <1>13
<1> QED BY <1>8, <1>15, <1>16 DEF n, C, c

\* What an insertion into the index table of LevelDB does, key by key.
LEMMA LevelInsertSteps ==
    ASSUME NEW u \in BOOLEAN, NEW acc \in Accumulators(u), NEW pk \in PK, NEW q \in Seq(SK)
    PROVE  \E f \in [0..Len(q) -> Accumulators(u)] :
              /\ f[0] = acc /\ f[Len(q)] = LevelInsert(acc, pk, q, u)
              /\ \A i \in 1..Len(q) : f[i] = IF ~f[i - 1].ok \/ (u /\ f[i - 1].ix[q[i]] # <<>>) THEN Failed(f[i - 1])
                        ELSE IF pk \in ToSet(f[i - 1].ix[q[i]]) THEN f[i - 1]
                        ELSE WithList(f[i - 1], q[i], Added(f[i - 1].ix[q[i]], pk))
<1> DEFINE Step(a, sk) == IF ~a.ok \/ (u /\ a.ix[sk] # <<>>) THEN Failed(a)
                           ELSE IF pk \in ToSet(a.ix[sk]) THEN a
                           ELSE WithList(a, sk, Added(a.ix[sk], pk))
           n == Len(q)
           C == Accumulators(u)
           c == acc
           g == [i \in 1..n |-> [a \in C |-> Step(a, q[i])]]
           F(k) == [s \in SUBSET DOMAIN q |-> IF s = {} THEN c ELSE Step(k[s \ {Max(s)}], q[Max(s)])]
           V == CHOOSE k : k = F(k)
<1>1. n \in Nat /\ DOMAIN q = 1..n /\ \A i \in 1..n : q[i] \in SK
  OBVIOUS
<1>2. c \in C
  OBVIOUS
<1>3. ASSUME NEW a \in C, NEW sk \in SK PROVE Step(a, sk) \in C
  <2>1. a.ix[sk] \in Entries(u)
    BY AccumulatorFacts
  <2>2. Failed(a) \in C
    BY FailedFacts
  <2>3. ASSUME u => a.ix[sk] = <<>> PROVE WithList(a, sk, Added(a.ix[sk], pk)) \in C
    <3>1. Added(a.ix[sk], pk) \in Entries(u)
      BY <2>1, <2>3, AddedEntries
    <3> QED BY <3>1, WithListFacts
  <2> QED BY <2>2, <2>3
<1>4. LevelInsert(acc, pk, q, u) = V[DOMAIN q]
  BY DEF WithList, Failed, LevelInsert, FoldLeft, MapThenFoldSet
<1>5. ASSUME NEW f, \A i \in 1..n : f[i] = Step(f[i - 1], q[i])
      PROVE  \A i \in 1..n : f[i] = IF ~f[i - 1].ok \/ (u /\ f[i - 1].ix[q[i]] # <<>>) THEN Failed(f[i - 1])
                        ELSE IF pk \in ToSet(f[i - 1].ix[q[i]]) THEN f[i - 1]
                        ELSE WithList(f[i - 1], q[i], Added(f[i - 1].ix[q[i]], pk))
  BY <1>5
<1> HIDE DEF Step, n, C, c
<1>6. g \in [1..n -> [C -> C]]
  BY <1>1, <1>3
<1>7. \A i \in 1..n, a \in C : g[i][a] = Step(a, q[i])
  OBVIOUS
<1> HIDE DEF g
<1> PICK f, h : Folds(f, h, n, C, c, g)
  BY <1>1, <1>2, <1>6, FoldSteps
<1>8. /\ f \in [0..n -> C] /\ f[0] = c /\ \A i \in 1..n : f[i] = g[i][f[i - 1]]
      /\ h \in [SUBSET (1..n) -> C]
      /\ \A s \in SUBSET (1..n) : h[s] = IF s = {} THEN c ELSE g[Max(s)][h[s \ {Max(s)}]]
      /\ h[1..n] = f[n]
  BY DEF Folds
<1>9. \A s \in SUBSET (1..n) : s # {} => Max(s) \in 1..n /\ s \ {Max(s)} \in SUBSET (1..n)
  BY <1>1, GreatestPosition
<1>10. \A s \in SUBSET (1..n) : h[s] = IF s = {} THEN c ELSE Step(h[s \ {Max(s)}], q[Max(s)])
  <2>1. \A s \in SUBSET (1..n) : s # {} => h[s \ {Max(s)}] \in C
    BY <1>8, <1>9
  <2> QED BY <1>7, <1>8, <1>9, <2>1
<1>11. h = F(h)
  <2>1. \A s \in SUBSET DOMAIN q : h[s] = F(h)[s]
    BY <1>1, <1>10
  <2>2. h = [s \in SUBSET DOMAIN q |-> h[s]]
    BY <1>1, <1>8
  <2> QED BY <2>1, <2>2
<1>12. V = F(V)
  BY <1>11
<1> HIDE DEF V
<1>13. V[1..n] = f[n]
  <2>1. \A s \in SUBSET DOMAIN q : V[s] = F(V)[s]
    BY <1>12
  <2>2. \A s \in SUBSET (1..n) : V[s] = IF s = {} THEN c ELSE Step(V[s \ {Max(s)}], q[Max(s)])
    BY <1>1, <2>1
  <2>3. V[{}] = h[{}]
    BY <1>10, <2>2
  <2>4. \A s \in SUBSET (1..n) : s # {} /\ V[s \ {Max(s)}] = h[s \ {Max(s)}] => V[s] = h[s]
    BY <1>10, <2>2
  <2> HIDE DEF F
  <2>5. V[1..n] = h[1..n]
    BY <1>1, <2>3, <2>4, FoldIsUnique
  <2> QED BY <1>8, <2>5
<1>14. \A i \in 1..n : f[i] = Step(f[i - 1], q[i])
  <2>1. \A i \in 1..n : f[i - 1] \in C
    <3>1. \A i \in 1..n : i - 1 \in 0..n
      BY <1>1
    <3> QED BY <1>8, <3>1
  <2> QED BY <1>7, <1>8, <2>1
<1>15. \A i \in 1..n : f[i] = IF ~f[i - 1].ok \/ (u /\ f[i - 1].ix[q[i]] # <<>>) THEN Failed(f[i - 1])
                        ELSE IF pk \in ToSet(f[i - 1].ix[q[i]]) THEN f[i - 1]
                        ELSE WithList(f[i - 1], q[i], Added(f[i - 1].ix[q[i]], pk))
  BY <1>5, <1>14
<1>16. f[n] = LevelInsert(acc, pk, q, u)
  BY <1>1, <1>4, <1>13
<1> QED BY <1>8, <1>15, <1>16 DEF n, C, c

-----------------------------------------------------------------------------
(* One object: what is listed under a secondary key afterwards. *)

\* How often an element is in the first i elements of a sequence.
Before(s, i, x) == Cardinality({j \in 1..i : s[j] = x})

LEMMA BeforeFacts ==
    ASSUME NEW S, NEW s \in Seq(S), NEW x
    PROVE  /\ Before(s, 0, x) = 0 /\ Before(s, Len(s), x) = Count(s, x)
           /\ \A i \in 0..Len(s) : Before(s, i, x) \in Nat /\ Before(s, i, x) <= Count(s, x)
           /\ \A i \in 1..Len(s) :
                Before(s, i, x) = IF s[i] = x THEN Before(s, i - 1, x) + 1 ELSE Before(s, i - 1, x)
<1> DEFINE B(i) == {j \in 1..i : s[j] = x}
<1>1. Len(s) \in Nat /\ DOMAIN s = 1..Len(s)
  OBVIOUS
<1>2. B(0) = {} /\ B(Len(s)) = {j \in DOMAIN s : s[j] = x}
  BY <1>1
<1>3. \A i \in 0..Len(s) : IsFiniteSet(B(i)) /\ Cardinality(B(i)) \in Nat /\ B(i) \in SUBSET B(Len(s))
  <2> TAKE i \in 0..Len(s)
  <2>1. B(i) \in SUBSET (1..i) /\ B(i) \in SUBSET B(Len(s))
    BY <1>1
  <2>2. IsFiniteSet(1..i)
    BY FS_Interval
  <2> HIDE DEF B
  <2> QED BY <2>1, <2>2, FS_Subset, FS_CardinalityType
<1>4. ASSUME NEW i \in 1..Len(s)
      PROVE  B(i) = IF s[i] = x THEN B(i - 1) \cup {i} ELSE B(i - 1)
  <2>1. 1..i = (1..(i - 1)) \cup {i}
    BY <1>1
  <2> QED BY <2>1
<1>5. \A i \in 1..Len(s) : i - 1 \in 0..Len(s) /\ i \notin B(i - 1)
  BY <1>1
<1>6. \A i : Before(s, i, x) = Cardinality(B(i))
  BY DEF Before
<1>7. Count(s, x) = Cardinality(B(Len(s))) /\ Len(s) \in 0..Len(s)
  BY <1>1, <1>2 DEF Count
<1> HIDE DEF B
<1>8. \A i \in 0..Len(s) : Cardinality(B(i)) <= Cardinality(B(Len(s)))
  BY <1>3, <1>7, FS_Subset
<1>9. ASSUME NEW i \in 1..Len(s)
      PROVE  Cardinality(B(i)) = IF s[i] = x THEN Cardinality(B(i - 1)) + 1 ELSE Cardinality(B(i - 1))
  BY <1>3, <1>4, <1>5, FS_AddElement
<1>10. Before(s, 0, x) = 0 /\ Before(s, Len(s), x) = Count(s, x)
  BY <1>2, <1>6, <1>7, FS_EmptySet
<1>11. \A i \in 0..Len(s) : Before(s, i, x) \in Nat /\ Before(s, i, x) <= Count(s, x)
  BY <1>3, <1>6, <1>7, <1>8
<1>12. \A i \in 1..Len(s) :
         Before(s, i, x) = IF s[i] = x THEN Before(s, i - 1, x) + 1 ELSE Before(s, i - 1, x)
  BY <1>6, <1>9, Zenon
<1> QED BY <1>10, <1>11, <1>12

\* A removal takes an object from the lists of its keys, if it is in them as often as it has the keys.
LEMMA RemoveCounts ==
    ASSUME NEW u \in BOOLEAN, NEW acc \in Accumulators(u), NEW pk \in PK, NEW q \in Seq(SK)
    PROVE  LET after == MemoryRemove(acc, pk, q, u)
           IN  /\ after \in Accumulators(u) /\ after.ok = acc.ok
               /\ \A sk \in SK :
                    /\ acc.ix[sk] = <<>> => after.ix[sk] = <<>>
                    /\ Count(acc.ix[sk], pk) = Count(q, sk) =>
                         \A x \in PK : Count(after.ix[sk], x) = IF x = pk THEN 0 ELSE Count(acc.ix[sk], x)
                    /\ Count(q, sk) = 0 => after.ix[sk] = acc.ix[sk]
<1> DEFINE n == Len(q)
           after == MemoryRemove(acc, pk, q, u)
<1>0. PICK f \in [0..n -> Accumulators(u)] :
       /\ f[0] = acc /\ f[n] = after
       /\ \A i \in 1..n : f[i] = IF ~u /\ Len(f[i - 1].ix[q[i]]) > 1
                                 THEN WithList(f[i - 1], q[i], Dropped(f[i - 1].ix[q[i]], pk))
                                  ELSE WithList(f[i - 1], q[i], <<>>)
  BY MemoryRemoveSteps
<1>1. n \in Nat /\ \A i \in 1..n : q[i] \in SK /\ i - 1 \in 0..n /\ i \in 0..n
  OBVIOUS
<1> HIDE DEF n, after
\* One step changes the list of its key only.
<1>2. ASSUME NEW i \in 1..n
      PROVE  /\ f[i].ok = f[i - 1].ok
             /\ \A sk \in SK : sk # q[i] => f[i].ix[sk] = f[i - 1].ix[sk]
             /\ f[i - 1].ix[q[i]] = <<>> => f[i].ix[q[i]] = <<>>
             /\ Count(f[i - 1].ix[q[i]], pk) > 0 =>
                  \A x \in PK : Count(f[i].ix[q[i]], x) =
                                  IF x = pk THEN Count(f[i - 1].ix[q[i]], x) - 1 ELSE Count(f[i - 1].ix[q[i]], x)
  <2> DEFINE a == f[i - 1]
             list == f[i - 1].ix[q[i]]
  <2>1. a \in Accumulators(u) /\ q[i] \in SK
    BY <1>0, <1>1
  <2>2. list \in Entries(u)
    BY <2>1, AccumulatorFacts
  <2>5. list \in KeyLists /\ Len(list) \in Nat /\ (u => Len(list) <= 1) /\ (list = <<>> => Len(list) = 0)
    BY <2>2, EntriesFacts
  <2>3. CASE ~u /\ Len(list) > 1
    <3>1. f[i] = WithList(a, q[i], Dropped(list, pk))
      BY <1>0, <2>3
    <3>2. /\ Dropped(list, pk) \in Entries(u)
          /\ \A x \in PK : Count(Dropped(list, pk), x) =
                             IF x = pk /\ Count(list, x) > 0 THEN Count(list, x) - 1 ELSE Count(list, x)
      BY <2>2, <2>5, DroppedCounts, DroppedEntries
    <3> HIDE DEF a, list
    <3>3. /\ f[i].ok = a.ok /\ f[i].ix[q[i]] = Dropped(list, pk)
          /\ \A sk \in SK : sk # q[i] => f[i].ix[sk] = a.ix[sk]
      BY <2>1, <2>3, <3>1, <3>2, WithListFacts
    <3> QED BY <2>3, <2>5, <3>2, <3>3 DEF a, list
  <2>4. CASE ~(~u /\ Len(list) > 1)
    <3>1. f[i] = WithList(a, q[i], <<>>)
      BY <1>0, <2>4
    <3>2. ~(Len(list) > 1)
      BY <2>5, <2>4
    <3> HIDE DEF a, list
    <3>3. /\ f[i].ok = a.ok /\ f[i].ix[q[i]] = <<>>
          /\ \A sk \in SK : sk # q[i] => f[i].ix[sk] = a.ix[sk]
      BY <2>1, <3>1, ShortEntries, WithListFacts
    <3>4. Count(list, pk) > 0 => \A x \in PK : Count(list, x) = IF x = pk THEN 1 ELSE 0
      BY <2>5, <3>2, OneEntry
    <3>5. \A x \in PK : Count(f[i].ix[q[i]], x) = 0
      BY <3>3, EmptyCount
    <3> QED BY <3>3, <3>4, <3>5 DEF a, list
  <2> QED BY <2>3, <2>4
<1>3. ASSUME NEW sk \in SK
      PROVE  /\ acc.ix[sk] = <<>> => after.ix[sk] = <<>>
             /\ Count(acc.ix[sk], pk) = Count(q, sk) =>
                  \A x \in PK : Count(after.ix[sk], x) = IF x = pk THEN 0 ELSE Count(acc.ix[sk], x)
             /\ Count(q, sk) = 0 => after.ix[sk] = acc.ix[sk]
             /\ after.ok = acc.ok
  <2> DEFINE P == {i \in 0..n :
                     /\ f[i].ok = acc.ok
                     /\ acc.ix[sk] = <<>> => f[i].ix[sk] = <<>>
                     /\ Count(acc.ix[sk], pk) = Count(q, sk) =>
                          \A x \in PK : Count(f[i].ix[sk], x) =
                                          IF x = pk THEN Count(q, sk) - Before(q, i, sk) ELSE Count(acc.ix[sk], x)
                     /\ Before(q, i, sk) = 0 => f[i].ix[sk] = acc.ix[sk]}
  <2>1. /\ Before(q, 0, sk) = 0 /\ Before(q, n, sk) = Count(q, sk) /\ Count(q, sk) \in Nat
        /\ \A i \in 0..n : Before(q, i, sk) \in Nat /\ Before(q, i, sk) <= Count(q, sk)
        /\ \A i \in 1..n :
             Before(q, i, sk) = IF q[i] = sk THEN Before(q, i - 1, sk) + 1 ELSE Before(q, i - 1, sk)
    BY BeforeFacts, CountFacts DEF n
  <2>2. 0 \in P
    <3>1. f[0] = acc /\ 0 \in 0..n
      BY <1>0, <1>1
    <3>2. ASSUME Count(acc.ix[sk], pk) = Count(q, sk)
          PROVE  \A x \in PK : Count(acc.ix[sk], x) =
                                  IF x = pk THEN Count(q, sk) - Before(q, 0, sk) ELSE Count(acc.ix[sk], x)
      BY <2>1, <3>2
    <3> QED BY <3>1, <3>2
  <2>3. ASSUME NEW i \in 1..n, i - 1 \in P PROVE i \in P
    <3>1. i \in 0..n /\ i - 1 \in 0..n
      BY <1>1
    <3>2. CASE q[i] # sk
      <4>1. f[i].ix[sk] = f[i - 1].ix[sk] /\ f[i].ok = f[i - 1].ok /\ Before(q, i, sk) = Before(q, i - 1, sk)
        BY <1>2, <2>1, <3>2
      <4> QED BY <2>3, <3>1, <4>1
    <3>3. CASE q[i] = sk
      <4>1. Before(q, i, sk) = Before(q, i - 1, sk) + 1 /\ Before(q, i, sk) # 0
        BY <2>1, <3>1, <3>3
      <4>2. ASSUME Count(acc.ix[sk], pk) = Count(q, sk)
            PROVE  \A x \in PK : Count(f[i].ix[sk], x) =
                                   IF x = pk THEN Count(q, sk) - Before(q, i, sk) ELSE Count(acc.ix[sk], x)
        <5>1. \A x \in PK : Count(f[i - 1].ix[sk], x) =
                              IF x = pk THEN Count(q, sk) - Before(q, i - 1, sk) ELSE Count(acc.ix[sk], x)
          BY <2>3, <4>2
        <5>2. Before(q, i, sk) <= Count(q, sk) /\ Before(q, i - 1, sk) \in Nat /\ Before(q, i, sk) \in Nat
          BY <2>1, <3>1
        <5>3. Count(f[i - 1].ix[sk], pk) = Count(q, sk) - Before(q, i - 1, sk)
          BY <5>1
        <5>4. Count(f[i - 1].ix[sk], pk) > 0
          BY <2>1, <4>1, <5>2, <5>3
        <5>5. \A x \in PK : Count(f[i].ix[sk], x) =
                              IF x = pk THEN Count(f[i - 1].ix[sk], x) - 1 ELSE Count(f[i - 1].ix[sk], x)
          BY <1>2, <3>3, <5>4
        <5> TAKE x \in PK
        <5>6. CASE x = pk
          BY <2>1, <4>1, <5>2, <5>3, <5>5, <5>6
        <5>7. CASE x # pk
          BY <5>1, <5>5, <5>7
        <5> QED BY <5>6, <5>7
      <4>3. f[i].ok = acc.ok /\ (acc.ix[sk] = <<>> => f[i].ix[sk] = <<>>)
        BY <1>2, <2>3, <3>3
      <4> QED BY <3>1, <4>1, <4>2, <4>3
    <3> QED BY <3>2, <3>3
  <2>4. n \in P
    <3>1. 0..n \subseteq P
      <4> HIDE DEF P
      <4> QED BY <1>1, <2>2, <2>3, StepInduction
    <3> QED BY <1>1, <3>1
  <2> QED BY <1>0, <2>1, <2>4
<1>4. after \in Accumulators(u)
  BY <1>0, <1>1
<1>5. after.ok = acc.ok
  <2> DEFINE P == {i \in 0..n : f[i].ok = acc.ok}
  <2>1. 0 \in P /\ \A i \in 1..n : i - 1 \in P => i \in P
    BY <1>0, <1>1, <1>2
  <2>2. 0..n \subseteq P
    <3> HIDE DEF P
    <3> QED BY <1>1, <2>1, StepInduction
  <2> QED BY <1>0, <1>1, <2>2
<1> QED BY <1>3, <1>4, <1>5 DEF after

\* An insertion in memory adds an object as often as it has a key.
LEMMA MemoryInsertCounts ==
    ASSUME NEW u \in BOOLEAN, NEW acc \in Accumulators(u), NEW pk \in PK, NEW q \in Seq(SK)
    PROVE  LET after == MemoryInsert(acc, pk, q, u)
           IN  /\ after \in Accumulators(u)
               /\ after.ok => acc.ok
               /\ after.ok => \A sk \in SK, x \in PK :
                    Count(after.ix[sk], x) = Count(acc.ix[sk], x) + IF x = pk THEN Count(q, sk) ELSE 0
<1> DEFINE n == Len(q)
           after == MemoryInsert(acc, pk, q, u)
<1>0. PICK f \in [0..n -> Accumulators(u)] :
       /\ f[0] = acc /\ f[n] = after
       /\ \A i \in 1..n : f[i] = IF ~f[i - 1].ok THEN f[i - 1]
                                 ELSE IF f[i - 1].ix[q[i]] = <<>> THEN WithList(f[i - 1], q[i], <<pk>>)
                                 ELSE IF u THEN Failed(f[i - 1])
                                 ELSE WithList(f[i - 1], q[i], Added(f[i - 1].ix[q[i]], pk))
  BY MemoryInsertSteps
<1>1. n \in Nat /\ \A i \in 1..n : q[i] \in SK /\ i - 1 \in 0..n /\ i \in 0..n
  OBVIOUS
<1> HIDE DEF n, after
<1>2. ASSUME NEW i \in 1..n, f[i].ok
      PROVE  /\ f[i - 1].ok
             /\ \A sk \in SK : sk # q[i] => f[i].ix[sk] = f[i - 1].ix[sk]
             /\ \A x \in PK : Count(f[i].ix[q[i]], x) = Count(f[i - 1].ix[q[i]], x) + IF x = pk THEN 1 ELSE 0
  <2> DEFINE a == f[i - 1]
             list == f[i - 1].ix[q[i]]
  <2>1. a \in Accumulators(u) /\ q[i] \in SK
    BY <1>0, <1>1
  <2>2. list \in Entries(u)
    BY <2>1, AccumulatorFacts
  <2>3. list \in KeyLists
    BY <2>2, EntriesFacts
  <2>4. a.ok /\ (list # <<>> => ~u)
    <3>1. ~Failed(a).ok
      BY <2>1, FailedFacts
    <3> QED BY <1>0, <1>2, <3>1
  <2>5. PICK new \in Entries(u) :
          /\ f[i] = WithList(a, q[i], new)
          /\ \A x \in PK : Count(new, x) = Count(list, x) + IF x = pk THEN 1 ELSE 0
    <3>1. CASE list = <<>>
      <4>1. f[i] = WithList(a, q[i], <<pk>>)
        BY <1>0, <2>4, <3>1
      <4>2. <<pk>> \in Entries(u)
        BY ShortEntries
      <4>3. \A x \in PK : Count(list, x) = 0 /\ Count(<<pk>>, x) = IF x = pk THEN 1 ELSE 0
        BY <3>1, EmptyCount, ShortLists
      <4>4. \A x \in PK : Count(<<pk>>, x) = Count(list, x) + IF x = pk THEN 1 ELSE 0
        BY <4>3
      <4> QED BY <4>1, <4>2, <4>4
    <3>2. CASE list # <<>>
      <4>1. f[i] = WithList(a, q[i], Added(list, pk))
        BY <1>0, <2>4, <3>2
      <4>2. Added(list, pk) \in Entries(u)
        BY <2>2, <2>4, <3>2, AddedEntries
      <4> QED BY <2>3, <4>1, <4>2, AddedCounts
    <3> QED BY <3>1, <3>2
  <2> HIDE DEF a, list
  <2>6. /\ f[i].ix[q[i]] = new
        /\ \A sk \in SK : sk # q[i] => f[i].ix[sk] = a.ix[sk]
    BY <2>1, <2>5, WithListFacts
  <2> QED BY <2>4, <2>5, <2>6 DEF a, list
<1> DEFINE P == {i \in 0..n : f[i].ok =>
                   /\ acc.ok
                   /\ \A sk \in SK, x \in PK :
                        Count(f[i].ix[sk], x) = Count(acc.ix[sk], x) + IF x = pk THEN Before(q, i, sk) ELSE 0}
<1>3. \A sk \in SK :
        /\ Before(q, 0, sk) = 0 /\ Before(q, n, sk) = Count(q, sk)
        /\ \A i \in 0..n : Before(q, i, sk) \in Nat
        /\ \A i \in 1..n :
             Before(q, i, sk) = IF q[i] = sk THEN Before(q, i - 1, sk) + 1 ELSE Before(q, i - 1, sk)
  BY BeforeFacts DEF n
<1>4. \A i \in 0..n, sk \in SK, x \in PK : Count(f[i].ix[sk], x) \in Nat
  <2> TAKE i \in 0..n, sk \in SK, x \in PK
  <2>1. f[i].ix[sk] \in Entries(u)
    BY <1>0, AccumulatorFacts
  <2> QED BY <2>1, EntriesFacts
<1>9. \A sk \in SK, x \in PK : Count(acc.ix[sk], x) \in Nat
  BY <1>0, <1>1, <1>4
<1>5. 0 \in P
  BY <1>0, <1>1, <1>3, <1>9
<1>6. ASSUME NEW i \in 1..n, i - 1 \in P PROVE i \in P
  <2>1. i \in 0..n /\ i - 1 \in 0..n
    BY <1>1
  <2> SUFFICES ASSUME f[i].ok
               PROVE  /\ acc.ok
                      /\ \A sk \in SK, x \in PK :
                           Count(f[i].ix[sk], x) = Count(acc.ix[sk], x) + IF x = pk THEN Before(q, i, sk) ELSE 0
    BY <2>1
  <2>2. /\ acc.ok
        /\ \A sk \in SK, x \in PK :
             Count(f[i - 1].ix[sk], x) = Count(acc.ix[sk], x) + IF x = pk THEN Before(q, i - 1, sk) ELSE 0
    BY <1>2, <1>6
  <2>3. ASSUME NEW sk \in SK, NEW x \in PK
        PROVE  Count(f[i].ix[sk], x) = Count(acc.ix[sk], x) + IF x = pk THEN Before(q, i, sk) ELSE 0
    <3>1. Count(acc.ix[sk], x) \in Nat /\ Before(q, i - 1, sk) \in Nat
      BY <1>3, <1>9, <2>1
    <3>2. CASE q[i] # sk
      <4>1. f[i].ix[sk] = f[i - 1].ix[sk] /\ Before(q, i, sk) = Before(q, i - 1, sk)
        BY <1>2, <1>3, <3>2
      <4> QED BY <2>2, <4>1
    <3>3. CASE q[i] = sk
      <4>1. /\ Count(f[i].ix[sk], x) = Count(f[i - 1].ix[sk], x) + IF x = pk THEN 1 ELSE 0
            /\ Before(q, i, sk) = Before(q, i - 1, sk) + 1
        BY <1>2, <1>3, <3>3
      <4> QED BY <2>2, <3>1, <4>1
    <3> QED BY <3>2, <3>3
  <2> QED BY <2>2, <2>3
<1>7. n \in P
  <2>1. 0..n \subseteq P
    <3> HIDE DEF P
    <3> QED BY <1>1, <1>5, <1>6, StepInduction
  <2> QED BY <1>1, <2>1
<1>8. after \in Accumulators(u)
  BY <1>0, <1>1
<1> QED BY <1>0, <1>3, <1>7, <1>8 DEF after

\* In LevelDB it adds an object once, if it is not there.
LEMMA LevelInsertCounts ==
    ASSUME NEW u \in BOOLEAN, NEW acc \in Accumulators(u), NEW pk \in PK, NEW q \in Seq(SK)
    PROVE  LET after == LevelInsert(acc, pk, q, u)
           IN  /\ after \in Accumulators(u)
               /\ after.ok => acc.ok
               /\ after.ok => \A sk \in SK, x \in PK :
                    Count(after.ix[sk], x) = IF x = pk /\ Count(q, sk) > 0 /\ Count(acc.ix[sk], x) = 0 THEN 1
                                             ELSE Count(acc.ix[sk], x)
<1> DEFINE n == Len(q)
           after == LevelInsert(acc, pk, q, u)
<1>0. PICK f \in [0..n -> Accumulators(u)] :
       /\ f[0] = acc /\ f[n] = after
       /\ \A i \in 1..n : f[i] = IF ~f[i - 1].ok \/ (u /\ f[i - 1].ix[q[i]] # <<>>) THEN Failed(f[i - 1])
                                 ELSE IF pk \in ToSet(f[i - 1].ix[q[i]]) THEN f[i - 1]
                                 ELSE WithList(f[i - 1], q[i], Added(f[i - 1].ix[q[i]], pk))
  BY LevelInsertSteps
<1>1. n \in Nat /\ \A i \in 1..n : q[i] \in SK /\ i - 1 \in 0..n /\ i \in 0..n
  OBVIOUS
<1> HIDE DEF n, after
<1>2. ASSUME NEW i \in 1..n, f[i].ok
      PROVE  /\ f[i - 1].ok
             /\ \A sk \in SK : sk # q[i] => f[i].ix[sk] = f[i - 1].ix[sk]
             /\ \A x \in PK : Count(f[i].ix[q[i]], x) =
                                IF x = pk /\ Count(f[i - 1].ix[q[i]], x) = 0 THEN 1 ELSE Count(f[i - 1].ix[q[i]], x)
  <2> DEFINE a == f[i - 1]
             list == f[i - 1].ix[q[i]]
  <2>1. a \in Accumulators(u) /\ q[i] \in SK
    BY <1>0, <1>1
  <2>2. list \in Entries(u)
    BY <2>1, AccumulatorFacts
  <2>3. list \in KeyLists /\ list \in Seq(PK)
    BY <2>2, EntriesFacts
  <2>4. a.ok /\ (u => list = <<>>)
    <3>1. ~Failed(a).ok
      BY <2>1, FailedFacts
    <3> QED BY <1>0, <1>2, <3>1
  <2>5. Count(list, pk) \in Nat /\ (Count(list, pk) = 0 <=> pk \notin ToSet(list))
    BY <2>3, CountFacts
  <2>6. CASE pk \in ToSet(list)
    <3>1. f[i] = a
      BY <1>0, <2>4, <2>6
    <3> QED BY <2>4, <2>5, <2>6, <3>1
  <2>7. CASE pk \notin ToSet(list)
    <3>1. f[i] = WithList(a, q[i], Added(list, pk))
      BY <1>0, <2>4, <2>7
    <3>2. Added(list, pk) \in Entries(u)
      BY <2>2, <2>4, AddedEntries
    <3>3. \A x \in PK : Count(Added(list, pk), x) = Count(list, x) + IF x = pk THEN 1 ELSE 0
      BY <2>3, AddedCounts
    <3>4. \A x \in PK : Count(list, x) \in Nat
      BY <2>3, CountFacts
    <3>5. \A x \in PK : Count(Added(list, pk), x) = IF x = pk /\ Count(list, x) = 0 THEN 1 ELSE Count(list, x)
      BY <2>5, <2>7, <3>3, <3>4
    <3> HIDE DEF a, list
    <3>6. /\ f[i].ix[q[i]] = Added(list, pk)
          /\ \A sk \in SK : sk # q[i] => f[i].ix[sk] = a.ix[sk]
      BY <2>1, <3>1, <3>2, WithListFacts
    <3> QED BY <2>4, <3>5, <3>6 DEF a, list
  <2> QED BY <2>6, <2>7
<1> DEFINE P == {i \in 0..n : f[i].ok =>
                   /\ acc.ok
                   /\ \A sk \in SK, x \in PK :
                        Count(f[i].ix[sk], x) =
                          IF x = pk /\ Before(q, i, sk) > 0 /\ Count(acc.ix[sk], x) = 0 THEN 1
                          ELSE Count(acc.ix[sk], x)}
<1>3. \A sk \in SK :
        /\ Before(q, 0, sk) = 0 /\ Before(q, n, sk) = Count(q, sk)
        /\ \A i \in 0..n : Before(q, i, sk) \in Nat
        /\ \A i \in 1..n :
             Before(q, i, sk) = IF q[i] = sk THEN Before(q, i - 1, sk) + 1 ELSE Before(q, i - 1, sk)
  BY BeforeFacts DEF n
<1>4. 0 \in P
  BY <1>0, <1>1, <1>3
<1>5. ASSUME NEW i \in 1..n, i - 1 \in P PROVE i \in P
  <2>1. i \in 0..n /\ i - 1 \in 0..n
    BY <1>1
  <2> SUFFICES ASSUME f[i].ok
               PROVE  /\ acc.ok
                      /\ \A sk \in SK, x \in PK :
                           Count(f[i].ix[sk], x) =
                             IF x = pk /\ Before(q, i, sk) > 0 /\ Count(acc.ix[sk], x) = 0 THEN 1
                             ELSE Count(acc.ix[sk], x)
    BY <2>1
  <2>2. /\ acc.ok
        /\ \A sk \in SK, x \in PK :
             Count(f[i - 1].ix[sk], x) =
               IF x = pk /\ Before(q, i - 1, sk) > 0 /\ Count(acc.ix[sk], x) = 0 THEN 1
               ELSE Count(acc.ix[sk], x)
    BY <1>2, <1>5
  <2>3. ASSUME NEW sk \in SK, NEW x \in PK
        PROVE  Count(f[i].ix[sk], x) =
                 IF x = pk /\ Before(q, i, sk) > 0 /\ Count(acc.ix[sk], x) = 0 THEN 1
                 ELSE Count(acc.ix[sk], x)
    <3>1. Before(q, i - 1, sk) \in Nat
      BY <1>3, <2>1
    <3>2. CASE q[i] # sk
      <4>1. f[i].ix[sk] = f[i - 1].ix[sk] /\ Before(q, i, sk) = Before(q, i - 1, sk)
        BY <1>2, <1>3, <3>2
      <4> QED BY <2>2, <4>1
    <3>3. CASE q[i] = sk
      <4>1. /\ Count(f[i].ix[sk], x) =
                 IF x = pk /\ Count(f[i - 1].ix[sk], x) = 0 THEN 1 ELSE Count(f[i - 1].ix[sk], x)
            /\ Before(q, i, sk) > 0
        BY <1>2, <1>3, <3>1, <3>3
      <4>2. Count(f[i - 1].ix[sk], x) =
              IF x = pk /\ Before(q, i - 1, sk) > 0 /\ Count(acc.ix[sk], x) = 0 THEN 1
              ELSE Count(acc.ix[sk], x)
        BY <2>2
      <4> QED BY <4>1, <4>2
    <3> QED BY <3>2, <3>3
  <2> QED BY <2>2, <2>3
<1>6. n \in P
  <2>1. 0..n \subseteq P
    <3> HIDE DEF P
    <3> QED BY <1>1, <1>4, <1>5, StepInduction
  <2> QED BY <1>1, <2>1
<1>7. after \in Accumulators(u)
  BY <1>0, <1>1
<1> QED BY <1>0, <1>3, <1>6, <1>7 DEF after

-----------------------------------------------------------------------------
(* One object: put of an index. *)

\* How often an object is listed that has a key n times.
Often(mem, n) == IF mem \/ n = 0 THEN n ELSE 1

Removal(mem, acc, pk, q, u) == IF mem THEN MemoryRemove(acc, pk, q, u) ELSE LevelRemove(acc, pk, q, u)
Insertion(mem, acc, pk, q, u) == IF mem THEN MemoryInsert(acc, pk, q, u) ELSE LevelInsert(acc, pk, q, u)
Replacement(mem, acc, pk, old, new, u, m) ==
    IF mem THEN MemoryPut(acc, pk, old, new, u, m) ELSE LevelPut(acc, pk, old, new, u, m)

\* The removals in memory and in LevelDB are the same.
LEMMA RemovalCounts ==
    ASSUME NEW mem \in BOOLEAN, NEW u \in BOOLEAN, NEW acc \in Accumulators(u), NEW pk \in PK, NEW q \in Seq(SK)
    PROVE  LET after == Removal(mem, acc, pk, q, u)
           IN  /\ after \in Accumulators(u) /\ after.ok = acc.ok
               /\ \A sk \in SK :
                    /\ acc.ix[sk] = <<>> => after.ix[sk] = <<>>
                    /\ Count(acc.ix[sk], pk) = Count(q, sk) =>
                         \A x \in PK : Count(after.ix[sk], x) = IF x = pk THEN 0 ELSE Count(acc.ix[sk], x)
                    /\ Count(q, sk) = 0 => after.ix[sk] = acc.ix[sk]
<1>1. Removal(mem, acc, pk, q, u) = MemoryRemove(acc, pk, q, u)
  BY DEF Removal, MemoryRemove, LevelRemove
<1> QED BY <1>1, RemoveCounts

LEMMA InsertionCounts ==
    ASSUME NEW mem \in BOOLEAN, NEW u \in BOOLEAN, NEW acc \in Accumulators(u), NEW pk \in PK, NEW q \in Seq(SK)
    PROVE  LET after == Insertion(mem, acc, pk, q, u)
           IN  /\ after \in Accumulators(u)
               /\ after.ok => acc.ok
               /\ after.ok => \A sk \in SK, x \in PK :
                    /\ x # pk \/ Count(q, sk) = 0 => Count(after.ix[sk], x) = Count(acc.ix[sk], x)
                    /\ Count(acc.ix[sk], pk) = 0 => Count(after.ix[sk], pk) = Often(mem, Count(q, sk))
<1> DEFINE after == Insertion(mem, acc, pk, q, u)
<1>1. \A sk \in SK : Count(q, sk) \in Nat
  BY CountFacts
<1>2. \A sk \in SK, x \in PK : Count(acc.ix[sk], x) \in Nat
  <2> TAKE sk \in SK, x \in PK
  <2>1. acc.ix[sk] \in Entries(u)
    BY AccumulatorFacts
  <2> QED BY <2>1, EntriesFacts
<1>3. CASE mem
  <2>1. after = MemoryInsert(acc, pk, q, u)
    BY <1>3 DEF Insertion
  <2> HIDE DEF after
  <2>2. /\ after \in Accumulators(u) /\ (after.ok => acc.ok)
        /\ after.ok => \A sk \in SK, x \in PK :
             Count(after.ix[sk], x) = Count(acc.ix[sk], x) + IF x = pk THEN Count(q, sk) ELSE 0
    BY <2>1, MemoryInsertCounts
  <2>3. \A n \in Nat : Often(mem, n) = n
    BY <1>3 DEF Often
  <2> QED BY <1>1, <1>2, <2>2, <2>3 DEF after
<1>4. CASE ~mem
  <2>1. after = LevelInsert(acc, pk, q, u)
    BY <1>4 DEF Insertion
  <2> HIDE DEF after
  <2>2. /\ after \in Accumulators(u) /\ (after.ok => acc.ok)
        /\ after.ok => \A sk \in SK, x \in PK :
             Count(after.ix[sk], x) = IF x = pk /\ Count(q, sk) > 0 /\ Count(acc.ix[sk], x) = 0 THEN 1
                                      ELSE Count(acc.ix[sk], x)
    BY <2>1, LevelInsertCounts
  <2>3. \A n \in Nat : Often(mem, n) = IF n > 0 THEN 1 ELSE 0
    BY <1>4 DEF Often
  <2> QED BY <1>1, <1>2, <2>2, <2>3 DEF after
<1> QED BY <1>3, <1>4

\* A put makes the list of a key right for its object and leaves the others, if it was right before and
\* the backend can remove what it inserted; it leaves a list empty that the object does not go into.
PutEffect(mem, a, b, pk, old, new, m) ==
    \A sk \in SK :
        /\ /\ Count(a.ix[sk], pk) = Often(mem, Count(old, sk))
           /\ mem \/ Count(old, sk) <= 1 \/ SameKeys(old, new, m)
           => \A x \in PK : Count(b.ix[sk], x) =
                              IF x = pk THEN Often(mem, Count(new, sk)) ELSE Count(a.ix[sk], x)
        /\ a.ix[sk] = <<>> /\ Count(new, sk) = 0 => b.ix[sk] = <<>>

LEMMA ReplacementCounts ==
    ASSUME NEW mem \in BOOLEAN, NEW u \in BOOLEAN, NEW m \in BOOLEAN, NEW acc \in Accumulators(u),
           NEW pk \in PK, NEW old \in Seq(SK), NEW new \in Seq(SK)
    PROVE  LET after == Replacement(mem, acc, pk, old, new, u, m)
           IN  /\ after \in Accumulators(u)
               /\ after.ok => acc.ok
               /\ after.ok => PutEffect(mem, acc, after, pk, old, new, m)
<1> DEFINE after == Replacement(mem, acc, pk, old, new, u, m)
           out == Removal(mem, acc, pk, old, u)
<1>1. after = IF ~acc.ok \/ SameKeys(old, new, m) THEN acc ELSE Insertion(mem, out, pk, new, u)
  BY DEF Replacement, MemoryPut, LevelPut, Rekeyed, Removal, Insertion
<1>2. CASE ~acc.ok \/ SameKeys(old, new, m)
  <2>1. after = acc
    BY <1>1, <1>2
  <2>2. acc.ok => old = new
    BY <1>2 DEF SameKeys
  <2> HIDE DEF after
  <2> QED BY <2>1, <2>2 DEF after, PutEffect
<1>3. CASE acc.ok /\ ~SameKeys(old, new, m)
  <2>1. after = Insertion(mem, out, pk, new, u)
    BY <1>1, <1>3
  <2> HIDE DEF after, out
  <2>2. /\ out \in Accumulators(u) /\ out.ok = acc.ok
        /\ \A sk \in SK :
             /\ acc.ix[sk] = <<>> => out.ix[sk] = <<>>
             /\ Count(acc.ix[sk], pk) = Count(old, sk) =>
                  \A x \in PK : Count(out.ix[sk], x) = IF x = pk THEN 0 ELSE Count(acc.ix[sk], x)
    BY RemovalCounts DEF out
  <2>3. /\ after \in Accumulators(u)
        /\ after.ok => \A sk \in SK, x \in PK :
             /\ x # pk \/ Count(new, sk) = 0 => Count(after.ix[sk], x) = Count(out.ix[sk], x)
             /\ Count(out.ix[sk], pk) = 0 => Count(after.ix[sk], pk) = Often(mem, Count(new, sk))
    BY <2>1, <2>2, InsertionCounts
  <2>4. ASSUME after.ok, NEW sk \in SK, Count(acc.ix[sk], pk) = Often(mem, Count(old, sk)),
               mem \/ Count(old, sk) <= 1
        PROVE  \A x \in PK : Count(after.ix[sk], x) =
                               IF x = pk THEN Often(mem, Count(new, sk)) ELSE Count(acc.ix[sk], x)
    <3>1. Count(old, sk) \in Nat
      BY CountFacts
    <3>2. Often(mem, Count(old, sk)) = Count(old, sk)
      BY <2>4, <3>1 DEF Often
    <3>3. \A x \in PK : Count(out.ix[sk], x) = IF x = pk THEN 0 ELSE Count(acc.ix[sk], x)
      BY <2>2, <2>4, <3>2
    <3> QED BY <2>3, <2>4, <3>3
  <2>5. ASSUME after.ok, NEW sk \in SK, acc.ix[sk] = <<>>, Count(new, sk) = 0 PROVE after.ix[sk] = <<>>
    <3>1. out.ix[sk] = <<>>
      BY <2>2, <2>5
    <3>2. \A x \in PK : Count(out.ix[sk], x) = 0
      BY <3>1, EmptyCount
    <3>3. \A x \in PK : Count(after.ix[sk], x) = 0
      BY <2>3, <2>5, <3>2
    <3>4. after.ix[sk] \in KeyLists
      <4>1. after.ix[sk] \in Entries(u)
        BY <2>3, AccumulatorFacts
      <4> QED BY <4>1, EntriesFacts
    <3> QED BY <3>3, <3>4, NoEntry
  <2> QED BY <1>3, <2>3, <2>4, <2>5 DEF after, PutEffect
<1> QED BY <1>2, <1>3

-----------------------------------------------------------------------------
(* Stores, and the application of a transaction in memory and in LevelDB. *)

\* What may be stored or put: a sequence of secondary keys for some primary keys.
Stores == UNION {[S -> Seq(SK)] : S \in SUBSET PK}

\* The keys under which an object was listed; in memory none after a truncation.
OldKeys(d, t, pk) == IF t THEN <<>> ELSE KeysOf(d, pk)

\* The two loops of an application.
MemoryCleared(d, t, acc, gone, u) ==
    FoldLeft(LAMBDA a, pk : MemoryRemove(a, pk, OldKeys(d, t, pk), u), acc, gone)
LevelCleared(d, acc, gone, u) ==
    FoldLeft(LAMBDA a, pk : LevelRemove(a, pk, KeysOf(d, pk), u), acc, gone)
MemoryReplaced(d, t, new, acc, puts, u, m) ==
    FoldLeft(LAMBDA a, pk : MemoryPut(a, pk, OldKeys(d, t, pk), new[pk], u, m), acc, puts)
LevelReplaced(d, new, acc, puts, u, m) ==
    FoldLeft(LAMBDA a, pk : LevelPut(a, pk, KeysOf(d, pk), new[pk], u, m), acc, puts)

LEMMA StoreFacts ==
    ASSUME NEW d \in Stores
    PROVE  /\ DOMAIN d \in SUBSET PK /\ \A pk \in DOMAIN d : pk \in PK /\ d[pk] \in Seq(SK)
           /\ d = [pk \in DOMAIN d |-> d[pk]]
<1>1. PICK S \in SUBSET PK : d \in [S -> Seq(SK)]
  BY DEF Stores
<1> QED BY <1>1

LEMMA OldFacts ==
    ASSUME NEW d \in Stores, NEW t \in BOOLEAN, NEW pk \in PK
    PROVE  KeysOf(d, pk) \in Seq(SK) /\ OldKeys(d, t, pk) \in Seq(SK)
<1>1. <<>> \in Seq(SK)
  OBVIOUS
<1>2. pk \in DOMAIN d => d[pk] \in Seq(SK)
  BY StoreFacts
<1> QED BY <1>1, <1>2 DEF KeysOf, OldKeys

\* The removals of an application in memory, object by object.
LEMMA MemoryClearingSteps ==
    ASSUME NEW u \in BOOLEAN, NEW t \in BOOLEAN, NEW acc \in Accumulators(u), NEW d \in Stores,
           NEW q \in Seq(PK)
    PROVE  \E f \in [0..Len(q) -> Accumulators(u)] :
              /\ f[0] = acc /\ f[Len(q)] = MemoryCleared(d, t, acc, q, u)
              /\ \A i \in 1..Len(q) : f[i] = MemoryRemove(f[i - 1], q[i], OldKeys(d, t, q[i]), u)
<1> DEFINE Step(a, pk) == MemoryRemove(a, pk, OldKeys(d, t, pk), u)
           n == Len(q)
           C == Accumulators(u)
           c == acc
           g == [i \in 1..n |-> [a \in C |-> Step(a, q[i])]]
           F(k) == [s \in SUBSET DOMAIN q |-> IF s = {} THEN c ELSE Step(k[s \ {Max(s)}], q[Max(s)])]
           V == CHOOSE k : k = F(k)
<1>1. n \in Nat /\ DOMAIN q = 1..n /\ \A i \in 1..n : q[i] \in PK
  OBVIOUS
<1>2. c \in C
  OBVIOUS
<1>3. ASSUME NEW a \in C, NEW pk \in PK PROVE Step(a, pk) \in C
  <2>1. OldKeys(d, t, pk) \in Seq(SK)
    BY OldFacts
  <2>2. Removal(TRUE, a, pk, OldKeys(d, t, pk), u) \in C
    BY <2>1, RemovalCounts
  <2> QED BY <2>2 DEF Removal
<1>4. MemoryCleared(d, t, acc, q, u) = V[DOMAIN q]
  BY DEF MemoryCleared, Step, FoldLeft, MapThenFoldSet
<1>5. ASSUME NEW f, \A i \in 1..n : f[i] = Step(f[i - 1], q[i])
      PROVE  \A i \in 1..n : f[i] = MemoryRemove(f[i - 1], q[i], OldKeys(d, t, q[i]), u)
  BY <1>5
<1> HIDE DEF Step, n, C, c
<1>6. g \in [1..n -> [C -> C]]
  BY <1>1, <1>3
<1>7. \A i \in 1..n, a \in C : g[i][a] = Step(a, q[i])
  OBVIOUS
<1> HIDE DEF g
<1> PICK f, h : Folds(f, h, n, C, c, g)
  BY <1>1, <1>2, <1>6, FoldSteps
<1>8. /\ f \in [0..n -> C] /\ f[0] = c /\ \A i \in 1..n : f[i] = g[i][f[i - 1]]
      /\ h \in [SUBSET (1..n) -> C]
      /\ \A s \in SUBSET (1..n) : h[s] = IF s = {} THEN c ELSE g[Max(s)][h[s \ {Max(s)}]]
      /\ h[1..n] = f[n]
  BY DEF Folds
<1>9. \A s \in SUBSET (1..n) : s # {} => Max(s) \in 1..n /\ s \ {Max(s)} \in SUBSET (1..n)
  BY <1>1, GreatestPosition
<1>10. \A s \in SUBSET (1..n) : h[s] = IF s = {} THEN c ELSE Step(h[s \ {Max(s)}], q[Max(s)])
  <2>1. \A s \in SUBSET (1..n) : s # {} => h[s \ {Max(s)}] \in C
    BY <1>8, <1>9
  <2> QED BY <1>7, <1>8, <1>9, <2>1
<1>11. h = F(h)
  <2>1. \A s \in SUBSET DOMAIN q : h[s] = F(h)[s]
    BY <1>1, <1>10
  <2>2. h = [s \in SUBSET DOMAIN q |-> h[s]]
    BY <1>1, <1>8
  <2> QED BY <2>1, <2>2
<1>12. V = F(V)
  BY <1>11
<1> HIDE DEF V
<1>13. V[1..n] = f[n]
  <2>1. \A s \in SUBSET DOMAIN q : V[s] = F(V)[s]
    BY <1>12
  <2>2. \A s \in SUBSET (1..n) : V[s] = IF s = {} THEN c ELSE Step(V[s \ {Max(s)}], q[Max(s)])
    BY <1>1, <2>1
  <2>3. V[{}] = h[{}]
    BY <1>10, <2>2
  <2>4. \A s \in SUBSET (1..n) : s # {} /\ V[s \ {Max(s)}] = h[s \ {Max(s)}] => V[s] = h[s]
    BY <1>10, <2>2
  <2> HIDE DEF F
  <2>5. V[1..n] = h[1..n]
    BY <1>1, <2>3, <2>4, FoldIsUnique
  <2> QED BY <1>8, <2>5
<1>14. \A i \in 1..n : f[i] = Step(f[i - 1], q[i])
  <2>1. \A i \in 1..n : f[i - 1] \in C
    <3>1. \A i \in 1..n : i - 1 \in 0..n
      BY <1>1
    <3> QED BY <1>8, <3>1
  <2> QED BY <1>7, <1>8, <2>1
<1>15. \A i \in 1..n : f[i] = MemoryRemove(f[i - 1], q[i], OldKeys(d, t, q[i]), u)
  BY <1>5, <1>14
<1>16. f[n] = MemoryCleared(d, t, acc, q, u)
  BY <1>1, <1>4, <1>13
<1> QED BY <1>8, <1>15, <1>16 DEF n, C, c

\* The removals of an application in LevelDB.
LEMMA LevelClearingSteps ==
    ASSUME NEW u \in BOOLEAN, NEW acc \in Accumulators(u), NEW d \in Stores,
           NEW q \in Seq(PK)
    PROVE  \E f \in [0..Len(q) -> Accumulators(u)] :
              /\ f[0] = acc /\ f[Len(q)] = LevelCleared(d, acc, q, u)
              /\ \A i \in 1..Len(q) : f[i] = LevelRemove(f[i - 1], q[i], KeysOf(d, q[i]), u)
<1> DEFINE Step(a, pk) == LevelRemove(a, pk, KeysOf(d, pk), u)
           n == Len(q)
           C == Accumulators(u)
           c == acc
           g == [i \in 1..n |-> [a \in C |-> Step(a, q[i])]]
           F(k) == [s \in SUBSET DOMAIN q |-> IF s = {} THEN c ELSE Step(k[s \ {Max(s)}], q[Max(s)])]
           V == CHOOSE k : k = F(k)
<1>1. n \in Nat /\ DOMAIN q = 1..n /\ \A i \in 1..n : q[i] \in PK
  OBVIOUS
<1>2. c \in C
  OBVIOUS
<1>3. ASSUME NEW a \in C, NEW pk \in PK PROVE Step(a, pk) \in C
  <2>1. KeysOf(d, pk) \in Seq(SK)
    BY OldFacts
  <2>2. Removal(FALSE, a, pk, KeysOf(d, pk), u) \in C
    BY <2>1, RemovalCounts
  <2> QED BY <2>2 DEF Removal
<1>4. LevelCleared(d, acc, q, u) = V[DOMAIN q]
  BY DEF LevelCleared, Step, FoldLeft, MapThenFoldSet
<1>5. ASSUME NEW f, \A i \in 1..n : f[i] = Step(f[i - 1], q[i])
      PROVE  \A i \in 1..n : f[i] = LevelRemove(f[i - 1], q[i], KeysOf(d, q[i]), u)
  BY <1>5
<1> HIDE DEF Step, n, C, c
<1>6. g \in [1..n -> [C -> C]]
  BY <1>1, <1>3
<1>7. \A i \in 1..n, a \in C : g[i][a] = Step(a, q[i])
  OBVIOUS
<1> HIDE DEF g
<1> PICK f, h : Folds(f, h, n, C, c, g)
  BY <1>1, <1>2, <1>6, FoldSteps
<1>8. /\ f \in [0..n -> C] /\ f[0] = c /\ \A i \in 1..n : f[i] = g[i][f[i - 1]]
      /\ h \in [SUBSET (1..n) -> C]
      /\ \A s \in SUBSET (1..n) : h[s] = IF s = {} THEN c ELSE g[Max(s)][h[s \ {Max(s)}]]
      /\ h[1..n] = f[n]
  BY DEF Folds
<1>9. \A s \in SUBSET (1..n) : s # {} => Max(s) \in 1..n /\ s \ {Max(s)} \in SUBSET (1..n)
  BY <1>1, GreatestPosition
<1>10. \A s \in SUBSET (1..n) : h[s] = IF s = {} THEN c ELSE Step(h[s \ {Max(s)}], q[Max(s)])
  <2>1. \A s \in SUBSET (1..n) : s # {} => h[s \ {Max(s)}] \in C
    BY <1>8, <1>9
  <2> QED BY <1>7, <1>8, <1>9, <2>1
<1>11. h = F(h)
  <2>1. \A s \in SUBSET DOMAIN q : h[s] = F(h)[s]
    BY <1>1, <1>10
  <2>2. h = [s \in SUBSET DOMAIN q |-> h[s]]
    BY <1>1, <1>8
  <2> QED BY <2>1, <2>2
<1>12. V = F(V)
  BY <1>11
<1> HIDE DEF V
<1>13. V[1..n] = f[n]
  <2>1. \A s \in SUBSET DOMAIN q : V[s] = F(V)[s]
    BY <1>12
  <2>2. \A s \in SUBSET (1..n) : V[s] = IF s = {} THEN c ELSE Step(V[s \ {Max(s)}], q[Max(s)])
    BY <1>1, <2>1
  <2>3. V[{}] = h[{}]
    BY <1>10, <2>2
  <2>4. \A s \in SUBSET (1..n) : s # {} /\ V[s \ {Max(s)}] = h[s \ {Max(s)}] => V[s] = h[s]
    BY <1>10, <2>2
  <2> HIDE DEF F
  <2>5. V[1..n] = h[1..n]
    BY <1>1, <2>3, <2>4, FoldIsUnique
  <2> QED BY <1>8, <2>5
<1>14. \A i \in 1..n : f[i] = Step(f[i - 1], q[i])
  <2>1. \A i \in 1..n : f[i - 1] \in C
    <3>1. \A i \in 1..n : i - 1 \in 0..n
      BY <1>1
    <3> QED BY <1>8, <3>1
  <2> QED BY <1>7, <1>8, <2>1
<1>15. \A i \in 1..n : f[i] = LevelRemove(f[i - 1], q[i], KeysOf(d, q[i]), u)
  BY <1>5, <1>14
<1>16. f[n] = LevelCleared(d, acc, q, u)
  BY <1>1, <1>4, <1>13
<1> QED BY <1>8, <1>15, <1>16 DEF n, C, c

\* The puts of an application in memory.
LEMMA MemoryPuttingSteps ==
    ASSUME NEW u \in BOOLEAN, NEW m \in BOOLEAN, NEW t \in BOOLEAN, NEW acc \in Accumulators(u),
           NEW d \in Stores, NEW new \in Stores, NEW q \in Seq(DOMAIN new)
    PROVE  \E f \in [0..Len(q) -> Accumulators(u)] :
              /\ f[0] = acc /\ f[Len(q)] = MemoryReplaced(d, t, new, acc, q, u, m)
              /\ \A i \in 1..Len(q) : f[i] = MemoryPut(f[i - 1], q[i], OldKeys(d, t, q[i]), new[q[i]], u, m)
<1> DEFINE Step(a, pk) == MemoryPut(a, pk, OldKeys(d, t, pk), new[pk], u, m)
           n == Len(q)
           C == Accumulators(u)
           c == acc
           g == [i \in 1..n |-> [a \in C |-> Step(a, q[i])]]
           F(k) == [s \in SUBSET DOMAIN q |-> IF s = {} THEN c ELSE Step(k[s \ {Max(s)}], q[Max(s)])]
           V == CHOOSE k : k = F(k)
<1>1. n \in Nat /\ DOMAIN q = 1..n /\ \A i \in 1..n : q[i] \in DOMAIN new
  OBVIOUS
<1>2. c \in C
  OBVIOUS
<1>3. ASSUME NEW a \in C, NEW pk \in DOMAIN new PROVE Step(a, pk) \in C
  <2>1. pk \in PK /\ new[pk] \in Seq(SK)
    BY StoreFacts
  <2>2. OldKeys(d, t, pk) \in Seq(SK)
    BY <2>1, OldFacts
  <2>3. Replacement(TRUE, a, pk, OldKeys(d, t, pk), new[pk], u, m) \in C
    BY <2>1, <2>2, ReplacementCounts
  <2> QED BY <2>3 DEF Replacement
<1>4. MemoryReplaced(d, t, new, acc, q, u, m) = V[DOMAIN q]
  BY DEF MemoryReplaced, Step, FoldLeft, MapThenFoldSet
<1>5. ASSUME NEW f, \A i \in 1..n : f[i] = Step(f[i - 1], q[i])
      PROVE  \A i \in 1..n : f[i] = MemoryPut(f[i - 1], q[i], OldKeys(d, t, q[i]), new[q[i]], u, m)
  BY <1>5
<1> HIDE DEF Step, n, C, c
<1>6. g \in [1..n -> [C -> C]]
  BY <1>1, <1>3
<1>7. \A i \in 1..n, a \in C : g[i][a] = Step(a, q[i])
  OBVIOUS
<1> HIDE DEF g
<1> PICK f, h : Folds(f, h, n, C, c, g)
  BY <1>1, <1>2, <1>6, FoldSteps
<1>8. /\ f \in [0..n -> C] /\ f[0] = c /\ \A i \in 1..n : f[i] = g[i][f[i - 1]]
      /\ h \in [SUBSET (1..n) -> C]
      /\ \A s \in SUBSET (1..n) : h[s] = IF s = {} THEN c ELSE g[Max(s)][h[s \ {Max(s)}]]
      /\ h[1..n] = f[n]
  BY DEF Folds
<1>9. \A s \in SUBSET (1..n) : s # {} => Max(s) \in 1..n /\ s \ {Max(s)} \in SUBSET (1..n)
  BY <1>1, GreatestPosition
<1>10. \A s \in SUBSET (1..n) : h[s] = IF s = {} THEN c ELSE Step(h[s \ {Max(s)}], q[Max(s)])
  <2>1. \A s \in SUBSET (1..n) : s # {} => h[s \ {Max(s)}] \in C
    BY <1>8, <1>9
  <2> QED BY <1>7, <1>8, <1>9, <2>1
<1>11. h = F(h)
  <2>1. \A s \in SUBSET DOMAIN q : h[s] = F(h)[s]
    BY <1>1, <1>10
  <2>2. h = [s \in SUBSET DOMAIN q |-> h[s]]
    BY <1>1, <1>8
  <2> QED BY <2>1, <2>2
<1>12. V = F(V)
  BY <1>11
<1> HIDE DEF V
<1>13. V[1..n] = f[n]
  <2>1. \A s \in SUBSET DOMAIN q : V[s] = F(V)[s]
    BY <1>12
  <2>2. \A s \in SUBSET (1..n) : V[s] = IF s = {} THEN c ELSE Step(V[s \ {Max(s)}], q[Max(s)])
    BY <1>1, <2>1
  <2>3. V[{}] = h[{}]
    BY <1>10, <2>2
  <2>4. \A s \in SUBSET (1..n) : s # {} /\ V[s \ {Max(s)}] = h[s \ {Max(s)}] => V[s] = h[s]
    BY <1>10, <2>2
  <2> HIDE DEF F
  <2>5. V[1..n] = h[1..n]
    BY <1>1, <2>3, <2>4, FoldIsUnique
  <2> QED BY <1>8, <2>5
<1>14. \A i \in 1..n : f[i] = Step(f[i - 1], q[i])
  <2>1. \A i \in 1..n : f[i - 1] \in C
    <3>1. \A i \in 1..n : i - 1 \in 0..n
      BY <1>1
    <3> QED BY <1>8, <3>1
  <2> QED BY <1>7, <1>8, <2>1
<1>15. \A i \in 1..n : f[i] = MemoryPut(f[i - 1], q[i], OldKeys(d, t, q[i]), new[q[i]], u, m)
  BY <1>5, <1>14
<1>16. f[n] = MemoryReplaced(d, t, new, acc, q, u, m)
  BY <1>1, <1>4, <1>13
<1> QED BY <1>8, <1>15, <1>16 DEF n, C, c

\* The puts of an application in LevelDB.
LEMMA LevelPuttingSteps ==
    ASSUME NEW u \in BOOLEAN, NEW m \in BOOLEAN, NEW acc \in Accumulators(u),
           NEW d \in Stores, NEW new \in Stores, NEW q \in Seq(DOMAIN new)
    PROVE  \E f \in [0..Len(q) -> Accumulators(u)] :
              /\ f[0] = acc /\ f[Len(q)] = LevelReplaced(d, new, acc, q, u, m)
              /\ \A i \in 1..Len(q) : f[i] = LevelPut(f[i - 1], q[i], KeysOf(d, q[i]), new[q[i]], u, m)
<1> DEFINE Step(a, pk) == LevelPut(a, pk, KeysOf(d, pk), new[pk], u, m)
           n == Len(q)
           C == Accumulators(u)
           c == acc
           g == [i \in 1..n |-> [a \in C |-> Step(a, q[i])]]
           F(k) == [s \in SUBSET DOMAIN q |-> IF s = {} THEN c ELSE Step(k[s \ {Max(s)}], q[Max(s)])]
           V == CHOOSE k : k = F(k)
<1>1. n \in Nat /\ DOMAIN q = 1..n /\ \A i \in 1..n : q[i] \in DOMAIN new
  OBVIOUS
<1>2. c \in C
  OBVIOUS
<1>3. ASSUME NEW a \in C, NEW pk \in DOMAIN new PROVE Step(a, pk) \in C
  <2>1. pk \in PK /\ new[pk] \in Seq(SK)
    BY StoreFacts
  <2>2. KeysOf(d, pk) \in Seq(SK)
    BY <2>1, OldFacts
  <2>3. Replacement(FALSE, a, pk, KeysOf(d, pk), new[pk], u, m) \in C
    BY <2>1, <2>2, ReplacementCounts
  <2> QED BY <2>3 DEF Replacement
<1>4. LevelReplaced(d, new, acc, q, u, m) = V[DOMAIN q]
  BY DEF LevelReplaced, Step, FoldLeft, MapThenFoldSet
<1>5. ASSUME NEW f, \A i \in 1..n : f[i] = Step(f[i - 1], q[i])
      PROVE  \A i \in 1..n : f[i] = LevelPut(f[i - 1], q[i], KeysOf(d, q[i]), new[q[i]], u, m)
  BY <1>5
<1> HIDE DEF Step, n, C, c
<1>6. g \in [1..n -> [C -> C]]
  BY <1>1, <1>3
<1>7. \A i \in 1..n, a \in C : g[i][a] = Step(a, q[i])
  OBVIOUS
<1> HIDE DEF g
<1> PICK f, h : Folds(f, h, n, C, c, g)
  BY <1>1, <1>2, <1>6, FoldSteps
<1>8. /\ f \in [0..n -> C] /\ f[0] = c /\ \A i \in 1..n : f[i] = g[i][f[i - 1]]
      /\ h \in [SUBSET (1..n) -> C]
      /\ \A s \in SUBSET (1..n) : h[s] = IF s = {} THEN c ELSE g[Max(s)][h[s \ {Max(s)}]]
      /\ h[1..n] = f[n]
  BY DEF Folds
<1>9. \A s \in SUBSET (1..n) : s # {} => Max(s) \in 1..n /\ s \ {Max(s)} \in SUBSET (1..n)
  BY <1>1, GreatestPosition
<1>10. \A s \in SUBSET (1..n) : h[s] = IF s = {} THEN c ELSE Step(h[s \ {Max(s)}], q[Max(s)])
  <2>1. \A s \in SUBSET (1..n) : s # {} => h[s \ {Max(s)}] \in C
    BY <1>8, <1>9
  <2> QED BY <1>7, <1>8, <1>9, <2>1
<1>11. h = F(h)
  <2>1. \A s \in SUBSET DOMAIN q : h[s] = F(h)[s]
    BY <1>1, <1>10
  <2>2. h = [s \in SUBSET DOMAIN q |-> h[s]]
    BY <1>1, <1>8
  <2> QED BY <2>1, <2>2
<1>12. V = F(V)
  BY <1>11
<1> HIDE DEF V
<1>13. V[1..n] = f[n]
  <2>1. \A s \in SUBSET DOMAIN q : V[s] = F(V)[s]
    BY <1>12
  <2>2. \A s \in SUBSET (1..n) : V[s] = IF s = {} THEN c ELSE Step(V[s \ {Max(s)}], q[Max(s)])
    BY <1>1, <2>1
  <2>3. V[{}] = h[{}]
    BY <1>10, <2>2
  <2>4. \A s \in SUBSET (1..n) : s # {} /\ V[s \ {Max(s)}] = h[s \ {Max(s)}] => V[s] = h[s]
    BY <1>10, <2>2
  <2> HIDE DEF F
  <2>5. V[1..n] = h[1..n]
    BY <1>1, <2>3, <2>4, FoldIsUnique
  <2> QED BY <1>8, <2>5
<1>14. \A i \in 1..n : f[i] = Step(f[i - 1], q[i])
  <2>1. \A i \in 1..n : f[i - 1] \in C
    <3>1. \A i \in 1..n : i - 1 \in 0..n
      BY <1>1
    <3> QED BY <1>8, <3>1
  <2> QED BY <1>7, <1>8, <2>1
<1>15. \A i \in 1..n : f[i] = LevelPut(f[i - 1], q[i], KeysOf(d, q[i]), new[q[i]], u, m)
  BY <1>5, <1>14
<1>16. f[n] = LevelReplaced(d, new, acc, q, u, m)
  BY <1>1, <1>4, <1>13
<1> QED BY <1>8, <1>15, <1>16 DEF n, C, c

\* The states of the index in a loop of removals, and in one of puts.
Removes(mem, q, old, u, f) ==
    /\ f \in [0..Len(q) -> Accumulators(u)]
    /\ \A i \in 1..Len(q) : f[i] = Removal(mem, f[i - 1], q[i], old[q[i]], u)
Replaces(mem, q, old, new, u, m, f) ==
    /\ f \in [0..Len(q) -> Accumulators(u)]
    /\ \A i \in 1..Len(q) : f[i] = Replacement(mem, f[i - 1], q[i], old[q[i]], new[q[i]], u, m)

\* The removals take the objects S out of the list of a key, if it was right for them before.
RemovalsEffect(a, b, S, old) ==
    \A sk \in SK :
        /\ a.ix[sk] = <<>> => b.ix[sk] = <<>>
        /\ (\A p \in S : Count(a.ix[sk], p) = Count(old[p], sk)) =>
             \A x \in PK : Count(b.ix[sk], x) = IF x \in S THEN 0 ELSE Count(a.ix[sk], x)

LEMMA RemovalsCounts ==
    ASSUME NEW mem \in BOOLEAN, NEW u \in BOOLEAN, NEW q \in Seq(PK), IsInjective(q), NEW old \in [PK -> Seq(SK)],
           NEW f, Removes(mem, q, old, u, f)
    PROVE  f[Len(q)].ok = f[0].ok /\ RemovalsEffect(f[0], f[Len(q)], ToSet(q), old)
<1> DEFINE n == Len(q)
           Gone(i) == {q[j] : j \in 1..i}
<1>1. n \in Nat /\ \A i \in 1..n : q[i] \in PK /\ i - 1 \in 0..n /\ i \in 0..n
  OBVIOUS
<1>2. /\ Gone(0) = {} /\ Gone(n) = ToSet(q)
      /\ \A i \in 1..n : Gone(i) = Gone(i - 1) \cup {q[i]} /\ q[i] \notin Gone(i - 1) /\ q[i] \in ToSet(q)
  <2>1. Gone(0) = {} /\ Gone(n) = ToSet(q)
    BY DEF ToSet
  <2>2. \A i \in 1..n : 1..i = (1..(i - 1)) \cup {i} /\ i \notin 1..(i - 1) /\ 1..(i - 1) \subseteq 1..n
    BY <1>1
  <2>3. \A i \in 1..n : Gone(i) = Gone(i - 1) \cup {q[i]}
    BY <2>2
  <2>4. \A i \in 1..n : q[i] \notin Gone(i - 1)
    BY <1>1, <2>2 DEF IsInjective
  <2> QED BY <2>1, <2>3, <2>4 DEF ToSet
<1>6. /\ f \in [0..n -> Accumulators(u)]
      /\ \A i \in 1..n : f[i] = Removal(mem, f[i - 1], q[i], old[q[i]], u)
  BY DEF Removes
<1> HIDE DEF n, Gone
<1>3. ASSUME NEW i \in 1..n
      PROVE  /\ f[i].ok = f[i - 1].ok
             /\ \A sk \in SK :
                  /\ f[i - 1].ix[sk] = <<>> => f[i].ix[sk] = <<>>
                  /\ Count(f[i - 1].ix[sk], q[i]) = Count(old[q[i]], sk) =>
                       \A x \in PK : Count(f[i].ix[sk], x) = IF x = q[i] THEN 0 ELSE Count(f[i - 1].ix[sk], x)
  <2> DEFINE a == f[i - 1]
             p == q[i]
             o == old[q[i]]
  <2>1. a \in Accumulators(u) /\ p \in PK /\ o \in Seq(SK)
    BY <1>1, <1>6
  <2>2. f[i] = Removal(mem, a, p, o, u)
    BY <1>6
  <2> HIDE DEF a, p, o
  <2>3. /\ f[i].ok = a.ok
        /\ \A sk \in SK :
             /\ a.ix[sk] = <<>> => f[i].ix[sk] = <<>>
             /\ Count(a.ix[sk], p) = Count(o, sk) =>
                  \A x \in PK : Count(f[i].ix[sk], x) = IF x = p THEN 0 ELSE Count(a.ix[sk], x)
    BY <2>1, <2>2, RemovalCounts
  <2> QED BY <2>3 DEF a, p, o
<1>4. ASSUME NEW sk \in SK
      PROVE  /\ f[n].ok = f[0].ok
             /\ f[0].ix[sk] = <<>> => f[n].ix[sk] = <<>>
             /\ (\A p \in ToSet(q) : Count(f[0].ix[sk], p) = Count(old[p], sk)) =>
                  \A x \in PK : Count(f[n].ix[sk], x) = IF x \in ToSet(q) THEN 0 ELSE Count(f[0].ix[sk], x)
  <2> DEFINE Right == \A p \in ToSet(q) : Count(f[0].ix[sk], p) = Count(old[p], sk)
             P == {i \in 0..n :
                     /\ f[0].ix[sk] = <<>> => f[i].ix[sk] = <<>>
                     /\ Right => \A x \in PK : Count(f[i].ix[sk], x) =
                                                 IF x \in Gone(i) THEN 0 ELSE Count(f[0].ix[sk], x)}
  <2>1. 0 \in P
    BY <1>1, <1>2
  <2>2. ASSUME NEW i \in 1..n, i - 1 \in P PROVE i \in P
    <3>1. f[0].ix[sk] = <<>> => f[i].ix[sk] = <<>>
      BY <1>3, <2>2
    <3>2. ASSUME Right
          PROVE  \A x \in PK : Count(f[i].ix[sk], x) = IF x \in Gone(i) THEN 0 ELSE Count(f[0].ix[sk], x)
      <4>1. \A x \in PK : Count(f[i - 1].ix[sk], x) = IF x \in Gone(i - 1) THEN 0 ELSE Count(f[0].ix[sk], x)
        BY <2>2, <3>2
      <4>2. Count(f[i - 1].ix[sk], q[i]) = Count(old[q[i]], sk)
        BY <1>1, <1>2, <3>2, <4>1
      <4>3. \A x \in PK : Count(f[i].ix[sk], x) = IF x = q[i] THEN 0 ELSE Count(f[i - 1].ix[sk], x)
        BY <1>3, <4>2
      <4> HIDE DEF Right
      <4> QED BY <1>2, <4>1, <4>3
    <3> HIDE DEF Right
    <3> QED BY <1>1, <3>1, <3>2
  <2>3. n \in P
    <3>1. 0..n \subseteq P
      <4> HIDE DEF P
      <4> QED BY <1>1, <2>1, <2>2, StepInduction
    <3> HIDE DEF P
    <3> QED BY <1>1, <3>1
  <2>4. f[n].ok = f[0].ok
    <3> DEFINE Q == {i \in 0..n : f[i].ok = f[0].ok}
    <3>1. 0 \in Q /\ \A i \in 1..n : i - 1 \in Q => i \in Q
      BY <1>1, <1>3
    <3>2. 0..n \subseteq Q
      <4> HIDE DEF Q
      <4> QED BY <1>1, <3>1, StepInduction
    <3> QED BY <1>1, <3>2
  <2> QED BY <1>2, <2>3, <2>4
<1>5. f[n].ok = f[0].ok
  <2> DEFINE Q == {i \in 0..n : f[i].ok = f[0].ok}
  <2>1. 0 \in Q /\ \A i \in 1..n : i - 1 \in Q => i \in Q
    BY <1>1, <1>3
  <2>2. 0..n \subseteq Q
    <3> HIDE DEF Q
    <3> QED BY <1>1, <2>1, StepInduction
  <2> QED BY <1>1, <2>2
<1> QED BY <1>4, <1>5 DEF n, RemovalsEffect

\* The puts make the list of a key right for the objects S, if it was right for them before and the
\* backend can remove what it inserted; it stays empty if none of them goes into it.
PutsEffect(mem, a, b, S, old, new, m) ==
    \A sk \in SK :
        /\ a.ix[sk] = <<>> /\ (\A p \in S : Count(new[p], sk) = 0) => b.ix[sk] = <<>>
        /\ (\A p \in S : /\ Count(a.ix[sk], p) = Often(mem, Count(old[p], sk))
                         /\ mem \/ Count(old[p], sk) <= 1 \/ SameKeys(old[p], new[p], m)) =>
             \A x \in PK : Count(b.ix[sk], x) = IF x \in S THEN Often(mem, Count(new[x], sk))
                                                ELSE Count(a.ix[sk], x)

LEMMA ReplacementsCounts ==
    ASSUME NEW mem \in BOOLEAN, NEW u \in BOOLEAN, NEW m \in BOOLEAN, NEW new \in Stores,
           NEW q \in Seq(DOMAIN new), IsInjective(q), NEW old \in [PK -> Seq(SK)],
           NEW f, Replaces(mem, q, old, new, u, m, f), f[Len(q)].ok
    PROVE  f[0].ok /\ PutsEffect(mem, f[0], f[Len(q)], ToSet(q), old, new, m)
<1> DEFINE n == Len(q)
           Done(i) == {q[j] : j \in 1..i}
<1>1. n \in Nat /\ \A i \in 1..n : q[i] \in PK /\ q[i] \in DOMAIN new /\ i - 1 \in 0..n /\ i \in 0..n
  BY StoreFacts
<1>2. /\ Done(0) = {} /\ Done(n) = ToSet(q)
      /\ \A i \in 1..n : Done(i) = Done(i - 1) \cup {q[i]} /\ q[i] \notin Done(i - 1) /\ q[i] \in ToSet(q)
  <2>1. Done(0) = {} /\ Done(n) = ToSet(q)
    BY DEF ToSet
  <2>2. \A i \in 1..n : 1..i = (1..(i - 1)) \cup {i} /\ i \notin 1..(i - 1) /\ 1..(i - 1) \subseteq 1..n
    BY <1>1
  <2>3. \A i \in 1..n : Done(i) = Done(i - 1) \cup {q[i]}
    BY <2>2
  <2>4. \A i \in 1..n : q[i] \notin Done(i - 1)
    BY <1>1, <2>2 DEF IsInjective
  <2> QED BY <2>1, <2>3, <2>4 DEF ToSet
<1>7. /\ f \in [0..n -> Accumulators(u)]
      /\ \A i \in 1..n : f[i] = Replacement(mem, f[i - 1], q[i], old[q[i]], new[q[i]], u, m)
  BY DEF Replaces
<1> HIDE DEF n, Done
<1>3. ASSUME NEW i \in 1..n, f[i].ok
      PROVE  /\ f[i - 1].ok
             /\ \A sk \in SK :
                  /\ f[i - 1].ix[sk] = <<>> /\ Count(new[q[i]], sk) = 0 => f[i].ix[sk] = <<>>
                  /\ /\ Count(f[i - 1].ix[sk], q[i]) = Often(mem, Count(old[q[i]], sk))
                     /\ mem \/ Count(old[q[i]], sk) <= 1 \/ SameKeys(old[q[i]], new[q[i]], m)
                     => \A x \in PK : Count(f[i].ix[sk], x) =
                                        IF x = q[i] THEN Often(mem, Count(new[q[i]], sk))
                                        ELSE Count(f[i - 1].ix[sk], x)
  <2> DEFINE a == f[i - 1]
             p == q[i]
             o == old[q[i]]
             s == new[q[i]]
             b == f[i]
  <2>1. a \in Accumulators(u) /\ p \in PK /\ o \in Seq(SK)
    BY <1>1, <1>7
  <2>2. b = Replacement(mem, a, p, o, s, u, m) /\ b.ok
    BY <1>3, <1>7
  <2>3. s \in Seq(SK)
    BY <1>1, StoreFacts
  <2> HIDE DEF a, p, o, s, b
  <2>4. a.ok /\ PutEffect(mem, a, b, p, o, s, m)
    BY <2>1, <2>2, <2>3, ReplacementCounts
  <2> QED BY <2>4 DEF a, p, o, s, b, PutEffect
<1> DEFINE Q == {i \in 0..n : f[n - i].ok}
<1>4. ASSUME f[n].ok PROVE \A i \in 0..n : f[i].ok
  <2>1. 0 \in Q
    BY <1>1, <1>4
  <2>2. \A i \in 1..n : i - 1 \in Q => i \in Q
    <3> TAKE i \in 1..n
    <3>1. n - (i - 1) \in 1..n /\ (n - (i - 1)) - 1 = n - i
      BY <1>1
    <3> QED BY <1>1, <1>3, <3>1
  <2>3. 0..n \subseteq Q
    <3> HIDE DEF Q
    <3> QED BY <1>1, <2>1, <2>2, StepInduction
  <2>4. \A i \in 0..n : n - i \in 0..n /\ n - (n - i) = i
    BY <1>1
  <2> QED BY <2>3, <2>4
<1>5. ASSUME f[n].ok, NEW sk \in SK
      PROVE  /\ f[0].ix[sk] = <<>> /\ (\A p \in ToSet(q) : Count(new[p], sk) = 0) => f[n].ix[sk] = <<>>
             /\ (\A p \in ToSet(q) : /\ Count(f[0].ix[sk], p) = Often(mem, Count(old[p], sk))
                                     /\ mem \/ Count(old[p], sk) <= 1 \/ SameKeys(old[p], new[p], m)) =>
                  \A x \in PK : Count(f[n].ix[sk], x) =
                                  IF x \in ToSet(q) THEN Often(mem, Count(new[x], sk)) ELSE Count(f[0].ix[sk], x)
  <2> DEFINE Empty == f[0].ix[sk] = <<>> /\ \A p \in ToSet(q) : Count(new[p], sk) = 0
             Right == \A p \in ToSet(q) : /\ Count(f[0].ix[sk], p) = Often(mem, Count(old[p], sk))
                                          /\ mem \/ Count(old[p], sk) <= 1 \/ SameKeys(old[p], new[p], m)
             P == {i \in 0..n :
                     /\ Empty => f[i].ix[sk] = <<>>
                     /\ Right => \A x \in PK : Count(f[i].ix[sk], x) =
                                                 IF x \in Done(i) THEN Often(mem, Count(new[x], sk))
                                                 ELSE Count(f[0].ix[sk], x)}
  <2>1. 0 \in P
    BY <1>1, <1>2
  <2>2. ASSUME NEW i \in 1..n, i - 1 \in P PROVE i \in P
    <3>1. f[i].ok /\ q[i] \in ToSet(q)
      BY <1>1, <1>2, <1>4, <1>5
    <3>2. Empty => f[i].ix[sk] = <<>>
      BY <1>3, <2>2, <3>1
    <3>3. ASSUME Right
          PROVE  \A x \in PK : Count(f[i].ix[sk], x) =
                                 IF x \in Done(i) THEN Often(mem, Count(new[x], sk)) ELSE Count(f[0].ix[sk], x)
      <4>1. \A x \in PK : Count(f[i - 1].ix[sk], x) =
                            IF x \in Done(i - 1) THEN Often(mem, Count(new[x], sk)) ELSE Count(f[0].ix[sk], x)
        BY <2>2, <3>3
      <4>2. /\ Count(f[i - 1].ix[sk], q[i]) = Often(mem, Count(old[q[i]], sk))
            /\ mem \/ Count(old[q[i]], sk) <= 1 \/ SameKeys(old[q[i]], new[q[i]], m)
        BY <1>1, <1>2, <3>1, <3>3, <4>1
      <4>3. \A x \in PK : Count(f[i].ix[sk], x) =
                            IF x = q[i] THEN Often(mem, Count(new[q[i]], sk)) ELSE Count(f[i - 1].ix[sk], x)
        BY <1>3, <3>1, <4>2
      <4> HIDE DEF Right
      <4> TAKE x \in PK
      <4>4. CASE x = q[i]
        BY <1>2, <4>3, <4>4
      <4>5. CASE x # q[i]
        <5>1. x \in Done(i) <=> x \in Done(i - 1)
          BY <1>2, <4>5
        <5> QED BY <4>1, <4>3, <4>5, <5>1
      <4> QED BY <4>4, <4>5
    <3> HIDE DEF Right, Empty
    <3> QED BY <1>1, <3>2, <3>3
  <2>3. n \in P
    <3>1. 0..n \subseteq P
      <4> HIDE DEF P
      <4> QED BY <1>1, <2>1, <2>2, StepInduction
    <3> HIDE DEF P
    <3> QED BY <1>1, <3>1
  <2> QED BY <1>2, <2>3
<1>6. f[n].ok => f[0].ok
  BY <1>1, <1>4
<1> QED BY <1>5, <1>6 DEF n, PutsEffect

-----------------------------------------------------------------------------
(* What LMDB records of a transaction. *)

KeyPairs == SK \X PK
Changes == [removed : UNION {[S -> PK] : S \in SUBSET SK}, modified : Seq(KeyPairs)]

LEMMA ChangesFacts ==
    ASSUME NEW e \in Changes
    PROVE  /\ DOMAIN e.removed \in SUBSET SK /\ \A sk \in DOMAIN e.removed : e.removed[sk] \in PK
           /\ e.modified \in Seq(KeyPairs) /\ e = [removed |-> e.removed, modified |-> e.modified]
<1>1. e.removed \in UNION {[S -> PK] : S \in SUBSET SK} /\ e.modified \in Seq(KeyPairs)
      /\ e = [removed |-> e.removed, modified |-> e.modified]
  BY DEF Changes
<1>2. PICK S \in SUBSET SK : e.removed \in [S -> PK]
  BY <1>1
<1> QED BY <1>1, <1>2

LEMMA NoChangesFacts ==
    NoChanges \in Changes /\ DOMAIN NoChanges.removed = {} /\ NoChanges.modified = <<>>
<1> DEFINE r == [sk \in {} |-> 0]
<1>1. r \in [{} -> PK] /\ DOMAIN r = {}
  OBVIOUS
<1>2. r \in UNION {[S -> PK] : S \in SUBSET SK}
  BY <1>1
<1> HIDE DEF r
<1>3. <<>> \in Seq(KeyPairs)
  OBVIOUS
<1>4. NoChanges = [removed |-> r, modified |-> <<>>]
  BY DEF NoChanges, r
<1> QED BY <1>1, <1>2, <1>3, <1>4 DEF Changes

LEMMA RecordPutFacts ==
    ASSUME NEW e \in Changes, NEW sk \in SK, NEW pk \in PK
    PROVE  /\ RecordPut(e, sk, pk) \in Changes /\ RecordPut(e, sk, pk).removed = e.removed
           /\ ToSet(RecordPut(e, sk, pk).modified) = ToSet(e.modified) \cup {<<sk, pk>>}
<1> DEFINE s == e.modified
           pair == <<sk, pk>>
           R == UNION {[S -> PK] : S \in SUBSET SK}
           Q == KeyPairs
<1>1. e.removed \in R /\ s \in Seq(Q) /\ e = [removed |-> e.removed, modified |-> s]
  BY DEF Changes
<1>6. pair \in Q
  BY DEF KeyPairs
<1> HIDE DEF Q, R
<1>2. RecordPut(e, sk, pk) = [removed |-> e.removed, modified |-> Append(s, pair)]
  <2>1. RecordPut(e, sk, pk) = [e EXCEPT !.modified = Append(s, pair)]
    BY DEF RecordPut
  <2> HIDE DEF pair
  <2> QED BY <1>1, <2>1
<1> HIDE DEF s, pair
<1>3. Append(s, pair) \in Seq(Q)
  BY <1>1, <1>6
<1>4. ToSet(Append(s, pair)) = ToSet(s) \cup {pair}
  <2>1. /\ DOMAIN Append(s, pair) = (1..Len(s)) \cup {Len(s) + 1} /\ DOMAIN s = 1..Len(s)
        /\ Append(s, pair)[Len(s) + 1] = pair /\ \A i \in 1..Len(s) : Append(s, pair)[i] = s[i]
    BY <1>1
  <2> QED BY <2>1 DEF ToSet
<1>5. RecordPut(e, sk, pk) \in [removed : R, modified : Seq(Q)]
  BY <1>1, <1>2, <1>3
<1> QED BY <1>2, <1>4, <1>5 DEF Changes, s, pair, Q, R

LEMMA RecordRemoveFacts ==
    ASSUME NEW e \in Changes, NEW sk \in SK, NEW pk \in PK
    PROVE  /\ RecordRemove(e, sk, pk) \in Changes /\ RecordRemove(e, sk, pk).modified = e.modified
           /\ DOMAIN RecordRemove(e, sk, pk).removed = DOMAIN e.removed \cup {sk}
           /\ \A s \in DOMAIN e.removed \cup {sk} :
                RecordRemove(e, sk, pk).removed[s] = IF s = sk THEN pk ELSE e.removed[s]
<1> DEFINE D == DOMAIN e.removed \cup {sk}
           r == [s \in D |-> IF s = sk THEN pk ELSE e.removed[s]]
           Q == Seq(KeyPairs)
           R == UNION {[S -> PK] : S \in SUBSET SK}
<1>1. /\ DOMAIN e.removed \in SUBSET SK /\ \A s \in DOMAIN e.removed : e.removed[s] \in PK
      /\ e.modified \in Q /\ e = [removed |-> e.removed, modified |-> e.modified]
  BY ChangesFacts
<1>2. r \in [D -> PK] /\ D \in SUBSET SK
  BY <1>1
<1>3. RecordRemove(e, sk, pk) = [removed |-> r, modified |-> e.modified]
  BY <1>1 DEF RecordRemove
<1>4. DOMAIN r = D /\ \A s \in D : r[s] = IF s = sk THEN pk ELSE e.removed[s]
  OBVIOUS
<1> HIDE DEF r, D, Q
<1>5. r \in R
  BY <1>2
<1> HIDE DEF R
<1> DEFINE b == RecordRemove(e, sk, pk)
<1>6. b \in [removed : R, modified : Q] /\ b.removed = r /\ b.modified = e.modified
  BY <1>1, <1>3, <1>5
<1> HIDE DEF b
<1>7. b \in Changes
  BY <1>6 DEF Changes, Q, R
<1>8. DOMAIN b.removed = D /\ \A s \in D : b.removed[s] = IF s = sk THEN pk ELSE e.removed[s]
  BY <1>4, <1>6
<1> QED BY <1>6, <1>7, <1>8 DEF b, D

\* What is recorded for an insertion, key by key.
LEMMA LmdbInsertSteps ==
    ASSUME NEW acc \in Changes, NEW pk \in PK, NEW q \in Seq(SK)
    PROVE  \E f \in [0..Len(q) -> Changes] :
              /\ f[0] = acc /\ f[Len(q)] = LmdbInsert(acc, pk, q)
              /\ \A i \in 1..Len(q) : f[i] = RecordPut(f[i - 1], q[i], pk)
<1> DEFINE Step(a, sk) == RecordPut(a, sk, pk)
           n == Len(q)
           C == Changes
           c == acc
           g == [i \in 1..n |-> [a \in C |-> Step(a, q[i])]]
           F(k) == [s \in SUBSET DOMAIN q |-> IF s = {} THEN c ELSE Step(k[s \ {Max(s)}], q[Max(s)])]
           V == CHOOSE k : k = F(k)
<1>1. n \in Nat /\ DOMAIN q = 1..n /\ \A i \in 1..n : q[i] \in SK
  OBVIOUS
<1>2. c \in C
  OBVIOUS
<1>3. ASSUME NEW a \in C, NEW sk \in SK PROVE Step(a, sk) \in C
  BY RecordPutFacts
<1>4. LmdbInsert(acc, pk, q) = V[DOMAIN q]
  BY DEF LmdbInsert, Step, FoldLeft, MapThenFoldSet
<1>5. ASSUME NEW f, \A i \in 1..n : f[i] = Step(f[i - 1], q[i])
      PROVE  \A i \in 1..n : f[i] = RecordPut(f[i - 1], q[i], pk)
  BY <1>5
<1> HIDE DEF Step, n, C, c
<1>6. g \in [1..n -> [C -> C]]
  BY <1>1, <1>3
<1>7. \A i \in 1..n, a \in C : g[i][a] = Step(a, q[i])
  OBVIOUS
<1> HIDE DEF g
<1> PICK f, h : Folds(f, h, n, C, c, g)
  BY <1>1, <1>2, <1>6, FoldSteps
<1>8. /\ f \in [0..n -> C] /\ f[0] = c /\ \A i \in 1..n : f[i] = g[i][f[i - 1]]
      /\ h \in [SUBSET (1..n) -> C]
      /\ \A s \in SUBSET (1..n) : h[s] = IF s = {} THEN c ELSE g[Max(s)][h[s \ {Max(s)}]]
      /\ h[1..n] = f[n]
  BY DEF Folds
<1>9. \A s \in SUBSET (1..n) : s # {} => Max(s) \in 1..n /\ s \ {Max(s)} \in SUBSET (1..n)
  BY <1>1, GreatestPosition
<1>10. \A s \in SUBSET (1..n) : h[s] = IF s = {} THEN c ELSE Step(h[s \ {Max(s)}], q[Max(s)])
  <2>1. \A s \in SUBSET (1..n) : s # {} => h[s \ {Max(s)}] \in C
    BY <1>8, <1>9
  <2> QED BY <1>7, <1>8, <1>9, <2>1
<1>11. h = F(h)
  <2>1. \A s \in SUBSET DOMAIN q : h[s] = F(h)[s]
    BY <1>1, <1>10
  <2>2. h = [s \in SUBSET DOMAIN q |-> h[s]]
    BY <1>1, <1>8
  <2> QED BY <2>1, <2>2
<1>12. V = F(V)
  BY <1>11
<1> HIDE DEF V
<1>13. V[1..n] = f[n]
  <2>1. \A s \in SUBSET DOMAIN q : V[s] = F(V)[s]
    BY <1>12
  <2>2. \A s \in SUBSET (1..n) : V[s] = IF s = {} THEN c ELSE Step(V[s \ {Max(s)}], q[Max(s)])
    BY <1>1, <2>1
  <2>3. V[{}] = h[{}]
    BY <1>10, <2>2
  <2>4. \A s \in SUBSET (1..n) : s # {} /\ V[s \ {Max(s)}] = h[s \ {Max(s)}] => V[s] = h[s]
    BY <1>10, <2>2
  <2> HIDE DEF F
  <2>5. V[1..n] = h[1..n]
    BY <1>1, <2>3, <2>4, FoldIsUnique
  <2> QED BY <1>8, <2>5
<1>14. \A i \in 1..n : f[i] = Step(f[i - 1], q[i])
  <2>1. \A i \in 1..n : f[i - 1] \in C
    <3>1. \A i \in 1..n : i - 1 \in 0..n
      BY <1>1
    <3> QED BY <1>8, <3>1
  <2> QED BY <1>7, <1>8, <2>1
<1>15. \A i \in 1..n : f[i] = RecordPut(f[i - 1], q[i], pk)
  BY <1>5, <1>14
<1>16. f[n] = LmdbInsert(acc, pk, q)
  BY <1>1, <1>4, <1>13
<1> QED BY <1>8, <1>15, <1>16 DEF n, C, c

\* What is recorded for a removal, key by key.
LEMMA LmdbRemoveSteps ==
    ASSUME NEW acc \in Changes, NEW pk \in PK, NEW q \in Seq(SK)
    PROVE  \E f \in [0..Len(q) -> Changes] :
              /\ f[0] = acc /\ f[Len(q)] = LmdbRemove(acc, pk, q)
              /\ \A i \in 1..Len(q) : f[i] = RecordRemove(f[i - 1], q[i], pk)
<1> DEFINE Step(a, sk) == RecordRemove(a, sk, pk)
           n == Len(q)
           C == Changes
           c == acc
           g == [i \in 1..n |-> [a \in C |-> Step(a, q[i])]]
           F(k) == [s \in SUBSET DOMAIN q |-> IF s = {} THEN c ELSE Step(k[s \ {Max(s)}], q[Max(s)])]
           V == CHOOSE k : k = F(k)
<1>1. n \in Nat /\ DOMAIN q = 1..n /\ \A i \in 1..n : q[i] \in SK
  OBVIOUS
<1>2. c \in C
  OBVIOUS
<1>3. ASSUME NEW a \in C, NEW sk \in SK PROVE Step(a, sk) \in C
  BY RecordRemoveFacts
<1>4. LmdbRemove(acc, pk, q) = V[DOMAIN q]
  BY DEF LmdbRemove, Step, FoldLeft, MapThenFoldSet
<1>5. ASSUME NEW f, \A i \in 1..n : f[i] = Step(f[i - 1], q[i])
      PROVE  \A i \in 1..n : f[i] = RecordRemove(f[i - 1], q[i], pk)
  BY <1>5
<1> HIDE DEF Step, n, C, c
<1>6. g \in [1..n -> [C -> C]]
  BY <1>1, <1>3
<1>7. \A i \in 1..n, a \in C : g[i][a] = Step(a, q[i])
  OBVIOUS
<1> HIDE DEF g
<1> PICK f, h : Folds(f, h, n, C, c, g)
  BY <1>1, <1>2, <1>6, FoldSteps
<1>8. /\ f \in [0..n -> C] /\ f[0] = c /\ \A i \in 1..n : f[i] = g[i][f[i - 1]]
      /\ h \in [SUBSET (1..n) -> C]
      /\ \A s \in SUBSET (1..n) : h[s] = IF s = {} THEN c ELSE g[Max(s)][h[s \ {Max(s)}]]
      /\ h[1..n] = f[n]
  BY DEF Folds
<1>9. \A s \in SUBSET (1..n) : s # {} => Max(s) \in 1..n /\ s \ {Max(s)} \in SUBSET (1..n)
  BY <1>1, GreatestPosition
<1>10. \A s \in SUBSET (1..n) : h[s] = IF s = {} THEN c ELSE Step(h[s \ {Max(s)}], q[Max(s)])
  <2>1. \A s \in SUBSET (1..n) : s # {} => h[s \ {Max(s)}] \in C
    BY <1>8, <1>9
  <2> QED BY <1>7, <1>8, <1>9, <2>1
<1>11. h = F(h)
  <2>1. \A s \in SUBSET DOMAIN q : h[s] = F(h)[s]
    BY <1>1, <1>10
  <2>2. h = [s \in SUBSET DOMAIN q |-> h[s]]
    BY <1>1, <1>8
  <2> QED BY <2>1, <2>2
<1>12. V = F(V)
  BY <1>11
<1> HIDE DEF V
<1>13. V[1..n] = f[n]
  <2>1. \A s \in SUBSET DOMAIN q : V[s] = F(V)[s]
    BY <1>12
  <2>2. \A s \in SUBSET (1..n) : V[s] = IF s = {} THEN c ELSE Step(V[s \ {Max(s)}], q[Max(s)])
    BY <1>1, <2>1
  <2>3. V[{}] = h[{}]
    BY <1>10, <2>2
  <2>4. \A s \in SUBSET (1..n) : s # {} /\ V[s \ {Max(s)}] = h[s \ {Max(s)}] => V[s] = h[s]
    BY <1>10, <2>2
  <2> HIDE DEF F
  <2>5. V[1..n] = h[1..n]
    BY <1>1, <2>3, <2>4, FoldIsUnique
  <2> QED BY <1>8, <2>5
<1>14. \A i \in 1..n : f[i] = Step(f[i - 1], q[i])
  <2>1. \A i \in 1..n : f[i - 1] \in C
    <3>1. \A i \in 1..n : i - 1 \in 0..n
      BY <1>1
    <3> QED BY <1>8, <3>1
  <2> QED BY <1>7, <1>8, <2>1
<1>15. \A i \in 1..n : f[i] = RecordRemove(f[i - 1], q[i], pk)
  BY <1>5, <1>14
<1>16. f[n] = LmdbRemove(acc, pk, q)
  BY <1>1, <1>4, <1>13
<1> QED BY <1>8, <1>15, <1>16 DEF n, C, c

LEMMA LmdbInsertFacts ==
    ASSUME NEW acc \in Changes, NEW pk \in PK, NEW q \in Seq(SK)
    PROVE  LET after == LmdbInsert(acc, pk, q)
           IN  /\ after \in Changes /\ after.removed = acc.removed
               /\ ToSet(after.modified) = ToSet(acc.modified) \cup {<<sk, pk>> : sk \in ToSet(q)}
<1> DEFINE n == Len(q)
           after == LmdbInsert(acc, pk, q)
<1>0. PICK f \in [0..n -> Changes] :
       f[0] = acc /\ f[n] = after /\ \A i \in 1..n : f[i] = RecordPut(f[i - 1], q[i], pk)
  BY LmdbInsertSteps
<1>1. n \in Nat /\ DOMAIN q = 1..n /\ \A i \in 1..n : q[i] \in SK /\ i - 1 \in 0..n /\ i \in 0..n
  OBVIOUS
<1> HIDE DEF n, after
<1> DEFINE P == {i \in 0..n : /\ f[i].removed = acc.removed
                              /\ ToSet(f[i].modified) = ToSet(acc.modified) \cup {<<q[j], pk>> : j \in 1..i}}
<1>2. 0 \in P
  BY <1>0, <1>1
<1>3. ASSUME NEW i \in 1..n, i - 1 \in P PROVE i \in P
  <2> DEFINE e == f[i - 1]
             sk == q[i]
  <2>1. e \in Changes /\ sk \in SK /\ f[i] = RecordPut(e, sk, pk)
    BY <1>0, <1>1
  <2>2. f[i].removed = e.removed /\ ToSet(f[i].modified) = ToSet(e.modified) \cup {<<sk, pk>>}
    <3> HIDE DEF e, sk
    <3> QED BY <2>1, RecordPutFacts
  <2>3. e.removed = acc.removed /\ ToSet(e.modified) = ToSet(acc.modified) \cup {<<q[j], pk>> : j \in 1..(i - 1)}
    BY <1>3
  <2>4. {<<q[j], pk>> : j \in 1..i} = {<<q[j], pk>> : j \in 1..(i - 1)} \cup {<<sk, pk>>}
    <3>1. 1..i = (1..(i - 1)) \cup {i}
      BY <1>1
    <3> QED BY <3>1
  <2>5. ToSet(f[i].modified) = ToSet(acc.modified) \cup {<<q[j], pk>> : j \in 1..i}
    BY <2>2, <2>3, <2>4, Zenon
  <2> QED BY <1>1, <2>2, <2>3, <2>5
<1>4. n \in P
  <2>1. 0..n \subseteq P
    <3> HIDE DEF P
    <3> QED BY <1>1, <1>2, <1>3, StepInduction
  <2> HIDE DEF P
  <2> QED BY <1>1, <2>1
<1>5. {<<q[j], pk>> : j \in 1..n} = {<<sk, pk>> : sk \in ToSet(q)}
  BY <1>1 DEF ToSet
<1>6. after \in Changes
  BY <1>0, <1>1
<1> QED BY <1>0, <1>4, <1>5, <1>6 DEF after

LEMMA LmdbRemoveFacts ==
    ASSUME NEW acc \in Changes, NEW pk \in PK, NEW q \in Seq(SK)
    PROVE  LET after == LmdbRemove(acc, pk, q)
           IN  /\ after \in Changes /\ after.modified = acc.modified
               /\ DOMAIN after.removed = DOMAIN acc.removed \cup ToSet(q)
               /\ \A sk \in DOMAIN after.removed :
                    after.removed[sk] = IF sk \in ToSet(q) THEN pk ELSE acc.removed[sk]
<1> DEFINE n == Len(q)
           after == LmdbRemove(acc, pk, q)
           Keys(i) == {q[j] : j \in 1..i}
<1>0. PICK f \in [0..n -> Changes] :
       f[0] = acc /\ f[n] = after /\ \A i \in 1..n : f[i] = RecordRemove(f[i - 1], q[i], pk)
  BY LmdbRemoveSteps
<1>1. n \in Nat /\ DOMAIN q = 1..n /\ \A i \in 1..n : q[i] \in SK /\ i - 1 \in 0..n /\ i \in 0..n
  OBVIOUS
<1> HIDE DEF n, after
<1>2. Keys(0) = {} /\ Keys(n) = ToSet(q) /\ \A i \in 1..n : Keys(i) = Keys(i - 1) \cup {q[i]}
  <2>1. \A i \in 1..n : 1..i = (1..(i - 1)) \cup {i}
    BY <1>1
  <2> QED BY <1>1, <2>1 DEF ToSet
<1> HIDE DEF Keys
<1> DEFINE P == {i \in 0..n :
                   /\ f[i].modified = acc.modified
                   /\ DOMAIN f[i].removed = DOMAIN acc.removed \cup Keys(i)
                   /\ \A sk \in DOMAIN f[i].removed :
                        f[i].removed[sk] = IF sk \in Keys(i) THEN pk ELSE acc.removed[sk]}
<1>3. 0 \in P
  BY <1>0, <1>1, <1>2
<1>4. ASSUME NEW i \in 1..n, i - 1 \in P PROVE i \in P
  <2> DEFINE e == f[i - 1]
             key == q[i]
  <2>1. e \in Changes /\ key \in SK /\ f[i] = RecordRemove(e, key, pk)
    BY <1>0, <1>1
  <2>2. /\ f[i].modified = e.modified /\ DOMAIN f[i].removed = DOMAIN e.removed \cup {key}
        /\ \A s \in DOMAIN e.removed \cup {key} : f[i].removed[s] = IF s = key THEN pk ELSE e.removed[s]
    <3> HIDE DEF e, key
    <3> QED BY <2>1, RecordRemoveFacts
  <2>3. /\ e.modified = acc.modified /\ DOMAIN e.removed = DOMAIN acc.removed \cup Keys(i - 1)
        /\ \A sk \in DOMAIN e.removed : e.removed[sk] = IF sk \in Keys(i - 1) THEN pk ELSE acc.removed[sk]
    BY <1>4
  <2>4. Keys(i) = Keys(i - 1) \cup {key}
    BY <1>2
  <2> HIDE DEF e, key
  <2>5. DOMAIN f[i].removed = DOMAIN acc.removed \cup Keys(i)
    BY <2>2, <2>3, <2>4, Zenon
  <2>6. ASSUME NEW sk \in DOMAIN f[i].removed
        PROVE  f[i].removed[sk] = IF sk \in Keys(i) THEN pk ELSE acc.removed[sk]
    <3>1. CASE sk = key
      BY <2>2, <2>4, <3>1
    <3>2. CASE sk # key
      <4>1. sk \in DOMAIN e.removed /\ (sk \in Keys(i) <=> sk \in Keys(i - 1))
        BY <2>2, <2>4, <2>6, <3>2
      <4>2. f[i].removed[sk] = e.removed[sk]
        BY <2>2, <3>2, <4>1
      <4> QED BY <2>3, <4>1, <4>2
    <3> QED BY <3>1, <3>2
  <2> QED BY <1>1, <2>2, <2>3, <2>5, <2>6
<1>5. n \in P
  <2>1. 0..n \subseteq P
    <3> HIDE DEF P
    <3> QED BY <1>1, <1>3, <1>4, StepInduction
  <2> HIDE DEF P
  <2> QED BY <1>1, <2>1
<1>6. after \in Changes
  BY <1>0, <1>1
<1> QED BY <1>0, <1>2, <1>5, <1>6 DEF after

\* _put of a pair
LEMMA LmdbStoreFacts ==
    ASSUME NEW u \in BOOLEAN, NEW a \in Accumulators(u), NEW sk \in SK, NEW pk \in PK
    PROVE  LET b == LmdbStore(a, sk, pk, u)
           IN  /\ b \in Accumulators(u)
               /\ b.ok => /\ \A s \in SK : s # sk => b.ix[s] = a.ix[s]
                          /\ \A x \in PK : Count(b.ix[sk], x) = IF x = pk /\ Count(a.ix[sk], x) = 0 THEN 1
                                                                ELSE Count(a.ix[sk], x)
<1> DEFINE b == LmdbStore(a, sk, pk, u)
           list == a.ix[sk]
<1>1. b = IF u /\ list # <<>> THEN Failed(a)
          ELSE IF pk \in ToSet(list) THEN a ELSE WithList(a, sk, Added(list, pk))
  BY DEF LmdbStore, Failed, WithList
<1>2. list \in Entries(u)
  BY AccumulatorFacts
<1>3. list \in KeyLists /\ list \in Seq(PK)
  BY <1>2, EntriesFacts
<1> HIDE DEF b
<1>4. CASE u /\ list # <<>>
  <2>1. b = Failed(a)
    BY <1>1, <1>4
  <2> QED BY <2>1, FailedFacts DEF b
<1>5. CASE ~(u /\ list # <<>>) /\ pk \in ToSet(list)
  <2>1. b = a
    BY <1>1, <1>5
  <2>2. Count(list, pk) # 0
    BY <1>3, <1>5, CountFacts
  <2> QED BY <2>1, <2>2 DEF b
<1>6. CASE ~(u /\ list # <<>>) /\ pk \notin ToSet(list)
  <2>1. b = WithList(a, sk, Added(list, pk))
    BY <1>1, <1>6
  <2>2. Added(list, pk) \in Entries(u)
    BY <1>2, <1>6, AddedEntries
  <2>3. \A x \in PK : Count(Added(list, pk), x) = Count(list, x) + IF x = pk THEN 1 ELSE 0
    BY <1>3, AddedCounts
  <2>4. Count(list, pk) = 0 /\ \A x \in PK : Count(list, x) \in Nat
    BY <1>3, <1>6, CountFacts
  <2>5. \A x \in PK : Count(Added(list, pk), x) = IF x = pk /\ Count(list, x) = 0 THEN 1 ELSE Count(list, x)
    BY <2>3, <2>4
  <2> HIDE DEF list
  <2>6. b \in Accumulators(u) /\ b.ix[sk] = Added(list, pk) /\ \A s \in SK : s # sk => b.ix[s] = a.ix[s]
    BY <2>1, <2>2, WithListFacts
  <2> QED BY <2>5, <2>6 DEF b, list
<1> QED BY <1>4, <1>5, <1>6

\* The loops of an encoding, and of its application.
LmdbCleared(d, acc, gone) == FoldLeft(LAMBDA a, pk : LmdbRemove(a, pk, KeysOf(d, pk)), acc, gone)
LmdbReplaced(d, new, acc, puts, m) ==
    FoldLeft(LAMBDA a, pk : LmdbPut(a, pk, KeysOf(d, pk), new[pk], m), acc, puts)
LmdbStored(acc, pairs, u) ==
    FoldLeft(LAMBDA a, pair : IF a.ok THEN LmdbStore(a, pair[1], pair[2], u) ELSE a, acc, pairs)

\* What is recorded for the objects to remove.
LEMMA LmdbClearingSteps ==
    ASSUME NEW acc \in Changes, NEW d \in Stores, NEW q \in Seq(PK)
    PROVE  \E f \in [0..Len(q) -> Changes] :
              /\ f[0] = acc /\ f[Len(q)] = LmdbCleared(d, acc, q)
              /\ \A i \in 1..Len(q) : f[i] = LmdbRemove(f[i - 1], q[i], KeysOf(d, q[i]))
<1> DEFINE Step(a, pk) == LmdbRemove(a, pk, KeysOf(d, pk))
           n == Len(q)
           C == Changes
           c == acc
           g == [i \in 1..n |-> [a \in C |-> Step(a, q[i])]]
           F(k) == [s \in SUBSET DOMAIN q |-> IF s = {} THEN c ELSE Step(k[s \ {Max(s)}], q[Max(s)])]
           V == CHOOSE k : k = F(k)
<1>1. n \in Nat /\ DOMAIN q = 1..n /\ \A i \in 1..n : q[i] \in PK
  OBVIOUS
<1>2. c \in C
  OBVIOUS
<1>3. ASSUME NEW a \in C, NEW pk \in PK PROVE Step(a, pk) \in C
  <2>1. KeysOf(d, pk) \in Seq(SK)
    BY OldFacts
  <2> QED BY <2>1, LmdbRemoveFacts
<1>4. LmdbCleared(d, acc, q) = V[DOMAIN q]
  BY DEF LmdbCleared, Step, FoldLeft, MapThenFoldSet
<1>5. ASSUME NEW f, \A i \in 1..n : f[i] = Step(f[i - 1], q[i])
      PROVE  \A i \in 1..n : f[i] = LmdbRemove(f[i - 1], q[i], KeysOf(d, q[i]))
  BY <1>5
<1> HIDE DEF Step, n, C, c
<1>6. g \in [1..n -> [C -> C]]
  BY <1>1, <1>3
<1>7. \A i \in 1..n, a \in C : g[i][a] = Step(a, q[i])
  OBVIOUS
<1> HIDE DEF g
<1> PICK f, h : Folds(f, h, n, C, c, g)
  BY <1>1, <1>2, <1>6, FoldSteps
<1>8. /\ f \in [0..n -> C] /\ f[0] = c /\ \A i \in 1..n : f[i] = g[i][f[i - 1]]
      /\ h \in [SUBSET (1..n) -> C]
      /\ \A s \in SUBSET (1..n) : h[s] = IF s = {} THEN c ELSE g[Max(s)][h[s \ {Max(s)}]]
      /\ h[1..n] = f[n]
  BY DEF Folds
<1>9. \A s \in SUBSET (1..n) : s # {} => Max(s) \in 1..n /\ s \ {Max(s)} \in SUBSET (1..n)
  BY <1>1, GreatestPosition
<1>10. \A s \in SUBSET (1..n) : h[s] = IF s = {} THEN c ELSE Step(h[s \ {Max(s)}], q[Max(s)])
  <2>1. \A s \in SUBSET (1..n) : s # {} => h[s \ {Max(s)}] \in C
    BY <1>8, <1>9
  <2> QED BY <1>7, <1>8, <1>9, <2>1
<1>11. h = F(h)
  <2>1. \A s \in SUBSET DOMAIN q : h[s] = F(h)[s]
    BY <1>1, <1>10
  <2>2. h = [s \in SUBSET DOMAIN q |-> h[s]]
    BY <1>1, <1>8
  <2> QED BY <2>1, <2>2
<1>12. V = F(V)
  BY <1>11
<1> HIDE DEF V
<1>13. V[1..n] = f[n]
  <2>1. \A s \in SUBSET DOMAIN q : V[s] = F(V)[s]
    BY <1>12
  <2>2. \A s \in SUBSET (1..n) : V[s] = IF s = {} THEN c ELSE Step(V[s \ {Max(s)}], q[Max(s)])
    BY <1>1, <2>1
  <2>3. V[{}] = h[{}]
    BY <1>10, <2>2
  <2>4. \A s \in SUBSET (1..n) : s # {} /\ V[s \ {Max(s)}] = h[s \ {Max(s)}] => V[s] = h[s]
    BY <1>10, <2>2
  <2> HIDE DEF F
  <2>5. V[1..n] = h[1..n]
    BY <1>1, <2>3, <2>4, FoldIsUnique
  <2> QED BY <1>8, <2>5
<1>14. \A i \in 1..n : f[i] = Step(f[i - 1], q[i])
  <2>1. \A i \in 1..n : f[i - 1] \in C
    <3>1. \A i \in 1..n : i - 1 \in 0..n
      BY <1>1
    <3> QED BY <1>8, <3>1
  <2> QED BY <1>7, <1>8, <2>1
<1>15. \A i \in 1..n : f[i] = LmdbRemove(f[i - 1], q[i], KeysOf(d, q[i]))
  BY <1>5, <1>14
<1>16. f[n] = LmdbCleared(d, acc, q)
  BY <1>1, <1>4, <1>13
<1> QED BY <1>8, <1>15, <1>16 DEF n, C, c

\* What is recorded for the objects to put.
LEMMA LmdbPuttingSteps ==
    ASSUME NEW m \in BOOLEAN, NEW acc \in Changes, NEW d \in Stores, NEW new \in Stores, NEW q \in Seq(DOMAIN new)
    PROVE  \E f \in [0..Len(q) -> Changes] :
              /\ f[0] = acc /\ f[Len(q)] = LmdbReplaced(d, new, acc, q, m)
              /\ \A i \in 1..Len(q) : f[i] = LmdbPut(f[i - 1], q[i], KeysOf(d, q[i]), new[q[i]], m)
<1> DEFINE Step(a, pk) == LmdbPut(a, pk, KeysOf(d, pk), new[pk], m)
           n == Len(q)
           C == Changes
           c == acc
           g == [i \in 1..n |-> [a \in C |-> Step(a, q[i])]]
           F(k) == [s \in SUBSET DOMAIN q |-> IF s = {} THEN c ELSE Step(k[s \ {Max(s)}], q[Max(s)])]
           V == CHOOSE k : k = F(k)
<1>1. n \in Nat /\ DOMAIN q = 1..n /\ \A i \in 1..n : q[i] \in DOMAIN new
  OBVIOUS
<1>2. c \in C
  OBVIOUS
<1>3. ASSUME NEW a \in C, NEW pk \in DOMAIN new PROVE Step(a, pk) \in C
  <2>1. pk \in PK /\ new[pk] \in Seq(SK)
    BY StoreFacts
  <2>2. KeysOf(d, pk) \in Seq(SK)
    BY <2>1, OldFacts
  <2>3. LmdbRemove(a, pk, KeysOf(d, pk)) \in C
    BY <2>1, <2>2, LmdbRemoveFacts
  <2> DEFINE b == LmdbRemove(a, pk, KeysOf(d, pk))
             s == new[pk]
  <2>4. b \in C /\ s \in Seq(SK)
    BY <2>1, <2>3
  <2> HIDE DEF b, s
  <2>5. LmdbInsert(b, pk, s) \in C
    BY <2>1, <2>4, LmdbInsertFacts
  <2> QED BY <2>5 DEF LmdbPut, b, s
<1>4. LmdbReplaced(d, new, acc, q, m) = V[DOMAIN q]
  BY DEF LmdbReplaced, Step, FoldLeft, MapThenFoldSet
<1>5. ASSUME NEW f, \A i \in 1..n : f[i] = Step(f[i - 1], q[i])
      PROVE  \A i \in 1..n : f[i] = LmdbPut(f[i - 1], q[i], KeysOf(d, q[i]), new[q[i]], m)
  BY <1>5
<1> HIDE DEF Step, n, C, c
<1>6. g \in [1..n -> [C -> C]]
  BY <1>1, <1>3
<1>7. \A i \in 1..n, a \in C : g[i][a] = Step(a, q[i])
  OBVIOUS
<1> HIDE DEF g
<1> PICK f, h : Folds(f, h, n, C, c, g)
  BY <1>1, <1>2, <1>6, FoldSteps
<1>8. /\ f \in [0..n -> C] /\ f[0] = c /\ \A i \in 1..n : f[i] = g[i][f[i - 1]]
      /\ h \in [SUBSET (1..n) -> C]
      /\ \A s \in SUBSET (1..n) : h[s] = IF s = {} THEN c ELSE g[Max(s)][h[s \ {Max(s)}]]
      /\ h[1..n] = f[n]
  BY DEF Folds
<1>9. \A s \in SUBSET (1..n) : s # {} => Max(s) \in 1..n /\ s \ {Max(s)} \in SUBSET (1..n)
  BY <1>1, GreatestPosition
<1>10. \A s \in SUBSET (1..n) : h[s] = IF s = {} THEN c ELSE Step(h[s \ {Max(s)}], q[Max(s)])
  <2>1. \A s \in SUBSET (1..n) : s # {} => h[s \ {Max(s)}] \in C
    BY <1>8, <1>9
  <2> QED BY <1>7, <1>8, <1>9, <2>1
<1>11. h = F(h)
  <2>1. \A s \in SUBSET DOMAIN q : h[s] = F(h)[s]
    BY <1>1, <1>10
  <2>2. h = [s \in SUBSET DOMAIN q |-> h[s]]
    BY <1>1, <1>8
  <2> QED BY <2>1, <2>2
<1>12. V = F(V)
  BY <1>11
<1> HIDE DEF V
<1>13. V[1..n] = f[n]
  <2>1. \A s \in SUBSET DOMAIN q : V[s] = F(V)[s]
    BY <1>12
  <2>2. \A s \in SUBSET (1..n) : V[s] = IF s = {} THEN c ELSE Step(V[s \ {Max(s)}], q[Max(s)])
    BY <1>1, <2>1
  <2>3. V[{}] = h[{}]
    BY <1>10, <2>2
  <2>4. \A s \in SUBSET (1..n) : s # {} /\ V[s \ {Max(s)}] = h[s \ {Max(s)}] => V[s] = h[s]
    BY <1>10, <2>2
  <2> HIDE DEF F
  <2>5. V[1..n] = h[1..n]
    BY <1>1, <2>3, <2>4, FoldIsUnique
  <2> QED BY <1>8, <2>5
<1>14. \A i \in 1..n : f[i] = Step(f[i - 1], q[i])
  <2>1. \A i \in 1..n : f[i - 1] \in C
    <3>1. \A i \in 1..n : i - 1 \in 0..n
      BY <1>1
    <3> QED BY <1>8, <3>1
  <2> QED BY <1>7, <1>8, <2>1
<1>15. \A i \in 1..n : f[i] = LmdbPut(f[i - 1], q[i], KeysOf(d, q[i]), new[q[i]], m)
  BY <1>5, <1>14
<1>16. f[n] = LmdbReplaced(d, new, acc, q, m)
  BY <1>1, <1>4, <1>13
<1> QED BY <1>8, <1>15, <1>16 DEF n, C, c

\* The pairs recorded are stored one by one, until one fails.
LEMMA LmdbStoringSteps ==
    ASSUME NEW u \in BOOLEAN, NEW acc \in Accumulators(u), NEW q \in Seq(KeyPairs)
    PROVE  \E f \in [0..Len(q) -> Accumulators(u)] :
              /\ f[0] = acc /\ f[Len(q)] = LmdbStored(acc, q, u)
              /\ \A i \in 1..Len(q) : f[i] = IF f[i - 1].ok THEN LmdbStore(f[i - 1], q[i][1], q[i][2], u) ELSE f[i - 1]
<1> DEFINE Step(a, pair) == IF a.ok THEN LmdbStore(a, pair[1], pair[2], u) ELSE a
           n == Len(q)
           C == Accumulators(u)
           c == acc
           g == [i \in 1..n |-> [a \in C |-> Step(a, q[i])]]
           F(k) == [s \in SUBSET DOMAIN q |-> IF s = {} THEN c ELSE Step(k[s \ {Max(s)}], q[Max(s)])]
           V == CHOOSE k : k = F(k)
<1>1. n \in Nat /\ DOMAIN q = 1..n /\ \A i \in 1..n : q[i] \in KeyPairs
  OBVIOUS
<1>2. c \in C
  OBVIOUS
<1>3. ASSUME NEW a \in C, NEW pair \in KeyPairs PROVE Step(a, pair) \in C
  <2>1. pair[1] \in SK /\ pair[2] \in PK
    BY DEF KeyPairs
  <2> QED BY <2>1, LmdbStoreFacts
<1>4. LmdbStored(acc, q, u) = V[DOMAIN q]
  BY DEF LmdbStored, Step, FoldLeft, MapThenFoldSet
<1>5. ASSUME NEW f, \A i \in 1..n : f[i] = Step(f[i - 1], q[i])
      PROVE  \A i \in 1..n : f[i] = IF f[i - 1].ok THEN LmdbStore(f[i - 1], q[i][1], q[i][2], u) ELSE f[i - 1]
  BY <1>5
<1> HIDE DEF Step, n, C, c
<1>6. g \in [1..n -> [C -> C]]
  BY <1>1, <1>3
<1>7. \A i \in 1..n, a \in C : g[i][a] = Step(a, q[i])
  OBVIOUS
<1> HIDE DEF g
<1> PICK f, h : Folds(f, h, n, C, c, g)
  BY <1>1, <1>2, <1>6, FoldSteps
<1>8. /\ f \in [0..n -> C] /\ f[0] = c /\ \A i \in 1..n : f[i] = g[i][f[i - 1]]
      /\ h \in [SUBSET (1..n) -> C]
      /\ \A s \in SUBSET (1..n) : h[s] = IF s = {} THEN c ELSE g[Max(s)][h[s \ {Max(s)}]]
      /\ h[1..n] = f[n]
  BY DEF Folds
<1>9. \A s \in SUBSET (1..n) : s # {} => Max(s) \in 1..n /\ s \ {Max(s)} \in SUBSET (1..n)
  BY <1>1, GreatestPosition
<1>10. \A s \in SUBSET (1..n) : h[s] = IF s = {} THEN c ELSE Step(h[s \ {Max(s)}], q[Max(s)])
  <2>1. \A s \in SUBSET (1..n) : s # {} => h[s \ {Max(s)}] \in C
    BY <1>8, <1>9
  <2> QED BY <1>7, <1>8, <1>9, <2>1
<1>11. h = F(h)
  <2>1. \A s \in SUBSET DOMAIN q : h[s] = F(h)[s]
    BY <1>1, <1>10
  <2>2. h = [s \in SUBSET DOMAIN q |-> h[s]]
    BY <1>1, <1>8
  <2> QED BY <2>1, <2>2
<1>12. V = F(V)
  BY <1>11
<1> HIDE DEF V
<1>13. V[1..n] = f[n]
  <2>1. \A s \in SUBSET DOMAIN q : V[s] = F(V)[s]
    BY <1>12
  <2>2. \A s \in SUBSET (1..n) : V[s] = IF s = {} THEN c ELSE Step(V[s \ {Max(s)}], q[Max(s)])
    BY <1>1, <2>1
  <2>3. V[{}] = h[{}]
    BY <1>10, <2>2
  <2>4. \A s \in SUBSET (1..n) : s # {} /\ V[s \ {Max(s)}] = h[s \ {Max(s)}] => V[s] = h[s]
    BY <1>10, <2>2
  <2> HIDE DEF F
  <2>5. V[1..n] = h[1..n]
    BY <1>1, <2>3, <2>4, FoldIsUnique
  <2> QED BY <1>8, <2>5
<1>14. \A i \in 1..n : f[i] = Step(f[i - 1], q[i])
  <2>1. \A i \in 1..n : f[i - 1] \in C
    <3>1. \A i \in 1..n : i - 1 \in 0..n
      BY <1>1
    <3> QED BY <1>8, <3>1
  <2> QED BY <1>7, <1>8, <2>1
<1>15. \A i \in 1..n : f[i] = IF f[i - 1].ok THEN LmdbStore(f[i - 1], q[i][1], q[i][2], u) ELSE f[i - 1]
  BY <1>5, <1>14
<1>16. f[n] = LmdbStored(acc, q, u)
  BY <1>1, <1>4, <1>13
<1> QED BY <1>8, <1>15, <1>16 DEF n, C, c

\* The records of an encoding that has come to remove the objects M and to insert the objects N.
Recorded(e, d, new, M, N) ==
    /\ e \in Changes
    /\ \A sk \in SK : sk \in DOMAIN e.removed <=> \E p \in M : sk \in ToSet(KeysOf(d, p))
    /\ \A sk \in DOMAIN e.removed : e.removed[sk] \in M /\ sk \in ToSet(KeysOf(d, e.removed[sk]))
    /\ \A sk \in SK, p \in PK : <<sk, p>> \in ToSet(e.modified) <=> p \in N /\ sk \in ToSet(new[p])

LEMMA RemoveRecorded ==
    ASSUME NEW d \in Stores, NEW new, NEW M, NEW N, NEW e, Recorded(e, d, new, M, N), NEW pk \in PK
    PROVE  Recorded(LmdbRemove(e, pk, KeysOf(d, pk)), d, new, M \cup {pk}, N)
<1> DEFINE q == KeysOf(d, pk)
           b == LmdbRemove(e, pk, q)
<1>1. q \in Seq(SK) /\ e \in Changes
  BY OldFacts DEF Recorded
<1>2. ToSet(q) \in SUBSET SK
  BY <1>1 DEF ToSet
<1> HIDE DEF q
<1>3. /\ b \in Changes /\ b.modified = e.modified /\ DOMAIN b.removed = DOMAIN e.removed \cup ToSet(q)
      /\ \A sk \in DOMAIN b.removed : b.removed[sk] = IF sk \in ToSet(q) THEN pk ELSE e.removed[sk]
  BY <1>1, LmdbRemoveFacts
<1>4. DOMAIN e.removed \in SUBSET SK
  BY <1>1, ChangesFacts
<1> HIDE DEF b
<1>5. ASSUME NEW sk \in SK
      PROVE  sk \in DOMAIN b.removed <=> \E p \in M \cup {pk} : sk \in ToSet(KeysOf(d, p))
  <2>1. sk \in DOMAIN e.removed <=> \E p \in M : sk \in ToSet(KeysOf(d, p))
    BY DEF Recorded
  <2> QED BY <1>3, <2>1 DEF q
<1>6. ASSUME NEW sk \in DOMAIN b.removed
      PROVE  b.removed[sk] \in M \cup {pk} /\ sk \in ToSet(KeysOf(d, b.removed[sk]))
  <2>1. CASE sk \in ToSet(q)
    BY <1>3, <2>1 DEF q
  <2>2. CASE sk \notin ToSet(q)
    <3>1. sk \in DOMAIN e.removed /\ b.removed[sk] = e.removed[sk]
      BY <1>3, <1>6, <2>2
    <3>2. e.removed[sk] \in M /\ sk \in ToSet(KeysOf(d, e.removed[sk]))
      BY <3>1 DEF Recorded
    <3> QED BY <3>1, <3>2
  <2> QED BY <2>1, <2>2
<1>7. \A sk \in SK, p \in PK : <<sk, p>> \in ToSet(b.modified) <=> p \in N /\ sk \in ToSet(new[p])
  BY <1>3 DEF Recorded
<1>8. Recorded(b, d, new, M \cup {pk}, N)
  BY <1>3, <1>5, <1>6, <1>7 DEF Recorded
<1> QED BY <1>8 DEF b, q

LEMMA InsertRecorded ==
    ASSUME NEW d, NEW new \in Stores, NEW M, NEW N, NEW e, Recorded(e, d, new, M, N), NEW pk \in DOMAIN new
    PROVE  Recorded(LmdbInsert(e, pk, new[pk]), d, new, M, N \cup {pk})
<1> DEFINE q == new[pk]
           b == LmdbInsert(e, pk, q)
<1>1. q \in Seq(SK) /\ pk \in PK /\ e \in Changes
  BY StoreFacts DEF Recorded
<1> HIDE DEF q
<1>2. /\ b \in Changes /\ b.removed = e.removed
      /\ ToSet(b.modified) = ToSet(e.modified) \cup {<<sk, pk>> : sk \in ToSet(q)}
  BY <1>1, LmdbInsertFacts
<1> HIDE DEF b
<1>3. ASSUME NEW sk \in SK, NEW p \in PK
      PROVE  <<sk, p>> \in ToSet(b.modified) <=> p \in N \cup {pk} /\ sk \in ToSet(new[p])
  <2>1. <<sk, p>> \in ToSet(e.modified) <=> p \in N /\ sk \in ToSet(new[p])
    BY DEF Recorded
  <2>2. <<sk, p>> \in {<<s, pk>> : s \in ToSet(q)} <=> p = pk /\ sk \in ToSet(q)
    OBVIOUS
  <2>3. <<sk, p>> \in ToSet(b.modified) <=> <<sk, p>> \in ToSet(e.modified) \/ (p = pk /\ sk \in ToSet(q))
    BY <1>2, <2>2, Zenon
  <2> QED BY <2>1, <2>3 DEF q
<1>4. Recorded(b, d, new, M, N \cup {pk})
  BY <1>2, <1>3 DEF Recorded
<1> QED BY <1>4 DEF b, q

\* encodeTransaction records the objects of the transaction whose keys change.
LEMMA EncodeRecorded ==
    ASSUME NEW m \in BOOLEAN, NEW d \in Stores, NEW new \in Stores,
           NEW gone \in Seq(PK), NEW puts \in Seq(DOMAIN new)
    PROVE  LET N == {p \in ToSet(puts) : ~SameKeys(KeysOf(d, p), new[p], m)}
           IN  Recorded(LmdbEncode(d, new, gone, puts, m), d, new, ToSet(gone) \cup N, N)
<1> DEFINE cleared == LmdbCleared(d, NoChanges, gone)
           after == LmdbReplaced(d, new, cleared, puts, m)
           n == Len(gone)
           k == Len(puts)
           Gone(i) == {gone[j] : j \in 1..i}
           N(i) == {p \in {puts[j] : j \in 1..i} : ~SameKeys(KeysOf(d, p), new[p], m)}
<1>1. LmdbEncode(d, new, gone, puts, m) = after
  BY DEF LmdbEncode, LmdbCleared, LmdbReplaced
<1>2. /\ n \in Nat /\ k \in Nat /\ ToSet(gone) = Gone(n) /\ ToSet(puts) = {puts[j] : j \in 1..k}
      /\ \A i \in 1..n : gone[i] \in PK /\ i - 1 \in 0..n /\ i \in 0..n
      /\ \A i \in 1..k : puts[i] \in DOMAIN new /\ i - 1 \in 0..k /\ i \in 0..k
  BY DEF ToSet
<1>3. Gone(0) = {} /\ \A i \in 1..n : Gone(i) = Gone(i - 1) \cup {gone[i]}
  <2>1. \A i \in 1..n : 1..i = (1..(i - 1)) \cup {i}
    BY <1>2
  <2> QED BY <2>1
<1>4. /\ N(0) = {}
      /\ \A i \in 1..k : N(i) = IF SameKeys(KeysOf(d, puts[i]), new[puts[i]], m) THEN N(i - 1)
                                ELSE N(i - 1) \cup {puts[i]}
  <2>1. \A i \in 1..k : 1..i = (1..(i - 1)) \cup {i}
    BY <1>2
  <2>2. \A i \in 1..k : {puts[j] : j \in 1..i} = {puts[j] : j \in 1..(i - 1)} \cup {puts[i]}
    BY <2>1
  <2> QED BY <2>2
<1>5. N(k) = {p \in ToSet(puts) : ~SameKeys(KeysOf(d, p), new[p], m)}
  BY <1>2
<1> HIDE DEF Gone, N
<1>6. cleared \in Changes /\ Recorded(cleared, d, new, Gone(n), {})
  <2>1. NoChanges \in Changes
    BY NoChangesFacts
  <2>2. PICK f \in [0..Len(gone) -> Changes] :
          /\ f[0] = NoChanges /\ f[Len(gone)] = cleared
          /\ \A i \in 1..Len(gone) : f[i] = LmdbRemove(f[i - 1], gone[i], KeysOf(d, gone[i]))
    BY <2>1, LmdbClearingSteps
  <2> HIDE DEF cleared, n
  <2> DEFINE P == {i \in 0..n : Recorded(f[i], d, new, Gone(i), {})}
  <2>3. 0 \in P
    <3>1. ToSet(<<>>) = {}
      BY DEF ToSet
    <3> QED BY <1>2, <1>3, <2>1, <2>2, <3>1, NoChangesFacts DEF Recorded
  <2>4. ASSUME NEW i \in 1..n, i - 1 \in P PROVE i \in P
    <3> DEFINE e == f[i - 1]
               pk == gone[i]
    <3>1. f[i] = LmdbRemove(e, pk, KeysOf(d, pk)) /\ pk \in PK
      BY <1>2, <2>2 DEF n
    <3>2. Recorded(e, d, new, Gone(i - 1), {}) /\ Gone(i) = Gone(i - 1) \cup {pk}
      BY <1>3, <2>4
    <3> HIDE DEF e, pk
    <3>3. Recorded(f[i], d, new, Gone(i), {})
      BY <3>1, <3>2, RemoveRecorded
    <3> QED BY <1>2, <3>3
  <2>5. n \in P
    <3>1. 0..n \subseteq P
      <4> HIDE DEF P
      <4> QED BY <1>2, <2>3, <2>4, StepInduction
    <3> HIDE DEF P
    <3> QED BY <1>2, <3>1
  <2> QED BY <2>2, <2>5 DEF n, Recorded
<1>7. Recorded(after, d, new, Gone(n) \cup N(k), N(k))
  <2> HIDE DEF cleared
  <2>1. PICK f \in [0..Len(puts) -> Changes] :
          /\ f[0] = cleared /\ f[Len(puts)] = after
          /\ \A i \in 1..Len(puts) : f[i] = LmdbPut(f[i - 1], puts[i], KeysOf(d, puts[i]), new[puts[i]], m)
    BY <1>6, LmdbPuttingSteps
  <2> HIDE DEF after, n, k
  <2> DEFINE P == {i \in 0..k : Recorded(f[i], d, new, Gone(n) \cup N(i), N(i))}
  <2>2. 0 \in P
    <3>1. Gone(n) \cup N(0) = Gone(n) /\ N(0) = {}
      BY <1>4
    <3>2. f[0] = cleared /\ 0 \in 0..k
      BY <1>2, <2>1
    <3>3. Recorded(f[0], d, new, Gone(n) \cup N(0), N(0))
      BY <1>6, <3>1, <3>2
    <3> QED BY <3>2, <3>3
  <2>3. ASSUME NEW i \in 1..k, i - 1 \in P PROVE i \in P
    <3> DEFINE e == f[i - 1]
               pk == puts[i]
               same == SameKeys(KeysOf(d, pk), new[pk], m)
    <3>1. f[i] = LmdbPut(e, pk, KeysOf(d, pk), new[pk], m) /\ pk \in DOMAIN new /\ pk \in PK
      BY <1>2, <2>1, StoreFacts DEF k
    <3>2. Recorded(e, d, new, Gone(n) \cup N(i - 1), N(i - 1))
      BY <2>3
    <3>3. N(i) = IF same THEN N(i - 1) ELSE N(i - 1) \cup {pk}
      BY <1>4
    <3>4. CASE same
      <4>1. f[i] = e /\ N(i) = N(i - 1)
        BY <3>1, <3>3, <3>4 DEF LmdbPut
      <4> QED BY <1>2, <3>2, <4>1
    <3>5. CASE ~same
      <4> DEFINE b == LmdbRemove(e, pk, KeysOf(d, pk))
      <4>1. f[i] = LmdbInsert(b, pk, new[pk])
        BY <3>1, <3>5 DEF LmdbPut
      <4>2. N(i) = N(i - 1) \cup {pk} /\ Gone(n) \cup N(i) = (Gone(n) \cup N(i - 1)) \cup {pk}
        BY <3>3, <3>5
      <4> HIDE DEF e, pk, same
      <4>3. Recorded(b, d, new, (Gone(n) \cup N(i - 1)) \cup {pk}, N(i - 1))
        BY <3>1, <3>2, RemoveRecorded
      <4> HIDE DEF b
      <4>4. Recorded(f[i], d, new, (Gone(n) \cup N(i - 1)) \cup {pk}, N(i - 1) \cup {pk})
        BY <3>1, <4>1, <4>3, InsertRecorded
      <4>5. Recorded(f[i], d, new, Gone(n) \cup N(i), N(i))
        BY <4>2, <4>4
      <4> QED BY <1>2, <4>5
    <3> QED BY <3>4, <3>5
  <2>4. k \in P
    <3>1. 0..k \subseteq P
      <4> HIDE DEF P
      <4> QED BY <1>2, <2>2, <2>3, StepInduction
    <3> HIDE DEF P
    <3> QED BY <1>2, <3>1
  <2> QED BY <2>1, <2>4 DEF k
<1> QED BY <1>1, <1>2, <1>5, <1>7

\* The pairs are listed afterwards, each once, if none failed.
LEMMA StoringCounts ==
    ASSUME NEW u \in BOOLEAN, NEW acc \in Accumulators(u), NEW q \in Seq(KeyPairs)
    PROVE  LET after == LmdbStored(acc, q, u)
           IN  /\ after \in Accumulators(u)
               /\ after.ok => \A sk \in SK, x \in PK :
                    Count(after.ix[sk], x) = IF <<sk, x>> \in ToSet(q) /\ Count(acc.ix[sk], x) = 0 THEN 1
                                             ELSE Count(acc.ix[sk], x)
<1> DEFINE n == Len(q)
           after == LmdbStored(acc, q, u)
           Stored(i) == {q[j] : j \in 1..i}
<1>0. PICK f \in [0..n -> Accumulators(u)] :
       /\ f[0] = acc /\ f[n] = after
       /\ \A i \in 1..n : f[i] = IF f[i - 1].ok THEN LmdbStore(f[i - 1], q[i][1], q[i][2], u) ELSE f[i - 1]
  BY LmdbStoringSteps
<1>1. n \in Nat /\ DOMAIN q = 1..n /\ \A i \in 1..n : q[i] \in KeyPairs /\ i - 1 \in 0..n /\ i \in 0..n
  OBVIOUS
<1> HIDE DEF n, after
<1>2. Stored(0) = {} /\ Stored(n) = ToSet(q) /\ \A i \in 1..n : Stored(i) = Stored(i - 1) \cup {q[i]}
  <2>1. \A i \in 1..n : 1..i = (1..(i - 1)) \cup {i}
    BY <1>1
  <2> QED BY <1>1, <2>1 DEF ToSet
<1> HIDE DEF Stored
<1> DEFINE P == {i \in 0..n : f[i].ok => \A sk \in SK, x \in PK :
                   Count(f[i].ix[sk], x) = IF <<sk, x>> \in Stored(i) /\ Count(acc.ix[sk], x) = 0 THEN 1
                                           ELSE Count(acc.ix[sk], x)}
<1>3. 0 \in P
  BY <1>0, <1>1, <1>2
<1>4. ASSUME NEW i \in 1..n, i - 1 \in P PROVE i \in P
  <2> SUFFICES ASSUME f[i].ok, NEW sk \in SK, NEW x \in PK
               PROVE  Count(f[i].ix[sk], x) =
                        IF <<sk, x>> \in Stored(i) /\ Count(acc.ix[sk], x) = 0 THEN 1 ELSE Count(acc.ix[sk], x)
    BY <1>1
  <2> DEFINE a == f[i - 1]
             key == q[i][1]
             pk == q[i][2]
             b == f[i]
  <2>1. a \in Accumulators(u) /\ key \in SK /\ pk \in PK /\ q[i] = <<key, pk>>
    BY <1>0, <1>1 DEF KeyPairs
  <2>2. a.ok /\ b = LmdbStore(a, key, pk, u) /\ b.ok
    BY <1>0
  <2>3. Count(a.ix[sk], x) = IF <<sk, x>> \in Stored(i - 1) /\ Count(acc.ix[sk], x) = 0 THEN 1
                             ELSE Count(acc.ix[sk], x)
    BY <1>4, <2>2
  <2>4. <<sk, x>> \in Stored(i) <=> <<sk, x>> \in Stored(i - 1) \/ (sk = key /\ x = pk)
    <3>1. <<sk, x>> = q[i] <=> sk = key /\ x = pk
      BY <2>1
    <3> HIDE DEF key, pk
    <3> QED BY <1>2, <3>1
  <2> HIDE DEF a, b, key, pk
  <2>5. /\ \A s \in SK : s # key => b.ix[s] = a.ix[s]
        /\ \A y \in PK : Count(b.ix[key], y) = IF y = pk /\ Count(a.ix[key], y) = 0 THEN 1
                                               ELSE Count(a.ix[key], y)
    BY <2>1, <2>2, LmdbStoreFacts
  <2>6. CASE sk = key
    <3>1. Count(b.ix[sk], x) = IF x = pk /\ Count(a.ix[sk], x) = 0 THEN 1 ELSE Count(a.ix[sk], x)
      BY <2>5, <2>6
    <3> QED BY <2>3, <2>4, <2>6, <3>1 DEF b
  <2>7. CASE sk # key
    BY <2>3, <2>4, <2>5, <2>7 DEF b
  <2> QED BY <2>6, <2>7
<1>5. n \in P
  <2>1. 0..n \subseteq P
    <3> HIDE DEF P
    <3> QED BY <1>1, <1>3, <1>4, StepInduction
  <2> HIDE DEF P
  <2> QED BY <1>1, <2>1
<1>6. after \in Accumulators(u)
  BY <1>0, <1>1
<1> QED BY <1>0, <1>2, <1>5, <1>6 DEF after

-----------------------------------------------------------------------------
(* The orders in which a transaction is applied. *)

LEMMA OrdersFacts ==
    ASSUME NEW S, IsFiniteSet(S), NEW s \in Orders(S)
    PROVE  s \in Seq(S) /\ ToSet(s) = S /\ IsInjective(s)
<1> DEFINE n == Cardinality(S)
<1>1. n \in Nat
  BY FS_CardinalityType
<1>2. s \in [1..n -> S] /\ ToSet(s) = S
  BY DEF Orders
<1>3. s \in Seq(S)
  BY <1>1, <1>2 DEF Seq
<1>4. s \in Surjection(1..n, S)
  <2>1. \A x \in S : \E i \in 1..n : s[i] = x
    BY <1>2 DEF ToSet
  <2> QED BY <1>2, <2>1 DEF Surjection
<1>5. IsFiniteSet(1..n) /\ Cardinality(1..n) = n
  BY <1>1, FS_Interval
<1> HIDE DEF n
<1>6. s \in Injection(1..n, S)
  BY <1>4, <1>5, FS_SurjSameCardinalityImpliesInj DEF n
<1> QED BY <1>2, <1>3, <1>6 DEF Injection, IsInjective

LEMMA SetToSeqFacts ==
    ASSUME NEW S, IsFiniteSet(S)
    PROVE  ToSet(SetToSeq(S)) = S
<1> DEFINE n == Cardinality(S)
           s == SetToSeq(S)
<1>1. n \in Nat /\ ExistsBijection(1..n, S)
  BY FS_CardinalityType
<1>2. \E f \in [1..n -> S] : IsInjective(f)
  <2>1. PICK f : f \in Bijection(1..n, S)
    BY <1>1 DEF ExistsBijection
  <2> QED BY <2>1 DEF Bijection, Injection, IsInjective
<1>3. s \in [1..n -> S] /\ IsInjective(s)
  BY <1>2 DEF SetToSeq
<1>4. IsFiniteSet(1..n) /\ Cardinality(1..n) = n
  BY <1>1, FS_Interval
<1> HIDE DEF s, n
<1>5. s \in Injection(1..n, S)
  BY <1>3 DEF Injection, IsInjective
<1>6. s \in Surjection(1..n, S)
  BY <1>4, <1>5, FS_Injection DEF n
<1>7. ToSet(s) = S
  BY <1>3, <1>6 DEF Surjection, ToSet
<1> QED BY <1>7 DEF s

-----------------------------------------------------------------------------
(* What an application makes of the list of one key. *)

\* The objects are listed under a secondary key as often as they should.
ListedRight(mem, ix, d, sk) == \A x \in PK : Count(ix[sk], x) = Often(mem, Count(KeysOf(d, x), sk))

\* The secondary keys of an object after the removals and the puts.
NewKeys(d, new, gone, t, pk) ==
    IF pk \in DOMAIN new THEN new[pk] ELSE IF t \/ pk \in gone THEN <<>> ELSE KeysOf(d, pk)

NewlyRight(mem, ix, d, new, gone, t, sk) ==
    \A x \in PK : Count(ix[sk], x) = Often(mem, Count(NewKeys(d, new, gone, t, x), sk))

LEMMA OftenFacts ==
    /\ \A mem \in BOOLEAN, n \in Nat : Often(mem, n) \in Nat /\ (Often(mem, n) = 0 <=> n = 0)
    /\ \A mem \in BOOLEAN : Often(mem, 0) = 0 /\ Often(mem, Count(<<>>, 0)) = 0
    /\ \A n \in Nat : Often(TRUE, n) = n /\ (n <= 1 => Often(FALSE, n) = n)
<1>1. Count(<<>>, 0) = 0
  BY EmptyCount
<1> QED BY <1>1 DEF Often

\* When the loops keep the list of a key right: it is empty after a truncation and no object leaves it
\* or none comes, or it was right, and LevelDB can remove what it inserted.
LoopsKeep(mem, ix, d, old, new, gone, m, t, sk) ==
    IF t THEN /\ ix[sk] = <<>>
              /\ \/ \A p \in DOMAIN new : Count(old[p], sk) = 0
                 \/ \A p \in DOMAIN new : Count(new[p], sk) = 0
    ELSE /\ \A p \in PK : old[p] = KeysOf(d, p)
         /\ ListedRight(mem, ix, d, sk)
         /\ mem \/ /\ \A p \in gone : Count(old[p], sk) <= 1
                   /\ \A p \in DOMAIN new : Count(old[p], sk) <= 1 \/ SameKeys(old[p], new[p], m)

\* In memory and in LevelDB: the loops over the removals and the puts.
Loops(mem, u, m, t, d, new, gone, puts, old, f, g) ==
    /\ mem \in BOOLEAN /\ u \in BOOLEAN /\ m \in BOOLEAN /\ t \in BOOLEAN
    /\ d \in Stores /\ new \in Stores /\ old \in [PK -> Seq(SK)]
    /\ gone \in Seq(PK) /\ IsInjective(gone) /\ ToSet(gone) \cap DOMAIN new = {}
    /\ puts \in Seq(DOMAIN new) /\ IsInjective(puts) /\ ToSet(puts) = DOMAIN new
    /\ Removes(mem, gone, old, u, f) /\ Replaces(mem, puts, old, new, u, m, g)
    /\ g[0] = f[Len(gone)] /\ g[Len(puts)].ok

LEMMA LoopsListRight ==
    ASSUME NEW mem, NEW u, NEW m, NEW t, NEW d, NEW new, NEW gone, NEW puts, NEW old, NEW f, NEW g,
           Loops(mem, u, m, t, d, new, gone, puts, old, f, g),
           NEW sk \in SK, LoopsKeep(mem, f[0].ix, d, old, new, ToSet(gone), m, t, sk)
    PROVE  NewlyRight(mem, g[Len(puts)].ix, d, new, ToSet(gone), t, sk)
<1> USE DEF Loops
<1> DEFINE a == f[0]
           b == f[Len(gone)]
           c == g[Len(puts)]
           K(x) == NewKeys(d, new, ToSet(gone), t, x)
<1>9. RemovalsEffect(a, b, ToSet(gone), old)
  BY RemovalsCounts
<1>10. PutsEffect(mem, b, c, DOMAIN new, old, new, m)
  BY ReplacementsCounts
<1> /\ mem \in BOOLEAN /\ u \in BOOLEAN /\ m \in BOOLEAN /\ t \in BOOLEAN
    /\ d \in Stores /\ new \in Stores /\ old \in [PK -> Seq(SK)]
    /\ gone \in Seq(PK) /\ ToSet(gone) \cap DOMAIN new = {} /\ ToSet(puts) = DOMAIN new
  OBVIOUS
<1> HIDE DEF a, b, c, Loops
<1>1. /\ a.ix[sk] = <<>> => b.ix[sk] = <<>>
      /\ (\A p \in ToSet(gone) : Count(a.ix[sk], p) = Count(old[p], sk)) =>
           \A x \in PK : Count(b.ix[sk], x) = IF x \in ToSet(gone) THEN 0 ELSE Count(a.ix[sk], x)
  BY <1>9 DEF RemovalsEffect
<1>2. /\ b.ix[sk] = <<>> /\ (\A p \in DOMAIN new : Count(new[p], sk) = 0) => c.ix[sk] = <<>>
      /\ (\A p \in DOMAIN new : /\ Count(b.ix[sk], p) = Often(mem, Count(old[p], sk))
                                /\ mem \/ Count(old[p], sk) <= 1 \/ SameKeys(old[p], new[p], m)) =>
           \A x \in PK : Count(c.ix[sk], x) =
                           IF x \in DOMAIN new THEN Often(mem, Count(new[x], sk)) ELSE Count(b.ix[sk], x)
  BY <1>10 DEF PutsEffect
<1>3. \A p \in PK : old[p] \in Seq(SK)
  OBVIOUS
<1>4. \A p \in PK : Count(old[p], sk) \in Nat
  BY <1>3, CountFacts
<1>5. DOMAIN new \in SUBSET PK /\ ToSet(gone) \in SUBSET PK /\ \A p \in DOMAIN new : new[p] \in Seq(SK)
  BY StoreFacts DEF ToSet
<1>6. \A x : Count(<<>>, x) = 0
  BY EmptyCount
<1>7. ASSUME t, a.ix[sk] = <<>>,
             \/ \A p \in DOMAIN new : Count(old[p], sk) = 0
             \/ \A p \in DOMAIN new : Count(new[p], sk) = 0
      PROVE  NewlyRight(mem, c.ix, d, new, ToSet(gone), t, sk)
  <2>1. b.ix[sk] = <<>> /\ \A x \in PK : Count(b.ix[sk], x) = 0
    BY <1>1, <1>6, <1>7
  <2>2. \A x \in PK : Count(c.ix[sk], x) = IF x \in DOMAIN new THEN Often(mem, Count(new[x], sk)) ELSE 0
    <3>1. CASE \A p \in DOMAIN new : Count(old[p], sk) = 0
      <4>1. \A p \in DOMAIN new : Count(b.ix[sk], p) = Often(mem, Count(old[p], sk)) /\ Count(old[p], sk) <= 1
        BY <1>5, <2>1, <3>1, OftenFacts
      <4> QED BY <1>2, <2>1, <4>1
    <3>2. CASE \A p \in DOMAIN new : Count(new[p], sk) = 0
      <4>1. \A x \in PK : Count(c.ix[sk], x) = 0
        BY <1>2, <1>6, <2>1, <3>2
      <4> QED BY <3>2, <4>1, OftenFacts
    <3> QED BY <1>7, <3>1, <3>2
  <2>3. \A x \in PK : K(x) = IF x \in DOMAIN new THEN new[x] ELSE <<>>
    BY <1>7 DEF NewKeys
  <2> HIDE DEF K
  <2>4. \A x \in PK : Count(c.ix[sk], x) = Often(mem, Count(K(x), sk))
    <3> TAKE x \in PK
    <3>1. CASE x \in DOMAIN new
      BY <2>2, <2>3, <3>1
    <3>2. CASE x \notin DOMAIN new
      <4>1. Count(c.ix[sk], x) = 0 /\ Count(K(x), sk) = 0
        BY <1>6, <2>2, <2>3, <3>2
      <4> QED BY <4>1, OftenFacts
    <3> QED BY <3>1, <3>2
  <2> QED BY <2>4 DEF NewlyRight, K
<1>8. ASSUME ~t, \A p \in PK : old[p] = KeysOf(d, p), ListedRight(mem, a.ix, d, sk),
             mem \/ /\ \A p \in ToSet(gone) : Count(old[p], sk) <= 1
                    /\ \A p \in DOMAIN new : Count(old[p], sk) <= 1 \/ SameKeys(old[p], new[p], m)
      PROVE  NewlyRight(mem, c.ix, d, new, ToSet(gone), t, sk)
  <2>1. \A x \in PK : Count(a.ix[sk], x) = Often(mem, Count(old[x], sk))
    BY <1>8 DEF ListedRight
  <2>2. \A p \in ToSet(gone) : Count(a.ix[sk], p) = Count(old[p], sk)
    <3> TAKE p \in ToSet(gone)
    <3>1. p \in PK /\ Count(old[p], sk) \in Nat /\ (mem \/ Count(old[p], sk) <= 1)
      BY <1>4, <1>5, <1>8
    <3>2. Often(mem, Count(old[p], sk)) = Count(old[p], sk)
      BY <3>1 DEF Often
    <3> QED BY <2>1, <3>1, <3>2
  <2>3. \A x \in PK : Count(b.ix[sk], x) = IF x \in ToSet(gone) THEN 0 ELSE Count(a.ix[sk], x)
    BY <1>1, <2>2
  <2>4. \A p \in DOMAIN new : /\ Count(b.ix[sk], p) = Often(mem, Count(old[p], sk))
                              /\ mem \/ Count(old[p], sk) <= 1 \/ SameKeys(old[p], new[p], m)
    <3> TAKE p \in DOMAIN new
    <3>1. p \in PK /\ p \notin ToSet(gone)
      BY <1>5
    <3> QED BY <1>8, <2>1, <2>3, <3>1
  <2>5. \A x \in PK : Count(c.ix[sk], x) =
                        IF x \in DOMAIN new THEN Often(mem, Count(new[x], sk)) ELSE Count(b.ix[sk], x)
    BY <1>2, <2>4
  <2>6. \A x \in PK : K(x) = IF x \in DOMAIN new THEN new[x] ELSE IF x \in ToSet(gone) THEN <<>> ELSE old[x]
    BY <1>8 DEF NewKeys
  <2> HIDE DEF K
  <2>7. \A x \in PK : Count(c.ix[sk], x) = Often(mem, Count(K(x), sk))
    <3> TAKE x \in PK
    <3>1. CASE x \in DOMAIN new
      BY <2>5, <2>6, <3>1
    <3>2. CASE x \notin DOMAIN new /\ x \in ToSet(gone)
      <4>1. Count(c.ix[sk], x) = 0 /\ Count(K(x), sk) = 0
        BY <1>6, <2>3, <2>5, <2>6, <3>2
      <4> QED BY <4>1, OftenFacts
    <3>3. CASE x \notin DOMAIN new /\ x \notin ToSet(gone)
      BY <2>1, <2>3, <2>5, <2>6, <3>3
    <3> QED BY <3>1, <3>2, <3>3
  <2> QED BY <2>7 DEF NewlyRight, K
<1> QED BY <1>7, <1>8 DEF a, c, LoopsKeep

\* What the loops start from, the keys that they remove objects from, and their states.
Start(ix, t) == IF t THEN NoEntries ELSE ix
OldTable(mem, d, t) == [pk \in PK |-> IF mem THEN OldKeys(d, t, pk) ELSE KeysOf(d, pk)]
Walks(mem, ix, after, u, m, t, d, new, gone, puts, f, g) ==
    /\ Removes(mem, gone, OldTable(mem, d, t), u, f) /\ Replaces(mem, puts, OldTable(mem, d, t), new, u, m, g)
    /\ f[0] = Good(Start(ix, t)) /\ g[0] = f[Len(gone)] /\ g[Len(puts)] = after

LEMMA StartFacts ==
    ASSUME NEW u \in BOOLEAN, NEW t \in BOOLEAN, NEW ix \in Tables(u)
    PROVE  /\ Good(Start(ix, t)) \in Accumulators(u) /\ Good(Start(ix, t)).ix = Start(ix, t) /\ Good(Start(ix, t)).ok
           /\ t => \A sk \in SK : Start(ix, t)[sk] = <<>>
           /\ ~t => Start(ix, t) = ix
<1>1. Start(ix, t) \in Tables(u) /\ (t => \A sk \in SK : Start(ix, t)[sk] = <<>>) /\ (~t => Start(ix, t) = ix)
  BY NoEntriesFacts DEF Start
<1> QED BY <1>1, GoodFacts

LEMMA OldTableFacts ==
    ASSUME NEW mem \in BOOLEAN, NEW t \in BOOLEAN, NEW d \in Stores
    PROVE  /\ OldTable(mem, d, t) \in [PK -> Seq(SK)]
           /\ \A p \in PK : OldTable(mem, d, t)[p] = IF mem THEN OldKeys(d, t, p) ELSE KeysOf(d, p)
           /\ mem /\ t => \A p \in PK : OldTable(mem, d, t)[p] = <<>>
           /\ ~mem \/ ~t => \A p \in PK : OldTable(mem, d, t)[p] = KeysOf(d, p)
<1>1. \A p \in PK : OldKeys(d, t, p) \in Seq(SK) /\ KeysOf(d, p) \in Seq(SK)
  BY OldFacts
<1>2. OldTable(mem, d, t) \in [PK -> Seq(SK)]
  BY <1>1 DEF OldTable
<1>3. \A p \in PK : OldTable(mem, d, t)[p] = IF mem THEN OldKeys(d, t, p) ELSE KeysOf(d, p)
  BY DEF OldTable
<1>4. \A p \in PK : OldKeys(d, t, p) = IF t THEN <<>> ELSE KeysOf(d, p)
  BY DEF OldKeys
<1> QED BY <1>2, <1>3, <1>4

LEMMA MemoryLoops ==
    ASSUME NEW u \in BOOLEAN, NEW m \in BOOLEAN, NEW t \in BOOLEAN, NEW ix \in Tables(u),
           NEW d \in Stores, NEW new \in Stores, NEW gone \in Seq(PK), NEW puts \in Seq(DOMAIN new)
    PROVE  LET after == MemoryApply(ix, d, new, gone, puts, t, u, m)
           IN  after \in Accumulators(u) /\ \E f, g : Walks(TRUE, ix, after, u, m, t, d, new, gone, puts, f, g)
<1> DEFINE acc == Good(Start(ix, t))
           cleared == MemoryCleared(d, t, acc, gone, u)
           after == MemoryReplaced(d, t, new, cleared, puts, u, m)
           mem == TRUE
           old == OldTable(mem, d, t)
<1>1. MemoryApply(ix, d, new, gone, puts, t, u, m) = after
  BY DEF MemoryApply, MemoryCleared, MemoryReplaced, OldKeys, Start
<1>2. acc \in Accumulators(u)
  BY StartFacts
<1>3. mem \in BOOLEAN /\ mem
  OBVIOUS
<1> HIDE DEF acc, cleared, after, mem
<1>4. \A pk \in PK : old[pk] = OldKeys(d, t, pk)
  <2>1. mem \in BOOLEAN
    BY <1>3
  <2>2. \A pk \in PK : old[pk] = IF mem THEN OldKeys(d, t, pk) ELSE KeysOf(d, pk)
    BY <2>1, OldTableFacts
  <2> QED BY <1>3, <2>2
<1>5. \A i \in 1..Len(gone) : gone[i] \in PK
  OBVIOUS
<1>6. \A i \in 1..Len(puts) : puts[i] \in PK
  BY StoreFacts
<1> HIDE DEF old
<1>7. PICK f : Removes(mem, gone, old, u, f) /\ f[0] = acc /\ f[Len(gone)] = cleared
  <2>1. PICK f \in [0..Len(gone) -> Accumulators(u)] :
          /\ f[0] = acc /\ f[Len(gone)] = cleared
          /\ \A i \in 1..Len(gone) : f[i] = MemoryRemove(f[i - 1], gone[i], OldKeys(d, t, gone[i]), u)
    BY <1>2, MemoryClearingSteps DEF cleared
  <2>2. \A i \in 1..Len(gone) : f[i] = Removal(mem, f[i - 1], gone[i], old[gone[i]], u)
    BY <1>3, <1>4, <1>5, <2>1 DEF Removal
  <2> QED BY <2>1, <2>2 DEF Removes
<1>8. cleared \in Accumulators(u)
  <2>1. f \in [0..Len(gone) -> Accumulators(u)]
    BY <1>7 DEF Removes
  <2>2. Len(gone) \in 0..Len(gone)
    OBVIOUS
  <2> QED BY <1>7, <2>1, <2>2
<1>9. PICK g : Replaces(mem, puts, old, new, u, m, g) /\ g[0] = cleared /\ g[Len(puts)] = after
  <2>1. PICK g \in [0..Len(puts) -> Accumulators(u)] :
          /\ g[0] = cleared /\ g[Len(puts)] = after
          /\ \A i \in 1..Len(puts) :
               g[i] = MemoryPut(g[i - 1], puts[i], OldKeys(d, t, puts[i]), new[puts[i]], u, m)
    BY <1>8, MemoryPuttingSteps DEF after
  <2>2. \A i \in 1..Len(puts) : g[i] = Replacement(mem, g[i - 1], puts[i], old[puts[i]], new[puts[i]], u, m)
    BY <1>3, <1>4, <1>6, <2>1 DEF Replacement
  <2> QED BY <2>1, <2>2 DEF Replaces
<1>10. after \in Accumulators(u)
  <2>1. g \in [0..Len(puts) -> Accumulators(u)]
    BY <1>9 DEF Replaces
  <2>2. Len(puts) \in 0..Len(puts)
    OBVIOUS
  <2> QED BY <1>9, <2>1, <2>2
<1>11. Walks(mem, ix, after, u, m, t, d, new, gone, puts, f, g)
  BY <1>7, <1>9 DEF Walks, old, acc
<1> QED BY <1>1, <1>10, <1>11 DEF mem

\* InMemoryBackend._indexApply
LEMMA MemoryListsRight ==
    ASSUME NEW u \in BOOLEAN, NEW m \in BOOLEAN, NEW t \in BOOLEAN, NEW ix \in Tables(u),
           NEW d \in Stores, NEW new \in Stores,
           NEW gone \in Seq(PK), IsInjective(gone), NEW puts \in Seq(DOMAIN new), IsInjective(puts),
           ToSet(puts) = DOMAIN new, ToSet(gone) \cap DOMAIN new = {}
    PROVE  LET after == MemoryApply(ix, d, new, gone, puts, t, u, m)
           IN  /\ after \in Accumulators(u)
               /\ after.ok => \A sk \in SK : t \/ ListedRight(TRUE, ix, d, sk) =>
                                NewlyRight(TRUE, after.ix, d, new, ToSet(gone), t, sk)
<1> DEFINE after == MemoryApply(ix, d, new, gone, puts, t, u, m)
           mem == TRUE
           old == OldTable(mem, d, t)
<1>1. mem \in BOOLEAN /\ mem
  OBVIOUS
<1>2. after \in Accumulators(u) /\ \E f, g : Walks(mem, ix, after, u, m, t, d, new, gone, puts, f, g)
  BY MemoryLoops
<1> HIDE DEF after, mem
<1>3. PICK f, g : Walks(mem, ix, after, u, m, t, d, new, gone, puts, f, g)
  BY <1>2
<1>4. /\ old \in [PK -> Seq(SK)] /\ (t => \A p \in PK : old[p] = <<>>)
      /\ ~t => \A p \in PK : old[p] = KeysOf(d, p)
  <2>1. mem \in BOOLEAN
    BY <1>1
  <2>2. /\ old \in [PK -> Seq(SK)]
        /\ mem /\ t => \A p \in PK : old[p] = <<>>
        /\ ~mem \/ ~t => \A p \in PK : old[p] = KeysOf(d, p)
    BY <2>1, OldTableFacts
  <2> QED BY <1>1, <2>2
<1>5. f[0].ix = Start(ix, t) /\ (t => \A sk \in SK : f[0].ix[sk] = <<>>) /\ (~t => f[0].ix = ix)
  BY <1>3, StartFacts DEF Walks
<1> HIDE DEF old
<1>6. ASSUME after.ok, NEW sk \in SK, t \/ ListedRight(TRUE, ix, d, sk)
      PROVE  NewlyRight(TRUE, after.ix, d, new, ToSet(gone), t, sk)
  <2>1. LoopsKeep(mem, f[0].ix, d, old, new, ToSet(gone), m, t, sk)
    <3>1. CASE t
      <4>1. \A p \in DOMAIN new : Count(old[p], sk) = 0
        BY <1>4, <3>1, StoreFacts, EmptyCount
      <4> QED BY <1>5, <3>1, <4>1 DEF LoopsKeep
    <3>2. CASE ~t
      BY <1>1, <1>4, <1>5, <1>6, <3>2 DEF LoopsKeep, mem
    <3> QED BY <3>1, <3>2
  <2>2. Loops(mem, u, m, t, d, new, gone, puts, old, f, g)
    BY <1>1, <1>3, <1>4, <1>6 DEF Loops, Walks, old
  <2>3. NewlyRight(mem, g[Len(puts)].ix, d, new, ToSet(gone), t, sk)
    BY <2>1, <2>2, LoopsListRight
  <2>4. g[Len(puts)] = after
    BY <1>3 DEF Walks
  <2> QED BY <2>3, <2>4 DEF mem
<1> QED BY <1>2, <1>6 DEF after

LEMMA LevelLoops ==
    ASSUME NEW u \in BOOLEAN, NEW m \in BOOLEAN, NEW t \in BOOLEAN, NEW ix \in Tables(u),
           NEW d \in Stores, NEW new \in Stores, NEW gone \in Seq(PK), NEW puts \in Seq(DOMAIN new)
    PROVE  LET after == LevelApply(ix, d, new, gone, puts, t, u, m)
           IN  after \in Accumulators(u) /\ \E f, g : Walks(FALSE, ix, after, u, m, t, d, new, gone, puts, f, g)
<1> DEFINE acc == Good(Start(ix, t))
           cleared == LevelCleared(d, acc, gone, u)
           after == LevelReplaced(d, new, cleared, puts, u, m)
           old == OldTable(FALSE, d, t)
<1>1. LevelApply(ix, d, new, gone, puts, t, u, m) = after
  BY DEF LevelApply, LevelCleared, LevelReplaced, Start
<1>2. acc \in Accumulators(u)
  BY StartFacts
<1> HIDE DEF acc, cleared, after
<1>4. \A pk \in PK : old[pk] = KeysOf(d, pk)
  BY DEF OldTable
<1>5. \A i \in 1..Len(gone) : gone[i] \in PK
  OBVIOUS
<1>6. \A i \in 1..Len(puts) : puts[i] \in PK
  BY StoreFacts
<1> HIDE DEF old
<1>7. PICK f : Removes(FALSE, gone, old, u, f) /\ f[0] = acc /\ f[Len(gone)] = cleared
  <2>1. PICK f \in [0..Len(gone) -> Accumulators(u)] :
          /\ f[0] = acc /\ f[Len(gone)] = cleared
          /\ \A i \in 1..Len(gone) : f[i] = LevelRemove(f[i - 1], gone[i], KeysOf(d, gone[i]), u)
    BY <1>2, LevelClearingSteps DEF cleared
  <2>2. \A i \in 1..Len(gone) : f[i] = Removal(FALSE, f[i - 1], gone[i], old[gone[i]], u)
    BY <1>4, <1>5, <2>1 DEF Removal
  <2> QED BY <2>1, <2>2 DEF Removes
<1>8. cleared \in Accumulators(u)
  <2>1. f \in [0..Len(gone) -> Accumulators(u)]
    BY <1>7 DEF Removes
  <2>2. Len(gone) \in 0..Len(gone)
    OBVIOUS
  <2> QED BY <1>7, <2>1, <2>2
<1>9. PICK g : Replaces(FALSE, puts, old, new, u, m, g) /\ g[0] = cleared /\ g[Len(puts)] = after
  <2>1. PICK g \in [0..Len(puts) -> Accumulators(u)] :
          /\ g[0] = cleared /\ g[Len(puts)] = after
          /\ \A i \in 1..Len(puts) : g[i] = LevelPut(g[i - 1], puts[i], KeysOf(d, puts[i]), new[puts[i]], u, m)
    BY <1>8, LevelPuttingSteps DEF after
  <2>2. \A i \in 1..Len(puts) : g[i] = Replacement(FALSE, g[i - 1], puts[i], old[puts[i]], new[puts[i]], u, m)
    BY <1>4, <1>6, <2>1 DEF Replacement
  <2> QED BY <2>1, <2>2 DEF Replaces
<1>10. after \in Accumulators(u)
  <2>1. g \in [0..Len(puts) -> Accumulators(u)]
    BY <1>9 DEF Replaces
  <2>2. Len(puts) \in 0..Len(puts)
    OBVIOUS
  <2> QED BY <1>9, <2>1, <2>2
<1>11. Walks(FALSE, ix, after, u, m, t, d, new, gone, puts, f, g)
  BY <1>7, <1>9 DEF Walks, old, acc
<1> QED BY <1>1, <1>10, <1>11

\* When LevelDB keeps the list of a key right.
LevelKeeps(ix, d, new, gone, m, t, sk) ==
    IF t THEN \/ \A p \in DOMAIN new : Count(KeysOf(d, p), sk) = 0
              \/ \A p \in DOMAIN new : Count(new[p], sk) = 0
    ELSE /\ ListedRight(FALSE, ix, d, sk)
         /\ \A p \in gone : Count(KeysOf(d, p), sk) <= 1
         /\ \A p \in DOMAIN new : Count(KeysOf(d, p), sk) <= 1 \/ SameKeys(KeysOf(d, p), new[p], m)

\* PersistentIndex of LevelDB: right but for the keys that a transaction is known to leave wrong.
LEMMA LevelListsRight ==
    ASSUME NEW u \in BOOLEAN, NEW m \in BOOLEAN, NEW t \in BOOLEAN, NEW ix \in Tables(u),
           NEW d \in Stores, NEW new \in Stores,
           NEW gone \in Seq(PK), IsInjective(gone), NEW puts \in Seq(DOMAIN new), IsInjective(puts),
           ToSet(puts) = DOMAIN new, ToSet(gone) \cap DOMAIN new = {}
    PROVE  LET after == LevelApply(ix, d, new, gone, puts, t, u, m)
           IN  /\ after \in Accumulators(u)
               /\ after.ok => \A sk \in SK :
                    LevelKeeps(ix, d, new, ToSet(gone), m, t, sk) => NewlyRight(FALSE, after.ix, d, new, ToSet(gone), t, sk)
<1> DEFINE after == LevelApply(ix, d, new, gone, puts, t, u, m)
           old == OldTable(FALSE, d, t)
<1>1. after \in Accumulators(u) /\ \E f, g : Walks(FALSE, ix, after, u, m, t, d, new, gone, puts, f, g)
  BY LevelLoops
<1> HIDE DEF after
<1>2. PICK f, g : Walks(FALSE, ix, after, u, m, t, d, new, gone, puts, f, g)
  BY <1>1
<1>3. old \in [PK -> Seq(SK)] /\ \A p \in PK : old[p] = KeysOf(d, p)
  BY OldTableFacts
<1>4. f[0].ix = Start(ix, t) /\ (t => \A sk \in SK : f[0].ix[sk] = <<>>) /\ (~t => f[0].ix = ix)
  BY <1>2, StartFacts DEF Walks
<1> HIDE DEF old
<1>5. ToSet(gone) \in SUBSET PK /\ DOMAIN new \in SUBSET PK
  BY StoreFacts DEF ToSet
<1>6. ASSUME after.ok, NEW sk \in SK, LevelKeeps(ix, d, new, ToSet(gone), m, t, sk)
      PROVE  NewlyRight(FALSE, after.ix, d, new, ToSet(gone), t, sk)
  <2>1. LoopsKeep(FALSE, f[0].ix, d, old, new, ToSet(gone), m, t, sk)
    <3>1. (\A p \in DOMAIN new : old[p] = KeysOf(d, p)) /\ \A p \in ToSet(gone) : old[p] = KeysOf(d, p)
      BY <1>3, <1>5
    <3>2. CASE t
      <4>1. \/ \A p \in DOMAIN new : Count(old[p], sk) = 0
            \/ \A p \in DOMAIN new : Count(new[p], sk) = 0
        BY <1>6, <3>1, <3>2 DEF LevelKeeps
      <4> QED BY <1>4, <3>2, <4>1 DEF LoopsKeep
    <3>3. CASE ~t
      <4>1. /\ ListedRight(FALSE, f[0].ix, d, sk)
            /\ \A p \in ToSet(gone) : Count(old[p], sk) <= 1
            /\ \A p \in DOMAIN new : Count(old[p], sk) <= 1 \/ SameKeys(old[p], new[p], m)
        BY <1>4, <1>6, <3>1, <3>3 DEF LevelKeeps
      <4> QED BY <1>3, <3>3, <4>1 DEF LoopsKeep
    <3> QED BY <3>2, <3>3
  <2>2. Loops(FALSE, u, m, t, d, new, gone, puts, old, f, g)
    BY <1>2, <1>3, <1>6 DEF Loops, Walks, old
  <2>3. NewlyRight(FALSE, g[Len(puts)].ix, d, new, ToSet(gone), t, sk)
    BY <2>1, <2>2, LoopsListRight
  <2>4. g[Len(puts)] = after
    BY <1>2 DEF Walks
  <2> QED BY <2>3, <2>4
<1> QED BY <1>1, <1>6 DEF after

\* When LMDB keeps the list of a key right: after a truncation, if no object is taken for unchanged that
\* has it; else, unless removals of two objects are recorded under it.
LmdbKeeps(ix, d, new, gone, u, m, t, sk) ==
    IF t THEN \A p \in DOMAIN new : SameKeys(KeysOf(d, p), new[p], m) => Count(new[p], sk) = 0
    ELSE /\ ListedRight(FALSE, ix, d, sk)
         /\ u \/ \A p, q \in gone \cup {p \in DOMAIN new : ~SameKeys(KeysOf(d, p), new[p], m)} :
                   Count(KeysOf(d, p), sk) > 0 /\ Count(KeysOf(d, q), sk) > 0 => p = q

\* PersistentIndex of LMDB
LEMMA LmdbListsRight ==
    ASSUME NEW u \in BOOLEAN, NEW m \in BOOLEAN, NEW t \in BOOLEAN, NEW ix \in Tables(u),
           NEW d \in Stores, NEW new \in Stores,
           NEW gone \in Seq(PK), NEW puts \in Seq(DOMAIN new),
           ToSet(puts) = DOMAIN new, ToSet(gone) \cap DOMAIN new = {}
    PROVE  LET after == LmdbApply(ix, d, new, gone, puts, t, u, m)
           IN  /\ after \in Accumulators(u)
               /\ after.ok => \A sk \in SK : LmdbKeeps(ix, d, new, ToSet(gone), u, m, t, sk) =>
                                NewlyRight(FALSE, after.ix, d, new, ToSet(gone), t, sk)
<1> DEFINE e == LmdbEncode(d, new, gone, puts, m)
           base == IF t THEN NoEntries ELSE ix
           cleared == [sk \in SK |-> IF sk \notin DOMAIN e.removed THEN base[sk]
                                     ELSE IF u THEN <<>> ELSE Dropped(base[sk], e.removed[sk])]
           after == LmdbStored(Good(cleared), e.modified, u)
           G == ToSet(gone)
           N == {p \in DOMAIN new : ~SameKeys(KeysOf(d, p), new[p], m)}
           Cnt(p, sk) == Count(KeysOf(d, p), sk)
<1>1. LmdbApply(ix, d, new, gone, puts, t, u, m) = after
  BY DEF LmdbApply, LmdbStored
<1>2. base \in Tables(u) /\ (t => \A sk \in SK : base[sk] = <<>>) /\ (~t => base = ix)
  BY NoEntriesFacts
<1>3. Recorded(e, d, new, G \cup N, N)
  BY EncodeRecorded
<1>4. /\ G \in SUBSET PK /\ DOMAIN new \in SUBSET PK
      /\ \A p \in DOMAIN new : new[p] \in Seq(SK)
      /\ \A p \in PK : KeysOf(d, p) \in Seq(SK)
  BY StoreFacts, OldFacts DEF ToSet
<1>5. /\ N \in SUBSET DOMAIN new
      /\ \A p \in DOMAIN new : p \notin N => SameKeys(KeysOf(d, p), new[p], m)
      /\ G \cap DOMAIN new = {}
  OBVIOUS
<1>6. \A sk : LmdbKeeps(ix, d, new, G, u, m, t, sk) <=>
         IF t THEN \A p \in DOMAIN new : SameKeys(KeysOf(d, p), new[p], m) => Count(new[p], sk) = 0
         ELSE /\ ListedRight(FALSE, ix, d, sk)
              /\ u \/ \A p, q \in G \cup N : Cnt(p, sk) > 0 /\ Cnt(q, sk) > 0 => p = q
  BY DEF LmdbKeeps
<1>7. /\ \A p \in PK, sk \in SK : Cnt(p, sk) \in Nat /\ (Cnt(p, sk) = 0 <=> sk \notin ToSet(KeysOf(d, p)))
      /\ \A p \in DOMAIN new, sk \in SK : Count(new[p], sk) \in Nat /\ (Count(new[p], sk) = 0 <=> sk \notin ToSet(new[p]))
  BY <1>4, CountFacts
<1> HIDE DEF e, base, G, N, Cnt
<1>8. /\ e \in Changes /\ e.modified \in Seq(KeyPairs) /\ DOMAIN e.removed \in SUBSET SK
      /\ \A sk \in DOMAIN e.removed : e.removed[sk] \in PK
      /\ \A sk \in SK : sk \in DOMAIN e.removed <=> \E p \in G \cup N : Cnt(p, sk) > 0
      /\ \A sk \in DOMAIN e.removed : e.removed[sk] \in G \cup N /\ Cnt(e.removed[sk], sk) > 0
      /\ \A sk \in SK, p \in PK : <<sk, p>> \in ToSet(e.modified) <=> p \in N /\ Count(new[p], sk) > 0
  <2>1. /\ e \in Changes
        /\ \A sk \in SK : sk \in DOMAIN e.removed <=> \E p \in G \cup N : sk \in ToSet(KeysOf(d, p))
        /\ \A sk \in DOMAIN e.removed : e.removed[sk] \in G \cup N /\ sk \in ToSet(KeysOf(d, e.removed[sk]))
        /\ \A sk \in SK, p \in PK : <<sk, p>> \in ToSet(e.modified) <=> p \in N /\ sk \in ToSet(new[p])
    BY <1>3 DEF Recorded
  <2>2. /\ e.modified \in Seq(KeyPairs) /\ DOMAIN e.removed \in SUBSET SK
        /\ \A sk \in DOMAIN e.removed : e.removed[sk] \in PK
    BY <2>1, ChangesFacts
  <2>3. G \cup N \in SUBSET PK
    BY <1>4, <1>5
  <2>4. \A p \in PK, sk \in SK : sk \in ToSet(KeysOf(d, p)) <=> Cnt(p, sk) > 0
    BY <1>7
  <2>5. \A p \in N, sk \in SK : sk \in ToSet(new[p]) <=> Count(new[p], sk) > 0
    BY <1>5, <1>7
  <2>6. \A sk \in SK : sk \in DOMAIN e.removed <=> \E p \in G \cup N : Cnt(p, sk) > 0
    BY <2>1, <2>3, <2>4
  <2>7. \A sk \in DOMAIN e.removed : e.removed[sk] \in G \cup N /\ Cnt(e.removed[sk], sk) > 0
    BY <2>1, <2>2, <2>4
  <2>8. \A sk \in SK, p \in PK : <<sk, p>> \in ToSet(e.modified) <=> p \in N /\ Count(new[p], sk) > 0
    BY <2>1, <2>5
  <2> QED BY <2>1, <2>2, <2>6, <2>7, <2>8
<1>9. /\ cleared \in Tables(u)
      /\ \A sk \in SK : cleared[sk] = IF sk \notin DOMAIN e.removed THEN base[sk]
                                      ELSE IF u THEN <<>> ELSE Dropped(base[sk], e.removed[sk])
  <2>1. ASSUME NEW sk \in SK
        PROVE  (IF sk \notin DOMAIN e.removed THEN base[sk]
                ELSE IF u THEN <<>> ELSE Dropped(base[sk], e.removed[sk])) \in Entries(u)
    <3>1. base[sk] \in Entries(u)
      BY <1>2 DEF Tables
    <3>2. sk \in DOMAIN e.removed => Dropped(base[sk], e.removed[sk]) \in Entries(u)
      BY <1>8, <3>1, DroppedEntries
    <3> QED BY <3>1, <3>2, ShortEntries
  <2> QED BY <2>1 DEF Tables
<1> HIDE DEF cleared
<1>10. Good(cleared) \in Accumulators(u) /\ Good(cleared).ix = cleared
  BY <1>9, GoodFacts
<1>11. /\ after \in Accumulators(u)
       /\ after.ok => \A sk \in SK, x \in PK :
            Count(after.ix[sk], x) = IF <<sk, x>> \in ToSet(e.modified) /\ Count(cleared[sk], x) = 0 THEN 1
                                     ELSE Count(cleared[sk], x)
  <2> DEFINE acc == Good(cleared)
             q == e.modified
  <2>1. acc \in Accumulators(u) /\ q \in Seq(KeyPairs) /\ acc.ix = cleared
    BY <1>8, <1>10
  <2> HIDE DEF acc, q
  <2>2. LET a == LmdbStored(acc, q, u)
        IN  /\ a \in Accumulators(u)
            /\ a.ok => \A sk \in SK, x \in PK :
                 Count(a.ix[sk], x) = IF <<sk, x>> \in ToSet(q) /\ Count(acc.ix[sk], x) = 0 THEN 1
                                      ELSE Count(acc.ix[sk], x)
    BY <2>1, StoringCounts
  <2> QED BY <2>1, <2>2 DEF acc, q
<1> HIDE DEF after
<1>12. ASSUME after.ok, NEW sk \in SK, LmdbKeeps(ix, d, new, G, u, m, t, sk)
       PROVE  NewlyRight(FALSE, after.ix, d, new, G, t, sk)
  <2> DEFINE K(x) == NewKeys(d, new, G, t, x)
  <2>1. \A x \in PK : Count(after.ix[sk], x) =
                        IF x \in N /\ Count(new[x], sk) > 0 /\ Count(cleared[sk], x) = 0 THEN 1
                        ELSE Count(cleared[sk], x)
    BY <1>8, <1>11, <1>12
  <2>2. \A x : Count(<<>>, x) = 0
    BY EmptyCount
  <2>3. CASE t
    <3>1. base[sk] = <<>> /\ base[sk] \in Entries(u)
      BY <1>2, <2>3 DEF Tables
    <3>2. \A x \in PK : Count(cleared[sk], x) = 0
      <4>1. CASE sk \in DOMAIN e.removed /\ ~u
        <5>1. base[sk] \in KeyLists /\ e.removed[sk] \in PK /\ cleared[sk] = Dropped(base[sk], e.removed[sk])
          BY <1>8, <1>9, <3>1, <4>1, EntriesFacts
        <5>2. \A x \in PK : Count(base[sk], x) = 0
          BY <2>2, <3>1
        <5> QED BY <5>1, <5>2, DroppedCounts
      <4>2. CASE ~(sk \in DOMAIN e.removed /\ ~u)
        <5>1. cleared[sk] = <<>>
          BY <1>9, <3>1, <4>2
        <5> QED BY <2>2, <5>1
      <4> QED BY <4>1, <4>2
    <3>3. \A p \in DOMAIN new : p \notin N => Count(new[p], sk) = 0
      BY <1>5, <1>6, <1>12, <2>3
    <3>4. \A x \in PK : K(x) = IF x \in DOMAIN new THEN new[x] ELSE <<>>
      BY <2>3 DEF NewKeys
    <3> HIDE DEF K
    <3>5. \A x \in PK : Count(after.ix[sk], x) = Often(FALSE, Count(K(x), sk))
      <4> TAKE x \in PK
      <4>1. CASE x \in DOMAIN new
        <5>1. Count(after.ix[sk], x) = IF Count(new[x], sk) > 0 THEN 1 ELSE 0
          BY <2>1, <3>2, <3>3, <4>1
        <5>2. K(x) = new[x] /\ Count(new[x], sk) \in Nat
          BY <1>7, <3>4, <4>1
        <5> QED BY <5>1, <5>2 DEF Often
      <4>2. CASE x \notin DOMAIN new
        <5>1. Count(after.ix[sk], x) = 0 /\ Count(K(x), sk) = 0
          BY <1>5, <2>1, <2>2, <3>2, <3>4, <4>2
        <5> QED BY <5>1, OftenFacts
      <4> QED BY <4>1, <4>2
    <3> QED BY <3>5 DEF NewlyRight, K
  <2>4. CASE ~t
    <3>1. \A x \in PK : Count(ix[sk], x) = Often(FALSE, Cnt(x, sk))
      BY <1>6, <1>12, <2>4 DEF ListedRight, Cnt
    <3>2. \A x \in PK : Cnt(x, sk) \in Nat /\ Count(ix[sk], x) = IF Cnt(x, sk) > 0 THEN 1 ELSE 0
      BY <1>7, <3>1 DEF Often
    <3>3. ix[sk] \in Entries(u) /\ base[sk] = ix[sk]
      BY <1>2, <2>4 DEF Tables
    <3>4. ix[sk] \in KeyLists /\ (u => Len(ix[sk]) <= 1) /\ Len(ix[sk]) \in Nat
      BY <3>3, EntriesFacts
    <3>5. \A x \in PK : Count(cleared[sk], x) = IF x \in G \cup N THEN 0 ELSE Count(ix[sk], x)
      <4>1. CASE sk \notin DOMAIN e.removed
        <5>1. \A x \in G \cup N : Cnt(x, sk) = 0
          BY <1>4, <1>5, <1>8, <3>2, <4>1
        <5> QED BY <1>9, <3>2, <3>3, <4>1, <5>1
      <4>2. CASE sk \in DOMAIN e.removed
        <5> DEFINE p == e.removed[sk]
        <5>1. p \in G \cup N /\ p \in PK /\ Cnt(p, sk) > 0 /\ Count(ix[sk], p) = 1
          BY <1>8, <3>2, <4>2
        <5> HIDE DEF p
        <5>2. CASE u
          <6>1. cleared[sk] = <<>>
            BY <1>9, <4>2, <5>2
          <6>2. \A x \in PK : Count(ix[sk], x) = IF x = p THEN 1 ELSE 0
            BY <3>4, <5>1, <5>2, OneEntry
          <6> QED BY <2>2, <5>1, <6>1, <6>2
        <5>3. CASE ~u
          <6>1. cleared[sk] = Dropped(ix[sk], p)
            BY <1>9, <3>3, <4>2, <5>3 DEF p
          <6>2. \A x \in PK : Count(Dropped(ix[sk], p), x) =
                                IF x = p /\ Count(ix[sk], x) > 0 THEN Count(ix[sk], x) - 1 ELSE Count(ix[sk], x)
            BY <3>4, <5>1, DroppedCounts
          <6>3. \A x \in G \cup N : x # p => Cnt(x, sk) = 0
            <7>1. \A x, y \in G \cup N : Cnt(x, sk) > 0 /\ Cnt(y, sk) > 0 => x = y
              BY <1>6, <1>12, <2>4, <5>3
            <7>2. \A x \in G \cup N : Cnt(x, sk) \in Nat
              BY <1>4, <1>5, <3>2
            <7> QED BY <5>1, <7>1, <7>2
          <6> QED BY <3>2, <5>1, <6>1, <6>2, <6>3
        <5> QED BY <5>2, <5>3
      <4> QED BY <4>1, <4>2
    <3>6. \A x \in PK : K(x) = IF x \in DOMAIN new THEN new[x] ELSE IF x \in G THEN <<>> ELSE KeysOf(d, x)
      BY <2>4 DEF NewKeys
    <3> HIDE DEF K
    <3>7. \A x \in PK : Count(after.ix[sk], x) = Often(FALSE, Count(K(x), sk))
      <4> TAKE x \in PK
      <4>1. CASE x \in N
        <5>1. Count(after.ix[sk], x) = IF Count(new[x], sk) > 0 THEN 1 ELSE 0
          BY <2>1, <3>5, <4>1
        <5>2. K(x) = new[x] /\ Count(new[x], sk) \in Nat
          BY <1>5, <1>7, <3>6, <4>1
        <5> QED BY <5>1, <5>2 DEF Often
      <4>2. CASE x \in DOMAIN new /\ x \notin N
        <5>1. Count(after.ix[sk], x) = Count(ix[sk], x)
          BY <1>5, <2>1, <3>5, <4>2
        <5>2. K(x) = new[x] /\ new[x] = KeysOf(d, x)
          BY <1>5, <3>6, <4>2 DEF SameKeys
        <5> QED BY <3>1, <5>1, <5>2 DEF Cnt
      <4>3. CASE x \notin DOMAIN new /\ x \in G
        <5>1. Count(after.ix[sk], x) = 0 /\ Count(K(x), sk) = 0
          BY <1>5, <2>1, <2>2, <3>5, <3>6, <4>3
        <5> QED BY <5>1, OftenFacts
      <4>4. CASE x \notin DOMAIN new /\ x \notin G
        <5>1. Count(after.ix[sk], x) = Count(ix[sk], x) /\ K(x) = KeysOf(d, x)
          BY <1>5, <2>1, <3>5, <3>6, <4>4
        <5> QED BY <3>1, <5>1 DEF Cnt
      <4> QED BY <1>5, <4>1, <4>2, <4>3, <4>4
    <3> QED BY <3>7 DEF NewlyRight, K
  <2> QED BY <2>3, <2>4
<1> QED BY <1>1, <1>11, <1>12 DEF G

-----------------------------------------------------------------------------
(* IndexedDB *)

\* What may be stored: finitely many objects.
FiniteStores == {d \in Stores : IsFiniteSet(DOMAIN d)}
Progress(S) == [ix : S, ok : BOOLEAN]

\* One object is put, or the uniqueness error is thrown; and all objects, one by one.
IdbStored(a, pk, sks, u) ==
    IF ~a.ok \/ (u /\ \E sk \in ToSet(sks) : Holders(a.ix, sk) \ {pk} # {}) THEN [a EXCEPT !.ok = FALSE]
    ELSE [a EXCEPT !.ix = Written(@, pk, sks)]
IdbReplaced(new, acc, puts, u) == FoldLeft(LAMBDA a, pk : IdbStored(a, pk, new[pk], u), acc, puts)

LEMMA WrittenFacts ==
    ASSUME NEW d \in FiniteStores, NEW pk \in PK, NEW sks \in Seq(SK)
    PROVE  /\ Written(d, pk, sks) \in FiniteStores
           /\ \A x : KeysOf(Written(d, pk, sks), x) = IF x = pk THEN sks ELSE KeysOf(d, x)
<1> DEFINE S == DOMAIN d \cup {pk}
           w == Written(d, pk, sks)
<1>1. d \in Stores /\ IsFiniteSet(DOMAIN d) /\ DOMAIN d \in SUBSET PK /\ \A p \in DOMAIN d : d[p] \in Seq(SK)
  BY StoreFacts DEF FiniteStores
<1>2. S \in SUBSET PK /\ IsFiniteSet(S)
  BY <1>1, FS_AddElement
<1>3. w = [p \in S |-> IF p = pk THEN sks ELSE d[p]]
  BY DEF Written
<1>4. \A p \in S : (IF p = pk THEN sks ELSE d[p]) \in Seq(SK)
  BY <1>1
<1> HIDE DEF S, w
<1>5. w \in [S -> Seq(SK)]
  BY <1>3, <1>4
<1>6. w \in FiniteStores
  BY <1>2, <1>5 DEF FiniteStores, Stores
<1>7. ASSUME NEW x PROVE KeysOf(w, x) = IF x = pk THEN sks ELSE KeysOf(d, x)
  BY <1>3 DEF KeysOf, S
<1> QED BY <1>6, <1>7 DEF w

LEMMA IdbStoredFacts ==
    ASSUME NEW u \in BOOLEAN, NEW a \in Progress(FiniteStores), NEW pk \in PK, NEW sks \in Seq(SK)
    PROVE  LET b == IdbStored(a, pk, sks, u)
           IN  /\ b \in Progress(FiniteStores)
               /\ b.ok => a.ok /\ \A x : KeysOf(b.ix, x) = IF x = pk THEN sks ELSE KeysOf(a.ix, x)
<1> DEFINE clash == u /\ \E sk \in ToSet(sks) : Holders(a.ix, sk) \ {pk} # {}
           b == IdbStored(a, pk, sks, u)
           S == FiniteStores
           w == Written(a.ix, pk, sks)
<1>1. b = IF ~a.ok \/ clash THEN [a EXCEPT !.ok = FALSE] ELSE [a EXCEPT !.ix = w]
  BY DEF IdbStored
<1>2. a \in [ix : S, ok : BOOLEAN] /\ a.ix \in FiniteStores /\ a.ok \in BOOLEAN
  BY DEF Progress
<1>3. w \in S /\ \A x : KeysOf(w, x) = IF x = pk THEN sks ELSE KeysOf(a.ix, x)
  BY <1>2, WrittenFacts
<1> HIDE DEF clash, b, S, w
<1>4. CASE ~a.ok \/ clash
  <2>1. b = [a EXCEPT !.ok = FALSE]
    BY <1>1, <1>4
  <2>2. b \in [ix : S, ok : BOOLEAN] /\ ~b.ok
    BY <1>2, <2>1
  <2> QED BY <2>2 DEF b, Progress, S
<1>5. CASE ~(~a.ok \/ clash)
  <2>1. b = [a EXCEPT !.ix = w] /\ a.ok
    BY <1>1, <1>5
  <2>2. b \in [ix : S, ok : BOOLEAN] /\ b.ix = w
    BY <1>2, <1>3, <2>1
  <2> QED BY <1>3, <2>1, <2>2 DEF b, Progress, S
<1> QED BY <1>4, <1>5

\* The objects are put one by one.
LEMMA IdbPuttingSteps ==
    ASSUME NEW u \in BOOLEAN, NEW acc \in Progress(FiniteStores), NEW new \in Stores, NEW q \in Seq(DOMAIN new)
    PROVE  \E f \in [0..Len(q) -> Progress(FiniteStores)] :
              /\ f[0] = acc /\ f[Len(q)] = IdbReplaced(new, acc, q, u)
              /\ \A i \in 1..Len(q) : f[i] = IdbStored(f[i - 1], q[i], new[q[i]], u)
<1> DEFINE Step(a, pk) == IdbStored(a, pk, new[pk], u)
           n == Len(q)
           C == Progress(FiniteStores)
           c == acc
           g == [i \in 1..n |-> [a \in C |-> Step(a, q[i])]]
           F(k) == [s \in SUBSET DOMAIN q |-> IF s = {} THEN c ELSE Step(k[s \ {Max(s)}], q[Max(s)])]
           V == CHOOSE k : k = F(k)
<1>1. n \in Nat /\ DOMAIN q = 1..n /\ \A i \in 1..n : q[i] \in DOMAIN new
  OBVIOUS
<1>2. c \in C
  OBVIOUS
<1>3. ASSUME NEW a \in C, NEW pk \in DOMAIN new PROVE Step(a, pk) \in C
  <2>1. pk \in PK /\ new[pk] \in Seq(SK)
    BY StoreFacts
  <2> QED BY <2>1, IdbStoredFacts
<1>4. IdbReplaced(new, acc, q, u) = V[DOMAIN q]
  BY DEF IdbReplaced, Step, FoldLeft, MapThenFoldSet
<1>5. ASSUME NEW f, \A i \in 1..n : f[i] = Step(f[i - 1], q[i])
      PROVE  \A i \in 1..n : f[i] = IdbStored(f[i - 1], q[i], new[q[i]], u)
  BY <1>5
<1> HIDE DEF Step, n, C, c
<1>6. g \in [1..n -> [C -> C]]
  BY <1>1, <1>3
<1>7. \A i \in 1..n, a \in C : g[i][a] = Step(a, q[i])
  OBVIOUS
<1> HIDE DEF g
<1> PICK f, h : Folds(f, h, n, C, c, g)
  BY <1>1, <1>2, <1>6, FoldSteps
<1>8. /\ f \in [0..n -> C] /\ f[0] = c /\ \A i \in 1..n : f[i] = g[i][f[i - 1]]
      /\ h \in [SUBSET (1..n) -> C]
      /\ \A s \in SUBSET (1..n) : h[s] = IF s = {} THEN c ELSE g[Max(s)][h[s \ {Max(s)}]]
      /\ h[1..n] = f[n]
  BY DEF Folds
<1>9. \A s \in SUBSET (1..n) : s # {} => Max(s) \in 1..n /\ s \ {Max(s)} \in SUBSET (1..n)
  BY <1>1, GreatestPosition
<1>10. \A s \in SUBSET (1..n) : h[s] = IF s = {} THEN c ELSE Step(h[s \ {Max(s)}], q[Max(s)])
  <2>1. \A s \in SUBSET (1..n) : s # {} => h[s \ {Max(s)}] \in C
    BY <1>8, <1>9
  <2> QED BY <1>7, <1>8, <1>9, <2>1
<1>11. h = F(h)
  <2>1. \A s \in SUBSET DOMAIN q : h[s] = F(h)[s]
    BY <1>1, <1>10
  <2>2. h = [s \in SUBSET DOMAIN q |-> h[s]]
    BY <1>1, <1>8
  <2> QED BY <2>1, <2>2
<1>12. V = F(V)
  BY <1>11
<1> HIDE DEF V
<1>13. V[1..n] = f[n]
  <2>1. \A s \in SUBSET DOMAIN q : V[s] = F(V)[s]
    BY <1>12
  <2>2. \A s \in SUBSET (1..n) : V[s] = IF s = {} THEN c ELSE Step(V[s \ {Max(s)}], q[Max(s)])
    BY <1>1, <2>1
  <2>3. V[{}] = h[{}]
    BY <1>10, <2>2
  <2>4. \A s \in SUBSET (1..n) : s # {} /\ V[s \ {Max(s)}] = h[s \ {Max(s)}] => V[s] = h[s]
    BY <1>10, <2>2
  <2> HIDE DEF F
  <2>5. V[1..n] = h[1..n]
    BY <1>1, <2>3, <2>4, FoldIsUnique
  <2> QED BY <1>8, <2>5
<1>14. \A i \in 1..n : f[i] = Step(f[i - 1], q[i])
  <2>1. \A i \in 1..n : f[i - 1] \in C
    <3>1. \A i \in 1..n : i - 1 \in 0..n
      BY <1>1
    <3> QED BY <1>8, <3>1
  <2> QED BY <1>7, <1>8, <2>1
<1>15. \A i \in 1..n : f[i] = IdbStored(f[i - 1], q[i], new[q[i]], u)
  BY <1>5, <1>14
<1>16. f[n] = IdbReplaced(new, acc, q, u)
  BY <1>1, <1>4, <1>13
<1> QED BY <1>8, <1>15, <1>16 DEF n, C, c

LEMMA IdbPuttingKeys ==
    ASSUME NEW u \in BOOLEAN, NEW acc \in Progress(FiniteStores), NEW new \in Stores, NEW q \in Seq(DOMAIN new)
    PROVE  LET end == IdbReplaced(new, acc, q, u)
           IN  /\ end \in Progress(FiniteStores)
               /\ end.ok => \A x : KeysOf(end.ix, x) = IF x \in ToSet(q) THEN new[x] ELSE KeysOf(acc.ix, x)
<1> DEFINE C == Progress(FiniteStores)
           n == Len(q)
           end == IdbReplaced(new, acc, q, u)
           Done(i) == {q[j] : j \in 1..i}
<1>1. PICK f \in [0..n -> C] :
        /\ f[0] = acc /\ f[n] = end
        /\ \A i \in 1..n : f[i] = IdbStored(f[i - 1], q[i], new[q[i]], u)
  BY IdbPuttingSteps
<1>2. n \in Nat /\ \A i \in 1..n : q[i] \in PK /\ new[q[i]] \in Seq(SK)
  BY StoreFacts
<1> HIDE DEF end, C
<1> DEFINE P == {i \in 0..n : f[i].ok => \A x : KeysOf(f[i].ix, x) = IF x \in Done(i) THEN new[x] ELSE KeysOf(acc.ix, x)}
<1>3. 0 \in P
  <2>1. Done(0) = {} /\ 0 \in 0..n
    BY <1>2
  <2> QED BY <1>1, <2>1
<1>4. ASSUME NEW i \in 1..n, i - 1 \in P PROVE i \in P
  <2> DEFINE a == f[i - 1]
             b == f[i]
             pk == q[i]
             sks == new[pk]
  <2>1. i - 1 \in 0..n /\ i \in 0..n
    BY <1>2
  <2>2. a \in C /\ b = IdbStored(a, pk, sks, u) /\ pk \in PK /\ sks \in Seq(SK) /\ sks = new[pk]
    BY <1>1, <1>2, <2>1
  <2>3. a.ok => \A x : KeysOf(a.ix, x) = IF x \in Done(i - 1) THEN new[x] ELSE KeysOf(acc.ix, x)
    BY <1>4
  <2>4. Done(i) = Done(i - 1) \cup {pk}
    <3>1. 1..i = 1..(i - 1) \cup {i}
      BY <1>2
    <3> QED BY <3>1
  <2> HIDE DEF a, b, pk, sks, Done
  <2>5. b.ok => a.ok /\ \A x : KeysOf(b.ix, x) = IF x = pk THEN sks ELSE KeysOf(a.ix, x)
    BY <2>2, IdbStoredFacts DEF C
  <2>6. b.ok => \A x : KeysOf(b.ix, x) = IF x \in Done(i) THEN new[x] ELSE KeysOf(acc.ix, x)
    BY <2>2, <2>3, <2>4, <2>5
  <2> QED BY <2>1, <2>6 DEF b
<1> HIDE DEF P
<1>5. 0..n \subseteq P
  BY <1>2, <1>3, <1>4, StepInduction
<1>6. n \in P /\ Done(n) = ToSet(q)
  <2>1. n \in 0..n
    BY <1>2
  <2> QED BY <1>5, <2>1 DEF ToSet
<1> HIDE DEF Done
<1>7. end.ok => \A x : KeysOf(end.ix, x) = IF x \in ToSet(q) THEN new[x] ELSE KeysOf(acc.ix, x)
  BY <1>1, <1>6 DEF P
<1>8. end \in C
  <2>1. n \in 0..n
    BY <1>2
  <2> QED BY <1>1, <2>1
<1> QED BY <1>7, <1>8 DEF end, C

\* The objects that an application starts from.
LEMMA BaseFacts ==
    ASSUME NEW d \in FiniteStores, NEW t \in BOOLEAN, NEW gone \in Seq(PK)
    PROVE  /\ Base(d, gone, t) \in FiniteStores
           /\ \A x : KeysOf(Base(d, gone, t), x) = IF t \/ x \in ToSet(gone) THEN <<>> ELSE KeysOf(d, x)
<1> DEFINE b == Base(d, gone, t)
           S == DOMAIN d \ ToSet(gone)
<1>1. d \in Stores /\ IsFiniteSet(DOMAIN d) /\ DOMAIN d \in SUBSET PK /\ \A p \in DOMAIN d : d[p] \in Seq(SK)
  BY StoreFacts DEF FiniteStores
<1>2. CASE t
  <2>1. b = <<>> /\ DOMAIN b = {} /\ b \in [{} -> Seq(SK)]
    BY <1>2 DEF Base
  <2>2. b \in FiniteStores
    BY <2>1, FS_EmptySet DEF FiniteStores, Stores
  <2> QED BY <1>2, <2>1, <2>2 DEF KeysOf
<1>3. CASE ~t
  <2>1. b = [p \in S |-> d[p]] /\ S \in SUBSET PK
    BY <1>1, <1>3 DEF Base
  <2>2. b \in [S -> Seq(SK)] /\ DOMAIN b = S
    BY <1>1, <2>1
  <2>3. IsFiniteSet(S)
    BY <1>1, FS_Subset
  <2>4. b \in FiniteStores
    BY <2>1, <2>2, <2>3 DEF FiniteStores, Stores
  <2>5. \A x : KeysOf(b, x) = IF x \in ToSet(gone) THEN <<>> ELSE KeysOf(d, x)
    BY <2>1, <2>2 DEF KeysOf
  <2> QED BY <1>3, <2>4, <2>5
<1> QED BY <1>2, <1>3

\* The index that IndexedDB builds lists each object once under each of its secondary keys.
LEMMA IndexedCounts ==
    ASSUME NEW d \in FiniteStores
    PROVE  Indexed(d) \in Tables(FALSE) /\ \A sk \in SK : ListedRight(FALSE, Indexed(d), d, sk)
<1>1. d \in Stores /\ IsFiniteSet(DOMAIN d) /\ DOMAIN d \in SUBSET PK /\ \A p \in DOMAIN d : d[p] \in Seq(SK)
  BY StoreFacts DEF FiniteStores
<1>2. Indexed(d) = [sk \in SK |-> Ascending(Holders(d, sk))]
  BY DEF Indexed
<1>3. ASSUME NEW sk \in SK
      PROVE  /\ Ascending(Holders(d, sk)) \in KeyLists
             /\ \A x \in PK : Count(Ascending(Holders(d, sk)), x) = IF x \in Holders(d, sk) THEN 1 ELSE 0
  <2> DEFINE H == Holders(d, sk)
  <2>1. H \in SUBSET DOMAIN d
    BY DEF Holders
  <2>2. H \in SUBSET PK /\ IsFiniteSet(H)
    <3> HIDE DEF H
    <3> QED BY <1>1, <2>1, FS_Subset
  <2> HIDE DEF H
  <2>3. Ascending(H) \in KeyLists /\ \A x \in PK : Count(Ascending(H), x) = IF x \in H THEN 1 ELSE 0
    BY <2>2, AscendingCounts
  <2> QED BY <2>3 DEF H
<1>4. Indexed(d) \in Tables(FALSE)
  <2>1. \A sk \in SK : Ascending(Holders(d, sk)) \in Entries(FALSE)
    BY <1>3 DEF Entries
  <2> QED BY <1>2, <2>1 DEF Tables
<1>5. ASSUME NEW sk \in SK, NEW x \in PK
      PROVE  Count(Indexed(d)[sk], x) = Often(FALSE, Count(KeysOf(d, x), sk))
  <2> DEFINE K == KeysOf(d, x)
  <2>1. K \in Seq(SK)
    BY <1>1, OldFacts
  <2>2. x \in Holders(d, sk) <=> sk \in ToSet(K)
    BY <1>1 DEF Holders, KeysOf, ToSet
  <2> HIDE DEF K
  <2>3. Count(K, sk) \in Nat /\ (Count(K, sk) = 0 <=> sk \notin ToSet(K))
    BY <2>1, CountFacts
  <2>4. Count(Indexed(d)[sk], x) = IF x \in Holders(d, sk) THEN 1 ELSE 0
    BY <1>2, <1>3
  <2> QED BY <2>2, <2>3, <2>4 DEF Often, K
<1> QED BY <1>4, <1>5 DEF ListedRight

LEMMA IdbListsRight ==
    ASSUME NEW u \in BOOLEAN, NEW t \in BOOLEAN, NEW d \in FiniteStores, NEW new \in Stores,
           NEW gone \in Seq(PK), NEW puts \in Seq(DOMAIN new), ToSet(puts) = DOMAIN new
    PROVE  LET after == IdbApply(d, new, gone, puts, t, u)
           IN  /\ after.ix \in Tables(FALSE) /\ after.ok \in BOOLEAN
               /\ after.ok => \A sk \in SK : NewlyRight(FALSE, after.ix, d, new, ToSet(gone), t, sk)
<1> DEFINE base == Base(d, gone, t)
           acc == Good(base)
           end == IdbReplaced(new, acc, puts, u)
           after == IdbApply(d, new, gone, puts, t, u)
<1>1. after = [ix |-> Indexed(end.ix), ok |-> end.ok]
  BY DEF IdbApply, IdbReplaced, IdbStored
<1>2. /\ base \in FiniteStores
      /\ \A x : KeysOf(base, x) = IF t \/ x \in ToSet(gone) THEN <<>> ELSE KeysOf(d, x)
  BY BaseFacts
<1> HIDE DEF base, after
<1>3. acc \in Progress(FiniteStores) /\ acc.ix = base
  <2> DEFINE S == FiniteStores
  <2>1. base \in S
    BY <1>2
  <2> HIDE DEF S
  <2>2. acc \in [ix : S, ok : BOOLEAN] /\ acc.ix = base
    BY <2>1 DEF Good
  <2> QED BY <2>2 DEF Progress, S
<1> HIDE DEF acc
<1>4. /\ end \in Progress(FiniteStores)
      /\ end.ok => \A x : KeysOf(end.ix, x) = IF x \in ToSet(puts) THEN new[x] ELSE KeysOf(acc.ix, x)
  BY <1>3, IdbPuttingKeys
<1> HIDE DEF end
<1>5. end.ix \in FiniteStores /\ end.ok \in BOOLEAN
  BY <1>4 DEF Progress
<1>6. Indexed(end.ix) \in Tables(FALSE) /\ \A sk \in SK : ListedRight(FALSE, Indexed(end.ix), end.ix, sk)
  BY <1>5, IndexedCounts
<1>7. after.ix = Indexed(end.ix) /\ after.ok = end.ok
  BY <1>1
<1>8. ASSUME after.ok, NEW sk \in SK PROVE NewlyRight(FALSE, after.ix, d, new, ToSet(gone), t, sk)
  <2>1. \A x \in PK : KeysOf(end.ix, x) = NewKeys(d, new, ToSet(gone), t, x)
    BY <1>2, <1>3, <1>4, <1>7, <1>8 DEF NewKeys
  <2>2. \A x \in PK : Count(after.ix[sk], x) = Often(FALSE, Count(KeysOf(end.ix, x), sk))
    BY <1>6, <1>7 DEF ListedRight
  <2> QED BY <2>1, <2>2 DEF NewlyRight
<1> QED BY <1>5, <1>6, <1>7, <1>8 DEF after

-----------------------------------------------------------------------------
(* The inductive invariant. *)

\* The lists of a backend: each object as often as it should be.
Listed(ix, d, sk) == IF kind = "memory" THEN ListedRight(TRUE, ix, d, sk) ELSE ListedRight(FALSE, ix, d, sk)

\* IndexedDB sees to uniqueness itself, so that its tables are not looked into here.
TablesOfKind == IF kind = "indexeddb" THEN Tables(FALSE) ELSE Tables(unique)

StateOK ==
    /\ kind \in Kinds /\ unique \in BOOLEAN /\ multi \in BOOLEAN
    /\ data \in FiniteStores /\ index \in TablesOfKind

\* What is removed is not put: the two loops of an application never meet.
TxOK ==
    /\ modified \in FiniteStores /\ truncated \in BOOLEAN /\ thrown \in BOOLEAN
    /\ removed \in SUBSET PK /\ IsFiniteSet(removed) /\ removed \cap DOMAIN modified = {}
    /\ tree \in Tables(unique)

TreeRight == thrown \/ \A sk \in SK : ListedRight(TRUE, tree, modified, sk)
IndexRight == \A sk \in SK \ suspect : Listed(index, data, sk)

IInv == StateOK /\ TxOK /\ TreeRight /\ IndexRight

LEMMA ObjectsFacts == Objects \in SUBSET Seq(SK)
  BY IndicesAssumption DEF Objects

\* The objects after a commit.
LEMMA NewDataFacts ==
    ASSUME data \in FiniteStores, TxOK
    PROVE  /\ NewData \in FiniteStores
           /\ \A x \in PK : KeysOf(NewData, x) = NewKeys(data, modified, removed, truncated, x)
<1> DEFINE gone == SetToSeq(removed)
           base == Base(data, gone, truncated)
           S == DOMAIN base \cup DOMAIN modified
           Obj(p) == IF p \in DOMAIN modified THEN modified[p] ELSE data[p]
<1>1. /\ modified \in Stores /\ IsFiniteSet(DOMAIN modified) /\ DOMAIN modified \in SUBSET PK
      /\ \A p \in DOMAIN modified : modified[p] \in Seq(SK)
  BY StoreFacts DEF FiniteStores, TxOK
<1>2. ToSet(gone) = removed
  BY SetToSeqFacts DEF TxOK
<1>3. /\ data \in Stores /\ IsFiniteSet(DOMAIN data) /\ DOMAIN data \in SUBSET PK
      /\ \A p \in DOMAIN data : data[p] \in Seq(SK)
  BY StoreFacts DEF FiniteStores
<1> HIDE DEF gone
<1>4. DOMAIN base = IF truncated THEN {} ELSE DOMAIN data \ removed
  BY <1>2 DEF Base
<1>5. NewData = [p \in S |-> Obj(p)]
  BY DEF NewData, gone
<1> HIDE DEF base
<1>6. S \in SUBSET PK /\ IsFiniteSet(S)
  <2>1. IsFiniteSet(DOMAIN base)
    BY <1>3, <1>4, FS_EmptySet, FS_Subset
  <2>2. IsFiniteSet(DOMAIN base \cup DOMAIN modified)
    BY <1>1, <2>1, FS_Union
  <2> QED BY <1>1, <1>3, <1>4, <2>2
<1>7. \A p \in S : Obj(p) \in Seq(SK)
  BY <1>1, <1>3, <1>4
<1>8. ASSUME NEW x \in PK PROVE KeysOf(NewData, x) = NewKeys(data, modified, removed, truncated, x)
  <2>1. KeysOf(NewData, x) = IF x \in S THEN Obj(x) ELSE <<>>
    BY <1>5 DEF KeysOf
  <2>2. truncated \in BOOLEAN
    BY DEF TxOK
  <2>3. CASE x \in DOMAIN modified
    BY <2>1, <2>3 DEF NewKeys
  <2>4. CASE x \notin DOMAIN modified
    BY <1>4, <2>1, <2>2, <2>4 DEF NewKeys, KeysOf
  <2> QED BY <2>3, <2>4
<1> HIDE DEF S, Obj
<1>9. NewData \in [S -> Seq(SK)]
  BY <1>5, <1>7
<1>10. NewData \in FiniteStores
  BY <1>6, <1>9 DEF FiniteStores, Stores
<1> QED BY <1>8, <1>10

\* A secondary key that is not in Wrong is one that the backend keeps right.
LEMMA NotWrong ==
    ASSUME StateOK, TxOK, NEW sk \in SK, sk \notin Wrong, truncated \/ Listed(index, data, sk)
    PROVE  /\ kind = "leveldb" => LevelKeeps(index, data, modified, removed, multi, truncated, sk)
           /\ kind = "lmdb" => LmdbKeeps(index, data, modified, removed, unique, multi, truncated, sk)
<1> DEFINE D == DOMAIN data
           N == DOMAIN modified
           Same(p) == SameKeys(KeysOf(data, p), modified[p], multi)
           Cnt(p) == Count(KeysOf(data, p), sk)
           New(p) == Count(modified[p], sk)
<1>1. /\ data \in Stores /\ IsFiniteSet(D) /\ D \in SUBSET PK /\ modified \in Stores /\ N \in SUBSET PK
      /\ truncated \in BOOLEAN /\ unique \in BOOLEAN
      /\ removed \in SUBSET PK /\ removed \cap N = {}
  BY StoreFacts DEF StateOK, TxOK, FiniteStores
<1>2. \A p \in PK : Cnt(p) \in Nat /\ (Cnt(p) = 0 <=> sk \notin ToSet(KeysOf(data, p)))
  <2> TAKE p \in PK
  <2>1. KeysOf(data, p) \in Seq(SK)
    BY <1>1, OldFacts
  <2> QED BY <2>1, CountFacts
<1>3. \A p \in PK : p \notin D => KeysOf(data, p) = <<>> /\ Cnt(p) = 0
  BY EmptyCount DEF KeysOf
<1>4. \A p \in D : KeysOf(data, p) = data[p]
  BY DEF KeysOf
<1>5. \A p \in N : New(p) \in Nat /\ (New(p) = 0 <=> sk \notin ToSet(modified[p])) /\ KeysOf(modified, p) = modified[p]
  <2> TAKE p \in N
  <2>1. modified[p] \in Seq(SK)
    BY <1>1, StoreFacts
  <2> QED BY <2>1, CountFacts DEF KeysOf
<1>6. Moved = {p \in D : p \in removed \/ (p \in N /\ ~Same(p))}
  BY DEF Moved, KeysOf
<1>7. /\ kind = "leveldb" /\ truncated => Wrong = Taken(N \cap D, data) \cap Taken(N, modified)
      /\ kind = "leveldb" /\ ~truncated => Wrong = {s \in SK : \E p \in Moved : Count(data[p], s) > 1}
      /\ kind = "lmdb" /\ truncated => Wrong = {s \in SK : \E p \in (N \cap D) \ Moved : s \in ToSet(data[p])}
      /\ kind = "lmdb" /\ ~truncated /\ ~unique =>
           Wrong = {s \in SK : Cardinality({p \in Moved : s \in ToSet(data[p])}) > 1}
  BY <1>1 DEF Wrong
<1>8. \A p \in N : Same(p) => KeysOf(data, p) = modified[p]
  BY DEF SameKeys
<1>9. ~truncated /\ kind # "memory" => ListedRight(FALSE, index, data, sk)
  BY DEF Listed
<1>10. LevelKeeps(index, data, modified, removed, multi, truncated, sk) <=>
         IF truncated THEN (\A p \in N : Cnt(p) = 0) \/ (\A p \in N : New(p) = 0)
         ELSE ListedRight(FALSE, index, data, sk) /\ (\A p \in removed : Cnt(p) <= 1) /\ \A p \in N : Cnt(p) <= 1 \/ Same(p)
  BY DEF LevelKeeps
<1>11. LmdbKeeps(index, data, modified, removed, unique, multi, truncated, sk) <=>
         IF truncated THEN \A p \in N : Same(p) => New(p) = 0
         ELSE /\ ListedRight(FALSE, index, data, sk)
              /\ unique \/ \A p, q \in removed \cup {r \in N : ~Same(r)} : Cnt(p) > 0 /\ Cnt(q) > 0 => p = q
  BY DEF LmdbKeeps
<1> DEFINE LK == LevelKeeps(index, data, modified, removed, multi, truncated, sk)
           MK == LmdbKeeps(index, data, modified, removed, unique, multi, truncated, sk)
           Old(p) == data[p]
<1> HIDE DEF D, N, Same, New, LK, MK
<1>12. CASE kind = "leveldb" /\ truncated
  <2>1. sk \notin Taken(N \cap D, data) \/ sk \notin Taken(N, modified)
    BY <1>7, <1>12
  <2>2. CASE sk \notin Taken(N \cap D, data)
    <3>1. \A p \in N \cap D : sk \notin ToSet(KeysOf(data, p))
      BY <2>2 DEF Taken
    <3>2. \A p \in N : Cnt(p) = 0
      BY <1>1, <1>2, <1>3, <3>1
    <3> QED BY <1>10, <1>12, <3>2
  <2>3. CASE sk \notin Taken(N, modified)
    <3>1. \A p \in N : sk \notin ToSet(KeysOf(modified, p))
      BY <2>3 DEF Taken
    <3>2. \A p \in N : New(p) = 0
      BY <1>5, <3>1
    <3> QED BY <1>10, <1>12, <3>2
  <2> QED BY <2>1, <2>2, <2>3
<1>13. CASE kind = "leveldb" /\ ~truncated
  <2>1. \A p \in Moved : Count(data[p], sk) <= 1
    <3>1. \A p \in Moved : ~(Count(data[p], sk) > 1)
      BY <1>7, <1>13
    <3>2. \A p \in Moved : Count(data[p], sk) \in Nat
      BY <1>1, <1>2, <1>4, <1>6
    <3> QED BY <3>1, <3>2
  <2>2. \A p \in removed : Cnt(p) <= 1
    BY <1>1, <1>3, <1>4, <1>6, <2>1
  <2>3. \A p \in N : Cnt(p) <= 1 \/ Same(p)
    BY <1>1, <1>3, <1>4, <1>6, <2>1
  <2> QED BY <1>9, <1>10, <1>13, <2>2, <2>3
<1>14. CASE kind = "lmdb" /\ truncated
  <2>1. \A p \in (N \cap D) \ Moved : sk \notin ToSet(data[p])
    BY <1>7, <1>14
  <2>2. ASSUME NEW p \in N, Same(p) PROVE New(p) = 0
    <3>1. modified[p] = KeysOf(data, p)
      BY <1>8, <2>2
    <3>2. CASE p \in D
      <4>1. p \notin Moved
        BY <1>1, <1>6, <2>2
      <4> QED BY <1>4, <1>5, <2>1, <3>1, <3>2, <4>1
    <3>3. CASE p \notin D
      BY <1>1, <1>3, <3>1, <3>3 DEF New
    <3> QED BY <3>2, <3>3
  <2> QED BY <1>11, <1>14, <2>2
<1>15. CASE kind = "lmdb" /\ ~truncated
  <2>1. ASSUME ~unique, NEW p \in removed \cup {r \in N : ~Same(r)}, NEW q \in removed \cup {r \in N : ~Same(r)},
               Cnt(p) > 0, Cnt(q) > 0
        PROVE  p = q
    <3> DEFINE M == {r \in Moved : sk \in ToSet(data[r])}
    <3>1. p \in PK /\ q \in PK
      BY <1>1
    <3>2. p \in D /\ q \in D
      BY <1>3, <2>1, <3>1
    <3>3. p \in M /\ q \in M
      BY <1>2, <1>4, <1>6, <2>1, <3>1, <3>2
    <3>4. ~(Cardinality(M) > 1)
      BY <1>7, <1>15, <2>1
    <3>5. IsFiniteSet(M)
      <4>1. M \subseteq D
        BY <1>6
      <4> QED BY <1>1, <4>1, FS_Subset
    <3> HIDE DEF M
    <3>6. Cardinality(M) \in Nat
      BY <3>5, FS_CardinalityType
    <3>7. Cardinality(M) = 0 => M = {}
      BY <3>5, FS_EmptySet
    <3>8. Cardinality(M) = 1 => \E x : M = {x}
      BY <3>5, FS_Singleton
    <3> QED BY <3>3, <3>4, <3>6, <3>7, <3>8
  <2> QED BY <1>1, <1>9, <1>11, <1>15, <2>1
<1> QED BY <1>12, <1>13, <1>14, <1>15

-----------------------------------------------------------------------------
(* The steps of a transaction. *)

LEMMA InitOK == Init => IInv
<1> SUFFICES ASSUME Init PROVE IInv
  OBVIOUS
<1> DEFINE nothing == [p \in {} |-> <<>>]
<1>1. nothing \in FiniteStores /\ \A x : KeysOf(nothing, x) = <<>>
  <2>1. nothing \in [{} -> Seq(SK)] /\ DOMAIN nothing = {}
    OBVIOUS
  <2> HIDE DEF nothing
  <2>2. nothing \in FiniteStores
    BY <2>1, FS_EmptySet DEF FiniteStores, Stores
  <2> QED BY <2>1, <2>2 DEF KeysOf
<1>2. data = nothing /\ modified = nothing /\ index = NoEntries /\ tree = NoEntries
      /\ removed = {} /\ suspect = {} /\ kind \in Kinds /\ unique \in BOOLEAN /\ multi \in BOOLEAN
      /\ truncated = FALSE /\ thrown = FALSE
  BY DEF Init
<1> HIDE DEF nothing
<1>3. /\ NoEntries \in Tables(unique) /\ NoEntries \in Tables(FALSE)
      /\ \A sk \in SK : NoEntries[sk] = <<>>
  BY <1>2, NoEntriesFacts
<1>4. StateOK /\ TxOK
  BY <1>1, <1>2, <1>3, FS_EmptySet DEF StateOK, TxOK, TablesOfKind
<1>5. \A sk \in SK : ListedRight(TRUE, NoEntries, nothing, sk) /\ ListedRight(FALSE, NoEntries, nothing, sk)
  <2>1. \A sk \in SK, x \in PK : Count(NoEntries[sk], x) = 0 /\ Count(KeysOf(nothing, x), sk) = 0
    BY <1>1, <1>3, EmptyCount
  <2>2. Often(TRUE, 0) = 0 /\ Often(FALSE, 0) = 0
    BY OftenFacts
  <2> QED BY <2>1, <2>2 DEF ListedRight
<1> QED BY <1>2, <1>4, <1>5 DEF IInv, TreeRight, IndexRight, Listed

\* No transaction: its index is empty, and so are its changes.
LEMMA NoTxOK ==
    ASSUME NoTx, unique' \in BOOLEAN
    PROVE  TxOK' /\ TreeRight'
<1> DEFINE nothing == [p \in {} |-> <<>>]
<1>1. nothing \in FiniteStores /\ \A x : KeysOf(nothing, x) = <<>>
  <2>1. nothing \in [{} -> Seq(SK)] /\ DOMAIN nothing = {}
    OBVIOUS
  <2> HIDE DEF nothing
  <2>2. nothing \in FiniteStores
    BY <2>1, FS_EmptySet DEF FiniteStores, Stores
  <2> QED BY <2>1, <2>2 DEF KeysOf
<1>2. modified' = nothing /\ tree' = NoEntries /\ removed' = {} /\ truncated' = FALSE /\ thrown' = FALSE
  BY DEF NoTx
<1> HIDE DEF nothing
<1>3. NoEntries \in Tables(unique') /\ \A sk \in SK : NoEntries[sk] = <<>>
  BY NoEntriesFacts
<1>4. TxOK'
  BY <1>1, <1>2, <1>3, FS_EmptySet DEF TxOK
<1>5. \A sk \in SK : ListedRight(TRUE, NoEntries, nothing, sk)
  <2>1. \A sk \in SK, x \in PK : Count(NoEntries[sk], x) = 0 /\ Count(KeysOf(nothing, x), sk) = 0
    BY <1>1, <1>3, EmptyCount
  <2>2. Often(TRUE, 0) = 0
    BY OftenFacts
  <2> QED BY <2>1, <2>2 DEF ListedRight
<1> QED BY <1>2, <1>4, <1>5 DEF TreeRight

LEMMA PutStep ==
    ASSUME IInv, NEW pk \in PK, NEW sks \in Objects, PutSync(pk, sks)
    PROVE  IInv'
<1> DEFINE old == KeysOf(modified, pk)
           acc == Good(tree)
           after == MemoryPut(acc, pk, old, sks, unique, multi)
           mem == TRUE
<1> USE DEF IInv
<1>1. /\ modified' = Written(modified, pk, sks) /\ removed' = removed \ {pk}
      /\ tree' = after.ix /\ thrown' = (thrown \/ ~after.ok)
      /\ UNCHANGED <<kind, unique, multi, truncated, data, index, suspect>>
  BY DEF PutSync, store
<1>2. sks \in Seq(SK) /\ modified \in FiniteStores /\ modified \in Stores /\ old \in Seq(SK)
      /\ unique \in BOOLEAN /\ multi \in BOOLEAN
  BY ObjectsFacts, OldFacts DEF TxOK, StateOK, FiniteStores
<1>3. modified' \in FiniteStores /\ \A x : KeysOf(modified', x) = IF x = pk THEN sks ELSE KeysOf(modified, x)
  BY <1>1, <1>2, WrittenFacts
<1>4. acc \in Accumulators(unique) /\ acc.ix = tree
  BY <1>2, GoodFacts DEF TxOK
<1>5. after = Replacement(mem, acc, pk, old, sks, unique, multi) /\ mem \in BOOLEAN /\ mem
  BY DEF Replacement
<1>11. \A p \in PK : KeysOf(modified, p) \in Seq(SK)
  BY <1>2, OldFacts
<1> HIDE DEF acc, after, mem, old
<1>6. after \in Accumulators(unique) /\ (after.ok => PutEffect(mem, acc, after, pk, old, sks, multi))
  BY <1>2, <1>4, <1>5, ReplacementCounts
<1>7. after.ix \in Tables(unique) /\ after.ok \in BOOLEAN
  BY <1>2, <1>6, AccumulatorFacts
<1>8. TxOK'
  <2>1. removed' \in SUBSET PK /\ IsFiniteSet(removed')
    BY <1>1, FS_Subset DEF TxOK
  <2>2. removed' \cap DOMAIN modified' = {}
    BY <1>1 DEF TxOK, Written
  <2> QED BY <1>1, <1>3, <1>7, <2>1, <2>2 DEF TxOK
<1>9. TreeRight'
  <2>1. SUFFICES ASSUME ~thrown', NEW sk \in SK, NEW x \in PK
                 PROVE  Count(tree'[sk], x) = Often(TRUE, Count(KeysOf(modified', x), sk))
    BY DEF TreeRight, ListedRight
  <2>2. after.ok /\ \A p \in PK : Count(tree[sk], p) = Often(mem, Count(KeysOf(modified, p), sk))
    BY <1>1, <2>1 DEF TreeRight, ListedRight, mem
  <2>3. Count(after.ix[sk], x) = IF x = pk THEN Often(mem, Count(sks, sk)) ELSE Count(tree[sk], x)
    BY <1>4, <1>5, <1>6, <2>2 DEF old, PutEffect
  <2> QED BY <1>1, <1>3, <2>2, <2>3 DEF mem
<1>10. StateOK' /\ IndexRight'
  BY <1>1 DEF StateOK, IndexRight, Listed, ListedRight, TablesOfKind
<1> QED BY <1>8, <1>9, <1>10

LEMMA RemoveStep ==
    ASSUME IInv, NEW pk \in PK, RemoveSync(pk)
    PROVE  IInv'
<1> DEFINE old == KeysOf(modified, pk)
           acc == Good(tree)
           after == MemoryRemove(acc, pk, old, unique)
           S == DOMAIN modified \ {pk}
<1> USE DEF IInv
<1>1. /\ modified' = [p \in S |-> modified[p]] /\ removed' = removed \cup {pk}
      /\ tree' = after.ix
      /\ UNCHANGED <<kind, unique, multi, truncated, thrown, data, index, suspect>>
  BY DEF RemoveSync, store
<1>2. /\ modified \in FiniteStores /\ modified \in Stores /\ old \in Seq(SK) /\ unique \in BOOLEAN
      /\ DOMAIN modified \in SUBSET PK /\ IsFiniteSet(DOMAIN modified) /\ \A p \in DOMAIN modified : modified[p] \in Seq(SK)
  BY OldFacts, StoreFacts DEF TxOK, StateOK, FiniteStores
<1>3. modified' \in FiniteStores /\ \A x : KeysOf(modified', x) = IF x = pk THEN <<>> ELSE KeysOf(modified, x)
  <2>1. modified' \in [S -> Seq(SK)] /\ S \in SUBSET PK /\ IsFiniteSet(S)
    BY <1>1, <1>2, FS_Subset
  <2>2. modified' \in FiniteStores
    <3> HIDE DEF S
    <3>1. DOMAIN modified' = S
      BY <2>1
    <3> QED BY <2>1, <3>1 DEF FiniteStores, Stores
  <2>3. \A x : KeysOf(modified', x) = IF x = pk THEN <<>> ELSE KeysOf(modified, x)
    BY <1>1 DEF KeysOf
  <2> QED BY <2>2, <2>3
<1>4. acc \in Accumulators(unique) /\ acc.ix = tree
  BY <1>2, GoodFacts DEF TxOK
<1> HIDE DEF acc, after, old, S
<1>5. /\ after \in Accumulators(unique)
      /\ \A sk \in SK : Count(acc.ix[sk], pk) = Count(old, sk) =>
           \A x \in PK : Count(after.ix[sk], x) = IF x = pk THEN 0 ELSE Count(acc.ix[sk], x)
  BY <1>2, <1>4, RemoveCounts DEF after
<1>6. after.ix \in Tables(unique)
  BY <1>2, <1>5, AccumulatorFacts
<1>7. TxOK'
  <2>1. removed' \in SUBSET PK /\ IsFiniteSet(removed')
    BY <1>1, FS_AddElement DEF TxOK
  <2>2. removed' \cap DOMAIN modified' = {}
    BY <1>1 DEF TxOK, S
  <2> QED BY <1>1, <1>3, <1>6, <2>1, <2>2 DEF TxOK
<1>8. TreeRight'
  <2>1. SUFFICES ASSUME ~thrown, NEW sk \in SK, NEW x \in PK
                 PROVE  Count(tree'[sk], x) = Often(TRUE, Count(KeysOf(modified', x), sk))
    BY <1>1 DEF TreeRight, ListedRight
  <2>2. \A p \in PK : Count(tree[sk], p) = Often(TRUE, Count(KeysOf(modified, p), sk))
    BY <2>1 DEF TreeRight, ListedRight
  <2>3. Count(tree[sk], pk) = Count(old, sk)
    BY <2>2 DEF Often, old
  <2>4. Count(after.ix[sk], x) = IF x = pk THEN 0 ELSE Count(tree[sk], x)
    BY <1>4, <1>5, <2>3
  <2>5. Count(<<>>, sk) = 0 /\ Often(TRUE, 0) = 0
    BY EmptyCount, OftenFacts
  <2>6. CASE x = pk
    BY <1>1, <1>3, <2>4, <2>5, <2>6
  <2>7. CASE x # pk
    BY <1>1, <1>3, <2>2, <2>4, <2>7
  <2> QED BY <2>6, <2>7
<1>9. StateOK' /\ IndexRight'
  BY <1>1 DEF StateOK, IndexRight, Listed, ListedRight, TablesOfKind
<1> QED BY <1>7, <1>8, <1>9

LEMMA TruncateStep ==
    ASSUME IInv, TruncateSync
    PROVE  IInv'
<1> DEFINE nothing == [p \in {} |-> <<>>]
<1> USE DEF IInv
<1>1. nothing \in FiniteStores /\ \A x : KeysOf(nothing, x) = <<>>
  <2>1. nothing \in [{} -> Seq(SK)] /\ DOMAIN nothing = {}
    OBVIOUS
  <2> HIDE DEF nothing
  <2>2. nothing \in FiniteStores
    BY <2>1, FS_EmptySet DEF FiniteStores, Stores
  <2> QED BY <2>1, <2>2 DEF KeysOf
<1>2. /\ modified' = nothing /\ tree' = NoEntries /\ removed' = {} /\ truncated' = TRUE
      /\ UNCHANGED <<kind, unique, multi, thrown, data, index, suspect>>
  BY DEF TruncateSync, store
<1> HIDE DEF nothing
<1>3. NoEntries \in Tables(unique) /\ \A sk \in SK : NoEntries[sk] = <<>>
  BY NoEntriesFacts DEF StateOK
<1>4. TxOK'
  BY <1>1, <1>2, <1>3, FS_EmptySet DEF TxOK
<1>5. \A sk \in SK : ListedRight(TRUE, NoEntries, nothing, sk)
  <2>1. \A sk \in SK, x \in PK : Count(NoEntries[sk], x) = 0 /\ Count(KeysOf(nothing, x), sk) = 0
    BY <1>1, <1>3, EmptyCount
  <2>2. Often(TRUE, 0) = 0
    BY OftenFacts
  <2> QED BY <2>1, <2>2 DEF ListedRight
<1>6. StateOK' /\ IndexRight'
  BY <1>2 DEF StateOK, IndexRight, Listed, ListedRight, TablesOfKind
<1> QED BY <1>2, <1>4, <1>5, <1>6 DEF TreeRight

\* What the application of a transaction makes of the index, in all backends.
LEMMA AppliedFacts ==
    ASSUME IInv, NEW gone \in Orders(removed), NEW puts \in Orders(DOMAIN modified)
    PROVE  LET after == Applied(gone, puts)
           IN  /\ after.ix \in TablesOfKind /\ after.ok \in BOOLEAN
               /\ after.ok => \A sk \in SK \ ((IF truncated THEN {} ELSE suspect) \cup Wrong) :
                    IF kind = "memory" THEN NewlyRight(TRUE, after.ix, data, modified, removed, truncated, sk)
                    ELSE NewlyRight(FALSE, after.ix, data, modified, removed, truncated, sk)
<1> DEFINE after == Applied(gone, puts)
           N == DOMAIN modified
           Right(mem, sk) == NewlyRight(mem, after.ix, data, modified, removed, truncated, sk)
<1>1. /\ unique \in BOOLEAN /\ multi \in BOOLEAN /\ truncated \in BOOLEAN
      /\ data \in FiniteStores /\ data \in Stores /\ modified \in Stores /\ IsFiniteSet(N)
      /\ removed \in SUBSET PK /\ IsFiniteSet(removed) /\ removed \cap N = {}
      /\ index \in TablesOfKind
  BY DEF IInv, StateOK, TxOK, FiniteStores
<1>2. kind \in {"memory", "leveldb", "lmdb", "indexeddb"}
  BY IndicesAssumption DEF IInv, StateOK
<1>3. gone \in Seq(removed) /\ gone \in Seq(PK) /\ ToSet(gone) = removed /\ IsInjective(gone)
  <2>1. gone \in Seq(removed) /\ ToSet(gone) = removed /\ IsInjective(gone)
    BY <1>1, OrdersFacts
  <2> QED BY <1>1, <2>1
<1>4. puts \in Seq(N) /\ ToSet(puts) = N /\ IsInjective(puts)
  BY <1>1, OrdersFacts
<1>5. ToSet(gone) \cap N = {}
  BY <1>1, <1>3
<1>6. /\ kind = "memory" => after = MemoryApply(index, data, modified, gone, puts, truncated, unique, multi)
      /\ kind = "leveldb" => after = LevelApply(index, data, modified, gone, puts, truncated, unique, multi)
      /\ kind = "lmdb" => after = LmdbApply(index, data, modified, gone, puts, truncated, unique, multi)
      /\ kind = "indexeddb" => after = IdbApply(data, modified, gone, puts, truncated, unique)
  BY DEF Applied
<1>7. kind # "indexeddb" => index \in Tables(unique)
  BY <1>1 DEF TablesOfKind
<1>8. ASSUME NEW sk \in SK \ ((IF truncated THEN {} ELSE suspect) \cup Wrong)
      PROVE  /\ truncated \/ Listed(index, data, sk)
             /\ kind = "leveldb" => LevelKeeps(index, data, modified, ToSet(gone), multi, truncated, sk)
             /\ kind = "lmdb" => LmdbKeeps(index, data, modified, ToSet(gone), unique, multi, truncated, sk)
  <2>1. sk \in SK /\ sk \notin Wrong /\ (truncated \/ sk \notin suspect)
    BY <1>1
  <2>2. truncated \/ Listed(index, data, sk)
    BY <2>1 DEF IInv, IndexRight
  <2>3. StateOK /\ TxOK
    BY DEF IInv
  <2> QED BY <1>3, <2>1, <2>2, <2>3, NotWrong
<1> HIDE DEF after
<1>9. CASE kind = "memory"
  <2> DEFINE a == MemoryApply(index, data, modified, gone, puts, truncated, unique, multi)
  <2>1. /\ a \in Accumulators(unique)
        /\ a.ok => \A sk \in SK : truncated \/ ListedRight(TRUE, index, data, sk) =>
                     NewlyRight(TRUE, a.ix, data, modified, ToSet(gone), truncated, sk)
    BY <1>1, <1>3, <1>4, <1>5, <1>7, <1>9, MemoryListsRight
  <2>2. /\ after \in Accumulators(unique)
        /\ after.ok => \A sk \in SK : truncated \/ ListedRight(TRUE, index, data, sk) =>
                     NewlyRight(TRUE, after.ix, data, modified, ToSet(gone), truncated, sk)
    BY <1>6, <1>9, <2>1
  <2>3. after.ix \in Tables(unique) /\ after.ok \in BOOLEAN
    BY <1>1, <2>2, AccumulatorFacts
  <2>4. after.ok => \A sk \in SK \ ((IF truncated THEN {} ELSE suspect) \cup Wrong) : Right(TRUE, sk)
    BY <1>3, <1>8, <1>9, <2>2 DEF Listed
  <2> QED BY <1>9, <2>3, <2>4 DEF after, TablesOfKind
<1>10. CASE kind = "leveldb"
  <2> DEFINE a == LevelApply(index, data, modified, gone, puts, truncated, unique, multi)
  <2>1. /\ a \in Accumulators(unique)
        /\ a.ok => \A sk \in SK : LevelKeeps(index, data, modified, ToSet(gone), multi, truncated, sk) =>
                     NewlyRight(FALSE, a.ix, data, modified, ToSet(gone), truncated, sk)
    BY <1>1, <1>3, <1>4, <1>5, <1>7, <1>10, LevelListsRight
  <2>2. /\ after \in Accumulators(unique)
        /\ after.ok => \A sk \in SK : LevelKeeps(index, data, modified, ToSet(gone), multi, truncated, sk) =>
                     NewlyRight(FALSE, after.ix, data, modified, ToSet(gone), truncated, sk)
    BY <1>6, <1>10, <2>1
  <2>3. after.ix \in Tables(unique) /\ after.ok \in BOOLEAN
    BY <1>1, <2>2, AccumulatorFacts
  <2>4. after.ok => \A sk \in SK \ ((IF truncated THEN {} ELSE suspect) \cup Wrong) : Right(FALSE, sk)
    BY <1>3, <1>8, <1>10, <2>2
  <2> QED BY <1>10, <2>3, <2>4 DEF after, TablesOfKind
<1>11. CASE kind = "lmdb"
  <2> DEFINE a == LmdbApply(index, data, modified, gone, puts, truncated, unique, multi)
  <2>1. /\ a \in Accumulators(unique)
        /\ a.ok => \A sk \in SK : LmdbKeeps(index, data, modified, ToSet(gone), unique, multi, truncated, sk) =>
                     NewlyRight(FALSE, a.ix, data, modified, ToSet(gone), truncated, sk)
    BY <1>1, <1>3, <1>4, <1>5, <1>7, <1>11, LmdbListsRight
  <2>2. /\ after \in Accumulators(unique)
        /\ after.ok => \A sk \in SK : LmdbKeeps(index, data, modified, ToSet(gone), unique, multi, truncated, sk) =>
                     NewlyRight(FALSE, after.ix, data, modified, ToSet(gone), truncated, sk)
    BY <1>6, <1>11, <2>1
  <2>3. after.ix \in Tables(unique) /\ after.ok \in BOOLEAN
    BY <1>1, <2>2, AccumulatorFacts
  <2>4. after.ok => \A sk \in SK \ ((IF truncated THEN {} ELSE suspect) \cup Wrong) : Right(FALSE, sk)
    BY <1>3, <1>8, <1>11, <2>2
  <2> QED BY <1>11, <2>3, <2>4 DEF after, TablesOfKind
<1>12. CASE kind = "indexeddb"
  <2> DEFINE a == IdbApply(data, modified, gone, puts, truncated, unique)
  <2>1. /\ a.ix \in Tables(FALSE) /\ a.ok \in BOOLEAN
        /\ a.ok => \A sk \in SK : NewlyRight(FALSE, a.ix, data, modified, ToSet(gone), truncated, sk)
    BY <1>1, <1>3, <1>4, IdbListsRight
  <2>2. /\ after.ix \in Tables(FALSE) /\ after.ok \in BOOLEAN
        /\ after.ok => \A sk \in SK : NewlyRight(FALSE, after.ix, data, modified, ToSet(gone), truncated, sk)
    BY <1>6, <1>12, <2>1
  <2>3. after.ok => \A sk \in SK \ ((IF truncated THEN {} ELSE suspect) \cup Wrong) : Right(FALSE, sk)
    BY <1>3, <2>2
  <2> QED BY <1>12, <2>2, <2>3 DEF after, TablesOfKind
<1> QED BY <1>2, <1>9, <1>10, <1>11, <1>12

LEMMA ApplyStep ==
    ASSUME IInv, NEW gone \in Orders(removed), NEW puts \in Orders(DOMAIN modified),
           Apply(Applied(gone, puts)), UNCHANGED <<kind, unique, multi>>
    PROVE  StateOK' /\ IndexRight'
<1> DEFINE after == Applied(gone, puts)
           left == (IF truncated THEN {} ELSE suspect) \cup Wrong
<1>1. /\ after.ix \in TablesOfKind /\ after.ok \in BOOLEAN
      /\ after.ok => \A sk \in SK \ left :
           IF kind = "memory" THEN NewlyRight(TRUE, after.ix, data, modified, removed, truncated, sk)
           ELSE NewlyRight(FALSE, after.ix, data, modified, removed, truncated, sk)
  BY AppliedFacts
<1>2. IF after.ok THEN data' = NewData /\ index' = after.ix /\ suspect' = left
      ELSE IF kind = "memory" THEN data' = NewData /\ index' = after.ix /\ suspect' = SK
      ELSE UNCHANGED <<data, index, suspect>>
  BY DEF Apply, store
<1> HIDE DEF after, left
<1>3. /\ NewData \in FiniteStores
      /\ \A x \in PK : KeysOf(NewData, x) = NewKeys(data, modified, removed, truncated, x)
  BY NewDataFacts DEF IInv, StateOK
<1>4. TablesOfKind' = TablesOfKind
  BY DEF TablesOfKind
<1>5. CASE after.ok
  <2>1. data' = NewData /\ index' = after.ix /\ suspect' = left
    BY <1>2, <1>5
  <2>2. StateOK'
    BY <1>1, <1>3, <1>4, <2>1 DEF IInv, StateOK
  <2>3. ASSUME NEW sk \in SK \ left PROVE Listed(after.ix, NewData, sk)
    BY <1>1, <1>3, <1>5, <2>3 DEF Listed, ListedRight, NewlyRight
  <2>4. IndexRight'
    BY <2>1, <2>3 DEF IndexRight, Listed, ListedRight
  <2> QED BY <2>2, <2>4
<1>6. CASE ~after.ok /\ kind = "memory"
  <2>1. data' = NewData /\ index' = after.ix /\ suspect' = SK
    BY <1>2, <1>6
  <2>2. StateOK'
    BY <1>1, <1>3, <1>4, <2>1 DEF IInv, StateOK
  <2> QED BY <2>1, <2>2 DEF IndexRight
<1>7. CASE ~after.ok /\ kind # "memory"
  BY <1>2, <1>7 DEF IInv, StateOK, IndexRight, Listed, ListedRight, TablesOfKind
<1> QED BY <1>1, <1>5, <1>6, <1>7

LEMMA CommitStep ==
    ASSUME IInv, Commit
    PROVE  IInv'
<1>1. NoTx /\ UNCHANGED <<kind, unique, multi>>
  BY DEF Commit
<1>2. TxOK' /\ TreeRight'
  BY <1>1, NoTxOK DEF IInv, StateOK
<1>3. StateOK' /\ IndexRight'
  <2>1. CASE Passes
    <3>1. PICK gone \in Orders(removed), puts \in Orders(DOMAIN modified) : Apply(Applied(gone, puts))
      BY <2>1 DEF Commit
    <3> QED BY <1>1, <3>1, ApplyStep
  <2>2. CASE ~Passes
    <3>1. UNCHANGED <<data, index, suspect>>
      BY <2>2 DEF Commit, store
    <3> QED BY <1>1, <3>1 DEF IInv, StateOK, IndexRight, Listed, ListedRight, TablesOfKind
  <2> QED BY <2>1, <2>2
<1> QED BY <1>2, <1>3 DEF IInv

LEMMA NextStep == IInv /\ [Next]_vars => IInv'
<1> SUFFICES ASSUME IInv, [Next]_vars PROVE IInv'
  OBVIOUS
<1>1. ASSUME NEW pk \in PK, NEW sks \in Objects, Put(pk, sks) \/ PutSync(pk, sks) PROVE IInv'
  BY <1>1, PutStep DEF Put
<1>2. ASSUME NEW pk \in PK, RemoveSync(pk) PROVE IInv'
  BY <1>2, RemoveStep
<1>3. CASE TruncateSync
  BY <1>3, TruncateStep
<1>4. CASE Commit
  BY <1>4, CommitStep
<1>5. CASE Abort
  <2>1. NoTx /\ UNCHANGED <<kind, unique, multi, data, index, suspect>>
    BY <1>5 DEF Abort, store
  <2>2. TxOK' /\ TreeRight'
    BY <2>1, NoTxOK DEF IInv, StateOK
  <2> QED BY <2>1, <2>2 DEF IInv, StateOK, IndexRight, Listed, ListedRight, TablesOfKind
<1>6. CASE UNCHANGED vars
  BY <1>6 DEF vars, store, tx, IInv, StateOK, TxOK, TreeRight, IndexRight, Listed, ListedRight, TablesOfKind
<1> QED BY <1>1, <1>2, <1>3, <1>4, <1>5, <1>6 DEF Next

LEMMA Invariance == Spec => []IInv
  BY InitOK, NextStep, PTL DEF Spec

-----------------------------------------------------------------------------
(* What is shown of the indices. *)

\* A list with the right counts has the holders of its key as its members, in order.
LEMMA ListIsRight ==
    ASSUME NEW mem \in BOOLEAN, NEW u \in BOOLEAN, NEW ix \in Tables(u), NEW d \in Stores, NEW sk \in SK,
           ListedRight(mem, ix, d, sk)
    PROVE  /\ InOrder(ix[sk])
           /\ ToSet(ix[sk]) = Holders(d, sk)
           /\ \A pk \in DOMAIN d : /\ Count(ix[sk], pk) = Often(mem, Count(d[pk], sk))
                                   /\ Count(d[pk], sk) \in Nat
<1>1. ix[sk] \in Entries(u)
  BY DEF Tables
<1>2. ix[sk] \in Seq(PK) /\ InOrder(ix[sk])
  BY <1>1 DEF Entries, KeyLists
<1>3. DOMAIN d \in SUBSET PK /\ \A pk \in DOMAIN d : d[pk] \in Seq(SK) /\ KeysOf(d, pk) = d[pk]
  BY StoreFacts DEF KeysOf
<1>4. \A x \in PK : Count(ix[sk], x) = 0 <=> x \notin ToSet(ix[sk])
  BY <1>2, CountFacts
<1>5. \A pk \in DOMAIN d : Count(d[pk], sk) \in Nat /\ (Count(d[pk], sk) = 0 <=> sk \notin ToSet(d[pk]))
  BY <1>3, CountFacts
<1>6. \A x \in PK : Count(ix[sk], x) = Often(mem, Count(KeysOf(d, x), sk))
  BY DEF ListedRight
<1>7. \A x \in PK : x \in ToSet(ix[sk]) <=> x \in Holders(d, sk)
  <2> TAKE x \in PK
  <2>1. CASE x \in DOMAIN d
    <3>1. Count(ix[sk], x) = Often(mem, Count(d[x], sk))
      BY <1>3, <1>6, <2>1
    <3>2. Count(ix[sk], x) = 0 <=> Count(d[x], sk) = 0
      BY <1>5, <2>1, <3>1, OftenFacts
    <3> QED BY <1>4, <1>5, <2>1, <3>2 DEF Holders
  <2>2. CASE x \notin DOMAIN d
    <3>1. KeysOf(d, x) = <<>>
      BY <2>2 DEF KeysOf
    <3>2. Count(<<>>, sk) = 0 /\ Often(mem, 0) = 0
      BY EmptyCount, OftenFacts
    <3>3. Count(ix[sk], x) = 0
      BY <1>6, <3>1, <3>2
    <3> QED BY <1>4, <2>2, <3>3 DEF Holders
  <2> QED BY <2>1, <2>2
<1>8. ToSet(ix[sk]) \in SUBSET PK /\ Holders(d, sk) \in SUBSET PK
  BY <1>2, <1>3 DEF ToSet, Holders
<1>9. ToSet(ix[sk]) = Holders(d, sk)
  BY <1>7, <1>8
<1> QED BY <1>2, <1>3, <1>5, <1>6, <1>9

\* As long as no put has thrown, the transaction's own index lists what it has put and not removed.
LEMMA OwnIndexRight == IInv => OwnIndexMatches
<1> SUFFICES ASSUME IInv, ~thrown, NEW sk \in SK
             PROVE  /\ InOrder(tree[sk])
                    /\ ToSet(tree[sk]) = Holders(modified, sk)
                    /\ \A pk \in DOMAIN modified : Count(tree[sk], pk) = Count(modified[pk], sk)
  BY DEF OwnIndexMatches
<1> DEFINE mem == TRUE
<1>1. /\ modified \in Stores /\ unique \in BOOLEAN /\ tree \in Tables(unique)
      /\ mem \in BOOLEAN /\ mem /\ ListedRight(mem, tree, modified, sk)
  BY DEF IInv, StateOK, TxOK, TreeRight, FiniteStores
<1> HIDE DEF mem
<1>2. /\ InOrder(tree[sk]) /\ ToSet(tree[sk]) = Holders(modified, sk)
      /\ \A pk \in DOMAIN modified : Count(tree[sk], pk) = Often(mem, Count(modified[pk], sk))
  BY <1>1, ListIsRight
<1> QED BY <1>1, <1>2 DEF Often

\* In all four backends the index lists, for every secondary key, exactly the
\* objects that have it, in order and as often as the code means to, after every
\* sequence of transactions, in every order of their removals and puts, for every
\* set of keys and objects; outside the keys that history tells to be left wrong.
THEOREM IndicesMatchObjects == Spec => []IndexMatchesObjects
<1>1. IInv => IndexMatchesObjects
  <2> SUFFICES ASSUME IInv, NEW sk \in SK \ suspect
               PROVE  /\ InOrder(index[sk])
                      /\ ToSet(index[sk]) = Holders(data, sk)
                      /\ \A pk \in DOMAIN data : Count(index[sk], pk) = Times(data[pk], sk)
    BY OwnIndexRight DEF IndexMatchesObjects
  <2>1. data \in Stores /\ unique \in BOOLEAN /\ index \in TablesOfKind /\ Listed(index, data, sk)
    BY DEF IInv, StateOK, IndexRight, FiniteStores
  <2>2. CASE kind = "memory"
    <3> DEFINE mem == TRUE
               u == unique
    <3>1. mem \in BOOLEAN /\ u \in BOOLEAN /\ index \in Tables(u) /\ ListedRight(mem, index, data, sk) /\ sk \in SK
      BY <2>1, <2>2 DEF TablesOfKind, Listed
    <3>2. mem
      OBVIOUS
    <3> HIDE DEF mem, u
    <3>3. /\ InOrder(index[sk]) /\ ToSet(index[sk]) = Holders(data, sk)
          /\ \A pk \in DOMAIN data : /\ Count(index[sk], pk) = Often(mem, Count(data[pk], sk))
                                     /\ Count(data[pk], sk) \in Nat
      BY <2>1, <3>1, ListIsRight
    <3>4. \A pk \in DOMAIN data : Often(mem, Count(data[pk], sk)) = Times(data[pk], sk)
      BY <2>2, <3>2 DEF Often, Times
    <3> QED BY <3>3, <3>4
  <2>3. CASE kind # "memory"
    <3> DEFINE mem == FALSE
               u == kind # "indexeddb" /\ unique
    <3>1. mem \in BOOLEAN /\ ~mem /\ u \in BOOLEAN /\ index \in Tables(u) /\ ListedRight(mem, index, data, sk)
      BY <2>1, <2>3 DEF TablesOfKind, Listed
    <3> HIDE DEF mem, u
    <3>2. /\ InOrder(index[sk]) /\ ToSet(index[sk]) = Holders(data, sk)
          /\ \A pk \in DOMAIN data : /\ Count(index[sk], pk) = Often(mem, Count(data[pk], sk))
                                     /\ Count(data[pk], sk) \in Nat
      BY <2>1, <3>1, ListIsRight
    <3>3. \A pk \in DOMAIN data : Often(mem, Count(data[pk], sk)) = Times(data[pk], sk)
      BY <2>3, <3>1 DEF Often, Times
    <3> QED BY <3>2, <3>3
  <2> QED BY <2>2, <2>3
<1> QED BY <1>1, Invariance, PTL

\* The transaction's own index lists what it has put and not removed since, in every
\* order of puts, removals and truncations, as long as no put has thrown.
THEOREM OwnIndicesMatch == Spec => []OwnIndexMatches
BY OwnIndexRight, Invariance, PTL

-----------------------------------------------------------------------------
(* What the reads of the index find. *)

\* An index to read: it lists the holders of each key in order; but in memory each once.
Readable ==
    /\ kind \in Kinds /\ data \in FiniteStores
    /\ \A sk \in SK : /\ index[sk] \in Seq(PK) /\ InOrder(index[sk]) /\ ToSet(index[sk]) = Holders(data, sk)
                      /\ kind # "memory" => Rising(index[sk], Lesser)

LEMMA IndexIsReadable == IInv /\ suspect = {} => Readable
<1> SUFFICES ASSUME IInv, suspect = {}
             PROVE  Readable
  OBVIOUS
<1>1. kind \in Kinds /\ data \in FiniteStores /\ data \in Stores /\ unique \in BOOLEAN /\ index \in TablesOfKind
  BY DEF IInv, StateOK, FiniteStores
<1>2. SUFFICES ASSUME NEW sk \in SK
               PROVE  /\ index[sk] \in Seq(PK) /\ InOrder(index[sk]) /\ ToSet(index[sk]) = Holders(data, sk)
                      /\ kind # "memory" => Rising(index[sk], Lesser)
  BY <1>1 DEF Readable
<1> DEFINE mem == kind = "memory"
           u == kind # "indexeddb" /\ unique
           list == index[sk]
<1>3. mem \in BOOLEAN /\ u \in BOOLEAN
  BY <1>1
<1>4. index \in Tables(u) /\ ListedRight(mem, index, data, sk)
  <2>1. Listed(index, data, sk)
    BY DEF IInv, IndexRight
  <2>2. ListedRight(mem, index, data, sk)
    <3>1. CASE mem
      BY <2>1, <3>1 DEF Listed
    <3>2. CASE ~mem
      BY <2>1, <3>2 DEF Listed
    <3> QED BY <3>1, <3>2
  <2>3. index \in Tables(u)
    <3>1. CASE kind = "indexeddb"
      BY <1>1, <3>1 DEF TablesOfKind
    <3>2. CASE kind # "indexeddb"
      <4>1. u = unique
        BY <1>1, <3>2
      <4> QED BY <1>1, <3>2, <4>1 DEF TablesOfKind
    <3> QED BY <3>1, <3>2
  <2> QED BY <2>2, <2>3
<1> HIDE DEF mem, u
<1>5. /\ InOrder(list) /\ ToSet(list) = Holders(data, sk)
      /\ \A pk \in DOMAIN data : /\ Count(list, pk) = Often(mem, Count(data[pk], sk))
                                 /\ Count(data[pk], sk) \in Nat
  BY <1>1, <1>3, <1>4, ListIsRight
<1>6. list \in Seq(PK)
  BY <1>3, <1>4, EntriesFacts DEF Tables
<1>7. ASSUME ~mem
      PROVE  Rising(list, Lesser)
  <2>1. \A x \in PK : Count(list, x) <= 1
    <3> TAKE x \in PK
    <3>1. CASE x \in DOMAIN data
      BY <1>5, <1>7, <3>1 DEF Often
    <3>2. CASE x \notin DOMAIN data
      <4>1. x \notin ToSet(list)
        BY <1>5, <3>2 DEF Holders
      <4> QED BY <1>6, <4>1, CountFacts
    <3> QED BY <3>1, <3>2
  <2> SUFFICES ASSUME NEW i \in DOMAIN list, NEW j \in DOMAIN list, i < j
               PROVE  <<list[i], list[j]>> \in Lesser
    BY DEF Rising
  <2>2. /\ i \in 1..Len(list) /\ j \in 1..Len(list) /\ list[i] \in PK /\ list[j] \in PK
        /\ list[i] \in Int /\ list[j] \in Int /\ list[i] <= list[j]
    <3>1. i \in 1..Len(list) /\ j \in 1..Len(list) /\ list[i] \in PK /\ list[j] \in PK
      BY <1>6
    <3> QED BY <1>5, <3>1, KeysAreIntegers DEF InOrder
  <2>3. list[i] # list[j]
    <3> DEFINE x == list[i]
               P == Positions(list, x)
    <3> SUFFICES ASSUME list[j] = x
                 PROVE  FALSE
      OBVIOUS
    <3>1. IsFiniteSet(P) /\ Cardinality(P) = Count(list, x) /\ i \in P /\ j \in P
      BY <1>6, PositionsFacts DEF Count, Positions
    <3> HIDE DEF P
    <3>2. Count(list, x) <= 1
      BY <2>1, <2>2
    <3> HIDE DEF x, list
    <3>3. Cardinality(P) <= 1
      BY <3>1, <3>2
    <3>4. i = j
      BY <3>1, <3>3, AtMostOne
    <3> QED BY <2>2, <3>4
  <2> QED BY <2>2, <2>3 DEF Lesser
<1> QED BY <1>5, <1>6, <1>7 DEF mem

\* The values of a function on a finite set are finitely many.
LEMMA FiniteImage ==
    ASSUME NEW S, NEW f, IsFiniteSet(S)
    PROVE  IsFiniteSet({f[x] : x \in S})
<1> DEFINE T == {f[x] : x \in S}
           g == [x \in S |-> f[x]]
<1>1. g \in Surjection(S, T)
  BY DEF Surjection
<1> QED BY <1>1, FS_Surjection

\* The secondary keys with entries, in order.
Held == {sk \in SK : Holders(data, sk) # {}}

LEMMA HeadsFacts ==
    ASSUME Readable
    PROVE  /\ Held = {sk \in SK : index[sk] # <<>>} /\ Held \in SUBSET Int /\ IsFiniteSet(Held)
           /\ Heads \in Seq(SK) /\ Heads \in Seq(Int) /\ ToSet(Heads) = Held
           /\ Rising(Heads, Lesser) /\ Nondecreasing(Heads)
           /\ \A i, j \in DOMAIN Heads : i < j <=> Heads[i] < Heads[j]
<1>1. Held = {sk \in SK : index[sk] # <<>>}
  <2> SUFFICES ASSUME NEW sk \in SK
               PROVE  ToSet(index[sk]) = {} <=> index[sk] = <<>>
    BY DEF Readable, Held
  <2> DEFINE s == index[sk]
  <2>1. s \in Seq(PK) /\ DOMAIN s = 1..Len(s) /\ Len(s) \in Nat
    BY DEF Readable
  <2>2. s = <<>> <=> Len(s) = 0
    BY <2>1
  <2> HIDE DEF s
  <2>3. ToSet(s) = {} <=> Len(s) = 0
    <3>1. CASE Len(s) = 0
      BY <2>1, <3>1 DEF ToSet
    <3>2. CASE Len(s) # 0
      <4>1. 1 \in DOMAIN s
        BY <2>1, <3>2
      <4> QED BY <3>2, <4>1 DEF ToSet
    <3> QED BY <3>1, <3>2
  <2> QED BY <2>2, <2>3 DEF s
<1>2. IsFiniteSet(Held) /\ Held \in SUBSET SK /\ Held \in SUBSET Int
  <2> DEFINE K == {ToSet(data[pk]) : pk \in DOMAIN data}
  <2>1. data \in Stores /\ IsFiniteSet(DOMAIN data)
    BY DEF Readable, FiniteStores
  <2>2. IsFiniteSet(K)
    <3> DEFINE f == [pk \in DOMAIN data |-> ToSet(data[pk])]
    <3>1. IsFiniteSet({f[pk] : pk \in DOMAIN data})
      BY <2>1, FiniteImage
    <3>2. {f[pk] : pk \in DOMAIN data} = K
      OBVIOUS
    <3> QED BY <3>1, <3>2
  <2>3. \A s \in K : IsFiniteSet(s)
    <3> SUFFICES ASSUME NEW pk \in DOMAIN data
                 PROVE  IsFiniteSet(ToSet(data[pk]))
      OBVIOUS
    <3>1. data[pk] \in Seq(SK)
      BY <2>1, StoreFacts
    <3>2. IsFiniteSet(1..Len(data[pk])) /\ DOMAIN data[pk] = 1..Len(data[pk])
      BY <3>1, FS_Interval
    <3>3. IsFiniteSet({data[pk][i] : i \in DOMAIN data[pk]})
      BY <3>2, FiniteImage
    <3> QED BY <3>3 DEF ToSet
  <2>4. IsFiniteSet(UNION K)
    BY <2>2, <2>3, FS_UNION
  <2>5. Held \subseteq UNION K
    BY DEF Held, Holders
  <2>6. IsFiniteSet(Held)
    BY <2>4, <2>5, FS_Subset
  <2> QED BY <2>6, KeysAreIntegers DEF Held
<1>3. Heads = Ascending(Held)
  BY <1>1 DEF Heads
<1> DEFINE n == Cardinality(Held)
<1>4. /\ Heads \in Seq(Held) /\ Len(Heads) = n /\ DOMAIN Heads = 1..n /\ n \in Nat /\ ToSet(Heads) = Held
      /\ \A i, j \in 1..n : i < j <=> Heads[i] < Heads[j]
      /\ \A i, j \in 1..n : Heads[i] = Heads[j] => i = j
  BY <1>2, <1>3, AscendingFacts
<1> HIDE DEF n, Heads
<1>5. Heads \in Seq(SK) /\ Heads \in Seq(Int) /\ \A i \in 1..n : Heads[i] \in Int
  <2>1. Held \subseteq SK /\ Held \subseteq Int
    BY <1>2
  <2> HIDE DEF Held
  <2>2. \A i \in 1..n : Heads[i] \in Held
    BY <1>4
  <2>3. Heads \in [1..n -> Held]
    BY <1>4, SeqDef
  <2>4. Heads \in [1..n -> SK] /\ Heads \in [1..n -> Int]
    BY <2>1, <2>3
  <2> QED BY <1>4, <2>1, <2>2, <2>4, SeqDef
<1>6. Rising(Heads, Lesser)
  BY <1>4, <1>5 DEF Rising, Lesser
<1>7. Nondecreasing(Heads)
  BY <1>4, <1>5 DEF Nondecreasing
<1> QED BY <1>1, <1>2, <1>4, <1>5, <1>6, <1>7

\* The keys of a range with entries, in a direction: what a scan of the heads visits.
HeldIn(r) == {sk \in Inside(r) : Holders(data, sk) # {}}
HeldKeys(r, asc) == InDirection(Ascending(HeldIn(r)), asc)
HeadScan(r, asc) == InDirection(Ascending(Within(Heads, r)), asc)

LEMMA HeldKeysFacts ==
    ASSUME Readable, NEW r, NEW asc \in BOOLEAN
    PROVE  /\ HeldIn(r) \in SUBSET SK /\ HeldIn(r) \in SUBSET Int /\ IsFiniteSet(HeldIn(r))
           /\ HeldIn(r) = {sk \in Held : Includes(r, sk)}
           /\ HeldKeys(r, asc) \in Seq(SK) /\ ToSet(HeldKeys(r, asc)) = HeldIn(r)
           /\ Rising(HeldKeys(r, asc), Follows(asc))
<1>1. HeldIn(r) = {sk \in Held : Includes(r, sk)}
  BY DEF HeldIn, Held, Inside
<1>2. HeldIn(r) \in SUBSET SK /\ HeldIn(r) \in SUBSET Int /\ IsFiniteSet(HeldIn(r))
  <2>1. IsFiniteSet(Held) /\ Held \in SUBSET SK
    BY HeadsFacts DEF Held
  <2>2. HeldIn(r) \subseteq Held
    BY <1>1
  <2>3. IsFiniteSet(HeldIn(r))
    BY <2>1, <2>2, FS_Subset
  <2> QED BY <2>1, <2>2, <2>3, KeysAreIntegers
<1> DEFINE q == HeldKeys(r, asc)
<1>3. q \in Seq(HeldIn(r)) /\ ToSet(q) = HeldIn(r) /\ Rising(q, Follows(asc))
  BY <1>2, DirectedFacts DEF HeldKeys
<1> HIDE DEF q
<1>4. q \in Seq(SK)
  <2>1. q \in [1..Len(q) -> HeldIn(r)] /\ Len(q) \in Nat
    BY <1>3, SeqDef
  <2>2. q \in [1..Len(q) -> SK]
    BY <1>2, <2>1
  <2> QED BY <2>1, <2>2, SeqDef
<1> QED BY <1>1, <1>2, <1>3, <1>4 DEF q

\* The heads that the scan visits are the keys of the range.
LEMMA HeadScanFacts ==
    ASSUME Readable, NEW r \in AllRanges, NEW asc \in BOOLEAN
    PROVE  /\ HeadScan(r, asc) \in Seq(DOMAIN Heads) /\ ToSet(HeadScan(r, asc)) = Within(Heads, r)
           /\ Rising(HeadScan(r, asc), Follows(asc))
           /\ HeldKeys(r, asc) = [i \in DOMAIN HeadScan(r, asc) |-> Heads[HeadScan(r, asc)[i]]]
<1> DEFINE s == HeadScan(r, asc)
           W == Within(Heads, r)
           t == [i \in DOMAIN s |-> Heads[s[i]]]
<1>1. Heads \in Seq(SK) /\ Heads \in Seq(Int) /\ ToSet(Heads) = Held
      /\ \A i, j \in DOMAIN Heads : i < j <=> Heads[i] < Heads[j]
  BY HeadsFacts
<1>2. W \in SUBSET (1..Len(Heads)) /\ W \in SUBSET Int /\ IsFiniteSet(W)
      /\ DOMAIN Heads = 1..Len(Heads) /\ Len(Heads) \in Nat /\ \A i \in 1..Len(Heads) : Heads[i] \in Int
  BY <1>1, WithinFacts
<1>3. s \in Seq(W) /\ ToSet(s) = W /\ Rising(s, Follows(asc))
  BY <1>2, DirectedFacts DEF HeadScan
<1> HIDE DEF s
<1>4. DOMAIN s = 1..Len(s) /\ Len(s) \in Nat /\ \A i \in DOMAIN s : s[i] \in W
  BY <1>3
<1>5. s \in Seq(DOMAIN Heads)
  <2>1. s \in [1..Len(s) -> W] /\ Len(s) \in Nat
    BY <1>3, SeqDef
  <2>2. W \subseteq DOMAIN Heads
    BY <1>2
  <2> HIDE DEF W
  <2>3. s \in [1..Len(s) -> DOMAIN Heads]
    BY <2>1, <2>2
  <2> QED BY <2>1, <2>3, SeqDef
<1>6. t \in Seq(Int) /\ DOMAIN t = DOMAIN s /\ \A i \in DOMAIN s : t[i] = Heads[s[i]] /\ t[i] \in Int
  <2>1. \A i \in DOMAIN s : Heads[s[i]] \in Int /\ s[i] \in DOMAIN Heads
    BY <1>2, <1>4
  <2>2. t \in [1..Len(s) -> Int] /\ DOMAIN t = DOMAIN s /\ \A i \in DOMAIN s : t[i] = Heads[s[i]]
    BY <1>4, <2>1
  <2> QED BY <1>4, <2>1, <2>2, SeqDef
<1>7. Rising(t, Follows(asc))
  <2> SUFFICES ASSUME NEW i \in DOMAIN s, NEW j \in DOMAIN s, i < j
               PROVE  <<t[i], t[j]>> \in Follows(asc)
    BY <1>6 DEF Rising
  <2>1. <<s[i], s[j]>> \in Follows(asc)
    BY <1>3 DEF Rising
  <2>2. /\ s[i] \in DOMAIN Heads /\ s[j] \in DOMAIN Heads /\ s[i] \in Int /\ s[j] \in Int
        /\ t[i] = Heads[s[i]] /\ t[j] = Heads[s[j]] /\ t[i] \in Int /\ t[j] \in Int
    BY <1>2, <1>4, <1>6
  <2>3. /\ s[i] < s[j] <=> t[i] < t[j]
        /\ s[j] < s[i] <=> t[j] < t[i]
    BY <1>1, <2>2
  <2> HIDE DEF t
  <2>4. /\ <<s[i], s[j]>> \in Follows(asc) <=> IF asc THEN s[i] < s[j] ELSE s[i] > s[j]
        /\ <<t[i], t[j]>> \in Follows(asc) <=> IF asc THEN t[i] < t[j] ELSE t[i] > t[j]
    BY <2>2, FollowsFacts
  <2>5. CASE asc
    BY <2>1, <2>3, <2>4, <2>5
  <2>6. CASE ~asc
    BY <2>1, <2>2, <2>3, <2>4, <2>6
  <2> QED BY <2>5, <2>6
<1>8. ToSet(t) = HeldIn(r)
  <2>1. ToSet(t) = {Heads[i] : i \in W}
    <3>1. ToSet(t) = {t[i] : i \in DOMAIN s}
      BY <1>6 DEF ToSet
    <3>2. W = {s[i] : i \in DOMAIN s}
      BY <1>3 DEF ToSet
    <3> HIDE DEF t, W
    <3> QED BY <1>6, <3>1, <3>2
  <2>2. HeldIn(r) = {sk \in Held : Includes(r, sk)}
    BY HeldKeysFacts
  <2>3. Held = {Heads[i] : i \in DOMAIN Heads}
    BY <1>1 DEF ToSet
  <2>4. {Heads[i] : i \in W} = {sk \in Held : Includes(r, sk)}
    BY <2>3 DEF Within
  <2> QED BY <2>1, <2>2, <2>4
<1> HIDE DEF t, W
<1>9. HeldIn(r) \in SUBSET Int /\ IsFiniteSet(HeldIn(r))
  BY HeldKeysFacts
<1>10. t = HeldKeys(r, asc)
  BY <1>6, <1>7, <1>8, <1>9, DirectedIsUnique DEF HeldKeys
<1> QED BY <1>3, <1>5, <1>10 DEF s, t, W

\* The lists of a range, each in the scan's direction.
ListsOf(r, asc) ==
    FlattenSeq([i \in DOMAIN HeldKeys(r, asc) |-> InDirection(index[HeldKeys(r, asc)[i]], asc)])

LEMMA HeadScanLists ==
    ASSUME Readable, NEW r \in AllRanges, NEW asc \in BOOLEAN
    PROVE  Lists(HeadScan(r, asc), asc) = ListsOf(r, asc)
<1> DEFINE s == HeadScan(r, asc)
           q == HeldKeys(r, asc)
<1>1. q = [i \in DOMAIN s |-> Heads[s[i]]]
  BY HeadScanFacts
<1> HIDE DEF s, q
<1>2. DOMAIN q = DOMAIN s /\ \A i \in DOMAIN s : q[i] = Heads[s[i]]
  BY <1>1
<1>3. [i \in DOMAIN s |-> InDirection(index[Heads[s[i]]], asc)] = [i \in DOMAIN q |-> InDirection(index[q[i]], asc)]
  BY <1>2
<1> QED BY <1>3 DEF s, q, Lists, ListsOf

\* What these lists hold.
LEMMA ListsOfFacts ==
    ASSUME Readable, NEW r, NEW asc \in BOOLEAN
    PROVE  /\ ListsOf(r, asc) \in Seq(PK)
           /\ ToSet(ListsOf(r, asc)) = UNION {Holders(data, sk) : sk \in HeldIn(r)}
<1> DEFINE q == HeldKeys(r, asc)
           b == [i \in DOMAIN q |-> InDirection(index[q[i]], asc)]
           All == PK \X PK
<1>1. q \in Seq(SK) /\ ToSet(q) = HeldIn(r)
  BY HeldKeysFacts
<1> HIDE DEF q
<1>2. DOMAIN q = 1..Len(q) /\ Len(q) \in Nat /\ \A i \in DOMAIN q : q[i] \in SK
  BY <1>1
<1>3. ASSUME NEW i \in DOMAIN q
      PROVE  b[i] \in Seq(PK) /\ ToSet(b[i]) = Holders(data, q[i])
  <2>1. index[q[i]] \in Seq(PK) /\ ToSet(index[q[i]]) = Holders(data, q[i])
    BY <1>2 DEF Readable
  <2>2. Reverse(index[q[i]]) \in Seq(PK) /\ ToSet(Reverse(index[q[i]])) = ToSet(index[q[i]])
    BY <2>1, ReverseFacts
  <2> QED BY <2>1, <2>2 DEF InDirection
<1>4. b \in Seq(Seq(PK)) /\ DOMAIN b = DOMAIN q
  <2>1. b \in [1..Len(q) -> Seq(PK)] /\ DOMAIN b = DOMAIN q
    BY <1>2, <1>3
  <2> QED BY <1>2, <2>1, SeqDef
<1> HIDE DEF b
<1>5. /\ \A i \in DOMAIN b : Rising(b[i], All)
      /\ \A i, j \in DOMAIN b : i < j => \A x \in ToSet(b[i]), y \in ToSet(b[j]) : <<x, y>> \in All
  <2>1. \A i \in DOMAIN b : b[i] \in Seq(PK) /\ \A k \in DOMAIN b[i] : b[i][k] \in PK
    BY <1>3, <1>4
  <2> QED BY <2>1 DEF Rising, ToSet
<1> HIDE DEF All
<1>6. FlattenSeq(b) \in Seq(PK) /\ ToSet(FlattenSeq(b)) = UNION {ToSet(b[i]) : i \in DOMAIN b}
  BY <1>4, <1>5, FlattenRises
<1>7. UNION {ToSet(b[i]) : i \in DOMAIN b} = UNION {Holders(data, sk) : sk \in HeldIn(r)}
  <2>1. {ToSet(b[i]) : i \in DOMAIN b} = {Holders(data, q[i]) : i \in DOMAIN q}
    BY <1>3, <1>4
  <2>2. HeldIn(r) = {q[i] : i \in DOMAIN q}
    BY <1>1 DEF ToSet
  <2>3. {Holders(data, q[i]) : i \in DOMAIN q} = {Holders(data, sk) : sk \in HeldIn(r)}
    BY <2>2
  <2> QED BY <2>1, <2>3
<1> QED BY <1>6, <1>7 DEF ListsOf, b, q

-----------------------------------------------------------------------------
(* The tables of LMDB and IndexedDB, which have a row for each entry.      *)

\* The order of the rows: by the secondary key, then by the primary key.
RowBefore(asc) ==
    {p \in KeyPairs \X KeyPairs :
        IF p[1][1] = p[2][1] THEN <<p[1][2], p[2][2]>> \in Follows(asc) ELSE <<p[1][1], p[2][1]>> \in Follows(asc)}

LEMMA KeyPairsFacts ==
    \A v \in KeyPairs : /\ v[1] \in SK /\ v[2] \in PK /\ v[1] \in Int /\ v[2] \in Int
                        /\ \A a, b : v = <<a, b>> <=> v[1] = a /\ v[2] = b
<1> TAKE v \in KeyPairs
<1>1. v[1] \in SK /\ v[2] \in PK /\ v = <<v[1], v[2]>>
  BY DEF KeyPairs
<1>2. v[1] \in Int /\ v[2] \in Int
  BY <1>1, KeysAreIntegers
<1>3. ASSUME NEW a, NEW b
      PROVE  v = <<a, b>> <=> v[1] = a /\ v[2] = b
  BY <1>1
<1> QED BY <1>1, <1>2, <1>3

LEMMA RowBeforeFacts ==
    ASSUME NEW asc \in BOOLEAN, NEW v \in KeyPairs, NEW w \in KeyPairs
    PROVE  <<v, w>> \in RowBefore(asc) <=>
               IF v[1] = w[1] THEN IF asc THEN v[2] < w[2] ELSE v[2] > w[2]
               ELSE IF asc THEN v[1] < w[1] ELSE v[1] > w[1]
<1>1. <<v, w>> \in RowBefore(asc) <=>
          IF v[1] = w[1] THEN <<v[2], w[2]>> \in Follows(asc) ELSE <<v[1], w[1]>> \in Follows(asc)
  BY DEF RowBefore
<1>2. /\ <<v[2], w[2]>> \in Follows(asc) <=> IF asc THEN v[2] < w[2] ELSE v[2] > w[2]
      /\ <<v[1], w[1]>> \in Follows(asc) <=> IF asc THEN v[1] < w[1] ELSE v[1] > w[1]
  BY KeyPairsFacts, FollowsFacts
<1> QED BY <1>1, <1>2

LEMMA RowBeforeIsAsymmetric == \A asc \in BOOLEAN : Asymmetric(RowBefore(asc))
<1> SUFFICES ASSUME NEW asc \in BOOLEAN, NEW v, NEW w, <<v, w>> \in RowBefore(asc)
             PROVE  <<w, v>> \notin RowBefore(asc)
  BY DEF Asymmetric
<1>1. v \in KeyPairs /\ w \in KeyPairs
  BY DEF RowBefore
<1>2. v[1] \in Int /\ v[2] \in Int /\ w[1] \in Int /\ w[2] \in Int
  BY <1>1, KeyPairsFacts
<1>3. /\ <<v, w>> \in RowBefore(asc) <=>
               IF v[1] = w[1] THEN IF asc THEN v[2] < w[2] ELSE v[2] > w[2]
               ELSE IF asc THEN v[1] < w[1] ELSE v[1] > w[1]
      /\ <<w, v>> \in RowBefore(asc) <=>
               IF w[1] = v[1] THEN IF asc THEN w[2] < v[2] ELSE w[2] > v[2]
               ELSE IF asc THEN w[1] < v[1] ELSE w[1] > v[1]
  BY <1>1, RowBeforeFacts
<1> DEFINE a == v[1]
           b == v[2]
           c == w[1]
           d == w[2]
<1>4. <<v, w>> \in RowBefore(asc)
  OBVIOUS
<1> HIDE DEF a, b, c, d
<1>5. a \in Int /\ b \in Int /\ c \in Int /\ d \in Int
  BY <1>2 DEF a, b, c, d
<1>6. IF a = c THEN IF asc THEN b < d ELSE b > d ELSE IF asc THEN a < c ELSE a > c
  BY <1>3, <1>4 DEF a, b, c, d
<1>7. ~(IF c = a THEN IF asc THEN d < b ELSE d > b ELSE IF asc THEN c < a ELSE c > a)
  <2>1. CASE asc
    BY <1>5, <1>6, <2>1
  <2>2. CASE ~asc
    BY <1>5, <1>6, <2>2
  <2> QED BY <2>1, <2>2
<1> QED BY <1>3, <1>7 DEF a, b, c, d

\* The rows of a secondary key.
RowsOf(sk) == [j \in DOMAIN index[sk] |-> <<sk, index[sk][j]>>]

LEMMA RowsOfFacts ==
    ASSUME Readable, kind # "memory", NEW sk \in SK, NEW asc \in BOOLEAN
    PROVE  /\ InDirection(RowsOf(sk), asc) \in Seq(KeyPairs)
           /\ Rising(InDirection(RowsOf(sk), asc), RowBefore(asc))
           /\ ToSet(InDirection(RowsOf(sk), asc)) = {<<sk, pk>> : pk \in Holders(data, sk)}
           /\ DOMAIN InDirection(RowsOf(sk), asc) = DOMAIN InDirection(index[sk], asc)
           /\ \A j \in DOMAIN InDirection(RowsOf(sk), asc) :
                InDirection(RowsOf(sk), asc)[j] = <<sk, InDirection(index[sk], asc)[j]>>
<1> DEFINE list == index[sk]
           q == RowsOf(sk)
           n == Len(list)
<1>1. list \in Seq(PK) /\ ToSet(list) = Holders(data, sk) /\ Rising(list, Lesser)
  BY DEF Readable
<1>2. DOMAIN list = 1..n /\ n \in Nat /\ \A j \in 1..n : list[j] \in PK /\ list[j] \in Int
  <2>1. DOMAIN list = 1..n /\ n \in Nat /\ \A j \in 1..n : list[j] \in PK
    BY <1>1
  <2> HIDE DEF list, n
  <2> QED BY <2>1, KeysAreIntegers
<1>3. \A j, l \in 1..n : j < l => list[j] < list[l]
  BY <1>1, <1>2 DEF Rising, Lesser
<1> HIDE DEF list, n
<1>4. q = [j \in 1..n |-> <<sk, list[j]>>]
  BY <1>2 DEF RowsOf, list
<1>5. q \in [1..n -> KeyPairs] /\ DOMAIN q = 1..n /\ \A j \in 1..n : q[j] = <<sk, list[j]>> /\ q[j] \in KeyPairs
  BY <1>2, <1>4 DEF KeyPairs
<1> HIDE DEF q
<1>6. q \in Seq(KeyPairs) /\ Len(q) = n
  BY <1>2, <1>5, SeqDef
<1>7. ToSet(q) = {<<sk, pk>> : pk \in Holders(data, sk)}
  <2>1. ToSet(q) = {q[j] : j \in 1..n} /\ ToSet(list) = {list[j] : j \in 1..n}
    BY <1>2, <1>5 DEF ToSet
  <2>2. {q[j] : j \in 1..n} = {<<sk, list[j]>> : j \in 1..n}
    BY <1>5
  <2>3. ToSet(list) = Holders(data, sk)
    BY <1>1 DEF list
  <2> QED BY <2>1, <2>2, <2>3
<1>8. ASSUME NEW j \in 1..n, NEW l \in 1..n, j < l
      PROVE  <<q[j], q[l]>> \in RowBefore(TRUE) /\ <<q[l], q[j]>> \in RowBefore(FALSE)
  <2>1. q[j][1] = sk /\ q[l][1] = sk /\ q[j][2] = list[j] /\ q[l][2] = list[l]
    BY <1>5
  <2>2. list[j] < list[l]
    BY <1>3, <1>8
  <2>3. q[j] \in KeyPairs /\ q[l] \in KeyPairs
    BY <1>5
  <2>4. /\ <<q[j], q[l]>> \in RowBefore(TRUE) <=> q[j][2] < q[l][2]
        /\ <<q[l], q[j]>> \in RowBefore(FALSE) <=> q[l][2] > q[j][2]
    <3> DEFINE v == q[j]
               w == q[l]
    <3>1. v \in KeyPairs /\ w \in KeyPairs /\ v[1] = w[1]
      BY <2>1, <2>3
    <3> HIDE DEF v, w
    <3>2. <<v, w>> \in RowBefore(TRUE) <=> v[2] < w[2]
      BY <3>1, RowBeforeFacts
    <3>3. <<w, v>> \in RowBefore(FALSE) <=> w[2] > v[2]
      BY <3>1, RowBeforeFacts
    <3> QED BY <3>2, <3>3 DEF v, w
  <2> QED BY <1>2, <2>1, <2>2, <2>4
<1>9. CASE asc
  <2>1. InDirection(q, asc) = q /\ InDirection(list, asc) = list
    BY <1>9 DEF InDirection
  <2>2. Rising(q, RowBefore(asc))
    BY <1>5, <1>8, <1>9 DEF Rising
  <2> QED BY <1>2, <1>5, <1>6, <1>7, <2>1, <2>2 DEF q, list
<1>10. CASE ~asc
  <2>1. InDirection(q, asc) = Reverse(q) /\ InDirection(list, asc) = Reverse(list)
    BY <1>10 DEF InDirection
  <2>2. /\ Reverse(q) \in Seq(KeyPairs) /\ DOMAIN Reverse(q) = 1..n /\ ToSet(Reverse(q)) = ToSet(q)
        /\ \A j \in 1..n : n - j + 1 \in 1..n /\ Reverse(q)[j] = q[n - j + 1]
    BY <1>6, ReverseFacts
  <2>3. list \in Seq(PK) /\ Len(list) = n
    BY <1>1 DEF list, n
  <2>4. DOMAIN Reverse(list) = 1..n /\ \A j \in 1..n : Reverse(list)[j] = list[n - j + 1]
    BY <2>3, ReverseFacts
  <2>5. Rising(Reverse(q), RowBefore(asc))
    <3> SUFFICES ASSUME NEW j \in 1..n, NEW l \in 1..n, j < l
                 PROVE  <<Reverse(q)[j], Reverse(q)[l]>> \in RowBefore(FALSE)
      BY <1>10, <2>2 DEF Rising
    <3> DEFINE a == n - j + 1
               b == n - l + 1
    <3>1. a \in 1..n /\ b \in 1..n /\ Reverse(q)[j] = q[a] /\ Reverse(q)[l] = q[b]
      BY <2>2
    <3>2. b < a
      BY <1>2
    <3> HIDE DEF a, b
    <3> QED BY <1>8, <3>1, <3>2
  <2>6. \A j \in 1..n : Reverse(q)[j] = <<sk, Reverse(list)[j]>>
    BY <1>5, <2>2, <2>4
  <2> QED BY <1>7, <2>1, <2>2, <2>4, <2>5, <2>6 DEF q, list
<1> QED BY <1>9, <1>10

\* The rows of the keys of a sequence that rises in one direction.
Blocks(q, asc) == [i \in DOMAIN q |-> InDirection(RowsOf(q[i]), asc)]

LEMMA BlocksFacts ==
    ASSUME Readable, kind # "memory", NEW asc \in BOOLEAN, NEW q \in Seq(SK), Rising(q, Follows(asc))
    PROVE  /\ Blocks(q, asc) \in Seq(Seq(KeyPairs))
           /\ FlattenSeq(Blocks(q, asc)) \in Seq(KeyPairs)
           /\ Rising(FlattenSeq(Blocks(q, asc)), RowBefore(asc))
           /\ ToSet(FlattenSeq(Blocks(q, asc))) = {p \in KeyPairs : p[1] \in ToSet(q) /\ p[2] \in Holders(data, p[1])}
<1> DEFINE b == Blocks(q, asc)
           n == Len(q)
<1>1. DOMAIN q = 1..n /\ n \in Nat /\ \A i \in 1..n : q[i] \in SK /\ q[i] \in Int
  <2>1. DOMAIN q = 1..n /\ n \in Nat /\ \A i \in 1..n : q[i] \in SK
    OBVIOUS
  <2> HIDE DEF n
  <2> QED BY <2>1, KeysAreIntegers
<1>2. DOMAIN b = 1..n /\ \A i \in 1..n : b[i] = InDirection(RowsOf(q[i]), asc)
  BY <1>1 DEF Blocks
<1>3. \A i \in 1..n : /\ b[i] \in Seq(KeyPairs) /\ Rising(b[i], RowBefore(asc))
                      /\ ToSet(b[i]) = {<<q[i], pk>> : pk \in Holders(data, q[i])}
  BY <1>1, <1>2, RowsOfFacts
<1>4. b \in Seq(Seq(KeyPairs))
  <2>1. b = [i \in 1..n |-> InDirection(RowsOf(q[i]), asc)]
    BY <1>1 DEF Blocks
  <2> HIDE DEF b
  <2>2. b \in [1..n -> Seq(KeyPairs)]
    BY <1>2, <1>3, <2>1
  <2> QED BY <1>1, <2>2, SeqDef
<1> HIDE DEF b
<1>5. ASSUME NEW i \in 1..n, NEW x \in ToSet(b[i])
      PROVE  x \in KeyPairs /\ x[1] = q[i] /\ x[2] \in Holders(data, q[i])
  <2>1. x \in {<<q[i], pk>> : pk \in Holders(data, q[i])}
    BY <1>3
  <2>2. b[i] \in Seq(KeyPairs)
    BY <1>3
  <2>3. x \in KeyPairs
    BY <1>5, <2>2 DEF ToSet
  <2> QED BY <2>1, <2>3
<1>6. ASSUME NEW i \in 1..n, NEW j \in 1..n, i < j, NEW x \in ToSet(b[i]), NEW y \in ToSet(b[j])
      PROVE  <<x, y>> \in RowBefore(asc)
  <2>1. x \in KeyPairs /\ y \in KeyPairs /\ x[1] = q[i] /\ y[1] = q[j]
    BY <1>5
  <2>2. <<q[i], q[j]>> \in Follows(asc)
    BY <1>1, <1>6 DEF Rising
  <2>3. IF asc THEN q[i] < q[j] ELSE q[i] > q[j]
    BY <1>1, <2>2, FollowsFacts
  <2>4. x[1] # y[1]
    BY <1>1, <2>1, <2>3
  <2> QED BY <2>1, <2>3, <2>4, RowBeforeFacts
<1>7. /\ FlattenSeq(b) \in Seq(KeyPairs) /\ Rising(FlattenSeq(b), RowBefore(asc))
      /\ ToSet(FlattenSeq(b)) = UNION {ToSet(b[i]) : i \in DOMAIN b}
  <2> DEFINE R == RowBefore(asc)
  <2>1. \A i \in DOMAIN b : Rising(b[i], R)
    BY <1>2, <1>3
  <2>2. \A i, j \in DOMAIN b : i < j => \A x \in ToSet(b[i]), y \in ToSet(b[j]) : <<x, y>> \in R
    BY <1>2, <1>6
  <2> HIDE DEF R
  <2>3. /\ FlattenSeq(b) \in Seq(KeyPairs) /\ Rising(FlattenSeq(b), R)
        /\ ToSet(FlattenSeq(b)) = UNION {ToSet(b[i]) : i \in DOMAIN b}
    BY <1>4, <2>1, <2>2, FlattenRises
  <2> QED BY <2>3 DEF R
<1>8. UNION {ToSet(b[i]) : i \in DOMAIN b} = {p \in KeyPairs : p[1] \in ToSet(q) /\ p[2] \in Holders(data, p[1])}
  <2>1. ASSUME NEW i \in 1..n, NEW x \in ToSet(b[i])
        PROVE  x \in {p \in KeyPairs : p[1] \in ToSet(q) /\ p[2] \in Holders(data, p[1])}
    BY <1>1, <1>5 DEF ToSet
  <2>2. ASSUME NEW p \in KeyPairs, p[1] \in ToSet(q), p[2] \in Holders(data, p[1])
        PROVE  \E i \in 1..n : p \in ToSet(b[i])
    <3>1. PICK i \in 1..n : p[1] = q[i]
      BY <1>1, <2>2 DEF ToSet
    <3>2. p = <<q[i], p[2]>>
      BY <2>2, <3>1, KeyPairsFacts
    <3> QED BY <1>3, <2>2, <3>1, <3>2
  <2> QED BY <1>2, <2>1, <2>2
<1> QED BY <1>4, <1>7, <1>8 DEF b

\* The table as a whole.
LEMMA RowsFacts ==
    ASSUME Readable, kind # "memory"
    PROVE  /\ Rows \in Seq(KeyPairs) /\ Rising(Rows, RowBefore(TRUE))
           /\ ToSet(Rows) = {p \in KeyPairs : p[2] \in Holders(data, p[1])}
           /\ RowKeys \in Seq(Int) /\ Nondecreasing(RowKeys) /\ ToSet(RowKeys) = Held
           /\ DOMAIN Rows = 1..Len(Rows) /\ Len(Rows) \in Nat /\ Len(RowKeys) = Len(Rows)
           /\ DOMAIN RowKeys = 1..Len(Rows) /\ \A i \in 1..Len(Rows) : RowKeys[i] = Rows[i][1]
<1>1. Heads \in Seq(SK) /\ ToSet(Heads) = Held /\ Rising(Heads, Lesser)
  BY HeadsFacts
<1>2. Rows = FlattenSeq(Blocks(Heads, TRUE))
  BY DEF Rows, Blocks, RowsOf, InDirection
<1>3. /\ Rows \in Seq(KeyPairs) /\ Rising(Rows, RowBefore(TRUE))
      /\ ToSet(Rows) = {p \in KeyPairs : p[1] \in ToSet(Heads) /\ p[2] \in Holders(data, p[1])}
  <2> DEFINE q == Heads
             asc == TRUE
  <2>1. q \in Seq(SK) /\ asc \in BOOLEAN /\ Rising(q, Follows(asc))
    BY <1>1 DEF Follows
  <2>2. Rows = FlattenSeq(Blocks(q, asc)) /\ RowBefore(TRUE) = RowBefore(asc) /\ ToSet(Heads) = ToSet(q)
    BY <1>2
  <2> HIDE DEF q, asc
  <2>3. /\ FlattenSeq(Blocks(q, asc)) \in Seq(KeyPairs) /\ Rising(FlattenSeq(Blocks(q, asc)), RowBefore(asc))
        /\ ToSet(FlattenSeq(Blocks(q, asc))) = {p \in KeyPairs : p[1] \in ToSet(q) /\ p[2] \in Holders(data, p[1])}
    BY <2>1, BlocksFacts
  <2> QED BY <2>2, <2>3
<1>4. ToSet(Rows) = {p \in KeyPairs : p[2] \in Holders(data, p[1])}
  <2>1. \A p \in KeyPairs : p[2] \in Holders(data, p[1]) => p[1] \in Held
    BY KeyPairsFacts DEF Held
  <2> QED BY <1>1, <1>3, <2>1
<1> DEFINE n == Len(Rows)
           k == RowKeys
<1>5. DOMAIN Rows = 1..n /\ n \in Nat /\ \A i \in 1..n : Rows[i] \in KeyPairs
  BY <1>3
<1>6. DOMAIN k = 1..n /\ \A i \in 1..n : k[i] = Rows[i][1] /\ k[i] \in Int
  BY <1>5, KeyPairsFacts DEF RowKeys
<1>7. k \in Seq(Int) /\ Len(k) = n
  <2>1. k = [i \in 1..n |-> Rows[i][1]]
    BY <1>5 DEF RowKeys
  <2> HIDE DEF k, n
  <2>2. k \in [1..n -> Int]
    BY <1>6, <2>1
  <2> QED BY <1>5, <2>2, SeqDef
<1> HIDE DEF k, n
<1>8. Nondecreasing(k)
  <2> SUFFICES ASSUME NEW i \in 1..n, NEW j \in 1..n, i < j
               PROVE  k[i] <= k[j]
    BY <1>6 DEF Nondecreasing
  <2> DEFINE v == Rows[i]
             w == Rows[j]
  <2>1. v \in KeyPairs /\ w \in KeyPairs /\ <<v, w>> \in RowBefore(TRUE)
    BY <1>3, <1>5 DEF Rising
  <2>2. k[i] = v[1] /\ k[j] = w[1] /\ k[i] \in Int /\ k[j] \in Int
    BY <1>6
  <2> HIDE DEF v, w
  <2>3. IF v[1] = w[1] THEN v[2] < w[2] ELSE v[1] < w[1]
    BY <2>1, RowBeforeFacts
  <2> QED BY <2>2, <2>3
<1>9. ToSet(k) = Held
  <2>1. ToSet(k) = {Rows[i][1] : i \in 1..n} /\ ToSet(Rows) = {Rows[i] : i \in 1..n}
    BY <1>5, <1>6 DEF ToSet
  <2>2. ToSet(k) = {p[1] : p \in ToSet(Rows)}
    BY <2>1
  <2>3. ASSUME NEW sk \in Held
        PROVE  \E p \in ToSet(Rows) : p[1] = sk
    <3>1. PICK pk : pk \in Holders(data, sk)
      BY DEF Held
    <3>2. sk \in SK /\ pk \in PK
      <4>1. Holders(data, sk) \subseteq PK
        BY StoreFacts DEF Readable, FiniteStores, Holders
      <4> QED BY <3>1, <4>1 DEF Held
    <3>3. <<sk, pk>> \in KeyPairs /\ <<sk, pk>>[1] = sk /\ <<sk, pk>>[2] = pk
      BY <3>2 DEF KeyPairs
    <3> QED BY <1>4, <3>1, <3>3
  <2> QED BY <1>1, <1>3, <2>2, <2>3
<1> QED BY <1>3, <1>4, <1>5, <1>6, <1>7, <1>8, <1>9 DEF k, n

RowScan(r, asc) == InDirection(Ascending(Within(RowKeys, r)), asc)

\* The scan of a range visits the rows of its keys, key by key.
LEMMA VisitsFacts ==
    ASSUME Readable, kind # "memory", NEW r, NEW asc \in BOOLEAN
    PROVE  /\ Visits(RowScan(r, asc)) = FlattenSeq(Blocks(HeldKeys(r, asc), asc))
           /\ Visits(RowScan(r, asc)) \in Seq(KeyPairs)
           /\ Rising(Visits(RowScan(r, asc)), RowBefore(asc))
           /\ ToSet(Visits(RowScan(r, asc))) = {p \in KeyPairs : p[1] \in HeldIn(r) /\ p[2] \in Holders(data, p[1])}
<1> DEFINE W == Within(RowKeys, r)
           s == RowScan(r, asc)
           v == Visits(s)
           q == HeldKeys(r, asc)
           n == Len(Rows)
           b == FlattenSeq(Blocks(q, asc))
<1>1. q \in Seq(SK) /\ ToSet(q) = HeldIn(r) /\ Rising(q, Follows(asc))
  BY HeldKeysFacts
<1> HIDE DEF q
<1>2. /\ b \in Seq(KeyPairs) /\ Rising(b, RowBefore(asc))
      /\ ToSet(b) = {p \in KeyPairs : p[1] \in HeldIn(r) /\ p[2] \in Holders(data, p[1])}
  BY <1>1, BlocksFacts
<1> HIDE DEF b
<1>3. /\ Rows \in Seq(KeyPairs) /\ Rising(Rows, RowBefore(TRUE)) /\ RowKeys \in Seq(Int) /\ Len(RowKeys) = n
      /\ ToSet(Rows) = {p \in KeyPairs : p[2] \in Holders(data, p[1])} /\ ToSet(RowKeys) = Held
      /\ DOMAIN Rows = 1..n /\ n \in Nat /\ DOMAIN RowKeys = 1..n /\ \A i \in 1..n : RowKeys[i] = Rows[i][1]
  BY RowsFacts
<1> HIDE DEF n
<1>4. W \in SUBSET (1..n) /\ W \in SUBSET Int /\ IsFiniteSet(W)
  BY <1>3, WithinFacts
<1>5. s \in Seq(W) /\ ToSet(s) = W /\ Rising(s, Follows(asc))
  BY <1>4, DirectedFacts DEF RowScan
<1>6. W = {i \in 1..n : Includes(r, Rows[i][1])}
  BY <1>3 DEF Within
<1> HIDE DEF W, s
<1>7. DOMAIN s = 1..Len(s) /\ Len(s) \in Nat /\ \A i \in DOMAIN s : s[i] \in W /\ s[i] \in 1..n /\ s[i] \in Int
  <2>1. DOMAIN s = 1..Len(s) /\ Len(s) \in Nat /\ \A i \in DOMAIN s : s[i] \in W
    BY <1>5
  <2>2. \A i \in W : i \in 1..n /\ i \in Int
    BY <1>4
  <2> QED BY <2>1, <2>2
<1>8. DOMAIN v = DOMAIN s /\ \A i \in DOMAIN s : v[i] = Rows[s[i]] /\ v[i] \in KeyPairs
  BY <1>3, <1>7 DEF Visits
<1>9. v \in Seq(KeyPairs)
  <2>1. v = [i \in 1..Len(s) |-> Rows[s[i]]]
    BY <1>7 DEF Visits
  <2> HIDE DEF v
  <2>2. v \in [1..Len(s) -> KeyPairs]
    BY <1>7, <1>8, <2>1
  <2> QED BY <1>7, <2>2, SeqDef
<1> HIDE DEF v
<1>10. Rising(v, RowBefore(asc))
  <2> SUFFICES ASSUME NEW i \in DOMAIN s, NEW j \in DOMAIN s, i < j
               PROVE  <<v[i], v[j]>> \in RowBefore(asc)
    BY <1>8 DEF Rising
  <2>1. <<s[i], s[j]>> \in Follows(asc) /\ s[i] \in Int /\ s[j] \in Int
    BY <1>5, <1>7 DEF Rising
  <2>2. IF asc THEN s[i] < s[j] ELSE s[i] > s[j]
    BY <2>1, FollowsFacts
  <2>3. CASE asc
    <3>1. <<Rows[s[i]], Rows[s[j]]>> \in RowBefore(TRUE)
      BY <1>3, <1>7, <2>2, <2>3 DEF Rising
    <3>2. RowBefore(TRUE) = RowBefore(asc)
      BY <2>3
    <3> QED BY <1>8, <3>1, <3>2
  <2>4. CASE ~asc
    <3> DEFINE x == v[i]
               y == v[j]
    <3>1. x \in KeyPairs /\ y \in KeyPairs /\ <<y, x>> \in RowBefore(TRUE)
      <4>1. s[j] < s[i]
        BY <2>1, <2>2, <2>4
      <4>2. <<Rows[s[j]], Rows[s[i]]>> \in RowBefore(TRUE)
        BY <1>3, <1>7, <4>1 DEF Rising
      <4> QED BY <1>8, <4>2
    <3> HIDE DEF x, y
    <3>2. IF y[1] = x[1] THEN y[2] < x[2] ELSE y[1] < x[1]
      BY <3>1, RowBeforeFacts
    <3>3. x[1] \in Int /\ x[2] \in Int /\ y[1] \in Int /\ y[2] \in Int
      BY <3>1, KeyPairsFacts
    <3>4. IF x[1] = y[1] THEN x[2] > y[2] ELSE x[1] > y[1]
      BY <3>2, <3>3
    <3>5. <<x, y>> \in RowBefore(FALSE)
      BY <3>1, <3>4, RowBeforeFacts
    <3>6. RowBefore(FALSE) = RowBefore(asc)
      BY <2>4
    <3> QED BY <3>5, <3>6 DEF x, y
  <2> QED BY <2>3, <2>4
<1>11. ToSet(v) = ToSet(b)
  <2>1. ToSet(v) = {Rows[i] : i \in W}
    <3>1. ToSet(v) = {v[i] : i \in DOMAIN s} /\ W = {s[i] : i \in DOMAIN s}
      BY <1>5, <1>8 DEF ToSet
    <3> QED BY <1>8, <3>1
  <2>2. ToSet(Rows) = {Rows[i] : i \in 1..n}
    BY <1>3 DEF ToSet
  <2>3. ToSet(v) = {p \in ToSet(Rows) : Includes(r, p[1])}
    BY <1>6, <2>1, <2>2
  <2>4. \A p \in KeyPairs : p[2] \in Holders(data, p[1]) => (Includes(r, p[1]) <=> p[1] \in HeldIn(r))
    BY KeyPairsFacts DEF HeldIn, Inside
  <2> QED BY <1>2, <1>3, <2>3, <2>4
<1>12. v = b
  <2>1. Asymmetric(RowBefore(asc))
    BY RowBeforeIsAsymmetric
  <2> QED BY <1>2, <1>9, <1>10, <1>11, <2>1, RisingIsUnique
<1> QED BY <1>2, <1>9, <1>10, <1>11, <1>12 DEF v, s, b, q

\* Its primary keys are those of the lists.
LEMMA VisitsLists ==
    ASSUME Readable, kind # "memory", NEW r, NEW asc \in BOOLEAN
    PROVE  PrimaryKeys(Visits(RowScan(r, asc))) = ListsOf(r, asc)
<1> DEFINE q == HeldKeys(r, asc)
           b == Blocks(q, asc)
           g == [p \in KeyPairs |-> p[2]]
           c == [i \in DOMAIN b |-> Mapped(b[i], g)]
           l == [i \in DOMAIN q |-> InDirection(index[q[i]], asc)]
<1>1. q \in Seq(SK) /\ Rising(q, Follows(asc))
  BY HeldKeysFacts
<1> HIDE DEF q
<1>2. b \in Seq(Seq(KeyPairs)) /\ FlattenSeq(b) \in Seq(KeyPairs)
  BY <1>1, BlocksFacts
<1>3. DOMAIN b = DOMAIN q /\ \A i \in DOMAIN q : b[i] = InDirection(RowsOf(q[i]), asc) /\ q[i] \in SK
  BY <1>1 DEF Blocks
<1> HIDE DEF b
<1>4. g \in [KeyPairs -> PK] /\ \A p \in KeyPairs : g[p] = p[2]
  BY KeyPairsFacts
<1> HIDE DEF g
<1>5. ASSUME NEW i \in DOMAIN q
      PROVE  Mapped(b[i], g) = InDirection(index[q[i]], asc)
  <2> DEFINE d == InDirection(index[q[i]], asc)
  <2>1. /\ b[i] \in Seq(KeyPairs) /\ DOMAIN b[i] = DOMAIN d /\ \A j \in DOMAIN b[i] : b[i][j] = <<q[i], d[j]>>
    BY <1>3, RowsOfFacts
  <2>2. d \in Seq(PK)
    <3>1. index[q[i]] \in Seq(PK)
      BY <1>3 DEF Readable
    <3>2. Reverse(index[q[i]]) \in Seq(PK)
      BY <3>1, ReverseFacts
    <3> QED BY <3>1, <3>2 DEF InDirection
  <2> HIDE DEF d
  <2>3. \A j \in DOMAIN d : b[i][j] \in KeyPairs /\ g[b[i][j]] = d[j]
    BY <1>4, <2>1
  <2>4. Mapped(b[i], g) = [j \in DOMAIN d |-> d[j]]
    BY <2>1, <2>3 DEF Mapped
  <2>5. d = [j \in DOMAIN d |-> d[j]]
    BY <2>2
  <2> QED BY <2>4, <2>5 DEF d
<1>6. c = l
  BY <1>3, <1>5
<1>7. FlattenSeq(c) = Mapped(FlattenSeq(b), g)
  <2>1. /\ AllMapped(b, g) \in Seq(Seq(PK))
        /\ FlattenSeq(AllMapped(b, g)) = Mapped(FlattenSeq(b), g)
        /\ FlattenSeq(b) \in Seq(KeyPairs) /\ Mapped(FlattenSeq(b), g) \in Seq(PK)
    BY <1>2, <1>4, FlattenMaps
  <2> QED BY <2>1 DEF AllMapped
<1> DEFINE v == FlattenSeq(b)
<1>8. PrimaryKeys(v) = Mapped(v, g)
  <2>1. \A i \in DOMAIN v : v[i] \in KeyPairs
    BY <1>2
  <2> HIDE DEF v
  <2> QED BY <1>4, <2>1 DEF PrimaryKeys, Mapped
<1>9. Visits(RowScan(r, asc)) = v
  BY VisitsFacts DEF b, q
<1>10. FlattenSeq(l) = ListsOf(r, asc)
  BY DEF ListsOf, q
<1> HIDE DEF c, l, v
<1> QED BY <1>6, <1>7, <1>8, <1>9, <1>10 DEF v

-----------------------------------------------------------------------------
(* The first key of a scan. *)

LEMMA FirstOfRising ==
    ASSUME NEW asc \in BOOLEAN, NEW s \in Seq(Int), Rising(s, Follows(asc)), s # <<>>
    PROVE  1 \in DOMAIN s /\ FirstOf(ToSet(s), s[1], asc)
<1>1. DOMAIN s = 1..Len(s) /\ Len(s) \in Nat /\ 1 \in 1..Len(s) /\ \A i \in 1..Len(s) : s[i] \in Int
  OBVIOUS
<1>2. ASSUME NEW i \in 1..Len(s)
      PROVE  IF asc THEN s[1] <= s[i] ELSE s[1] >= s[i]
  <2>1. CASE i = 1
    BY <1>1, <2>1
  <2>2. CASE i # 1
    <3>1. <<s[1], s[i]>> \in Follows(asc)
      BY <1>1, <2>2 DEF Rising
    <3>2. IF asc THEN s[1] < s[i] ELSE s[1] > s[i]
      BY <1>1, <3>1, FollowsFacts
    <3> QED BY <1>1, <3>2
  <2> QED BY <2>1, <2>2
<1> QED BY <1>1, <1>2 DEF FirstOf, ToSet

LEMMA OneFirst ==
    ASSUME NEW P \in SUBSET Int, NEW asc \in BOOLEAN, NEW i, NEW j, FirstOf(P, i, asc), FirstOf(P, j, asc)
    PROVE  i = j
<1>1. i \in P /\ j \in P /\ i \in Int /\ j \in Int
  BY DEF FirstOf
<1>2. CASE asc
  BY <1>1, <1>2 DEF FirstOf
<1>3. CASE ~asc
  BY <1>1, <1>3 DEF FirstOf
<1> QED BY <1>2, <1>3

LEMMA FirstHeldKey ==
    ASSUME Readable, NEW r, NEW asc \in BOOLEAN
    PROVE  /\ HeldKeys(r, asc) = <<>> <=> HeldIn(r) = {}
           /\ HeldKeys(r, asc) # <<>> => /\ HeldKeys(r, asc)[1] \in SK
                                         /\ FirstOf(HeldIn(r), HeldKeys(r, asc)[1], asc)
<1> DEFINE q == HeldKeys(r, asc)
<1>1. q \in Seq(SK) /\ ToSet(q) = HeldIn(r) /\ Rising(q, Follows(asc)) /\ HeldIn(r) \in SUBSET SK
  BY HeldKeysFacts
<1> HIDE DEF q
<1>2. DOMAIN q = 1..Len(q) /\ Len(q) \in Nat /\ \A i \in 1..Len(q) : q[i] \in SK
  BY <1>1
<1>3. q \in Seq(Int)
  <2>1. q \in [1..Len(q) -> SK]
    BY <1>1, SeqDef
  <2>2. q \in [1..Len(q) -> Int]
    BY <2>1, KeysAreIntegers
  <2> QED BY <1>2, <2>2, SeqDef
<1>4. q = <<>> <=> Len(q) = 0
  BY <1>1
<1>5. q = <<>> => HeldIn(r) = {}
  BY <1>1, <1>2, <1>4 DEF ToSet
<1>6. ASSUME q # <<>>
      PROVE  q[1] \in SK /\ FirstOf(HeldIn(r), q[1], asc)
  <2>1. 1 \in DOMAIN q /\ FirstOf(ToSet(q), q[1], asc)
    BY <1>1, <1>3, <1>6, FirstOfRising
  <2> QED BY <1>1, <1>2, <2>1
<1> QED BY <1>5, <1>6 DEF q, FirstOf

\* Where a scan of the heads starts.
LEMMA FirstHead ==
    ASSUME Readable, NEW r \in AllRanges, NEW asc \in BOOLEAN, HeldKeys(r, asc) # <<>>
    PROVE  /\ HeadScan(r, asc) # <<>>
           /\ HeldKeys(r, asc)[1] = Heads[HeadScan(r, asc)[1]]
           /\ MemoryStart(Heads, r, asc) = HeadScan(r, asc)[1]
           /\ MemoryStart(Heads, r, asc) # 0
<1> DEFINE s == HeadScan(r, asc)
           q == HeldKeys(r, asc)
           W == Within(Heads, r)
           i == MemoryStart(Heads, r, asc)
<1>1. /\ s \in Seq(DOMAIN Heads) /\ ToSet(s) = W /\ Rising(s, Follows(asc))
      /\ q = [j \in DOMAIN s |-> Heads[s[j]]]
  BY HeadScanFacts
<1>2. Heads \in Seq(Int) /\ Nondecreasing(Heads) /\ DOMAIN Heads = 1..Len(Heads) /\ Len(Heads) \in Nat
  BY HeadsFacts
<1>3. W \in SUBSET (1..Len(Heads)) /\ W \in SUBSET Int
  BY <1>2, WithinFacts
<1>4. ProperRange(r)
  <2>1. SK \in SUBSET Int /\ NoKey \notin Int
    BY IndicesAssumption
  <2> QED BY <2>1, RangesAreProper DEF AllRanges
<1>5. q \in Seq(SK) /\ q # <<>>
  BY HeldKeysFacts
<1> HIDE DEF s, q, W
<1>6. s \in Seq(Int) /\ DOMAIN s = 1..Len(s) /\ Len(s) \in Nat
  <2>1. s \in [1..Len(s) -> DOMAIN Heads] /\ Len(s) \in Nat /\ DOMAIN s = 1..Len(s)
    BY <1>1, SeqDef
  <2>2. DOMAIN Heads \subseteq Int
    BY <1>2
  <2>3. s \in [1..Len(s) -> Int]
    BY <2>1, <2>2
  <2> QED BY <2>1, <2>3, SeqDef
<1>7. s # <<>>
  <2>1. DOMAIN q = DOMAIN s /\ DOMAIN q = 1..Len(q) /\ Len(q) \in Nat
    BY <1>1, <1>5
  <2>2. Len(q) # 0
    BY <1>5
  <2>3. DOMAIN s # {}
    BY <2>1, <2>2
  <2> QED BY <2>3
<1>8. 1 \in DOMAIN s /\ FirstOf(W, s[1], asc)
  BY <1>1, <1>6, <1>7, FirstOfRising
<1>9. W # {}
  BY <1>8 DEF FirstOf
<1>10. FirstOf(W, i, asc)
  BY <1>2, <1>4, <1>9, MemoryStartFacts DEF W
<1> HIDE DEF i
<1>11. i = s[1] /\ i # 0
  <2>1. i = s[1]
    BY <1>3, <1>8, <1>10, OneFirst
  <2>2. i \in 1..Len(Heads)
    BY <1>3, <1>10 DEF FirstOf
  <2> QED BY <1>2, <2>1, <2>2
<1>12. q[1] = Heads[s[1]]
  BY <1>1, <1>8
<1> QED BY <1>7, <1>11, <1>12 DEF s, q, i

\* The rows with the same secondary key as the first.
LEMMA SameHeadFacts ==
    ASSUME NEW asc \in BOOLEAN, NEW v \in Seq(KeyPairs), Rising(v, RowBefore(asc)), v # <<>>
    PROVE  /\ v[1] \in ToSet(v)
           /\ SameHead(v) = {p[2] : p \in {x \in ToSet(v) : x[1] = v[1][1]}}
           /\ \A x \in ToSet(v) : IF asc THEN v[1][1] <= x[1] ELSE v[1][1] >= x[1]
<1> DEFINE n == Len(v)
<1>1. DOMAIN v = 1..n /\ n \in Nat /\ 1 \in 1..n /\ \A i \in 1..n : v[i] \in KeyPairs
  OBVIOUS
<1> HIDE DEF n
<1>2. \A i \in 1..n : v[i][1] \in Int
  BY <1>1, KeyPairsFacts
<1>3. ASSUME NEW i \in 1..n, NEW j \in 1..n, i <= j
      PROVE  IF asc THEN v[i][1] <= v[j][1] ELSE v[i][1] >= v[j][1]
  <2>1. CASE i = j
    BY <1>2, <2>1
  <2>2. CASE i # j
    <3> DEFINE x == v[i]
               y == v[j]
    <3>1. i < j
      BY <1>3, <2>2
    <3>2. x \in KeyPairs /\ y \in KeyPairs /\ <<x, y>> \in RowBefore(asc) /\ x[1] \in Int /\ y[1] \in Int
      BY <1>1, <1>2, <3>1 DEF Rising
    <3> HIDE DEF x, y
    <3>3. IF x[1] = y[1] THEN TRUE ELSE IF asc THEN x[1] < y[1] ELSE x[1] > y[1]
      BY <3>2, RowBeforeFacts
    <3>4. IF asc THEN x[1] <= y[1] ELSE x[1] >= y[1]
      BY <3>2, <3>3
    <3> QED BY <3>4 DEF x, y
  <2> QED BY <2>1, <2>2
<1> DEFINE I == {j \in DOMAIN v : \A l \in 1..j : v[l][1] = v[1][1]}
<1>4. \A j \in 1..n : j \in I <=> v[j][1] = v[1][1]
  <2> TAKE j \in 1..n
  <2>1. ASSUME j \in I
        PROVE  v[j][1] = v[1][1]
    BY <1>1, <2>1
  <2>2. ASSUME v[j][1] = v[1][1], NEW l \in 1..j
        PROVE  v[l][1] = v[1][1]
    <3>1. l \in 1..n /\ 1 <= l /\ l <= j
      BY <1>1
    <3>2. IF asc THEN v[1][1] <= v[l][1] ELSE v[1][1] >= v[l][1]
      BY <1>1, <1>3, <3>1
    <3>3. IF asc THEN v[l][1] <= v[j][1] ELSE v[l][1] >= v[j][1]
      BY <1>3, <3>1
    <3> DEFINE a == v[1][1]
               b == v[l][1]
    <3>4. a \in Int /\ b \in Int
      BY <1>1, <1>2, <3>1
    <3>5. /\ IF asc THEN a <= b ELSE a >= b
          /\ IF asc THEN b <= a ELSE b >= a
      BY <2>2, <3>2, <3>3
    <3> HIDE DEF a, b
    <3>6. b = a
      BY <3>4, <3>5
    <3> QED BY <3>6 DEF a, b
  <2> QED BY <1>1, <2>1, <2>2
<1>5. SameHead(v) = {v[i][2] : i \in I} /\ I \subseteq 1..n
  BY <1>1 DEF SameHead
<1> HIDE DEF I
<1>6. ToSet(v) = {v[i] : i \in 1..n}
  BY <1>1 DEF ToSet
<1>7. {v[i][2] : i \in I} = {p[2] : p \in {x \in ToSet(v) : x[1] = v[1][1]}}
  BY <1>4, <1>5, <1>6
<1>8. \A x \in ToSet(v) : IF asc THEN v[1][1] <= x[1] ELSE v[1][1] >= x[1]
  <2> SUFFICES ASSUME NEW i \in 1..n
               PROVE  IF asc THEN v[1][1] <= v[i][1] ELSE v[1][1] >= v[i][1]
    BY <1>6
  <2> QED BY <1>1, <1>3
<1> QED BY <1>1, <1>5, <1>6, <1>7, <1>8

\* The extremes of a range are the holders of its first key.
LEMMA VisitsExtremes ==
    ASSUME Readable, kind # "memory", NEW r, NEW asc \in BOOLEAN
    PROVE  SameHead(Visits(RowScan(r, asc))) =
              IF HeldKeys(r, asc) = <<>> THEN {} ELSE Holders(data, HeldKeys(r, asc)[1])
<1> DEFINE v == Visits(RowScan(r, asc))
           k == HeldKeys(r, asc)[1]
<1>1. /\ v \in Seq(KeyPairs) /\ Rising(v, RowBefore(asc))
      /\ ToSet(v) = {p \in KeyPairs : p[1] \in HeldIn(r) /\ p[2] \in Holders(data, p[1])}
  BY VisitsFacts
<1>2. /\ HeldKeys(r, asc) = <<>> <=> HeldIn(r) = {}
      /\ HeldKeys(r, asc) # <<>> => k \in SK /\ FirstOf(HeldIn(r), k, asc)
  BY FirstHeldKey
<1>3. HeldIn(r) \in SUBSET SK /\ HeldIn(r) \in SUBSET Int /\ \A sk \in HeldIn(r) : Holders(data, sk) # {}
  BY HeldKeysFacts DEF HeldIn
<1>4. \A sk : Holders(data, sk) \subseteq PK
  BY StoreFacts DEF Readable, FiniteStores, Holders
<1> HIDE DEF v, k
<1>5. CASE HeldKeys(r, asc) = <<>>
  <2>1. ToSet(v) = {}
    BY <1>1, <1>2, <1>5
  <2>2. DOMAIN v = {}
    BY <2>1 DEF ToSet
  <2>3. SameHead(v) = {}
    BY <2>2 DEF SameHead
  <2> QED BY <1>5, <2>3 DEF v
<1>6. CASE HeldKeys(r, asc) # <<>>
  <2>1. \A sk \in HeldIn(r) : \A pk \in Holders(data, sk) : <<sk, pk>> \in ToSet(v)
    BY <1>1, <1>3, <1>4 DEF KeyPairs
  <2>2. v # <<>>
    <3>1. PICK pk : pk \in Holders(data, k)
      BY <1>2, <1>3, <1>6 DEF FirstOf
    <3>2. ToSet(v) # {}
      BY <1>2, <1>6, <2>1, <3>1 DEF FirstOf
    <3>3. v = <<>> => ToSet(v) = {}
      BY DEF ToSet
    <3> QED BY <3>2, <3>3
  <2> DEFINE a == v[1][1]
  <2>3. /\ v[1] \in ToSet(v) /\ SameHead(v) = {p[2] : p \in {x \in ToSet(v) : x[1] = a}}
        /\ \A x \in ToSet(v) : IF asc THEN a <= x[1] ELSE a >= x[1]
    BY <1>1, <2>2, SameHeadFacts
  <2>4. a \in HeldIn(r)
    BY <1>1, <2>3
  <2> HIDE DEF a
  <2>5. FirstOf(HeldIn(r), a, asc)
    <3> SUFFICES ASSUME NEW sk \in HeldIn(r)
                 PROVE  IF asc THEN a <= sk ELSE a >= sk
      BY <2>4 DEF FirstOf
    <3>1. PICK pk : pk \in Holders(data, sk)
      BY <1>3
    <3>2. <<sk, pk>> \in ToSet(v)
      BY <2>1, <3>1
    <3>3. IF asc THEN a <= <<sk, pk>>[1] ELSE a >= <<sk, pk>>[1]
      BY <2>3, <3>2
    <3> QED BY <3>3
  <2>6. a = k
    BY <1>2, <1>3, <1>6, <2>5, OneFirst
  <2>7. {p[2] : p \in {x \in ToSet(v) : x[1] = a}} = Holders(data, a)
    <3>1. \A p \in ToSet(v) : p[1] = a => p[2] \in Holders(data, a)
      BY <1>1
    <3>2. ASSUME NEW pk \in Holders(data, a)
          PROVE  \E p \in {x \in ToSet(v) : x[1] = a} : p[2] = pk
      <4>1. <<a, pk>> \in ToSet(v)
        BY <2>1, <2>4
      <4> QED BY <4>1
    <3> QED BY <3>1, <3>2
  <2> QED BY <1>6, <2>3, <2>6, <2>7 DEF v, k
<1> QED BY <1>5, <1>6

-----------------------------------------------------------------------------
(* Where LMDB goes astray. *)

\* A key has several rows if its list is longer than one.
LEMMA TwiceListed ==
    ASSUME Readable, kind # "memory", NEW sk \in SK
    PROVE  Twice(RowKeys, sk) <=> Len(index[sk]) > 1
<1> DEFINE n == Len(Rows)
           list == index[sk]
           m == Len(list)
<1>1. /\ Rows \in Seq(KeyPairs) /\ Rising(Rows, RowBefore(TRUE))
      /\ ToSet(Rows) = {p \in KeyPairs : p[2] \in Holders(data, p[1])}
      /\ DOMAIN Rows = 1..n /\ n \in Nat /\ DOMAIN RowKeys = 1..n /\ \A i \in 1..n : RowKeys[i] = Rows[i][1]
  BY RowsFacts
<1>2. \A i \in 1..n : Rows[i] \in KeyPairs
  BY <1>1
<1>3. list \in Seq(PK) /\ ToSet(list) = Holders(data, sk) /\ Rising(list, Lesser)
  BY DEF Readable
<1>4. DOMAIN list = 1..m /\ m \in Nat /\ \A j \in 1..m : list[j] \in PK
  BY <1>3
<1> HIDE DEF n, list, m
<1>5. ASSUME NEW i \in 1..n, NEW j \in 1..n, i < j, Rows[i][1] = sk, Rows[j][1] = sk
      PROVE  m > 1
  <2> DEFINE v == Rows[i]
             w == Rows[j]
  <2>1. v \in KeyPairs /\ w \in KeyPairs /\ <<v, w>> \in RowBefore(TRUE) /\ v[1] = sk /\ w[1] = sk
    BY <1>1, <1>2, <1>5 DEF Rising
  <2>2. v[2] \in ToSet(list) /\ w[2] \in ToSet(list)
    <3>1. v \in ToSet(Rows) /\ w \in ToSet(Rows)
      BY <1>1 DEF ToSet
    <3> HIDE DEF v, w
    <3> QED BY <1>1, <1>3, <2>1, <3>1
  <2> HIDE DEF v, w
  <2>3. v[2] < w[2] /\ v[2] \in Int /\ w[2] \in Int
    BY <2>1, RowBeforeFacts, KeyPairsFacts
  <2>4. PICK a \in 1..m, b \in 1..m : v[2] = list[a] /\ w[2] = list[b]
    BY <1>4, <2>2 DEF ToSet
  <2>5. a # b
    BY <2>3, <2>4
  <2> QED BY <1>4, <2>5
<1>6. ASSUME m > 1
      PROVE  \E i, j \in 1..n : i < j /\ Rows[i][1] = sk /\ Rows[j][1] = sk
  <2>1. 1 \in 1..m /\ 2 \in 1..m
    BY <1>4, <1>6
  <2> DEFINE x == list[1]
             y == list[2]
  <2>2. x \in PK /\ y \in PK /\ x # y /\ x \in Holders(data, sk) /\ y \in Holders(data, sk)
    <3>1. <<list[1], list[2]>> \in Lesser
      BY <1>3, <1>4, <2>1 DEF Rising
    <3>2. list[1] < list[2]
      BY <3>1 DEF Lesser
    <3>3. x \in ToSet(list) /\ y \in ToSet(list)
      BY <1>4, <2>1 DEF ToSet
    <3>4. x \in Int /\ y \in Int
      BY <1>4, <2>1, KeysAreIntegers
    <3> QED BY <1>3, <1>4, <2>1, <3>2, <3>3, <3>4
  <2> HIDE DEF x, y
  <2>3. <<sk, x>> \in ToSet(Rows) /\ <<sk, y>> \in ToSet(Rows)
    BY <1>1, <2>2 DEF KeyPairs
  <2>4. PICK i \in 1..n, j \in 1..n : Rows[i] = <<sk, x>> /\ Rows[j] = <<sk, y>>
    BY <1>1, <2>3 DEF ToSet
  <2>5. i # j
    BY <2>2, <2>4
  <2>6. i < j \/ j < i
    BY <1>1, <2>5
  <2>7. Rows[i][1] = sk /\ Rows[j][1] = sk
    BY <2>4
  <2> QED BY <2>6, <2>7
<1>7. Twice(RowKeys, sk) <=> \E i, j \in 1..n : i < j /\ Rows[i][1] = sk /\ Rows[j][1] = sk
  BY <1>1 DEF Twice
<1> QED BY <1>5, <1>6, <1>7 DEF list, m

\* The first row that is not before a bound.
LEMMA NextHead ==
    ASSUME Readable, kind # "memory", NEW bound \in Int
    PROVE  LET next == {sk \in ToSet(Heads) : sk >= bound}
           IN  /\ next = {} <=> UpFrom(RowKeys, bound) = {}
               /\ next # {} => /\ Extreme(next, TRUE) = RowKeys[Min(UpFrom(RowKeys, bound))]
                               /\ Extreme(next, TRUE) \in SK
<1> DEFINE next == {sk \in ToSet(Heads) : sk >= bound}
           U == UpFrom(RowKeys, bound)
           n == Len(RowKeys)
           k == RowKeys[Min(U)]
           e == Extreme(next, TRUE)
<1>1. RowKeys \in Seq(Int) /\ Nondecreasing(RowKeys) /\ ToSet(RowKeys) = Held /\ DOMAIN RowKeys = 1..n /\ n \in Nat
  BY RowsFacts
<1>2. ToSet(Heads) = Held /\ Held \in SUBSET SK /\ Held \in SUBSET Int
  BY HeadsFacts DEF Held
<1>3. next = {RowKeys[i] : i \in U}
  <2>1. Held = {RowKeys[i] : i \in 1..n}
    BY <1>1 DEF ToSet
  <2>2. U = {i \in 1..n : RowKeys[i] >= bound}
    BY DEF UpFrom
  <2> QED BY <1>2, <2>1, <2>2
<1>4. U \in SUBSET (1..n)
  BY DEF UpFrom
<1> HIDE DEF U
<1>5. ASSUME U # {}
      PROVE  e = k /\ k \in SK
  <2>1. Min(U) \in U /\ \A i \in U : Min(U) <= i
    BY <1>1, <1>4, <1>5, FirstPosition
  <2>2. k \in next
    BY <1>3, <2>1
  <2>3. \A sk \in next : k <= sk
    <3> SUFFICES ASSUME NEW i \in U
                 PROVE  k <= RowKeys[i]
      BY <1>3
    <3>1. Min(U) \in 1..n /\ i \in 1..n /\ Min(U) <= i
      BY <1>4, <2>1
    <3> QED BY <1>1, <3>1, OrderedFacts
  <2>4. next \subseteq Held
    BY <1>2
  <2> HIDE DEF next, k
  <2>5. e \in next /\ \A sk \in next : e <= sk
    BY <2>2, <2>3 DEF Extreme
  <2>6. e \in Int /\ k \in Int /\ e <= k /\ k <= e
    BY <1>2, <2>2, <2>3, <2>4, <2>5
  <2> HIDE DEF e
  <2>7. e = k
    BY <2>6
  <2> QED BY <1>2, <2>2, <2>4, <2>7
<1>6. next = {} <=> U = {}
  BY <1>3
<1> HIDE DEF next
<1>7. next # {} => e = k /\ e \in SK
  BY <1>5, <1>6
<1> QED BY <1>6, <1>7 DEF next, U, k, e

LEMMA AstrayIsLost ==
    ASSUME Readable, kind = "lmdb", NEW r \in AllRanges, NEW asc \in BOOLEAN
    PROVE  LmdbAstray(r, asc) <=> LmdbLost(RowKeys, r, asc, TRUE)
<1> DEFINE next == {sk \in ToSet(Heads) : sk >= r.upper}
<1>1. kind # "memory"
  OBVIOUS
<1>2. /\ r.lower \in SK \cup {NoKey} /\ r.upper \in SK \cup {NoKey} /\ r.lowerOpen \in BOOLEAN /\ r.upperOpen \in BOOLEAN
      /\ r.lower = NoKey => ~r.lowerOpen
  BY DEF AllRanges, Ranges
<1>3. CASE asc
  <2>1. LmdbAstray(r, asc) <=> r.lowerOpen /\ Len(index[r.lower]) > 1
    BY <1>3 DEF LmdbAstray
  <2>2. LmdbLost(RowKeys, r, asc, TRUE) <=> r.lowerOpen /\ Twice(RowKeys, r.lower)
    BY <1>3 DEF LmdbLost
  <2>3. r.lowerOpen => r.lower \in SK
    BY <1>2
  <2>4. r.lowerOpen => (Twice(RowKeys, r.lower) <=> Len(index[r.lower]) > 1)
    BY <1>1, <2>3, TwiceListed
  <2> QED BY <2>1, <2>2, <2>4
<1>4. CASE ~asc
  <2>1. LmdbAstray(r, asc) <=>
            /\ r.upper # NoKey
            /\ IF r.upperOpen
               THEN IF next = {} THEN IncludesNull(r, TRUE) ELSE Len(index[Extreme(next, TRUE)]) > 1
               ELSE index[r.upper] = <<>>
    BY <1>4 DEF LmdbAstray
  <2>2. LmdbLost(RowKeys, r, asc, TRUE) <=>
            /\ r.upper # NoKey
            /\ IF r.upperOpen
               THEN IF UpFrom(RowKeys, r.upper) = {} THEN IncludesNull(r, TRUE)
                    ELSE Twice(RowKeys, RowKeys[Min(UpFrom(RowKeys, r.upper))])
               ELSE \A i \in DOMAIN RowKeys : RowKeys[i] # r.upper
    BY <1>4 DEF LmdbLost
  <2>3. CASE r.upper = NoKey
    BY <2>1, <2>2, <2>3
  <2>4. CASE r.upper # NoKey
    <3>1. r.upper \in SK /\ r.upper \in Int
      BY <1>2, <2>4, KeysAreIntegers
    <3>2. /\ next = {} <=> UpFrom(RowKeys, r.upper) = {}
          /\ next # {} => /\ Extreme(next, TRUE) = RowKeys[Min(UpFrom(RowKeys, r.upper))]
                          /\ Extreme(next, TRUE) \in SK
      BY <1>1, <3>1, NextHead
    <3> HIDE DEF next
    <3>3. next # {} => (Twice(RowKeys, Extreme(next, TRUE)) <=> Len(index[Extreme(next, TRUE)]) > 1)
      BY <1>1, <3>2, TwiceListed
    <3>4. (\A i \in DOMAIN RowKeys : RowKeys[i] # r.upper) <=> index[r.upper] = <<>>
      <4>1. (\A i \in DOMAIN RowKeys : RowKeys[i] # r.upper) <=> r.upper \notin ToSet(RowKeys)
        BY DEF ToSet
      <4>2. ToSet(RowKeys) = Held /\ Held = {sk \in SK : index[sk] # <<>>}
        BY <1>1, RowsFacts, HeadsFacts
      <4>3. r.upper \in Held <=> index[r.upper] # <<>>
        BY <3>1, <4>2
      <4> QED BY <4>1, <4>2, <4>3
    <3>5. CASE r.upperOpen
      <4>1. CASE next = {}
        BY <2>1, <2>2, <2>4, <3>2, <3>5, <4>1
      <4>2. CASE next # {}
        BY <2>1, <2>2, <2>4, <3>2, <3>3, <3>5, <4>2
      <4> QED BY <4>1, <4>2
    <3>6. CASE ~r.upperOpen
      BY <2>1, <2>2, <2>4, <3>4, <3>6
    <3> QED BY <3>5, <3>6
  <2> QED BY <2>3, <2>4
<1> QED BY <1>3, <1>4

-----------------------------------------------------------------------------
(* The reads. *)

LEMMA ScansOfIndex ==
    ASSUME Readable, NEW r \in AllRanges, NEW asc \in BOOLEAN
    PROVE  /\ ProperRange(r)
           /\ MemoryScan(Heads, r, asc) = HeadScan(r, asc) /\ LevelScan(Heads, r, asc) = HeadScan(r, asc)
           /\ kind = "indexeddb" => IdbScan(RowKeys, r, asc) = RowScan(r, asc)
           /\ kind = "lmdb" => LmdbScan(RowKeys, r, asc, TRUE) =
                                  IF LmdbAstray(r, asc) THEN <<>> ELSE RowScan(r, asc)
<1>1. ProperRange(r)
  <2>1. SK \in SUBSET Int /\ NoKey \notin Int
    BY IndicesAssumption
  <2> QED BY <2>1, RangesAreProper DEF AllRanges
<1>2. Heads \in Seq(Int) /\ Nondecreasing(Heads)
  BY HeadsFacts
<1>3. MemoryScan(Heads, r, asc) = HeadScan(r, asc) /\ LevelScan(Heads, r, asc) = HeadScan(r, asc)
  BY <1>1, <1>2, ScansAreRight DEF HeadScan
<1>4. ASSUME kind # "memory"
      PROVE  /\ IdbScan(RowKeys, r, asc) = RowScan(r, asc)
             /\ LmdbScan(RowKeys, r, asc, TRUE) = IF LmdbLost(RowKeys, r, asc, TRUE) THEN <<>> ELSE RowScan(r, asc)
  <2>1. RowKeys \in Seq(Int) /\ Nondecreasing(RowKeys)
    BY <1>4, RowsFacts
  <2> DEFINE numeric == TRUE
  <2>2. numeric \in BOOLEAN
    OBVIOUS
  <2> HIDE DEF numeric
  <2>3. /\ IdbScan(RowKeys, r, asc) = InDirection(Ascending(Within(RowKeys, r)), asc)
        /\ LmdbScan(RowKeys, r, asc, numeric) =
             IF LmdbLost(RowKeys, r, asc, numeric) THEN <<>> ELSE InDirection(Ascending(Within(RowKeys, r)), asc)
    BY <1>1, <2>1, <2>2, ScansAreRight
  <2> QED BY <2>3 DEF RowScan, numeric
<1>5. kind = "indexeddb" => IdbScan(RowKeys, r, asc) = RowScan(r, asc)
  BY <1>4
<1>6. kind = "lmdb" => LmdbScan(RowKeys, r, asc, TRUE) = IF LmdbAstray(r, asc) THEN <<>> ELSE RowScan(r, asc)
  <2> SUFFICES ASSUME kind = "lmdb"
               PROVE  LmdbScan(RowKeys, r, asc, TRUE) = IF LmdbAstray(r, asc) THEN <<>> ELSE RowScan(r, asc)
    OBVIOUS
  <2>1. LmdbAstray(r, asc) <=> LmdbLost(RowKeys, r, asc, TRUE)
    BY AstrayIsLost
  <2> QED BY <1>4, <2>1
<1> QED BY <1>1, <1>3, <1>5, <1>6

LEMMA KindsFacts == Readable => kind \in {"memory", "leveldb", "lmdb", "indexeddb"}
  BY IndicesAssumption DEF Readable

\* keyStream: the lists of the range, or nothing where LMDB goes astray.
LEMMA StreamIsRight ==
    ASSUME Readable, NEW r \in AllRanges, NEW asc \in BOOLEAN
    PROVE  IndexStream(r, asc) = IF LmdbAstray(r, asc) THEN <<>> ELSE ListsOf(r, asc)
<1>1. kind # "lmdb" => ~LmdbAstray(r, asc)
  BY DEF LmdbAstray
<1>2. CASE kind = "memory"
  <2>1. MemoryIndexStream(r, asc) = ListsOf(r, asc)
    BY ScansOfIndex, HeadScanLists DEF MemoryIndexStream
  <2> QED BY <1>1, <1>2, <2>1 DEF IndexStream
<1>3. CASE kind = "leveldb"
  <2>1. LevelIndexStream(r, asc) = ListsOf(r, asc)
    BY ScansOfIndex, HeadScanLists DEF LevelIndexStream
  <2> QED BY <1>1, <1>3, <2>1 DEF IndexStream
<1>4. CASE kind = "indexeddb"
  <2>1. IdbIndexStream(r, asc) = ListsOf(r, asc)
    BY <1>4, ScansOfIndex, VisitsLists DEF IdbIndexStream
  <2> QED BY <1>1, <1>4, <2>1 DEF IndexStream
<1>5. CASE kind = "lmdb"
  <2>1. LmdbIndexStream(r, asc) = IF LmdbAstray(r, asc) THEN PrimaryKeys(Visits(<<>>)) ELSE ListsOf(r, asc)
    BY <1>5, ScansOfIndex, VisitsLists DEF LmdbIndexStream
  <2>2. PrimaryKeys(Visits(<<>>)) = <<>>
    BY DEF PrimaryKeys, Visits
  <2>3. IndexStream(r, asc) = LmdbIndexStream(r, asc)
    BY <1>5 DEF IndexStream
  <2> QED BY <2>1, <2>2, <2>3
<1> QED BY <1>2, <1>3, <1>4, <1>5, KindsFacts

\* maxKeys and minKeys
LEMMA ExtremesAreRight ==
    ASSUME Readable, NEW r \in AllRanges, NEW asc \in BOOLEAN
    PROVE  /\ LmdbAstray(r, asc) => IndexExtremes(r, asc) = {}
           /\ ~LmdbAstray(r, asc) /\ HeldKeys(r, asc) # <<>> =>
                IndexExtremes(r, asc) = Holders(data, HeldKeys(r, asc)[1])
           /\ kind = "lmdb" /\ HeldKeys(r, asc) = <<>> => IndexExtremes(r, asc) = {}
<1> DEFINE k == HeldKeys(r, asc)[1]
           e == IndexExtremes(r, asc)
<1>1. kind # "lmdb" => ~LmdbAstray(r, asc)
  BY DEF LmdbAstray
<1>2. ASSUME HeldKeys(r, asc) # <<>>
      PROVE  /\ k \in SK /\ ToSet(index[k]) = Holders(data, k)
             /\ HeadScan(r, asc) # <<>> /\ k = Heads[HeadScan(r, asc)[1]]
             /\ MemoryStart(Heads, r, asc) = HeadScan(r, asc)[1] /\ MemoryStart(Heads, r, asc) # 0
  <2>1. k \in SK
    BY <1>2, FirstHeldKey
  <2> HIDE DEF k
  <2>2. ToSet(index[k]) = Holders(data, k)
    BY <2>1 DEF Readable
  <2> QED BY <1>2, <2>1, <2>2, FirstHead DEF k
<1> HIDE DEF k
<1>3. CASE kind = "memory"
  <2>1. e = MemoryExtremes(r, asc)
    BY <1>3 DEF IndexExtremes
  <2>2. HeldKeys(r, asc) # <<>> => MemoryExtremes(r, asc) = ToSet(index[k])
    BY <1>2 DEF MemoryExtremes
  <2> QED BY <1>1, <1>2, <1>3, <2>1, <2>2 DEF k
<1>4. CASE kind = "leveldb"
  <2>1. e = LevelExtremes(r, asc)
    BY <1>4 DEF IndexExtremes
  <2>2. HeldKeys(r, asc) # <<>> => LevelExtremes(r, asc) = ToSet(index[k])
    BY <1>2, ScansOfIndex DEF LevelExtremes
  <2> QED BY <1>1, <1>2, <1>4, <2>1, <2>2 DEF k
<1>5. CASE kind = "indexeddb"
  <2>1. e = IdbExtremes(r, asc)
    BY <1>5 DEF IndexExtremes
  <2>2. IdbExtremes(r, asc) = IF HeldKeys(r, asc) = <<>> THEN {} ELSE Holders(data, k)
    BY <1>5, ScansOfIndex, VisitsExtremes DEF IdbExtremes, k
  <2> QED BY <1>1, <1>5, <2>1, <2>2 DEF k
<1>6. CASE kind = "lmdb"
  <2>1. e = LmdbExtremes(r, asc)
    BY <1>6 DEF IndexExtremes
  <2>2. LmdbExtremes(r, asc) = IF LmdbAstray(r, asc) THEN SameHead(Visits(<<>>))
                               ELSE IF HeldKeys(r, asc) = <<>> THEN {} ELSE Holders(data, k)
    BY <1>6, ScansOfIndex, VisitsExtremes DEF LmdbExtremes, k
  <2>3. SameHead(Visits(<<>>)) = {}
    BY DEF SameHead, Visits
  <2> QED BY <1>6, <2>1, <2>2, <2>3 DEF k
<1> QED BY <1>3, <1>4, <1>5, <1>6, KindsFacts

\* keys, with the lookup of an exact match in memory
LEMMA KeysAreRight ==
    ASSUME Readable, NEW r \in AllRanges, ~LmdbAstray(r, TRUE)
    PROVE  IndexKeys(r) = ToSet(ListsOf(r, TRUE))
<1>1. IndexStream(r, TRUE) = ListsOf(r, TRUE)
  BY StreamIsRight
<1>2. CASE kind = "memory" /\ ExactMatch(r)
  <2> DEFINE k == r.lower
  <2>1. IndexKeys(r) = ToSet(index[k])
    BY <1>2 DEF IndexKeys
  <2>2. k \in SK /\ k \in Int /\ k # NoKey /\ r.upper = k /\ r.upper # NoKey /\ ~r.lowerOpen /\ ~r.upperOpen
    BY <1>2, KeysAreIntegers DEF ExactMatch, AllRanges, Ranges
  <2>3. \A sk \in SK : Includes(r, sk) <=> sk = k
    <3> TAKE sk \in SK
    <3>1. sk \in Int
      BY KeysAreIntegers
    <3> QED BY <2>2, <3>1 DEF Includes, AboveLower, BelowUpper
  <2> HIDE DEF k
  <2>4. ToSet(index[k]) = Holders(data, k)
    BY <2>2 DEF Readable
  <2>5. ToSet(ListsOf(r, TRUE)) = UNION {Holders(data, sk) : sk \in HeldIn(r)}
    BY ListsOfFacts
  <2>6. HeldIn(r) = {sk \in {k} : Holders(data, sk) # {}}
    BY <2>2, <2>3 DEF HeldIn, Inside
  <2>7. UNION {Holders(data, sk) : sk \in HeldIn(r)} = Holders(data, k)
    BY <2>6
  <2> QED BY <2>1, <2>4, <2>5, <2>7
<1>3. CASE ~(kind = "memory" /\ ExactMatch(r))
  BY <1>1, <1>3 DEF IndexKeys
<1> QED BY <1>2, <1>3

\* count; that of LMDB is right for one key.
LEMMA CountIsRight ==
    ASSUME Readable, NEW r \in AllRanges, ~LmdbAstray(r, TRUE), kind # "lmdb" \/ Len(HeldKeys(r, TRUE)) < 2
    PROVE  IndexCount(r) \in {Len(ListsOf(r, TRUE)), Cardinality(ToSet(ListsOf(r, TRUE)))}
<1> DEFINE rows == ListsOf(r, TRUE)
<1>1. IndexStream(r, TRUE) = rows /\ IndexKeys(r) = ToSet(rows)
  BY StreamIsRight, KeysAreRight
<1>2. CASE kind = "memory"
  BY <1>1, <1>2 DEF IndexCount
<1>3. CASE kind = "leveldb"
  BY <1>1, <1>3 DEF IndexCount, IndexStream
<1>4. CASE kind = "indexeddb"
  BY <1>1, <1>4 DEF IndexCount, IndexStream
<1>5. CASE kind = "lmdb"
  <2> DEFINE q == HeldKeys(r, TRUE)
  <2>1. IndexCount(r) = Cardinality(IndexExtremes(r, TRUE))
    BY <1>5 DEF IndexCount, IndexExtremes
  <2>2. q \in Seq(SK) /\ ToSet(q) = HeldIn(r)
    BY HeldKeysFacts
  <2>3. ToSet(rows) = UNION {Holders(data, sk) : sk \in HeldIn(r)}
    BY ListsOfFacts
  <2>4. IndexExtremes(r, TRUE) = IF q = <<>> THEN {} ELSE Holders(data, q[1])
    BY <1>5, ExtremesAreRight
  <2>5. Len(q) < 2
    BY <1>5
  <2> HIDE DEF q, rows
  <2>6. Len(q) \in Nat /\ DOMAIN q = 1..Len(q) /\ (q = <<>> <=> Len(q) = 0)
    BY <2>2
  <2>7. CASE q = <<>>
    <3>1. HeldIn(r) = {}
      BY <2>2, <2>7 DEF ToSet
    <3> QED BY <2>1, <2>3, <2>4, <2>7, <3>1 DEF rows
  <2>8. CASE q # <<>>
    <3>1. DOMAIN q = {1}
      BY <2>5, <2>6, <2>8
    <3>2. HeldIn(r) = {q[1]}
      BY <2>2, <3>1 DEF ToSet
    <3> QED BY <2>1, <2>3, <2>4, <2>8, <3>2 DEF rows
  <2> QED BY <2>7, <2>8
<1> QED BY <1>2, <1>3, <1>4, <1>5, KindsFacts

\* The reads of the index give the objects of the range in all four backends, in both
\* directions, for every range: the stream as the lists of its keys in order, the keys, the
\* extremes and the count; and where LMDB goes astray, nothing.
THEOREM IndicesReadsAgree == Spec => []IndexReadsAgree
<1>1. IInv => IndexReadsAgree
  <2> SUFFICES ASSUME Readable, NEW r \in AllRanges, NEW asc \in BOOLEAN
               PROVE  IF LmdbAstray(r, asc) THEN IndexStream(r, asc) = <<>> /\ IndexExtremes(r, asc) = {}
                      ELSE /\ IndexStream(r, asc) = ListsOf(r, asc)
                           /\ asc => IndexKeys(r) = ToSet(ListsOf(r, asc))
                           /\ HeldKeys(r, asc) # <<>> => IndexExtremes(r, asc) = Holders(data, HeldKeys(r, asc)[1])
                           /\ asc /\ (kind # "lmdb" \/ Len(HeldKeys(r, asc)) < 2) =>
                                IndexCount(r) \in {Len(ListsOf(r, asc)), Cardinality(ToSet(ListsOf(r, asc)))}
    BY IndexIsReadable DEF IndexReadsAgree, ListsOf, HeldKeys, HeldIn
  <2>1. IndexStream(r, asc) = IF LmdbAstray(r, asc) THEN <<>> ELSE ListsOf(r, asc)
    BY StreamIsRight
  <2>2. /\ LmdbAstray(r, asc) => IndexExtremes(r, asc) = {}
        /\ ~LmdbAstray(r, asc) /\ HeldKeys(r, asc) # <<>> =>
             IndexExtremes(r, asc) = Holders(data, HeldKeys(r, asc)[1])
    BY ExtremesAreRight
  <2>3. ASSUME ~LmdbAstray(r, asc), asc
        PROVE  IndexKeys(r) = ToSet(ListsOf(r, asc))
    <3>1. asc = TRUE
      BY <2>3
    <3> QED BY <2>3, <3>1, KeysAreRight
  <2>4. ASSUME ~LmdbAstray(r, asc), asc, kind # "lmdb" \/ Len(HeldKeys(r, asc)) < 2
        PROVE  IndexCount(r) \in {Len(ListsOf(r, asc)), Cardinality(ToSet(ListsOf(r, asc)))}
    <3>1. asc = TRUE
      BY <2>4
    <3> QED BY <2>4, <3>1, CountIsRight
  <2> QED BY <2>1, <2>2, <2>3, <2>4
<1> QED BY <1>1, Invariance, PTL

-----------------------------------------------------------------------------
(* Uniqueness: a commit whose constraints hold is not refused by the index. *)

\* In a unique index a removal empties the lists of the object's keys and leaves the others.
LEMMA UniqueRemoval ==
    ASSUME NEW mem \in BOOLEAN, NEW u \in BOOLEAN, NEW acc \in Accumulators(u), NEW pk \in PK, NEW q \in Seq(SK)
    PROVE  LET after == Removal(mem, acc, pk, q, u)
           IN  /\ after \in Accumulators(u) /\ after.ok = acc.ok
               /\ u => \A sk \in SK : after.ix[sk] = IF sk \in ToSet(q) THEN <<>> ELSE acc.ix[sk]
<1> DEFINE n == Len(q)
           after == Removal(mem, acc, pk, q, u)
           Upto(i) == {q[j] : j \in 1..i}
<1>1. after = MemoryRemove(acc, pk, q, u)
  BY DEF Removal, MemoryRemove, LevelRemove
<1> HIDE DEF after
<1>2. after \in Accumulators(u) /\ after.ok = acc.ok
  BY <1>1, RemoveCounts
<1>3. ASSUME u PROVE \A sk \in SK : after.ix[sk] = IF sk \in ToSet(q) THEN <<>> ELSE acc.ix[sk]
  <2>1. PICK f \in [0..Len(q) -> Accumulators(u)] :
          /\ f[0] = acc /\ f[Len(q)] = after
          /\ \A i \in 1..Len(q) : f[i] = IF ~u /\ Len(f[i - 1].ix[q[i]]) > 1
                                         THEN WithList(f[i - 1], q[i], Dropped(f[i - 1].ix[q[i]], pk))
                                         ELSE WithList(f[i - 1], q[i], <<>>)
    BY <1>1, MemoryRemoveSteps
  <2>2. \A i \in 1..Len(q) : f[i] = WithList(f[i - 1], q[i], <<>>)
    BY <1>3, <2>1
  <2>3. n \in Nat /\ \A i \in 1..n : q[i] \in SK /\ i - 1 \in 0..n /\ i \in 0..n
    OBVIOUS
  <2>4. Upto(0) = {} /\ Upto(n) = ToSet(q) /\ \A i \in 1..n : Upto(i) = Upto(i - 1) \cup {q[i]}
    <3>1. \A i \in 1..n : 1..i = (1..(i - 1)) \cup {i}
      BY <2>3
    <3> QED BY <3>1 DEF ToSet
  <2> HIDE DEF Upto
  <2> DEFINE P == {i \in 0..n : \A sk \in SK : f[i].ix[sk] = IF sk \in Upto(i) THEN <<>> ELSE acc.ix[sk]}
  <2>5. 0 \in P
    BY <2>1, <2>3, <2>4
  <2>6. ASSUME NEW i \in 1..n, i - 1 \in P PROVE i \in P
    <3> DEFINE a == f[i - 1]
               k == q[i]
    <3>1. a \in Accumulators(u) /\ k \in SK /\ f[i] = WithList(a, k, <<>>)
      BY <2>1, <2>2, <2>3
    <3>2. \A sk \in SK : a.ix[sk] = IF sk \in Upto(i - 1) THEN <<>> ELSE acc.ix[sk]
      BY <2>6
    <3>3. Upto(i) = Upto(i - 1) \cup {k}
      BY <2>4
    <3> HIDE DEF a, k
    <3>4. f[i].ix[k] = <<>> /\ \A x \in SK : x # k => f[i].ix[x] = a.ix[x]
      BY <3>1, ShortEntries, WithListFacts
    <3>5. \A sk \in SK : f[i].ix[sk] = IF sk \in Upto(i) THEN <<>> ELSE acc.ix[sk]
      BY <3>2, <3>3, <3>4
    <3> QED BY <2>3, <3>5
  <2>7. n \in P
    <3>1. 0..n \subseteq P
      <4> HIDE DEF P, n
      <4> QED BY <2>3, <2>5, <2>6, StepInduction
    <3> QED BY <2>3, <3>1
  <2> QED BY <2>1, <2>4, <2>7
<1> QED BY <1>2, <1>3 DEF after

\* An insertion goes through if the lists of the object's keys are empty and no key is there twice.
LEMMA UniqueInsertion ==
    ASSUME NEW mem \in BOOLEAN, NEW u \in BOOLEAN, NEW acc \in Accumulators(u), NEW pk \in PK, NEW q \in Seq(SK),
           acc.ok, IsInjective(q), \A sk \in ToSet(q) : acc.ix[sk] = <<>>
    PROVE  LET after == Insertion(mem, acc, pk, q, u)
           IN  /\ after \in Accumulators(u) /\ after.ok
               /\ \A sk \in SK : sk \notin ToSet(q) => after.ix[sk] = acc.ix[sk]
<1> DEFINE n == Len(q)
           after == Insertion(mem, acc, pk, q, u)
           Inserted(a, b, k) == a.ok /\ a.ix[k] = <<>> => \E list \in Entries(u) : b = WithList(a, k, list)
<1> HIDE DEF after
<1>1. PICK f \in [0..n -> Accumulators(u)] :
        f[0] = acc /\ f[n] = after /\ \A i \in 1..n : Inserted(f[i - 1], f[i], q[i])
  <2>1. CASE mem
    <3>1. after = MemoryInsert(acc, pk, q, u)
      BY <2>1 DEF after, Insertion
    <3>2. PICK f \in [0..Len(q) -> Accumulators(u)] :
            /\ f[0] = acc /\ f[Len(q)] = after
            /\ \A i \in 1..Len(q) : f[i] = IF ~f[i - 1].ok THEN f[i - 1]
                                           ELSE IF f[i - 1].ix[q[i]] = <<>> THEN WithList(f[i - 1], q[i], <<pk>>)
                                           ELSE IF u THEN Failed(f[i - 1])
                                           ELSE WithList(f[i - 1], q[i], Added(f[i - 1].ix[q[i]], pk))
      BY <3>1, MemoryInsertSteps
    <3>3. <<pk>> \in Entries(u)
      BY ShortEntries
    <3>4. \A i \in 1..n : Inserted(f[i - 1], f[i], q[i])
      BY <3>2, <3>3
    <3> HIDE DEF Inserted
    <3> QED BY <3>2, <3>4
  <2>2. CASE ~mem
    <3>1. after = LevelInsert(acc, pk, q, u)
      BY <2>2 DEF after, Insertion
    <3>2. PICK f \in [0..Len(q) -> Accumulators(u)] :
            /\ f[0] = acc /\ f[Len(q)] = after
            /\ \A i \in 1..Len(q) : f[i] = IF ~f[i - 1].ok \/ (u /\ f[i - 1].ix[q[i]] # <<>>) THEN Failed(f[i - 1])
                                           ELSE IF pk \in ToSet(f[i - 1].ix[q[i]]) THEN f[i - 1]
                                           ELSE WithList(f[i - 1], q[i], Added(f[i - 1].ix[q[i]], pk))
      BY <3>1, LevelInsertSteps
    <3>3. Added(<<>>, pk) \in Entries(u)
      <4>1. <<>> \in Entries(u)
        BY ShortEntries
      <4> QED BY <4>1, AddedEntries
    <3>4. pk \notin ToSet(<<>>)
      BY DEF ToSet
    <3>5. \A i \in 1..n : Inserted(f[i - 1], f[i], q[i])
      BY <3>2, <3>3, <3>4
    <3> HIDE DEF Inserted
    <3> QED BY <3>2, <3>5
  <2> QED BY <2>1, <2>2
<1>2. n \in Nat /\ DOMAIN q = 1..n /\ \A i \in 1..n : q[i] \in SK /\ i - 1 \in 0..n /\ i \in 0..n /\ q[i] \in ToSet(q)
  BY DEF ToSet
<1> DEFINE Upto(i) == {q[j] : j \in 1..i}
<1>3. Upto(0) = {} /\ Upto(n) = ToSet(q) /\ \A i \in 1..n : Upto(i) = Upto(i - 1) \cup {q[i]} /\ q[i] \notin Upto(i - 1)
  <2>1. \A i \in 1..n : 1..i = (1..(i - 1)) \cup {i} /\ i \notin 1..(i - 1) /\ 1..(i - 1) \subseteq 1..n
    BY <1>2
  <2>2. \A i \in 1..n : q[i] \notin Upto(i - 1)
    BY <1>2, <2>1 DEF IsInjective
  <2> QED BY <1>2, <2>1, <2>2 DEF ToSet
<1> HIDE DEF Upto
<1> DEFINE P == {i \in 0..n : f[i].ok /\ \A sk \in SK : sk \notin Upto(i) => f[i].ix[sk] = acc.ix[sk]}
<1>4. 0 \in P
  BY <1>1, <1>2, <1>3
<1>5. ASSUME NEW i \in 1..n, i - 1 \in P PROVE i \in P
  <2> DEFINE a == f[i - 1]
             k == q[i]
  <2>1. a \in Accumulators(u) /\ k \in SK /\ k \in ToSet(q)
    BY <1>1, <1>2
  <2>2. a.ok /\ \A sk \in SK : sk \notin Upto(i - 1) => a.ix[sk] = acc.ix[sk]
    BY <1>5
  <2>3. Upto(i) = Upto(i - 1) \cup {k} /\ k \notin Upto(i - 1)
    BY <1>3
  <2>4. a.ix[k] = <<>>
    BY <2>1, <2>2, <2>3
  <2>5. PICK list \in Entries(u) : f[i] = WithList(a, k, list)
    BY <1>1, <2>2, <2>4
  <2> HIDE DEF a, k
  <2>6. f[i].ok = a.ok /\ \A x \in SK : x # k => f[i].ix[x] = a.ix[x]
    BY <2>1, <2>5, WithListFacts
  <2>7. \A sk \in SK : sk \notin Upto(i) => f[i].ix[sk] = acc.ix[sk]
    BY <2>2, <2>3, <2>6
  <2> QED BY <1>2, <2>2, <2>6, <2>7
<1>6. n \in P
  <2>1. 0..n \subseteq P
    <3> HIDE DEF P, n
    <3> QED BY <1>2, <1>4, <1>5, StepInduction
  <2> QED BY <1>2, <2>1
<1>7. after \in Accumulators(u)
  <2>1. n \in 0..n
    BY <1>2
  <2> QED BY <1>1, <2>1
<1>8. after.ok /\ \A sk \in SK : sk \notin ToSet(q) => after.ix[sk] = acc.ix[sk]
  BY <1>1, <1>3, <1>6
<1> QED BY <1>7, <1>8 DEF after

\* What lets a put through: no key is in it twice, and each is free or was its own.
Fits(a, old, new) == a.ok /\ IsInjective(new) /\ \A sk \in ToSet(new) : a.ix[sk] = <<>> \/ sk \in ToSet(old)

LEMMA UniqueReplacement ==
    ASSUME NEW mem \in BOOLEAN, NEW u \in BOOLEAN, NEW m \in BOOLEAN, NEW acc \in Accumulators(u), NEW pk \in PK,
           NEW old \in Seq(SK), NEW new \in Seq(SK), Fits(acc, old, new)
    PROVE  LET after == Replacement(mem, acc, pk, old, new, u, m)
           IN  u => /\ after.ok
                    /\ \A sk \in SK : sk \notin ToSet(new) => after.ix[sk] \in {<<>>, acc.ix[sk]}
<1> DEFINE after == Replacement(mem, acc, pk, old, new, u, m)
           out == Removal(mem, acc, pk, old, u)
<1>1. after = IF ~acc.ok \/ SameKeys(old, new, m) THEN acc ELSE Insertion(mem, out, pk, new, u)
  BY DEF Replacement, MemoryPut, LevelPut, Rekeyed, Removal, Insertion
<1>2. acc.ok /\ IsInjective(new) /\ ToSet(new) \subseteq SK /\ \A sk \in ToSet(new) : acc.ix[sk] = <<>> \/ sk \in ToSet(old)
  BY DEF Fits, ToSet
<1>3. /\ out \in Accumulators(u) /\ out.ok = acc.ok
      /\ u => \A sk \in SK : out.ix[sk] = IF sk \in ToSet(old) THEN <<>> ELSE acc.ix[sk]
  BY UniqueRemoval
<1> HIDE DEF after, out
<1>4. CASE SameKeys(old, new, m)
  BY <1>1, <1>2, <1>4 DEF after
<1>5. CASE ~SameKeys(old, new, m)
  <2>1. after = Insertion(mem, out, pk, new, u)
    BY <1>1, <1>2, <1>5
  <2>2. u => \A sk \in ToSet(new) : out.ix[sk] = <<>>
    BY <1>2, <1>3
  <2>3. ASSUME \A sk \in ToSet(new) : out.ix[sk] = <<>>
        PROVE  after.ok /\ \A sk \in SK : sk \notin ToSet(new) => after.ix[sk] = out.ix[sk]
    <3>1. out \in Accumulators(u) /\ out.ok /\ IsInjective(new)
      BY <1>2, <1>3
    <3>2. LET b == Insertion(mem, out, pk, new, u)
          IN  /\ b \in Accumulators(u) /\ b.ok
              /\ \A sk \in SK : sk \notin ToSet(new) => b.ix[sk] = out.ix[sk]
      BY <2>3, <3>1, UniqueInsertion
    <3> QED BY <2>1, <3>2
  <2> QED BY <1>3, <2>2, <2>3 DEF after
<1> QED BY <1>4, <1>5

\* The removals empty the lists of all keys of all objects.
Emptied(a, b, S, old) ==
    \A sk \in SK : b.ix[sk] = IF \E p \in S : sk \in ToSet(old[p]) THEN <<>> ELSE a.ix[sk]

LEMMA UniqueRemovals ==
    ASSUME NEW mem \in BOOLEAN, NEW u \in BOOLEAN, NEW q \in Seq(PK), NEW old \in [PK -> Seq(SK)],
           NEW f, Removes(mem, q, old, u, f)
    PROVE  u => Emptied(f[0], f[Len(q)], ToSet(q), old)
<1> DEFINE n == Len(q)
           Upto(i) == UNION {ToSet(old[q[j]]) : j \in 1..i}
<1>1. n \in Nat /\ \A i \in 1..n : q[i] \in PK /\ i - 1 \in 0..n /\ i \in 0..n
  OBVIOUS
<1>2. Upto(0) = {} /\ \A i \in 1..n : Upto(i) = Upto(i - 1) \cup ToSet(old[q[i]])
  <2>1. \A i \in 1..n : 1..i = (1..(i - 1)) \cup {i}
    BY <1>1
  <2> QED BY <2>1
<1>3. \A sk : sk \in Upto(n) <=> \E p \in ToSet(q) : sk \in ToSet(old[p])
  <2>1. ToSet(q) = {q[j] : j \in 1..n}
    BY DEF ToSet
  <2>2. \A sk : sk \in Upto(n) <=> \E j \in 1..n : sk \in ToSet(old[q[j]])
    OBVIOUS
  <2> HIDE DEF n, Upto
  <2> QED BY <2>1, <2>2
<1>4. /\ f \in [0..n -> Accumulators(u)]
      /\ \A i \in 1..n : f[i] = Removal(mem, f[i - 1], q[i], old[q[i]], u)
  BY DEF Removes
<1> HIDE DEF n, Upto
<1>5. ASSUME NEW i \in 1..n
      PROVE  u => \A sk \in SK : f[i].ix[sk] = IF sk \in ToSet(old[q[i]]) THEN <<>> ELSE f[i - 1].ix[sk]
  <2> DEFINE a == f[i - 1]
             p == q[i]
             o == old[q[i]]
  <2>1. a \in Accumulators(u) /\ p \in PK /\ o \in Seq(SK)
    BY <1>1, <1>4
  <2>2. f[i] = Removal(mem, a, p, o, u)
    BY <1>4
  <2> HIDE DEF a, p, o
  <2>3. LET b == Removal(mem, a, p, o, u)
        IN  /\ b \in Accumulators(u) /\ b.ok = a.ok
            /\ u => \A sk \in SK : b.ix[sk] = IF sk \in ToSet(o) THEN <<>> ELSE a.ix[sk]
    BY <2>1, UniqueRemoval
  <2> QED BY <2>2, <2>3 DEF a, p, o
<1>6. ASSUME u, NEW sk \in SK PROVE f[n].ix[sk] = IF sk \in Upto(n) THEN <<>> ELSE f[0].ix[sk]
  <2> DEFINE P == {i \in 0..n : f[i].ix[sk] = IF sk \in Upto(i) THEN <<>> ELSE f[0].ix[sk]}
  <2>1. 0 \in P
    BY <1>1, <1>2
  <2>2. ASSUME NEW i \in 1..n, i - 1 \in P PROVE i \in P
    <3>1. f[i].ix[sk] = IF sk \in ToSet(old[q[i]]) THEN <<>> ELSE f[i - 1].ix[sk]
      BY <1>5, <1>6
    <3>2. f[i - 1].ix[sk] = IF sk \in Upto(i - 1) THEN <<>> ELSE f[0].ix[sk]
      BY <2>2
    <3>3. sk \in Upto(i) <=> sk \in Upto(i - 1) \/ sk \in ToSet(old[q[i]])
      BY <1>2
    <3> QED BY <1>1, <3>1, <3>2, <3>3
  <2>3. 0..n \subseteq P
    <3> HIDE DEF P
    <3> QED BY <1>1, <2>1, <2>2, StepInduction
  <2> QED BY <1>1, <2>3
<1> QED BY <1>3, <1>6 DEF n, Emptied

\* The puts go through one after the other, if each would go through first and no two share a key.
AllFit(a, old, new) ==
    /\ a.ok /\ \A p \in DOMAIN new : Fits(a, old[p], new[p])
    /\ \A p, r \in DOMAIN new : p # r => ToSet(new[p]) \cap ToSet(new[r]) = {}

LEMMA UniqueReplacements ==
    ASSUME NEW mem \in BOOLEAN, NEW u \in BOOLEAN, NEW m \in BOOLEAN, NEW new \in Stores,
           NEW q \in Seq(DOMAIN new), IsInjective(q), NEW old \in [PK -> Seq(SK)],
           NEW g, Replaces(mem, q, old, new, u, m, g), AllFit(g[0], old, new)
    PROVE  u => g[Len(q)].ok
<1> DEFINE n == Len(q)
<1>1. n \in Nat /\ \A i \in 1..n : q[i] \in DOMAIN new /\ i - 1 \in 0..n /\ i \in 0..n
  OBVIOUS
<1>2. \A i, j \in 1..n : i # j => q[i] # q[j]
  BY DEF IsInjective
<1>3. /\ g \in [0..n -> Accumulators(u)]
      /\ \A i \in 1..n : g[i] = Replacement(mem, g[i - 1], q[i], old[q[i]], new[q[i]], u, m)
  BY DEF Replaces
<1>4. \A p \in DOMAIN new : p \in PK /\ new[p] \in Seq(SK) /\ old[p] \in Seq(SK) /\ ToSet(new[p]) \subseteq SK
  <2>1. \A p \in DOMAIN new : p \in PK /\ new[p] \in Seq(SK) /\ old[p] \in Seq(SK)
    BY StoreFacts
  <2> QED BY <2>1 DEF ToSet
<1> HIDE DEF n
<1>5. ASSUME u, NEW i \in 1..n, Fits(g[i - 1], old[q[i]], new[q[i]])
      PROVE  /\ g[i].ok
             /\ \A sk \in SK : sk \notin ToSet(new[q[i]]) => g[i].ix[sk] \in {<<>>, g[i - 1].ix[sk]}
  <2> DEFINE a == g[i - 1]
             p == q[i]
             o == old[q[i]]
             w == new[q[i]]
  <2>1. a \in Accumulators(u) /\ p \in PK /\ o \in Seq(SK) /\ w \in Seq(SK)
    BY <1>1, <1>3, <1>4
  <2>2. g[i] = Replacement(mem, a, p, o, w, u, m) /\ Fits(a, o, w)
    BY <1>3, <1>5
  <2> HIDE DEF a, p, o, w
  <2>3. LET b == Replacement(mem, a, p, o, w, u, m)
        IN  u => /\ b.ok
                 /\ \A sk \in SK : sk \notin ToSet(w) => b.ix[sk] \in {<<>>, a.ix[sk]}
    BY <2>1, <2>2, UniqueReplacement
  <2>4. u => /\ g[i].ok
             /\ \A sk \in SK : sk \notin ToSet(w) => g[i].ix[sk] \in {<<>>, a.ix[sk]}
    BY <2>2, <2>3
  <2> QED BY <1>5, <2>4 DEF a, w
<1>6. ASSUME u PROVE g[n].ok
  <2> DEFINE P == {i \in 0..n : g[i].ok /\ \A j \in 1..n : j > i => Fits(g[i], old[q[j]], new[q[j]])}
  <2>1. 0 \in P
    BY <1>1 DEF AllFit
  <2>2. ASSUME NEW i \in 1..n, i - 1 \in P PROVE i \in P
    <3>1. Fits(g[i - 1], old[q[i]], new[q[i]])
      BY <1>1, <2>2
    <3>2. /\ g[i].ok
          /\ \A sk \in SK : sk \notin ToSet(new[q[i]]) => g[i].ix[sk] \in {<<>>, g[i - 1].ix[sk]}
      BY <1>5, <1>6, <3>1
    <3>3. ASSUME NEW j \in 1..n, j > i PROVE Fits(g[i], old[q[j]], new[q[j]])
      <4>1. Fits(g[i - 1], old[q[j]], new[q[j]])
        <5>1. j > i - 1
          BY <1>1, <3>3
        <5> QED BY <2>2, <5>1
      <4>2. q[i] # q[j] /\ q[i] \in DOMAIN new /\ q[j] \in DOMAIN new
        BY <1>1, <1>2, <3>3
      <4>3. \A sk \in ToSet(new[q[j]]) : sk \in SK /\ sk \notin ToSet(new[q[i]])
        BY <1>4, <4>2 DEF AllFit
      <4> QED BY <3>2, <4>1, <4>3 DEF Fits
    <3> QED BY <1>1, <3>2, <3>3
  <2>3. 0..n \subseteq P
    <3> HIDE DEF P
    <3> QED BY <1>1, <2>1, <2>2, StepInduction
  <2> QED BY <1>1, <2>3
<1> QED BY <1>6 DEF n

\* The keys of different objects differ, and those of one object as well.
KeysApart(new) ==
    /\ \A p \in DOMAIN new : IsInjective(new[p])
    /\ \A p, q \in DOMAIN new : p # q => ToSet(new[p]) \cap ToSet(new[q]) = {}

\* No secondary key that a transaction puts is there twice, or is another's when it comes to it: what is
\* listed at the beginning belongs to the object itself or is removed before.
Unshared(d, new, gone, t) ==
    /\ KeysApart(new)
    /\ t \/ \A p \in DOMAIN new, q \in PK \ gone : p # q => ToSet(new[p]) \cap ToSet(KeysOf(d, q)) = {}

\* The index lists nothing but keys of the objects, unless it is emptied first.
Sourced(ix, d, t) == t \/ \A sk \in SK : ix[sk] # <<>> => \E q \in PK : sk \in ToSet(KeysOf(d, q))

\* In memory and in LevelDB, such a transaction is applied to a unique index without an error.
LEMMA WalksAdmit ==
    ASSUME NEW mem \in BOOLEAN, NEW u \in BOOLEAN, NEW m \in BOOLEAN, NEW t \in BOOLEAN, NEW ix \in Tables(u),
           NEW d \in Stores, NEW new \in Stores,
           NEW gone \in Seq(PK), IsInjective(gone), NEW puts \in Seq(DOMAIN new), IsInjective(puts),
           NEW after, NEW f, NEW g, Walks(mem, ix, after, u, m, t, d, new, gone, puts, f, g),
           Sourced(ix, d, t), Unshared(d, new, ToSet(gone), t)
    PROVE  u => after.ok
<1> DEFINE old == OldTable(mem, d, t)
<1>1. /\ old \in [PK -> Seq(SK)]
      /\ ~mem \/ ~t => \A p \in PK : old[p] = KeysOf(d, p)
  BY OldTableFacts
<1>2. /\ Good(Start(ix, t)).ix = Start(ix, t) /\ Good(Start(ix, t)).ok
      /\ t => \A sk \in SK : Start(ix, t)[sk] = <<>>
      /\ ~t => Start(ix, t) = ix
  BY StartFacts
<1>3. /\ Removes(mem, gone, old, u, f) /\ Replaces(mem, puts, old, new, u, m, g)
      /\ f[0] = Good(Start(ix, t)) /\ g[0] = f[Len(gone)] /\ g[Len(puts)] = after
  BY DEF Walks
<1> HIDE DEF old
<1>4. f[0].ok /\ f[0].ix = Start(ix, t)
  BY <1>2, <1>3
<1>5. g[0].ok
  BY <1>1, <1>3, <1>4, RemovalsCounts
<1>6. /\ \A p \in DOMAIN new : IsInjective(new[p])
      /\ \A p, r \in DOMAIN new : p # r => ToSet(new[p]) \cap ToSet(new[r]) = {}
      /\ t \/ \A p \in DOMAIN new, q \in PK \ ToSet(gone) : p # q => ToSet(new[p]) \cap ToSet(KeysOf(d, q)) = {}
  BY DEF Unshared, KeysApart
<1>7. u => Emptied(f[0], g[0], ToSet(gone), old)
  BY <1>1, <1>3, UniqueRemovals
<1>8. ToSet(gone) \subseteq PK /\ \A p \in DOMAIN new : p \in PK /\ ToSet(new[p]) \subseteq SK
  <2>1. \A p \in DOMAIN new : p \in PK /\ new[p] \in Seq(SK)
    BY StoreFacts
  <2> QED BY <2>1 DEF ToSet
<1>9. ASSUME u, NEW p \in DOMAIN new PROVE Fits(g[0], old[p], new[p])
  <2>1. ASSUME NEW sk \in ToSet(new[p]), g[0].ix[sk] # <<>> PROVE sk \in ToSet(old[p])
    <3>1. sk \in SK /\ f[0].ix[sk] # <<>> /\ \A q \in ToSet(gone) : sk \notin ToSet(old[q])
      BY <1>7, <1>8, <1>9, <2>1 DEF Emptied
    <3>2. ~t
      BY <1>2, <1>4, <3>1
    <3>3. PICK q \in PK : sk \in ToSet(KeysOf(d, q))
      BY <1>2, <1>4, <3>1, <3>2 DEF Sourced
    <3>4. sk \in ToSet(old[q])
      BY <1>1, <3>2, <3>3
    <3>5. q = p
      BY <1>6, <3>1, <3>2, <3>3, <3>4
    <3> QED BY <3>4, <3>5
  <2> QED BY <1>5, <1>6, <2>1 DEF Fits
<1>10. u => AllFit(g[0], old, new)
  BY <1>5, <1>6, <1>9 DEF AllFit
<1>11. AllFit(g[0], old, new) => (u => g[Len(puts)].ok)
  BY <1>1, <1>3, UniqueReplacements
<1> QED BY <1>3, <1>10, <1>11

LEMMA MemoryAdmits ==
    ASSUME NEW u \in BOOLEAN, NEW m \in BOOLEAN, NEW t \in BOOLEAN, NEW ix \in Tables(u),
           NEW d \in Stores, NEW new \in Stores,
           NEW gone \in Seq(PK), IsInjective(gone), NEW puts \in Seq(DOMAIN new), IsInjective(puts),
           Sourced(ix, d, t), Unshared(d, new, ToSet(gone), t)
    PROVE  u => MemoryApply(ix, d, new, gone, puts, t, u, m).ok
<1> DEFINE after == MemoryApply(ix, d, new, gone, puts, t, u, m)
           mem == TRUE
<1>1. mem \in BOOLEAN /\ \E f, g : Walks(mem, ix, after, u, m, t, d, new, gone, puts, f, g)
  BY MemoryLoops
<1> HIDE DEF after, mem
<1>2. PICK f, g : Walks(mem, ix, after, u, m, t, d, new, gone, puts, f, g)
  BY <1>1
<1>3. u => after.ok
  BY <1>1, <1>2, WalksAdmit
<1> QED BY <1>3 DEF after

LEMMA LevelAdmits ==
    ASSUME NEW u \in BOOLEAN, NEW m \in BOOLEAN, NEW t \in BOOLEAN, NEW ix \in Tables(u),
           NEW d \in Stores, NEW new \in Stores,
           NEW gone \in Seq(PK), IsInjective(gone), NEW puts \in Seq(DOMAIN new), IsInjective(puts),
           Sourced(ix, d, t), Unshared(d, new, ToSet(gone), t)
    PROVE  u => LevelApply(ix, d, new, gone, puts, t, u, m).ok
<1> DEFINE after == LevelApply(ix, d, new, gone, puts, t, u, m)
           mem == FALSE
<1>1. mem \in BOOLEAN /\ \E f, g : Walks(mem, ix, after, u, m, t, d, new, gone, puts, f, g)
  BY LevelLoops
<1> HIDE DEF after, mem
<1>2. PICK f, g : Walks(mem, ix, after, u, m, t, d, new, gone, puts, f, g)
  BY <1>1
<1>3. u => after.ok
  BY <1>1, <1>2, WalksAdmit
<1> QED BY <1>3 DEF after

\* No two of the pairs are of the same key.
KeysOnce(q) == \A i, j \in DOMAIN q : i # j => q[i][1] # q[j][1]

LEMMA PutOnce ==
    ASSUME NEW e \in Changes, NEW sk \in SK, NEW pk \in PK, KeysOnce(e.modified),
           \A pair \in ToSet(e.modified) : pair[1] # sk
    PROVE  KeysOnce(RecordPut(e, sk, pk).modified)
<1> DEFINE s == e.modified
           n == Len(s)
           t == RecordPut(e, sk, pk).modified
           pair == <<sk, pk>>
<1>1. s \in Seq(KeyPairs) /\ pair \in KeyPairs
  BY ChangesFacts DEF KeyPairs
<1>2. t = Append(s, pair)
  <2>1. e = [removed |-> e.removed, modified |-> e.modified]
    BY ChangesFacts
  <2> QED BY <2>1 DEF RecordPut
<1>3. \A i \in 1..n : s[i] \in ToSet(s)
  BY <1>1 DEF ToSet
<1>4. \A i \in 1..n : s[i][1] # sk
  BY <1>3
<1>5. \A i, j \in 1..n : i # j => s[i][1] # s[j][1]
  BY <1>1 DEF KeysOnce
<1>6. pair[1] = sk
  OBVIOUS
<1> HIDE DEF s, t, pair
<1>7. DOMAIN t = 1..(n + 1) /\ n \in Nat /\ (\A i \in 1..n : t[i] = s[i]) /\ t[n + 1] = pair
  BY <1>1, <1>2
<1> HIDE DEF n
<1>8. \A i, j \in 1..(n + 1) : i # j => t[i][1] # t[j][1]
  <2>1. \A i \in 1..(n + 1) : i \in 1..n \/ i = n + 1
    BY <1>7
  <2> QED BY <1>4, <1>5, <1>6, <1>7, <2>1
<1> QED BY <1>7, <1>8 DEF KeysOnce, t

LEMMA InsertOnce ==
    ASSUME NEW acc \in Changes, NEW pk \in PK, NEW q \in Seq(SK), IsInjective(q), KeysOnce(acc.modified),
           \A pair \in ToSet(acc.modified) : pair[1] \notin ToSet(q)
    PROVE  KeysOnce(LmdbInsert(acc, pk, q).modified)
<1> DEFINE n == Len(q)
           after == LmdbInsert(acc, pk, q)
<1>1. PICK f \in [0..n -> Changes] :
       f[0] = acc /\ f[n] = after /\ \A i \in 1..n : f[i] = RecordPut(f[i - 1], q[i], pk)
  BY LmdbInsertSteps
<1>2. n \in Nat /\ DOMAIN q = 1..n /\ \A i \in 1..n : q[i] \in SK /\ i - 1 \in 0..n /\ i \in 0..n
  OBVIOUS
<1>3. \A i, j \in 1..n : i # j => q[i] # q[j]
  BY <1>2 DEF IsInjective
<1>4. \A i \in 1..n : q[i] \in ToSet(q)
  BY <1>2 DEF ToSet
<1> HIDE DEF n, after
<1> DEFINE P == {i \in 0..n : /\ KeysOnce(f[i].modified)
                              /\ \A j \in 1..n : j > i => \A pair \in ToSet(f[i].modified) : pair[1] # q[j]}
<1>5. 0 \in P
  BY <1>1, <1>2, <1>4
<1>6. ASSUME NEW i \in 1..n, i - 1 \in P PROVE i \in P
  <2> DEFINE e == f[i - 1]
             sk == q[i]
             b == f[i]
  <2>1. e \in Changes /\ sk \in SK /\ b = RecordPut(e, sk, pk)
    BY <1>1, <1>2
  <2>2. KeysOnce(e.modified) /\ \A j \in 1..n : j > i - 1 => \A pair \in ToSet(e.modified) : pair[1] # q[j]
    BY <1>6
  <2>3. \A pair \in ToSet(e.modified) : pair[1] # sk
    BY <1>2, <2>2
  <2> HIDE DEF e, sk, b
  <2>4. KeysOnce(b.modified) /\ ToSet(b.modified) = ToSet(e.modified) \cup {<<sk, pk>>}
    BY <2>1, <2>2, <2>3, PutOnce, RecordPutFacts
  <2>5. \A j \in 1..n : j > i => \A pair \in ToSet(b.modified) : pair[1] # q[j]
    <3> SUFFICES ASSUME NEW j \in 1..n, j > i, NEW pair \in ToSet(b.modified) PROVE pair[1] # q[j]
      OBVIOUS
    <3>1. CASE pair \in ToSet(e.modified)
      BY <1>2, <2>2, <3>1
    <3>2. CASE pair = <<sk, pk>>
      BY <1>2, <1>3, <3>2 DEF sk
    <3> QED BY <2>4, <3>1, <3>2, Zenon
  <2> QED BY <1>2, <2>4, <2>5 DEF b
<1>7. n \in P
  <2>1. 0..n \subseteq P
    <3> HIDE DEF P
    <3> QED BY <1>2, <1>5, <1>6, StepInduction
  <2> HIDE DEF P
  <2> QED BY <1>2, <2>1
<1> QED BY <1>1, <1>7 DEF after

\* The encoding of such a transaction then inserts no key twice.
LEMMA EncodeOnce ==
    ASSUME NEW m \in BOOLEAN, NEW d \in Stores, NEW new \in Stores, KeysApart(new),
           NEW gone \in Seq(PK), NEW puts \in Seq(DOMAIN new), IsInjective(puts)
    PROVE  KeysOnce(LmdbEncode(d, new, gone, puts, m).modified)
<1> DEFINE cleared == LmdbCleared(d, NoChanges, gone)
           after == LmdbReplaced(d, new, cleared, puts, m)
           n == Len(gone)
           k == Len(puts)
<1>1. LmdbEncode(d, new, gone, puts, m) = after
  BY DEF LmdbEncode, LmdbCleared, LmdbReplaced
<1>2. /\ n \in Nat /\ k \in Nat
      /\ \A i \in 1..n : gone[i] \in PK /\ i - 1 \in 0..n /\ i \in 0..n
      /\ \A i \in 1..k : puts[i] \in DOMAIN new /\ i - 1 \in 0..k /\ i \in 0..k
  OBVIOUS
<1>3. \A i, j \in 1..k : i # j => puts[i] # puts[j]
  BY DEF IsInjective
<1>4. cleared \in Changes /\ cleared.modified = <<>>
  <2>1. NoChanges \in Changes /\ NoChanges.modified = <<>>
    BY NoChangesFacts
  <2>2. PICK f \in [0..Len(gone) -> Changes] :
          /\ f[0] = NoChanges /\ f[Len(gone)] = cleared
          /\ \A i \in 1..Len(gone) : f[i] = LmdbRemove(f[i - 1], gone[i], KeysOf(d, gone[i]))
    BY <2>1, LmdbClearingSteps
  <2> HIDE DEF cleared, n
  <2> DEFINE P == {i \in 0..n : f[i].modified = <<>>}
  <2>3. 0 \in P
    BY <1>2, <2>1, <2>2
  <2>4. ASSUME NEW i \in 1..n, i - 1 \in P PROVE i \in P
    <3> DEFINE e == f[i - 1]
               pk == gone[i]
               q == KeysOf(d, pk)
    <3>1. f[i] = LmdbRemove(e, pk, q) /\ pk \in PK /\ e \in Changes /\ e.modified = <<>>
      BY <1>2, <2>2, <2>4 DEF n
    <3>2. q \in Seq(SK)
      BY <3>1, OldFacts
    <3> HIDE DEF e, pk, q
    <3>3. f[i].modified = <<>>
      BY <3>1, <3>2, LmdbRemoveFacts
    <3> QED BY <1>2, <3>3
  <2>5. n \in P
    <3>1. 0..n \subseteq P
      <4> HIDE DEF P
      <4> QED BY <1>2, <2>3, <2>4, StepInduction
    <3> HIDE DEF P
    <3> QED BY <1>2, <3>1
  <2> QED BY <1>2, <2>2, <2>5 DEF n
<1> HIDE DEF cleared
<1>5. PICK f \in [0..Len(puts) -> Changes] :
        /\ f[0] = cleared /\ f[Len(puts)] = after
        /\ \A i \in 1..Len(puts) : f[i] = LmdbPut(f[i - 1], puts[i], KeysOf(d, puts[i]), new[puts[i]], m)
  BY <1>4, LmdbPuttingSteps
<1> HIDE DEF after, n, k
<1> DEFINE PutsUpTo(s, i) == \A pair \in ToSet(s) : \E j \in 1..i : pair[1] \in ToSet(new[puts[j]])
           P == {i \in 0..k : KeysOnce(f[i].modified) /\ PutsUpTo(f[i].modified, i)}
<1>6. 0 \in P
  <2>1. KeysOnce(<<>>) /\ PutsUpTo(<<>>, 0)
    BY DEF KeysOnce, ToSet
  <2> QED BY <1>2, <1>4, <1>5, <2>1
<1>7. ASSUME NEW i \in 1..k, i - 1 \in P PROVE i \in P
  <2> DEFINE e == f[i - 1]
             pk == puts[i]
             old == KeysOf(d, pk)
             w == new[pk]
             b == LmdbRemove(e, pk, old)
             same == SameKeys(old, w, m)
  <2>1. f[i] = LmdbPut(e, pk, old, w, m) /\ pk \in DOMAIN new /\ pk \in PK /\ e \in Changes
    BY <1>2, <1>5, StoreFacts DEF k
  <2>2. old \in Seq(SK) /\ w \in Seq(SK) /\ IsInjective(w)
    BY <2>1, OldFacts, StoreFacts DEF KeysApart
  <2>3. KeysOnce(e.modified) /\ PutsUpTo(e.modified, i - 1)
    BY <1>7
  <2>4. 1..i = 1..(i - 1) \cup {i}
    BY <1>2
  <2>5. \A pair \in ToSet(e.modified) : pair[1] \notin ToSet(w)
    <3> SUFFICES ASSUME NEW pair \in ToSet(e.modified), pair[1] \in ToSet(w) PROVE FALSE
      OBVIOUS
    <3>1. PICK j \in 1..(i - 1) : pair[1] \in ToSet(new[puts[j]])
      BY <2>3
    <3>2. j \in 1..k /\ j # i
      BY <1>2
    <3>3. puts[j] # pk /\ puts[j] \in DOMAIN new
      BY <1>2, <1>3, <3>2
    <3> QED BY <2>1, <3>1, <3>3 DEF KeysApart
  <2>6. CASE same
    <3>1. f[i] = e
      BY <2>1, <2>6 DEF LmdbPut
    <3>2. PutsUpTo(e.modified, i)
      BY <2>3, <2>4
    <3> QED BY <1>2, <2>3, <3>1, <3>2
  <2>7. CASE ~same
    <3>1. f[i] = LmdbInsert(b, pk, w)
      BY <2>1, <2>7 DEF LmdbPut
    <3>2. PutsUpTo(e.modified, i)
      BY <2>3, <2>4
    <3>3. \A sk \in ToSet(w) : \E j \in 1..i : sk \in ToSet(new[puts[j]])
      BY <2>4
    <3> HIDE DEF e, pk, old, w, same
    <3>4. b \in Changes /\ b.modified = e.modified
      BY <2>1, <2>2, LmdbRemoveFacts
    <3> HIDE DEF b
    <3>5. KeysOnce(f[i].modified)
      BY <2>1, <2>2, <2>3, <2>5, <3>1, <3>4, InsertOnce
    <3>6. ToSet(f[i].modified) = ToSet(e.modified) \cup {<<sk, pk>> : sk \in ToSet(w)}
      BY <2>1, <2>2, <3>1, <3>4, LmdbInsertFacts
    <3>7. PutsUpTo(f[i].modified, i)
      <4> SUFFICES ASSUME NEW pair \in ToSet(f[i].modified) PROVE \E j \in 1..i : pair[1] \in ToSet(new[puts[j]])
        OBVIOUS
      <4>1. CASE pair \in ToSet(e.modified)
        BY <3>2, <4>1
      <4>2. CASE pair \in {<<sk, pk>> : sk \in ToSet(w)}
        <5>1. pair[1] \in ToSet(w)
          BY <4>2
        <5> QED BY <3>3, <5>1
      <4> QED BY <3>6, <4>1, <4>2, Zenon
    <3> QED BY <1>2, <3>5, <3>7
  <2> QED BY <2>6, <2>7
<1>8. k \in P
  <2>1. 0..k \subseteq P
    <3> HIDE DEF P
    <3> QED BY <1>2, <1>6, <1>7, StepInduction
  <2> HIDE DEF P
  <2> QED BY <1>2, <2>1
<1> QED BY <1>1, <1>5, <1>8 DEF k

\* Pairs whose keys have empty lists are stored without an error.
LEMMA StoringAdmits ==
    ASSUME NEW u \in BOOLEAN, NEW acc \in Accumulators(u), acc.ok, NEW q \in Seq(KeyPairs), KeysOnce(q),
           \A pair \in ToSet(q) : acc.ix[pair[1]] = <<>>
    PROVE  LmdbStored(acc, q, u).ok
<1> DEFINE n == Len(q)
           after == LmdbStored(acc, q, u)
<1>1. PICK f \in [0..n -> Accumulators(u)] :
       /\ f[0] = acc /\ f[n] = after
       /\ \A i \in 1..n : f[i] = IF f[i - 1].ok THEN LmdbStore(f[i - 1], q[i][1], q[i][2], u) ELSE f[i - 1]
  BY LmdbStoringSteps
<1>2. n \in Nat /\ DOMAIN q = 1..n
      /\ \A i \in 1..n : q[i] \in KeyPairs /\ i - 1 \in 0..n /\ i \in 0..n /\ q[i] \in ToSet(q)
  BY DEF ToSet
<1>3. \A i \in 1..n : q[i][1] \in SK /\ q[i][2] \in PK
  BY <1>2 DEF KeyPairs
<1>4. \A i, j \in 1..n : i # j => q[i][1] # q[j][1]
  BY <1>2 DEF KeysOnce
<1> HIDE DEF n, after
<1> DEFINE P == {i \in 0..n : f[i].ok /\ \A j \in 1..n : j > i => f[i].ix[q[j][1]] = <<>>}
<1>5. 0 \in P
  BY <1>1, <1>2
<1>6. ASSUME NEW i \in 1..n, i - 1 \in P PROVE i \in P
  <2> DEFINE a == f[i - 1]
             sk == q[i][1]
             pk == q[i][2]
             b == f[i]
  <2>1. a \in Accumulators(u) /\ sk \in SK /\ pk \in PK
    BY <1>1, <1>2, <1>3
  <2>2. a.ok /\ \A j \in 1..n : j > i - 1 => a.ix[q[j][1]] = <<>>
    BY <1>6
  <2>3. b = LmdbStore(a, sk, pk, u)
    BY <1>1, <2>2
  <2>4. a.ix[sk] = <<>>
    BY <1>2, <2>2
  <2>5. \A j \in 1..n : j > i => j > i - 1 /\ q[j][1] \in SK /\ q[j][1] # sk
    BY <1>2, <1>3, <1>4
  <2> HIDE DEF a, sk, pk, b
  <2>6. b.ok
    <3>1. b = IF pk \in ToSet(a.ix[sk]) THEN a ELSE WithList(a, sk, Added(a.ix[sk], pk))
      BY <2>3, <2>4 DEF LmdbStore, WithList
    <3>2. a.ix[sk] \in Entries(u)
      BY <2>1, AccumulatorFacts
    <3>3. Added(a.ix[sk], pk) \in Entries(u)
      BY <2>1, <2>4, <3>2, AddedEntries
    <3>4. WithList(a, sk, Added(a.ix[sk], pk)).ok = a.ok
      BY <2>1, <3>3, WithListFacts
    <3> QED BY <2>2, <3>1, <3>4
  <2>7. \A s \in SK : s # sk => b.ix[s] = a.ix[s]
    BY <2>1, <2>3, <2>6, LmdbStoreFacts
  <2>8. \A j \in 1..n : j > i => b.ix[q[j][1]] = <<>>
    BY <2>2, <2>5, <2>7
  <2> QED BY <1>2, <2>6, <2>8 DEF b
<1>7. n \in P
  <2>1. 0..n \subseteq P
    <3> HIDE DEF P
    <3> QED BY <1>2, <1>5, <1>6, StepInduction
  <2> HIDE DEF P
  <2> QED BY <1>2, <2>1
<1> QED BY <1>1, <1>7 DEF after

\* In LMDB, such a transaction is applied to a unique index without an error.
LEMMA LmdbAdmits ==
    ASSUME NEW u \in BOOLEAN, NEW m \in BOOLEAN, NEW t \in BOOLEAN, NEW ix \in Tables(u),
           NEW d \in Stores, NEW new \in Stores,
           NEW gone \in Seq(PK), NEW puts \in Seq(DOMAIN new), IsInjective(puts),
           Sourced(ix, d, t), Unshared(d, new, ToSet(gone), t)
    PROVE  u => LmdbApply(ix, d, new, gone, puts, t, u, m).ok
<1> DEFINE e == LmdbEncode(d, new, gone, puts, m)
           base == IF t THEN NoEntries ELSE ix
           cleared == [sk \in SK |-> IF sk \notin DOMAIN e.removed THEN base[sk]
                                     ELSE IF u THEN <<>> ELSE Dropped(base[sk], e.removed[sk])]
           after == LmdbStored(Good(cleared), e.modified, u)
           G == ToSet(gone)
           N == {p \in ToSet(puts) : ~SameKeys(KeysOf(d, p), new[p], m)}
<1>1. LmdbApply(ix, d, new, gone, puts, t, u, m) = after
  BY DEF LmdbApply, LmdbStored
<1>2. base \in Tables(u) /\ (t => \A sk \in SK : base[sk] = <<>>) /\ (~t => base = ix)
  BY NoEntriesFacts
<1>3. Recorded(e, d, new, G \cup N, N)
  BY EncodeRecorded
<1>4. KeysApart(new)
  BY DEF Unshared
<1>5. KeysOnce(e.modified)
  BY <1>4, EncodeOnce
<1>6. N \subseteq DOMAIN new /\ DOMAIN new \subseteq PK
  BY StoreFacts DEF ToSet
<1> HIDE DEF e, base, G, N
<1>7. e.modified \in Seq(KeyPairs) /\ \A pair \in ToSet(e.modified) : pair \in KeyPairs
  <2>1. e.modified \in Seq(KeyPairs)
    BY <1>3, ChangesFacts DEF Recorded
  <2> QED BY <2>1 DEF ToSet
<1>8. ASSUME NEW sk \in SK, NEW p \in N, sk \in ToSet(new[p]), base[sk] # <<>> PROVE sk \in DOMAIN e.removed
  <2>1. ~t /\ ix[sk] # <<>>
    BY <1>2, <1>8
  <2>2. PICK q \in PK : sk \in ToSet(KeysOf(d, q))
    BY <2>1 DEF Sourced
  <2>3. q = p \/ q \in G
    BY <1>6, <1>8, <2>1, <2>2 DEF Unshared, G
  <2>4. q \in G \cup N
    BY <2>3
  <2> QED BY <1>3, <2>2, <2>4 DEF Recorded
<1>9. ASSUME u PROVE after.ok
  <2>1. cleared \in Tables(u) /\ \A sk \in SK : cleared[sk] = IF sk \in DOMAIN e.removed THEN <<>> ELSE base[sk]
    <3>1. \A sk \in SK : base[sk] \in Entries(u) /\ <<>> \in Entries(u)
      BY <1>2, ShortEntries DEF Tables
    <3>2. cleared = [sk \in SK |-> IF sk \in DOMAIN e.removed THEN <<>> ELSE base[sk]]
      BY <1>9
    <3> QED BY <3>1, <3>2 DEF Tables
  <2> HIDE DEF cleared
  <2>2. Good(cleared) \in Accumulators(u) /\ Good(cleared).ix = cleared /\ Good(cleared).ok
    BY <2>1, GoodFacts
  <2>3. ASSUME NEW pair \in ToSet(e.modified) PROVE Good(cleared).ix[pair[1]] = <<>>
    <3> DEFINE sk == pair[1]
               p == pair[2]
    <3>1. sk \in SK /\ p \in PK /\ <<sk, p>> = pair
      BY <1>7, <2>3 DEF KeyPairs
    <3>2. p \in N /\ sk \in ToSet(new[p])
      BY <1>3, <2>3, <3>1 DEF Recorded
    <3> HIDE DEF sk, p
    <3>3. cleared[sk] = <<>>
      BY <1>8, <2>1, <3>1, <3>2
    <3> QED BY <2>2, <3>3 DEF sk
  <2> DEFINE acc == Good(cleared)
             q == e.modified
  <2>4. acc \in Accumulators(u) /\ acc.ok /\ q \in Seq(KeyPairs) /\ KeysOnce(q) /\ \A pair \in ToSet(q) : acc.ix[pair[1]] = <<>>
    BY <1>5, <1>7, <2>2, <2>3
  <2> HIDE DEF acc, q
  <2>5. LmdbStored(acc, q, u).ok
    BY <2>4, StoringAdmits
  <2> QED BY <2>5 DEF acc, q
<1> QED BY <1>1, <1>9

\* What a put changes, if it throws no error.
Wrote(a, b, pk, sks) == b.ok => a.ok /\ \A x : KeysOf(b.ix, x) = IF x = pk THEN sks ELSE KeysOf(a.ix, x)

LEMMA IdbWrites ==
    ASSUME NEW u \in BOOLEAN, NEW a \in Progress(FiniteStores), NEW pk \in PK, NEW sks \in Seq(SK)
    PROVE  Wrote(a, IdbStored(a, pk, sks, u), pk, sks)
BY IdbStoredFacts DEF Wrote

\* In IndexedDB as well.
LEMMA IdbAdmits ==
    ASSUME NEW u \in BOOLEAN, NEW t \in BOOLEAN, NEW d \in FiniteStores, NEW new \in Stores,
           NEW gone \in Seq(PK), NEW puts \in Seq(DOMAIN new), Unshared(d, new, ToSet(gone), t)
    PROVE  u => IdbApply(d, new, gone, puts, t, u).ok
<1> DEFINE C == Progress(FiniteStores)
           n == Len(puts)
           base == Base(d, gone, t)
           acc == Good(base)
           end == IdbReplaced(new, acc, puts, u)
           after == IdbApply(d, new, gone, puts, t, u)
           Done(i) == {puts[j] : j \in 1..i}
<1>1. after = [ix |-> Indexed(end.ix), ok |-> end.ok]
  BY DEF IdbApply, IdbReplaced, IdbStored
<1>2. /\ base \in FiniteStores
      /\ \A x : KeysOf(base, x) = IF t \/ x \in ToSet(gone) THEN <<>> ELSE KeysOf(d, x)
  BY BaseFacts
<1> HIDE DEF base, after
<1>3. acc \in C /\ acc.ix = base /\ acc.ok
  <2> DEFINE S == FiniteStores
  <2>1. base \in S
    BY <1>2
  <2> HIDE DEF S
  <2>2. acc \in [ix : S, ok : BOOLEAN] /\ acc.ix = base /\ acc.ok
    BY <2>1 DEF Good
  <2> QED BY <2>2 DEF Progress, S
<1> HIDE DEF acc
<1>4. PICK f \in [0..n -> C] :
        /\ f[0] = acc /\ f[n] = end
        /\ \A i \in 1..n : f[i] = IdbStored(f[i - 1], puts[i], new[puts[i]], u)
  BY <1>3, IdbPuttingSteps
<1>5. n \in Nat /\ \A i \in 1..n : puts[i] \in DOMAIN new /\ puts[i] \in PK /\ new[puts[i]] \in Seq(SK)
  BY StoreFacts
<1>6. /\ \A p, q \in DOMAIN new : p # q => ToSet(new[p]) \cap ToSet(new[q]) = {}
      /\ t \/ \A p \in DOMAIN new, q \in PK \ ToSet(gone) : p # q => ToSet(new[p]) \cap ToSet(KeysOf(d, q)) = {}
  BY DEF Unshared, KeysApart
<1>7. ToSet(<<>>) = {}
  BY DEF ToSet
<1> HIDE DEF end, C
<1> DEFINE Right(a, i) == a.ok /\ \A x : KeysOf(a.ix, x) = IF x \in Done(i) THEN new[x] ELSE KeysOf(base, x)
           P == {i \in 0..n : Right(f[i], i)}
<1>8. 0 \in P
  <2>1. Done(0) = {} /\ 0 \in 0..n
    BY <1>5
  <2> QED BY <1>3, <1>4, <2>1
<1>9. ASSUME NEW i \in 1..n, i - 1 \in P PROVE i \in P
  <2> DEFINE a == f[i - 1]
             b == f[i]
             pk == puts[i]
             sks == new[pk]
  <2>1. i - 1 \in 0..n /\ i \in 0..n
    BY <1>5
  <2>2. /\ a \in C /\ b = IdbStored(a, pk, sks, u) /\ pk \in PK /\ sks \in Seq(SK) /\ sks = new[pk]
        /\ pk \in DOMAIN new
    BY <1>4, <1>5, <2>1
  <2>3. Right(a, i - 1)
    BY <1>9
  <2>4. Done(i) = Done(i - 1) \cup {pk} /\ Done(i - 1) \subseteq DOMAIN new
    <3>1. 1..i = 1..(i - 1) \cup {i} /\ \A j \in 1..(i - 1) : j \in 1..n
      BY <1>5
    <3> QED BY <1>5, <3>1
  <2>5. a.ix \in Stores /\ DOMAIN a.ix \subseteq PK
    BY <2>2, StoreFacts DEF C, Progress, FiniteStores
  <2> HIDE DEF a, b, pk, sks, Done
  <2>6. ASSUME NEW sk \in ToSet(sks), NEW x \in Holders(a.ix, sk) \ {pk} PROVE FALSE
    <3>1. x \in PK /\ x # pk /\ sk \in ToSet(KeysOf(a.ix, x))
      BY <2>5, <2>6 DEF Holders, KeysOf
    <3>2. CASE x \in Done(i - 1)
      <4>1. x \in DOMAIN new /\ sk \in ToSet(new[x])
        BY <2>3, <2>4, <3>1, <3>2
      <4> QED BY <1>6, <2>2, <2>6, <3>1, <4>1
    <3>3. CASE x \notin Done(i - 1)
      <4>1. sk \in ToSet(KeysOf(base, x))
        BY <2>3, <3>1, <3>3
      <4>2. ~t /\ x \notin ToSet(gone) /\ KeysOf(base, x) = KeysOf(d, x)
        BY <1>2, <1>7, <4>1
      <4> QED BY <1>6, <2>2, <2>6, <3>1, <4>1, <4>2
    <3> QED BY <3>2, <3>3
  <2>7. b.ok
    <3>1. ~ \E sk \in ToSet(sks) : Holders(a.ix, sk) \ {pk} # {}
      BY <2>6
    <3>2. a.ok /\ a = [ix |-> a.ix, ok |-> a.ok]
      BY <2>2, <2>3 DEF C, Progress
    <3>3. b = [a EXCEPT !.ix = Written(@, pk, sks)]
      BY <2>2, <3>1, <3>2 DEF IdbStored
    <3> QED BY <3>2, <3>3
  <2>8. Wrote(a, b, pk, sks)
    <3>1. a \in Progress(FiniteStores) /\ b = IdbStored(a, pk, sks, u) /\ pk \in PK /\ sks \in Seq(SK)
      BY <2>2 DEF C
    <3> QED BY <3>1, IdbWrites
  <2>9. Right(b, i)
    BY <2>2, <2>3, <2>4, <2>7, <2>8 DEF Wrote
  <2> QED BY <2>1, <2>9 DEF b
<1> HIDE DEF P
<1>10. 0..n \subseteq P
  BY <1>5, <1>8, <1>9, StepInduction
<1>11. n \in P
  BY <1>5, <1>10
<1>12. end.ok
  BY <1>4, <1>11 DEF P
<1> QED BY <1>1, <1>12 DEF after

-----------------------------------------------------------------------------
(* The uniqueness checks of a commit. *)

\* The range of one secondary key is read right, in LMDB as well.
LEMMA OnlyIsRight ==
    ASSUME Readable, NEW sk \in SK
    PROVE  IndexKeys(Only(sk)) = Holders(data, sk)
<1> DEFINE r == Only(sk)
<1>1. sk \in Int /\ sk # NoKey
  BY KeysAreIntegers, IndicesAssumption
<1>2. r.lower = sk /\ r.upper = sk /\ ~r.lowerOpen /\ ~r.upperOpen
  BY DEF Only, Bound
<1>3. r \in AllRanges
  BY <1>1 DEF AllRanges, Ranges, Only, Bound
<1>4. ~LmdbAstray(r, TRUE)
  BY <1>2 DEF LmdbAstray
<1>5. \A k \in SK : Includes(r, k) <=> k = sk
  <2> TAKE k \in SK
  <2>1. k \in Int
    BY KeysAreIntegers
  <2> QED BY <1>1, <1>2, <2>1 DEF Includes, AboveLower, BelowUpper
<1> HIDE DEF r
<1>6. IndexKeys(r) = ToSet(ListsOf(r, TRUE))
  BY <1>3, <1>4, KeysAreRight
<1>7. ToSet(ListsOf(r, TRUE)) = UNION {Holders(data, k) : k \in HeldIn(r)}
  BY ListsOfFacts
<1>8. HeldIn(r) = {k \in {sk} : Holders(data, k) # {}}
  BY <1>5 DEF HeldIn, Inside
<1>9. UNION {Holders(data, k) : k \in HeldIn(r)} = Holders(data, sk)
  BY <1>8
<1> QED BY <1>6, <1>7, <1>9 DEF r

\* And so is the transaction's.
LEMMA OwnOnlyIsRight ==
    ASSUME IInv, ~thrown, NEW sk \in SK
    PROVE  OwnIndexKeys(Only(sk)) = Holders(modified, sk)
<1> DEFINE r == Only(sk)
<1>1. sk \in Int /\ sk # NoKey
  BY KeysAreIntegers, IndicesAssumption
<1>2. r.lower = sk /\ r.upper = sk /\ ~r.lowerOpen /\ ~r.upperOpen
  BY DEF Only, Bound
<1>3. \A k \in SK : Includes(r, k) <=> k = sk
  <2> TAKE k \in SK
  <2>1. k \in Int
    BY KeysAreIntegers
  <2> QED BY <1>1, <1>2, <2>1 DEF Includes, AboveLower, BelowUpper
<1> HIDE DEF r
<1>4. {k \in SK : Includes(r, k)} = {sk}
  BY <1>3
<1>5. OwnIndexKeys(r) = ToSet(tree[sk])
  BY <1>4 DEF OwnIndexKeys
<1>6. ToSet(tree[sk]) = Holders(modified, sk)
  BY OwnIndexRight DEF OwnIndexMatches
<1> QED BY <1>5, <1>6 DEF r

\* No two objects that the transaction sees have a secondary key in common if the checks of the commit pass.
LEMMA PassesFacts ==
    ASSUME IInv, suspect = {}, ~thrown, unique, Passes, NEW p \in DOMAIN modified, NEW sk \in ToSet(modified[p]),
           NEW q, q \in Holders(modified, sk) \/ (~truncated /\ q \in Holders(data, sk) /\ q \notin removed /\ q \notin DOMAIN modified)
    PROVE  p = q
<1> DEFINE r == Only(sk)
           keys == TxIndexKeys(r)
<1>1. /\ modified \in Stores /\ IsFiniteSet(DOMAIN modified) /\ data \in Stores /\ IsFiniteSet(DOMAIN data)
  BY DEF IInv, StateOK, TxOK, FiniteStores
<1>2. sk \in SK
  <2>1. modified[p] \in Seq(SK)
    BY <1>1, StoreFacts
  <2> QED BY <2>1 DEF ToSet
<1>3. IndexKeys(r) = Holders(data, sk)
  BY <1>2, IndexIsReadable, OnlyIsRight
<1>4. OwnIndexKeys(r) = Holders(modified, sk)
  BY <1>2, OwnOnlyIsRight
<1>5. Cardinality(keys) <= 1
  BY DEF Passes, Allowed, TxIndexCount
<1> HIDE DEF r
<1>6. keys = Untouched(IF truncated THEN {} ELSE Holders(data, sk)) \cup Holders(modified, sk)
  BY <1>3, <1>4 DEF TxIndexKeys
<1> HIDE DEF keys
<1>7. IsFiniteSet(keys)
  <2>1. keys \subseteq DOMAIN data \cup DOMAIN modified
    BY <1>6 DEF Untouched, Holders
  <2>2. IsFiniteSet(DOMAIN data \cup DOMAIN modified)
    BY <1>1, FS_Union
  <2> QED BY <2>1, <2>2, FS_Subset
<1>8. p \in keys /\ q \in keys
  BY <1>6 DEF Untouched, Holders
<1> QED BY <1>5, <1>7, <1>8, AtMostOne

\* What ChecksSuffice excuses.
HandedOver == \E p, q \in DOMAIN modified : p # q /\ q \in DOMAIN data /\ ToSet(modified[p]) \cap ToSet(data[q]) # {}
Repeated == \E p \in DOMAIN modified : ~IsInjective(modified[p])

LEMMA PassedIsUnshared ==
    ASSUME IInv, suspect = {}, ~thrown, unique, Passes, ~HandedOver, ~Repeated
    PROVE  Unshared(data, modified, removed, truncated) /\ Sourced(index, data, truncated)
<1>1. data \in Stores /\ modified \in Stores /\ \A p \in DOMAIN modified : ToSet(modified[p]) \subseteq SK
  <2>1. data \in Stores /\ modified \in Stores
    BY DEF IInv, StateOK, TxOK, FiniteStores
  <2>2. \A p \in DOMAIN modified : modified[p] \in Seq(SK)
    BY <2>1, StoreFacts
  <2> QED BY <2>1, <2>2 DEF ToSet
<1>2. KeysApart(modified)
  <2>1. ASSUME NEW p \in DOMAIN modified, NEW q \in DOMAIN modified, p # q
        PROVE  ToSet(modified[p]) \cap ToSet(modified[q]) = {}
    <3> SUFFICES ASSUME NEW sk \in ToSet(modified[p]), sk \in ToSet(modified[q]) PROVE FALSE
      OBVIOUS
    <3>1. q \in Holders(modified, sk)
      BY DEF Holders
    <3>2. p = q
      BY <3>1, PassesFacts
    <3> QED BY <2>1, <3>2
  <2>2. \A p \in DOMAIN modified : IsInjective(modified[p])
    BY DEF Repeated
  <2> QED BY <2>1, <2>2 DEF KeysApart
<1>3. ASSUME ~truncated, NEW p \in DOMAIN modified, NEW q \in PK \ removed, p # q
      PROVE  ToSet(modified[p]) \cap ToSet(KeysOf(data, q)) = {}
  <2> SUFFICES ASSUME NEW sk \in ToSet(modified[p]), sk \in ToSet(KeysOf(data, q)) PROVE FALSE
    OBVIOUS
  <2>1. q \in DOMAIN data /\ KeysOf(data, q) = data[q]
    BY DEF KeysOf, ToSet
  <2>2. q \in Holders(data, sk)
    BY <2>1 DEF Holders
  <2>3. q \notin DOMAIN modified
    BY <1>3, <2>1 DEF HandedOver
  <2>4. p = q
    BY <1>3, <2>2, <2>3, PassesFacts
  <2> QED BY <1>3, <2>4
<1>4. Unshared(data, modified, removed, truncated)
  BY <1>2, <1>3 DEF Unshared
<1>5. Sourced(index, data, truncated)
  <2>1. ASSUME NEW sk \in SK, index[sk] # <<>> PROVE \E q \in PK : sk \in ToSet(KeysOf(data, q))
    <3>1. index[sk] \in Seq(PK) /\ ToSet(index[sk]) = Holders(data, sk)
      BY IndexIsReadable DEF Readable
    <3>2. PICK q : q \in ToSet(index[sk])
      <4>1. index[sk][1] \in ToSet(index[sk])
        <5> DEFINE list == index[sk]
        <5>1. list \in Seq(PK) /\ list # <<>>
          BY <2>1, <3>1
        <5> HIDE DEF list
        <5>2. 1 \in DOMAIN list
          BY <5>1
        <5> QED BY <5>2 DEF ToSet, list
      <4> QED BY <4>1
    <3>3. q \in PK /\ q \in DOMAIN data /\ sk \in ToSet(data[q])
      BY <1>1, <3>1, <3>2, StoreFacts DEF Holders
    <3> QED BY <3>3 DEF KeysOf
  <2> QED BY <2>1 DEF Sourced
<1> QED BY <1>4, <1>5

LEMMA PassedIsApplied ==
    ASSUME IInv, unique, Unshared(data, modified, removed, truncated), Sourced(index, data, truncated),
           NEW gone \in Orders(removed), NEW puts \in Orders(DOMAIN modified)
    PROVE  Applied(gone, puts).ok
<1> DEFINE u == unique
           N == DOMAIN modified
           S == ToSet(gone)
<1>1. /\ u \in BOOLEAN /\ multi \in BOOLEAN /\ truncated \in BOOLEAN
      /\ data \in FiniteStores /\ data \in Stores /\ modified \in Stores /\ IsFiniteSet(N)
      /\ removed \in SUBSET PK /\ IsFiniteSet(removed) /\ index \in TablesOfKind
  BY DEF IInv, StateOK, TxOK, FiniteStores
<1>2. kind \in {"memory", "leveldb", "lmdb", "indexeddb"}
  BY IndicesAssumption DEF IInv, StateOK
<1>3. gone \in Seq(PK) /\ S = removed /\ IsInjective(gone)
  <2>1. gone \in Seq(removed) /\ S = removed /\ IsInjective(gone)
    BY <1>1, OrdersFacts
  <2> QED BY <1>1, <2>1
<1>4. puts \in Seq(N) /\ IsInjective(puts)
  BY <1>1, OrdersFacts
<1>5. Unshared(data, modified, S, truncated) /\ Sourced(index, data, truncated)
  BY <1>3
<1>6. kind # "indexeddb" => index \in Tables(u)
  BY <1>1 DEF TablesOfKind
<1>7. /\ kind = "memory" => Applied(gone, puts) = MemoryApply(index, data, modified, gone, puts, truncated, u, multi)
      /\ kind = "leveldb" => Applied(gone, puts) = LevelApply(index, data, modified, gone, puts, truncated, u, multi)
      /\ kind = "lmdb" => Applied(gone, puts) = LmdbApply(index, data, modified, gone, puts, truncated, u, multi)
      /\ kind = "indexeddb" => Applied(gone, puts) = IdbApply(data, modified, gone, puts, truncated, u)
  BY DEF Applied
<1>8. u
  OBVIOUS
<1> HIDE DEF u, N, S
<1>9. CASE kind = "memory"
  <2>1. u => MemoryApply(index, data, modified, gone, puts, truncated, u, multi).ok
    BY <1>1, <1>3, <1>4, <1>5, <1>6, <1>9, MemoryAdmits DEF N, S
  <2> QED BY <1>7, <1>8, <1>9, <2>1
<1>10. CASE kind = "leveldb"
  <2>1. u => LevelApply(index, data, modified, gone, puts, truncated, u, multi).ok
    BY <1>1, <1>3, <1>4, <1>5, <1>6, <1>10, LevelAdmits DEF N, S
  <2> QED BY <1>7, <1>8, <1>10, <2>1
<1>11. CASE kind = "lmdb"
  <2>1. u => LmdbApply(index, data, modified, gone, puts, truncated, u, multi).ok
    BY <1>1, <1>3, <1>4, <1>5, <1>6, <1>11, LmdbAdmits DEF N, S
  <2> QED BY <1>7, <1>8, <1>11, <2>1
<1>12. CASE kind = "indexeddb"
  <2>1. u => IdbApply(data, modified, gone, puts, truncated, u).ok
    BY <1>1, <1>3, <1>4, <1>5, <1>12, IdbAdmits DEF N, S
  <2> QED BY <1>7, <1>8, <1>12, <2>1
<1> QED BY <1>2, <1>9, <1>10, <1>11, <1>12

\* A commit whose uniqueness checks pass, which has been reported as done by then, is not refused by
\* the index in any backend, whatever the order of its removals and puts; unless it hands a secondary key
\* over from one object that it puts to another, or an array holds a key twice.
THEOREM PassedCommitsAreApplied == Spec => []ChecksSuffice
<1>1. IInv => ChecksSuffice
  <2> SUFFICES ASSUME IInv, unique, suspect = {}, ~thrown, Passes, ~HandedOver, ~Repeated,
                      NEW gone \in Orders(removed), NEW puts \in Orders(DOMAIN modified)
               PROVE  Applied(gone, puts).ok
    BY DEF ChecksSuffice, HandedOver, Repeated
  <2>1. Unshared(data, modified, removed, truncated) /\ Sourced(index, data, truncated)
    BY PassedIsUnshared
  <2> QED BY <2>1, PassedIsApplied
<1> QED BY <1>1, Invariance, PTL

-----------------------------------------------------------------------------
(* What the transaction sees through the index. *)

\* Every object, stored or put, is one that the index is for.
ObjectsOK ==
    /\ \A pk \in DOMAIN data : data[pk] \in Objects
    /\ \A pk \in DOMAIN modified : modified[pk] \in Objects

LEMMA ObjectsStep == ObjectsOK /\ [Next]_vars => ObjectsOK'
<1> SUFFICES ASSUME ObjectsOK, [Next]_vars
             PROVE  ObjectsOK'
  OBVIOUS
<1>1. multi' = multi => Objects' = Objects
  BY DEF Objects
<1>2. CASE \E pk \in PK, sks \in Objects : Put(pk, sks) \/ PutSync(pk, sks)
  <2>1. PICK pk \in PK, sks \in Objects : PutSync(pk, sks)
    BY <1>2 DEF Put
  <2>2. multi' = multi /\ data' = data /\ modified' = Written(modified, pk, sks)
    BY <2>1 DEF PutSync, store
  <2>3. \A p \in DOMAIN Written(modified, pk, sks) : Written(modified, pk, sks)[p] \in Objects
    BY DEF Written, ObjectsOK
  <2> QED BY <1>1, <2>2, <2>3 DEF ObjectsOK
<1>3. CASE \E pk \in PK : RemoveSync(pk)
  BY <1>1, <1>3 DEF RemoveSync, store, ObjectsOK
<1>4. CASE TruncateSync
  BY <1>1, <1>4 DEF TruncateSync, store, ObjectsOK
<1>5. CASE Commit
  <2>1. multi' = multi /\ modified' = [p \in {} |-> <<>>] /\ (data' = NewData \/ data' = data)
    BY <1>5 DEF Commit, NoTx, Apply, store
  <2>2. \A p \in DOMAIN NewData : NewData[p] \in Objects
    <3> DEFINE base == Base(data, SetToSeq(removed), truncated)
    <3>1. \A p \in DOMAIN base : p \in DOMAIN data
      BY DEF Base
    <3> HIDE DEF base
    <3>2. NewData = [p \in DOMAIN base \cup DOMAIN modified |-> IF p \in DOMAIN modified THEN modified[p] ELSE data[p]]
      BY DEF NewData, base
    <3> QED BY <3>1, <3>2 DEF ObjectsOK
  <2> QED BY <1>1, <2>1, <2>2 DEF ObjectsOK
<1>6. CASE Abort
  BY <1>1, <1>6 DEF Abort, NoTx, store, ObjectsOK
<1>7. CASE UNCHANGED vars
  BY <1>1, <1>7 DEF vars, store, tx, ObjectsOK
<1> QED BY <1>2, <1>3, <1>4, <1>5, <1>6, <1>7 DEF Next

LEMMA ObjectsInvariance == Spec => []ObjectsOK
<1>1. Init => ObjectsOK
  BY DEF Init, ObjectsOK
<1> QED BY <1>1, ObjectsStep, PTL DEF Spec

\* The secondary keys that the objects of a store have.
KeysIn(d) == {sk \in SK : Holders(d, sk) # {}}

LEMMA KeysInFacts ==
    ASSUME NEW d \in FiniteStores
    PROVE  KeysIn(d) \in SUBSET SK /\ KeysIn(d) \in SUBSET Int /\ IsFiniteSet(KeysIn(d))
<1> DEFINE K == {ToSet(d[pk]) : pk \in DOMAIN d}
<1>1. d \in Stores /\ IsFiniteSet(DOMAIN d)
  BY DEF FiniteStores
<1>2. IsFiniteSet(K)
  <2> DEFINE f == [pk \in DOMAIN d |-> ToSet(d[pk])]
  <2>1. IsFiniteSet({f[pk] : pk \in DOMAIN d})
    BY <1>1, FiniteImage
  <2>2. {f[pk] : pk \in DOMAIN d} = K
    OBVIOUS
  <2> QED BY <2>1, <2>2
<1>3. \A s \in K : IsFiniteSet(s)
  <2> SUFFICES ASSUME NEW pk \in DOMAIN d
               PROVE  IsFiniteSet(ToSet(d[pk]))
    OBVIOUS
  <2>1. d[pk] \in Seq(SK)
    BY <1>1, StoreFacts
  <2>2. IsFiniteSet(1..Len(d[pk])) /\ DOMAIN d[pk] = 1..Len(d[pk])
    BY <2>1, FS_Interval
  <2>3. IsFiniteSet({d[pk][i] : i \in DOMAIN d[pk]})
    BY <2>2, FiniteImage
  <2> QED BY <2>3 DEF ToSet
<1>4. IsFiniteSet(UNION K)
  BY <1>2, <1>3, FS_UNION
<1>5. KeysIn(d) \subseteq UNION K
  BY DEF KeysIn, Holders
<1>6. IsFiniteSet(KeysIn(d))
  BY <1>4, <1>5, FS_Subset
<1> QED BY <1>6, KeysAreIntegers DEF KeysIn

\* The order of a direction; a key on the far side of a range; and one that a cursor may start from.
Nearer(k, l, asc) == IF asc THEN k < l ELSE k > l
PastRange(k, r, asc) == k \in SK /\ ~Includes(r, k) /\ \A m \in SK : Includes(r, m) => Nearer(m, k, asc)
Starting(r, k, asc) == IF asc THEN AboveLower(r, k) ELSE BelowUpper(r, k)

\* Where the in-memory cursor leads among the keys S: to the first of the range; else to none, or past it.
Leads(i, ks, S, r, asc) ==
    IF \E k \in S : Includes(r, k)
    THEN i # 0 /\ FirstOf({k \in S : Includes(r, k)}, ks[i], asc)
    ELSE i # 0 => ks[i] \in S /\ PastRange(ks[i], r, asc) /\ Starting(r, ks[i], asc)

LEMMA CursorLeads ==
    ASSUME NEW S \in SUBSET SK, IsFiniteSet(S), NEW r \in AllRanges, NEW asc \in BOOLEAN
    PROVE  Leads(MemoryStart(Ascending(S), r, asc), Ascending(S), S, r, asc)
<1> DEFINE ks == Ascending(S)
           i == MemoryStart(ks, r, asc)
           n == Len(ks)
           up == {j \in 1..n : AboveLower(r, ks[j])}
           down == {j \in 1..n : BelowUpper(r, ks[j])}
<1>1. SK \in SUBSET Int /\ S \in SUBSET Int /\ NoKey \notin Int
  BY IndicesAssumption
<1>2. /\ ks \in Seq(S) /\ DOMAIN ks = 1..n /\ n \in Nat
      /\ \A j, l \in 1..n : j < l <=> ks[j] < ks[l]
      /\ \A k \in S : \E j \in 1..n : ks[j] = k
  BY <1>1, AscendingFacts
<1>3. ProperRange(r)
  BY <1>1, RangesAreProper DEF AllRanges
<1> HIDE DEF ks, n
<1>12. MemoryStart(ks, r, TRUE) = IF up # {} THEN Min(up) ELSE 0
  BY DEF MemoryStart, SelectInSeq, n
<1>13. MemoryStart(ks, r, FALSE) = IF down # {} THEN Max(down) ELSE 0
  BY DEF MemoryStart, SelectLastInSeq, n
<1>4. asc => i = IF up # {} THEN Min(up) ELSE 0
  <2> HIDE DEF up
  <2> QED BY <1>12
<1>6. ~asc => i = IF down # {} THEN Max(down) ELSE 0
  <2> HIDE DEF down
  <2>1. ~asc => asc = FALSE
    OBVIOUS
  <2> QED BY <1>13, <2>1
<1> HIDE DEF i
<1>5. \A j \in 1..n : ks[j] \in S /\ ks[j] \in SK /\ ks[j] \in Int
  <2>1. ks \in Seq(S) /\ n = Len(ks)
    BY <1>2 DEF n
  <2>2. \A j \in 1..n : ks[j] \in S
    BY <2>1
  <2> QED BY <1>1, <2>2
<1>8. asc /\ up # {} => i \in 1..n /\ AboveLower(r, ks[i]) /\ \A j \in 1..n : AboveLower(r, ks[j]) => i <= j
  <2>1. up # {} => Min(up) \in up /\ \A j \in up : Min(up) <= j
    BY <1>2, FirstPosition
  <2> QED BY <1>4, <2>1
<1>9. ~asc /\ down # {} => i \in 1..n /\ BelowUpper(r, ks[i]) /\ \A j \in 1..n : BelowUpper(r, ks[j]) => i >= j
  <2>1. down # {} => Max(down) \in down /\ \A j \in down : Max(down) >= j
    BY <1>2, GreatestPosition
  <2> QED BY <1>6, <2>1
<1>10. CASE \E k \in S : Includes(r, k)
  <2>1. PICK p \in 1..n : Includes(r, ks[p])
    BY <1>2, <1>10
  <2>2. up # {} /\ down # {}
    BY <2>1 DEF Includes
  <2>3. i \in 1..n /\ Includes(r, ks[i])
    <3>1. CASE asc
      <4>1. i \in 1..n /\ AboveLower(r, ks[i]) /\ i <= p
        BY <1>8, <2>1, <2>2, <3>1 DEF Includes
      <4>2. ks[i] <= ks[p]
        BY <1>2, <1>5, <4>1
      <4>3. BelowUpper(r, ks[i])
        BY <1>3, <1>5, <2>1, <4>1, <4>2, RangeFacts DEF Includes
      <4> QED BY <4>1, <4>3 DEF Includes
    <3>2. CASE ~asc
      <4>1. i \in 1..n /\ BelowUpper(r, ks[i]) /\ i >= p
        BY <1>9, <2>1, <2>2, <3>2 DEF Includes
      <4>2. ks[p] <= ks[i]
        BY <1>2, <1>5, <4>1
      <4>3. AboveLower(r, ks[i])
        BY <1>3, <1>5, <2>1, <4>1, <4>2, RangeFacts DEF Includes
      <4> QED BY <4>1, <4>3 DEF Includes
    <3> QED BY <3>1, <3>2
  <2>4. ASSUME NEW k \in S, Includes(r, k) PROVE IF asc THEN ks[i] <= k ELSE ks[i] >= k
    <3>1. PICK j \in 1..n : ks[j] = k
      BY <1>2
    <3>2. IF asc THEN i <= j ELSE i >= j
      BY <1>8, <1>9, <2>2, <2>4, <3>1 DEF Includes
    <3> QED BY <1>2, <1>5, <2>3, <3>1, <3>2
  <2>5. i # 0
    BY <2>3
  <2>6. FirstOf({k \in S : Includes(r, k)}, ks[i], asc)
    BY <1>5, <2>3, <2>4 DEF FirstOf
  <2> QED BY <1>10, <2>5, <2>6 DEF Leads, i, ks
<1>11. CASE ~\E k \in S : Includes(r, k)
  <2> SUFFICES ASSUME i # 0
               PROVE  ks[i] \in S /\ PastRange(ks[i], r, asc) /\ Starting(r, ks[i], asc)
    BY <1>11 DEF Leads, i, ks
  <2>1. i \in 1..n /\ Starting(r, ks[i], asc)
    <3> HIDE DEF up, down
    <3> QED BY <1>4, <1>6, <1>8, <1>9 DEF Starting
  <2>2. ks[i] \in S /\ ks[i] \in SK /\ ks[i] \in Int /\ ~Includes(r, ks[i])
    BY <1>5, <1>11, <2>1
  <2> DEFINE e == ks[i]
  <2>3. e \in SK /\ e \in Int /\ ~Includes(r, e) /\ Starting(r, e, asc)
    BY <2>1, <2>2
  <2> HIDE DEF e
  <2>4. ASSUME NEW m \in SK, Includes(r, m) PROVE Nearer(m, e, asc)
    <3>1. m \in Int
      BY <1>1
    <3>2. CASE asc
      <4>1. ~BelowUpper(r, e)
        BY <2>3, <3>2 DEF Includes, Starting
      <4>2. ~(e <= m)
        BY <1>3, <2>3, <2>4, <3>1, <4>1, RangeFacts DEF Includes
      <4> QED BY <2>3, <3>1, <3>2, <4>2 DEF Nearer
    <3>3. CASE ~asc
      <4>1. ~AboveLower(r, e)
        BY <2>3, <3>3 DEF Includes, Starting
      <4>2. ~(m <= e)
        BY <1>3, <2>3, <2>4, <3>1, <4>1, RangeFacts DEF Includes
      <4> QED BY <2>3, <3>1, <3>3, <4>2 DEF Nearer
    <3> QED BY <3>2, <3>3
  <2>5. PastRange(e, r, asc)
    BY <2>3, <2>4 DEF PastRange
  <2> QED BY <2>1, <2>2, <2>5 DEF e
<1> QED BY <1>10, <1>11

\* The members that are picked at some positions, and those within a limit.
LEMMA PickedFacts ==
    ASSUME NEW S, NEW s \in Seq(S), NEW P \in SUBSET DOMAIN s, NEW T, \A i \in P : s[i] \in T
    PROVE  PickedAt(s, P) \in Seq(T)
<1> DEFINE at == Ascending(P)
           t == [i \in DOMAIN at |-> s[at[i]]]
<1>1. DOMAIN s = 1..Len(s) /\ Len(s) \in Nat
  OBVIOUS
<1>2. P \in SUBSET Int /\ IsFiniteSet(P)
  <2>1. IsFiniteSet(1..Len(s)) /\ P \subseteq 1..Len(s)
    BY <1>1, FS_Interval
  <2> QED BY <2>1, FS_Subset
<1>3. at \in Seq(P)
  BY <1>2, AscendingFacts
<1> HIDE DEF at
<1>4. DOMAIN at = 1..Len(at) /\ Len(at) \in Nat /\ \A i \in 1..Len(at) : at[i] \in P
  BY <1>3
<1>5. t \in [1..Len(at) -> T]
  BY <1>4
<1>6. t \in Seq(T)
  BY <1>4, <1>5, SeqDef
<1> QED BY <1>6 DEF PickedAt, at

LEMMA OnceFacts ==
    ASSUME NEW S, NEW s \in Seq(S)
    PROVE  Once(s) \in Seq(S)
<1> DEFINE P == {i \in DOMAIN s : \A j \in 1..(i - 1) : s[j] # s[i]}
<1>1. P \in SUBSET DOMAIN s /\ \A i \in P : s[i] \in S
  OBVIOUS
<1>2. Once(s) = PickedAt(s, P)
  BY DEF Once
<1> HIDE DEF P
<1> QED BY <1>1, <1>2, PickedFacts

LEMMA LimitFacts ==
    ASSUME NEW S, NEW s \in Seq(S), NEW limit \in Nat
    PROVE  Limited(s, limit) \in Seq(S) /\ Len(Limited(s, limit)) <= limit
<1>1. Len(s) \in Nat /\ DOMAIN s = 1..Len(s) /\ \A i \in 1..Len(s) : s[i] \in S
  OBVIOUS
<1>2. limit # NoLimit
  BY DEF NoLimit
<1>3. CASE limit >= Len(s)
  BY <1>1, <1>3 DEF Limited
<1>4. CASE ~(limit >= Len(s))
  <2>1. limit <= Len(s)
    BY <1>1, <1>4
  <2> DEFINE t == SubSeq(s, 1, limit)
  <2>2. t = [i \in 1..limit |-> s[i]]
    BY <1>1, <2>1
  <2>5. \A i \in 1..limit : s[i] \in S
    BY <1>1, <2>1
  <2>3. t \in [1..limit -> S]
    BY <2>2, <2>5
  <2> HIDE DEF t
  <2>4. t \in Seq(S) /\ Len(t) = limit
    BY <2>3, SeqDef
  <2> QED BY <1>2, <1>4, <2>4 DEF Limited, t
<1> QED BY <1>3, <1>4

\* A sequence has no more members than places.
LEMMA MembersFacts ==
    ASSUME NEW S, NEW s \in Seq(S)
    PROVE  ToSet(s) \in SUBSET S /\ IsFiniteSet(ToSet(s)) /\ Cardinality(ToSet(s)) <= Len(s)
<1> DEFINE n == Len(s)
<1>1. n \in Nat /\ DOMAIN s = 1..n /\ \A i \in 1..n : s[i] \in S
  OBVIOUS
<1>2. s \in Surjection(1..n, ToSet(s))
  <2>1. s \in [1..n -> ToSet(s)]
    <3>1. s = [i \in 1..n |-> s[i]]
      BY <1>1
    <3>2. \A i \in 1..n : s[i] \in ToSet(s)
      BY <1>1 DEF ToSet
    <3> QED BY <3>1, <3>2
  <2>2. \A x \in ToSet(s) : \E i \in 1..n : s[i] = x
    BY <1>1 DEF ToSet
  <2> QED BY <2>1, <2>2 DEF Surjection
<1>3. IsFiniteSet(1..n) /\ Cardinality(1..n) = n
  <2> HIDE DEF n
  <2>1. IsFiniteSet(1..n) /\ Cardinality(1..n) = (IF 1 > n THEN 0 ELSE n - 1 + 1)
    BY <1>1, FS_Interval
  <2> QED BY <1>1, <2>1
<1>4. IsFiniteSet(ToSet(s)) /\ Cardinality(ToSet(s)) <= n
  BY <1>2, <1>3, FS_Surjection
<1> QED BY <1>1, <1>4 DEF ToSet

\* What the transaction sees under a secondary key: its own objects, and the parent's that it has not touched.
Untruncated(keys) == IF truncated THEN {} ELSE Untouched(keys)

LEMMA SeenFacts ==
    ASSUME IInv, NEW sk \in SK
    PROVE  Seen(sk) = Untruncated(Holders(data, sk)) \cup Holders(modified, sk)
<1>1. DOMAIN data \in SUBSET PK /\ DOMAIN modified \in SUBSET PK /\ truncated \in BOOLEAN
  BY StoreFacts DEF IInv, StateOK, TxOK, FiniteStores
<1>2. ToSet(<<>>) = {}
  BY DEF ToSet
<1>3. Seen(sk) = {pk \in PK : sk \in ToSet(View(pk))}
  BY DEF Seen
<1>4. ASSUME NEW pk \in PK
      PROVE  sk \in ToSet(View(pk)) <=> pk \in Untruncated(Holders(data, sk)) \/ pk \in Holders(modified, sk)
  <2>1. CASE pk \in DOMAIN modified
    <3>1. View(pk) = modified[pk]
      BY <2>1 DEF View
    <3>2. pk \notin Untruncated(Holders(data, sk))
      BY <2>1 DEF Untruncated, Untouched
    <3> QED BY <2>1, <3>1, <3>2 DEF Holders
  <2>2. CASE pk \notin DOMAIN modified
    <3>1. pk \notin Holders(modified, sk)
      BY <2>2 DEF Holders
    <3>2. CASE truncated \/ pk \in removed
      <4>1. View(pk) = <<>>
        BY <2>2, <3>2 DEF View
      <4>2. pk \notin Untruncated(Holders(data, sk))
        BY <3>2 DEF Untruncated, Untouched
      <4> QED BY <1>2, <3>1, <4>1, <4>2
    <3>3. CASE ~(truncated \/ pk \in removed)
      <4>1. View(pk) = KeysOf(data, pk)
        BY <2>2, <3>3 DEF View
      <4>2. pk \in Untruncated(Holders(data, sk)) <=> pk \in Holders(data, sk)
        BY <2>2, <3>3 DEF Untruncated, Untouched
      <4>3. sk \in ToSet(KeysOf(data, pk)) <=> pk \in Holders(data, sk)
        BY <1>2 DEF KeysOf, Holders
      <4> QED BY <3>1, <4>1, <4>2, <4>3
    <3> QED BY <3>2, <3>3
  <2> QED BY <2>1, <2>2
<1>5. Untruncated(Holders(data, sk)) \in SUBSET PK /\ Holders(modified, sk) \in SUBSET PK
  BY <1>1 DEF Untruncated, Untouched, Holders
<1> HIDE DEF Seen
<1> QED BY <1>3, <1>4, <1>5

\* All that it sees in a range, of the parent and of its own.
HeldBy(r) == UNION {Holders(data, sk) : sk \in Inside(r)}
OwnedBy(r) == UNION {Holders(modified, sk) : sk \in Inside(r)}
SeenIn(r) == UNION {Seen(sk) : sk \in Inside(r)}

LEMMA SeenInFacts ==
    ASSUME IInv, NEW r
    PROVE  /\ SeenIn(r) = Untruncated(HeldBy(r)) \cup OwnedBy(r)
           /\ SeenIn(r) = UNION {Seen(sk) : sk \in {k \in Inside(r) : Seen(k) # {}}}
<1>1. \A sk \in Inside(r) : Seen(sk) = Untruncated(Holders(data, sk)) \cup Holders(modified, sk)
  BY SeenFacts DEF Inside
<1>2. \A pk : pk \in Untruncated(HeldBy(r)) <=> \E sk \in Inside(r) : pk \in Untruncated(Holders(data, sk))
  BY DEF Untruncated, Untouched, HeldBy
<1>3. \A pk : pk \in OwnedBy(r) <=> \E sk \in Inside(r) : pk \in Holders(modified, sk)
  BY DEF OwnedBy
<1> HIDE DEF Seen, Inside, Untruncated, Holders
<1>4. \A pk : pk \in SeenIn(r) <=> pk \in Untruncated(HeldBy(r)) \/ pk \in OwnedBy(r)
  BY <1>1, <1>2, <1>3 DEF SeenIn
<1>5. SeenIn(r) = UNION {Seen(sk) : sk \in {k \in Inside(r) : Seen(k) # {}}}
  BY DEF SeenIn
<1> QED BY <1>4, <1>5

LEMMA ReadsOfRange ==
    ASSUME IInv, suspect = {}, ~thrown, NEW r \in AllRanges, ~LmdbAstray(r, TRUE)
    PROVE  /\ IndexStream(r, TRUE) \in Seq(HeldBy(r)) /\ IndexKeys(r) = HeldBy(r)
<1>1. Readable
  BY IndexIsReadable
<1>2. HeldBy(r) = UNION {Holders(data, sk) : sk \in HeldIn(r)}
  BY DEF HeldBy, HeldIn
<1> DEFINE rows == ListsOf(r, TRUE)
<1>3. IndexStream(r, TRUE) = rows /\ IndexKeys(r) = ToSet(rows)
  BY <1>1, StreamIsRight, KeysAreRight
<1>4. rows \in Seq(PK) /\ ToSet(rows) = HeldBy(r)
  BY <1>1, <1>2, ListsOfFacts
<1> HIDE DEF rows
<1>5. rows \in Seq(HeldBy(r))
  <2>1. DOMAIN rows = 1..Len(rows) /\ Len(rows) \in Nat /\ rows = [i \in 1..Len(rows) |-> rows[i]]
    BY <1>4
  <2>2. \A i \in 1..Len(rows) : rows[i] \in ToSet(rows)
    BY <2>1 DEF ToSet
  <2>3. rows \in [1..Len(rows) -> HeldBy(r)]
    BY <1>4, <2>1, <2>2
  <2> QED BY <2>1, <2>3, SeqDef
<1> QED BY <1>3, <1>4, <1>5

LEMMA OwnReadsOfRange ==
    ASSUME IInv, ~thrown, NEW r
    PROVE  /\ OwnIndexKeys(r) = OwnedBy(r)
           /\ [i \in DOMAIN TreeHeads |-> IF Includes(r, TreeHeads[i]) THEN tree[TreeHeads[i]] ELSE <<>>]
                 \in Seq(Seq(OwnedBy(r)))
           /\ TreeHeads = Ascending(KeysIn(modified))
<1>1. \A sk \in SK : ToSet(tree[sk]) = Holders(modified, sk)
  BY OwnIndexRight DEF OwnIndexMatches
<1>2. \A sk \in SK : tree[sk] \in Seq(PK)
  BY DEF IInv, TxOK, Tables, Entries, KeyLists
<1>3. OwnIndexKeys(r) = OwnedBy(r)
  BY <1>1 DEF OwnIndexKeys, OwnedBy, Inside
<1>4. \A sk \in SK : tree[sk] # <<>> <=> Holders(modified, sk) # {}
  <2> TAKE sk \in SK
  <2> DEFINE s == tree[sk]
  <2>1. s \in Seq(PK) /\ ToSet(s) = Holders(modified, sk)
    BY <1>1, <1>2
  <2> HIDE DEF s
  <2>2. DOMAIN s = 1..Len(s) /\ Len(s) \in Nat /\ (s = <<>> <=> Len(s) = 0)
    BY <2>1
  <2>3. Len(s) = 0 => ToSet(s) = {}
    BY <2>2 DEF ToSet
  <2>4. Len(s) # 0 => 1 \in DOMAIN s
    BY <2>2
  <2>5. Len(s) # 0 => ToSet(s) # {}
    BY <2>4 DEF ToSet
  <2> QED BY <2>1, <2>2, <2>3, <2>5 DEF s
<1>5. TreeHeads = Ascending(KeysIn(modified))
  BY <1>4 DEF TreeHeads, KeysIn
<1>6. TreeHeads \in Seq(KeysIn(modified))
  <2>1. modified \in FiniteStores
    BY DEF IInv, TxOK
  <2>2. KeysIn(modified) \in SUBSET Int /\ IsFiniteSet(KeysIn(modified))
    BY <2>1, KeysInFacts
  <2> QED BY <1>5, <2>2, AscendingFacts
<1> DEFINE n == Len(TreeHeads)
           own == [i \in DOMAIN TreeHeads |-> IF Includes(r, TreeHeads[i]) THEN tree[TreeHeads[i]] ELSE <<>>]
<1> HIDE DEF TreeHeads
<1>7. n \in Nat /\ DOMAIN TreeHeads = 1..n /\ \A i \in 1..n : TreeHeads[i] \in SK
  BY <1>6 DEF KeysIn
<1> HIDE DEF n
<1>8. ASSUME NEW sk \in SK, Includes(r, sk) PROVE tree[sk] \in Seq(OwnedBy(r))
  <2> DEFINE s == tree[sk]
  <2>1. s \in Seq(PK) /\ ToSet(s) = Holders(modified, sk)
    BY <1>1, <1>2
  <2>2. Holders(modified, sk) \in SUBSET OwnedBy(r)
    BY <1>8 DEF OwnedBy, Inside
  <2> HIDE DEF s
  <2>3. DOMAIN s = 1..Len(s) /\ Len(s) \in Nat /\ s = [i \in 1..Len(s) |-> s[i]]
    BY <2>1
  <2>4. \A i \in 1..Len(s) : s[i] \in ToSet(s)
    BY <2>3 DEF ToSet
  <2>5. s \in [1..Len(s) -> OwnedBy(r)]
    BY <2>1, <2>2, <2>3, <2>4
  <2>6. s \in Seq(OwnedBy(r))
    BY <2>3, <2>5, SeqDef
  <2> QED BY <2>6 DEF s
<1>9. <<>> \in Seq(OwnedBy(r))
  OBVIOUS
<1>10. own \in [1..n -> Seq(OwnedBy(r))]
  BY <1>7, <1>8, <1>9
<1>11. own \in Seq(Seq(OwnedBy(r)))
  BY <1>7, <1>10, SeqDef
<1> QED BY <1>3, <1>5, <1>11

\* keys of the transaction's index, without and with a limit.
LEMMA TxIndexKeysAreRight ==
    ASSUME IInv, suspect = {}, ~thrown, NEW r \in AllRanges, truncated \/ ~LmdbAstray(r, TRUE)
    PROVE  TxIndexKeys(r) = SeenIn(r)
<1>1. SeenIn(r) = Untruncated(HeldBy(r)) \cup OwnedBy(r) /\ OwnIndexKeys(r) = OwnedBy(r)
  BY SeenInFacts, OwnReadsOfRange
<1>2. Untouched(IF truncated THEN {} ELSE IndexKeys(r)) = Untruncated(HeldBy(r))
  <2>1. CASE truncated
    BY <2>1 DEF Untruncated, Untouched
  <2>2. CASE ~truncated
    BY <2>2, ReadsOfRange DEF Untruncated
  <2> QED BY <2>1, <2>2
<1> QED BY <1>1, <1>2 DEF TxIndexKeys

LEMMA LimitedKeysAreRight ==
    ASSUME IInv, suspect = {}, ~thrown, NEW r \in AllRanges, truncated \/ ~LmdbAstray(r, TRUE), NEW limit \in Nat
    PROVE  /\ LimitedTxIndexKeys(r, limit) \subseteq SeenIn(r)
           /\ Cardinality(LimitedTxIndexKeys(r, limit)) <= limit
<1> DEFINE theirs == IF truncated THEN <<>> ELSE LimitedIndexKeys(r, limit)
           own    == [i \in DOMAIN TreeHeads |-> IF Includes(r, TreeHeads[i]) THEN tree[TreeHeads[i]] ELSE <<>>]
           P      == {i \in DOMAIN theirs : Untouched({theirs[i]}) # {}}
           kept   == PickedAt(theirs, P)
           mine   == Limited(Once(FlattenSeq(own)), limit)
           A      == SeenIn(r)
<1>1. A = Untruncated(HeldBy(r)) \cup OwnedBy(r)
  BY SeenInFacts
<1>2. theirs \in Seq(HeldBy(r))
  <2>1. CASE truncated
    BY <2>1
  <2>2. CASE ~truncated
    <3> DEFINE s == IndexStream(r, TRUE)
    <3>1. s \in Seq(HeldBy(r))
      BY <2>2, ReadsOfRange
    <3> HIDE DEF s
    <3>2. Once(s) \in Seq(HeldBy(r))
      BY <3>1, OnceFacts
    <3>3. Limited(s, limit) \in Seq(HeldBy(r)) /\ Limited(Once(s), limit) \in Seq(HeldBy(r))
      BY <3>1, <3>2, LimitFacts
    <3>4. theirs = Limited(s, limit) \/ theirs = Limited(Once(s), limit)
      BY <2>2 DEF LimitedIndexKeys, s
    <3> QED BY <3>3, <3>4
  <2> QED BY <2>1, <2>2
<1>3. truncated => theirs = <<>>
  OBVIOUS
<1> HIDE DEF theirs
<1>4. \A i \in P : theirs[i] \in A
  <2> TAKE i \in P
  <2>1. i \in DOMAIN theirs /\ Untouched({theirs[i]}) # {}
    OBVIOUS
  <2>2. ~truncated /\ theirs[i] \in HeldBy(r)
    BY <1>2, <1>3, <2>1
  <2> QED BY <1>1, <2>1, <2>2 DEF Untruncated, Untouched
<1>5. P \in SUBSET DOMAIN theirs
  OBVIOUS
<1> HIDE DEF P, A
<1>6. kept \in Seq(A)
  BY <1>2, <1>4, <1>5, PickedFacts
<1>7. mine \in Seq(A)
  <2> DEFINE all == FlattenSeq(own)
             g == [x \in OwnedBy(r) |-> x]
  <2>1. own \in Seq(Seq(OwnedBy(r)))
    BY OwnReadsOfRange
  <2>2. g \in [OwnedBy(r) -> OwnedBy(r)]
    OBVIOUS
  <2> HIDE DEF own, g
  <2>3. all \in Seq(OwnedBy(r))
    BY <2>1, <2>2, FlattenMaps
  <2> HIDE DEF all
  <2>4. Limited(Once(all), limit) \in Seq(OwnedBy(r))
    BY <2>3, OnceFacts, LimitFacts
  <2>5. mine \in Seq(OwnedBy(r))
    BY <2>4 DEF all
  <2> HIDE DEF mine
  <2>6. mine \in [1..Len(mine) -> OwnedBy(r)] /\ Len(mine) \in Nat
    BY <2>5, SeqDef
  <2>7. mine \in [1..Len(mine) -> A]
    BY <1>1, <2>6 DEF A
  <2> QED BY <2>6, <2>7, SeqDef
<1> HIDE DEF kept, mine
<1> DEFINE got == Limited(Once(kept \o mine), limit)
<1>8. got \in Seq(A) /\ Len(got) <= limit /\ Len(got) \in Nat
  <2>1. kept \o mine \in Seq(A)
    BY <1>6, <1>7
  <2>2. Once(kept \o mine) \in Seq(A)
    BY <2>1, OnceFacts
  <2>3. got \in Seq(A) /\ Len(got) <= limit
    BY <2>2, LimitFacts
  <2> HIDE DEF got
  <2> QED BY <2>3
<1>9. LimitedTxIndexKeys(r, limit) = ToSet(got)
  BY DEF LimitedTxIndexKeys, kept, mine, P, theirs
<1> HIDE DEF got
<1>10. ToSet(got) \in SUBSET A /\ Cardinality(ToSet(got)) <= Len(got) /\ IsFiniteSet(ToSet(got))
  BY <1>8, MembersFacts
<1>11. Cardinality(ToSet(got)) \in Nat
  BY <1>10, FS_CardinalityType
<1> QED BY <1>8, <1>9, <1>10, <1>11 DEF A

-----------------------------------------------------------------------------
(* The extremes that the transaction sees. *)

\* An index of single keys that is as it should be.
Simple == IInv /\ ObjectsOK /\ suspect = {} /\ ~thrown /\ ~multi

LEMMA SimpleFacts ==
    ASSUME Simple
    PROVE  /\ Readable /\ data \in FiniteStores /\ modified \in FiniteStores /\ removed \in SUBSET PK
           /\ Held = KeysIn(data) /\ Held \in SUBSET SK /\ Held \in SUBSET Int /\ IsFiniteSet(Held)
           /\ SK \in SUBSET Int /\ NoKey \notin Int /\ NoKey \notin SK /\ NoKey \notin PK
           /\ \A pk \in DOMAIN data : data[pk] \in Single
           /\ \A pk \in DOMAIN modified : modified[pk] \in Single
<1>1. Readable
  BY IndexIsReadable DEF Simple
<1>2. data \in FiniteStores /\ modified \in FiniteStores /\ removed \in SUBSET PK
  BY DEF Simple, IInv, StateOK, TxOK
<1>3. Held = KeysIn(data)
  BY DEF Held, KeysIn
<1>4. KeysIn(data) \in SUBSET SK /\ KeysIn(data) \in SUBSET Int /\ IsFiniteSet(KeysIn(data))
  BY <1>2, KeysInFacts
<1>5. SK \in SUBSET Int /\ NoKey \notin Int /\ NoKey \notin SK /\ NoKey \notin PK
  <2>1. SK \in SUBSET Int /\ PK \in SUBSET Int /\ NoKey \notin Int
    BY KeysAreIntegers, IndicesAssumption
  <2> QED BY <2>1
<1>6. /\ \A pk \in DOMAIN data : data[pk] \in Single
      /\ \A pk \in DOMAIN modified : modified[pk] \in Single
  <2>1. ObjectsOK /\ Objects = Single
    BY DEF Simple, Objects
  <2> QED BY <2>1 DEF ObjectsOK
<1> QED BY <1>1, <1>2, <1>3, <1>4, <1>5, <1>6

\* The key of an object is that under which it is listed.
LEMMA OneKey ==
    ASSUME NEW d \in Stores, \A pk \in DOMAIN d : d[pk] \in Single, NEW k \in SK, NEW pk \in Holders(d, k)
    PROVE  d[pk][1] = k
<1>1. pk \in DOMAIN d /\ k \in ToSet(d[pk])
  BY DEF Holders
<1> DEFINE s == d[pk]
<1>2. s \in Seq(SK) /\ Len(s) <= 1 /\ k \in ToSet(s)
  BY <1>1, StoreFacts, IndicesAssumption
<1> HIDE DEF s
<1>3. \E i \in 1..Len(s) : s[i] = k
  BY <1>2 DEF ToSet
<1>4. Len(s) \in Nat
  BY <1>2
<1>5. s[1] = k
  BY <1>2, <1>3, <1>4
<1> QED BY <1>5 DEF s

LEMMA SampleFacts ==
    ASSUME Simple
    PROVE  /\ \A k \in Held : /\ Sampled(Holders(data, k)) = Holders(data, k) /\ Holders(data, k) # {}
                              /\ HeadOf(Holders(data, k)) = k
           /\ Sampled({}) = {} /\ Untouched({}) = {}
           /\ Sampled({NoKey}) = {} /\ Untouched({NoKey}) = {NoKey}
<1>1. /\ data \in Stores /\ modified \in Stores /\ DOMAIN data \in SUBSET PK /\ DOMAIN modified \in SUBSET PK
      /\ removed \in SUBSET PK /\ NoKey \notin PK
  BY SimpleFacts, StoreFacts DEF FiniteStores
<1>2. ASSUME NEW k \in Held
      PROVE  /\ Sampled(Holders(data, k)) = Holders(data, k) /\ Holders(data, k) # {}
             /\ HeadOf(Holders(data, k)) = k
  <2> DEFINE keys == Holders(data, k)
             pk == CHOOSE pk \in Sampled(keys) : TRUE
  <2>1. k \in SK /\ keys # {} /\ Sampled(keys) = keys
    BY DEF Held, Sampled, Holders
  <2>2. pk \in keys
    BY <2>1
  <2>3. HeadOf(keys) = data[pk][1]
    BY DEF HeadOf
  <2> HIDE DEF pk
  <2>4. data[pk][1] = k
    BY <1>1, <2>1, <2>2, OneKey, SimpleFacts
  <2> QED BY <2>1, <2>3, <2>4
<1> QED BY <1>1, <1>2 DEF Sampled, Untouched

\* What the extremes of the index are; past the range in memory, nothing, or in LevelDB undefined.
Finds(e, r, asc) ==
    IF HeldIn(r) # {} THEN \E k \in SK : FirstOf(HeldIn(r), k, asc) /\ e = Holders(data, k)
    ELSE \/ e = {} \/ (kind = "leveldb" /\ e = {NoKey})
         \/ \E k \in Held : PastRange(k, r, asc) /\ Starting(r, k, asc) /\ e = Holders(data, k)

LEMMA ExtremesFound ==
    ASSUME Simple, NEW r \in AllRanges, NEW asc \in BOOLEAN, ~LmdbAstray(r, asc)
    PROVE  Finds(IndexExtremes(r, asc), r, asc)
<1> DEFINE e == IndexExtremes(r, asc)
<1>1. Readable
  BY SimpleFacts
<1>2. CASE HeldIn(r) # {}
  <2> DEFINE k == HeldKeys(r, asc)[1]
  <2>1. HeldKeys(r, asc) # <<>> /\ k \in SK /\ FirstOf(HeldIn(r), k, asc)
    BY <1>1, <1>2, FirstHeldKey
  <2>2. e = Holders(data, k)
    BY <1>1, <2>1, ExtremesAreRight
  <2> HIDE DEF k
  <2> QED BY <1>2, <2>1, <2>2 DEF Finds
<1>3. CASE HeldIn(r) = {}
  <2>1. HeldKeys(r, asc) = <<>>
    BY <1>1, <1>3, FirstHeldKey
  <2>2. CASE kind = "memory"
    <3> DEFINE i == MemoryStart(Heads, r, asc)
    <3>1. e = IF i = 0 THEN {} ELSE ToSet(index[Heads[i]])
      BY <2>2 DEF IndexExtremes, MemoryExtremes
    <3>2. Held = {sk \in SK : index[sk] # <<>>}
      BY <1>1, HeadsFacts
    <3>3. Heads = Ascending(Held)
      BY <3>2 DEF Heads
    <3>4. ~\E k \in Held : Includes(r, k)
      BY <1>1, <1>3, HeldKeysFacts
    <3>5. Leads(i, Heads, Held, r, asc)
      BY <3>3, SimpleFacts, CursorLeads
    <3> HIDE DEF i
    <3>6. i # 0 => Heads[i] \in Held /\ PastRange(Heads[i], r, asc) /\ Starting(r, Heads[i], asc)
      BY <3>4, <3>5 DEF Leads
    <3>7. i # 0 => e = Holders(data, Heads[i])
      BY <1>1, <3>1, <3>6 DEF Readable, Held
    <3> QED BY <1>3, <3>1, <3>6, <3>7 DEF Finds
  <2>3. CASE kind = "leveldb"
    <3> DEFINE s == HeadScan(r, asc)
    <3>1. s \in Seq(DOMAIN Heads) /\ HeldKeys(r, asc) = [i \in DOMAIN s |-> Heads[s[i]]]
      BY <1>1, HeadScanFacts
    <3>2. LevelScan(Heads, r, asc) = s
      BY <1>1, ScansOfIndex
    <3> HIDE DEF s
    <3>3. DOMAIN s = DOMAIN <<>>
      BY <2>1, <3>1
    <3>4. DOMAIN <<>> = {}
      OBVIOUS
    <3>5. DOMAIN s = 1..Len(s) /\ Len(s) \in Nat
      BY <3>1
    <3>6. Len(s) = 0
      BY <3>3, <3>4, <3>5
    <3>7. s = <<>>
      BY <3>1, <3>6
    <3>8. e = {NoKey}
      BY <2>3, <3>2, <3>7 DEF IndexExtremes, LevelExtremes
    <3> QED BY <1>3, <2>3, <3>8 DEF Finds
  <2>4. CASE kind = "indexeddb"
    <3>1. e = SameHead(Visits(RowScan(r, asc)))
      BY <1>1, <2>4, ScansOfIndex DEF IndexExtremes, IdbExtremes
    <3>2. e = {}
      BY <1>1, <2>1, <2>4, <3>1, VisitsExtremes
    <3> QED BY <1>3, <3>2 DEF Finds
  <2>5. CASE kind = "lmdb"
    <3>1. e = {}
      BY <1>1, <2>1, <2>5, ExtremesAreRight
    <3> QED BY <1>3, <3>1 DEF Finds
  <2> QED BY <1>1, <2>2, <2>3, <2>4, <2>5, KindsFacts
<1> QED BY <1>2, <1>3

\* The keys beyond one, and what is found there.
Beyond(last, asc) == IF asc THEN LowerBound(last, TRUE) ELSE UpperBound(last, TRUE)
HeldBeyond(last, asc) == {k \in Held : Nearer(last, k, asc)}
Follow(e, S, asc) ==
    IF S # {} THEN \E k \in S : FirstOf(S, k, asc) /\ e = Holders(data, k)
    ELSE e = {} \/ (kind = "leveldb" /\ e = {NoKey})

LEMMA FurtherFacts ==
    ASSUME Simple, NEW last \in SK, NEW asc \in BOOLEAN
    PROVE  /\ Further(last, asc) = {} \/ Follow(Further(last, asc), HeldBeyond(last, asc), asc)
           /\ (kind = "lmdb" => last \in Held /\ \A sk \in SK : Len(index[sk]) < 2) =>
                Follow(Further(last, asc), HeldBeyond(last, asc), asc)
<1> DEFINE r == Beyond(last, asc)
           e == Further(last, asc)
           S == HeldBeyond(last, asc)
<1>1. e = IndexExtremes(r, asc)
  BY DEF Further, Beyond
<1>2. Readable /\ SK \in SUBSET Int /\ Held \in SUBSET Int /\ NoKey \notin Int /\ last \in Int
  BY SimpleFacts
<1>3. r \in AllRanges
  BY <1>2 DEF AllRanges, Ranges, Beyond, LowerBound, UpperBound, Bound
<1>4. \A k \in Int : /\ Includes(r, k) <=> Nearer(last, k, asc)
                     /\ Starting(r, k, asc) => Includes(r, k)
  BY <1>2 DEF Starting, Nearer, Includes, AboveLower, BelowUpper, Beyond, LowerBound, UpperBound, Bound
<1>5. HeldIn(r) = S
  <2>1. HeldIn(r) = {k \in Held : Includes(r, k)}
    BY <1>2, HeldKeysFacts
  <2> QED BY <1>2, <1>4, <2>1 DEF HeldBeyond
<1>6. LmdbAstray(r, asc) => e = {}
  BY <1>1, <1>2, <1>3, ExtremesAreRight
<1>7. ~LmdbAstray(r, asc) => Follow(e, S, asc)
  <2> SUFFICES ASSUME ~LmdbAstray(r, asc)
               PROVE  Follow(e, S, asc)
    OBVIOUS
  <2>1. Finds(e, r, asc)
    BY <1>1, <1>3, ExtremesFound
  <2> HIDE DEF e, r, S
  <2>2. CASE S # {}
    <3>1. PICK k \in SK : FirstOf(S, k, asc) /\ e = Holders(data, k)
      BY <1>5, <2>1, <2>2 DEF Finds
    <3> QED BY <2>2, <3>1 DEF Follow, FirstOf
  <2>3. CASE S = {}
    <3>1. \A k \in Held : ~(PastRange(k, r, asc) /\ Starting(r, k, asc))
      BY <1>2, <1>4 DEF PastRange
    <3> QED BY <1>5, <2>1, <2>3, <3>1 DEF Finds, Follow
  <2> QED BY <2>2, <2>3
<1>8. ASSUME kind = "lmdb" => last \in Held /\ \A sk \in SK : Len(index[sk]) < 2
      PROVE  ~LmdbAstray(r, asc)
  <2> SUFFICES ASSUME kind = "lmdb"
               PROVE  ~LmdbAstray(r, asc)
    BY DEF LmdbAstray
  <2>1. last \in Held /\ \A sk \in SK : Len(index[sk]) < 2 /\ Len(index[sk]) \in Nat
    BY <1>2, <1>8 DEF Readable
  <2>2. CASE asc
    <3>1. r.lower = last
      BY <2>2 DEF Beyond, LowerBound, Bound
    <3>2. ~(Len(index[r.lower]) > 1)
      BY <2>1, <3>1
    <3> QED BY <2>2, <3>2 DEF LmdbAstray
  <2>3. CASE ~asc
    <3>1. r.upper = last /\ r.upperOpen
      BY <2>3 DEF Beyond, UpperBound, Bound
    <3> DEFINE next == {sk \in ToSet(Heads) : sk >= r.upper}
    <3>2. next # {}
      <4>1. last \in ToSet(Heads) /\ last >= r.upper
        BY <1>2, <2>1, <3>1, HeadsFacts
      <4> QED BY <4>1
    <3>3. Extreme(next, TRUE) \in SK
      <4>1. r.upper \in Int /\ kind # "memory"
        BY <1>2, <3>1
      <4> HIDE DEF r
      <4> QED BY <1>2, <3>2, <4>1, NextHead
    <3> HIDE DEF next, r
    <3>4. ~(Len(index[Extreme(next, TRUE)]) > 1)
      <4>1. \A k \in SK : ~(Len(index[k]) > 1)
        BY <2>1
      <4> QED BY <3>3, <4>1, Zenon
    <3> USE DEF next
    <3>5. LmdbAstray(r, asc) <=>
              /\ kind = "lmdb" /\ r.upper # NoKey
              /\ IF r.upperOpen
                 THEN IF next = {} THEN IncludesNull(r, TRUE) ELSE Len(index[Extreme(next, TRUE)]) > 1
                 ELSE index[r.upper] = <<>>
      BY <2>3 DEF LmdbAstray
    <3> HIDE DEF next
    <3> QED BY <3>1, <3>2, <3>4, <3>5
  <2> QED BY <2>2, <2>3
<1> HIDE DEF e, S, r
<1>9. e = {} \/ Follow(e, S, asc)
  BY <1>6, <1>7
<1>10. (kind = "lmdb" => last \in Held /\ \A sk \in SK : Len(index[sk]) < 2) => Follow(e, S, asc)
  BY <1>7, <1>8
<1> QED BY <1>9, <1>10 DEF e, S

-----------------------------------------------------------------------------
(* Past the objects that the transaction has touched. *)

LEMMA NearerFacts ==
    ASSUME NEW asc \in BOOLEAN
    PROVE  /\ \A k, l, m \in Int : Nearer(k, l, asc) /\ Nearer(l, m, asc) => Nearer(k, m, asc)
           /\ \A k, l \in Int : Nearer(k, l, asc) => ~Nearer(l, k, asc) /\ k # l
           /\ \A k, l \in Int : k = l \/ Nearer(k, l, asc) \/ Nearer(l, k, asc)
           /\ \A k, l \in Int : (IF asc THEN k <= l ELSE k >= l) <=> k = l \/ Nearer(k, l, asc)
  BY DEF Nearer

\* Where the search goes from a key, whether it stops there, and with what.
NextFrom(last, asc) == IF Sampled(Further(last, asc)) = {} THEN last ELSE HeadOf(Further(last, asc))
Stops(last, r, asc) ==
    \/ LeftRange(r, NextFrom(last, asc))
    \/ Sampled(Further(last, asc)) = {} \/ Untouched(Further(last, asc)) # {}
StoppedAt(last, r, asc) ==
    [keys |-> IF LeftRange(r, NextFrom(last, asc)) THEN {} ELSE Untouched(Further(last, asc)),
     head |-> NextFrom(last, asc)]
Passing(f, r, asc) ==
    f = [last \in SK |-> IF Stops(last, r, asc) THEN StoppedAt(last, r, asc) ELSE f[NextFrom(last, asc)]]

\* So that no search goes on for ever.
LEMMA NextFromFacts ==
    ASSUME Simple, NEW last \in SK, NEW asc \in BOOLEAN
    PROVE  /\ NextFrom(last, asc) \in SK /\ Further(last, asc) \in SUBSET (PK \cup {NoKey})
           /\ Sampled(Further(last, asc)) # {} => NextFrom(last, asc) \in HeldBeyond(last, asc)
<1> DEFINE e == Further(last, asc)
           S == HeldBeyond(last, asc)
<1>1. e = {} \/ e = {NoKey} \/ \E k \in S : e = Holders(data, k)
  <2>1. e = {} \/ Follow(e, S, asc)
    BY FurtherFacts
  <2> HIDE DEF e, S
  <2> QED BY <2>1 DEF Follow
<1>2. Sampled({}) = {} /\ Sampled({NoKey}) = {}
      /\ \A k \in S : Sampled(Holders(data, k)) # {} /\ HeadOf(Holders(data, k)) = k
  BY SampleFacts DEF HeldBeyond
<1>3. S \in SUBSET SK /\ data \in Stores /\ DOMAIN data \in SUBSET PK
  BY SimpleFacts, StoreFacts DEF HeldBeyond, FiniteStores
<1>4. NextFrom(last, asc) = IF Sampled(e) = {} THEN last ELSE HeadOf(e)
  BY DEF NextFrom
<1> HIDE DEF e, S
<1>5. e \in SUBSET (PK \cup {NoKey})
  BY <1>1, <1>3 DEF Holders
<1>6. Sampled(e) # {} => NextFrom(last, asc) \in S
  BY <1>1, <1>2, <1>4
<1>7. NextFrom(last, asc) \in SK
  BY <1>3, <1>4, <1>6
<1> QED BY <1>5, <1>6, <1>7 DEF e, S

Points == SK \cup {NoKey}
Onward(r, asc) == [l \in Points |-> IF l = NoKey \/ Stops(l, r, asc) THEN NoKey ELSE NextFrom(l, asc)]
Depth(asc) == [l \in Points |-> IF l = NoKey THEN 0 ELSE Cardinality(HeldBeyond(l, asc)) + 1]

LEMMA PassEnds ==
    ASSUME Simple, NEW r, NEW asc \in BOOLEAN
    PROVE  Chained(Points, NoKey, Onward(r, asc), Depth(asc))
<1> DEFINE D == Depth(asc)
           B == Onward(r, asc)
           rest(l) == HeldBeyond(l, asc)
<1>1. SK \in SUBSET Int /\ Held \in SUBSET SK /\ Held \in SUBSET Int /\ IsFiniteSet(Held) /\ NoKey \notin SK
  BY SimpleFacts
<1>2. ASSUME NEW l PROVE rest(l) \in SUBSET Held /\ IsFiniteSet(rest(l)) /\ Cardinality(rest(l)) \in Nat
  <2>1. rest(l) \in SUBSET Held
    BY DEF HeldBeyond
  <2> QED BY <1>1, <2>1, FS_Subset, FS_CardinalityType
<1>3. ASSUME NEW l \in SK, NEW m \in rest(l) PROVE Cardinality(rest(m)) < Cardinality(rest(l))
  <2>1. m \in Held /\ m \in Int /\ l \in Int /\ Nearer(l, m, asc) /\ ~Nearer(m, m, asc)
    BY <1>1, NearerFacts DEF HeldBeyond
  <2>2. rest(m) \in SUBSET rest(l) /\ m \notin rest(m)
    BY <1>1, <2>1, NearerFacts DEF HeldBeyond
  <2> HIDE DEF rest
  <2>3. Cardinality(rest(m)) <= Cardinality(rest(l)) /\ (Cardinality(rest(l)) = Cardinality(rest(m)) => rest(l) = rest(m))
    BY <1>2, <2>2, FS_Subset
  <2>4. Cardinality(rest(l)) # Cardinality(rest(m))
    BY <1>3, <2>2, <2>3
  <2> QED BY <1>2, <2>3, <2>4
<1>4. \A l \in Points : D[l] = IF l = NoKey THEN 0 ELSE Cardinality(rest(l)) + 1
  BY DEF Depth
<1>5. D \in [Points -> Nat]
  <2>1. D = [l \in Points |-> D[l]]
    BY DEF Depth
  <2> HIDE DEF D, rest
  <2>2. \A l \in Points : D[l] \in Nat
    BY <1>2, <1>4
  <2> QED BY <2>1, <2>2
<1>6. ASSUME NEW l \in Points \ {NoKey} PROVE B[l] \in Points /\ D[B[l]] < D[l]
  <2>1. l \in SK /\ NoKey \in Points
    BY DEF Points
  <2>2. B[l] = IF l = NoKey \/ Stops(l, r, asc) THEN NoKey ELSE NextFrom(l, asc)
    BY DEF Onward
  <2>3. NextFrom(l, asc) \in SK /\ (~Stops(l, r, asc) => NextFrom(l, asc) \in rest(l))
    BY <2>1, NextFromFacts DEF Stops
  <2> HIDE DEF B, D, rest
  <2>4. D[l] = Cardinality(rest(l)) + 1 /\ D[NoKey] = 0 /\ Cardinality(rest(l)) \in Nat
    BY <1>2, <1>4, <1>6, <2>1
  <2>5. CASE B[l] = NoKey
    BY <2>1, <2>4, <2>5
  <2>6. CASE B[l] # NoKey
    <3>1. B[l] \in SK /\ B[l] \in rest(l) /\ B[l] \in Points
      BY <2>2, <2>3, <2>6 DEF Points
    <3>2. Cardinality(rest(B[l])) < Cardinality(rest(l)) /\ D[B[l]] = Cardinality(rest(B[l])) + 1
          /\ Cardinality(rest(B[l])) \in Nat
      BY <1>2, <1>3, <1>4, <2>1, <2>6, <3>1
    <3> QED BY <2>4, <3>1, <3>2
  <2> QED BY <2>5, <2>6
<1>7. NoKey \in Points
  BY DEF Points
<1> HIDE DEF B, D
<1>8. Chained(Points, NoKey, B, D)
  BY <1>5, <1>6, <1>7 DEF Chained
<1> QED BY <1>8 DEF B, D

LEMMA PassExists ==
    ASSUME Simple, NEW r, NEW asc \in BOOLEAN
    PROVE  \E f : Passing(f, r, asc)
<1> DEFINE C == [keys : SUBSET (PK \cup {NoKey}), head : Points]
           B == Onward(r, asc)
           none == [keys |-> {}, head |-> NoKey]
           Goes(l, x) == IF l = NoKey THEN none ELSE IF Stops(l, r, asc) THEN StoppedAt(l, r, asc) ELSE x
           g == [l \in Points |-> [x \in C |-> Goes(l, x)]]
<1>1. Chained(Points, NoKey, B, Depth(asc))
  BY PassEnds
<1>2. none \in C /\ NoKey \notin SK /\ \A l \in Points : l = NoKey \/ l \in SK
  BY SimpleFacts DEF Points
<1>3. ASSUME NEW l \in SK PROVE StoppedAt(l, r, asc) \in C
  <2>1. NextFrom(l, asc) \in Points /\ Untouched(Further(l, asc)) \in SUBSET (PK \cup {NoKey})
    BY NextFromFacts DEF Points, Untouched
  <2> QED BY <2>1 DEF StoppedAt
<1>4. \A l \in Points : B[l] = IF l = NoKey \/ Stops(l, r, asc) THEN NoKey ELSE NextFrom(l, asc)
  BY DEF Onward
<1>5. \A l \in SK : l \in Points /\ NextFrom(l, asc) \in SK
  BY NextFromFacts DEF Points
<1> HIDE DEF B, C, none
<1>6. \A l \in Points, x \in C : Goes(l, x) \in C
  BY <1>2, <1>3
<1>7. \A l \in Points, x \in C : g[l][x] = Goes(l, x)
  OBVIOUS
<1>8. g \in [Points -> [C -> C]]
  <2> HIDE DEF Goes
  <2>1. \A l \in Points : [x \in C |-> Goes(l, x)] \in [C -> C]
    BY <1>6
  <2> QED BY <2>1
<1> HIDE DEF g
<1>9. PICK f : GoesUp(f, Points, C, NoKey, none, B, g)
  BY <1>1, <1>2, <1>8, ChainRecursion
<1>10. f \in [Points -> C] /\ \A l \in Points : f[l] = IF l = NoKey THEN none ELSE g[l][f[B[l]]]
  BY <1>9 DEF GoesUp
<1> DEFINE h == [l \in SK |-> f[l]]
<1>11. ASSUME NEW l \in SK
       PROVE  f[l] = IF Stops(l, r, asc) THEN StoppedAt(l, r, asc) ELSE h[NextFrom(l, asc)]
  <2>1. l \in Points /\ l # NoKey /\ NextFrom(l, asc) \in SK /\ NextFrom(l, asc) \in Points
    BY <1>2, <1>5
  <2>2. B[l] = IF Stops(l, r, asc) THEN NoKey ELSE NextFrom(l, asc)
    BY <1>4, <2>1
  <2>3. NoKey \in Points
    BY DEF Points
  <2>4. B[l] \in Points /\ f[B[l]] \in C
    BY <1>10, <2>1, <2>2, <2>3
  <2>5. f[l] = Goes(l, f[B[l]])
    BY <1>7, <1>10, <2>1, <2>4
  <2> QED BY <2>1, <2>2, <2>5
<1>12. h = [l \in SK |-> IF Stops(l, r, asc) THEN StoppedAt(l, r, asc) ELSE h[NextFrom(l, asc)]]
  <2>1. \A l \in SK : h[l] = IF Stops(l, r, asc) THEN StoppedAt(l, r, asc) ELSE h[NextFrom(l, asc)]
    BY <1>11
  <2>2. h = [l \in SK |-> h[l]]
    OBVIOUS
  <2> HIDE DEF h
  <2> QED BY <2>1, <2>2
<1> QED BY <1>12 DEF Passing

LEMMA PassIsPassing ==
    ASSUME Simple, NEW r, NEW asc \in BOOLEAN
    PROVE  \E f : /\ Passing(f, r, asc)
                  /\ \A keys, head : PassTouched(r, keys, head, asc) =
                        IF Sampled(keys) = {} \/ Untouched(keys) # {} THEN [keys |-> Untouched(keys), head |-> head]
                        ELSE f[head]
<1> DEFINE Body(f, last) ==
               LET found == Further(last, asc)
                   next  == IF Sampled(found) = {} THEN last ELSE HeadOf(found)
               IN  IF LeftRange(r, next) THEN [keys |-> {}, head |-> next]
                   ELSE IF Sampled(found) = {} \/ Untouched(found) # {} THEN [keys |-> Untouched(found), head |-> next]
                   ELSE f[next]
           Pass(f) == f = [last \in SK |-> Body(f, last)]
           p == CHOOSE f : Pass(f)
<1>1. \A f, last : Body(f, last) = IF Stops(last, r, asc) THEN StoppedAt(last, r, asc) ELSE f[NextFrom(last, asc)]
  BY DEF Stops, StoppedAt, NextFrom
<1>2. \A keys, head : PassTouched(r, keys, head, asc) =
          IF Sampled(keys) = {} \/ Untouched(keys) # {} THEN [keys |-> Untouched(keys), head |-> head] ELSE p[head]
  BY DEF PassTouched
<1> HIDE DEF Body
<1>3. \A f : Pass(f) <=> Passing(f, r, asc)
  BY <1>1 DEF Passing
<1>4. \E f : Pass(f)
  BY <1>3, PassExists
<1> HIDE DEF Pass
<1>5. Pass(p)
  BY <1>4
<1> QED BY <1>2, <1>3, <1>5

\* The keys of the range with objects of the parent that are not touched, all and beyond one of them.
Live(r) == {k \in Held : Includes(r, k) /\ Untouched(Holders(data, k)) # {}}
LiveBeyond(last, r, asc) == {k \in Live(r) : Nearer(last, k, asc)}

\* What a search is to find; past the range it may give what is not in it.
Leaves(res, k) == res.keys = Untouched(Holders(data, k)) /\ res.head = k
Outcome(res, T, r, asc) ==
    IF T # {} THEN \E k \in T : FirstOf(T, k, asc) /\ Leaves(res, k)
    ELSE res.keys = {} \/ kind = "leveldb" \/ \E k \in SK : PastRange(k, r, asc) /\ Leaves(res, k)

\* Where a search may be.
Reached(l, r, asc) == l \in Held /\ (Includes(r, l) \/ PastRange(l, r, asc))

LEMMA PastFacts ==
    ASSUME NEW r \in AllRanges, NEW asc \in BOOLEAN, NEW l \in SK, NEW n \in SK,
           Includes(r, l) \/ PastRange(l, r, asc), Nearer(l, n, asc)
    PROVE  /\ ~Includes(r, n) => PastRange(n, r, asc)
           /\ PastRange(l, r, asc) => ~Includes(r, n)
<1>1. SK \in SUBSET Int /\ NoKey \notin Int
  BY IndicesAssumption
<1>2. ProperRange(r)
  BY <1>1, RangesAreProper DEF AllRanges
<1>3. l \in Int /\ n \in Int
  BY <1>1
<1>4. PastRange(l, r, asc) => ~Includes(r, n)
  <2>1. PastRange(l, r, asc) /\ Includes(r, n) => Nearer(n, l, asc)
    BY DEF PastRange
  <2> QED BY <1>3, <2>1, NearerFacts
<1>5. ASSUME ~Includes(r, n), NEW m \in SK, Includes(r, m) PROVE Nearer(m, n, asc)
  <2>1. m \in Int
    BY <1>1
  <2>2. CASE PastRange(l, r, asc)
    <3>1. Nearer(m, l, asc)
      BY <1>5, <2>2 DEF PastRange
    <3> QED BY <1>3, <2>1, <3>1, NearerFacts
  <2>3. CASE Includes(r, l)
    <3>1. m # n
      BY <1>5
    <3>2. ~Nearer(n, m, asc)
      BY <1>2, <1>3, <1>5, <2>1, <2>3, RangeFacts DEF Nearer
    <3> QED BY <1>3, <2>1, <3>1, <3>2, NearerFacts
  <2> QED BY <2>2, <2>3
<1> QED BY <1>4, <1>5 DEF PastRange

\* In LMDB the search is sure where no two entries have the same secondary key.
Searchable == Simple /\ (kind = "lmdb" => \A sk \in SK : Len(index[sk]) < 2)

LEMMA PassStep ==
    ASSUME Searchable, NEW r \in AllRanges, NEW asc \in BOOLEAN, NEW last \in SK, Reached(last, r, asc)
    PROVE  LET next == NextFrom(last, asc)
           IN  IF Stops(last, r, asc) THEN Outcome(StoppedAt(last, r, asc), LiveBeyond(last, r, asc), r, asc)
               ELSE next \in SK /\ Reached(next, r, asc) /\ LiveBeyond(next, r, asc) = LiveBeyond(last, r, asc)
<1> DEFINE e == Further(last, asc)
           S == HeldBeyond(last, asc)
           n == NextFrom(last, asc)
           T == LiveBeyond(last, r, asc)
           res == StoppedAt(last, r, asc)
<1>1. Simple /\ (kind = "lmdb" => last \in Held /\ \A sk \in SK : Len(index[sk]) < 2)
  BY DEF Searchable, Reached
<1>2. /\ Held \in SUBSET SK /\ SK \in SUBSET Int /\ last \in Int /\ last \in Held
      /\ Includes(r, last) \/ PastRange(last, r, asc)
  BY <1>1, SimpleFacts DEF Reached
<1>3. Follow(e, S, asc)
  BY <1>1, FurtherFacts
<1>4. /\ Sampled({}) = {} /\ Untouched({}) = {} /\ Sampled({NoKey}) = {}
      /\ \A k \in Held : Sampled(Holders(data, k)) # {} /\ HeadOf(Holders(data, k)) = k
  BY <1>1, SampleFacts
<1>5. T = {k \in S : Includes(r, k) /\ Untouched(Holders(data, k)) # {}}
  BY DEF LiveBeyond, Live, HeldBeyond
<1>6. n = IF Sampled(e) = {} THEN last ELSE HeadOf(e)
  BY DEF NextFrom
<1>7. res = [keys |-> IF LeftRange(r, n) THEN {} ELSE Untouched(e), head |-> n]
  BY DEF StoppedAt
<1>8. Stops(last, r, asc) <=> LeftRange(r, n) \/ Sampled(e) = {} \/ Untouched(e) # {}
  BY DEF Stops
<1> HIDE DEF e, n, T, res
<1>9. CASE S = {}
  <2>1. e = {} \/ (kind = "leveldb" /\ e = {NoKey})
    BY <1>3, <1>9 DEF Follow
  <2>2. T = {} /\ Stops(last, r, asc)
    BY <1>4, <1>5, <1>8, <1>9, <2>1
  <2>3. res.keys = {} \/ kind = "leveldb"
    BY <1>4, <1>7, <2>1
  <2> QED BY <2>2, <2>3 DEF Outcome, T, res
<1>10. CASE S # {}
  <2>1. PICK k \in S : FirstOf(S, k, asc) /\ e = Holders(data, k)
    BY <1>3, <1>10 DEF Follow
  <2>2. k \in Held /\ k \in SK /\ k \in Int /\ Nearer(last, k, asc)
    BY <1>2 DEF HeldBeyond
  <2>3. n = k /\ Sampled(e) # {}
    BY <1>4, <1>6, <2>1, <2>2
  <2>4. /\ ~Includes(r, k) => PastRange(k, r, asc)
        /\ \A m \in SK : Nearer(last, m, asc) /\ PastRange(last, r, asc) => ~Includes(r, m)
    BY <1>2, <2>2, PastFacts
  <2>5. \A m \in S : m \in SK /\ m \in Int /\ Nearer(last, m, asc) /\ (m = k \/ Nearer(k, m, asc))
    BY <1>2, <2>1, <2>2, NearerFacts DEF HeldBeyond, FirstOf
  <2>6. ~Includes(r, k) => T = {}
    <3> SUFFICES ASSUME ~Includes(r, k), NEW m \in T
                 PROVE  FALSE
      OBVIOUS
    <3>1. m \in S /\ Includes(r, m)
      BY <1>5
    <3>2. m \in SK /\ m \in Int /\ (m = k \/ Nearer(k, m, asc))
      BY <2>5, <3>1
    <3>3. Nearer(m, k, asc)
      BY <2>4, <3>1, <3>2 DEF PastRange
    <3> QED BY <2>2, <3>2, <3>3, NearerFacts
  <2>7. LeftRange(r, k) => ~Includes(r, k)
    BY DEF LeftRange
  <2>8. CASE LeftRange(r, k)
    <3>1. Stops(last, r, asc) /\ T = {} /\ res.keys = {}
      BY <1>7, <1>8, <2>3, <2>6, <2>7, <2>8
    <3> QED BY <3>1 DEF Outcome, T, res
  <2>9. CASE ~LeftRange(r, k) /\ Untouched(e) # {}
    <3>1. Stops(last, r, asc) /\ Leaves(res, k)
      BY <1>7, <1>8, <2>1, <2>3, <2>9 DEF Leaves
    <3>2. CASE Includes(r, k)
      <4>1. k \in T /\ \A m \in T : m \in S
        BY <1>5, <2>1, <2>9, <3>2
      <4>2. FirstOf(T, k, asc)
        BY <2>1, <4>1 DEF FirstOf
      <4>3. Outcome(res, T, r, asc)
        BY <3>1, <4>1, <4>2 DEF Outcome
      <4> QED BY <3>1, <4>3 DEF T, res
    <3>3. CASE ~Includes(r, k)
      <4>1. Outcome(res, T, r, asc)
        BY <2>2, <2>4, <2>6, <3>1, <3>3 DEF Outcome
      <4> QED BY <3>1, <4>1 DEF T, res
    <3> QED BY <3>2, <3>3
  <2>10. CASE ~LeftRange(r, k) /\ Untouched(e) = {}
    <3>1. ~Stops(last, r, asc)
      BY <1>8, <2>3, <2>10
    <3>2. Reached(k, r, asc)
      BY <2>2, <2>4 DEF Reached
    <3>3. k \notin T
      BY <1>5, <2>1, <2>10
    <3>4. \A m \in Held : Nearer(k, m, asc) => m \in S
      BY <1>2, <2>2, NearerFacts DEF HeldBeyond
    <3>5. LiveBeyond(k, r, asc) = T
      <4>1. ASSUME NEW m PROVE m \in LiveBeyond(k, r, asc) <=> m \in T
        <5>1. m \in LiveBeyond(k, r, asc) <=>
                 m \in Held /\ Includes(r, m) /\ Untouched(Holders(data, m)) # {} /\ Nearer(k, m, asc)
          BY DEF LiveBeyond, Live
        <5>2. m \in T => m \in Held /\ m # k /\ m \in S
          BY <1>5, <3>3 DEF HeldBeyond
        <5> HIDE DEF S
        <5> QED BY <1>5, <2>5, <3>4, <5>1, <5>2
      <4> QED BY <4>1
    <3> QED BY <2>2, <2>3, <3>1, <3>2, <3>5 DEF T, n
  <2> QED BY <2>8, <2>9, <2>10
<1> QED BY <1>9, <1>10

\* From every place that it may reach, the search finds the first key that is left.
LEMMA PassFinds ==
    ASSUME Searchable, NEW r \in AllRanges, NEW asc \in BOOLEAN, NEW f, Passing(f, r, asc)
    PROVE  \A last \in SK : Reached(last, r, asc) => Outcome(f[last], LiveBeyond(last, r, asc), r, asc)
<1> DEFINE P == {l \in Points : l = NoKey \/ (Reached(l, r, asc) => Outcome(f[l], LiveBeyond(l, r, asc), r, asc))}
           B == Onward(r, asc)
<1>1. Simple /\ NoKey \notin SK
  BY SimpleFacts DEF Searchable
<1>2. Chained(Points, NoKey, B, Depth(asc))
  BY <1>1, PassEnds
<1>3. \A l \in SK : f[l] = IF Stops(l, r, asc) THEN StoppedAt(l, r, asc) ELSE f[NextFrom(l, asc)]
  BY DEF Passing
<1>4. \A l \in Points : B[l] = IF l = NoKey \/ Stops(l, r, asc) THEN NoKey ELSE NextFrom(l, asc)
  BY DEF Onward
<1>5. \A l \in Points : l = NoKey \/ l \in SK
  BY DEF Points
<1> HIDE DEF B
<1>6. ASSUME NEW l \in Points \ {NoKey}, B[l] \in P PROVE l \in P
  <2>1. l \in SK
    BY <1>5
  <2> SUFFICES ASSUME Reached(l, r, asc)
               PROVE  Outcome(f[l], LiveBeyond(l, r, asc), r, asc)
    OBVIOUS
  <2> DEFINE n == NextFrom(l, asc)
  <2>2. IF Stops(l, r, asc) THEN Outcome(StoppedAt(l, r, asc), LiveBeyond(l, r, asc), r, asc)
        ELSE n \in SK /\ Reached(n, r, asc) /\ LiveBeyond(n, r, asc) = LiveBeyond(l, r, asc)
    BY <2>1, PassStep
  <2>3. CASE Stops(l, r, asc)
    BY <1>3, <2>1, <2>2, <2>3
  <2>4. CASE ~Stops(l, r, asc)
    <3>1. B[l] = n /\ n # NoKey /\ f[l] = f[n]
      BY <1>1, <1>3, <1>4, <1>6, <2>1, <2>2, <2>4
    <3>2. Outcome(f[n], LiveBeyond(n, r, asc), r, asc)
      BY <1>6, <2>2, <2>4, <3>1
    <3> QED BY <2>2, <2>4, <3>1, <3>2
  <2> QED BY <2>3, <2>4
<1>7. NoKey \in P
  BY DEF Points
<1>8. Points \subseteq P
  <2> HIDE DEF P
  <2> QED BY <1>2, <1>6, <1>7, ChainInduction
<1> QED BY <1>1, <1>8 DEF Points

\* What the transaction takes from its parent: the objects of the first key that has any left.
LEMMA FromParent ==
    ASSUME Searchable, NEW r \in AllRanges, NEW asc \in BOOLEAN, ~LmdbAstray(r, asc)
    PROVE  /\ Outcome(ParentExtremes(r, IndexExtremes(r, asc), asc), Live(r), r, asc)
           /\ ParentExtremes(r, {NoKey}, asc) = [keys |-> {NoKey}, head |-> NoKey]
           /\ ParentExtremes(r, {}, asc).keys = {}
<1> DEFINE e == IndexExtremes(r, asc)
           T == Live(r)
           res == ParentExtremes(r, e, asc)
<1>1. Simple
  BY DEF Searchable
<1>2. Finds(e, r, asc)
  BY <1>1, ExtremesFound
<1>3. /\ Sampled({}) = {} /\ Untouched({}) = {} /\ Sampled({NoKey}) = {} /\ Untouched({NoKey}) = {NoKey}
      /\ \A k \in Held : Sampled(Holders(data, k)) # {} /\ HeadOf(Holders(data, k)) = k
  BY <1>1, SampleFacts
<1>4. PICK f : /\ Passing(f, r, asc)
               /\ \A keys, head : PassTouched(r, keys, head, asc) =
                     IF Sampled(keys) = {} \/ Untouched(keys) # {} THEN [keys |-> Untouched(keys), head |-> head]
                     ELSE f[head]
  BY <1>1, PassIsPassing
<1>5. \A l \in SK : Reached(l, r, asc) => Outcome(f[l], LiveBeyond(l, r, asc), r, asc)
  BY <1>4, PassFinds
<1>6. \A first : ParentExtremes(r, first, asc) =
          IF Sampled(first) = {} THEN [keys |-> Untouched(first), head |-> NoKey]
          ELSE IF Untouched(first) # {} THEN [keys |-> Untouched(first), head |-> HeadOf(first)]
          ELSE f[HeadOf(first)]
  BY <1>4 DEF ParentExtremes
<1>7. /\ HeldIn(r) = {k \in Held : Includes(r, k)} /\ Held \in SUBSET SK /\ SK \in SUBSET Int
  BY <1>1, SimpleFacts, HeldKeysFacts
<1>8. T = {k \in HeldIn(r) : Untouched(Holders(data, k)) # {}}
  BY <1>7 DEF Live
<1> HIDE DEF e, T
<1>9. Outcome(res, T, r, asc)
  <2>1. CASE HeldIn(r) # {}
    <3>1. PICK k \in SK : FirstOf(HeldIn(r), k, asc) /\ e = Holders(data, k)
      BY <1>2, <2>1 DEF Finds
    <3>2. k \in HeldIn(r) /\ k \in Held /\ Includes(r, k) /\ k \in Int
      BY <1>7, <3>1 DEF FirstOf
    <3>3. CASE Untouched(e) # {}
      <4>1. Leaves(res, k)
        BY <1>3, <1>6, <3>1, <3>2, <3>3 DEF Leaves
      <4>2. k \in T /\ FirstOf(T, k, asc)
        BY <1>8, <3>1, <3>2, <3>3 DEF FirstOf
      <4> QED BY <4>1, <4>2 DEF Outcome
    <3>4. CASE Untouched(e) = {}
      <4>1. res = f[k]
        BY <1>3, <1>6, <3>1, <3>2, <3>4
      <4>2. Outcome(f[k], LiveBeyond(k, r, asc), r, asc)
        BY <1>5, <3>2 DEF Reached
      <4>3. k \notin T
        BY <1>8, <3>1, <3>4
      <4>4. \A m \in T : m \in HeldIn(r) /\ m \in Int
        BY <1>7, <1>8
      <4>5. \A m \in T : Nearer(k, m, asc)
        BY <3>1, <3>2, <4>3, <4>4, NearerFacts DEF FirstOf
      <4>6. LiveBeyond(k, r, asc) = T
        BY <4>5 DEF LiveBeyond, T
      <4> QED BY <4>1, <4>2, <4>6
    <3> QED BY <3>3, <3>4
  <2>2. CASE HeldIn(r) = {}
    <3>1. T = {}
      BY <1>8, <2>2
    <3>2. CASE e = {}
      <4>1. res.keys = {}
        BY <1>3, <1>6, <3>2
      <4> QED BY <3>1, <4>1 DEF Outcome
    <3>3. CASE kind = "leveldb"
      BY <3>1, <3>3 DEF Outcome
    <3>4. CASE \E k \in Held : PastRange(k, r, asc) /\ Starting(r, k, asc) /\ e = Holders(data, k)
      <4>1. PICK k \in Held : PastRange(k, r, asc) /\ e = Holders(data, k)
        BY <3>4
      <4>2. k \in SK
        BY <1>7
      <4>3. CASE Untouched(e) # {}
        <5>1. Leaves(res, k)
          BY <1>3, <1>6, <4>1, <4>3 DEF Leaves
        <5> QED BY <3>1, <4>1, <4>2, <5>1 DEF Outcome
      <4>4. CASE Untouched(e) = {}
        <5>1. res = f[k]
          BY <1>3, <1>6, <4>1, <4>4
        <5>2. Outcome(f[k], LiveBeyond(k, r, asc), r, asc)
          BY <1>5, <4>1, <4>2 DEF Reached
        <5>3. LiveBeyond(k, r, asc) = T
          BY <3>1 DEF LiveBeyond, T
        <5> QED BY <5>1, <5>2, <5>3
      <4> QED BY <4>3, <4>4
    <3> QED BY <1>2, <2>2, <3>2, <3>3, <3>4 DEF Finds
  <2> QED BY <2>1, <2>2
<1>10. ParentExtremes(r, {NoKey}, asc) = [keys |-> {NoKey}, head |-> NoKey]
  BY <1>3, <1>6
<1>11. ParentExtremes(r, {}, asc).keys = {}
  BY <1>3, <1>6
<1> QED BY <1>9, <1>10, <1>11 DEF e, T

\* What the two sides are to give: the parent, and the transaction's own index.
Kept(r) == IF truncated THEN {} ELSE Live(r)
OwnIn(r) == {k \in KeysIn(modified) : Includes(r, k)}
Gives(theirs, r, asc) ==
    IF Kept(r) # {} THEN \E k \in Kept(r) : FirstOf(Kept(r), k, asc) /\ Leaves(theirs, k)
    ELSE \/ theirs.keys = {} \/ theirs = [keys |-> {NoKey}, head |-> NoKey]
         \/ \E k \in SK : PastRange(k, r, asc) /\ Leaves(theirs, k)
GivesOwn(mine, r, asc) ==
    IF OwnIn(r) # {} THEN \E k \in OwnIn(r) : FirstOf(OwnIn(r), k, asc) /\ mine = Holders(modified, k)
    ELSE mine = {} \/ \E k \in KeysIn(modified) : PastRange(k, r, asc) /\ mine = Holders(modified, k)

LEMMA OwnExtremesFound ==
    ASSUME Simple, NEW r \in AllRanges, NEW asc \in BOOLEAN
    PROVE  GivesOwn(OwnExtremes(r, asc), r, asc)
<1> DEFINE K == KeysIn(modified)
           i == MemoryStart(TreeHeads, r, asc)
<1>1. K \in SUBSET SK /\ K \in SUBSET Int /\ IsFiniteSet(K)
  BY SimpleFacts, KeysInFacts
<1>2. TreeHeads = Ascending(K)
  BY OwnReadsOfRange DEF Simple
<1>3. Leads(i, TreeHeads, K, r, asc)
  BY <1>1, <1>2, CursorLeads
<1>4. OwnExtremes(r, asc) = IF i = 0 THEN {} ELSE ToSet(tree[TreeHeads[i]])
  BY DEF OwnExtremes
<1>5. \A k \in K : ToSet(tree[k]) = Holders(modified, k)
  BY <1>1, OwnIndexRight DEF Simple, OwnIndexMatches
<1> HIDE DEF i
<1>6. CASE OwnIn(r) # {}
  <2>1. i # 0 /\ FirstOf(OwnIn(r), TreeHeads[i], asc)
    BY <1>3, <1>6 DEF Leads, OwnIn
  <2>2. TreeHeads[i] \in OwnIn(r) /\ TreeHeads[i] \in K
    BY <2>1 DEF FirstOf, OwnIn
  <2> QED BY <1>4, <1>5, <1>6, <2>1, <2>2 DEF GivesOwn
<1>7. CASE OwnIn(r) = {}
  <2>1. i # 0 => TreeHeads[i] \in K /\ PastRange(TreeHeads[i], r, asc)
    BY <1>3, <1>7 DEF Leads, OwnIn
  <2> QED BY <1>4, <1>5, <1>7, <2>1 DEF GivesOwn
<1> QED BY <1>6, <1>7

\* The extremes of the parent are looked at where the property does.
LEMMA ParentGives ==
    ASSUME Simple, NEW r \in AllRanges, NEW asc \in BOOLEAN,
           \/ truncated
           \/ kind = "leveldb" /\ (Live(r) # {} \/ IndexExtremes(r, asc) = {NoKey})
           \/ kind = "lmdb" /\ ~LmdbAstray(r, asc) /\ \A sk \in SK : Len(index[sk]) < 2
           \/ kind \in {"memory", "indexeddb"}
    PROVE  Gives(ParentExtremes(r, IF truncated THEN {} ELSE IndexExtremes(r, asc), asc), r, asc)
<1> DEFINE first == IF truncated THEN {} ELSE IndexExtremes(r, asc)
<1>1. CASE truncated
  <2>1. Sampled({}) = {} /\ Untouched({}) = {}
    BY SampleFacts
  <2>2. ParentExtremes(r, {}, asc).keys = {}
    BY <2>1 DEF ParentExtremes
  <2>3. first = {} /\ Kept(r) = {}
    BY <1>1 DEF Kept
  <2> HIDE DEF first
  <2>4. Gives(ParentExtremes(r, first, asc), r, asc)
    BY <2>2, <2>3 DEF Gives
  <2> QED BY <2>4 DEF first
<1>2. CASE ~truncated
  <2> DEFINE res == ParentExtremes(r, IndexExtremes(r, asc), asc)
  <2>1. Searchable /\ ~LmdbAstray(r, asc)
    BY <1>2 DEF Searchable, LmdbAstray
  <2>2. /\ Outcome(res, Live(r), r, asc)
        /\ ParentExtremes(r, {NoKey}, asc) = [keys |-> {NoKey}, head |-> NoKey]
    BY <2>1, FromParent
  <2>3. Kept(r) = Live(r)
    BY <1>2 DEF Kept
  <2>4. kind = "leveldb" => Live(r) # {} \/ res = [keys |-> {NoKey}, head |-> NoKey]
    BY <1>2, <2>2
  <2>5. first = IndexExtremes(r, asc)
    BY <1>2
  <2> HIDE DEF res, first
  <2>6. Gives(res, r, asc)
    BY <2>2, <2>3, <2>4 DEF Gives, Outcome
  <2> QED BY <2>5, <2>6 DEF res, first
<1> QED BY <1>1, <1>2

LEMMA NearerDecides ==
    ASSUME NEW asc \in BOOLEAN, NEW k \in Int, NEW l \in Int, k # l
    PROVE  ((k < l) = asc) <=> Nearer(k, l, asc)
<1>1. CASE asc
  BY <1>1 DEF Nearer
<1>2. CASE ~asc
  BY <1>2 DEF Nearer
<1> QED BY <1>1, <1>2

\* The nearer side wins, and both where they have the same key.
LEMMA NearerSideWins ==
    ASSUME Simple, NEW asc \in BOOLEAN, NEW theirs, NEW k \in SK, Leaves(theirs, k), theirs.keys # {},
           NEW o \in KeysIn(modified)
    PROVE  Unified(theirs, Holders(modified, o), asc) =
               IF k = o THEN theirs.keys \cup Holders(modified, o)
               ELSE IF Nearer(k, o, asc) THEN theirs.keys ELSE Holders(modified, o)
<1> DEFINE mine == Holders(modified, o)
           pk == CHOOSE pk \in mine : TRUE
           head == modified[pk][1]
<1>1. SK \in SUBSET Int /\ NoKey \notin Int /\ modified \in Stores /\ \A p \in DOMAIN modified : modified[p] \in Single
  BY SimpleFacts DEF FiniteStores
<1>2. o \in SK /\ mine # {}
  BY DEF KeysIn
<1>3. pk \in mine
  BY <1>2
<1>4. Unified(theirs, mine, asc) =
          IF theirs.keys = {} THEN mine
          ELSE IF mine = {} THEN theirs.keys
          ELSE IF theirs.head = NoKey \/ theirs.head = head THEN theirs.keys \cup mine
          ELSE IF (theirs.head < head) = asc THEN theirs.keys ELSE mine
  BY DEF Unified
<1> HIDE DEF pk
<1>5. head = o
  BY <1>1, <1>2, <1>3, OneKey
<1>6. theirs.head = k /\ k \in Int /\ o \in Int /\ k # NoKey
  BY <1>1, <1>2 DEF Leaves
<1>7. k # o => (((k < o) = asc) <=> Nearer(k, o, asc))
  BY <1>6, NearerDecides
<1> HIDE DEF head, mine
<1>8. Unified(theirs, mine, asc) =
          IF k = o THEN theirs.keys \cup mine ELSE IF Nearer(k, o, asc) THEN theirs.keys ELSE mine
  BY <1>2, <1>4, <1>5, <1>6, <1>7
<1> QED BY <1>8 DEF mine

LEMMA UnifiedWithNone ==
    ASSUME NEW theirs, NEW mine, NEW asc
    PROVE  /\ theirs.keys = {} => Unified(theirs, mine, asc) = mine
           /\ theirs.keys # {} /\ mine = {} => Unified(theirs, mine, asc) = theirs.keys
           /\ theirs.keys # {} /\ mine # {} /\ theirs.head = NoKey => Unified(theirs, mine, asc) = theirs.keys \cup mine
BY DEF Unified

\* What is seen under a key of the range, by the sides that have it.
LEMMA SeenOfSides ==
    ASSUME Simple, NEW r, NEW k \in SK, Includes(r, k)
    PROVE  /\ Seen(k) = (IF k \in Kept(r) THEN Untouched(Holders(data, k)) ELSE {})
                             \cup (IF k \in OwnIn(r) THEN Holders(modified, k) ELSE {})
           /\ Seen(k) # {} <=> k \in Kept(r) \cup OwnIn(r)
           /\ k \in Kept(r) => Untouched(Holders(data, k)) # {}
           /\ k \in OwnIn(r) => Holders(modified, k) # {}
           /\ NoKey \notin Seen(k)
<1>1. Seen(k) = Untruncated(Holders(data, k)) \cup Holders(modified, k)
  BY SeenFacts DEF Simple
<1>2. Untruncated(Holders(data, k)) = IF k \in Kept(r) THEN Untouched(Holders(data, k)) ELSE {}
  <2>1. Untouched({}) = {}
    BY SampleFacts
  <2> QED BY <2>1 DEF Untruncated, Kept, Live, Held
<1>3. k \in Kept(r) => Untouched(Holders(data, k)) # {}
  BY DEF Kept, Live
<1>4. k \in OwnIn(r) <=> Holders(modified, k) # {}
  BY DEF OwnIn, KeysIn
<1>5. NoKey \notin Seen(k)
  BY SimpleFacts DEF Seen
<1> HIDE DEF Seen, Kept, OwnIn
<1> QED BY <1>1, <1>2, <1>3, <1>4, <1>5

Sides(r) == Kept(r) \cup OwnIn(r)

LEMMA SidesFacts ==
    ASSUME Simple, NEW r, NEW asc \in BOOLEAN
    PROVE  /\ Sides(r) \in SUBSET SK /\ Sides(r) \in SUBSET Int /\ \A k \in Sides(r) : Includes(r, k)
           /\ \A k \in Sides(r) : \A l : PastRange(l, r, asc) => l \in Int /\ Nearer(k, l, asc)
<1>1. SK \in SUBSET Int /\ Held \in SUBSET SK
  BY SimpleFacts
<1>2. Sides(r) \in SUBSET SK /\ \A k \in Sides(r) : Includes(r, k)
  BY <1>1 DEF Sides, Kept, Live, OwnIn, KeysIn
<1> QED BY <1>1, <1>2 DEF PastRange

\* The first of two sets together is the nearer of their first ones.
LEMMA FirstOfBoth ==
    ASSUME NEW S \in SUBSET Int, NEW T \in SUBSET Int, NEW asc \in BOOLEAN, NEW k, NEW o,
           FirstOf(S, k, asc), FirstOf(T, o, asc)
    PROVE  /\ k = o \/ Nearer(k, o, asc) \/ Nearer(o, k, asc)
           /\ k = o => FirstOf(S \cup T, k, asc)
           /\ Nearer(k, o, asc) => k \notin T /\ FirstOf(S \cup T, k, asc) /\ k # o
           /\ Nearer(o, k, asc) => o \notin S /\ FirstOf(S \cup T, o, asc) /\ k # o /\ ~Nearer(k, o, asc)
<1>1. k \in Int /\ o \in Int
  BY DEF FirstOf
<1>2. CASE asc
  BY <1>1, <1>2 DEF FirstOf, Nearer
<1>3. CASE ~asc
  BY <1>1, <1>3 DEF FirstOf, Nearer
<1> QED BY <1>2, <1>3

LEMMA UnifiedIsFirst ==
    ASSUME Simple, NEW r \in AllRanges, NEW asc \in BOOLEAN, NEW theirs, NEW mine,
           Gives(theirs, r, asc), GivesOwn(mine, r, asc), Sides(r) # {}
    PROVE  \E k \in Sides(r) : FirstOf(Sides(r), k, asc) /\ Unified(theirs, mine, asc) \ {NoKey} = Seen(k)
<1> DEFINE both == Unified(theirs, mine, asc)
<1>1. /\ Sides(r) \in SUBSET SK /\ Sides(r) \in SUBSET Int /\ \A k \in Sides(r) : Includes(r, k)
      /\ Kept(r) \in SUBSET Int /\ OwnIn(r) \in SUBSET Int /\ OwnIn(r) \in SUBSET KeysIn(modified)
  BY SidesFacts DEF Sides, OwnIn
<1>2. \A k \in Sides(r) : \A l : PastRange(l, r, asc) => l \in SK /\ l \in Int /\ Nearer(k, l, asc)
  BY SidesFacts DEF PastRange
<1>3. \A k \in Sides(r) :
          /\ Seen(k) = (IF k \in Kept(r) THEN Untouched(Holders(data, k)) ELSE {})
                            \cup (IF k \in OwnIn(r) THEN Holders(modified, k) ELSE {})
          /\ k \in Kept(r) => Untouched(Holders(data, k)) # {}
          /\ k \in OwnIn(r) => Holders(modified, k) # {}
          /\ NoKey \notin Seen(k)
  BY <1>1, SeenOfSides
<1>4. \A k, l \in Int : Nearer(k, l, asc) => ~Nearer(l, k, asc) /\ k # l
  BY NearerFacts
<1>5. \A k \in SK, o \in KeysIn(modified) : Leaves(theirs, k) /\ theirs.keys # {} =>
          Unified(theirs, Holders(modified, o), asc) =
               IF k = o THEN theirs.keys \cup Holders(modified, o)
               ELSE IF Nearer(k, o, asc) THEN theirs.keys ELSE Holders(modified, o)
  BY NearerSideWins
<1> HIDE DEF both
<1> SUFFICES \E k \in Sides(r) : FirstOf(Sides(r), k, asc) /\ both \ {NoKey} = Seen(k)
  BY DEF both
<1>6. \A o : o \in OwnIn(r) => o \in Sides(r) /\ o \in KeysIn(modified)
  BY <1>1 DEF Sides
<1>7. \A k : k \in Kept(r) => k \in Sides(r) /\ k \in SK
  BY <1>1 DEF Sides
<1>8. CASE Kept(r) # {} /\ OwnIn(r) # {}
  <2>1. PICK k \in Kept(r) : FirstOf(Kept(r), k, asc) /\ Leaves(theirs, k)
    BY <1>8 DEF Gives
  <2>2. PICK o \in OwnIn(r) : FirstOf(OwnIn(r), o, asc) /\ mine = Holders(modified, o)
    BY <1>8 DEF GivesOwn
  <2>3. k \in Sides(r) /\ k \in SK /\ o \in Sides(r) /\ o \in KeysIn(modified)
    BY <1>6, <1>7
  <2>4. theirs.keys = Untouched(Holders(data, k)) /\ theirs.keys # {}
    BY <1>3, <2>1, <2>3 DEF Leaves
  <2>5. both = IF k = o THEN theirs.keys \cup mine ELSE IF Nearer(k, o, asc) THEN theirs.keys ELSE mine
    BY <1>5, <2>1, <2>2, <2>3, <2>4 DEF both
  <2>6. /\ k = o \/ Nearer(k, o, asc) \/ Nearer(o, k, asc)
        /\ k = o => FirstOf(Sides(r), k, asc)
        /\ Nearer(k, o, asc) => k \notin OwnIn(r) /\ FirstOf(Sides(r), k, asc) /\ k # o
        /\ Nearer(o, k, asc) => o \notin Kept(r) /\ FirstOf(Sides(r), o, asc) /\ k # o /\ ~Nearer(k, o, asc)
    <3> HIDE DEF Nearer, FirstOf
    <3> QED BY <1>1, <2>1, <2>2, FirstOfBoth DEF Sides
  <2>7. CASE k = o
    <3>1. both = Seen(k)
      BY <1>3, <2>1, <2>2, <2>3, <2>4, <2>5, <2>7
    <3> QED BY <1>3, <2>3, <2>6, <2>7, <3>1
  <2>8. CASE Nearer(k, o, asc)
    <3>1. both = Seen(k)
      BY <1>3, <2>1, <2>3, <2>4, <2>5, <2>6, <2>8
    <3> QED BY <1>3, <2>3, <2>6, <2>8, <3>1
  <2>9. CASE Nearer(o, k, asc)
    <3>1. both = Seen(o)
      BY <1>3, <2>2, <2>3, <2>5, <2>6, <2>9
    <3> QED BY <1>3, <2>3, <2>6, <2>9, <3>1
  <2> QED BY <2>6, <2>7, <2>8, <2>9
<1>9. CASE Kept(r) # {} /\ OwnIn(r) = {}
  <2>1. PICK k \in Kept(r) : FirstOf(Kept(r), k, asc) /\ Leaves(theirs, k)
    BY <1>9 DEF Gives
  <2>2. k \in Sides(r) /\ k \in SK /\ FirstOf(Sides(r), k, asc)
    BY <1>7, <1>9, <2>1 DEF Sides
  <2>3. theirs.keys = Untouched(Holders(data, k)) /\ theirs.keys # {}
    BY <1>3, <2>1, <2>2 DEF Leaves
  <2>4. both = theirs.keys
    <3>1. CASE mine = {}
      BY <2>3, <3>1, UnifiedWithNone DEF both
    <3>2. CASE mine # {}
      <4>1. PICK l \in KeysIn(modified) : PastRange(l, r, asc) /\ mine = Holders(modified, l)
        BY <1>9, <3>2 DEF GivesOwn
      <4>2. k \in Int /\ l \in Int /\ Nearer(k, l, asc)
        BY <1>1, <1>2, <2>2, <4>1
      <4>3. k # l
        BY <1>4, <4>2
      <4> QED BY <1>5, <2>1, <2>2, <2>3, <4>1, <4>2, <4>3 DEF both
    <3> QED BY <3>1, <3>2
  <2>5. both = Seen(k)
    BY <1>3, <1>9, <2>1, <2>2, <2>3, <2>4
  <2> QED BY <1>3, <2>2, <2>5
<1>10. CASE Kept(r) = {}
  <2>1. Sides(r) = OwnIn(r) /\ OwnIn(r) # {}
    BY <1>10 DEF Sides
  <2>2. PICK o \in OwnIn(r) : FirstOf(OwnIn(r), o, asc) /\ mine = Holders(modified, o)
    BY <2>1 DEF GivesOwn
  <2>3. o \in Sides(r) /\ o \in KeysIn(modified) /\ o \in Int
    BY <1>1, <1>6, <2>2
  <2>4. mine = Seen(o) /\ mine # {} /\ NoKey \notin mine
    BY <1>3, <1>10, <2>1, <2>2, <2>3
  <2>5. both \ {NoKey} = mine
    <3>1. CASE theirs.keys = {}
      BY <2>4, <3>1, UnifiedWithNone DEF both
    <3>2. CASE theirs = [keys |-> {NoKey}, head |-> NoKey]
      <4>1. theirs.keys = {NoKey} /\ theirs.head = NoKey
        BY <3>2
      <4>2. both = theirs.keys \cup mine
        BY <2>4, <4>1, UnifiedWithNone DEF both
      <4> QED BY <2>4, <4>1, <4>2
    <3>3. CASE theirs.keys # {} /\ \E l \in SK : PastRange(l, r, asc) /\ Leaves(theirs, l)
      <4>1. PICK l \in SK : PastRange(l, r, asc) /\ Leaves(theirs, l)
        BY <3>3
      <4>2. l \in Int /\ Nearer(o, l, asc)
        BY <1>2, <2>3, <4>1
      <4>3. l # o /\ ~Nearer(l, o, asc)
        BY <1>4, <2>3, <4>2
      <4>4. both = mine
        BY <1>5, <2>2, <2>3, <3>3, <4>1, <4>3 DEF both
      <4> QED BY <2>4, <4>4
    <3> QED BY <1>10, <3>1, <3>2, <3>3 DEF Gives
  <2> QED BY <2>1, <2>2, <2>3, <2>4, <2>5
<1> QED BY <1>8, <1>9, <1>10

\* The extreme of a set is its first.
LEMMA ExtremeIsFirst ==
    ASSUME NEW S \in SUBSET Int, NEW asc \in BOOLEAN, NEW k, FirstOf(S, k, asc)
    PROVE  Extreme(S, asc) = k
<1> DEFINE Q(e) == \A l \in S : IF asc THEN e <= l ELSE e >= l
           e == CHOOSE e \in S : Q(e)
<1>1. k \in S /\ Q(k)
  BY DEF FirstOf
<1>2. e \in S /\ Q(e)
  <2> HIDE DEF Q
  <2> QED BY <1>1
<1>3. Extreme(S, asc) = e
  BY DEF Extreme
<1> HIDE DEF e
<1>4. FirstOf(S, e, asc)
  BY <1>2 DEF FirstOf
<1> QED BY <1>3, <1>4, OneFirst

LEMMA TxExtremesAreRight ==
    ASSUME Simple, NEW r \in AllRanges, NEW asc \in BOOLEAN,
           \/ truncated
           \/ kind = "leveldb" /\ (Live(r) # {} \/ IndexExtremes(r, asc) = {NoKey})
           \/ kind = "lmdb" /\ ~LmdbAstray(r, asc) /\ \A sk \in SK : Len(index[sk]) < 2
           \/ kind \in {"memory", "indexeddb"},
           {sk \in Inside(r) : Seen(sk) # {}} # {}
    PROVE  TxIndexExtremes(r, asc) \ {NoKey} = Seen(Extreme({sk \in Inside(r) : Seen(sk) # {}}, asc))
<1> DEFINE theirs == ParentExtremes(r, IF truncated THEN {} ELSE IndexExtremes(r, asc), asc)
           mine == OwnExtremes(r, asc)
           sks == {sk \in Inside(r) : Seen(sk) # {}}
<1>1. Gives(theirs, r, asc) /\ GivesOwn(mine, r, asc)
  BY ParentGives, OwnExtremesFound
<1>2. TxIndexExtremes(r, asc) = Unified(theirs, mine, asc)
  BY DEF TxIndexExtremes
<1>3. sks = Sides(r)
  <2>1. Sides(r) \in SUBSET Inside(r)
    BY SidesFacts DEF Inside
  <2>2. \A k \in Inside(r) : Seen(k) # {} <=> k \in Sides(r)
    BY SeenOfSides DEF Inside, Sides
  <2> QED BY <2>1, <2>2
<1> HIDE DEF theirs, mine
<1>4. Sides(r) # {}
  BY <1>3
<1> HIDE DEF sks
<1>5. PICK k \in Sides(r) : FirstOf(Sides(r), k, asc) /\ Unified(theirs, mine, asc) \ {NoKey} = Seen(k)
  BY <1>1, <1>4, UnifiedIsFirst
<1>6. Extreme(sks, asc) = k
  BY <1>3, <1>5, SidesFacts, ExtremeIsFirst
<1>7. TxIndexExtremes(r, asc) \ {NoKey} = Seen(Extreme(sks, asc))
  BY <1>2, <1>5, <1>6
<1> QED BY <1>7 DEF sks

\* A transaction reads its index as its view of the objects has it: all objects of a range, only such
\* within a limit, and those of the extreme key, whatever it has changed and whichever the backend is.
THEOREM TransactionsReadTheirIndex == Spec => []TxIndexReadsAgree
<1>1. IInv /\ ObjectsOK => TxIndexReadsAgree
  <2> SUFFICES ASSUME IInv, ObjectsOK, suspect = {}, ~thrown, NEW r \in AllRanges
               PROVE  LET sks == {sk \in Inside(r) : Seen(sk) # {}}
                          all == UNION {Seen(sk) : sk \in sks}
                          Left == \E pk \in Untouched(DOMAIN data) : ToSet(data[pk]) \cap Inside(r) # {}
                          Plain(asc) ==
                              \/ truncated
                              \/ kind = "leveldb" /\ (Left \/ IndexExtremes(r, asc) = {NoKey})
                              \/ kind = "lmdb" /\ ~LmdbAstray(r, asc) /\ \A sk \in SK : Len(index[sk]) < 2
                              \/ kind \in {"memory", "indexeddb"}
                      IN  /\ truncated \/ ~LmdbAstray(r, TRUE) =>
                                /\ TxIndexKeys(r) = all
                                /\ \A limit \in 0..2 : /\ LimitedTxIndexKeys(r, limit) \subseteq all
                                                      /\ Cardinality(LimitedTxIndexKeys(r, limit)) <= limit
                          /\ \A asc \in BOOLEAN : ~multi /\ sks # {} /\ Plain(asc) =>
                                TxIndexExtremes(r, asc) \ {NoKey} = Seen(Extreme(sks, asc))
    BY DEF TxIndexReadsAgree
  <2> DEFINE sks == {sk \in Inside(r) : Seen(sk) # {}}
             all == UNION {Seen(sk) : sk \in sks}
             Left == \E pk \in Untouched(DOMAIN data) : ToSet(data[pk]) \cap Inside(r) # {}
             Plain(asc) ==
                 \/ truncated
                 \/ kind = "leveldb" /\ (Left \/ IndexExtremes(r, asc) = {NoKey})
                 \/ kind = "lmdb" /\ ~LmdbAstray(r, asc) /\ \A sk \in SK : Len(index[sk]) < 2
                 \/ kind \in {"memory", "indexeddb"}
  <2>1. all = SeenIn(r)
    BY SeenInFacts
  <2> HIDE DEF all
  <2>2. truncated \/ ~LmdbAstray(r, TRUE) => TxIndexKeys(r) = all
    <3> HIDE DEF LmdbAstray, TxIndexKeys
    <3> QED BY <2>1, TxIndexKeysAreRight
  <2>3. ASSUME truncated \/ ~LmdbAstray(r, TRUE), NEW limit \in 0..2
        PROVE  LimitedTxIndexKeys(r, limit) \subseteq all /\ Cardinality(LimitedTxIndexKeys(r, limit)) <= limit
    <3>1. limit \in Nat
      OBVIOUS
    <3> QED BY <2>1, <2>3, <3>1, LimitedKeysAreRight
  <2>4. Left => Live(r) # {}
    BY DEF Live, Held, Holders, Inside, Untouched
  <2> HIDE DEF Left
  <2>5. ASSUME NEW asc \in BOOLEAN, ~multi, sks # {}, Plain(asc)
        PROVE  TxIndexExtremes(r, asc) \ {NoKey} = Seen(Extreme(sks, asc))
    <3>1. Simple
      BY <2>5 DEF Simple
    <3>2. \/ truncated
          \/ kind = "leveldb" /\ (Live(r) # {} \/ IndexExtremes(r, asc) = {NoKey})
          \/ kind = "lmdb" /\ ~LmdbAstray(r, asc) /\ \A sk \in SK : Len(index[sk]) < 2
          \/ kind \in {"memory", "indexeddb"}
      BY <2>4, <2>5
    <3> QED BY <2>5, <3>1, <3>2, TxExtremesAreRight
  <2> QED BY <2>2, <2>3, <2>5 DEF all, Left
<1> QED BY <1>1, Invariance, ObjectsInvariance, PTL
=============================================================================
