------------------------ MODULE CachedBackendProofs ------------------------
(***************************************************************************)
(* The cache in front of a database, for every set of keys and values,     *)
(* every size of its two maps and every number of reads under way.         *)
(***************************************************************************)
EXTENDS CachedBackend, SequenceLemmas, FiniteSetTheorems

-----------------------------------------------------------------------------
(***************************************************************************)
(* Differences                                                             *)
(***************************************************************************)

\* Reading through a difference yields contents again.
LEMMA OnType ==
    ASSUME NEW c \in Change, NEW b \in Contents
    PROVE  On(c, b) \in Contents
BY OverlayAssumption DEF Change, Contents, On, Get

\* put, remove, truncate and a merge leave a well-formed difference.
LEMMA ChangeType ==
    /\ NoChange \in Change /\ Emptied \in Change
    /\ \A c \in Change : \A k \in Key : RemoveKey(c, k) \in Change
    /\ \A c \in Change : \A k \in Key : \A v \in Value : PutKey(c, k, v) \in Change
    /\ \A c, d \in Change : Merge(c, d) \in Change
<1>1. NoChange \in Change
  BY DEF NoChange, Change
<1>2. Emptied \in Change
  BY DEF Emptied, Change
<1>3. \A c \in Change : \A k \in Key : RemoveKey(c, k) \in Change
  BY DEF RemoveKey, Change
<1>4. \A c \in Change : \A k \in Key : \A v \in Value : PutKey(c, k, v) \in Change
  BY DEF PutKey, Change
<1>5. \A c, d \in Change : Merge(c, d) \in Change
  BY DEF Merge, Change
<1> QED BY <1>1, <1>2, <1>3, <1>4, <1>5

-----------------------------------------------------------------------------
(***************************************************************************)
(* The operations of a LRU map                                             *)
(***************************************************************************)

Maps(V) == [map : [Key -> V \cup {Missing}], queue : Seq(Key)]

LEMMA UnqueueFacts ==
    ASSUME NEW q \in Seq(Key), NEW k \in Key, Distinct(q)
    PROVE  /\ Unqueue(q, k) \in Seq(Key) /\ Distinct(Unqueue(q, k))
           /\ \A j \in Key : Queued(Unqueue(q, k), j) <=> j # k /\ Queued(q, j)
<1>0. Len(q) \in Nat /\ DOMAIN q = 1..Len(q)
  OBVIOUS
<1>1. CASE ~Queued(q, k)
  BY <1>1 DEF Unqueue, Queued
<1>2. CASE Queued(q, k)
  <2> DEFINE i == CHOOSE i \in DOMAIN q : q[i] = k
  <2>1. i \in 1..Len(q) /\ q[i] = k
    BY <1>0, <1>2 DEF Queued
  <2>2. Unqueue(q, k) = RemoveAt(q, i)
    BY <1>2 DEF Unqueue
  <2> HIDE DEF i
  <2>3. RemoveAt(q, i) \in Seq(Key)
    BY <2>1, RemoveAtFacts
  <2> QED BY <2>1, <2>2, <2>3, RemoveFromDistinct DEF Queued
<1> QED BY <1>1, <1>2

LEMMA AccessFacts ==
    ASSUME NEW q \in Seq(Key), NEW k \in Key, Distinct(q)
    PROVE  /\ Access(q, k) \in Seq(Key) /\ Distinct(Access(q, k))
           /\ \A j \in Key : Queued(Access(q, k), j) <=> j = k \/ Queued(q, j)
<1> DEFINE u == Unqueue(q, k)
<1>1. u \in Seq(Key) /\ Distinct(u) /\ \A j \in Key : Queued(u, j) <=> j # k /\ Queued(q, j)
  BY UnqueueFacts
<1> HIDE DEF u
<1>2. /\ Append(u, k) \in Seq(Key) /\ DOMAIN u = 1..Len(u) /\ Len(u) \in Nat
      /\ DOMAIN Append(u, k) = 1..(Len(u) + 1)
      /\ \A i \in 1..Len(u) : Append(u, k)[i] = u[i]
      /\ Append(u, k)[Len(u) + 1] = k
  BY <1>1
<1>3. \A i \in 1..Len(u) : u[i] # k
  BY <1>1, <1>2 DEF Queued
<1>4. Distinct(Append(u, k))
  BY <1>1, <1>2, <1>3 DEF Distinct
<1>5. \A j \in Key : Queued(Append(u, k), j) <=> j = k \/ Queued(u, j)
  BY <1>2 DEF Queued
<1> QED BY <1>1, <1>2, <1>4, <1>5 DEF Access, u

\* Evicting from a map whose list holds its keys frees one entry, if there is one.
LEMMA EvictFacts ==
    ASSUME NEW V, Missing \notin V, NEW m \in Maps(V), QueueIsKeys(m), IsFiniteSet(Key)
    PROVE  /\ Evict(m) \in Maps(V) /\ QueueIsKeys(Evict(m))
           /\ \A j \in Key : Evict(m).map[j] \in {m.map[j], Missing}
           /\ IsFiniteSet(Entries(m)) /\ IsFiniteSet(Entries(Evict(m)))
           /\ Cardinality(Entries(m)) \in Nat
           /\ IF m.queue = <<>> THEN Entries(m) = {} /\ Evict(m) = m
              ELSE Cardinality(Entries(Evict(m))) = Cardinality(Entries(m)) - 1
<1>1. /\ m.queue \in Seq(Key) /\ m.map \in [Key -> V \cup {Missing}]
      /\ Distinct(m.queue) /\ \A k \in Key : Has(m, k) <=> Queued(m.queue, k)
  BY DEF Maps, QueueIsKeys, Distinct
<1>2. IsFiniteSet(Entries(m)) /\ Cardinality(Entries(m)) \in Nat
  BY FS_Subset, FS_CardinalityType DEF Entries
<1>3. CASE m.queue = <<>>
  <2>1. Entries(m) = {}
    BY <1>1, <1>3 DEF Entries, Queued
  <2> QED BY <1>1, <1>2, <1>3, <2>1 DEF Evict
<1>4. CASE m.queue # <<>>
  <2> DEFINE q == m.queue
             h == Head(q)
             e == Evict(m)
  <2>1. /\ h \in Key /\ Tail(q) \in Seq(Key) /\ Len(q) \in Nat /\ Len(q) >= 1
        /\ DOMAIN q = 1..Len(q) /\ DOMAIN Tail(q) = 1..(Len(q) - 1)
        /\ h = q[1] /\ \A i \in 1..(Len(q) - 1) : Tail(q)[i] = q[i + 1]
    BY <1>1, <1>4
  <2>2. e = [map |-> [m.map EXCEPT ![h] = Missing], queue |-> Tail(q)]
    BY <1>4 DEF Evict
  <2> HIDE DEF h, e
  <2>3. e \in Maps(V) /\ \A j \in Key : e.map[j] = IF j = h THEN Missing ELSE m.map[j]
    BY <1>1, <2>1, <2>2 DEF Maps
  <2>4. \A i, j \in 1..Len(q) : q[i] = q[j] => i = j
    BY <1>1, <2>1 DEF Distinct
  <2>5. \A i, j \in DOMAIN e.queue : e.queue[i] = e.queue[j] => i = j
    <3>1. e.queue = Tail(q)
      BY <2>2
    <3>2. \A i, j \in 1..(Len(q) - 1) : Tail(q)[i] = Tail(q)[j] => i = j
      BY <2>1, <2>4
    <3> QED BY <2>1, <3>1, <3>2
  <2>6. ASSUME NEW k \in Key
        PROVE  Queued(Tail(q), k) <=> k # h /\ Queued(q, k)
    <3>1. ASSUME NEW i \in 1..(Len(q) - 1), Tail(q)[i] = k
          PROVE  k # h /\ Queued(q, k)
      <4>1. i + 1 \in 1..Len(q) /\ 1 \in 1..Len(q) /\ q[i + 1] = k
        BY <2>1, <3>1
      <4>2. k # h
        BY <2>1, <2>4, <4>1
      <4> QED BY <2>1, <4>1, <4>2 DEF Queued
    <3>2. ASSUME NEW i \in 1..Len(q), q[i] = k, k # h
          PROVE  Queued(Tail(q), k)
      <4>1. i - 1 \in 1..(Len(q) - 1) /\ Tail(q)[i - 1] = q[i]
        BY <2>1, <3>2
      <4> QED BY <2>1, <3>2, <4>1 DEF Queued
    <3> QED BY <2>1, <3>1, <3>2 DEF Queued
  <2>7. \A k \in Key : Has(e, k) <=> Queued(e.queue, k)
    BY <1>1, <2>2, <2>3, <2>6 DEF Has
  <2>8. QueueIsKeys(e)
    BY <2>5, <2>7 DEF QueueIsKeys
  <2>9. Has(m, h)
    BY <1>1, <2>1 DEF Queued
  <2>10. Entries(e) = Entries(m) \ {h} /\ h \in Entries(m)
    BY <2>1, <2>3, <2>9 DEF Entries, Has
  <2>11. IsFiniteSet(Entries(e)) /\ Cardinality(Entries(e)) = Cardinality(Entries(m)) - 1
    BY <1>2, <2>10, FS_RemoveElement
  <2>12. \A j \in Key : e.map[j] \in {m.map[j], Missing}
    BY <2>3
  <2> HIDE DEF q
  <2> QED BY <1>2, <1>4, <2>3, <2>8, <2>11, <2>12 DEF e, q
<1> QED BY <1>3, <1>4

\* LRUMap.set: the map stays sound; the key has the new value or, in a map of size
\* 0, none; of the other keys at most one is lost and none changes.
THEOREM PutFacts ==
    ASSUME NEW V, Missing \notin V, NEW m \in Maps(V), QueueIsKeys(m), IsFiniteSet(Key),
           NEW max \in Nat, Bounded(m, max), NEW k \in Key, NEW v \in V
    PROVE  /\ Put(m, k, v, max) \in Maps(V)
           /\ QueueIsKeys(Put(m, k, v, max)) /\ Bounded(Put(m, k, v, max), max)
           /\ Put(m, k, v, max).map[k] \in {v, Missing}
           /\ \A j \in Key : j # k => Put(m, k, v, max).map[j] \in {m.map[j], Missing}
<1> DEFINE e == IF Cardinality(Entries(m)) >= max THEN Evict(m) ELSE m
           n == [map |-> [e.map EXCEPT ![k] = v], queue |-> Access(e.queue, k)]
           r == Put(m, k, v, max)
<1>1. /\ e \in Maps(V) /\ QueueIsKeys(e) /\ IsFiniteSet(Entries(e))
      /\ Cardinality(Entries(e)) \in Nat
      /\ \A j \in Key : e.map[j] \in {m.map[j], Missing}
  BY EvictFacts, FS_CardinalityType
<1>2. Cardinality(Entries(e)) < max \/ (max = 0 /\ Entries(e) = {})
  <2>1. Cardinality(Entries(m)) \in Nat /\ Cardinality(Entries(m)) <= max
    BY EvictFacts DEF Bounded
  <2>2. CASE Cardinality(Entries(m)) >= max /\ m.queue = <<>>
    <3>1. Entries(m) = {} /\ e = m
      BY <2>2, EvictFacts
    <3>2. max = 0
      BY <2>2, <3>1, FS_EmptySet
    <3> QED BY <3>1, <3>2
  <2>3. CASE Cardinality(Entries(m)) >= max /\ m.queue # <<>>
    <3>1. e = Evict(m) /\ Cardinality(Entries(Evict(m))) = Cardinality(Entries(m)) - 1
      BY <2>3, EvictFacts
    <3> HIDE DEF e
    <3> QED BY <2>1, <3>1
  <2>4. CASE ~(Cardinality(Entries(m)) >= max)
    BY <2>1, <2>4
  <2> QED BY <2>2, <2>3, <2>4
<1>3. r = IF Cardinality(Entries(e)) < max THEN n ELSE e
  BY DEF Put
<1> HIDE DEF e, r
<1>4. CASE Cardinality(Entries(e)) < max
  <2>1. e.queue \in Seq(Key) /\ Distinct(e.queue) /\ e.map \in [Key -> V \cup {Missing}]
        /\ \A j \in Key : Has(e, j) <=> Queued(e.queue, j)
    BY <1>1 DEF Maps, QueueIsKeys, Distinct
  <2>2. /\ n.queue \in Seq(Key) /\ Distinct(n.queue)
        /\ \A j \in Key : Queued(n.queue, j) <=> j = k \/ Queued(e.queue, j)
    BY <2>1, AccessFacts
  <2>3. /\ n.map \in [Key -> V \cup {Missing}]
        /\ \A j \in Key : n.map[j] = IF j = k THEN v ELSE e.map[j]
    BY <2>1
  <2>4. n \in Maps(V)
    BY <2>2, <2>3 DEF Maps
  <2> HIDE DEF n
  <2>5. \A j \in Key : Has(n, j) <=> j = k \/ Has(e, j)
    BY <2>3 DEF Has
  <2>6. QueueIsKeys(n)
    BY <2>1, <2>2, <2>5 DEF QueueIsKeys, Distinct
  <2>7. Entries(n) = Entries(e) \cup {k}
    BY <2>5 DEF Entries
  <2>8. Bounded(n, max)
    <3>1. Cardinality(Entries(n)) \in {Cardinality(Entries(e)), Cardinality(Entries(e)) + 1}
      BY <1>1, <2>7, FS_AddElement
    <3> QED BY <1>1, <1>4, <3>1 DEF Bounded
  <2> QED BY <1>1, <1>3, <1>4, <2>3, <2>4, <2>6, <2>8 DEF r
<1>5. CASE ~(Cardinality(Entries(e)) < max)
  <2>1. max = 0 /\ Entries(e) = {} /\ r = e
    BY <1>2, <1>3, <1>5
  <2>2. e.map[k] = Missing
    BY <2>1 DEF Entries, Has
  <2>3. Bounded(e, max)
    BY <2>1, FS_EmptySet DEF Bounded
  <2> QED BY <1>1, <2>1, <2>2, <2>3 DEF r
<1> QED BY <1>4, <1>5

LEMMA DropFacts ==
    ASSUME NEW V, Missing \notin V, NEW m \in Maps(V), QueueIsKeys(m), IsFiniteSet(Key),
           NEW max \in Nat, Bounded(m, max), NEW k \in Key
    PROVE  /\ Drop(m, k) \in Maps(V) /\ QueueIsKeys(Drop(m, k)) /\ Bounded(Drop(m, k), max)
           /\ Drop(m, k).map[k] = Missing
           /\ \A j \in Key : j # k => Drop(m, k).map[j] = m.map[j]
<1> DEFINE d == Drop(m, k)
<1>1. /\ m.queue \in Seq(Key) /\ Distinct(m.queue) /\ m.map \in [Key -> V \cup {Missing}]
      /\ \A j \in Key : Has(m, j) <=> Queued(m.queue, j)
  BY DEF Maps, QueueIsKeys, Distinct
<1>2. d = [map |-> [m.map EXCEPT ![k] = Missing], queue |-> Unqueue(m.queue, k)]
  BY DEF Drop
<1>3. /\ d.queue \in Seq(Key) /\ Distinct(d.queue)
      /\ \A j \in Key : Queued(d.queue, j) <=> j # k /\ Queued(m.queue, j)
  <2>1. d.queue = Unqueue(m.queue, k)
    BY <1>2
  <2>2. /\ Unqueue(m.queue, k) \in Seq(Key) /\ Distinct(Unqueue(m.queue, k))
        /\ \A j \in Key : Queued(Unqueue(m.queue, k), j) <=> j # k /\ Queued(m.queue, j)
    BY <1>1, UnqueueFacts
  <2> HIDE DEF d
  <2> QED BY <2>1, <2>2
<1> HIDE DEF d
<1>4. d.map \in [Key -> V \cup {Missing}] /\ \A j \in Key : d.map[j] = IF j = k THEN Missing ELSE m.map[j]
  BY <1>1, <1>2
<1>5. d \in Maps(V)
  BY <1>2, <1>3, <1>4 DEF Maps
<1>6. \A j \in Key : Has(d, j) <=> j # k /\ Has(m, j)
  BY <1>4 DEF Has
<1>7. QueueIsKeys(d)
  BY <1>1, <1>3, <1>6 DEF QueueIsKeys, Distinct
<1>8. Entries(d) \subseteq Entries(m)
  BY <1>6 DEF Entries
<1>9. Bounded(d, max)
  <2>1. IsFiniteSet(Entries(m)) /\ Entries(m) \subseteq Key
    BY FS_Subset DEF Entries
  <2>2. Cardinality(Entries(d)) <= Cardinality(Entries(m))
    BY <1>8, <2>1, FS_Subset
  <2>3. Cardinality(Entries(d)) \in Nat /\ Cardinality(Entries(m)) \in Nat
    BY <1>8, <2>1, FS_Subset, FS_CardinalityType
  <2> QED BY <2>2, <2>3 DEF Bounded
<1> QED BY <1>4, <1>5, <1>7, <1>9 DEF d

\* LRUMap.get of a key of the map (of another it would leave the list longer than
\* the map).
LEMMA UseFacts ==
    ASSUME NEW V, Missing \notin V, NEW m \in Maps(V), QueueIsKeys(m),
           NEW k \in Key, Has(m, k)
    PROVE  /\ Use(m, k) \in Maps(V) /\ QueueIsKeys(Use(m, k))
           /\ Use(m, k).map = m.map /\ Entries(Use(m, k)) = Entries(m)
<1>1. /\ m.queue \in Seq(Key) /\ Distinct(m.queue) /\ m.map \in [Key -> V \cup {Missing}]
      /\ \A j \in Key : Has(m, j) <=> Queued(m.queue, j)
  BY DEF Maps, QueueIsKeys, Distinct
<1> DEFINE a == Access(m.queue, k)
           u == [map |-> m.map, queue |-> a]
<1>2. Use(m, k) = u
  BY DEF Use, Maps
<1>3. a \in Seq(Key) /\ Distinct(a) /\ \A j \in Key : Queued(a, j) <=> j = k \/ Queued(m.queue, j)
  BY <1>1, AccessFacts
<1> HIDE DEF a
<1>4. \A j \in Key : Has(u, j) <=> Has(m, j)
  BY DEF Has
<1>5. u \in Maps(V) /\ QueueIsKeys(u)
  BY <1>1, <1>3, <1>4 DEF Maps, QueueIsKeys, Distinct
<1>6. Entries(u) = Entries(m)
  BY <1>4 DEF Entries
<1> QED BY <1>2, <1>5, <1>6

-----------------------------------------------------------------------------
(***************************************************************************)
(* The inductive invariant                                                 *)
(***************************************************************************)

Sound ==
    /\ cache \in Maps(Cell) /\ QueueIsKeys(cache) /\ Bounded(cache, MaxCache)
    /\ raw \in Maps(RawCell) /\ QueueIsKeys(raw) /\ Bounded(raw, MaxRaw)

\* The two parts of CurrentUnlessSuspect.
CachedIsCurrent ==
    \A k \in Key \ (suspect \cup Behind) :
        /\ Has(cache, k) => cache.map[k] = Current[k]
        /\ Has(raw, k) => raw.map[k] = Encode(Current[k])

AnswersAreCurrent ==
    \A r \in Reader :
        read[r] # NoRead /\ read[r].phase = "answered" /\ read[r].key \notin suspect \cup Behind
            => read[r].value = Current[read[r].key]

\* The keys of a transaction that is being written behind the cache, or that the
\* cache has still to take over.
Pending == IF flush.phase = "writing" THEN Changed(flush.change) ELSE todo

\* Such a key is suspect, or has neither an encoded value nor a read under way.
Quiet == \A k \in Pending \ suspect : ~Has(raw, k) /\ ~InFlight(k)

\* What the callback of a combined flush puts in the cache is in the database, but
\* for the suspect keys.
PutsAreWritten ==
    flush.phase = "caching" =>
        \A k \in todo \ suspect : flush.change.cell[k] \in {Absent, db[k]}

\* A member only grows after its changes were encoded.
BatchIsWithin == flush.phase = "batch" => Changed(flush.batch) \subseteq Changed(flush.change)

\* What is said of combined flushes only.
CombinedParts == PutsAreWritten /\ BatchIsWithin

Inv ==
    /\ TypeOK /\ CachesAreSound /\ CachedIsCurrent /\ AnswersAreCurrent
    /\ Quiet /\ CombinedParts

\* The facts about the constants that the steps need.
LEMMA Constants ==
    /\ IsFiniteSet(Key) /\ MaxCache \in Nat /\ MaxRaw \in Nat
    /\ Missing \notin Cell /\ Missing \notin RawCell
    /\ \A v \in Cell : Encode(v) \in RawCell /\ Decode(Encode(v)) = v
    /\ \A e \in RawCell : Decode(e) \in Cell
<1>1. ASSUME NEW v \in Cell PROVE Encode(v) \in RawCell /\ Decode(Encode(v)) = v
  <2>1. CASE v = Absent
    BY <2>1 DEF Encode, Decode, RawCell
  <2>2. CASE v # Absent
    <3>1. v \in Value /\ Encode(v) = <<v, "encoded">> /\ <<v, "encoded">> \in Value \X {"encoded"}
      BY <2>2 DEF Cell, Encode
    <3>2. <<v, "encoded">> # Absent
      BY <3>1, CacheAssumption
    <3> QED BY <3>1, <3>2 DEF Decode, RawCell
  <2> QED BY <2>1, <2>2
<1>2. ASSUME NEW e \in RawCell PROVE Decode(e) \in Cell
  BY DEF RawCell, Decode, Cell
<1>3. Missing \notin Cell /\ Missing \notin RawCell
  BY CacheAssumption DEF Cell, RawCell
<1> QED BY <1>1, <1>2, <1>3, CacheAssumption

LEMMA MapsAreSound == TypeOK /\ CachesAreSound <=> TypeOK /\ Sound
BY DEF TypeOK, CachesAreSound, Sound, Maps

LEMMA AppliedFacts ==
    ASSUME NEW c \in Applied, NEW b \in Contents
    PROVE  /\ c \in Change /\ On(c, b) \in Contents /\ Changed(c) \subseteq Key
           /\ \A k \in Key \ Changed(c) : On(c, b)[k] = b[k]
           /\ \A k \in Key : c.cell[k] # Untouched => k \in Changed(c) /\ On(c, b)[k] = c.cell[k]
           /\ \A k \in Key : c.cell[k] # Untouched => c.cell[k] \in Cell
<1>1. c \in Change /\ \A k \in Key : c.cell[k] # Undefined
  BY DEF Applied
<1>2. On(c, b) \in Contents
  BY <1>1, OnType
<1>3. \A k \in Key : On(c, b)[k] = Get(c, b, k)
  BY DEF On
<1>4. c.cell \in [Key -> Value \cup {Absent, Untouched, Undefined}]
  BY <1>1 DEF Change
<1>5. \A k \in Key : c.cell[k] # Untouched => c.cell[k] \in Cell
  BY <1>1, <1>4 DEF Cell
<1> QED BY <1>1, <1>2, <1>3, <1>5 DEF Get, Changed

\* A merge into a member touches all that the member has touched.
LEMMA MergeFacts ==
    ASSUME NEW c \in Applied, NEW d \in Applied, ~d.truncated
    PROVE  Merge(c, d) \in Applied /\ Changed(c) \subseteq Changed(Merge(c, d))
<1>1. c \in Change /\ d \in Change /\ Merge(c, d) \in Change
  BY ChangeType DEF Applied
<1>2. /\ \A k \in Key : Merge(c, d).cell[k] = IF d.cell[k] # Untouched THEN d.cell[k] ELSE c.cell[k]
      /\ c.truncated => Merge(c, d).truncated
  BY DEF Merge
<1>3. \A k \in Key : Merge(c, d).cell[k] # Undefined
  BY <1>2 DEF Applied
<1>4. \A k \in Key : c.cell[k] # Untouched => Merge(c, d).cell[k] # Untouched
  BY <1>2
<1> QED BY <1>1, <1>2, <1>3, <1>4 DEF Applied, Changed

LEMMA NoChangeApplied ==
    NoChange \in Applied /\ Changed(NoChange) = {}
<1>1. NoChange \in Change
  BY ChangeType
<1>2. \A k \in Key : NoChange.cell[k] = Untouched
  BY DEF NoChange
<1>3. ~NoChange.truncated
  BY DEF NoChange
<1> QED BY <1>1, <1>2, <1>3, OverlayAssumption DEF Applied, Changed

\* In the two maps at most the entry of k gets a new value, in C and in R.
OnlyKeeps(k, C, R) ==
    \A j \in Key :
        /\ cache'.map[j] \in {cache.map[j], Missing} \/ (j = k /\ cache'.map[j] \in C)
        /\ raw'.map[j] \in {raw.map[j], Missing} \/ (j = k /\ raw'.map[j] \in R)

LEMMA KeepFacts ==
    ASSUME Sound, NEW k \in Key, NEW encoded \in BOOLEAN, NEW v \in Cell, Keep(k, encoded, v)
    PROVE  Sound' /\ OnlyKeeps(k, {v}, {Encode(v)})
<1>1. CASE encoded
  <2>1. raw' = Put(raw, k, Encode(v), MaxRaw) /\ cache' = cache
    BY <1>1 DEF Keep
  <2>2. /\ raw' \in Maps(RawCell) /\ QueueIsKeys(raw') /\ Bounded(raw', MaxRaw)
        /\ raw'.map[k] \in {Encode(v), Missing}
        /\ \A j \in Key : j # k => raw'.map[j] \in {raw.map[j], Missing}
    BY <2>1, PutFacts, Constants DEF Sound
  <2> QED BY <2>1, <2>2 DEF Sound, OnlyKeeps
<1>2. CASE ~encoded
  <2>1. cache' = Put(cache, k, v, MaxCache) /\ raw' = raw
    BY <1>2 DEF Keep
  <2>2. /\ cache' \in Maps(Cell) /\ QueueIsKeys(cache') /\ Bounded(cache', MaxCache)
        /\ cache'.map[k] \in {v, Missing}
        /\ \A j \in Key : j # k => cache'.map[j] \in {cache.map[j], Missing}
    BY <2>1, PutFacts, Constants DEF Sound
  <2> QED BY <2>1, <2>2 DEF Sound, OnlyKeeps
<1> QED BY <1>1, <1>2

\* A hit, with the conversion if there is one.
LEMMA FromCacheFacts ==
    ASSUME Sound, NEW k \in Key, NEW encoded \in BOOLEAN, Cached(k), FromCache(k, encoded)
    PROVE  /\ Sound'
           /\ OnlyKeeps(k, IF Has(raw, k) THEN {Decode(raw.map[k])} ELSE {},
                           IF Has(cache, k) THEN {Encode(cache.map[k])} ELSE {})
<1>1. CASE encoded /\ Has(raw, k)
  <2>1. raw' = Use(raw, k) /\ cache' = cache
    BY <1>1 DEF FromCache
  <2>2. raw' \in Maps(RawCell) /\ QueueIsKeys(raw') /\ raw'.map = raw.map /\ Entries(raw') = Entries(raw)
    BY <1>1, <2>1, UseFacts, Constants DEF Sound
  <2> QED BY <2>1, <2>2 DEF Sound, OnlyKeeps, Bounded
<1>2. CASE ~encoded /\ Has(cache, k)
  <2>1. cache' = Use(cache, k) /\ raw' = raw
    BY <1>2 DEF FromCache
  <2>2. /\ cache' \in Maps(Cell) /\ QueueIsKeys(cache')
        /\ cache'.map = cache.map /\ Entries(cache') = Entries(cache)
    BY <1>2, <2>1, UseFacts, Constants DEF Sound
  <2> QED BY <2>1, <2>2 DEF Sound, OnlyKeeps, Bounded
<1>3. CASE encoded /\ ~Has(raw, k)
  <2>1. /\ Has(cache, k) /\ cache.map[k] \in Cell
        /\ cache' = Use(cache, k) /\ raw' = Put(raw, k, Encode(cache.map[k]), MaxRaw)
    BY <1>3 DEF FromCache, Cached, Sound, Maps, Has
  <2>2. /\ cache' \in Maps(Cell) /\ QueueIsKeys(cache')
        /\ cache'.map = cache.map /\ Entries(cache') = Entries(cache)
    BY <2>1, UseFacts, Constants DEF Sound
  <2>3. /\ raw' \in Maps(RawCell) /\ QueueIsKeys(raw') /\ Bounded(raw', MaxRaw)
        /\ raw'.map[k] \in {Encode(cache.map[k]), Missing}
        /\ \A j \in Key : j # k => raw'.map[j] \in {raw.map[j], Missing}
    <3>1. Encode(cache.map[k]) \in RawCell
      BY <2>1, Constants
    <3> QED BY <2>1, <3>1, PutFacts, Constants DEF Sound
  <2> QED BY <2>1, <2>2, <2>3 DEF Sound, OnlyKeeps, Bounded
<1>4. CASE ~encoded /\ ~Has(cache, k)
  <2>1. /\ Has(raw, k) /\ raw.map[k] \in RawCell
        /\ raw' = Use(raw, k) /\ cache' = Put(cache, k, Decode(raw.map[k]), MaxCache)
    BY <1>4 DEF FromCache, Cached, Sound, Maps, Has
  <2>2. raw' \in Maps(RawCell) /\ QueueIsKeys(raw') /\ raw'.map = raw.map /\ Entries(raw') = Entries(raw)
    BY <2>1, UseFacts, Constants DEF Sound
  <2>3. /\ cache' \in Maps(Cell) /\ QueueIsKeys(cache') /\ Bounded(cache', MaxCache)
        /\ cache'.map[k] \in {Decode(raw.map[k]), Missing}
        /\ \A j \in Key : j # k => cache'.map[j] \in {cache.map[j], Missing}
    <3>1. Decode(raw.map[k]) \in Cell
      BY <2>1, Constants
    <3> QED BY <2>1, <3>1, PutFacts, Constants DEF Sound
  <2> QED BY <2>1, <2>2, <2>3 DEF Sound, OnlyKeeps, Bounded
<1> QED BY <1>1, <1>2, <1>3, <1>4

\* Keeping the current value of a key leaves the caches current.
LEMMA KeepsCurrent ==
    ASSUME Inv, UNCHANGED <<db, flush, todo, suspect>>, NEW k \in Key, NEW C, NEW R,
           OnlyKeeps(k, C, R),
           k \notin suspect \cup Behind => C \subseteq {Current[k]} /\ R \subseteq {Encode(Current[k])}
    PROVE  CachedIsCurrent' /\ Behind' = Behind /\ Current' = Current /\ CombinedParts'
<1>1. Behind' = Behind /\ Current' = Current /\ CombinedParts'
  BY DEF Behind, Current, Inv, CombinedParts, PutsAreWritten, BatchIsWithin, Changed
<1>2. ASSUME NEW j \in Key, j \notin suspect \cup Behind
      PROVE  /\ Has(cache', j) => cache'.map[j] = Current[j]
             /\ Has(raw', j) => raw'.map[j] = Encode(Current[j])
  <2>1. /\ Has(cache, j) => cache.map[j] = Current[j]
        /\ Has(raw, j) => raw.map[j] = Encode(Current[j])
    BY <1>2 DEF Inv, CachedIsCurrent
  <2> QED BY <1>2, <2>1 DEF Has, OnlyKeeps
<1> QED BY <1>1, <1>2 DEF CachedIsCurrent

\* A read of an unchanged key does not disturb Quiet.
LEMMA KeepsQuiet ==
    ASSUME Inv, UNCHANGED <<flush, todo, suspect>>, NEW k \in Key, NEW C, NEW R,
           OnlyKeeps(k, C, R), k \notin Pending \ suspect,
           \A j \in Key \ {k} : InFlight(j)' => InFlight(j)
    PROVE  Quiet'
<1>1. ASSUME NEW j \in Pending \ suspect, j \in Key
      PROVE  ~Has(raw', j) /\ ~InFlight(j)'
  <2>1. ~Has(raw, j) /\ ~InFlight(j) /\ j # k
    BY <1>1 DEF Inv, Quiet
  <2> QED BY <1>1, <2>1 DEF Has, OnlyKeeps
<1>2. Pending \subseteq Key
  BY DEF Pending, Changed, Inv, TypeOK
<1>3. Pending' = Pending
  BY DEF Pending, Changed
<1> QED BY <1>1, <1>2, <1>3 DEF Quiet

\* A hit conveys the current value from one map to the other.
LEMMA HitIsCurrent ==
    ASSUME Inv, NEW k \in Key, k \notin suspect \cup Behind
    PROVE  /\ (IF Has(raw, k) THEN {Decode(raw.map[k])} ELSE {}) \subseteq {Current[k]}
           /\ (IF Has(cache, k) THEN {Encode(cache.map[k])} ELSE {}) \subseteq {Encode(Current[k])}
<1>1. Current[k] \in Cell
  <2>1. db \in Contents /\ flush.change \in Applied
    BY DEF Inv, TypeOK
  <2>2. On(flush.change, db) \in Contents
    BY <2>1, AppliedFacts
  <2> QED BY <2>1, <2>2 DEF Current, Contents, Cell
<1>2. Decode(Encode(Current[k])) = Current[k]
  BY <1>1, Constants
<1>3. /\ Has(cache, k) => cache.map[k] = Current[k]
      /\ Has(raw, k) => raw.map[k] = Encode(Current[k])
  BY DEF Inv, CachedIsCurrent
<1> QED BY <1>2, <1>3

-----------------------------------------------------------------------------
(***************************************************************************)
(* Reads                                                                   *)
(***************************************************************************)

\* A key the store forwards is not one that a flush is changing.
LEMMA ForwardedFacts ==
    ASSUME Inv, NEW k \in Key, Settled, Forwarded(k)
    PROVE  k \notin Pending \ suspect
BY DEF Settled, Pending, Forwarded, NoFlush

LEMMA AskStep ==
    ASSUME Inv, NEW r \in Reader, NEW k \in Key, NEW encoded \in BOOLEAN, Ask(r, k, encoded)
    PROVE  Inv'
<1>0. Sound /\ TypeOK
  BY MapsAreSound DEF Inv
<1>1. CASE Cached(k)
  <2>1. /\ FromCache(k, encoded) /\ UNCHANGED <<db, flush, todo, suspect, read>>
        /\ Settled /\ Forwarded(k)
    BY <1>1 DEF Ask
  <2> DEFINE C == IF Has(raw, k) THEN {Decode(raw.map[k])} ELSE {}
             R == IF Has(cache, k) THEN {Encode(cache.map[k])} ELSE {}
  <2>2. Sound' /\ OnlyKeeps(k, C, R)
    BY <1>0, <1>1, <2>1, FromCacheFacts
  <2>3. k \notin suspect \cup Behind => C \subseteq {Current[k]} /\ R \subseteq {Encode(Current[k])}
    BY HitIsCurrent
  <2> HIDE DEF C, R
  <2>4. CachedIsCurrent' /\ Behind' = Behind /\ Current' = Current /\ CombinedParts'
    BY <2>1, <2>2, <2>3, KeepsCurrent
  <2>5. \A j \in Key : InFlight(j)' <=> InFlight(j)
    BY <2>1 DEF InFlight
  <2>6. Quiet'
    BY <2>1, <2>2, <2>5, KeepsQuiet, ForwardedFacts
  <2>7. AnswersAreCurrent'
    BY <2>1, <2>4 DEF Inv, AnswersAreCurrent
  <2>8. TypeOK'
    BY <1>0, <2>1, <2>2 DEF TypeOK, Sound, Maps
  <2> QED BY <2>2, <2>4, <2>6, <2>7, <2>8, MapsAreSound DEF Inv, Sound, CachesAreSound
<1>2. CASE ~Cached(k)
  <2> DEFINE a == [phase |-> "asked", key |-> k, encoded |-> encoded, value |-> Absent]
  <2>1. /\ read' = [read EXCEPT ![r] = a] /\ Settled /\ Forwarded(k) /\ read[r] = NoRead
        /\ UNCHANGED <<db, cache, raw, flush, todo, suspect>>
    BY <1>2 DEF Ask
  <2>2. \A q \in Reader : read'[q] = IF q = r THEN a ELSE read[q]
    BY <1>0, <2>1 DEF TypeOK
  <2>3. a # NoRead /\ a.phase = "asked" /\ a.key = k
    BY DEF NoRead
  <2>4. TypeOK'
    <3>1. a \in [phase : {"asked", "answered"}, key : Key, encoded : BOOLEAN, value : Cell]
      BY DEF Cell
    <3> HIDE DEF a
    <3>2. read' \in [Reader -> {NoRead} \cup [phase : {"asked", "answered"}, key : Key,
                                              encoded : BOOLEAN, value : Cell]]
      BY <1>0, <2>1, <3>1 DEF TypeOK
    <3> QED BY <1>0, <2>1, <3>2 DEF TypeOK
  <2> HIDE DEF a
  <2>5. OnlyKeeps(k, {}, {})
    BY <2>1 DEF OnlyKeeps
  <2>6. CachedIsCurrent' /\ Behind' = Behind /\ Current' = Current /\ CombinedParts'
    BY <2>1, <2>5, KeepsCurrent
  <2>7. \A j \in Key \ {k} : InFlight(j)' => InFlight(j)
    BY <2>2, <2>3 DEF InFlight
  <2>8. Quiet'
    BY <2>1, <2>5, <2>7, KeepsQuiet, ForwardedFacts
  <2>9. AnswersAreCurrent'
    <3>1. ASSUME NEW q \in Reader, read'[q] # NoRead, read'[q].phase = "answered",
                 read'[q].key \notin suspect \cup Behind
          PROVE  read'[q].value = Current[read'[q].key]
      <4>1. q # r /\ read'[q] = read[q]
        BY <2>2, <2>3, <3>1
      <4> QED BY <3>1, <4>1 DEF Inv, AnswersAreCurrent
    <3> QED BY <2>1, <2>6, <3>1 DEF AnswersAreCurrent
  <2> QED BY <2>1, <2>4, <2>6, <2>8, <2>9 DEF Inv, CachesAreSound
<1> QED BY <1>1, <1>2

LEMMA AnswerStep ==
    ASSUME Inv, NEW r \in Reader, Answer(r)
    PROVE  Inv'
<1>1. /\ todo = {} /\ read[r] # NoRead /\ read[r].phase = "asked"
      /\ UNCHANGED <<db, cache, raw, flush, todo, suspect>>
  BY DEF Answer, Settled
<1>2. TypeOK
  BY DEF Inv
<1> DEFINE k == read[r].key
           a == [phase |-> "answered", key |-> k, encoded |-> read[r].encoded, value |-> db[k]]
<1>3. /\ read[r] \in [phase : {"asked", "answered"}, key : Key, encoded : BOOLEAN, value : Cell]
      /\ k \in Key /\ db[k] \in Cell
  BY <1>1, <1>2 DEF TypeOK, Contents, Cell
<1>4. read' = [read EXCEPT ![r] = a]
  BY DEF Answer
<1>5. a \in [phase : {"asked", "answered"}, key : Key, encoded : BOOLEAN, value : Cell]
  BY <1>3
<1>6. a # NoRead /\ a.key = k /\ a.value = db[k]
  BY DEF NoRead
<1> HIDE DEF a, k
<1>7. TypeOK'
  <2>1. read' \in [Reader -> {NoRead} \cup [phase : {"asked", "answered"}, key : Key,
                                            encoded : BOOLEAN, value : Cell]]
    BY <1>2, <1>4, <1>5 DEF TypeOK
  <2> QED BY <1>1, <1>2, <2>1 DEF TypeOK
<1>8. \A q \in Reader : read'[q] = IF q = r THEN a ELSE read[q]
  BY <1>2, <1>4 DEF TypeOK
<1>9. \A j \in Key : InFlight(j)' <=> InFlight(j)
  BY <1>1, <1>6, <1>8 DEF InFlight, k
<1>10. OnlyKeeps(k, {}, {})
  BY <1>1 DEF OnlyKeeps
<1>11. CachedIsCurrent' /\ Behind' = Behind /\ Current' = Current /\ CombinedParts'
  BY <1>1, <1>3, <1>10, KeepsCurrent
<1>12. Quiet'
  BY <1>1, <1>9 DEF Inv, Quiet, Pending, Changed
<1>13. k \notin suspect => db[k] = Current[k]
  <2>1. InFlight(k)
    BY <1>1 DEF InFlight, k
  <2>2. flush.phase = "writing" /\ k \notin suspect => k \notin Changed(flush.change)
    BY <2>1 DEF Inv, Quiet, Pending
  <2>3. flush.change \in Applied /\ db \in Contents
    BY <1>2 DEF TypeOK
  <2> QED BY <1>3, <2>2, <2>3, AppliedFacts DEF Current
<1>14. AnswersAreCurrent'
  <2>1. ASSUME NEW q \in Reader, read'[q] # NoRead, read'[q].phase = "answered",
               read'[q].key \notin suspect \cup Behind
        PROVE  read'[q].value = Current[read'[q].key]
    <3>1. CASE q = r
      BY <1>6, <1>8, <1>13, <2>1, <3>1
    <3>2. CASE q # r
      BY <1>8, <2>1, <3>2 DEF Inv, AnswersAreCurrent
    <3> QED BY <3>1, <3>2
  <2> QED BY <1>1, <1>11, <2>1 DEF AnswersAreCurrent
<1> QED BY <1>1, <1>7, <1>11, <1>12, <1>14 DEF Inv, CachesAreSound

LEMMA ReturnStep ==
    ASSUME Inv, NEW r \in Reader, Return(r)
    PROVE  Inv'
<1> DEFINE k == read[r].key
           v == read[r].value
<1>1. /\ todo = {} /\ read[r] # NoRead /\ read[r].phase = "answered"
      /\ Keep(k, read[r].encoded, v) /\ read' = [read EXCEPT ![r] = NoRead]
      /\ UNCHANGED <<db, flush, todo, suspect>>
  BY DEF Return, Settled
<1>2. Sound /\ TypeOK
  BY MapsAreSound DEF Inv
<1>3. k \in Key /\ read[r].encoded \in BOOLEAN /\ v \in Cell
  BY <1>1, <1>2 DEF TypeOK
<1>4. InFlight(k)
  BY <1>1 DEF InFlight
<1>5. k \notin suspect \cup Behind => v = Current[k]
  BY <1>1 DEF Inv, AnswersAreCurrent
<1> HIDE DEF k, v
<1>6. Sound' /\ OnlyKeeps(k, {v}, {Encode(v)})
  BY <1>1, <1>2, <1>3, KeepFacts
<1>7. CachedIsCurrent' /\ Behind' = Behind /\ Current' = Current /\ CombinedParts'
  BY <1>1, <1>3, <1>5, <1>6, KeepsCurrent
<1>8. \A q \in Reader : read'[q] = IF q = r THEN NoRead ELSE read[q]
  BY <1>1, <1>2 DEF TypeOK
<1>9. \A j \in Key : InFlight(j)' => InFlight(j)
  BY <1>8 DEF InFlight
<1>10. k \notin Pending \ suspect
  BY <1>4 DEF Inv, Quiet
<1>11. Quiet'
  BY <1>1, <1>3, <1>6, <1>9, <1>10, KeepsQuiet
<1>12. AnswersAreCurrent'
  BY <1>1, <1>7, <1>8 DEF Inv, AnswersAreCurrent
<1>13. TypeOK'
  BY <1>1, <1>2, <1>6, <1>8 DEF TypeOK, Sound, Maps
<1> QED BY <1>6, <1>7, <1>11, <1>12, <1>13, MapsAreSound DEF Inv, Sound, CachesAreSound

LEMMA GetSyncStep ==
    ASSUME Inv, NEW k \in Key, NEW encoded \in BOOLEAN, GetSync(k, encoded)
    PROVE  Inv'
<1>1. /\ Keep(k, encoded, db[k]) /\ Settled /\ Forwarded(k)
      /\ UNCHANGED <<db, read, flush, todo, suspect>>
  BY DEF GetSync
<1>2. Sound /\ TypeOK
  BY MapsAreSound DEF Inv
<1>3. db[k] \in Cell
  BY <1>2 DEF TypeOK, Contents, Cell
<1>4. db[k] = Current[k]
  <2>1. flush.phase = "writing" => k \notin Changed(flush.change)
    BY <1>1 DEF Forwarded, NoFlush
  <2>2. flush.change \in Applied /\ db \in Contents
    BY <1>2 DEF TypeOK
  <2>3. k \notin Changed(flush.change) => On(flush.change, db)[k] = db[k]
    BY <2>2, AppliedFacts
  <2> QED BY <2>1, <2>3 DEF Current
<1>5. Sound' /\ OnlyKeeps(k, {db[k]}, {Encode(db[k])})
  BY <1>1, <1>2, <1>3, KeepFacts
<1>6. CachedIsCurrent' /\ Behind' = Behind /\ Current' = Current /\ CombinedParts'
  BY <1>1, <1>4, <1>5, KeepsCurrent
<1>7. \A j \in Key : InFlight(j)' => InFlight(j)
  BY <1>1 DEF InFlight
<1>8. Quiet'
  BY <1>1, <1>5, <1>7, KeepsQuiet, ForwardedFacts
<1>9. AnswersAreCurrent'
  BY <1>1, <1>6 DEF Inv, AnswersAreCurrent
<1>10. TypeOK'
  BY <1>1, <1>2, <1>5 DEF TypeOK, Sound, Maps
<1> QED BY <1>5, <1>6, <1>8, <1>9, <1>10, MapsAreSound DEF Inv, Sound, CachesAreSound

-----------------------------------------------------------------------------
(***************************************************************************)
(* Flushes                                                                 *)
(***************************************************************************)

\* _applyLocally begins: what a truncation does at once.
LEMMA ApplyLocallyFacts ==
    ASSUME Inv, NEW c \in Applied, ApplyLocally(c),
           NEW never \in SUBSET Key, suspect' = Suspects(c, never)
    PROVE  /\ Sound' /\ raw' = raw
           /\ cache' = (IF c.truncated THEN EmptyMap ELSE cache)
           /\ todo' = {k \in Key : c.cell[k] # Untouched} /\ todo' \subseteq Changed(c)
           /\ suspect' \in SUBSET Key /\ never \subseteq suspect'
           /\ \A k \in Key \ Changed(c) : k \in suspect => k \in suspect'
           /\ \A k \in Changed(c) \ suspect' :
                ~Has(raw, k) /\ ~InFlight(k) /\ (k \notin todo' => c.truncated)
<1>1. /\ raw' = raw /\ cache' = (IF c.truncated THEN EmptyMap ELSE cache)
      /\ todo' = {k \in Key : c.cell[k] # Untouched}
      /\ suspect' = (suspect \ Changed(c)) \cup {k \in Changed(c) : InFlight(k) \/ Has(raw, k)}
                       \cup never
  BY DEF ApplyLocally, Suspects
<1>2. EmptyMap \in Maps(Cell) /\ QueueIsKeys(EmptyMap) /\ Bounded(EmptyMap, MaxCache)
  <2>1. /\ EmptyMap.queue = <<>> /\ <<>> \in Seq(Key)
        /\ EmptyMap.map = [k \in Key |-> Missing] /\ DOMAIN EmptyMap.queue = {}
    BY DEF EmptyMap
  <2>2. \A k \in Key : ~Has(EmptyMap, k)
    BY <2>1 DEF Has
  <2>3. Entries(EmptyMap) = {}
    BY <2>2 DEF Entries
  <2>4. EmptyMap \in Maps(Cell)
    BY DEF Maps, EmptyMap
  <2> QED BY <2>1, <2>2, <2>3, <2>4, FS_EmptySet, Constants DEF QueueIsKeys, Queued, Bounded
<1>3. Sound /\ suspect \subseteq Key
  BY MapsAreSound DEF Inv, TypeOK
<1>4. Sound'
  BY <1>1, <1>2, <1>3 DEF Sound
<1>5. Changed(c) \subseteq Key /\ todo' \subseteq Changed(c)
  BY <1>1 DEF Changed
<1>6. \A k \in Changed(c) : k \notin todo' => c.truncated
  BY <1>1 DEF Changed
<1> QED BY <1>1, <1>3, <1>4, <1>5, <1>6

\* After it, all keys but those still to come are current in a database that has
\* the transaction.
LEMMA ApplyLocallyIsCurrent ==
    ASSUME Inv, NEW c \in Applied, ApplyLocally(c), Behind \subseteq Changed(c),
           NEW never \in SUBSET Key, suspect' = Suspects(c, never),
           \A k \in Key \ Changed(c) : Current'[k] = Current[k],
           Behind' = todo', read' = read
    PROVE  CachedIsCurrent' /\ AnswersAreCurrent'
<1>1. /\ raw' = raw /\ cache' = (IF c.truncated THEN EmptyMap ELSE cache)
      /\ \A k \in Key \ Changed(c) : k \in suspect => k \in suspect'
      /\ \A k \in Changed(c) \ suspect' :
           ~Has(raw, k) /\ ~InFlight(k) /\ (k \notin todo' => c.truncated)
  BY ApplyLocallyFacts
<1>2. \A k \in Key : ~Has(EmptyMap, k)
  BY DEF EmptyMap, Has
<1>3. ASSUME NEW k \in Key, k \notin suspect' \cup Behind'
      PROVE  /\ Has(cache', k) => cache'.map[k] = Current'[k]
             /\ Has(raw', k) => raw'.map[k] = Encode(Current'[k])
  <2>1. CASE k \in Changed(c)
    BY <1>1, <1>2, <1>3, <2>1
  <2>2. CASE k \notin Changed(c)
    <3>1. k \notin suspect \cup Behind
      BY <1>1, <1>3, <2>2
    <3>2. /\ Has(cache, k) => cache.map[k] = Current[k]
          /\ Has(raw, k) => raw.map[k] = Encode(Current[k])
      BY <3>1 DEF Inv, CachedIsCurrent
    <3> QED BY <1>1, <1>2, <2>2, <3>2
  <2> QED BY <2>1, <2>2
<1>4. ASSUME NEW r \in Reader, read[r] # NoRead, read[r].phase = "answered",
             read[r].key \notin suspect' \cup Behind'
      PROVE  read[r].value = Current'[read[r].key]
  <2>1. read[r].key \in Key /\ InFlight(read[r].key)
    BY <1>4 DEF Inv, TypeOK, InFlight
  <2>2. read[r].key \notin Changed(c)
    BY <1>1, <1>4, <2>1
  <2>3. read[r].key \notin suspect \cup Behind
    BY <1>1, <1>4, <2>1, <2>2
  <2> QED BY <1>4, <2>1, <2>2, <2>3 DEF Inv, AnswersAreCurrent
<1> QED BY <1>3, <1>4 DEF CachedIsCurrent, AnswersAreCurrent

LEMMA ApplyStep ==
    ASSUME Inv, NEW c \in Applied, Apply(c)
    PROVE  Inv'
<1>1. /\ todo = {} /\ flush = NoFlush /\ ApplyLocally(c) /\ suspect' = Suspects(c, {})
      /\ flush' = [phase |-> "writing", change |-> c, batch |-> NoChange]
      /\ db' = db /\ read' = read
  BY DEF Apply, Settled
<1>2. Sound /\ TypeOK
  BY MapsAreSound DEF Inv
<1>3. /\ Sound' /\ raw' = raw
      /\ todo' = {k \in Key : c.cell[k] # Untouched} /\ todo' \subseteq Changed(c)
      /\ suspect' \in SUBSET Key
      /\ \A k \in Changed(c) \ suspect' : ~Has(raw, k) /\ ~InFlight(k)
  BY <1>1, ApplyLocallyFacts
<1>4. Behind = {} /\ Behind' = todo' /\ Current = db /\ Current' = On(c, db)
  BY <1>1 DEF Behind, Current, NoFlush
<1>5. \A k \in Key \ Changed(c) : Current'[k] = Current[k]
  BY <1>2, <1>4, AppliedFacts DEF TypeOK
<1>6. CachedIsCurrent' /\ AnswersAreCurrent'
  BY <1>1, <1>4, <1>5, ApplyLocallyIsCurrent
<1>7. Quiet'
  BY <1>1, <1>3 DEF Quiet, Pending, InFlight, Changed
<1>8. CombinedParts'
  BY <1>1 DEF CombinedParts, PutsAreWritten, BatchIsWithin
<1>9. TypeOK'
  BY <1>1, <1>2, <1>3, NoChangeApplied DEF TypeOK, Sound, Maps
<1> QED BY <1>3, <1>6, <1>7, <1>8, <1>9, MapsAreSound DEF Inv, Sound, CachesAreSound

LEMMA CallbackStep ==
    ASSUME Inv, Callback
    PROVE  Inv'
<1> DEFINE c == flush.change
           n == NeverWritten(c)
<1>1. /\ todo = {} /\ flush.phase = "written" /\ ApplyLocally(c) /\ suspect' = Suspects(c, n)
      /\ flush' = [flush EXCEPT !.phase = "caching"] /\ db' = db /\ read' = read
  BY DEF Callback, Settled
<1>2. Sound /\ TypeOK /\ c \in Applied /\ db \in Contents /\ n \in SUBSET Key
  BY MapsAreSound DEF Inv, TypeOK, NeverWritten
<1>3. /\ flush'.phase = "caching" /\ flush'.change = c /\ flush'.batch = NoChange
      /\ flush' \in [phase : {"caching"}, change : Applied, batch : Applied]
  BY <1>1, <1>2 DEF TypeOK
<1>4. \A k \in Key \ n : c.cell[k] \notin Value \/ c.cell[k] = db[k]
  BY DEF NeverWritten
<1> HIDE DEF c, n
<1>5. /\ Sound' /\ raw' = raw
      /\ todo' = {k \in Key : c.cell[k] # Untouched} /\ todo' \subseteq Changed(c)
      /\ suspect' \in SUBSET Key /\ n \subseteq suspect'
      /\ \A k \in Changed(c) \ suspect' : ~Has(raw, k) /\ ~InFlight(k)
  BY <1>1, <1>2, ApplyLocallyFacts
<1>6. Behind = Changed(c) /\ Behind' = todo' /\ Current = db /\ Current' = db
  BY <1>1, <1>3 DEF Behind, Current, c
<1>7. CachedIsCurrent' /\ AnswersAreCurrent'
  BY <1>1, <1>2, <1>6, ApplyLocallyIsCurrent
<1>8. Quiet'
  BY <1>1, <1>3, <1>5 DEF Quiet, Pending, InFlight
<1>9. CombinedParts'
  <2>1. \A k \in todo' \ suspect' : c.cell[k] \in {Absent, db[k]}
    BY <1>2, <1>4, <1>5, AppliedFacts DEF Cell
  <2> QED BY <1>1, <1>3, <2>1 DEF CombinedParts, PutsAreWritten, BatchIsWithin
<1>10. TypeOK'
  BY <1>1, <1>2, <1>3, <1>5 DEF TypeOK, Sound, Maps
<1> QED BY <1>5, <1>7, <1>8, <1>9, <1>10, MapsAreSound DEF Inv, Sound, CachesAreSound

LEMMA ApplyKeyStep ==
    ASSUME Inv, ApplyKey
    PROVE  Inv'
<1> DEFINE c == flush.change
<1>1. PICK k \in todo :
        /\ cache' = IF c.cell[k] = Absent THEN Drop(cache, k) ELSE Put(cache, k, c.cell[k], MaxCache)
        /\ todo' = todo \ {k}
  BY DEF ApplyKey
<1>2. UNCHANGED <<db, raw, read, flush, suspect>>
  BY DEF ApplyKey
<1>3. Sound /\ TypeOK /\ c \in Applied /\ db \in Contents
  BY MapsAreSound DEF Inv, TypeOK
<1>4. k \in Key /\ c.cell[k] # Untouched /\ flush.phase \in {"writing", "caching"}
  BY <1>3 DEF TypeOK
<1> HIDE DEF c
<1>5. k \in Changed(c) /\ On(c, db)[k] = c.cell[k] /\ c.cell[k] \in Cell
  BY <1>3, <1>4, AppliedFacts
<1>6. /\ cache' \in Maps(Cell) /\ QueueIsKeys(cache') /\ Bounded(cache', MaxCache)
      /\ cache'.map[k] \in {c.cell[k], Missing}
      /\ c.cell[k] = Absent => cache'.map[k] = Missing
      /\ \A j \in Key : j # k => cache'.map[j] \in {cache.map[j], Missing}
  <2>1. CASE c.cell[k] = Absent
    BY <1>1, <1>3, <1>4, <2>1, DropFacts, Constants DEF Sound
  <2>2. CASE c.cell[k] # Absent
    BY <1>1, <1>3, <1>4, <1>5, <2>2, PutFacts, Constants DEF Sound
  <2> QED BY <2>1, <2>2
<1>7. Sound'
  BY <1>2, <1>3, <1>6 DEF Sound
<1>8. Behind = todo /\ Behind' = todo \ {k} /\ Current' = Current
  BY <1>1, <1>2, <1>4 DEF Behind, Current
<1>9. k \notin suspect /\ c.cell[k] # Absent => Current[k] = c.cell[k]
  <2>1. CASE flush.phase = "writing"
    BY <1>5, <2>1 DEF Current, c
  <2>2. CASE flush.phase = "caching"
    BY <2>2 DEF Inv, CombinedParts, PutsAreWritten, Current, c
  <2> QED BY <1>4, <2>1, <2>2
<1>10. k \notin suspect => ~Has(raw, k) /\ ~InFlight(k)
  BY <1>5 DEF Inv, Quiet, Pending, c
<1>11. CachedIsCurrent'
  <2>1. ASSUME NEW j \in Key, j \notin suspect \cup Behind'
        PROVE  /\ Has(cache', j) => cache'.map[j] = Current[j]
               /\ Has(raw, j) => raw.map[j] = Encode(Current[j])
    <3>1. CASE j = k
      BY <1>6, <1>9, <1>10, <2>1, <3>1 DEF Has
    <3>2. CASE j # k
      <4>1. /\ Has(cache, j) => cache.map[j] = Current[j]
            /\ Has(raw, j) => raw.map[j] = Encode(Current[j])
        BY <1>8, <2>1, <3>2 DEF Inv, CachedIsCurrent
      <4> QED BY <1>6, <3>2, <4>1 DEF Has
    <3> QED BY <3>1, <3>2
  <2> QED BY <1>2, <1>8, <2>1 DEF CachedIsCurrent
<1>12. AnswersAreCurrent'
  <2>1. ASSUME NEW r \in Reader, read[r] # NoRead, read[r].phase = "answered",
               read[r].key \notin suspect \cup Behind'
        PROVE  read[r].value = Current[read[r].key]
    <3>1. read[r].key # k
      BY <1>10, <2>1 DEF InFlight
    <3> QED BY <1>8, <2>1, <3>1 DEF Inv, AnswersAreCurrent
  <2> QED BY <1>2, <1>8, <2>1 DEF AnswersAreCurrent
<1>13. Quiet'
  <2>1. Pending' \subseteq Pending
    BY <1>1, <1>2 DEF Pending, Changed
  <2> QED BY <1>2, <2>1 DEF Inv, Quiet, InFlight
<1>14. CombinedParts'
  BY <1>1, <1>2 DEF Inv, CombinedParts, PutsAreWritten, BatchIsWithin, Changed
<1>15. TypeOK'
  BY <1>1, <1>2, <1>3, <1>7 DEF TypeOK, Sound, Maps
<1> QED BY <1>7, <1>11, <1>12, <1>13, <1>14, <1>15, MapsAreSound DEF Inv, Sound, CachesAreSound

\* What the caches hold stays current when they, the reads and suspect do not
\* change, and neither does the database for the keys that are not behind.
LEMMA StaysCurrent ==
    ASSUME Inv, UNCHANGED <<cache, raw, read>>, suspect \subseteq suspect', Behind \subseteq Behind',
           \A k \in Key \ (suspect' \cup Behind') : Current'[k] = Current[k]
    PROVE  CachedIsCurrent' /\ AnswersAreCurrent' /\ CachesAreSound'
<1>1. CachesAreSound'
  BY DEF Inv, CachesAreSound
<1>2. CachedIsCurrent'
  BY DEF Inv, CachedIsCurrent
<1>3. \A r \in Reader : read[r] # NoRead => read[r].key \in Key
  BY DEF Inv, TypeOK
<1>4. AnswersAreCurrent'
  BY <1>3 DEF Inv, AnswersAreCurrent
<1> QED BY <1>1, <1>2, <1>4

LEMMA EndStep ==
    ASSUME Inv, Write \/ WriteFails \/ BatchFails \/ Resolve
    PROVE  Inv'
<1> DEFINE c == flush.change
<1>1. /\ todo = {} /\ todo' = {} /\ flush' = NoFlush /\ UNCHANGED <<cache, raw, read>>
      /\ suspect' \subseteq Key /\ suspect \subseteq suspect'
      /\ flush.phase \in {"writing", "batch", "caching"}
      /\ \/ flush.phase = "writing" /\ db' = On(c, db)
         \/ flush.phase = "writing" /\ db' = db /\ Changed(c) \subseteq suspect'
         \/ flush.phase \in {"batch", "caching"} /\ db' = db
  BY DEF Write, WriteFails, BatchFails, Resolve, Settled, Inv, TypeOK, Changed
<1>2. TypeOK /\ c \in Applied /\ db \in Contents
  BY DEF Inv, TypeOK
<1> HIDE DEF c
<1>3. Behind = {} /\ Behind' = {} /\ Current' = db'
  BY <1>1 DEF Behind, Current, NoFlush
<1>4. \A k \in Key \ suspect' : Current'[k] = Current[k]
  <2>1. \A k \in Key \ Changed(c) : On(c, db)[k] = db[k]
    BY <1>2, AppliedFacts
  <2>2. Current = IF flush.phase = "writing" THEN On(c, db) ELSE db
    BY DEF Current, c
  <2> QED BY <1>1, <1>3, <2>1, <2>2
<1>5. CachedIsCurrent' /\ AnswersAreCurrent' /\ CachesAreSound'
  BY <1>1, <1>3, <1>4, StaysCurrent
<1>6. Quiet' /\ CombinedParts'
  BY <1>1 DEF Quiet, Pending, CombinedParts, PutsAreWritten, BatchIsWithin, NoFlush
<1>7. TypeOK'
  <2>1. db' \in Contents
    BY <1>1, <1>2, AppliedFacts
  <2>2. /\ NoFlush \in [phase : {"idle", "writing", "batch", "written", "caching"},
                          change : Applied, batch : Applied]
        /\ NoFlush.batch = NoChange
    BY NoChangeApplied DEF NoFlush
  <2> QED BY <1>1, <1>2, <2>1, <2>2 DEF TypeOK
<1> QED BY <1>5, <1>6, <1>7 DEF Inv

LEMMA ApplyCombinedStep ==
    ASSUME Inv, NEW c \in Applied, ApplyCombined(c)
    PROVE  Inv'
<1>1. /\ todo = {} /\ flush = NoFlush
      /\ flush' = [phase |-> "batch", change |-> c, batch |-> c]
      /\ UNCHANGED <<db, cache, raw, read, todo, suspect>>
  BY DEF ApplyCombined, Settled
<1>2. Behind = {} /\ Behind' = {} /\ Current = db /\ Current' = db
  BY <1>1 DEF Behind, Current, NoFlush
<1>3. CachedIsCurrent' /\ AnswersAreCurrent' /\ CachesAreSound'
  BY <1>1, <1>2, StaysCurrent
<1>4. Quiet' /\ CombinedParts'
  BY <1>1 DEF Quiet, Pending, CombinedParts, PutsAreWritten, BatchIsWithin
<1>5. TypeOK'
  BY <1>1 DEF Inv, TypeOK
<1> QED BY <1>3, <1>4, <1>5 DEF Inv

\* A layer is merged into the member while its flush is under way elsewhere.
LEMMA MergeIntoStep ==
    ASSUME Inv, NEW d \in Applied, MergeInto(d)
    PROVE  Inv'
<1> DEFINE c == flush.change
           m == Merge(c, d)
<1>1. /\ todo = {} /\ flush.phase \in {"batch", "written", "caching"} /\ ~d.truncated
      /\ flush' = [flush EXCEPT !.change = m]
      /\ UNCHANGED <<db, cache, raw, read, todo, suspect>>
  BY DEF MergeInto, Settled
<1>2. TypeOK /\ c \in Applied
  BY DEF Inv, TypeOK
<1>3. m \in Applied /\ Changed(c) \subseteq Changed(m)
  BY <1>1, <1>2, MergeFacts
<1>4. c = flush.change
  OBVIOUS
<1> HIDE DEF c, m
<1>5. /\ flush'.phase = flush.phase /\ flush'.change = m /\ flush'.batch = flush.batch
      /\ flush' \in [phase : {"batch", "written", "caching"}, change : Applied, batch : Applied]
  BY <1>1, <1>2, <1>3 DEF TypeOK
<1>6. Behind \subseteq Behind' /\ Current = db /\ Current' = db
  BY <1>1, <1>3, <1>4, <1>5 DEF Behind, Current
<1>7. CachedIsCurrent' /\ AnswersAreCurrent' /\ CachesAreSound'
  BY <1>1, <1>6, StaysCurrent
<1>8. Quiet'
  BY <1>1, <1>5 DEF Quiet, Pending
<1>9. CombinedParts'
  BY <1>1, <1>3, <1>4, <1>5 DEF Inv, CombinedParts, PutsAreWritten, BatchIsWithin
<1>10. TypeOK'
  BY <1>1, <1>2, <1>5 DEF TypeOK
<1> QED BY <1>7, <1>8, <1>9, <1>10 DEF Inv

LEMMA WriteBatchStep ==
    ASSUME Inv, WriteBatch
    PROVE  Inv'
<1> DEFINE c == flush.change
           b == flush.batch
<1>1. /\ todo = {} /\ flush.phase = "batch" /\ db' = On(b, db)
      /\ flush' = [flush EXCEPT !.phase = "written", !.batch = NoChange]
      /\ UNCHANGED <<cache, raw, read, todo, suspect>>
  BY DEF WriteBatch, Settled
<1>2. TypeOK /\ c \in Applied /\ b \in Applied /\ db \in Contents
  BY DEF Inv, TypeOK
<1>3. /\ flush'.phase = "written" /\ flush'.change = c /\ flush'.batch = NoChange
      /\ flush' \in [phase : {"written"}, change : Applied, batch : Applied]
  BY <1>1, <1>2, NoChangeApplied DEF TypeOK
<1>4. Changed(b) \subseteq Changed(c)
  BY <1>1 DEF Inv, CombinedParts, BatchIsWithin
<1>5. Current = db /\ Behind = {}
  BY <1>1 DEF Behind, Current
<1> HIDE DEF c, b
<1>6. Behind' = Changed(c) /\ Current' = On(b, db)
  BY <1>1, <1>3 DEF Behind, Current, Changed
<1>7. \A k \in Key \ Changed(c) : Current'[k] = Current[k]
  BY <1>2, <1>4, <1>5, <1>6, AppliedFacts
<1>8. CachedIsCurrent' /\ AnswersAreCurrent' /\ CachesAreSound'
  BY <1>1, <1>5, <1>6, <1>7, StaysCurrent
<1>9. Quiet' /\ CombinedParts'
  BY <1>1, <1>3 DEF Quiet, Pending, CombinedParts, PutsAreWritten, BatchIsWithin
<1>10. TypeOK'
  <2>1. db' \in Contents
    BY <1>1, <1>2, AppliedFacts
  <2> QED BY <1>1, <1>2, <1>3, <2>1 DEF TypeOK
<1> QED BY <1>8, <1>9, <1>10 DEF Inv

-----------------------------------------------------------------------------
(***************************************************************************)
(* The invariants of the specification                                     *)
(***************************************************************************)

LEMMA InitInv == Init => Inv
<1> SUFFICES ASSUME Init PROVE Inv
  OBVIOUS
<1>1. /\ \A k \in Key : ~Has(EmptyMap, k)
      /\ EmptyMap.queue = <<>> /\ EmptyMap.map = [k \in Key |-> Missing]
      /\ EmptyMap = [map |-> [k \in Key |-> Missing], queue |-> <<>>]
  BY DEF EmptyMap, Has
<1>2. Entries(EmptyMap) = {}
  BY <1>1 DEF Entries
<1>3. CachesAreSound
  <2>1. QueueIsKeys(EmptyMap)
    BY <1>1 DEF QueueIsKeys, Queued
  <2>2. Bounded(EmptyMap, MaxCache) /\ Bounded(EmptyMap, MaxRaw)
    BY <1>2, FS_EmptySet, Constants DEF Bounded
  <2> QED BY <2>1, <2>2 DEF Init, CachesAreSound
<1>4. TypeOK
  <2>1. cache = EmptyMap /\ raw = EmptyMap
    BY DEF Init
  <2>2. /\ EmptyMap \in [map : [Key -> Cell \cup {Missing}], queue : Seq(Key)]
        /\ EmptyMap \in [map : [Key -> RawCell \cup {Missing}], queue : Seq(Key)]
    BY <1>1
  <2>3. /\ NoFlush \in [phase : {"idle", "writing", "batch", "written", "caching"},
                          change : Applied, batch : Applied]
        /\ NoFlush.phase = "idle" /\ NoFlush.batch = NoChange
    BY NoChangeApplied DEF NoFlush
  <2>4. read \in [Reader -> {NoRead} \cup [phase : {"asked", "answered"}, key : Key,
                                           encoded : BOOLEAN, value : Cell]]
    BY DEF Init
  <2> QED BY <2>1, <2>2, <2>3, <2>4 DEF Init, TypeOK
<1>5. CachedIsCurrent /\ AnswersAreCurrent
  BY <1>1 DEF Init, CachedIsCurrent, AnswersAreCurrent
<1>6. Quiet /\ CombinedParts
  BY DEF Init, Quiet, Pending, CombinedParts, PutsAreWritten, BatchIsWithin, NoFlush
<1> QED BY <1>3, <1>4, <1>5, <1>6 DEF Inv

LEMMA NextInv == Inv /\ [Next]_vars => Inv'
<1> SUFFICES ASSUME Inv, [Next]_vars PROVE Inv'
  OBVIOUS
<1>1. ASSUME NEW r \in Reader, NEW k \in Key, NEW encoded \in BOOLEAN, Ask(r, k, encoded)
      PROVE  Inv'
  BY <1>1, AskStep
<1>2. ASSUME NEW r \in Reader, Answer(r) \/ Return(r) PROVE Inv'
  BY <1>2, AnswerStep, ReturnStep
<1>3. ASSUME NEW k \in Key, NEW encoded \in BOOLEAN, GetSync(k, encoded) PROVE Inv'
  BY <1>3, GetSyncStep
<1>4. ASSUME NEW c \in Applied, Apply(c) \/ ApplyCombined(c) \/ MergeInto(c) PROVE Inv'
  BY <1>4, ApplyStep, ApplyCombinedStep, MergeIntoStep
<1>5. CASE ApplyKey
  BY <1>5, ApplyKeyStep
<1>6. CASE WriteBatch
  BY <1>6, WriteBatchStep
<1>7. CASE Callback
  BY <1>7, CallbackStep
<1>8. CASE Write \/ WriteFails \/ BatchFails \/ Resolve
  BY <1>8, EndStep
<1>9. CASE UNCHANGED vars
  <2>1. UNCHANGED <<db, cache, raw, read, flush, todo, suspect>>
    BY <1>9 DEF vars
  <2>2. Behind' = Behind /\ Current' = Current
    BY <2>1 DEF Behind, Current
  <2>3. CachedIsCurrent' /\ AnswersAreCurrent' /\ CachesAreSound'
    BY <2>1, <2>2, StaysCurrent
  <2> QED BY <2>1, <2>3 DEF Inv, TypeOK, Quiet, Pending, CombinedParts, PutsAreWritten, BatchIsWithin,
                          InFlight, Changed
<1> QED BY <1>1, <1>2, <1>3, <1>4, <1>5, <1>6, <1>7, <1>8, <1>9 DEF Next

LEMMA Invariance == Spec => []Inv
BY InitInv, NextInv, PTL DEF Spec

\* Every variable has its type, for every set of keys, every size of the maps and
\* any number of reads under way.
THEOREM TypeCorrect == Spec => []TypeOK
<1>1. Inv => TypeOK
  BY DEF Inv
<1> QED BY <1>1, Invariance, PTL

\* Both maps of the cache stay within their size and their lists of uses hold just
\* their keys, whatever the order of hits, misses, conversions and transactions.
THEOREM CachesStaySound == Spec => []CachesAreSound
<1>1. Inv => CachesAreSound
  BY DEF Inv
<1> QED BY <1>1, Invariance, PTL

\* The cache is out of date for no other keys than those whose read was under way,
\* or whose encoding was cached, when a transaction changed them, those of a
\* transaction that the database refused, and those whose value was merged into a
\* member of a combined transaction after its changes were encoded.
THEOREM OnlySuspectsAreStale == Spec => []CurrentUnlessSuspect
<1>1. Inv => CurrentUnlessSuspect
  <2> SUFFICES ASSUME Inv, NEW k \in Key \ (suspect \cup Behind)
               PROVE  /\ Has(cache, k) => cache.map[k] = Current[k]
                      /\ Has(raw, k) => raw.map[k] = Encode(Current[k])
                      /\ \A r \in Reader :
                           read[r] # NoRead /\ read[r].key = k /\ read[r].phase = "answered"
                               => read[r].value = Current[k]
    BY DEF CurrentUnlessSuspect
  <2>1. /\ Has(cache, k) => cache.map[k] = Current[k]
        /\ Has(raw, k) => raw.map[k] = Encode(Current[k])
    BY DEF Inv, CachedIsCurrent
  <2>2. \A r \in Reader :
          read[r] # NoRead /\ read[r].key = k /\ read[r].phase = "answered"
              => read[r].value = Current[k]
    BY DEF Inv, AnswersAreCurrent
  <2> QED BY <2>1, <2>2
<1> QED BY <1>1, Invariance, PTL
=============================================================================
