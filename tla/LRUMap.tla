------------------------------- MODULE LRUMap -------------------------------
(***************************************************************************)
(* The map that evicts the entry used least recently                       *)
(* (src/main/generic/utils/LRUMap.js).  map[k] is Missing for a key that   *)
(* is not in the map; queue is the list _accessQueue, the key used least   *)
(* recently first.                                                         *)
(***************************************************************************)
EXTENDS Naturals, Sequences, SequencesExt, FiniteSets

CONSTANTS Key, Missing

EmptyMap == [map |-> [k \in Key |-> Missing], queue |-> <<>>]

Has(m, k) == m.map[k] # Missing

Entries(m) == {k \in Key : Has(m, k)}

Queued(q, k) == \E i \in DOMAIN q : q[i] = k

\* UniqueLinkedList.remove: the list holds a value once at most.
Unqueue(q, k) ==
    IF Queued(q, k) THEN RemoveAt(q, CHOOSE i \in DOMAIN q : q[i] = k) ELSE q

\* UniqueLinkedList.moveBack, and LRUMap._access
Access(q, k) == Append(Unqueue(q, k), k)

\* evict: the key used least recently leaves both.
Evict(m) ==
    IF m.queue = <<>> THEN m
    ELSE [map |-> [m.map EXCEPT ![Head(m.queue)] = Missing], queue |-> Tail(m.queue)]

\* The effect of get on the map: the key counts as used, even if it is missing.
Use(m, k) == [m EXCEPT !.queue = Access(@, k)]

\* Mutant: an entry more than there is room for.
PutLate(m, k, v, max) ==
    LET e == IF Cardinality(Entries(m)) > max THEN Evict(m) ELSE m
    IN  [map |-> [e.map EXCEPT ![k] = v], queue |-> Access(e.queue, k)]

\* set: make room, also where k is only replaced; nothing is stored in a map of
\* size 0.
Put(m, k, v, max) ==
    LET e == IF Cardinality(Entries(m)) >= max THEN Evict(m) ELSE m
    IN  IF Cardinality(Entries(e)) < max
          THEN [map |-> [e.map EXCEPT ![k] = v], queue |-> Access(e.queue, k)]
          ELSE e

\* Mutant: the key stays queued.
DropKeyOnly(m, k) == [m EXCEPT !.map[k] = Missing]

\* delete
Drop(m, k) == [map |-> [m.map EXCEPT ![k] = Missing], queue |-> Unqueue(m.queue, k)]

-----------------------------------------------------------------------------
\* The list holds just the keys of the map, each once: else eviction would shift
\* keys that free nothing, and a full map would refuse every new entry.
QueueIsKeys(m) ==
    /\ \A k \in Key : Has(m, k) <=> Queued(m.queue, k)
    /\ \A i, j \in DOMAIN m.queue : m.queue[i] = m.queue[j] => i = j

\* At most max entries.
Bounded(m, max) == Cardinality(Entries(m)) <= max
=============================================================================
