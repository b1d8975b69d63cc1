---------------------------- MODULE CachedBackend ----------------------------
(***************************************************************************)
(* The cache between an object store and its database                      *)
(* (src/main/generic/CachedBackend.js): a map of values and one of encoded *)
(* values, both of bounded size.  get asks the database when both miss and *)
(* keeps the answer when it arrives; _apply brings the map of values up to *)
(* date before the database has accepted the transaction, and a combined   *)
(* flush does so after it.                                                 *)
(*                                                                         *)
(* The callers are the ones an object store has.  ObjectStore.get asks the *)
(* backend directly and opens no transaction, so a flush does not wait for *)
(* such a read; but while a layer is being flushed, reads of what it       *)
(* changes are answered by the layer and do not come here.  One layer at a *)
(* time is applied to the database, the lowest of the stack.  The store's  *)
(* own flush merges nothing meanwhile (Synchronizer), but a combined one   *)
(* runs in the synchronizer of whichever store reported last: this store's *)
(* may go on and merge further layers into the member, after its changes   *)
(* were encoded for the batch and before they are read again for the cache.*)
(*                                                                         *)
(* undefined is Absent here: a missing key is cached as undefined.         *)
(* suspect is a history variable: the keys that the code does not keep     *)
(* current (see CacheIsCurrent below).                                     *)
(***************************************************************************)
EXTENDS Overlay, Naturals, Sequences, FiniteSets

CONSTANTS
    Missing,         \* what a map holds for a key it does not have
    Reader,          \* the calls of get that may be under way at once
    MaxCache,        \* lruCacheSize
    MaxRaw,          \* rawLruCacheSize
    Synchronous,     \* whether the database also answers getSync (LMDB)
    Failing,         \* whether the database may refuse a write
    Foreign          \* whether another store may run a combined flush of this one

ASSUME CacheAssumption ==
    /\ IsFiniteSet(Key)
    /\ MaxCache \in Nat /\ MaxRaw \in Nat
    /\ Synchronous \in BOOLEAN /\ Failing \in BOOLEAN /\ Foreign \in BOOLEAN
    /\ Missing \notin Value \cup {Absent} \cup (Value \X {"encoded"})
    /\ Absent \notin Value \X {"encoded"}

VARIABLES
    db,          \* the database
    cache,       \* _cache
    raw,         \* _rawCache
    read,        \* the calls of get that missed, each with what it waits for
    flush,       \* the transaction being applied, how far it is, and what is
                 \* encoded of it for the batch of a combined flush
    todo,        \* the changed keys that _applyLocally has not come to yet
    suspect      \* history: keys whose cached values may be out of date

INSTANCE LRUMap

vars == <<db, cache, raw, read, flush, todo, suspect>>

Cell == Value \cup {Absent}
RawCell == (Value \X {"encoded"}) \cup {Absent}

\* Mutant: values are kept as they are.
Unencoded(v) == v

\* encode and decode of the backends: undefined stays undefined.
Encode(v) == IF v = Absent THEN Absent ELSE <<v, "encoded">>
Decode(e) == IF e = Absent THEN Absent ELSE e[1]

\* What a flush may apply: clients put no undefined values.
Applied == {c \in Change : \A k \in Key : c.cell[k] # Undefined}

Changed(c) == IF c.truncated THEN Key ELSE {k \in Key : c.cell[k] # Untouched}

NoRead == [phase |-> "idle"]

NoFlush == [phase |-> "idle", change |-> NoChange, batch |-> NoChange]

InFlight(k) == \E r \in Reader : read[r] # NoRead /\ read[r].key = k

\* _applyLocally is synchronous: nothing else runs before it has ended.
Settled == todo = {}

\* The store lets a read of k through to the backend.
Forwarded(k) == flush = NoFlush \/ k \notin Changed(flush.change)

\* _has
Cached(k) == Has(cache, k) \/ Has(raw, k)

-----------------------------------------------------------------------------
Init ==
    /\ db \in Contents
    /\ cache = EmptyMap /\ raw = EmptyMap
    /\ read = [r \in Reader |-> NoRead]
    /\ flush = NoFlush /\ todo = {} /\ suspect = {}

\* The end of get and getSync: the value goes to the map of its kind.
Keep(k, encoded, v) ==
    IF encoded THEN raw' = Put(raw, k, Encode(v), MaxRaw) /\ UNCHANGED cache
               ELSE cache' = Put(cache, k, v, MaxCache) /\ UNCHANGED raw

\* _get: from the map of the kind asked for, else converted from the other map
\* and kept.
FromCache(k, encoded) ==
    IF encoded
      THEN IF Has(raw, k)
             THEN raw' = Use(raw, k) /\ UNCHANGED cache
             ELSE cache' = Use(cache, k) /\ raw' = Put(raw, k, Encode(cache.map[k]), MaxRaw)
      ELSE IF Has(cache, k)
             THEN cache' = Use(cache, k) /\ UNCHANGED raw
             ELSE raw' = Use(raw, k) /\ cache' = Put(cache, k, Decode(raw.map[k]), MaxCache)

\* get, up to its await
Ask(r, k, encoded) ==
    /\ Settled /\ Forwarded(k) /\ read[r] = NoRead
    /\ IF Cached(k)
         THEN FromCache(k, encoded) /\ UNCHANGED read
         ELSE /\ read' = [read EXCEPT ![r] = [phase |-> "asked", key |-> k,
                                              encoded |-> encoded, value |-> Absent]]
              /\ UNCHANGED <<cache, raw>>
    /\ UNCHANGED <<db, flush, todo, suspect>>

\* The database reads the key at some moment before it answers.
Answer(r) ==
    /\ Settled /\ read[r] # NoRead /\ read[r].phase = "asked"
    /\ read' = [read EXCEPT ![r] = [phase |-> "answered", key |-> @.key,
                                     encoded |-> @.encoded, value |-> db[@.key]]]
    /\ UNCHANGED <<db, cache, raw, flush, todo, suspect>>

\* get, after its await
Return(r) ==
    /\ Settled /\ read[r] # NoRead /\ read[r].phase = "answered"
    /\ Keep(read[r].key, read[r].encoded, read[r].value)
    /\ read' = [read EXCEPT ![r] = NoRead]
    /\ UNCHANGED <<db, flush, todo, suspect>>

\* getSync of a key that is not cached (of one that is, it does what Ask does).
GetSync(k, encoded) ==
    /\ Settled /\ Forwarded(k) /\ ~Cached(k) /\ Synchronous
    /\ Keep(k, encoded, db[k])
    /\ UNCHANGED <<db, read, flush, todo, suspect>>

-----------------------------------------------------------------------------
\* History: what becomes suspect when c is applied to the cache: what was being
\* read, what is cached encoded, and the values the database never gets.
Suspects(c, never) ==
    (suspect \ Changed(c)) \cup {k \in Changed(c) : InFlight(k) \/ Has(raw, k)} \cup never

\* Mutant: a truncation leaves the cache as it is.
ApplyLocallyKeeping(c) ==
    /\ UNCHANGED <<cache, raw>>
    /\ todo' = {k \in Key : c.cell[k] # Untouched}

\* The beginning of _applyLocally: the changed keys follow one by one. Neither
\* _rawCache nor a read under way is told.
ApplyLocally(c) ==
    /\ cache' = (IF c.truncated THEN EmptyMap ELSE cache) /\ UNCHANGED raw
    /\ todo' = {k \in Key : c.cell[k] # Untouched}

\* First the removed keys, then the modified ones, each in any order.
ApplyKey ==
    /\ \E k \in todo :
         /\ flush.change.cell[k] # Absent => \A j \in todo : flush.change.cell[j] # Absent
         /\ cache' = IF flush.change.cell[k] = Absent THEN Drop(cache, k)
                     ELSE Put(cache, k, flush.change.cell[k], MaxCache)
         /\ todo' = todo \ {k}
    /\ UNCHANGED <<db, raw, read, flush, suspect>>

\* _apply: the cache first, then the database.
Apply(c) ==
    /\ Settled /\ flush = NoFlush
    /\ ApplyLocally(c)
    /\ suspect' = Suspects(c, {})
    /\ flush' = [phase |-> "writing", change |-> c, batch |-> NoChange]
    /\ UNCHANGED <<db, read>>

Write ==
    /\ Settled /\ flush.phase = "writing"
    /\ db' = On(flush.change, db)
    /\ flush' = NoFlush
    /\ UNCHANGED <<cache, raw, read, todo, suspect>>

\* The database refuses the write; the cache has it already.
WriteFails ==
    /\ Settled /\ flush.phase = "writing" /\ Failing
    /\ flush' = NoFlush
    /\ suspect' = suspect \cup Changed(flush.change)
    /\ UNCHANGED <<db, cache, raw, read, todo>>

\* applyCombined as JungleDB.commitCombined uses it: the changes are encoded now,
\* the batch of all members is written, then each cache is brought up to date.
ApplyCombined(c) ==
    /\ Settled /\ flush = NoFlush
    /\ flush' = [phase |-> "batch", change |-> c, batch |-> c]
    /\ UNCHANGED <<db, cache, raw, read, todo, suspect>>

\* The flush runs in another store's synchronizer, and this store's merges the
\* layer above into the member. (The merge of a truncation throws.)
MergeInto(d) ==
    /\ Settled /\ Foreign /\ flush.phase \in {"batch", "written", "caching"}
    /\ ~d.truncated
    /\ flush' = [flush EXCEPT !.change = Merge(@, d)]
    /\ UNCHANGED <<db, cache, raw, read, todo, suspect>>

WriteBatch ==
    /\ Settled /\ flush.phase = "batch"
    /\ db' = On(flush.batch, db)
    /\ flush' = [flush EXCEPT !.phase = "written", !.batch = NoChange]
    /\ UNCHANGED <<cache, raw, read, todo, suspect>>

BatchFails ==
    /\ Settled /\ flush.phase = "batch" /\ Failing
    /\ flush' = NoFlush
    /\ UNCHANGED <<db, cache, raw, read, todo, suspect>>

\* The values of a member that the database does not have: merged into it after
\* the encoding, they are in no batch and go with the member when it is removed.
NeverWritten(c) == {k \in Key : c.cell[k] \in Value /\ c.cell[k] # db[k]}

\* The function applyCombined returned: it reads the member as it is by now.
Callback ==
    /\ Settled /\ flush.phase = "written"
    /\ ApplyLocally(flush.change)
    /\ suspect' = Suspects(flush.change, NeverWritten(flush.change))
    /\ flush' = [flush EXCEPT !.phase = "caching"]
    /\ UNCHANGED <<db, read>>

\* commitCombined resolves.
Resolve ==
    /\ Settled /\ flush.phase = "caching"
    /\ flush' = NoFlush
    /\ UNCHANGED <<db, cache, raw, read, todo, suspect>>

Next ==
    \/ \E r \in Reader, k \in Key, encoded \in BOOLEAN : Ask(r, k, encoded)
    \/ \E r \in Reader : Answer(r) \/ Return(r)
    \/ \E k \in Key, encoded \in BOOLEAN : GetSync(k, encoded)
    \/ \E c \in Applied : Apply(c) \/ ApplyCombined(c) \/ MergeInto(c)
    \/ ApplyKey \/ Write \/ WriteFails
    \/ WriteBatch \/ BatchFails \/ Callback \/ Resolve

Spec == Init /\ [][Next]_vars

-----------------------------------------------------------------------------
(***************************************************************************)
(* Safety                                                                  *)
(***************************************************************************)

\* Type correctness of every variable.
TypeOK ==
    /\ db \in Contents
    /\ cache \in [map : [Key -> Cell \cup {Missing}], queue : Seq(Key)]
    /\ raw \in [map : [Key -> RawCell \cup {Missing}], queue : Seq(Key)]
    /\ read \in [Reader -> {NoRead} \cup [phase : {"asked", "answered"}, key : Key,
                                          encoded : BOOLEAN, value : Cell]]
    /\ flush \in [phase : {"idle", "writing", "batch", "written", "caching"},
                  change : Applied, batch : Applied]
    /\ flush.phase = "idle" => flush = NoFlush
    /\ flush.phase # "batch" => flush.batch = NoChange
    /\ todo \subseteq {k \in Key : flush.change.cell[k] # Untouched}
    /\ todo # {} => flush.phase \in {"writing", "caching"}
    /\ suspect \subseteq Key

\* Both maps stay within their size, and their lists of uses hold just their
\* keys, whatever hits, misses, conversions and transactions follow each other.
\* A key left in a list would use up evictions, and a full map would then drop
\* the values it is given.
CachesAreSound ==
    /\ QueueIsKeys(cache) /\ Bounded(cache, MaxCache)
    /\ QueueIsKeys(raw) /\ Bounded(raw, MaxRaw)

\* What a read of the backend should get: during _apply, already the new values.
Current == IF flush.phase = "writing" THEN On(flush.change, db) ELSE db

\* The keys whose new values _applyLocally has still to put in the cache.
Behind == todo \cup (IF flush.phase = "written" THEN Changed(flush.change) ELSE {})

\* Both caches, and the answers on their way to them, agree with the database
\* for every key, except if a read of the key was under way or its encoding was
\* cached when a transaction changed the key, the database refused to, or the
\* value was merged into a member of a combined transaction after its encoding.
CurrentUnlessSuspect ==
    \A k \in Key \ (suspect \cup Behind) :
        /\ Has(cache, k) => cache.map[k] = Current[k]
        /\ Has(raw, k) => raw.map[k] = Encode(Current[k])
        /\ \A r \in Reader :
             read[r] # NoRead /\ read[r].key = k /\ read[r].phase = "answered"
                 => read[r].value = Current[k]

\* "Returns a promise of the object stored under the given primary key. If the
\* item is in the cache, the cached value will be returned" (CachedBackend.get):
\* when no transaction is being applied, a cached value is the stored one.
CacheIsCurrent ==
    flush = NoFlush => \A k \in Key : Has(cache, k) => cache.map[k] = db[k]
=============================================================================
