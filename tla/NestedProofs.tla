---------------------------- MODULE NestedProofs ----------------------------
(***************************************************************************)
(* Nested transactions for every set of transactions, keys and values: an  *)
(* outer transaction is open exactly when nothing in it is, the first      *)
(* commit of a round wins, and reads, cached or not, stay those of the     *)
(* state a transaction was opened on.                                      *)
(***************************************************************************)
EXTENDS Nested, SequenceLemmas

-----------------------------------------------------------------------------
(***************************************************************************)
(* Differences                                                             *)
(***************************************************************************)

\* Reading through a difference yields contents again.
LEMMA OnType ==
    ASSUME NEW c \in Change, NEW b \in Contents
    PROVE  On(c, b) \in Contents
BY OverlayAssumption DEF Change, Contents, On, Get

\* put, remove, truncate and a merge leave a well-formed difference.
LEMMA ChangeType ==
    /\ NoChange \in Change /\ Emptied \in Change
    /\ \A c \in Change : \A k \in Key : RemoveKey(c, k) \in Change
    /\ \A c \in Change : \A k \in Key : \A v \in Value : PutKey(c, k, v) \in Change
    /\ \A c, d \in Change : Merge(c, d) \in Change
<1>1. NoChange \in Change
  BY DEF NoChange, Change
<1>2. Emptied \in Change
  BY DEF Emptied, Change
<1>3. \A c \in Change : \A k \in Key : RemoveKey(c, k) \in Change
  BY DEF RemoveKey, Change
<1>4. \A c \in Change : \A k \in Key : \A v \in Value : PutKey(c, k, v) \in Change
  BY DEF PutKey, Change
<1>5. \A c, d \in Change : Merge(c, d) \in Change
  BY DEF Merge, Change
<1> QED BY <1>1, <1>2, <1>3, <1>4, <1>5

\* Transaction._applySync: merging the difference d of a child into the
\* difference c of its parent leaves what the child reads as it was, so that a
\* flush into a lower layer is invisible to readers.
LEMMA MergeIsComposition ==
    ASSUME NEW c \in Change, NEW d \in Change, NEW b \in Contents
    PROVE  On(Merge(c, d), b) = On(d, On(c, b))
<1>1. \A k \in Key : Get(Merge(c, d), b, k) = Get(d, On(c, b), k)
  BY OverlayAssumption DEF Merge, On, Get, Change, Contents
<1> QED BY <1>1 DEF On

\* Between the merge and the clean-up a layer is read over a state that already
\* contains it: applying a difference twice is applying it once.
LEMMA ApplyTwice ==
    ASSUME NEW c \in Change, NEW b \in Contents
    PROVE  On(c, On(c, b)) = On(c, b)
<1>1. \A k \in Key : Get(c, On(c, b), k) = Get(c, b, k)
  BY OverlayAssumption DEF On, Get, Change, Contents
<1> QED BY <1>1 DEF On

-----------------------------------------------------------------------------
(***************************************************************************)
(* Types                                                                   *)
(***************************************************************************)

States == {"none", "OPEN", "NESTED", "COMMITTED", "ABORTED", "CONFLICTED"}
Calls == {"none", "closing", "failing", "leaving", "conflicting", "committing", "merging", "merged"}

TypeOK ==
    /\ kind \in Kinds /\ db \in Contents /\ stack \in Seq(Tx)
    /\ state \in [Tx -> States] /\ call \in [Tx -> Calls] /\ waits \in [Tx -> SUBSET Tx]
    /\ outer \in [Tx -> Tx \cup {Backend, Null}] /\ base \in [Tx -> Tx \cup {Backend, Null}]
    /\ change \in [Tx -> Change] /\ cache \in [Tx -> [Key -> Value \cup {Absent, Untouched}]]
    /\ nested \in [Tx -> SUBSET Tx] /\ merged \in [Tx -> BOOLEAN]
    /\ \A o \in Tx : nested[o] \subseteq Created
    /\ round \in [Tx -> Nat] /\ born \in [Tx -> Nat]
    /\ seen \in [Tx -> Contents] /\ moved \subseteq Created /\ early \subseteq Created

\* A transaction that has not been created has left no trace.
Fresh ==
    \A t \in Tx : state[t] = "none" =>
        /\ outer[t] = Null /\ base[t] = Null /\ change[t] = NoChange
        /\ nested[t] = {} /\ ~merged[t] /\ call[t] = "none"
        /\ cache[t] = [k \in Key |-> Untouched]

\* A root is based on the backend or a state of the stack, a nested transaction on its outer one.
Rooted ==
    \A t \in Created :
        \/ outer[t] = Backend /\ base[t] \in Elements(stack) \cup {Backend}
        \/ outer[t] \in Created /\ base[t] = outer[t]

\* The stack is a chain of roots down to the backend.
Stacked ==
    /\ Linked(stack, base, Backend) /\ Distinct(stack)
    /\ \A l \in Elements(stack) : l \in Created /\ outer[l] = Backend

\* No chain of outer transactions, and none of bases, goes on for ever.
Founded ==
    \E rank : /\ Chained(Nodes, Backend, base, rank) /\ Chained(Nodes, Backend, outer, rank)
              /\ rank[Backend] = 0

\* Only nested transactions are merged.
MergesAreNested == \A t \in Tx : call[t] \in {"merging", "merged"} => outer[t] \in Created

Shape == TypeOK /\ Fresh /\ Rooted /\ Stacked /\ Founded /\ MergesAreNested

-----------------------------------------------------------------------------
(***************************************************************************)
(* What the recursive functions are                                        *)
(***************************************************************************)

LEMMA ShapeFacts ==
    ASSUME Shape
    PROVE  /\ Backend \notin Tx /\ Backend \notin Created /\ Backend \in Nodes
           /\ Created \subseteq Tx /\ Nodes = Created \cup {Backend}
           /\ \A t \in Created : base[t] \in Nodes /\ outer[t] \in Nodes
           /\ \E rank : Chained(Nodes, Backend, base, rank) /\ Chained(Nodes, Backend, outer, rank)
BY NestedAssumption DEF Shape, Rooted, Stacked, Founded, Nodes, Created

ViewEquation ==
    /\ View(Backend) = db
    /\ \A t \in Created : View(t) = On(change[t], View(base[t]))
    /\ \A n \in Nodes : View(n) \in Contents

LEMMA ViewFacts == Shape => ViewEquation
<1> SUFFICES ASSUME Shape PROVE ViewEquation
  OBVIOUS
<1>1. PICK rank : Chained(Nodes, Backend, base, rank)
  BY ShapeFacts
<1>2. /\ db \in Contents /\ \A t \in Created : base[t] \in Nodes /\ change[t] \in Change
      /\ Backend \notin Created /\ Nodes = Created \cup {Backend}
  BY ShapeFacts DEF Shape, TypeOK
<1> DEFINE g == [n \in Nodes |-> [c \in Contents |-> IF n \in Created THEN On(change[n], c) ELSE c]]
           V == CHOOSE view : view = [m \in Nodes |->
                                IF m = Backend THEN db ELSE On(change[m], view[base[m]])]
<1>3. g \in [Nodes -> [Contents -> Contents]]
  <2>1. \A n \in Created : \A c \in Contents : On(change[n], c) \in Contents
    BY <1>2, OnType
  <2> QED BY <2>1
<1>4. PICK f : GoesUp(f, Nodes, Contents, Backend, db, base, g)
  <2> HIDE DEF g
  <2> QED BY <1>1, <1>2, <1>3, ChainRecursion
<1>5. f = [m \in Nodes |-> IF m = Backend THEN db ELSE On(change[m], f[base[m]])]
  <2>1. \A m \in Nodes : f[m] = IF m = Backend THEN db ELSE On(change[m], f[base[m]])
    BY <1>2, <1>4 DEF GoesUp
  <2> QED BY <1>4, <2>1 DEF GoesUp
<1>6. V = [m \in Nodes |-> IF m = Backend THEN db ELSE On(change[m], V[base[m]])]
  BY <1>5
<1>7. \A n : View(n) = V[n]
  BY DEF View
<1> HIDE DEF V
<1>8. V[Backend] = db /\ \A t \in Created : V[t] = On(change[t], V[base[t]])
  BY <1>2, <1>6
<1> DEFINE typed == {n \in Nodes : V[n] \in Contents}
<1>9. Nodes \subseteq typed
  <2>1. Backend \in typed
    BY <1>2, <1>8
  <2>2. \A n \in Nodes \ {Backend} : base[n] \in typed => n \in typed
    BY <1>2, <1>8, OnType
  <2> HIDE DEF typed
  <2> QED BY <1>1, <2>1, <2>2, ChainInduction
<1>10. \A n \in Nodes : V[n] \in Contents
  BY <1>9
<1> HIDE DEF typed
<1> QED BY <1>7, <1>8, <1>10 DEF ViewEquation

LEMMA ViewFactsNext == Shape' => ViewEquation'
BY ViewFacts, PTL

BelowEquation ==
    /\ Below(Backend) = {}
    /\ \A t \in Created : Below(t) = {base[t]} \cup Below(base[t])

LEMMA BelowFacts == Shape => BelowEquation
<1> SUFFICES ASSUME Shape PROVE BelowEquation
  OBVIOUS
<1>1. PICK rank : Chained(Nodes, Backend, base, rank)
  BY ShapeFacts
<1>2. /\ \A t \in Created : base[t] \in Nodes
      /\ Backend \notin Created /\ Nodes = Created \cup {Backend}
  BY ShapeFacts
<1> DEFINE C == SUBSET Nodes
           g == [n \in Nodes |-> [c \in C |-> IF n \in Created THEN {base[n]} \cup c ELSE c]]
           V == CHOOSE below : below = [m \in Nodes |->
                                IF m = Backend THEN {} ELSE {base[m]} \cup below[base[m]]]
<1>3. g \in [Nodes -> [C -> C]]
  BY <1>2
<1>4. PICK f : GoesUp(f, Nodes, C, Backend, {}, base, g)
  <2>1. {} \in C
    OBVIOUS
  <2> HIDE DEF g, C
  <2> QED BY <1>1, <1>2, <1>3, <2>1, ChainRecursion
<1>5. f = [m \in Nodes |-> IF m = Backend THEN {} ELSE {base[m]} \cup f[base[m]]]
  <2>1. \A m \in Nodes : f[m] = IF m = Backend THEN {} ELSE {base[m]} \cup f[base[m]]
    BY <1>2, <1>4 DEF GoesUp
  <2> QED BY <1>4, <2>1 DEF GoesUp
<1>6. V = [m \in Nodes |-> IF m = Backend THEN {} ELSE {base[m]} \cup V[base[m]]]
  BY <1>5
<1>7. \A n : Below(n) = V[n]
  BY DEF Below
<1> HIDE DEF V
<1> QED BY <1>2, <1>6, <1>7 DEF BelowEquation

LEMMA BelowFactsNext == Shape' => BelowEquation'
BY BelowFacts, PTL

\* What is to hold of a transaction itself.
Holds(t) == Usable(t) /\ call[t] \notin {"leaving", "conflicting"} /\ IsIn(t)

AnchoredEquation ==
    /\ Anchored(Backend)
    /\ \A t \in Created : Anchored(t) <=> Holds(t) /\ Anchored(outer[t])

LEMMA AnchoredFacts == Shape => AnchoredEquation
<1> SUFFICES ASSUME Shape PROVE AnchoredEquation
  OBVIOUS
<1>1. PICK rank : Chained(Nodes, Backend, outer, rank)
  BY ShapeFacts
<1>2. /\ \A t \in Created : outer[t] \in Nodes
      /\ Backend \notin Created /\ Nodes = Created \cup {Backend}
  BY ShapeFacts
<1> DEFINE g == [n \in Nodes |-> [c \in BOOLEAN |-> Holds(n) /\ c]]
           V == CHOOSE anchored : anchored = [m \in Nodes |->
                  IF m = Backend THEN TRUE
                  ELSE /\ Usable(m) /\ call[m] \notin {"leaving", "conflicting"} /\ IsIn(m)
                       /\ anchored[outer[m]]]
<1>3. g \in [Nodes -> [BOOLEAN -> BOOLEAN]]
  OBVIOUS
<1>4. PICK f : GoesUp(f, Nodes, BOOLEAN, Backend, TRUE, outer, g)
  <2>1. TRUE \in BOOLEAN
    OBVIOUS
  <2> HIDE DEF g
  <2> QED BY <1>1, <1>2, <1>3, <2>1, ChainRecursion
<1>5. f = [m \in Nodes |-> IF m = Backend THEN TRUE ELSE Holds(m) /\ f[outer[m]]]
  <2>1. \A m \in Nodes : f[m] = IF m = Backend THEN TRUE ELSE Holds(m) /\ f[outer[m]]
    BY <1>2, <1>4 DEF GoesUp
  <2> QED BY <1>4, <2>1 DEF GoesUp
<1>6. V = [m \in Nodes |-> IF m = Backend THEN TRUE
                           ELSE /\ Usable(m) /\ call[m] \notin {"leaving", "conflicting"} /\ IsIn(m)
                                /\ V[outer[m]]]
  <2>1. f = [m \in Nodes |-> IF m = Backend THEN TRUE
                             ELSE /\ Usable(m) /\ call[m] \notin {"leaving", "conflicting"} /\ IsIn(m)
                                  /\ f[outer[m]]]
    BY <1>5 DEF Holds
  <2> QED BY <2>1
<1>7. \A n : Anchored(n) = V[n]
  BY DEF Anchored
<1> HIDE DEF V
<1>8. /\ V[Backend] = TRUE
      /\ \A t \in Created : V[t] = (Usable(t) /\ call[t] \notin {"leaving", "conflicting"} /\ IsIn(t)
                                    /\ V[outer[t]])
  BY <1>2, <1>6
<1> QED BY <1>7, <1>8 DEF AnchoredEquation, Holds

LEMMA AnchoredFactsNext == Shape' => AnchoredEquation'
BY AnchoredFacts, PTL

-----------------------------------------------------------------------------
CachedEquation ==
    \A k \in Key :
        /\ IsCached(Backend, k) <=> kind = "memory"
        /\ \A t \in Created :
              IsCached(t, k) <=> \/ cache[t][k] # Untouched
                                 \/ IsSynchronous(base[t]) /\ IsCached(base[t], k)

LEMMA CachedFacts == Shape => CachedEquation
<1> SUFFICES ASSUME Shape, NEW k \in Key
             PROVE  /\ IsCached(Backend, k) <=> kind = "memory"
                    /\ \A t \in Created :
                          IsCached(t, k) <=> \/ cache[t][k] # Untouched
                                             \/ IsSynchronous(base[t]) /\ IsCached(base[t], k)
  BY DEF CachedEquation
<1>1. PICK rank : Chained(Nodes, Backend, base, rank)
  BY ShapeFacts
<1>2. /\ \A t \in Created : base[t] \in Nodes
      /\ Backend \notin Created /\ Nodes = Created \cup {Backend}
  BY ShapeFacts
<1> DEFINE c == kind = "memory"
           own(m) == cache[m][k] # Untouched
           g == [m \in Nodes |-> [x \in BOOLEAN |-> own(m) \/ (IsSynchronous(base[m]) /\ x)]]
           V == CHOOSE cached : cached = [m \in Nodes |->
                  IF m = Backend THEN kind = "memory"
                  ELSE cache[m][k] # Untouched \/ (IsSynchronous(base[m]) /\ cached[base[m]])]
<1>3. g \in [Nodes -> [BOOLEAN -> BOOLEAN]] /\ c \in BOOLEAN
  OBVIOUS
<1>4. PICK f : GoesUp(f, Nodes, BOOLEAN, Backend, c, base, g)
  <2> HIDE DEF g, c
  <2> QED BY <1>1, <1>2, <1>3, ChainRecursion
<1>5. f = [m \in Nodes |-> IF m = Backend THEN kind = "memory"
                           ELSE own(m) \/ (IsSynchronous(base[m]) /\ f[base[m]])]
  <2>1. \A m \in Nodes : f[m] = IF m = Backend THEN kind = "memory"
                                ELSE own(m) \/ (IsSynchronous(base[m]) /\ f[base[m]])
    BY <1>2, <1>4 DEF GoesUp
  <2> QED BY <1>4, <2>1 DEF GoesUp
<1>6. V = [m \in Nodes |-> IF m = Backend THEN kind = "memory"
                           ELSE cache[m][k] # Untouched \/ (IsSynchronous(base[m]) /\ V[base[m]])]
  BY <1>5
<1>7. \A n : IsCached(n, k) = V[n]
  BY DEF IsCached
<1> HIDE DEF V
<1>8. /\ V[Backend] = (kind = "memory")
      /\ \A t \in Created : V[t] = (cache[t][k] # Untouched \/ (IsSynchronous(base[t]) /\ V[base[t]]))
  BY <1>2, <1>6
<1> QED BY <1>7, <1>8

LEMMA CachedFactsNext == Shape' => CachedEquation'
BY CachedFacts, PTL

Answers == Value \cup {Absent}

SyncEquation ==
    \A k \in Key, e \in BOOLEAN :
        /\ GetSync(Backend, k, e) = db[k]
        /\ \A t \in Created : GetSync(t, k, e) =
              IF Decides(t, k) THEN Get(change[t], Nothing, k)
              ELSE IF Missing(cache[t][k]) /\ IsSynchronous(base[t]) THEN GetSync(base[t], k, e)
              ELSE IF Missing(cache[t][k]) /\ e THEN "throws"
              ELSE IF cache[t][k] = Untouched THEN Absent ELSE cache[t][k]
        /\ ~e => \A n \in Nodes : GetSync(n, k, e) \in Answers

LEMMA SyncFacts == Shape => SyncEquation
<1> SUFFICES ASSUME Shape, NEW k \in Key, NEW e \in BOOLEAN
             PROVE  /\ GetSync(Backend, k, e) = db[k]
                    /\ \A t \in Created : GetSync(t, k, e) =
                          IF Decides(t, k) THEN Get(change[t], Nothing, k)
                          ELSE IF Missing(cache[t][k]) /\ IsSynchronous(base[t])
                          THEN GetSync(base[t], k, e)
                          ELSE IF Missing(cache[t][k]) /\ e THEN "throws"
                          ELSE IF cache[t][k] = Untouched THEN Absent ELSE cache[t][k]
                    /\ ~e => \A n \in Nodes : GetSync(n, k, e) \in Answers
  BY DEF SyncEquation
<1>1. PICK rank : Chained(Nodes, Backend, base, rank)
  BY ShapeFacts
<1>2. /\ \A t \in Created : base[t] \in Nodes /\ t \in Tx
      /\ Backend \notin Created /\ Nodes = Created \cup {Backend}
  BY ShapeFacts
<1> DEFINE C == IF e THEN Answers \cup {"throws"} ELSE Answers
           G(m, x) == IF Decides(m, k) THEN Get(change[m], Nothing, k)
                      ELSE IF Missing(cache[m][k]) /\ IsSynchronous(base[m]) THEN x
                      ELSE IF Missing(cache[m][k]) /\ e THEN "throws"
                      ELSE IF cache[m][k] = Untouched THEN Absent ELSE cache[m][k]
           g == [m \in Nodes |-> [x \in C |-> IF m = Backend THEN x ELSE G(m, x)]]
           V == CHOOSE get : get = [m \in Nodes |->
                  IF m = Backend THEN db[k]
                  ELSE IF Decides(m, k) THEN Get(change[m], Nothing, k)
                  ELSE IF Missing(cache[m][k]) /\ IsSynchronous(base[m]) THEN get[base[m]]
                  ELSE IF Missing(cache[m][k]) /\ e THEN "throws"
                  ELSE IF cache[m][k] = Untouched THEN Absent ELSE cache[m][k]]
<1>3. ASSUME NEW m \in Created, NEW x \in C
      PROVE  G(m, x) \in C
  <2>1. change[m] \in Change /\ cache[m][k] \in Value \cup {Absent, Untouched}
    BY <1>2 DEF Shape, TypeOK
  <2>2. Decides(m, k) => Get(change[m], Nothing, k) \in Answers
    BY <2>1 DEF Decides, Get, Change, Nothing, Answers
  <2>3. (Missing(cache[m][k]) /\ ~e) \/ ~Missing(cache[m][k])
            => (IF cache[m][k] = Untouched THEN Absent ELSE cache[m][k]) \in Answers
    BY <2>1 DEF Answers
  <2>4. Answers \subseteq C /\ (e => "throws" \in C)
    OBVIOUS
  <2> QED BY <2>2, <2>3, <2>4
<1>4. g \in [Nodes -> [C -> C]] /\ db[k] \in C
  <2>1. db[k] \in Answers
    BY DEF Shape, TypeOK, Contents, Answers
  <2>2. db[k] \in C
    BY <2>1
  <2> HIDE DEF C, G
  <2> QED BY <1>2, <1>3, <2>2
<1>5. PICK f : GoesUp(f, Nodes, C, Backend, db[k], base, g)
  <2> HIDE DEF g, C
  <2> QED BY <1>1, <1>2, <1>4, ChainRecursion
<1>6. \A m \in Nodes : f[m] = IF m = Backend THEN db[k] ELSE G(m, f[base[m]])
  <2> HIDE DEF C, G
  <2> QED BY <1>2, <1>5 DEF GoesUp
<1>7. f = [m \in Nodes |->
             IF m = Backend THEN db[k]
             ELSE IF Decides(m, k) THEN Get(change[m], Nothing, k)
             ELSE IF Missing(cache[m][k]) /\ IsSynchronous(base[m]) THEN f[base[m]]
             ELSE IF Missing(cache[m][k]) /\ e THEN "throws"
             ELSE IF cache[m][k] = Untouched THEN Absent ELSE cache[m][k]]
  BY <1>5, <1>6 DEF GoesUp
<1>8. V = [m \in Nodes |->
             IF m = Backend THEN db[k]
             ELSE IF Decides(m, k) THEN Get(change[m], Nothing, k)
             ELSE IF Missing(cache[m][k]) /\ IsSynchronous(base[m]) THEN V[base[m]]
             ELSE IF Missing(cache[m][k]) /\ e THEN "throws"
             ELSE IF cache[m][k] = Untouched THEN Absent ELSE cache[m][k]]
  BY <1>7
<1>9. \A n : GetSync(n, k, e) = V[n]
  BY DEF GetSync
<1> HIDE DEF V
<1>10. V[Backend] = db[k] /\ \A t \in Created : V[t] = G(t, V[base[t]])
  BY <1>2, <1>8
<1> DEFINE typed == {n \in Nodes : V[n] \in C}
<1>11. Nodes \subseteq typed
  <2> HIDE DEF G, C
  <2>1. Backend \in typed
    BY <1>2, <1>4, <1>10
  <2>2. \A n \in Nodes \ {Backend} : base[n] \in typed => n \in typed
    BY <1>2, <1>3, <1>10
  <2> HIDE DEF typed
  <2> QED BY <1>1, <2>1, <2>2, ChainInduction
<1>12. ~e => \A n \in Nodes : V[n] \in Answers
  BY <1>11
<1> HIDE DEF typed
<1> QED BY <1>9, <1>10, <1>12

LEMMA SyncFactsNext == Shape' => SyncEquation'
BY SyncFacts, PTL

ReadEquation ==
    \A k \in Key :
        /\ Read(Backend, k) = db[k]
        /\ \A t \in Created : Read(t, k) =
              IF t \in Synchronous /\ IsCached(t, k) THEN GetSync(t, k, FALSE)
              ELSE IF Decides(t, k) THEN Get(change[t], Nothing, k)
              ELSE Read(base[t], k)
        /\ \A n \in Nodes : Read(n, k) \in Answers

LEMMA ReadFacts == Shape => ReadEquation
<1> SUFFICES ASSUME Shape, NEW k \in Key
             PROVE  /\ Read(Backend, k) = db[k]
                    /\ \A t \in Created : Read(t, k) =
                          IF t \in Synchronous /\ IsCached(t, k) THEN GetSync(t, k, FALSE)
                          ELSE IF Decides(t, k) THEN Get(change[t], Nothing, k)
                          ELSE Read(base[t], k)
                    /\ \A n \in Nodes : Read(n, k) \in Answers
  BY DEF ReadEquation
<1>1. PICK rank : Chained(Nodes, Backend, base, rank)
  BY ShapeFacts
<1>2. /\ \A t \in Created : base[t] \in Nodes /\ t \in Tx
      /\ Backend \notin Created /\ Nodes = Created \cup {Backend}
  BY ShapeFacts
<1> DEFINE G(m, x) == IF m \in Synchronous /\ IsCached(m, k) THEN GetSync(m, k, FALSE)
                      ELSE IF Decides(m, k) THEN Get(change[m], Nothing, k)
                      ELSE x
           g == [m \in Nodes |-> [x \in Answers |-> IF m = Backend THEN x ELSE G(m, x)]]
           V == CHOOSE read : read = [m \in Nodes |->
                  IF m = Backend THEN db[k]
                  ELSE IF m \in Synchronous /\ IsCached(m, k) THEN GetSync(m, k, FALSE)
                  ELSE IF Decides(m, k) THEN Get(change[m], Nothing, k)
                  ELSE read[base[m]]]
<1>3. ASSUME NEW m \in Created, NEW x \in Answers
      PROVE  G(m, x) \in Answers
  <2>1. change[m] \in Change
    BY <1>2 DEF Shape, TypeOK
  <2>2. Decides(m, k) => Get(change[m], Nothing, k) \in Answers
    BY <2>1 DEF Decides, Get, Change, Nothing, Answers
  <2>3. GetSync(m, k, FALSE) \in Answers
    BY <1>2, SyncFacts DEF SyncEquation
  <2> QED BY <2>2, <2>3
<1>4. g \in [Nodes -> [Answers -> Answers]] /\ db[k] \in Answers
  <2>1. db[k] \in Answers
    BY DEF Shape, TypeOK, Contents, Answers
  <2> HIDE DEF G
  <2> QED BY <1>2, <1>3, <2>1
<1>5. PICK f : GoesUp(f, Nodes, Answers, Backend, db[k], base, g)
  <2> HIDE DEF g
  <2> QED BY <1>1, <1>2, <1>4, ChainRecursion
<1>6. \A m \in Nodes : f[m] = IF m = Backend THEN db[k] ELSE G(m, f[base[m]])
  <2> HIDE DEF G
  <2> QED BY <1>2, <1>5 DEF GoesUp
<1>7. f = [m \in Nodes |->
             IF m = Backend THEN db[k]
             ELSE IF m \in Synchronous /\ IsCached(m, k) THEN GetSync(m, k, FALSE)
             ELSE IF Decides(m, k) THEN Get(change[m], Nothing, k)
             ELSE f[base[m]]]
  BY <1>5, <1>6 DEF GoesUp
<1>8. V = [m \in Nodes |->
             IF m = Backend THEN db[k]
             ELSE IF m \in Synchronous /\ IsCached(m, k) THEN GetSync(m, k, FALSE)
             ELSE IF Decides(m, k) THEN Get(change[m], Nothing, k)
             ELSE V[base[m]]]
  BY <1>7
<1>9. \A n : Read(n, k) = V[n]
  BY DEF Read
<1> HIDE DEF V
<1>10. V[Backend] = db[k] /\ \A t \in Created : V[t] = G(t, V[base[t]])
  BY <1>2, <1>8
<1> DEFINE typed == {n \in Nodes : V[n] \in Answers}
<1>11. Nodes \subseteq typed
  <2> HIDE DEF G
  <2>1. Backend \in typed
    BY <1>2, <1>4, <1>10
  <2>2. \A n \in Nodes \ {Backend} : base[n] \in typed => n \in typed
    BY <1>2, <1>3, <1>10
  <2> HIDE DEF typed
  <2> QED BY <1>1, <2>1, <2>2, ChainInduction
<1>12. \A n \in Nodes : V[n] \in Answers
  BY <1>11
<1> HIDE DEF typed
<1> QED BY <1>9, <1>10, <1>12

RememberEquation ==
    \A k \in Key :
        /\ Remembering(Backend, k) = {}
        /\ \A t \in Created : Remembering(t, k) =
              IF t \in Synchronous /\ IsCached(t, k) THEN {}
              ELSE ({t} \cap Synchronous) \cup (IF Decides(t, k) THEN {} ELSE Remembering(base[t], k))

LEMMA RememberFacts == Shape => RememberEquation
<1> SUFFICES ASSUME Shape, NEW k \in Key
             PROVE  /\ Remembering(Backend, k) = {}
                    /\ \A t \in Created : Remembering(t, k) =
                          IF t \in Synchronous /\ IsCached(t, k) THEN {}
                          ELSE ({t} \cap Synchronous)
                                  \cup (IF Decides(t, k) THEN {} ELSE Remembering(base[t], k))
  BY DEF RememberEquation
<1>1. PICK rank : Chained(Nodes, Backend, base, rank)
  BY ShapeFacts
<1>2. /\ \A t \in Created : base[t] \in Nodes
      /\ Backend \notin Created /\ Nodes = Created \cup {Backend}
  BY ShapeFacts
<1> DEFINE C == SUBSET Synchronous
           G(m, x) == IF m \in Synchronous /\ IsCached(m, k) THEN {}
                      ELSE ({m} \cap Synchronous) \cup (IF Decides(m, k) THEN {} ELSE x)
           g == [m \in Nodes |-> [x \in C |-> G(m, x)]]
           V == CHOOSE asked : asked = [m \in Nodes |->
                  IF m = Backend \/ (m \in Synchronous /\ IsCached(m, k)) THEN {}
                  ELSE ({m} \cap Synchronous) \cup (IF Decides(m, k) THEN {} ELSE asked[base[m]])]
<1>3. g \in [Nodes -> [C -> C]] /\ {} \in C
  <2>1. \A m \in Nodes : \A x \in C : G(m, x) \in C
    OBVIOUS
  <2>2. {} \in C
    OBVIOUS
  <2> HIDE DEF C, G
  <2> QED BY <2>1, <2>2
<1>4. PICK f : GoesUp(f, Nodes, C, Backend, {}, base, g)
  <2> HIDE DEF g, C
  <2> QED BY <1>1, <1>2, <1>3, ChainRecursion
<1>5. \A m \in Nodes : f[m] = IF m = Backend THEN {} ELSE G(m, f[base[m]])
  <2> HIDE DEF G, C
  <2> QED BY <1>2, <1>4 DEF GoesUp
<1>6. f = [m \in Nodes |->
             IF m = Backend \/ (m \in Synchronous /\ IsCached(m, k)) THEN {}
             ELSE ({m} \cap Synchronous) \cup (IF Decides(m, k) THEN {} ELSE f[base[m]])]
  BY <1>4, <1>5 DEF GoesUp
<1>7. V = [m \in Nodes |->
             IF m = Backend \/ (m \in Synchronous /\ IsCached(m, k)) THEN {}
             ELSE ({m} \cap Synchronous) \cup (IF Decides(m, k) THEN {} ELSE V[base[m]])]
  BY <1>6
<1>8. \A n : Remembering(n, k) = V[n]
  BY DEF Remembering
<1> HIDE DEF V
<1>9. V[Backend] = {} /\ \A t \in Created : V[t] = G(t, V[base[t]])
  BY <1>2, <1>7
<1> QED BY <1>8, <1>9

-----------------------------------------------------------------------------
(***************************************************************************)
(* Types                                                                   *)
(***************************************************************************)

LEMMA TypeInit ==
    ASSUME Init
    PROVE  TypeOK /\ Fresh
<1>1. Nothing \in Contents /\ NoChange \in Change
  BY ChangeType DEF Nothing, Contents
<1>2. db \in Contents
  BY NestedAssumption DEF Init, Contents
<1>3. Created = {}
  BY DEF Init, Created
<1> QED BY <1>1, <1>2, <1>3 DEF Init, TypeOK, Fresh, States, Calls

\* Whoever leaves: what becomes of the outer transactions.
LEMMA LeaveFacts ==
    ASSUME TypeOK, Fresh, NEW S, Depart(S)
    PROVE  /\ nested' \in [Tx -> SUBSET Tx] /\ state' \in [Tx -> States]
           /\ merged' \in [Tx -> BOOLEAN] /\ round' \in [Tx -> Nat]
           /\ early' \subseteq Created /\ Created' = Created /\ early \subseteq early'
           /\ \A o \in Tx : nested'[o] = nested[o] \ S
           /\ \A o \in LeftBy(S) : /\ o \in Tx /\ nested[o] # {} /\ nested'[o] = {}
                                   /\ state'[o] = "OPEN" /\ ~merged'[o]
                                   /\ round'[o] = round[o] + 1
                                   /\ Merging(o) # {} => o \in early'
           /\ \A o \in Tx : o \notin LeftBy(S) => /\ state'[o] = state[o] /\ merged'[o] = merged[o]
                                                  /\ round'[o] = round[o]
                                                  /\ o \in early' => o \in early
                                                  /\ nested[o] # {} => nested'[o] # {}
<1>1. LeftBy(S) \subseteq Created
  BY DEF LeftBy, Created, Fresh
<1>2. /\ nested' = [o \in Tx |-> nested[o] \ S]
      /\ state' = [o \in Tx |-> IF o \in LeftBy(S) THEN "OPEN" ELSE state[o]]
      /\ merged' = [o \in Tx |-> merged[o] /\ o \notin LeftBy(S)]
      /\ round' = [o \in Tx |-> IF o \in LeftBy(S) THEN round[o] + 1 ELSE round[o]]
      /\ early' = early \cup {o \in LeftBy(S) : Merging(o) # {}}
  BY DEF Depart, LeaveOuter
<1>3. Created' = Created
  <2>1. \A t \in Tx : state'[t] = "none" <=> state[t] = "none"
    BY <1>1, <1>2 DEF Created
  <2> QED BY <2>1 DEF Created
<1>4. /\ nested' \in [Tx -> SUBSET Tx] /\ state' \in [Tx -> States]
      /\ round' \in [Tx -> Nat]
  BY <1>2 DEF TypeOK, States
<1>5. merged' \in [Tx -> BOOLEAN]
  BY <1>2, Zenon
<1>6. early' \subseteq Created /\ early \subseteq early'
  BY <1>1, <1>2 DEF TypeOK
<1>7. \A o \in LeftBy(S) : /\ o \in Tx /\ nested[o] # {} /\ nested'[o] = {}
                           /\ state'[o] = "OPEN" /\ ~merged'[o]
                           /\ round'[o] = round[o] + 1
                           /\ Merging(o) # {} => o \in early'
  BY <1>2 DEF LeftBy
<1>8. \A o \in Tx : o \notin LeftBy(S) => /\ state'[o] = state[o] /\ merged'[o] = merged[o]
                                          /\ round'[o] = round[o]
                                          /\ o \in early' => o \in early
                                          /\ nested[o] # {} => nested'[o] # {}
  BY <1>2 DEF LeftBy, TypeOK
<1> QED BY <1>2, <1>3, <1>4, <1>5, <1>6, <1>7, <1>8

\* One that is created.
LEMMA CreateFacts ==
    ASSUME Shape, NEW t \in Tx, NEW o, NEW b \in Nodes, o \in Nodes, Create(t, o, b),
           state' \in [Tx -> States], Created' = Created \cup {t}
    PROVE  /\ outer' \in [Tx -> Tx \cup {Backend, Null}] /\ base' \in [Tx -> Tx \cup {Backend, Null}]
           /\ seen' \in [Tx -> Contents] /\ moved' \subseteq Created'
<1>1. View(b) \in Contents
  BY ViewFacts DEF ViewEquation
<1>2. Nodes \subseteq Tx \cup {Backend}
  BY ShapeFacts
<1> QED BY <1>1, <1>2 DEF Create, Shape, TypeOK

LEMMA OpenFacts ==
    ASSUME Shape, NEW t \in Tx, OpenRoot(t) \/ \E o \in Tx : OpenNested(t, o)
    PROVE  /\ state[t] = "none" /\ t \notin Created
           /\ state' \in [Tx -> States] /\ Created' = Created \cup {t}
           /\ outer'[t] \in Nodes /\ base'[t] \in Nodes
           /\ \A u \in Tx : u # t => outer'[u] = outer[u] /\ base'[u] = base[u]
           /\ TypeOK'
<1>1. Nodes = Created \cup {Backend} /\ Created \subseteq Tx
  BY ShapeFacts
<1>2. Top \in Nodes
  <2>1. stack # <<>> => Last(stack) \in Elements(stack)
    BY DEF Shape, TypeOK, Last, Elements
  <2> QED BY <1>1, <2>1 DEF Top, Shape, Stacked
<1>3. CASE OpenRoot(t)
  <2>1. Create(t, Backend, Top) /\ state' = [state EXCEPT ![t] = "OPEN"] /\ UNCHANGED <<nested, born>>
    BY <1>3 DEF OpenRoot
  <2>2. state[t] = "none" /\ state' \in [Tx -> States]
    BY <2>1 DEF Create, Shape, TypeOK, States
  <2>3. Created' = Created \cup {t}
    BY <2>1, <2>2 DEF Created, Shape, TypeOK
  <2>4. /\ outer' \in [Tx -> Tx \cup {Backend, Null}] /\ base' \in [Tx -> Tx \cup {Backend, Null}]
        /\ seen' \in [Tx -> Contents] /\ moved' \subseteq Created'
    BY <1>1, <1>2, <2>1, <2>2, <2>3, CreateFacts
  <2>5. TypeOK'
    BY <2>1, <2>2, <2>3, <2>4 DEF Create, Shape, TypeOK, store, data
  <2> QED BY <1>1, <1>2, <2>1, <2>2, <2>3, <2>5 DEF Create, Shape, TypeOK, Created
<1>4. CASE \E o \in Tx : OpenNested(t, o)
  <2>1. PICK o \in Tx : OpenNested(t, o)
    BY <1>4
  <2>2. /\ Create(t, o, o) /\ state' = [state EXCEPT ![t] = "OPEN", ![o] = "NESTED"]
        /\ nested' = [nested EXCEPT ![o] = @ \cup {t}] /\ born' = [born EXCEPT ![t] = round[o]]
        /\ Usable(o)
    BY <2>1 DEF OpenNested
  <2>3. state[t] = "none" /\ state' \in [Tx -> States] /\ o \in Created
    BY <2>2 DEF Create, Shape, TypeOK, States, Usable, Created
  <2>4. Created' = Created \cup {t}
    <3>1. \A u \in Tx : state'[u] # "none" <=> state[u] # "none" \/ u = t
      BY <2>2, <2>3 DEF Shape, TypeOK, Usable
    <3> QED BY <3>1 DEF Created
  <2>5. /\ outer' \in [Tx -> Tx \cup {Backend, Null}] /\ base' \in [Tx -> Tx \cup {Backend, Null}]
        /\ seen' \in [Tx -> Contents] /\ moved' \subseteq Created'
    BY <1>1, <2>2, <2>3, <2>4, CreateFacts
  <2>6. nested' \in [Tx -> SUBSET Tx] /\ born' \in [Tx -> Nat] /\ early \subseteq Created'
    BY <2>2, <2>4 DEF Shape, TypeOK
  <2>10. \A u \in Tx : nested'[u] \subseteq Created'
    BY <2>2, <2>4 DEF Shape, TypeOK
  <2>7. TypeOK'
    BY <2>10, <2>2, <2>3, <2>4, <2>5, <2>6 DEF Create, Shape, TypeOK, store, data
  <2>8. /\ outer' = [outer EXCEPT ![t] = o] /\ base' = [base EXCEPT ![t] = o]
        /\ outer \in [Tx -> Tx \cup {Backend, Null}] /\ base \in [Tx -> Tx \cup {Backend, Null}]
    BY <2>2 DEF Create, Shape, TypeOK
  <2>9. o \in Nodes /\ t \notin Created
    BY <1>1, <2>3 DEF Created
  <2> QED BY <2>3, <2>4, <2>7, <2>8, <2>9
<1> QED BY <1>3, <1>4

LEMMA TypeStep ==
    ASSUME Shape, [Next]_vars
    PROVE  TypeOK'
<1> USE DEF store, data, tree, history
<1>1. ASSUME NEW t \in Tx, OpenRoot(t) \/ \E o \in Tx : OpenNested(t, o)
      PROVE  TypeOK'
  BY <1>1, OpenFacts
<1>2. ASSUME NEW t \in Tx, Write(t)
      PROVE  TypeOK'
  <2>1. PICK k \in Key, w \in Writes :
           change' = [change EXCEPT ![t] = CASE w = "put" -> PutKey(@, k, t)
                                             [] w = "remove" -> RemoveKey(@, k)
                                             [] w = "truncate" -> Emptied]
    BY <1>2 DEF Write
  <2>2. w \in {"put", "remove", "truncate"} /\ t \in Value /\ change[t] \in Change
    BY NestedAssumption DEF Shape, TypeOK
  <2>3. /\ PutKey(change[t], k, t) \in Change /\ RemoveKey(change[t], k) \in Change
        /\ Emptied \in Change
    BY <2>2, ChangeType
  <2>4. (CASE w = "put" -> PutKey(change[t], k, t)
           [] w = "remove" -> RemoveKey(change[t], k)
           [] w = "truncate" -> Emptied) \in Change
    BY <2>2, <2>3
  <2>5. change' \in [Tx -> Change]
    BY <2>1, <2>4 DEF Shape, TypeOK
  <2> QED BY <1>2, <2>5 DEF Write, Shape, TypeOK, Created
<1>3. ASSUME NEW t \in Tx, NEW k \in Key, Preload(t, k)
      PROVE  TypeOK'
  <2>1. t \in Created
    BY <1>3 DEF Preload, Usable, Created
  <2>2. Read(t, k) \in Answers
    BY <2>1, ShapeFacts, ReadFacts DEF ReadEquation
  <2>3. cache' \in [Tx -> [Key -> Value \cup {Absent, Untouched}]]
    BY <1>3, <2>2 DEF Preload, Shape, TypeOK, Answers
  <2> QED BY <1>3, <2>3 DEF Preload, Shape, TypeOK, Created
<1>4. ASSUME NEW S, Depart(S), call' \in [Tx -> Calls], waits' \in [Tx -> SUBSET Tx],
             UNCHANGED <<store, tree, data, born, seen, moved>>
      PROVE  TypeOK'
  <2>1. /\ nested' \in [Tx -> SUBSET Tx] /\ state' \in [Tx -> States]
        /\ merged' \in [Tx -> BOOLEAN] /\ round' \in [Tx -> Nat]
        /\ early' \subseteq Created /\ Created' = Created
        /\ \A o \in Tx : nested'[o] = nested[o] \ S
    BY <1>4, LeaveFacts DEF Shape
  <2>2. \A o \in Tx : nested'[o] \subseteq Created'
    BY <2>1 DEF Shape, TypeOK
  <2> QED BY <1>4, <2>1, <2>2 DEF Shape, TypeOK
<1>5. ASSUME NEW t \in Tx, Abort(t)
      PROVE  TypeOK'
  <2>1. call' \in [Tx -> Calls] /\ waits' \in [Tx -> SUBSET Tx]
    BY <1>5 DEF Abort, Shape, TypeOK, Calls
  <2> QED BY <1>4, <1>5, <2>1 DEF Abort
<1>6. ASSUME NEW t \in Tx, AbortGoesOn(t)
      PROVE  TypeOK'
  <2>1. call' \in [Tx -> Calls] /\ waits' \in [Tx -> SUBSET Tx]
    BY <1>6 DEF AbortGoesOn, Shape, TypeOK, Calls
  <2> QED BY <1>4, <1>6, <2>1 DEF AbortGoesOn
<1>7. ASSUME NEW t \in Tx, ConflictNested(t)
      PROVE  TypeOK'
  <2>1. call' \in [Tx -> Calls] /\ waits' \in [Tx -> SUBSET Tx]
    BY <1>7 DEF ConflictNested, Shape, TypeOK, Calls
  <2> QED BY <1>4, <1>7, <2>1 DEF ConflictNested
<1>8. ASSUME NEW t \in Tx, AbortThrows(t)
      PROVE  TypeOK'
  BY <1>8 DEF AbortThrows, Shape, TypeOK, Created, Calls
<1>9. ASSUME NEW t \in Tx, FinishAbort(t)
      PROVE  TypeOK'
  <2>1. /\ call' \in [Tx -> Calls] /\ waits' \in [Tx -> SUBSET Tx] /\ state' \in [Tx -> States]
        /\ Created \subseteq Created'
    BY <1>9 DEF FinishAbort, Shape, TypeOK, Created, Calls, States
  <2> QED BY <1>9, <2>1 DEF FinishAbort, Shape, TypeOK
<1>10. ASSUME NEW t \in Tx, CommitRoot(t)
       PROVE  TypeOK'
  <2>1. Append(stack, t) \in Seq(Tx)
    BY DEF Shape, TypeOK
  <2>2. stack' \in Seq(Tx) /\ call' \in [Tx -> Calls]
    BY <1>10, <2>1 DEF CommitRoot, Shape, TypeOK, Calls
  <2> QED BY <1>10, <2>2 DEF CommitRoot, Shape, TypeOK, Created
<1>11. ASSUME NEW t \in Tx, CommitNested(t)
       PROVE  TypeOK'
  <2>1. /\ call' \in [Tx -> Calls] /\ nested' \in [Tx -> SUBSET Tx]
        /\ \A o \in Tx : nested'[o] \subseteq Created
    BY <1>11 DEF CommitNested, Shape, TypeOK, Calls
  <2>2. merged' \in [Tx -> BOOLEAN]
    BY <1>11 DEF CommitNested, Accept, Shape, TypeOK
  <2> QED BY <1>11, <2>1, <2>2 DEF CommitNested, Shape, TypeOK, Created
<1>12. ASSUME NEW t \in Tx, ApplyNested(t)
       PROVE  TypeOK'
  <2>1. \A c, d \in Change : Merge(c, d) \in Change
    BY ChangeType
  <2>2. change' \in [Tx -> Change] /\ call' \in [Tx -> Calls]
    BY <1>12, <2>1 DEF ApplyNested, Shape, TypeOK, Calls
  <2>3. moved' \subseteq Created
    BY <1>12 DEF ApplyNested, Shape, TypeOK, Readers
  <2> QED BY <1>12, <2>2, <2>3 DEF ApplyNested, Shape, TypeOK, Created
<1>13. ASSUME NEW t \in Tx, ApplyThrows(t)
       PROVE  TypeOK'
  BY <1>13 DEF ApplyThrows, Shape, TypeOK, Created, Calls
<1>14. ASSUME NEW t \in Tx, EndMerge(t)
       PROVE  TypeOK'
  <2>1. call' \in [Tx -> Calls]
    BY <1>14 DEF EndMerge, Shape, TypeOK, Calls
  <2>2. CASE ~Reopens(outer[t])
    BY <1>14, <2>1, <2>2 DEF EndMerge, Shape, TypeOK, Created
  <2>3. CASE Reopens(outer[t])
    <3>0. /\ state' = [state EXCEPT ![outer[t]] = "OPEN"]
          /\ merged' = [merged EXCEPT ![outer[t]] = FALSE]
          /\ round' = [round EXCEPT ![outer[t]] = @ + 1]
      BY <1>14, <2>3 DEF EndMerge
    <3>1. /\ state' \in [Tx -> States] /\ merged' \in [Tx -> BOOLEAN] /\ round' \in [Tx -> Nat]
          /\ Created \subseteq Created'
      <4>0. merged \in [Tx -> BOOLEAN]
        BY DEF Shape, TypeOK
      <4>1. merged' \in [Tx -> BOOLEAN]
        BY <3>0, <4>0, Zenon
      <4>3. round' \in [Tx -> Nat]
        <5>1. round \in [Tx -> Nat] /\ outer[t] \in Tx
          BY <1>14 DEF EndMerge, Shape, TypeOK, MergesAreNested, Created
        <5>2. round[outer[t]] + 1 \in Nat
          BY <5>1
        <5> QED BY <3>0, <5>1, <5>2
      <4>2. state' \in [Tx -> States] /\ Created \subseteq Created'
        BY <3>0 DEF Shape, TypeOK, Created, States
      <4> QED BY <4>1, <4>2, <4>3
    <3>2. moved' \subseteq Created'
      <4>1. outer[t] \in Created
        BY <1>14 DEF EndMerge, Shape, MergesAreNested
      <4> QED BY <1>14, <2>3, <3>1, <4>1 DEF EndMerge, Readers, Shape, TypeOK
    <3> QED BY <1>14, <2>1, <2>3, <3>1, <3>2 DEF EndMerge, Shape, TypeOK
  <2> QED BY <2>2, <2>3
<1>15. ASSUME NEW t \in Tx, FinishCommit(t)
       PROVE  TypeOK'
  <2>1. /\ call' \in [Tx -> Calls] /\ state' \in [Tx -> States] /\ Created \subseteq Created'
    BY <1>15 DEF FinishCommit, Shape, TypeOK, Created, Calls, States
  <2> QED BY <1>15, <2>1 DEF FinishCommit, Shape, TypeOK
<1>16. CASE FlushBottom
  <2>1. stack # <<>> /\ Head(stack) \in Tx /\ Tail(stack) \in Seq(Tx)
    BY <1>16 DEF FlushBottom, Shape, TypeOK
  <2>2. db' \in Contents
    BY <1>16, <2>1, OnType DEF FlushBottom, Shape, TypeOK
  <2>3. base' \in [Tx -> Tx \cup {Backend, Null}]
    BY <1>16 DEF FlushBottom, Shape, TypeOK
  <2> QED BY <1>16, <2>1, <2>2, <2>3 DEF FlushBottom, Shape, TypeOK, Created
<1>17. CASE UNCHANGED vars
  BY <1>17 DEF vars, Shape, TypeOK, Created
<1> QED BY <1>1, <1>2, <1>3, <1>5, <1>6, <1>7, <1>8, <1>9, <1>10, <1>11, <1>12, <1>13, <1>14,
           <1>15, <1>16, <1>17 DEF Next, Work

-----------------------------------------------------------------------------
(***************************************************************************)
(* Who is based on whom                                                    *)
(***************************************************************************)

LEMMA ShapeInit ==
    ASSUME Init
    PROVE  Shape
<1>1. Created = {} /\ Nodes = {Backend} /\ stack = <<>>
  BY DEF Init, Created, Nodes
<1>2. Elements(stack) = {}
  BY <1>1 DEF Elements
<1>3. Chained(Nodes, Backend, base, [n \in Nodes |-> 0]) /\ Chained(Nodes, Backend, outer, [n \in Nodes |-> 0])
  BY <1>1 DEF Chained
<1>4. Founded
  BY <1>1, <1>3 DEF Founded
<1> QED BY <1>1, <1>2, <1>4, TypeInit
        DEF Init, Shape, Rooted, Stacked, Linked, Distinct, MergesAreNested

\* What a step that creates nobody and moves nobody leaves as it is.
LEMMA ShapeFrame ==
    ASSUME Shape, TypeOK', Created' = Created, UNCHANGED <<outer, base, stack>>,
           \A t \in Tx : state[t] = "none" =>
              UNCHANGED <<change[t], nested[t], merged[t], call[t], cache[t]>>,
           \A t \in Tx : call'[t] \in {"merging", "merged"} =>
              call[t] \in {"merging", "merged"} \/ outer[t] \in Created
    PROVE  Shape'
<1>1. \A t \in Tx : state'[t] = "none" => state[t] = "none"
  BY DEF Created
<1>2. Fresh'
  BY <1>1 DEF Shape, Fresh
<1>3. Nodes' = Nodes
  BY DEF Nodes
<1>4. Rooted' /\ Stacked' /\ Founded'
  BY <1>3 DEF Shape, Rooted, Stacked, Founded
<1>5. MergesAreNested'
  BY DEF Shape, MergesAreNested
<1> QED BY <1>2, <1>4, <1>5 DEF Shape

LEMMA OpenShape ==
    ASSUME Shape, NEW t \in Tx, OpenRoot(t) \/ \E o \in Tx : OpenNested(t, o)
    PROVE  Shape'
<1>1. /\ state[t] = "none" /\ t \notin Created /\ Created' = Created \cup {t} /\ TypeOK'
      /\ outer'[t] \in Nodes /\ base'[t] \in Nodes
      /\ \A u \in Tx : u # t => outer'[u] = outer[u] /\ base'[u] = base[u]
  BY OpenFacts
<1>2. /\ Nodes = Created \cup {Backend} /\ Nodes' = Nodes \cup {t} /\ Backend # t
      /\ Created \subseteq Tx /\ Backend \notin Tx
      /\ \A u \in Created : base[u] \in Nodes /\ outer[u] \in Nodes
  BY <1>1, ShapeFacts DEF Nodes
<1>3. /\ UNCHANGED <<stack, merged, call, change, cache>>
      /\ \A u \in Tx : state[u] = "none" => nested'[u] = nested[u]
      /\ \/ outer'[t] = Backend /\ base'[t] = Top
         \/ outer'[t] \in Created /\ base'[t] = outer'[t]
  <2>1. CASE OpenRoot(t)
    BY <2>1 DEF OpenRoot, Create, Shape, TypeOK, store, data
  <2>2. CASE \E o \in Tx : OpenNested(t, o)
    <3>1. PICK o \in Tx : OpenNested(t, o)
      BY <2>2
    <3>2. /\ outer' = [outer EXCEPT ![t] = o] /\ base' = [base EXCEPT ![t] = o]
          /\ nested' = [nested EXCEPT ![o] = @ \cup {t}] /\ state[o] # "none"
          /\ UNCHANGED <<stack, merged, call, change, cache>>
      BY <3>1 DEF OpenNested, Create, store, data, Usable
    <3>3. o \in Created
      BY <3>2 DEF Created
    <3> QED BY <3>2, <3>3 DEF Shape, TypeOK
  <2> QED BY <2>1, <2>2
<1>4. Top \in Elements(stack) \cup {Backend}
  BY DEF Shape, TypeOK, Last, Elements, Top
<1>5. Fresh'
  <2>1. \A u \in Tx : state'[u] = "none" => state[u] = "none" /\ u # t
    BY <1>1 DEF Created
  <2> QED BY <1>1, <1>3, <2>1 DEF Shape, Fresh
<1>6. Rooted'
  BY <1>1, <1>2, <1>3, <1>4 DEF Shape, Rooted
<1>7. Elements(stack) \subseteq Created /\ t \notin Elements(stack)
  BY <1>1 DEF Shape, Stacked
<1>8. Stacked'
  <2>1. \A i \in DOMAIN stack : stack[i] \in Elements(stack)
    BY DEF Elements
  <2>2. \A i \in DOMAIN stack : base'[stack[i]] = base[stack[i]]
    BY <1>1, <1>2, <1>7, <2>1
  <2>3. Linked(stack, base', Backend)
    BY <2>2 DEF Shape, Stacked, Linked
  <2>4. \A l \in Elements(stack) : l \in Created' /\ outer'[l] = Backend
    BY <1>1, <1>2, <1>7 DEF Shape, Stacked
  <2> QED BY <1>3, <2>3, <2>4 DEF Shape, Stacked
<1>9. Founded'
  <2>1. PICK rank : /\ Chained(Nodes, Backend, base, rank) /\ Chained(Nodes, Backend, outer, rank)
                    /\ rank[Backend] = 0
    BY DEF Shape, Founded
  <2> DEFINE new == [n \in Nodes \cup {t} |->
                       IF n = t THEN rank[base'[t]] + rank[outer'[t]] + 1 ELSE rank[n]]
  <2>2. /\ rank \in [Nodes -> Nat]
        /\ \A n \in Created : rank[base[n]] < rank[n] /\ rank[outer[n]] < rank[n]
    BY <1>2, <2>1 DEF Chained
  <2>3. new \in [Nodes \cup {t} -> Nat] /\ \A n \in Nodes : n # t /\ new[n] = rank[n]
    BY <1>1, <1>2, <2>2
  <2>4. new[base'[t]] < new[t] /\ new[outer'[t]] < new[t]
    BY <1>1, <2>2, <2>3
  <2> HIDE DEF new
  <2>5. \A n \in Created : /\ base'[n] \in Nodes /\ new[base'[n]] < new[n]
                           /\ outer'[n] \in Nodes /\ new[outer'[n]] < new[n]
    BY <1>1, <1>2, <2>2, <2>3
  <2>6. /\ Chained(Nodes \cup {t}, Backend, base', new) /\ Chained(Nodes \cup {t}, Backend, outer', new)
        /\ new[Backend] = 0
    BY <1>1, <1>2, <2>1, <2>3, <2>4, <2>5 DEF Chained
  <2> QED BY <1>2, <2>6 DEF Founded
<1>10. MergesAreNested'
  <2>1. \A u \in Tx : call[u] \in {"merging", "merged"} => u # t
    BY <1>1 DEF Shape, Fresh
  <2> QED BY <1>1, <1>3, <2>1 DEF Shape, MergesAreNested
<1> QED BY <1>1, <1>5, <1>6, <1>8, <1>9, <1>10 DEF Shape

LEMMA StackFacts ==
    ASSUME Shape
    PROVE  /\ Elements(stack) \subseteq Created /\ \A l \in Elements(stack) : outer[l] = Backend
           /\ Top = TopOf(stack, Backend) /\ Top \in Elements(stack) \cup {Backend}
           /\ \A l \in Elements(stack) :
                base[l] \in Elements(stack) \cup {Backend} /\ base[l] # l /\ base[l] # Top
           /\ stack # <<>> => /\ Head(stack) \in Elements(stack) /\ base[Head(stack)] = Backend
                              /\ Head(stack) = stack[1] /\ 1 \in 1..Len(stack)
           /\ \A l \in Elements(stack) : base[l] = Backend => stack # <<>> /\ l = Head(stack)
           /\ \A l \in Elements(stack) : (\E i \in DOMAIN stack : stack[i] = l)
           /\ \A i \in DOMAIN stack : stack[i] \in Elements(stack)
<1>1. stack \in Seq(Tx) /\ Linked(stack, base, Backend) /\ Distinct(stack) /\ Backend \notin Tx
  BY NestedAssumption DEF Shape, TypeOK, Stacked
<1>2. /\ TopOf(stack, Backend) \in Elements(stack) \cup {Backend}
      /\ \A l \in Elements(stack) :
           /\ base[l] # l /\ base[l] # TopOf(stack, Backend) /\ base[l] \in Elements(stack) \cup {Backend}
           /\ stack # <<>>
      /\ \A l, m \in Elements(stack) : base[l] = base[m] => l = m
      /\ stack # <<>> => stack[1] \in Elements(stack)
  BY <1>1, LinkedFacts
<1>3. Top = TopOf(stack, Backend)
  BY <1>1 DEF Top, TopOf, Last
<1>4. stack # <<>> => 1 \in DOMAIN stack /\ Head(stack) = stack[1] /\ 1 \in 1..Len(stack)
  BY <1>1
<1>5. stack # <<>> => base[Head(stack)] = Backend
  BY <1>1, <1>4 DEF Linked
<1>6. /\ \A l \in Elements(stack) : (\E i \in DOMAIN stack : stack[i] = l)
      /\ \A i \in DOMAIN stack : stack[i] \in Elements(stack)
  BY DEF Elements
<1> QED BY <1>2, <1>3, <1>4, <1>5, <1>6 DEF Shape, Stacked

\* The bottom of the stack goes.
LEMMA TailFacts ==
    ASSUME NEW S, NEW s \in Seq(S), s # <<>>
    PROVE  RemoveAt(s, 1) = Tail(s)
<1>1. Tail(s) \in Seq(S) /\ Len(Tail(s)) = Len(s) - 1 /\ 1 \in 1..Len(s) /\ Len(s) \in Nat
  OBVIOUS
<1>2. \A j \in 1..(Len(s) - 1) : Tail(s)[j] = s[j + 1]
  OBVIOUS
<1>3. /\ RemoveAt(s, 1) \in Seq(S) /\ Len(RemoveAt(s, 1)) = Len(s) - 1
      /\ \A j \in 1..(Len(s) - 1) : RemoveAt(s, 1)[j] = IF j < 1 THEN s[j] ELSE s[j + 1]
  BY <1>1, RemoveAtFacts
<1>4. \A j \in 1..Len(RemoveAt(s, 1)) : RemoveAt(s, 1)[j] = Tail(s)[j]
  BY <1>1, <1>2, <1>3
<1> HIDE DEF RemoveAt
<1> QED BY <1>1, <1>3, <1>4, SeqEqual

LEMMA CommitRootShape ==
    ASSUME Shape, NEW t \in Tx, CommitRoot(t), TypeOK'
    PROVE  Shape' /\ (base[t] = Top => t \notin Elements(stack) /\ Elements(stack') = Elements(stack) \cup {t})
<1>1. t \in Created /\ outer[t] = Backend /\ UNCHANGED <<state, outer, base, change, nested, merged, cache>>
  BY DEF CommitRoot, Commits, IsRoot, Created, tree, data
<1>2. Created' = Created /\ Nodes' = Nodes
  BY <1>1 DEF Created, Nodes
<1>3. \A u \in Tx : /\ u # t => call'[u] = call[u]
                    /\ call'[t] \in {"committing", "conflicting"}
  BY DEF CommitRoot, Shape, TypeOK
<1>4. Fresh'
  BY <1>1, <1>3 DEF Shape, Fresh, Created
<1>5. Founded'
  BY <1>1, <1>2 DEF Shape, Founded
<1>6. MergesAreNested'
  BY <1>1, <1>2, <1>3 DEF Shape, MergesAreNested
<1>7. CASE base[t] = Top
  <2>1. stack' = Append(stack, t)
    BY <1>7 DEF CommitRoot
  <2>2. /\ stack \in Seq(Tx) /\ Linked(stack, base, Backend) /\ Distinct(stack)
        /\ base[t] = TopOf(stack, Backend) /\ t \notin Elements(stack)
    BY <1>7, StackFacts DEF Shape, Stacked, TypeOK
  <2>3. /\ Linked(stack', base, Backend) /\ Distinct(stack')
        /\ Elements(stack') = Elements(stack) \cup {t}
    BY <2>1, <2>2, LinkedAppend
  <2>4. Stacked'
    BY <1>1, <1>2, <2>3 DEF Shape, Stacked
  <2>5. Rooted'
    BY <1>1, <1>2, <2>3 DEF Shape, Rooted
  <2> QED BY <1>4, <1>5, <1>6, <2>2, <2>3, <2>4, <2>5 DEF Shape
<1>8. CASE base[t] # Top
  <2>1. stack' = stack
    BY <1>8 DEF CommitRoot
  <2>2. Stacked' /\ Rooted'
    BY <1>1, <1>2, <2>1 DEF Shape, Stacked, Rooted
  <2> QED BY <1>4, <1>5, <1>6, <1>8, <2>2 DEF Shape
<1> QED BY <1>7, <1>8

LEMMA FlushShape ==
    ASSUME Shape, FlushBottom, TypeOK'
    PROVE  /\ Shape' /\ Created' = Created /\ Nodes' = Nodes
           /\ Elements(stack') = Elements(stack) \ {Head(stack)}
<1> DEFINE h == Head(stack)
<1>1. /\ stack # <<>> /\ stack' = Tail(stack)
      /\ base' = [t \in Tx |-> IF base[t] = h /\ outer[t] = Backend THEN Backend ELSE base[t]]
      /\ UNCHANGED <<state, outer, change, nested, merged, call, cache>>
  BY DEF FlushBottom, IsRoot, data
<1>2. Created' = Created /\ Nodes' = Nodes
  BY <1>1 DEF Created, Nodes
<1>3. stack \in Seq(Tx) /\ Linked(stack, base, Backend) /\ Distinct(stack) /\ Backend \notin Tx
  BY NestedAssumption DEF Shape, TypeOK, Stacked
<1>4. /\ h \in Elements(stack) /\ base[h] = Backend /\ h = stack[1] /\ 1 \in 1..Len(stack)
      /\ Elements(stack) \subseteq Created /\ \A l \in Elements(stack) : outer[l] = Backend
  BY <1>1, StackFacts
<1>5. Created \subseteq Tx
  BY DEF Created
<1> HIDE DEF h
<1>6. \A l \in Elements(stack) : l # stack[1] =>
        base'[l] = IF base[l] = stack[1] THEN base[stack[1]] ELSE base[l]
  BY <1>1, <1>4, <1>5
<1>7. /\ Linked(RemoveAt(stack, 1), base', Backend) /\ Distinct(RemoveAt(stack, 1))
      /\ Elements(RemoveAt(stack, 1)) = Elements(stack) \ {stack[1]}
  <2> DEFINE new == base'
  <2>1. \A l \in Elements(stack) : l # stack[1] =>
          new[l] = IF base[l] = stack[1] THEN base[stack[1]] ELSE base[l]
    BY <1>6
  <2> HIDE DEF new
  <2>2. /\ Linked(RemoveAt(stack, 1), new, Backend) /\ Distinct(RemoveAt(stack, 1))
        /\ Elements(RemoveAt(stack, 1)) = Elements(stack) \ {stack[1]}
    BY <1>3, <1>4, <2>1, LinkedRemove
  <2> QED BY <2>2 DEF new
<1>8. RemoveAt(stack, 1) = stack'
  BY <1>1, <1>3, TailFacts
<1>9. Elements(stack') = Elements(stack) \ {h}
  BY <1>4, <1>7, <1>8
<1>10. Stacked'
  BY <1>1, <1>2, <1>4, <1>7, <1>8, <1>9 DEF Stacked
<1>11. Rooted'
  BY <1>1, <1>2, <1>5, <1>9 DEF Shape, Rooted
<1>12. Fresh'
  <2>1. \A t \in Tx : state[t] = "none" => base'[t] = Null
    BY <1>1, NestedAssumption DEF Shape, Fresh
  <2> QED BY <1>1, <2>1 DEF Shape, Fresh
<1>13. Founded'
  <2>1. PICK rank : /\ Chained(Nodes, Backend, base, rank) /\ Chained(Nodes, Backend, outer, rank)
                    /\ rank[Backend] = 0
    BY DEF Shape, Founded
  <2>2. \A m \in Nodes \ {Backend} : base'[m] \in Nodes /\ rank[base'[m]] < rank[m]
    <3>1. ASSUME NEW m \in Nodes \ {Backend}
          PROVE  base'[m] \in Nodes /\ rank[base'[m]] < rank[m]
      <4>1. /\ m \in Tx /\ Backend \in Nodes /\ rank[base[m]] < rank[m] /\ base[m] \in Nodes
            /\ rank[base[m]] \in Nat /\ rank[m] \in Nat
        BY <1>5, <2>1 DEF Chained, Nodes
      <4>2. base'[m] = Backend \/ base'[m] = base[m]
        BY <1>1, <4>1
      <4> QED BY <2>1, <4>1, <4>2
    <3> QED BY <3>1
  <2>3. Chained(Nodes, Backend, base', rank)
    BY <2>1, <2>2 DEF Chained
  <2> QED BY <1>1, <1>2, <2>1, <2>3 DEF Founded
<1>14. MergesAreNested'
  BY <1>1, <1>2 DEF Shape, MergesAreNested
<1> QED BY <1>2, <1>9, <1>10, <1>11, <1>12, <1>13, <1>14 DEF Shape, h

\* The actions that neither create nor move a transaction.
Quiet ==
    \/ \E t \in Tx : \/ Write(t) \/ \E k \in Key : Preload(t, k)
                     \/ Abort(t) \/ CommitNested(t) \/ ConflictNested(t) \/ Work(t)
    \/ UNCHANGED vars

LEMMA QuietShape ==
    ASSUME Shape, TypeOK', Quiet
    PROVE  Shape' /\ Created' = Created /\ Nodes' = Nodes /\ UNCHANGED <<outer, base, stack, db, kind, seen, born>>
<1>1. SUFFICES /\ Created' = Created /\ UNCHANGED <<outer, base, stack, db, kind, seen, born>>
               /\ \A t \in Tx : state[t] = "none" =>
                     UNCHANGED <<change[t], nested[t], merged[t], call[t], cache[t]>>
               /\ \A t \in Tx : call'[t] \in {"merging", "merged"} =>
                     call[t] \in {"merging", "merged"} \/ outer[t] \in Created
  BY <1>1, ShapeFrame DEF Nodes
<1> USE DEF store, data, tree, history
<1> DEFINE Goal == /\ Created' = Created /\ UNCHANGED <<outer, base, stack, db, kind, seen, born>>
                   /\ \A t \in Tx : state[t] = "none" =>
                         UNCHANGED <<change[t], nested[t], merged[t], call[t], cache[t]>>
                   /\ \A t \in Tx : call'[t] \in {"merging", "merged"} =>
                         call[t] \in {"merging", "merged"} \/ outer[t] \in Created
<1>2. ASSUME NEW t \in Tx, Write(t)
      PROVE  Goal
  <2>1. state[t] # "none"
    BY <1>2 DEF Write, Writable
  <2>2. \A u \in Tx : u # t => change'[u] = change[u]
    BY <1>2 DEF Write, Shape, TypeOK
  <2> QED BY <1>2, <2>1, <2>2 DEF Write, Created
<1>3. ASSUME NEW t \in Tx, NEW k \in Key, Preload(t, k)
      PROVE  Goal
  <2>1. \A u \in Tx : cache'[u] = IF u \in Remembering(t, k) THEN [cache[u] EXCEPT ![k] = Read(t, k)]
                                  ELSE cache[u]
    BY <1>3 DEF Preload
  <2> DEFINE P == {n \in Nodes : Remembering(n, k) \subseteq Created}
  <2>2. /\ Nodes = Created \cup {Backend} /\ \A n \in Created : base[n] \in Nodes
        /\ \E rank : Chained(Nodes, Backend, base, rank)
    BY ShapeFacts
  <2>3. /\ Remembering(Backend, k) = {}
        /\ \A n \in Created : Remembering(n, k) \subseteq {n} \cup Remembering(base[n], k)
    BY RememberFacts DEF RememberEquation
  <2>4. Nodes \subseteq P
    <3>1. Backend \in P /\ \A m \in Nodes \ {Backend} : base[m] \in P => m \in P
      BY <2>2, <2>3
    <3> HIDE DEF P
    <3> QED BY <2>2, <3>1, ChainInduction
  <2>5. t \in Nodes
    BY <1>3, <2>2 DEF Preload, Usable, Created
  <2>6. \A u \in Tx : state[u] = "none" => cache'[u] = cache[u]
    BY <2>1, <2>4, <2>5 DEF Created
  <2> QED BY <1>3, <2>6 DEF Preload, Created
<1>4. ASSUME NEW S, Depart(S), UNCHANGED <<store, tree, data, born, seen, moved>>,
             \A u \in Tx : state[u] = "none" => call'[u] = call[u],
             \A u \in Tx : call'[u] \in {"merging", "merged"} => call[u] \in {"merging", "merged"}
      PROVE  Goal
  <2>1. /\ Created' = Created /\ \A o \in Tx : nested'[o] = nested[o] \ S
        /\ \A o \in LeftBy(S) : nested[o] # {}
        /\ \A o \in Tx : o \notin LeftBy(S) => merged'[o] = merged[o]
    BY <1>4, LeaveFacts DEF Shape
  <2>2. \A u \in Tx : state[u] = "none" => nested[u] = {}
    BY DEF Shape, Fresh
  <2> QED BY <1>4, <2>1, <2>2
<1>5. ASSUME NEW t \in Tx, Abort(t)
      PROVE  Goal
  <2> DEFINE S == {n \in Family(t) : state[n] = "OPEN"}
  <2>1. /\ Depart(S) /\ UNCHANGED <<store, tree, data, born, seen, moved>>
        /\ Usable(t) /\ Family(t) \subseteq Tx
        /\ call' = [n \in Tx |-> IF n \notin Family(t) THEN call[n]
                                 ELSE IF n \in S THEN "leaving" ELSE "closing"]
    BY <1>5 DEF Abort, Family
  <2>2. Family(t) \subseteq Created
    <3>1. Closed(Created) /\ t \in Created /\ Created \in SUBSET Tx
      <4>1. \A n \in Created : nested[n] \subseteq Created
        BY DEF Shape, TypeOK, Created
      <4> QED BY <2>1, <4>1 DEF Closed, Created, Usable
    <3> QED BY <3>1 DEF Family
  <2> HIDE DEF S
  <2> QED BY <1>4, <2>1, <2>2 DEF Created
<1>6. ASSUME NEW t \in Tx, AbortGoesOn(t)
      PROVE  Goal
  BY <1>4, <1>6 DEF AbortGoesOn, Shape, TypeOK
<1>7. ASSUME NEW t \in Tx, ConflictNested(t)
      PROVE  Goal
  BY <1>4, <1>7 DEF ConflictNested, Commits, Shape, TypeOK
<1>8. ASSUME NEW t \in Tx, AbortThrows(t)
      PROVE  Goal
  BY <1>8 DEF AbortThrows, Shape, Fresh, TypeOK, Created
<1>9. ASSUME NEW t \in Tx, FinishAbort(t)
      PROVE  Goal
  <2>1. \A u \in Tx : u # t => state'[u] = state[u] /\ call'[u] = call[u]
    BY <1>9 DEF FinishAbort, Shape, TypeOK
  <2>2. state[t] # "none" /\ state'[t] # "none" /\ call'[t] = "none"
    BY <1>9 DEF FinishAbort, Shape, Fresh, TypeOK
  <2> QED BY <1>9, <2>1, <2>2 DEF FinishAbort, Created
<1>10. ASSUME NEW t \in Tx, FinishCommit(t)
       PROVE  Goal
  <2>1. \A u \in Tx : u # t => state'[u] = state[u] /\ call'[u] = call[u]
    BY <1>10 DEF FinishCommit, Shape, TypeOK
  <2>2. state[t] # "none" /\ state'[t] # "none" /\ call'[t] = "none"
    BY <1>10 DEF FinishCommit, Shape, Fresh, TypeOK
  <2> QED BY <1>10, <2>1, <2>2 DEF FinishCommit, Created
<1>11. ASSUME NEW t \in Tx, CommitNested(t)
       PROVE  Goal
  <2>1. /\ state[t] # "none" /\ outer[t] # Backend /\ call[t] = "none"
        /\ nested' = [nested EXCEPT ![outer[t]] = @ \ {t}]
        /\ merged' = [merged EXCEPT ![outer[t]] = TRUE]
        /\ call' = [call EXCEPT ![t] = "merging"]
        /\ UNCHANGED <<store, state, tree, data, waits, history>>
    BY <1>11 DEF CommitNested, Accept, Commits, IsRoot
  <2>2. outer[t] \in Created
    BY <2>1 DEF Shape, Rooted, Created
  <2>3. \A u \in Tx : state[u] = "none" =>
           merged'[u] = merged[u] /\ nested'[u] = nested[u] /\ call'[u] = call[u]
    BY <2>1, <2>2 DEF Shape, TypeOK, Created
  <2>4. Created' = Created /\ UNCHANGED <<outer, base, stack, db, kind, seen, born>>
    BY <2>1 DEF Created
  <2>5. UNCHANGED <<change, cache>> /\ \A u \in Tx : u # t => call'[u] = call[u]
    BY <2>1 DEF Shape, TypeOK
  <2> QED BY <2>1, <2>2, <2>3, <2>4, <2>5
<1>12. ASSUME NEW t \in Tx, ApplyNested(t)
       PROVE  Goal
  <2>1. outer[t] \in Created /\ call[t] = "merging" /\ state[t] # "none"
    BY <1>12 DEF ApplyNested, Shape, MergesAreNested, Fresh
  <2> QED BY <1>12, <2>1 DEF ApplyNested, Shape, TypeOK, Created
<1>13. ASSUME NEW t \in Tx, ApplyThrows(t)
       PROVE  Goal
  BY <1>13 DEF ApplyThrows, Shape, Fresh, TypeOK, Created
<1>14. ASSUME NEW t \in Tx, EndMerge(t)
       PROVE  Goal
  <2>1. outer[t] \in Created /\ call[t] = "merged" /\ state[t] # "none"
    BY <1>14 DEF EndMerge, Shape, MergesAreNested, Fresh
  <2>2. /\ call' = [call EXCEPT ![t] = "committing"]
        /\ UNCHANGED <<store, tree, data, nested, waits, born, seen, early>>
        /\ state' = [state EXCEPT ![outer[t]] = "OPEN"] \/ state' = state
        /\ merged' = [merged EXCEPT ![outer[t]] = FALSE] \/ merged' = merged
    BY <1>14 DEF EndMerge
  <2>3. \A u \in Tx : u # outer[t] => state'[u] = state[u] /\ merged'[u] = merged[u]
    BY <2>2 DEF Shape, TypeOK
  <2>4. state'[outer[t]] # "none"
    BY <2>1, <2>2 DEF Shape, TypeOK, Created
  <2>5. Created' = Created
    BY <2>1, <2>3, <2>4 DEF Created
  <2> QED BY <2>1, <2>2, <2>3, <2>5 DEF Shape, TypeOK, Created
<1>15. CASE UNCHANGED vars
  BY <1>15 DEF vars, Created
<1> QED BY <1>2, <1>3, <1>5, <1>6, <1>7, <1>8, <1>9, <1>10, <1>11, <1>12, <1>13, <1>14, <1>15
        DEF Quiet, Work

LEMMA ShapeStep ==
    ASSUME Shape, [Next]_vars
    PROVE  Shape'
<1>1. TypeOK'
  BY TypeStep
<1>2. \/ \E t \in Tx : OpenRoot(t) \/ \E o \in Tx : OpenNested(t, o)
      \/ \E t \in Tx : CommitRoot(t)
      \/ FlushBottom
      \/ Quiet
  BY DEF Next, Quiet
<1> QED BY <1>1, <1>2, OpenShape, CommitRootShape, FlushShape, QuietShape

-----------------------------------------------------------------------------
(***************************************************************************)
(* Who is open, in which round, and who has been accepted                  *)
(***************************************************************************)

\* Who is in _nested is open in this round, and not about to leave.
Members ==
    \A o \in Tx : \A t \in nested[o] :
        Usable(t) /\ outer[t] = o /\ call[t] \in {"none", "closing", "failing"} /\ born[t] = round[o]

\* Who is about to leave is open, and nothing is open in it.
Ending == {"merging", "merged", "committing", "conflicting", "leaving"}
EndingsAreOpen == \A t \in Tx : call[t] \in Ending => state[t] = "OPEN" /\ nested[t] = {}

BornBefore == \A t \in Created : ~IsRoot(t) => born[t] <= round[outer[t]]

\* One merge at a time into an outer transaction that was not reopened early.
OneMerge ==
    \A o \in Tx \ early : \A t, u \in Merging(o) : t = u

\* The flag is set as long as the round of the accepted one lasts.
RoundIsTaken ==
    \A t \in Created : ~IsRoot(t) /\ Accepted(t) /\ born[t] = round[outer[t]] => merged[outer[t]]

Control ==
    /\ Members /\ EndingsAreOpen /\ BornBefore /\ OneMerge /\ RoundIsTaken
    /\ OuterFollowsNested /\ FirstCommitWins

LEMMA OuterFacts ==
    ASSUME Shape, NEW t \in Created, ~IsRoot(t)
    PROVE  t \in Tx /\ outer[t] \in Created /\ outer[t] \in Tx /\ outer[t] # t /\ base[t] = outer[t]
<1>1. outer[t] \in Created /\ base[t] = outer[t] /\ Created \subseteq Tx
  BY DEF Shape, Rooted, IsRoot, Created
<1>2. PICK rank : Chained(Nodes, Backend, outer, rank)
  BY ShapeFacts
<1>3. t \in Nodes /\ t # Backend /\ outer[t] \in Nodes
  BY <1>1, ShapeFacts
<1>4. rank[outer[t]] < rank[t] /\ rank[t] \in Nat
  BY <1>2, <1>3 DEF Chained
<1> QED BY <1>1, <1>4

LEMMA ControlInit ==
    ASSUME Init
    PROVE  Control
<1>1. Created = {} /\ \A o \in Tx : Merging(o) = {}
  BY DEF Init, Created, Merging
<1> QED BY <1>1 DEF Init, Control, Members, EndingsAreOpen, BornBefore, OneMerge, RoundIsTaken,
           OuterFollowsNested, FirstCommitWins, Ending

\* Whoever is accepted after a step was so before.
LEMMA AcceptedStays ==
    ASSUME Shape, Control, Created' = Created, UNCHANGED <<outer, born>>, round' \in [Tx -> Nat],
           \A t \in Created : Accepted(t)' => Accepted(t),
           \A o \in Tx : round'[o] > round[o] \/ (round'[o] = round[o] /\ (merged[o] => merged'[o]))
    PROVE  BornBefore' /\ RoundIsTaken' /\ FirstCommitWins'
<1>1. \A t \in Created : IsRoot(t)' = IsRoot(t)
  BY DEF IsRoot
<1>2. ASSUME NEW t \in Created, ~IsRoot(t)
      PROVE  /\ born[t] <= round'[outer[t]]
             /\ born[t] = round'[outer[t]] => born[t] = round[outer[t]]
                                              /\ (merged[outer[t]] => merged'[outer[t]])
  <2>1. outer[t] \in Tx /\ t \in Tx
    BY <1>2, OuterFacts
  <2>2. born[t] \in Nat /\ round[outer[t]] \in Nat /\ round'[outer[t]] \in Nat
    BY <2>1 DEF Shape, TypeOK
  <2>3. born[t] <= round[outer[t]]
    BY <1>2 DEF Control, BornBefore
  <2> QED BY <2>1, <2>2, <2>3
<1>3. BornBefore'
  BY <1>1, <1>2 DEF BornBefore
<1>4. RoundIsTaken'
  BY <1>1, <1>2 DEF Control, RoundIsTaken
<1>5. FirstCommitWins'
  BY <1>1 DEF Control, FirstCommitWins
<1> QED BY <1>3, <1>4, <1>5

\* Nobody that is open in another one is about to leave.
LEMMA MemberFacts ==
    ASSUME Control, NEW t \in Tx, NEW o \in Tx, t \in nested[o]
    PROVE  /\ Usable(t) /\ outer[t] = o /\ call[t] \in {"none", "closing", "failing"}
           /\ born[t] = round[o] /\ state[o] = "NESTED"
BY DEF Control, Members, OuterFollowsNested

\* Steps that change no more than who is being merged: the end of _apply.
LEMMA ApplyControl ==
    ASSUME Shape, Control, NEW t \in Tx, ApplyNested(t)
    PROVE  Control'
<1>1. /\ call[t] = "merging" /\ call'[t] = "merged" /\ \A u \in Tx : u # t => call'[u] = call[u]
      /\ UNCHANGED <<state, outer, nested, merged, round, born, early>>
  BY DEF ApplyNested, Shape, TypeOK, store, tree
<1>2. Created' = Created /\ \A o \in Tx : Merging(o)' = Merging(o)
  BY <1>1 DEF Created, Merging
<1>3. \A u \in Tx : IsIn(u)' = IsIn(u) /\ IsRoot(u)' = IsRoot(u) /\ Usable(u)' = Usable(u)
  BY <1>1 DEF IsIn, IsRoot, Usable
<1>4. \A u \in Tx : (Accepted(u)' <=> Accepted(u)) /\ (Rejected(u)' <=> Rejected(u))
  BY <1>1, <1>3 DEF Accepted, Rejected
<1>5. Members' /\ EndingsAreOpen'
  <2>1. ASSUME NEW o \in Tx, NEW u \in nested[o]
        PROVE  Usable(u)' /\ outer'[u] = o /\ call'[u] \in {"none", "closing", "failing"}
               /\ born'[u] = round'[o]
    <3>1. u \in Tx
      BY DEF Shape, TypeOK
    <3> QED BY <1>1, <1>3, <3>1, MemberFacts
  <2> QED BY <1>1, <2>1 DEF Control, Members, EndingsAreOpen, Ending
<1>6. OneMerge'
  BY <1>1, <1>2 DEF Control, OneMerge
<1>7. OuterFollowsNested'
  BY <1>1, <1>2, <1>4 DEF Control, OuterFollowsNested
<1>8. BornBefore' /\ RoundIsTaken' /\ FirstCommitWins'
  <2>1. \A u \in Created : Accepted(u)' => Accepted(u)
    BY <1>4 DEF Created
  <2>2. round' \in [Tx -> Nat]
    BY <1>1 DEF Shape, TypeOK
  <2> QED BY <1>1, <1>2, <2>1, <2>2, AcceptedStays
<1> QED BY <1>5, <1>6, <1>7, <1>8 DEF Control

\* A merge that is rejected.
LEMMA ApplyThrowsControl ==
    ASSUME Shape, Control, NEW t \in Tx, ApplyThrows(t)
    PROVE  Control'
<1>1. /\ call[t] = "merging" /\ call'[t] = "none" /\ \A u \in Tx : u # t => call'[u] = call[u]
      /\ UNCHANGED <<state, outer, nested, merged, round, born, early>>
  BY DEF ApplyThrows, Shape, TypeOK, store, tree, history
<1>2. /\ Created' = Created /\ \A o \in Tx : Merging(o)' \subseteq Merging(o)
      /\ \A o \in Tx : o # outer[t] => Merging(o)' = Merging(o)
  BY <1>1 DEF Created, Merging
<1>3. \A u \in Tx : IsIn(u)' = IsIn(u) /\ IsRoot(u)' = IsRoot(u) /\ Usable(u)' = Usable(u)
  BY <1>1 DEF IsIn, IsRoot, Usable
<1>4. outer[t] \in Created /\ outer[t] \in Tx /\ ~IsRoot(t) /\ t \in Created
  BY <1>1, ShapeFacts DEF Shape, MergesAreNested, IsRoot, Fresh, Created
<1>5. ~IsIn(t) /\ Usable(t)
  <2>1. t \notin nested[outer[t]]
    BY <1>1, <1>4, MemberFacts
  <2> QED BY <1>1, <1>4, <2>1 DEF IsIn, Usable, Control, EndingsAreOpen, Ending
<1>6. Rejected(t)' /\ Accepted(t)
  BY <1>1, <1>3, <1>4, <1>5 DEF Rejected, Accepted
<1>7. \A u \in Tx : u # t => (Accepted(u)' <=> Accepted(u)) /\ (Rejected(u)' <=> Rejected(u))
  BY <1>1, <1>3 DEF Accepted, Rejected
<1>8. Members' /\ EndingsAreOpen'
  <2>1. ASSUME NEW o \in Tx, NEW u \in nested[o]
        PROVE  Usable(u)' /\ outer'[u] = o /\ call'[u] \in {"none", "closing", "failing"}
               /\ born'[u] = round'[o]
    <3>1. u \in Tx
      BY DEF Shape, TypeOK
    <3> QED BY <1>1, <1>3, <3>1, MemberFacts
  <2> QED BY <1>1, <2>1 DEF Control, Members, EndingsAreOpen, Ending
<1>9. OneMerge'
  BY <1>1, <1>2 DEF Control, OneMerge
<1>10. OuterFollowsNested'
  <2>1. ~Rejected(t)
    BY <1>1 DEF Rejected
  <2>2. ASSUME NEW o \in Tx
        PROVE  /\ nested'[o] # {} \/ merged'[o] => state'[o] = "NESTED"
               /\ state'[o] = "NESTED" =>
                     \/ nested'[o] # {} \/ Merging(o)' # {}
                     \/ \E u \in Tx : outer'[u] = o /\ Rejected(u)'
               /\ Merging(o)' # {} => (state'[o] = "NESTED" /\ merged'[o]) \/ o \in early'
    BY <1>1, <1>2, <1>6, <1>7, <2>1 DEF Control, OuterFollowsNested
  <2> QED BY <2>2 DEF OuterFollowsNested
<1>11. BornBefore' /\ RoundIsTaken' /\ FirstCommitWins'
  <2>1. \A u \in Created : Accepted(u)' => Accepted(u)
    BY <1>6, <1>7 DEF Created
  <2>2. round' \in [Tx -> Nat]
    BY <1>1 DEF Shape, TypeOK
  <2> QED BY <1>1, <1>2, <2>1, <2>2, AcceptedStays
<1> QED BY <1>8, <1>9, <1>10, <1>11 DEF Control

\* Steps that close one, or hand its call on.
LEMMA FinishControl ==
    ASSUME Shape, Control, NEW t \in Tx, FinishAbort(t) \/ FinishCommit(t)
    PROVE  Control'
<1>1. /\ call[t] \in {"leaving", "committing", "conflicting"} /\ call'[t] = "none"
      /\ state'[t] \in {"ABORTED", "COMMITTED", "CONFLICTED"}
      /\ state'[t] = "COMMITTED" => call[t] = "committing"
      /\ \A u \in Tx : u # t => call'[u] = call[u] /\ state'[u] = state[u]
      /\ UNCHANGED <<outer, nested, merged, round, born, early>>
  BY DEF FinishAbort, FinishCommit, Shape, TypeOK, store, tree, history
<1>2. state[t] = "OPEN" /\ nested[t] = {} /\ ~merged[t]
  BY <1>1 DEF Control, EndingsAreOpen, Ending, OuterFollowsNested
<1>3. /\ Created' = Created /\ \A o \in Tx : Merging(o)' = Merging(o)
  BY <1>1, <1>2 DEF Created, Merging
<1>4. /\ \A u \in Tx : IsIn(u)' = IsIn(u) /\ IsRoot(u)' = IsRoot(u)
      /\ \A u \in Tx : u # t => Usable(u)' = Usable(u)
      /\ ~Usable(t)'
  BY <1>1 DEF IsIn, IsRoot, Usable
<1>5. /\ \A u \in Tx : Accepted(u)' => Accepted(u)
      /\ \A u \in Tx : Rejected(u)' <=> Rejected(u)
  BY <1>1, <1>4 DEF Accepted, Rejected
<1>6. Members'
  <2>1. ASSUME NEW o \in Tx, NEW u \in nested[o]
        PROVE  Usable(u)' /\ outer'[u] = o /\ call'[u] \in {"none", "closing", "failing"}
               /\ born'[u] = round'[o]
    <3>1. u \in Tx
      BY DEF Shape, TypeOK
    <3> QED BY <1>1, <1>4, <3>1, MemberFacts
  <2> QED BY <1>1, <2>1 DEF Members
<1>7. EndingsAreOpen'
  BY <1>1 DEF Control, EndingsAreOpen, Ending
<1>8. OneMerge'
  BY <1>1, <1>3 DEF Control, OneMerge
<1>9. OuterFollowsNested'
  BY <1>1, <1>2, <1>3, <1>5 DEF Control, OuterFollowsNested
<1>10. BornBefore' /\ RoundIsTaken' /\ FirstCommitWins'
  <2>2. round' \in [Tx -> Nat]
    BY <1>1 DEF Shape, TypeOK
  <2> QED BY <1>1, <1>3, <1>5, <2>2, AcceptedStays DEF Created
<1> QED BY <1>6, <1>7, <1>8, <1>9, <1>10 DEF Control

LEMMA AbortThrowsControl ==
    ASSUME Shape, Control, NEW t \in Tx, AbortThrows(t)
    PROVE  Control'
<1>1. /\ \A u \in Tx : \/ call'[u] = call[u]
                       \/ call[u] \in {"closing", "failing"} /\ call'[u] \in {"none", "failing"}
      /\ UNCHANGED <<state, outer, nested, merged, round, born, early>>
  BY DEF AbortThrows, store, tree, history
<1>2. /\ Created' = Created /\ \A o \in Tx : Merging(o)' = Merging(o)
  BY <1>1 DEF Created, Merging
<1>3. \A u \in Tx : IsIn(u)' = IsIn(u) /\ IsRoot(u)' = IsRoot(u) /\ Usable(u)' = Usable(u)
  BY <1>1 DEF IsIn, IsRoot, Usable
<1>4. \A u \in Tx : (Accepted(u)' <=> Accepted(u)) /\ (Rejected(u)' <=> Rejected(u))
  BY <1>1, <1>3 DEF Accepted, Rejected
<1>5. Members' /\ EndingsAreOpen'
  <2>1. ASSUME NEW o \in Tx, NEW u \in nested[o]
        PROVE  Usable(u)' /\ outer'[u] = o /\ call'[u] \in {"none", "closing", "failing"}
               /\ born'[u] = round'[o]
    <3>1. u \in Tx
      BY DEF Shape, TypeOK
    <3> QED BY <1>1, <1>3, <3>1, MemberFacts
  <2> QED BY <1>1, <2>1 DEF Control, Members, EndingsAreOpen, Ending
<1>6. OneMerge'
  BY <1>1, <1>2 DEF Control, OneMerge
<1>7. OuterFollowsNested'
  BY <1>1, <1>2, <1>4 DEF Control, OuterFollowsNested
<1>8. BornBefore' /\ RoundIsTaken' /\ FirstCommitWins'
  <2>2. round' \in [Tx -> Nat]
    BY <1>1 DEF Shape, TypeOK
  <2> QED BY <1>1, <1>2, <1>4, <2>2, AcceptedStays DEF Created
<1> QED BY <1>5, <1>6, <1>7, <1>8 DEF Control

LEMMA CommitRootControl ==
    ASSUME Shape, Control, NEW t \in Tx, CommitRoot(t)
    PROVE  Control'
<1>1. /\ call[t] = "none" /\ call'[t] \in {"committing", "conflicting"} /\ state[t] = "OPEN" /\ IsRoot(t)
      /\ \A u \in Tx : u # t => call'[u] = call[u]
      /\ UNCHANGED <<state, outer, nested, merged, round, born, early>>
  BY DEF CommitRoot, Commits, Shape, TypeOK, tree, history
<1>2. /\ Created' = Created /\ \A o \in Tx : Merging(o)' = Merging(o)
  BY <1>1 DEF Created, Merging
<1>3. \A u \in Tx : IsIn(u)' = IsIn(u) /\ IsRoot(u)' = IsRoot(u) /\ Usable(u)' = Usable(u)
  BY <1>1 DEF IsIn, IsRoot, Usable
<1>4. /\ \A u \in Tx : u # t => (Accepted(u)' <=> Accepted(u))
      /\ \A u \in Tx : Rejected(u)' <=> Rejected(u)
  BY <1>1, <1>3 DEF Accepted, Rejected
<1>5. Members' /\ EndingsAreOpen'
  <2>1. ASSUME NEW o \in Tx, NEW u \in nested[o]
        PROVE  Usable(u)' /\ outer'[u] = o /\ call'[u] \in {"none", "closing", "failing"}
               /\ born'[u] = round'[o]
    <3>1. u \in Tx /\ Backend \notin Tx
      BY NestedAssumption DEF Shape, TypeOK
    <3>2. u # t
      BY <1>1, <3>1, MemberFacts DEF IsRoot
    <3> QED BY <1>1, <1>3, <3>1, <3>2, MemberFacts
  <2>2. nested[t] = {}
    BY <1>1 DEF Control, OuterFollowsNested
  <2> QED BY <1>1, <2>1, <2>2 DEF Control, Members, EndingsAreOpen, Ending
<1>6. OneMerge'
  BY <1>1, <1>2 DEF Control, OneMerge
<1>7. OuterFollowsNested'
  BY <1>1, <1>2, <1>4 DEF Control, OuterFollowsNested
<1>8. BornBefore'
  BY <1>1, <1>2, <1>3 DEF Control, BornBefore, Created
<1>9. \A u \in Created : ~IsRoot(u)' => ~IsRoot(u) /\ u \in Tx /\ (Accepted(u)' <=> Accepted(u))
  BY <1>1, <1>3, <1>4 DEF Created
<1>10. RoundIsTaken'
  BY <1>1, <1>2, <1>9 DEF Control, RoundIsTaken
<1>11. FirstCommitWins'
  BY <1>1, <1>2, <1>9 DEF Control, FirstCommitWins
<1> QED BY <1>5, <1>6, <1>7, <1>8, <1>10, <1>11 DEF Control

\* The first commit of a round.
LEMMA CommitNestedControl ==
    ASSUME Shape, Control, NEW t \in Tx, CommitNested(t)
    PROVE  Control'
<1> DEFINE o == outer[t]
<1>1. /\ state[t] = "OPEN" /\ t \in Created /\ ~IsRoot(t) /\ IsIn(t) /\ ~merged[o]
      /\ o \in Tx /\ o \in Created /\ o # t /\ t \in nested[o]
  <2>1. state[t] = "OPEN" /\ ~IsRoot(t) /\ IsIn(t) /\ ~merged[o]
    BY DEF CommitNested, Commits
  <2>2. t \in Created
    BY <2>1 DEF Created
  <2> QED BY <2>1, <2>2, OuterFacts DEF IsIn
<1>2. /\ call[t] = "none" /\ call'[t] = "merging" /\ \A u \in Tx : u # t => call'[u] = call[u]
      /\ nested'[o] = nested[o] \ {t} /\ \A p \in Tx : p # o => nested'[p] = nested[p]
      /\ merged'[o] /\ \A p \in Tx : p # o => merged'[p] = merged[p]
      /\ UNCHANGED <<state, outer, round, born, early>>
  <2>1. /\ merged' = [merged EXCEPT ![o] = TRUE] /\ nested' = [nested EXCEPT ![o] = @ \ {t}]
        /\ call' = [call EXCEPT ![t] = "merging"] /\ call[t] = "none"
        /\ UNCHANGED <<state, outer, round, born, early>>
    BY DEF CommitNested, Commits, Accept, tree, history
  <2> QED BY <1>1, <2>1 DEF Shape, TypeOK
<1>3. /\ Created' = Created /\ Merging(o)' = Merging(o) \cup {t}
      /\ \A p \in Tx : p # o => Merging(p)' = Merging(p)
  BY <1>1, <1>2 DEF Created, Merging
<1>4. /\ state[o] = "NESTED" /\ born[t] = round[o] /\ (o \in early \/ Merging(o) = {})
  BY <1>1, MemberFacts DEF Control, OuterFollowsNested
<1>5. \A u \in Tx : IsRoot(u)' = IsRoot(u) /\ Usable(u)' = Usable(u)
  BY <1>2 DEF IsRoot, Usable
<1>6. \A u \in Created : u # t => (IsIn(u)' <=> IsIn(u))
  <2>1. ASSUME NEW u \in Created, u # t
        PROVE  IsIn(u)' <=> IsIn(u)
    <3>1. CASE IsRoot(u)
      BY <1>5, <3>1 DEF IsIn, Created
    <3>2. CASE ~IsRoot(u)
      <4>1. outer[u] \in Tx /\ outer'[u] = outer[u] /\ ~IsRoot(u)'
        BY <1>2, <1>5, <3>2, OuterFacts DEF Created
      <4>2. u \in nested'[outer[u]] <=> u \in nested[outer[u]]
        BY <1>2, <2>1, <4>1
      <4> QED BY <3>2, <4>1, <4>2 DEF IsIn
    <3> QED BY <3>1, <3>2
  <2> QED BY <2>1
<1>7. \A u \in Created : u # t => (Accepted(u)' <=> Accepted(u)) /\ (Rejected(u)' <=> Rejected(u))
  BY <1>2, <1>5, <1>6 DEF Accepted, Rejected, Created
<1>8. \A u \in Tx : Rejected(u) => u \in Created /\ u # t
  BY <1>1 DEF Rejected, Usable, Created
<1>9. ASSUME NEW p \in Tx, NEW u \in nested'[p]
      PROVE  Usable(u)' /\ outer'[u] = p /\ call'[u] \in {"none", "closing", "failing"}
             /\ born'[u] = round'[p]
  <2>1. u \in Tx /\ u \in nested[p]
    BY <1>1, <1>2 DEF Shape, TypeOK
  <2>2. u # t
    BY <1>1, <1>2, <2>1, MemberFacts
  <2> QED BY <1>2, <1>5, <2>1, <2>2, MemberFacts
<1>10. Members'
  BY <1>9 DEF Members
<1>11. EndingsAreOpen'
  <2>1. nested[t] = {} /\ t # o
    BY <1>1 DEF Control, OuterFollowsNested
  <2>2. ASSUME NEW u \in Tx, call'[u] \in Ending
        PROVE  state'[u] = "OPEN" /\ nested'[u] = {}
    <3>1. CASE u = t
      BY <1>1, <1>2, <2>1, <3>1
    <3>2. CASE u # t
      <4>1. state[u] = "OPEN" /\ nested[u] = {}
        BY <1>2, <2>2, <3>2 DEF Control, EndingsAreOpen
      <4> QED BY <1>1, <1>2, <4>1
    <3> QED BY <3>1, <3>2
  <2> QED BY <2>2 DEF EndingsAreOpen
<1>12. OneMerge'
  BY <1>1, <1>2, <1>3, <1>4 DEF Control, OneMerge
<1>13. OuterFollowsNested'
  <2>1. ASSUME NEW p \in Tx
        PROVE  /\ nested'[p] # {} \/ merged'[p] => state'[p] = "NESTED"
               /\ state'[p] = "NESTED" =>
                     \/ nested'[p] # {} \/ Merging(p)' # {}
                     \/ \E u \in Tx : outer'[u] = p /\ Rejected(u)'
               /\ Merging(p)' # {} => (state'[p] = "NESTED" /\ merged'[p]) \/ p \in early'
    <3>1. CASE p = o
      BY <1>2, <1>3, <1>4, <3>1
    <3>2. CASE p # o
      <4>1. /\ nested[p] # {} \/ merged[p] => state[p] = "NESTED"
            /\ state[p] = "NESTED" =>
                  nested[p] # {} \/ Merging(p) # {} \/ \E u \in Tx : outer[u] = p /\ Rejected(u)
            /\ Merging(p) # {} => (state[p] = "NESTED" /\ merged[p]) \/ p \in early
        BY DEF Control, OuterFollowsNested
      <4>2. \A u \in Tx : outer[u] = p /\ Rejected(u) => outer'[u] = p /\ Rejected(u)'
        BY <1>2, <1>7, <1>8
      <4> QED BY <1>2, <1>3, <3>2, <4>1, <4>2
    <3> QED BY <3>1, <3>2
  <2> QED BY <2>1 DEF OuterFollowsNested
<1>14. BornBefore'
  BY <1>2, <1>3, <1>5 DEF Control, BornBefore, Created
<1>15. ASSUME NEW u \in Created, ~IsRoot(u), u # t, outer[u] = o, born[u] = round[o], Accepted(u)'
       PROVE  FALSE
  BY <1>1, <1>7, <1>15 DEF Control, RoundIsTaken
<1>16. RoundIsTaken'
  <2>1. ASSUME NEW u \in Created, ~IsRoot(u)', Accepted(u)', born'[u] = round'[outer'[u]]
        PROVE  merged'[outer'[u]]
    <3>1. ~IsRoot(u) /\ outer[u] \in Tx /\ u \in Tx
      BY <1>5, <2>1, OuterFacts DEF Created
    <3> QED BY <1>2, <1>7, <2>1, <3>1 DEF Control, RoundIsTaken
  <2> QED BY <1>3, <2>1 DEF RoundIsTaken
<1>17. FirstCommitWins'
  <2>1. ASSUME NEW u \in Created, NEW v \in Created, ~IsRoot(u)', ~IsRoot(v)', Accepted(u)', Accepted(v)',
               outer'[u] = outer'[v], born'[u] = born'[v]
        PROVE  u = v
    <3>1. ~IsRoot(u) /\ ~IsRoot(v) /\ UNCHANGED <<outer, born>>
      BY <1>2, <1>5, <2>1 DEF Created
    <3>2. CASE u # t /\ v # t
      BY <1>7, <2>1, <3>1, <3>2 DEF Control, FirstCommitWins
    <3>3. CASE u = t \/ v = t
      BY <1>4, <1>15, <2>1, <3>1, <3>3
    <3> QED BY <3>2, <3>3
  <2> QED BY <1>3, <2>1 DEF FirstCommitWins
<1> QED BY <1>10, <1>11, <1>12, <1>13, <1>14, <1>16, <1>17 DEF Control

LEMMA EndMergeFacts ==
    ASSUME Shape, NEW t \in Tx, EndMerge(t)
    PROVE  /\ t \in Created /\ ~IsRoot(t) /\ outer[t] \in Created /\ outer[t] \in Tx
           /\ call[t] = "merged" /\ call'[t] = "committing" /\ \A u \in Tx : u # t => call'[u] = call[u]
           /\ \A p \in Tx : p # outer[t] =>
                 state'[p] = state[p] /\ merged'[p] = merged[p] /\ round'[p] = round[p]
           /\ \/ /\ nested[outer[t]] = {} /\ state'[outer[t]] = "OPEN" /\ ~merged'[outer[t]]
                 /\ round'[outer[t]] = round[outer[t]] + 1
              \/ /\ nested[outer[t]] # {} /\ state'[outer[t]] = state[outer[t]]
                 /\ merged'[outer[t]] = merged[outer[t]] /\ round'[outer[t]] = round[outer[t]]
           /\ UNCHANGED <<outer, base, nested, born, early, seen, change, cache, stack, db, kind>>
           /\ Created' = Created
<1> DEFINE o == outer[t]
<1>1. /\ call[t] = "merged" /\ call' = [call EXCEPT ![t] = "committing"]
      /\ UNCHANGED <<outer, base, nested, born, early, seen, change, cache, stack, db, kind>>
  BY DEF EndMerge, tree, store, data
<1>2. o \in Created /\ o \in Tx /\ t \in Created /\ ~IsRoot(t)
  <2>1. o \in Created /\ t \in Created
    BY <1>1 DEF Shape, MergesAreNested, Fresh, Created
  <2> QED BY <2>1, ShapeFacts DEF IsRoot
<1>3. /\ state' = IF nested[o] = {} THEN [state EXCEPT ![o] = "OPEN"] ELSE state
      /\ merged' = IF nested[o] = {} THEN [merged EXCEPT ![o] = FALSE] ELSE merged
      /\ round' = IF nested[o] = {} THEN [round EXCEPT ![o] = @ + 1] ELSE round
  BY DEF EndMerge, Reopens
<1>4. state \in [Tx -> States] /\ merged \in [Tx -> BOOLEAN] /\ round \in [Tx -> Nat] /\ call \in [Tx -> Calls]
  BY DEF Shape, TypeOK
<1> HIDE DEF o
<1>5. CASE nested[o] = {}
  <2>1. state'[o] = "OPEN" /\ \A p \in Tx : p # o => state'[p] = state[p]
    BY <1>2, <1>3, <1>4, <1>5
  <2>2. ~merged'[o] /\ \A p \in Tx : p # o => merged'[p] = merged[p]
    BY <1>2, <1>3, <1>4, <1>5, Zenon
  <2>3. round'[o] = round[o] + 1 /\ \A p \in Tx : p # o => round'[p] = round[p]
    BY <1>2, <1>3, <1>4, <1>5
  <2>4. Created' = Created
    <3>1. \A p \in Tx : state'[p] = "none" <=> state[p] = "none"
      BY <1>2, <2>1 DEF Created
    <3> QED BY <3>1 DEF Created
  <2> QED BY <1>1, <1>2, <1>4, <1>5, <2>1, <2>2, <2>3, <2>4 DEF o
<1>6. CASE nested[o] # {}
  BY <1>1, <1>2, <1>3, <1>4, <1>6 DEF o, Created
<1> QED BY <1>5, <1>6

\* The end of a merge, which reopens the outer transaction if nobody is left in it.
LEMMA EndMergeControl ==
    ASSUME Shape, Control, NEW t \in Tx, EndMerge(t)
    PROVE  Control'
<1> DEFINE o == outer[t]
<1>1. /\ t \in Created /\ ~IsRoot(t) /\ o \in Created /\ o \in Tx
      /\ call[t] = "merged" /\ call'[t] = "committing" /\ \A u \in Tx : u # t => call'[u] = call[u]
      /\ \A p \in Tx : p # o =>
            state'[p] = state[p] /\ merged'[p] = merged[p] /\ round'[p] = round[p]
      /\ \/ nested[o] = {} /\ state'[o] = "OPEN" /\ ~merged'[o] /\ round'[o] = round[o] + 1
         \/ nested[o] # {} /\ state'[o] = state[o] /\ merged'[o] = merged[o] /\ round'[o] = round[o]
      /\ UNCHANGED <<outer, nested, born, early>> /\ Created' = Created
  BY EndMergeFacts
<1>2. state[o] = "NESTED" \/ o \in early
  BY <1>1 DEF Control, OuterFollowsNested, Merging
<1>3. /\ \A p \in Tx : p # o => Merging(p)' = Merging(p)
      /\ \A p \in Tx : Merging(p)' \subseteq Merging(p) \ {t}
  BY <1>1 DEF Merging
<1>4. \A p \in Tx : Usable(p) => Usable(p)'
  BY <1>1 DEF Usable
<1>5. \A u \in Tx : IsIn(u)' = IsIn(u) /\ IsRoot(u)' = IsRoot(u)
  BY <1>1 DEF IsIn, IsRoot
<1>6. \A u \in Tx : Rejected(u) => Rejected(u)'
  <2>1. ~Rejected(t)
    BY <1>1 DEF Rejected
  <2> QED BY <1>1, <1>4, <1>5, <2>1 DEF Rejected
<1>7. \A u \in Tx : Accepted(u)' => Accepted(u)
  <2>1. Accepted(t)
    BY <1>1 DEF Accepted
  <2>2. ASSUME NEW u \in Tx, u # t, Accepted(u)'
        PROVE  Accepted(u)
    <3>1. CASE u # o
      BY <1>1, <1>5, <2>2, <3>1 DEF Accepted, Rejected, Usable
    <3>2. CASE u = o
      <4>1. state'[o] = "COMMITTED" => state[o] = "COMMITTED"
        BY <1>1
      <4>2. CASE state'[u] = "COMMITTED" \/ call'[u] \in {"merging", "merged", "committing"}
        BY <1>1, <2>2, <3>2, <4>1, <4>2 DEF Accepted
      <4>3. CASE Rejected(u)' /\ u \notin early'
        <5>1. state[o] = "NESTED" /\ o \notin early
          BY <1>1, <1>2, <3>2, <4>3
        <5>2. Rejected(u)
          BY <1>1, <1>5, <2>2, <3>2, <4>3, <5>1 DEF Rejected, Usable
        <5> QED BY <3>2, <5>1, <5>2 DEF Accepted
      <4> QED BY <2>2, <3>2, <4>2, <4>3 DEF Accepted
    <3> QED BY <3>1, <3>2
  <2> QED BY <2>1, <2>2
<1>8. Members'
  <2>1. ASSUME NEW p \in Tx, NEW u \in nested[p]
        PROVE  Usable(u)' /\ outer'[u] = p /\ call'[u] \in {"none", "closing", "failing"}
               /\ born'[u] = round'[p]
    <3>1. u \in Tx
      BY DEF Shape, TypeOK
    <3>2. u # t
      BY <1>1, <3>1, MemberFacts
    <3> QED BY <1>1, <1>4, <3>1, <3>2, MemberFacts
  <2> QED BY <1>1, <2>1 DEF Members
<1>9. EndingsAreOpen'
  <2>1. \A u \in Tx : call'[u] \in Ending => call[u] \in Ending
    BY <1>1 DEF Ending
  <2>2. \A u \in Tx : state[u] = "OPEN" => state'[u] = "OPEN"
    BY <1>1
  <2> QED BY <1>1, <2>1, <2>2 DEF Control, EndingsAreOpen
<1>10. OneMerge'
  BY <1>1, <1>3 DEF Control, OneMerge
<1>11. OuterFollowsNested'
  <2>1. ASSUME NEW p \in Tx
        PROVE  /\ nested'[p] # {} \/ merged'[p] => state'[p] = "NESTED"
               /\ state'[p] = "NESTED" =>
                     \/ nested'[p] # {} \/ Merging(p)' # {}
                     \/ \E u \in Tx : outer'[u] = p /\ Rejected(u)'
               /\ Merging(p)' # {} => (state'[p] = "NESTED" /\ merged'[p]) \/ p \in early'
    <3>1. CASE p # o
      BY <1>1, <1>3, <1>6, <3>1 DEF Control, OuterFollowsNested
    <3>2. CASE p = o
      <4>1. t \in Merging(o)
        BY <1>1 DEF Merging
      <4>2. Merging(o)' # {} => o \in early'
        BY <1>1, <1>3, <4>1 DEF Control, OneMerge
      <4>3. nested[o] # {} => state[o] = "NESTED"
        BY <1>1 DEF Control, OuterFollowsNested
      <4>4. merged[o] => state[o] = "NESTED"
        BY <1>1 DEF Control, OuterFollowsNested
      <4> QED BY <1>1, <3>2, <4>2, <4>3, <4>4
    <3> QED BY <3>1, <3>2
  <2> QED BY <2>1 DEF OuterFollowsNested
<1>12. BornBefore' /\ RoundIsTaken' /\ FirstCommitWins'
  <2>1. round \in [Tx -> Nat]
    BY DEF Shape, TypeOK
  <2>2. \A p \in Tx : round'[p] > round[p] \/ (round'[p] = round[p] /\ (merged[p] => merged'[p]))
    BY <1>1, <2>1
  <2>3. round' \in [Tx -> Nat]
    BY TypeStep DEF Next, Work, TypeOK
  <2> QED BY <1>1, <1>7, <2>2, <2>3, AcceptedStays DEF Created
<1> QED BY <1>8, <1>9, <1>10, <1>11, <1>12 DEF Control

\* Each of S leaves: one that conflicts, one that aborts, or the innermost of an abort.
Leaves(S) ==
    /\ Depart(S) /\ UNCHANGED <<outer, born>>
    /\ \A u \in S : /\ state[u] = "OPEN" /\ IsIn(u) /\ call[u] \in {"none", "closing"}
                    /\ call'[u] \in {"leaving", "conflicting"}
    /\ \A u \in Tx \ S : call'[u] = call[u] \/ (call[u] = "none" /\ call'[u] = "closing")

LEMMA DepartEffects ==
    ASSUME Shape, Control, NEW S \in SUBSET Tx, Leaves(S)
    PROVE  /\ Created' = Created
           /\ \A o \in LeftBy(S) : state[o] = "NESTED"
           /\ \A u \in Tx : (Usable(u) <=> Usable(u)') /\ (state[u] = "OPEN" => state'[u] = "OPEN")
           /\ \A o \in Tx : Merging(o)' = Merging(o)
           /\ \A u \in Created : u \in Tx /\ (IsRoot(u)' <=> IsRoot(u))
                                 /\ (u \notin S => (IsIn(u)' <=> IsIn(u)))
<1> USE DEF Leaves
<1>1. /\ Created' = Created /\ early \subseteq early'
      /\ \A o \in Tx : nested'[o] = nested[o] \ S
      /\ \A o \in LeftBy(S) : /\ o \in Tx /\ nested[o] # {} /\ nested'[o] = {}
                              /\ state'[o] = "OPEN" /\ ~merged'[o]
                              /\ round'[o] = round[o] + 1
                              /\ Merging(o) # {} => o \in early'
      /\ \A o \in Tx : o \notin LeftBy(S) => /\ state'[o] = state[o] /\ merged'[o] = merged[o]
                                             /\ round'[o] = round[o]
                                             /\ o \in early' => o \in early
                                             /\ nested[o] # {} => nested'[o] # {}
      /\ round' \in [Tx -> Nat]
  BY LeaveFacts DEF Shape
<1>2. \A o \in LeftBy(S) : state[o] = "NESTED"
  BY <1>1 DEF Control, OuterFollowsNested
<1>3. \A u \in Tx : (Usable(u) <=> Usable(u)') /\ (state[u] = "OPEN" => state'[u] = "OPEN")
  BY <1>1, <1>2 DEF Usable
<1>4. \A o \in Tx : Merging(o)' = Merging(o)
  BY DEF Merging
<1>5. ASSUME NEW u \in Created
      PROVE  /\ u \in Tx /\ (IsRoot(u)' <=> IsRoot(u))
             /\ u \notin S => (IsIn(u)' <=> IsIn(u))
  <2>1. u \in Tx /\ (IsRoot(u)' <=> IsRoot(u))
    BY DEF IsRoot, Created
  <2>2. CASE IsRoot(u)
    BY <2>1, <2>2 DEF IsIn
  <2>3. CASE ~IsRoot(u)
    <3>1. outer[u] \in Tx /\ outer'[u] = outer[u] /\ ~IsRoot(u)'
      BY <2>1, <2>3, OuterFacts
    <3>2. u \notin S => (u \in nested'[outer[u]] <=> u \in nested[outer[u]])
      BY <1>1, <3>1
    <3> QED BY <2>1, <2>3, <3>1, <3>2 DEF IsIn
  <2> QED BY <2>2, <2>3
<1> QED BY <1>1, <1>2, <1>3, <1>4, <1>5

LEMMA DepartControl ==
    ASSUME Shape, Control, NEW S \in SUBSET Tx, Leaves(S)
    PROVE  Control'
<1> USE DEF Leaves
<1>1. /\ Created' = Created /\ early \subseteq early'
      /\ \A o \in Tx : nested'[o] = nested[o] \ S
      /\ \A o \in LeftBy(S) : /\ o \in Tx /\ nested[o] # {} /\ nested'[o] = {}
                              /\ state'[o] = "OPEN" /\ ~merged'[o]
                              /\ round'[o] = round[o] + 1
                              /\ Merging(o) # {} => o \in early'
      /\ \A o \in Tx : o \notin LeftBy(S) => /\ state'[o] = state[o] /\ merged'[o] = merged[o]
                                             /\ round'[o] = round[o]
                                             /\ o \in early' => o \in early
                                             /\ nested[o] # {} => nested'[o] # {}
      /\ round' \in [Tx -> Nat]
  BY LeaveFacts DEF Shape
<1>2. \A o \in LeftBy(S) : state[o] = "NESTED"
  BY DepartEffects
<1>3. \A u \in Tx : (Usable(u) <=> Usable(u)') /\ (state[u] = "OPEN" => state'[u] = "OPEN")
  BY DepartEffects
<1>4. \A o \in Tx : Merging(o)' = Merging(o)
  BY DepartEffects
<1>5. \A u \in Created : u \in Tx /\ (IsRoot(u)' <=> IsRoot(u))
                         /\ (u \notin S => (IsIn(u)' <=> IsIn(u)))
  BY DepartEffects
<1>6. ASSUME NEW u \in Created
      PROVE  /\ Rejected(u)' <=> Rejected(u)
             /\ Accepted(u)' => Accepted(u)
  <2>1. u \in Tx /\ (IsRoot(u)' <=> IsRoot(u)) /\ (Usable(u) <=> Usable(u)')
    BY <1>3, <1>5
  <2>2. CASE u \in S
    <3>1. ~Rejected(u)' /\ ~Rejected(u)
      BY <2>2 DEF Rejected
    <3>2. state'[u] = "OPEN" /\ call'[u] \notin {"merging", "merged", "committing"}
      BY <1>3, <2>1, <2>2
    <3> QED BY <3>1, <3>2 DEF Accepted
  <2>3. CASE u \notin S
    <3>1. Rejected(u)' <=> Rejected(u)
      BY <1>5, <2>1, <2>3 DEF Rejected
    <3>2. state'[u] = "COMMITTED" => state[u] = "COMMITTED"
      BY <1>1, <2>1
    <3>3. call'[u] \in {"merging", "merged", "committing"} => call'[u] = call[u]
      BY <2>1, <2>3
    <3> QED BY <1>1, <3>1, <3>2, <3>3 DEF Accepted
  <2> QED BY <2>2, <2>3
<1>7. Members'
  <2>1. ASSUME NEW o \in Tx, NEW u \in nested'[o]
        PROVE  Usable(u)' /\ outer'[u] = o /\ call'[u] \in {"none", "closing", "failing"}
               /\ born'[u] = round'[o]
    <3>1. u \in Tx /\ u \in nested[o] /\ u \notin S /\ o \notin LeftBy(S)
      BY <1>1 DEF Shape, TypeOK
    <3> QED BY <1>1, <1>3, <3>1, MemberFacts
  <2> QED BY <2>1 DEF Members
<1>8. EndingsAreOpen'
  <2>1. ASSUME NEW u \in Tx, call'[u] \in Ending
        PROVE  state[u] = "OPEN" /\ nested[u] = {}
    <3>1. CASE u \in S
      BY <3>1 DEF Control, OuterFollowsNested
    <3>2. CASE u \notin S
      <4>1. call[u] \in Ending
        BY <2>1, <3>2 DEF Ending
      <4> QED BY <4>1 DEF Control, EndingsAreOpen
    <3> QED BY <3>1, <3>2
  <2> QED BY <1>1, <1>3, <2>1 DEF EndingsAreOpen
<1>9. OneMerge'
  BY <1>1, <1>4 DEF Control, OneMerge
<1>10. OuterFollowsNested'
  <2>1. ASSUME NEW o \in Tx
        PROVE  /\ nested'[o] # {} \/ merged'[o] => state'[o] = "NESTED"
               /\ state'[o] = "NESTED" =>
                     \/ nested'[o] # {} \/ Merging(o)' # {}
                     \/ \E u \in Tx : outer'[u] = o /\ Rejected(u)'
               /\ Merging(o)' # {} => (state'[o] = "NESTED" /\ merged'[o]) \/ o \in early'
    <3>1. CASE o \in LeftBy(S)
      BY <1>1, <1>4, <3>1
    <3>2. CASE o \notin LeftBy(S)
      <4>1. /\ nested[o] # {} \/ merged[o] => state[o] = "NESTED"
            /\ state[o] = "NESTED" =>
                  nested[o] # {} \/ Merging(o) # {} \/ \E u \in Tx : outer[u] = o /\ Rejected(u)
            /\ Merging(o) # {} => (state[o] = "NESTED" /\ merged[o]) \/ o \in early
        BY DEF Control, OuterFollowsNested
      <4>2. \A u \in Tx : Rejected(u) => Rejected(u)'
        BY <1>6 DEF Rejected, Usable, Created
      <4>3. nested'[o] # {} => nested[o] # {}
        BY <1>1
      <4> QED BY <1>1, <1>4, <3>2, <4>1, <4>2, <4>3
    <3> QED BY <3>1, <3>2
  <2> QED BY <2>1 DEF OuterFollowsNested
<1>11. BornBefore' /\ RoundIsTaken' /\ FirstCommitWins'
  <2>1. round \in [Tx -> Nat]
    BY DEF Shape, TypeOK
  <2>2. \A o \in Tx : round'[o] > round[o] \/ (round'[o] = round[o] /\ (merged[o] => merged'[o]))
    BY <1>1, <2>1
  <2> QED BY <1>1, <1>6, <2>2, AcceptedStays
<1> QED BY <1>7, <1>8, <1>9, <1>10, <1>11 DEF Control

\* Whoever is aborted along with an outer transaction is open in one of those aborted.
LEMMA FamilyFacts ==
    ASSUME Shape, NEW t \in Tx
    PROVE  /\ t \in Family(t) /\ Family(t) \subseteq Tx
           /\ \A n \in Family(t) : nested[n] \subseteq Family(t)
           /\ \A n \in Family(t) : n # t => \E o \in Family(t) : n \in nested[o]
<1>1. t \in Family(t) /\ Family(t) \subseteq Tx
  BY DEF Family
<1>2. ASSUME NEW n \in Family(t), NEW m \in nested[n]
      PROVE  m \in Family(t)
  <2>1. m \in Tx
    BY <1>1 DEF Shape, TypeOK
  <2>2. ASSUME NEW F \in SUBSET Tx, t \in F, Closed(F)
        PROVE  m \in F
    BY <2>2 DEF Family, Closed
  <2> QED BY <2>1, <2>2 DEF Family
<1>3. ASSUME NEW n \in Family(t), n # t, \A o \in Family(t) : n \notin nested[o]
      PROVE  FALSE
  <2> DEFINE F == Family(t) \ {n}
  <2>1. F \in SUBSET Tx /\ t \in F
    BY <1>1, <1>3
  <2>2. Closed(F)
    BY <1>2, <1>3 DEF Closed
  <2>3. n \in F
    <3> HIDE DEF F
    <3> QED BY <2>1, <2>2 DEF Family
  <2> QED BY <2>3
<1> QED BY <1>1, <1>2, <1>3

LEMMA LeavingFacts ==
    ASSUME Shape, Control, NEW t \in Tx, Abort(t) \/ AbortGoesOn(t) \/ ConflictNested(t)
    PROVE  \E S \in SUBSET Tx : Leaves(S)
<1>1. UNCHANGED <<outer, born>>
  BY DEF Abort, AbortGoesOn, ConflictNested, tree
<1>2. CASE Abort(t)
  <2> DEFINE S == {n \in Family(t) : state[n] = "OPEN"}
  <2>1. /\ \A n \in Family(t) : call[n] = "none"
        /\ state[t] = "OPEN" => IsIn(t)
        /\ Depart(S)
        /\ call' = [n \in Tx |-> IF n \notin Family(t) THEN call[n]
                                 ELSE IF n \in S THEN "leaving" ELSE "closing"]
    BY <1>2 DEF Abort
  <2>2. ASSUME NEW u \in S
        PROVE  IsIn(u)
    <3>1. CASE u = t
      BY <2>1, <3>1
    <3>2. CASE u # t
      <4>1. PICK o \in Family(t) : u \in nested[o]
        BY <3>2, FamilyFacts
      <4>2. u \in Tx /\ o \in Tx
        BY FamilyFacts
      <4>3. outer[u] = o
        BY <4>1, <4>2, MemberFacts
      <4> QED BY <4>1, <4>3 DEF IsIn
    <3> QED BY <3>1, <3>2
  <2>3. S \in SUBSET Tx
    BY FamilyFacts
  <2>4. \A u \in S : /\ state[u] = "OPEN" /\ IsIn(u) /\ call[u] \in {"none", "closing"}
                     /\ call'[u] \in {"leaving", "conflicting"}
    BY <2>1, <2>2, <2>3
  <2>5. \A u \in Tx \ S : call'[u] = call[u] \/ (call[u] = "none" /\ call'[u] = "closing")
    BY <2>1
  <2> HIDE DEF S
  <2> QED BY <1>1, <2>1, <2>3, <2>4, <2>5 DEF Leaves
<1>3. CASE AbortGoesOn(t)
  <2>1. /\ state[t] = "OPEN" /\ IsIn(t) /\ call[t] = "closing" /\ call'[t] = "leaving"
        /\ \A u \in Tx \ {t} : call'[u] = call[u]
        /\ Depart({t})
    BY <1>3 DEF AbortGoesOn, Shape, TypeOK
  <2>2. Leaves({t})
    BY <1>1, <2>1 DEF Leaves
  <2> QED BY <2>2
<1>4. CASE ConflictNested(t)
  <2>1. /\ state[t] = "OPEN" /\ IsIn(t) /\ call[t] = "none" /\ call'[t] = "conflicting"
        /\ \A u \in Tx \ {t} : call'[u] = call[u]
        /\ Depart({t})
    BY <1>4 DEF ConflictNested, Commits, Shape, TypeOK
  <2>2. Leaves({t})
    BY <1>1, <2>1 DEF Leaves
  <2> QED BY <2>2
<1> QED BY <1>2, <1>3, <1>4

LEMMA LeavingControl ==
    ASSUME Shape, Control, NEW t \in Tx, Abort(t) \/ AbortGoesOn(t) \/ ConflictNested(t)
    PROVE  Control'
BY LeavingFacts, DepartControl

LEMMA OpenEffects ==
    ASSUME Shape, Control, NEW t \in Tx, OpenRoot(t) \/ \E o \in Tx : OpenNested(t, o)
    PROVE  /\ /\ state[t] = "none" /\ t \notin Created /\ Created' = Created \cup {t}
              /\ \A u \in Tx : u # t => outer'[u] = outer[u]
              /\ UNCHANGED <<call, merged, round, early>>
              /\ \A u \in Created : u \in Tx /\ u # t
           /\ call[t] = "none" /\ nested[t] = {} /\ ~merged[t] /\ \A o \in Tx : t \notin nested[o]
           /\ \/ /\ outer'[t] = Backend /\ born' = born /\ nested' = nested
                 /\ \A u \in Tx : state'[u] = IF u = t THEN "OPEN" ELSE state[u]
              \/ \E o \in Created :
                    /\ outer'[t] = o /\ Usable(o)
                    /\ \A u \in Tx : state'[u] = IF u = t THEN "OPEN" ELSE IF u = o THEN "NESTED" ELSE state[u]
                    /\ \A u \in Tx : nested'[u] = IF u = o THEN nested[o] \cup {t} ELSE nested[u]
                    /\ \A u \in Tx : born'[u] = IF u = t THEN round[o] ELSE born[u]
                    /\ call[o] = "none"
           /\ /\ \A u \in Created : Usable(u)' <=> Usable(u)
              /\ \A u \in Created : state'[u] = state[u] \/ (state'[u] = "NESTED" /\ Usable(u))
              /\ state'[t] = "OPEN"
           /\ \A o \in Tx : Merging(o)' = Merging(o)
           /\ /\ \A u \in Created : (IsRoot(u)' <=> IsRoot(u)) /\ (IsIn(u)' <=> IsIn(u)) /\ born'[u] = born[u]
              /\ IsIn(t)'
<1>1. /\ state[t] = "none" /\ t \notin Created /\ Created' = Created \cup {t}
      /\ \A u \in Tx : u # t => outer'[u] = outer[u]
      /\ UNCHANGED <<call, merged, round, early>>
      /\ \A u \in Created : u \in Tx /\ u # t
  <2>1. UNCHANGED <<call, merged, round, early>>
    BY DEF OpenRoot, OpenNested, Create
  <2> QED BY <2>1, OpenFacts DEF Created
<1>2. call[t] = "none" /\ nested[t] = {} /\ ~merged[t] /\ \A o \in Tx : t \notin nested[o]
  BY <1>1 DEF Shape, Fresh, TypeOK
\* Whom it is nested in, if anybody.
<1>3. \/ /\ outer'[t] = Backend /\ born' = born /\ nested' = nested
         /\ \A u \in Tx : state'[u] = IF u = t THEN "OPEN" ELSE state[u]
      \/ \E o \in Created :
            /\ outer'[t] = o /\ Usable(o)
            /\ \A u \in Tx : state'[u] = IF u = t THEN "OPEN" ELSE IF u = o THEN "NESTED" ELSE state[u]
            /\ \A u \in Tx : nested'[u] = IF u = o THEN nested[o] \cup {t} ELSE nested[u]
            /\ \A u \in Tx : born'[u] = IF u = t THEN round[o] ELSE born[u]
            /\ call[o] = "none"
  <2>1. CASE OpenRoot(t)
    BY <2>1 DEF OpenRoot, Create, Shape, TypeOK
  <2>2. ASSUME NEW o \in Tx, OpenNested(t, o)
        PROVE  /\ outer'[t] = o /\ Usable(o) /\ o \in Created
               /\ \A u \in Tx : state'[u] = IF u = t THEN "OPEN" ELSE IF u = o THEN "NESTED" ELSE state[u]
               /\ \A u \in Tx : nested'[u] = IF u = o THEN nested[o] \cup {t} ELSE nested[u]
               /\ \A u \in Tx : born'[u] = IF u = t THEN round[o] ELSE born[u]
               /\ call[o] = "none"
    <3>1. /\ state' = [state EXCEPT ![t] = "OPEN", ![o] = "NESTED"]
          /\ nested' = [nested EXCEPT ![o] = @ \cup {t}] /\ born' = [born EXCEPT ![t] = round[o]]
          /\ outer' = [outer EXCEPT ![t] = o] /\ Usable(o) /\ o \in Created /\ call[o] = "none"
      BY <2>2 DEF OpenNested, Create, Usable, Created
    <3> QED BY <1>1, <3>1 DEF Shape, TypeOK
  <2> QED BY <2>1, <2>2
<1>4. /\ \A u \in Created : Usable(u)' <=> Usable(u)
      /\ \A u \in Created : state'[u] = state[u] \/ (state'[u] = "NESTED" /\ Usable(u))
      /\ state'[t] = "OPEN"
  BY <1>1, <1>3 DEF Usable
<1>5. \A o \in Tx : Merging(o)' = Merging(o)
  BY <1>1, <1>2 DEF Merging
<1>6. /\ \A u \in Created : (IsRoot(u)' <=> IsRoot(u)) /\ (IsIn(u)' <=> IsIn(u)) /\ born'[u] = born[u]
      /\ IsIn(t)'
  <2>1. ASSUME NEW u \in Created
        PROVE  (IsRoot(u)' <=> IsRoot(u)) /\ (IsIn(u)' <=> IsIn(u)) /\ born'[u] = born[u]
    <3>1. outer'[u] = outer[u] /\ (IsRoot(u)' <=> IsRoot(u)) /\ born'[u] = born[u]
      BY <1>1, <1>3 DEF IsRoot
    <3>2. CASE IsRoot(u)
      BY <3>1, <3>2 DEF IsIn
    <3>3. CASE ~IsRoot(u)
      <4>1. outer[u] \in Tx
        BY <3>3, OuterFacts
      <4>2. u \in nested'[outer[u]] <=> u \in nested[outer[u]]
        <5>1. CASE nested' = nested
          BY <5>1
        <5>2. ASSUME NEW o \in Created,
                     \A v \in Tx : nested'[v] = IF v = o THEN nested[o] \cup {t} ELSE nested[v]
              PROVE  u \in nested'[outer[u]] <=> u \in nested[outer[u]]
          BY <1>1, <4>1, <5>2
        <5> QED BY <1>3, <5>1, <5>2
      <4> QED BY <3>1, <3>3, <4>2 DEF IsIn
    <3> QED BY <3>1, <3>2, <3>3
  <2>2. IsIn(t)'
    <3>1. Created \subseteq Tx
      BY <1>1
    <3> QED BY <1>3, <3>1 DEF IsIn, IsRoot
  <2> QED BY <2>1, <2>2
<1> QED BY <1>1, <1>2, <1>3, <1>4, <1>5, <1>6

LEMMA OpenControl ==
    ASSUME Shape, Control, NEW t \in Tx, OpenRoot(t) \/ \E o \in Tx : OpenNested(t, o)
    PROVE  Control'
<1>1. /\ state[t] = "none" /\ t \notin Created /\ Created' = Created \cup {t}
      /\ \A u \in Tx : u # t => outer'[u] = outer[u]
      /\ UNCHANGED <<call, merged, round, early>>
      /\ \A u \in Created : u \in Tx /\ u # t
  BY OpenEffects
<1>2. call[t] = "none" /\ nested[t] = {} /\ ~merged[t] /\ \A o \in Tx : t \notin nested[o]
  BY OpenEffects
<1>3. \/ /\ outer'[t] = Backend /\ born' = born /\ nested' = nested
         /\ \A u \in Tx : state'[u] = IF u = t THEN "OPEN" ELSE state[u]
      \/ \E o \in Created :
            /\ outer'[t] = o /\ Usable(o)
            /\ \A u \in Tx : state'[u] = IF u = t THEN "OPEN" ELSE IF u = o THEN "NESTED" ELSE state[u]
            /\ \A u \in Tx : nested'[u] = IF u = o THEN nested[o] \cup {t} ELSE nested[u]
            /\ \A u \in Tx : born'[u] = IF u = t THEN round[o] ELSE born[u]
            /\ call[o] = "none"
  BY OpenEffects
<1>4. /\ \A u \in Created : Usable(u)' <=> Usable(u)
      /\ \A u \in Created : state'[u] = state[u] \/ (state'[u] = "NESTED" /\ Usable(u))
      /\ state'[t] = "OPEN"
  BY OpenEffects
<1>5. \A o \in Tx : Merging(o)' = Merging(o)
  BY OpenEffects
<1>6. /\ \A u \in Created : (IsRoot(u)' <=> IsRoot(u)) /\ (IsIn(u)' <=> IsIn(u)) /\ born'[u] = born[u]
      /\ IsIn(t)'
  BY OpenEffects
<1>7. /\ \A u \in Created : (Accepted(u)' <=> Accepted(u)) /\ (Rejected(u)' <=> Rejected(u))
      /\ ~Accepted(t)' /\ ~Rejected(t)'
  <2>1. ASSUME NEW u \in Created
        PROVE  (Accepted(u)' <=> Accepted(u)) /\ (Rejected(u)' <=> Rejected(u))
    <3>1. Rejected(u)' <=> Rejected(u)
      BY <1>1, <1>4, <1>6 DEF Rejected
    <3>2. state'[u] = "COMMITTED" <=> state[u] = "COMMITTED"
      BY <1>4 DEF Usable
    <3> QED BY <1>1, <3>1, <3>2 DEF Accepted
  <2>2. ~Accepted(t)' /\ ~Rejected(t)'
    BY <1>1, <1>2, <1>4, <1>6 DEF Accepted, Rejected
  <2> QED BY <2>1, <2>2
<1>8. Members'
  <2>1. ASSUME NEW o \in Tx, NEW u \in nested'[o]
        PROVE  Usable(u)' /\ outer'[u] = o /\ call'[u] \in {"none", "closing", "failing"}
               /\ born'[u] = round'[o]
    <3>1. CASE u \in nested[o]
      <4>1. u \in Tx /\ u \in Created
        BY <3>1 DEF Shape, TypeOK
      <4> QED BY <1>1, <1>4, <1>6, <3>1, <4>1, MemberFacts
    <3>2. CASE u \notin nested[o]
      <4>1. /\ \A v \in Tx : nested'[v] = IF v = o THEN nested[o] \cup {t} ELSE nested[v]
            /\ o \in Created /\ outer'[t] = o /\ \A v \in Tx : born'[v] = IF v = t THEN round[o] ELSE born[v]
        BY <1>3, <3>2
      <4>2. u = t
        BY <3>2, <4>1
      <4>3. born'[t] = round'[o] /\ Usable(t)' /\ call'[t] = "none"
        BY <1>1, <1>2, <1>4, <4>1 DEF Usable
      <4> QED BY <4>1, <4>2, <4>3
    <3> QED BY <3>1, <3>2
  <2> QED BY <2>1 DEF Members
<1>9. EndingsAreOpen'
  BY <1>1, <1>2, <1>3 DEF Control, EndingsAreOpen, Ending
<1>10. OneMerge'
  BY <1>1, <1>5 DEF Control, OneMerge
<1>11. OuterFollowsNested'
  <2>1. ASSUME NEW o \in Tx
        PROVE  /\ nested'[o] # {} \/ merged'[o] => state'[o] = "NESTED"
               /\ state'[o] = "NESTED" =>
                     \/ nested'[o] # {} \/ Merging(o)' # {}
                     \/ \E u \in Tx : outer'[u] = o /\ Rejected(u)'
               /\ Merging(o)' # {} => (state'[o] = "NESTED" /\ merged'[o]) \/ o \in early'
    <3>1. \A u \in Tx : outer[u] = o /\ Rejected(u) => outer'[u] = o /\ Rejected(u)'
      <4>1. \A u \in Tx : Rejected(u) => u \in Created
        BY DEF Rejected, Usable, Created
      <4> QED BY <1>1, <1>7, <4>1
    <3>2. /\ nested[o] # {} \/ merged[o] => state[o] = "NESTED"
          /\ state[o] = "NESTED" =>
                nested[o] # {} \/ Merging(o) # {} \/ \E u \in Tx : outer[u] = o /\ Rejected(u)
          /\ Merging(o) # {} => (state[o] = "NESTED" /\ merged[o]) \/ o \in early
      BY DEF Control, OuterFollowsNested
    <3>3. CASE o = t
      <4>1. Merging(t) = {}
        <5>1. \A u \in Merging(t) : outer[u] \in Created /\ outer[u] = t
          BY DEF Merging, Shape, MergesAreNested
        <5> QED BY <1>1, <5>1
      <4>2. nested'[t] = {}
        BY <1>1, <1>2, <1>3
      <4> QED BY <1>1, <1>2, <1>4, <1>5, <3>3, <4>1, <4>2
    <3>4. CASE o # t
      <4>1. /\ nested[o] # {} => nested'[o] # {}
            /\ \/ state'[o] = state[o] /\ nested'[o] = nested[o]
               \/ state'[o] = "NESTED" /\ nested'[o] # {}
        BY <1>3, <3>4
      <4> QED BY <1>1, <1>5, <3>1, <3>2, <4>1
    <3> QED BY <3>3, <3>4
  <2> QED BY <2>1 DEF OuterFollowsNested
<1>12. \A u \in Created : ~IsRoot(u)' => outer'[u] = outer[u] /\ outer[u] \in Tx /\ ~IsRoot(u)
  BY <1>1, <1>6, OuterFacts
<1>13. BornBefore'
  <2>1. ~IsRoot(t)' => born'[t] <= round'[outer'[t]]
    <3>1. ASSUME NEW o \in Created, outer'[t] = o, \A u \in Tx : born'[u] = IF u = t THEN round[o] ELSE born[u]
          PROVE  born'[t] <= round'[outer'[t]]
      <4>1. round[o] \in Nat /\ born'[t] = round[o] /\ round'[outer'[t]] = round[o]
        BY <1>1, <3>1 DEF Shape, TypeOK
      <4> QED BY <4>1
    <3> QED BY <1>3, <3>1 DEF IsRoot
  <2> QED BY <1>1, <1>6, <1>12, <2>1 DEF Control, BornBefore
<1>14. RoundIsTaken'
  BY <1>1, <1>6, <1>7, <1>12 DEF Control, RoundIsTaken
<1>15. FirstCommitWins'
  BY <1>1, <1>6, <1>7, <1>12 DEF Control, FirstCommitWins
<1> QED BY <1>8, <1>9, <1>10, <1>11, <1>13, <1>14, <1>15 DEF Control

\* Steps that leave all this as it is.
LEMMA ControlFrame ==
    ASSUME Shape, Control, UNCHANGED <<state, outer, nested, merged, call, round, born, early>>
    PROVE  Control'
BY DEF Control, Members, EndingsAreOpen, BornBefore, OneMerge, RoundIsTaken, OuterFollowsNested,
       FirstCommitWins, Usable, IsRoot, IsIn, Merging, Accepted, Rejected, Created

LEMMA ControlStep ==
    ASSUME Shape, Control, [Next]_vars
    PROVE  Control'
<1>1. ASSUME NEW t \in Tx, Write(t) \/ \E k \in Key : Preload(t, k)
      PROVE  Control'
  BY <1>1, ControlFrame DEF Write, Preload, history, tree
<1>2. ASSUME FlushBottom \/ UNCHANGED vars
      PROVE  Control'
  BY <1>2, ControlFrame DEF FlushBottom, vars, history, tree
<1> QED BY <1>1, <1>2, OpenControl, LeavingControl, CommitRootControl, CommitNestedControl,
           AbortThrowsControl, FinishControl, ApplyControl, ApplyThrowsControl, EndMergeControl
        DEF Next, Work

\* No step edits one that is closed, unless it had been reopened during a merge.
LEMMA ClosedStep ==
    ASSUME Shape, Control, [Next]_vars,
           NEW t \in Tx \ early, state[t] \in {"COMMITTED", "ABORTED", "CONFLICTED"}
    PROVE  state'[t] = state[t] /\ change'[t] = change[t]
<1>1. /\ t \in Created /\ ~Usable(t) /\ call[t] \notin Ending /\ nested[t] = {} /\ Merging(t) = {}
  BY DEF Control, EndingsAreOpen, OuterFollowsNested, Usable, Created
<1>2. ASSUME NEW u \in Tx, OpenRoot(u) \/ \E o \in Tx : OpenNested(u, o)
      PROVE  state'[t] = state[t] /\ change'[t] = change[t]
  <2>1. u # t /\ change' = change
    BY <1>1, <1>2 DEF OpenRoot, OpenNested, Create, data, Created
  <2>2. \A o \in Tx : OpenNested(u, o) => o # t /\ state' = [state EXCEPT ![u] = "OPEN", ![o] = "NESTED"]
    BY <1>1 DEF OpenNested
  <2>3. OpenRoot(u) => state' = [state EXCEPT ![u] = "OPEN"]
    BY DEF OpenRoot
  <2> QED BY <1>2, <2>1, <2>2, <2>3 DEF Shape, TypeOK
<1>3. ASSUME NEW u \in Tx, Write(u)
      PROVE  state'[t] = state[t] /\ change'[t] = change[t]
  BY <1>1, <1>3 DEF Write, Writable, Usable, Shape, TypeOK
<1>4. ASSUME NEW u \in Tx, Abort(u) \/ AbortGoesOn(u) \/ ConflictNested(u)
      PROVE  state'[t] = state[t] /\ change'[t] = change[t]
  <2>1. change' = change /\ \E S : Depart(S)
    BY <1>4 DEF Abort, AbortGoesOn, ConflictNested, data
  <2>2. state'[t] = state[t]
    <3>1. PICK S : Depart(S)
      BY <2>1
    <3>2. t \notin LeftBy(S)
      BY <1>1 DEF LeftBy
    <3> QED BY <3>1, <3>2, LeaveFacts DEF Shape
  <2> QED BY <2>1, <2>2
<1>5. ASSUME NEW u \in Tx, ApplyNested(u)
      PROVE  state'[t] = state[t] /\ change'[t] = change[t]
  <2>1. outer[u] # t
    BY <1>1, <1>5 DEF ApplyNested, Merging
  <2> QED BY <1>5, <2>1 DEF ApplyNested, Shape, TypeOK
<1>6. ASSUME NEW u \in Tx, EndMerge(u)
      PROVE  state'[t] = state[t] /\ change'[t] = change[t]
  <2>1. outer[u] # t
    BY <1>1, <1>6 DEF EndMerge, Merging
  <2> QED BY <1>6, <2>1, EndMergeFacts
<1>7. ASSUME NEW u \in Tx, FinishAbort(u) \/ FinishCommit(u)
      PROVE  state'[t] = state[t] /\ change'[t] = change[t]
  <2>1. u # t
    BY <1>1, <1>7 DEF FinishAbort, FinishCommit, Ending
  <2> QED BY <1>7, <2>1 DEF FinishAbort, FinishCommit, data, Shape, TypeOK
<1>8. ASSUME NEW u \in Tx, \/ \E k \in Key : Preload(u, k)
                           \/ CommitRoot(u) \/ CommitNested(u) \/ AbortThrows(u) \/ ApplyThrows(u)
      PROVE  state'[t] = state[t] /\ change'[t] = change[t]
  BY <1>8 DEF Preload, CommitRoot, CommitNested, AbortThrows, ApplyThrows, data
<1>9. CASE FlushBottom \/ UNCHANGED vars
  BY <1>9 DEF FlushBottom, vars, data
<1> QED BY <1>2, <1>3, <1>4, <1>5, <1>6, <1>7, <1>8, <1>9 DEF Next, Work

\* In every state the transactions form trees over the stack and the control invariant holds.
LEMMA Invariance == Spec => [](Shape /\ Control)
<1>1. Init => Shape /\ Control
  BY ShapeInit, ControlInit
<1>2. Shape /\ Control /\ [Next]_vars => (Shape /\ Control)'
  BY ShapeStep, ControlStep
<1> QED BY <1>1, <1>2, PTL DEF Spec

\* Every variable keeps to its type, whatever is nested in what.
THEOREM TypeCorrect == Spec => []TypeOK
<1>1. Shape /\ Control => TypeOK
  BY DEF Shape
<1> QED BY <1>1, Invariance, PTL

\* An outer transaction is read-only while one nested in it is open or being merged, and no
\* longer, for any number of transactions nested to any depth.
THEOREM OuterOpensWhenNestedLeave == Spec => []OuterFollowsNested
<1>1. Shape /\ Control => OuterFollowsNested
  BY DEF Control
<1> QED BY <1>1, Invariance, PTL

\* Of the transactions of a round at most one is merged.
THEOREM OneCommitPerRound == Spec => []FirstCommitWins
<1>1. Shape /\ Control => FirstCommitWins
  BY DEF Control
<1> QED BY <1>1, Invariance, PTL

\* Nobody edits the changes of a transaction that is closed, or reopens it.
THEOREM ClosedForGood == Spec => ClosedStaysClosed
<1>1. Shape /\ Control /\ [Next]_vars =>
         [\A t \in Tx \ early : state[t] \in {"COMMITTED", "ABORTED", "CONFLICTED"} =>
             state'[t] = state[t] /\ change'[t] = change[t]]_vars
  BY ClosedStep
<1> QED BY <1>1, Invariance, PTL DEF Spec, ClosedStaysClosed

-----------------------------------------------------------------------------
(***************************************************************************)
(* What a step leaves below a transaction                                  *)
(***************************************************************************)

\* Nobody is below itself, and below a node that is below another are only nodes below that one.
BelowIsOrder ==
    \A n \in Nodes :
        /\ n \notin Below(n)
        /\ Below(n) \subseteq Nodes
        /\ \A m \in Below(n) : Below(m) \subseteq Below(n)

LEMMA BelowOrder == Shape => BelowIsOrder
<1> SUFFICES ASSUME Shape PROVE BelowIsOrder
  OBVIOUS
<1>1. PICK rank : Chained(Nodes, Backend, base, rank)
  BY ShapeFacts
<1>2. /\ \A t \in Created : base[t] \in Nodes
      /\ Backend \notin Created /\ Nodes = Created \cup {Backend}
  BY ShapeFacts
<1>3. /\ Below(Backend) = {}
      /\ \A t \in Created : Below(t) = {base[t]} \cup Below(base[t])
  BY BelowFacts DEF BelowEquation
<1> DEFINE P == {n \in Nodes : /\ \A m \in Below(n) : m \in Nodes /\ rank[m] < rank[n]
                               /\ \A m \in Below(n) : Below(m) \subseteq Below(n)}
<1>4. Nodes \subseteq P
  <2>1. Backend \in P
    BY <1>2, <1>3
  <2>2. \A n \in Nodes \ {Backend} : base[n] \in P => n \in P
    <3>1. ASSUME NEW n \in Created, base[n] \in P
          PROVE  n \in P
      <4>1. /\ Below(n) = {base[n]} \cup Below(base[n]) /\ base[n] \in Nodes /\ n \in Nodes
            /\ rank[base[n]] < rank[n] /\ rank \in [Nodes -> Nat]
        BY <1>1, <1>2, <1>3 DEF Chained
      <4>2. \A m \in Below(n) : m \in Nodes /\ rank[m] < rank[n]
        BY <3>1, <4>1
      <4>3. \A m \in Below(n) : Below(m) \subseteq Below(n)
        BY <3>1, <4>1
      <4> QED BY <4>1, <4>2, <4>3
    <3> QED BY <1>2, <3>1
  <2> HIDE DEF P
  <2> QED BY <1>1, <2>1, <2>2, ChainInduction
<1>5. rank \in [Nodes -> Nat]
  BY <1>1 DEF Chained
<1> QED BY <1>4, <1>5 DEF BelowIsOrder

\* Nodes that, with those below them, keep their bases and changes stand for the same contents.
LEMMA ViewFrame ==
    ASSUME Shape, Shape', NEW N \in SUBSET Nodes, N \subseteq Nodes', db' = db,
           \A n \in N \ {Backend} : base[n] \in N /\ base'[n] = base[n] /\ change'[n] = change[n]
    PROVE  \A n \in N : View(n)' = View(n)
<1>1. PICK rank : Chained(Nodes, Backend, base, rank)
  BY ShapeFacts
<1>2. Backend \notin Created /\ Nodes = Created \cup {Backend} /\ Nodes' = Created' \cup {Backend}
  BY ShapeFacts DEF Nodes
<1>3. /\ View(Backend) = db /\ View(Backend)' = db'
      /\ \A n \in N \ {Backend} : n \in Created /\ n \in Created'
  BY <1>2, ViewFacts, ViewFactsNext DEF ViewEquation
<1> DEFINE P == {n \in Nodes : n \in N => View(n)' = View(n)}
<1>4. ASSUME NEW n \in N \ {Backend}, base[n] \in P
      PROVE  View(n)' = View(n)
  <2>1. View(n) = On(change[n], View(base[n]))
    BY <1>3, ViewFacts DEF ViewEquation
  <2>2. View(n)' = On(change'[n], View(base[n])')
    BY <1>3, ViewFactsNext DEF ViewEquation
  <2>3. View(base[n])' = View(base[n])
    <3>1. ASSUME NEW m, m = base[n]
          PROVE  View(m)' = View(base[n])'
      BY <1>4, <3>1
    <3>2. PICK m : m = base[n]
      OBVIOUS
    <3>3. View(m)' = View(m)
      BY <1>4, <3>2
    <3> QED BY <3>1, <3>2, <3>3
  <2> QED BY <2>1, <2>2, <2>3
<1>5. Nodes \subseteq P
  <2>1. Backend \in P
    BY <1>2, <1>3
  <2>2. \A n \in Nodes \ {Backend} : base[n] \in P => n \in P
    BY <1>4
  <2> HIDE DEF P
  <2> QED BY <1>1, <2>1, <2>2, ChainInduction
<1> QED BY <1>5

\* A step that edits the changes of w alone leaves alone what does not read through w.
LEMMA ChangeFrame ==
    ASSUME Shape, Shape', NEW w, UNCHANGED <<base, db>>, Created' = Created,
           \A v \in Created : v # w => change'[v] = change[v]
    PROVE  /\ \A n \in Nodes : n # w /\ w \notin Below(n) => View(n)' = View(n)
           /\ \A u \in Created : w \notin Below(u) => View(base[u])' = View(base[u])
<1> DEFINE N == {n \in Nodes : n # w /\ w \notin Below(n)}
<1>1. /\ Nodes' = Nodes /\ Backend \notin Created /\ Nodes = Created \cup {Backend}
      /\ \A t \in Created : base[t] \in Nodes
      /\ \A t \in Created : Below(t) = {base[t]} \cup Below(base[t])
  BY ShapeFacts, BelowFacts DEF Nodes, BelowEquation
<1>2. \A n \in N \ {Backend} : base[n] \in N /\ base'[n] = base[n] /\ change'[n] = change[n]
  BY <1>1
<1>3. \A n \in N : View(n)' = View(n)
  <2>1. N \in SUBSET Nodes /\ N \subseteq Nodes'
    BY <1>1
  <2> HIDE DEF N
  <2> QED BY <1>2, <2>1, ViewFrame
<1>4. ASSUME NEW u \in Created, w \notin Below(u)
      PROVE  View(base[u])' = View(base[u])
  <2>1. PICK m : m = base[u] /\ m = base'[u]
    OBVIOUS
  <2>2. m \in N
    BY <1>1, <1>4, <2>1
  <2>3. View(m)' = View(m)
    BY <1>3, <2>2
  <2> QED BY <2>1, <2>3
<1> QED BY <1>3, <1>4

-----------------------------------------------------------------------------
(***************************************************************************)
(* What a transaction reads through                                        *)
(***************************************************************************)

\* Nodes whose contents are those their readers were opened on.
Standing(n) == n \in Elements(stack) \/ Anchored(n)

\* In the middle of the merge into an outer transaction that waits for it.
Guarded(t) == call[t] = "merging" /\ Anchored(outer[t]) /\ outer[t] \notin early

\* Not to be written.
Settled(n) == n = Backend \/ state[n] \in {"NESTED", "COMMITTED"} \/ call[n] = "committing"

\* The stack is of committed ones, or such that were reopened after an early merge.
Layers == \A l \in Elements(stack) : l \in moved \/ state[l] = "COMMITTED" \/ call[l] = "committing"

\* Whoever is based on one that has moved has moved.
MovedBelow == \A t \in Created : base[t] \in moved => t \in moved

Footing == Layers /\ MovedBelow

LEMMA StandingBelow ==
    ASSUME Shape, Control, Footing, NEW u \in Created \ moved, Standing(u) \/ Guarded(u)
    PROVE  base[u] \in Nodes /\ base[u] \notin moved /\ Standing(base[u]) /\ Settled(base[u])
<1>1. /\ u \in Tx /\ base[u] \in Nodes /\ Nodes = Created \cup {Backend} /\ Created \subseteq Tx
      /\ Backend \notin moved /\ Anchored(Backend)
      /\ base[u] \notin moved
  BY ShapeFacts, AnchoredFacts DEF Shape, TypeOK, AnchoredEquation, Footing, MovedBelow
<1>2. CASE base[u] \in Elements(stack) \cup {Backend}
  BY <1>1, <1>2 DEF Standing, Settled, Footing, Layers
<1>3. CASE base[u] \notin Elements(stack) \cup {Backend}
  <2>1. u \notin Elements(stack)
    BY <1>3, StackFacts
  <2>2. outer[u] \in Created /\ base[u] = outer[u] /\ ~IsRoot(u)
    BY <1>1, <1>3 DEF Shape, Rooted, IsRoot
  <2>3. CASE Anchored(u)
    <3>1. Holds(u) /\ Anchored(outer[u])
      BY <2>3, AnchoredFacts DEF AnchoredEquation
    <3>2. state[outer[u]] = "NESTED"
      BY <1>1, <2>2, <3>1, MemberFacts DEF Holds, IsIn
    <3> QED BY <1>1, <2>2, <3>1, <3>2 DEF Standing, Settled
  <2>4. CASE Guarded(u)
    <3>1. u \in Merging(outer[u]) /\ outer[u] \in Tx
      BY <1>1, <2>2, <2>4 DEF Guarded, Merging
    <3>2. state[outer[u]] = "NESTED"
      BY <2>4, <3>1 DEF Guarded, Control, OuterFollowsNested
    <3> QED BY <1>1, <2>2, <2>4, <3>2 DEF Guarded, Standing, Settled
  <2> QED BY <2>1, <2>3, <2>4 DEF Standing
<1> QED BY <1>2, <1>3

\* ... all the way down.
LEMMA SettledBelow ==
    ASSUME Shape, Control, Footing, NEW u \in Created \ moved, Standing(u) \/ Guarded(u)
    PROVE  \A m \in Below(u) : Settled(m)
<1>1. PICK rank : Chained(Nodes, Backend, base, rank)
  BY ShapeFacts
<1>2. /\ Backend \notin Created /\ Nodes = Created \cup {Backend}
      /\ Below(Backend) = {}
      /\ \A t \in Created : Below(t) = {base[t]} \cup Below(base[t])
  BY ShapeFacts, BelowFacts DEF BelowEquation
<1> DEFINE P == {n \in Nodes : n \notin moved /\ Standing(n) => \A m \in Below(n) : Settled(m)}
<1>3. Nodes \subseteq P
  <2>1. Backend \in P
    BY <1>2
  <2>2. ASSUME NEW n \in Nodes \ {Backend}, base[n] \in P, n \notin moved, Standing(n)
        PROVE  \A m \in Below(n) : Settled(m)
    <3>1. n \in Created \ moved
      BY <1>2, <2>2
    <3>2. base[n] \notin moved /\ Standing(base[n]) /\ Settled(base[n])
      BY <2>2, <3>1, StandingBelow
    <3>3. Below(n) = {base[n]} \cup Below(base[n])
      BY <1>2, <3>1
    <3> QED BY <2>2, <3>2, <3>3
  <2>3. \A n \in Nodes \ {Backend} : base[n] \in P => n \in P
    BY <2>2
  <2> HIDE DEF P
  <2> QED BY <1>1, <2>1, <2>3, ChainInduction
<1>4. base[u] \in Nodes /\ base[u] \notin moved /\ Standing(base[u]) /\ Settled(base[u])
  BY StandingBelow
<1>5. Below(u) = {base[u]} \cup Below(base[u])
  BY <1>2
<1> QED BY <1>3, <1>4, <1>5

-----------------------------------------------------------------------------
(***************************************************************************)
(* Nobody gets back to where it has been                                   *)
(***************************************************************************)

\* A step anchors nobody anew, except those that the end of a merge reopens late.
LEMMA AnchorFrame ==
    ASSUME Shape, Shape', MovedBelow', Created \subseteq Created',
           \A u \in Created \ moved' : (Holds(u)' => Holds(u)) /\ outer'[u] = outer[u]
    PROVE  \A n \in Nodes : n \notin moved' /\ Anchored(n)' => Anchored(n)
<1>1. PICK rank : Chained(Nodes, Backend, outer, rank)
  BY ShapeFacts
<1>2. /\ Backend \notin Created /\ Nodes = Created \cup {Backend} /\ Anchored(Backend)
      /\ \A t \in Created : (Anchored(t) <=> Holds(t) /\ Anchored(outer[t]))
      /\ \A t \in Created' : (Anchored(t)' <=> Holds(t)' /\ Anchored(outer[t])')
  BY ShapeFacts, AnchoredFacts, AnchoredFactsNext DEF AnchoredEquation
<1> DEFINE P == {n \in Nodes : n \notin moved' /\ Anchored(n)' => Anchored(n)}
<1>3. ASSUME NEW n \in Created, outer[n] \in P, n \notin moved', Anchored(n)'
      PROVE  Anchored(n)
  <2>1. PICK o : o = outer[n]
    OBVIOUS
  <2>2. outer'[n] = o /\ n \in Created'
    BY <1>3, <2>1
  <2>3. Holds(n) /\ Anchored(o)'
    <3>1. Holds(n)' /\ Anchored(outer[n])'
      BY <1>2, <1>3, <2>2
    <3>2. Holds(n)
      BY <1>3, <3>1
    <3> QED BY <2>2, <3>1, <3>2
  <2>4. CASE o = Backend
    <3>1. outer[n] = Backend
      BY <2>1, <2>4
    <3>2. Anchored(outer[n])
      BY <1>2, <3>1
    <3>3. n \in Created
      BY <1>3
    <3> QED BY <1>2, <2>3, <3>2, <3>3
  <2>5. CASE o # Backend
    <3>1. base'[n] = o
      BY <2>2, <2>5 DEF Shape, Rooted
    <3>2. o \notin moved'
      BY <1>3, <2>2, <3>1 DEF MovedBelow
    <3>3. Anchored(o)
      BY <1>3, <2>1, <2>3, <3>2
    <3> QED BY <1>2, <1>3, <2>1, <2>3, <3>3
  <2> QED BY <2>4, <2>5
<1>4. Nodes \subseteq P
  <2>1. Backend \in P
    BY <1>2
  <2>2. \A n \in Nodes \ {Backend} : outer[n] \in P => n \in P
    BY <1>2, <1>3
  <2> HIDE DEF P
  <2> QED BY <1>1, <2>1, <2>2, ChainInduction
<1> QED BY <1>4

LEMMA MovedStep ==
    ASSUME Shape, MovedBelow, [Next]_vars
    PROVE  MovedBelow' /\ moved \subseteq moved'
<1>1. /\ \A t \in Created : Below(t) = {base[t]} \cup Below(base[t])
      /\ moved \subseteq Created /\ Created \subseteq Tx /\ Backend \notin Created
  BY ShapeFacts, BelowFacts DEF BelowEquation, Shape, TypeOK
<1>2. ASSUME NEW t \in Tx, OpenRoot(t) \/ \E o \in Tx : OpenNested(t, o)
      PROVE  MovedBelow' /\ moved \subseteq moved'
  <2>1. /\ t \notin Created /\ Created' = Created \cup {t}
        /\ \A u \in Tx : u # t => base'[u] = base[u]
        /\ base'[t] \in Nodes
    BY <1>2, OpenFacts
  <2>2. moved' = IF base'[t] \in moved THEN moved \cup {t} ELSE moved
    <3>1. \E o, b : Create(t, o, b)
      BY <1>2 DEF OpenRoot, OpenNested
    <3> QED BY <3>1 DEF Create, Shape, TypeOK
  <2>3. base'[t] # t /\ \A u \in Created : base[u] # t
    BY <1>1, <2>1, ShapeFacts
  <2> QED BY <1>1, <2>1, <2>2, <2>3 DEF MovedBelow
<1>3. ASSUME NEW o, UNCHANGED base, Created' = Created,
             moved' = moved \cup Readers(o) \/ moved' = moved \cup {o} \cup Readers(o)
      PROVE  MovedBelow' /\ moved \subseteq moved'
  <2>1. \A t \in Created : base[t] \in Readers(o) \/ base[t] = o => t \in Readers(o)
    BY <1>1 DEF Readers
  <2> QED BY <1>3, <2>1 DEF MovedBelow
<1>4. ASSUME NEW t \in Tx, ApplyNested(t)
      PROVE  MovedBelow' /\ moved \subseteq moved'
  BY <1>3, <1>4 DEF ApplyNested, tree, Created
<1>5. ASSUME NEW t \in Tx, EndMerge(t)
      PROVE  MovedBelow' /\ moved \subseteq moved'
  <2>1. UNCHANGED base /\ Created' = Created
    BY <1>5, EndMergeFacts
  <2>2. \/ moved' = moved
        \/ moved' = moved \cup {outer[t]} \cup Readers(outer[t])
    BY <1>5 DEF EndMerge
  <2> QED BY <1>3, <2>1, <2>2 DEF MovedBelow
<1>6. CASE FlushBottom
  <2>1. /\ UNCHANGED moved /\ Created' = Created
        /\ \A t \in Tx : base'[t] = base[t] \/ base'[t] = Backend
    BY <1>6 DEF FlushBottom, history, Created
  <2> QED BY <1>1, <2>1 DEF MovedBelow
<1>7. ASSUME UNCHANGED <<base, moved>>, Created' = Created
      PROVE  MovedBelow' /\ moved \subseteq moved'
  BY <1>7 DEF MovedBelow
<1>8. ASSUME NEW t \in Tx, \/ Write(t) \/ \E k \in Key : Preload(t, k)
                           \/ Abort(t) \/ CommitNested(t) \/ ConflictNested(t)
                           \/ AbortGoesOn(t) \/ AbortThrows(t) \/ FinishAbort(t)
                           \/ ApplyThrows(t) \/ FinishCommit(t)
      PROVE  MovedBelow' /\ moved \subseteq moved'
  <2>1. UNCHANGED moved
    BY <1>8 DEF Write, Preload, Abort, CommitNested, ConflictNested, AbortGoesOn, AbortThrows,
                FinishAbort, ApplyThrows, FinishCommit, history
  <2>2. UNCHANGED base /\ Created' = Created
    BY <1>8, QuietShape, TypeStep DEF Quiet, Work
  <2> QED BY <1>7, <2>1, <2>2
<1>9. ASSUME NEW t \in Tx, CommitRoot(t)
      PROVE  MovedBelow' /\ moved \subseteq moved'
  BY <1>7, <1>9 DEF CommitRoot, tree, history, Created
<1>10. CASE UNCHANGED vars
  BY <1>7, <1>10 DEF vars, tree, history, Created
<1> QED BY <1>2, <1>4, <1>5, <1>6, <1>8, <1>9, <1>10 DEF Next, Work

LEMMA HoldsStep ==
    ASSUME Shape, Control, [Next]_vars, NEW u \in Created
    PROVE  /\ u \in Created' /\ outer'[u] = outer[u]
           /\ u \notin moved' /\ Holds(u)' => Holds(u)
<1>1. u \in Tx
  BY DEF Created
<1>2. ASSUME NEW t \in Tx, OpenRoot(t) \/ \E o \in Tx : OpenNested(t, o)
      PROVE  u \in Created' /\ outer'[u] = outer[u] /\ (Holds(u)' => Holds(u))
  BY <1>1, <1>2, OpenEffects DEF Holds
<1>3. ASSUME UNCHANGED outer, Created' = Created, Usable(u)' => Usable(u), IsIn(u)' => IsIn(u),
             call[u] \in {"leaving", "conflicting"} => call'[u] = call[u] \/ ~Usable(u)'
      PROVE  u \in Created' /\ outer'[u] = outer[u] /\ (Holds(u)' => Holds(u))
  BY <1>3 DEF Holds
<1>4. ASSUME UNCHANGED <<state, outer, nested>>,
             call[u] \in {"leaving", "conflicting"} => call'[u] = call[u]
      PROVE  u \in Created' /\ outer'[u] = outer[u] /\ (Holds(u)' => Holds(u))
  BY <1>4 DEF Holds, Usable, IsIn, IsRoot, Created
<1>5. ASSUME NEW t \in Tx, \/ Write(t) \/ (\E k \in Key : Preload(t, k)) \/ CommitRoot(t)
                           \/ AbortThrows(t) \/ ApplyNested(t) \/ ApplyThrows(t)
      PROVE  u \in Created' /\ outer'[u] = outer[u] /\ (Holds(u)' => Holds(u))
  <2>1. UNCHANGED <<state, outer, nested>>
    BY <1>5 DEF Write, Preload, CommitRoot, AbortThrows, ApplyNested, ApplyThrows, tree
  <2>2. call[u] \in {"leaving", "conflicting"} => call'[u] = call[u]
    BY <1>1, <1>5 DEF Write, Preload, CommitRoot, Commits, AbortThrows, ApplyNested, ApplyThrows, Shape, TypeOK
  <2> QED BY <1>4, <2>1, <2>2
<1>6. ASSUME NEW t \in Tx, CommitNested(t)
      PROVE  u \in Created' /\ outer'[u] = outer[u] /\ (Holds(u)' => Holds(u))
  <2>1. /\ nested' = [nested EXCEPT ![outer[t]] = @ \ {t}] /\ call' = [call EXCEPT ![t] = "merging"]
        /\ call[t] = "none" /\ UNCHANGED <<state, outer>>
    BY <1>6 DEF CommitNested, Commits, tree
  <2>2. IsRoot(u)' <=> IsRoot(u)
    BY <2>1 DEF IsRoot
  <2>3. IsIn(u)' => IsIn(u)
    <3>1. CASE IsRoot(u)
      BY <3>1 DEF IsIn
    <3>2. CASE ~IsRoot(u)
      <4>1. outer[u] \in Tx /\ outer'[u] = outer[u]
        BY <2>1, <3>2, OuterFacts
      <4>2. nested'[outer[u]] \subseteq nested[outer[u]]
        BY <2>1, <4>1 DEF Shape, TypeOK
      <4> QED BY <2>2, <3>2, <4>1, <4>2 DEF IsIn
    <3> QED BY <3>1, <3>2
  <2>4. call[u] \in {"leaving", "conflicting"} => call'[u] = call[u]
    BY <1>1, <2>1 DEF Shape, TypeOK
  <2>5. Created' = Created /\ (Usable(u)' => Usable(u))
    BY <2>1 DEF Created, Usable
  <2> QED BY <1>3, <2>1, <2>3, <2>4, <2>5
<1>7. ASSUME NEW t \in Tx, Abort(t) \/ AbortGoesOn(t) \/ ConflictNested(t)
      PROVE  u \in Created' /\ outer'[u] = outer[u] /\ (Holds(u)' => Holds(u))
  <2>1. PICK S \in SUBSET Tx : Leaves(S)
    BY <1>7, LeavingFacts
  <2>2. /\ Created' = Created /\ (Usable(u) <=> Usable(u)')
        /\ u \notin S => (IsIn(u)' <=> IsIn(u))
    BY <1>1, <2>1, DepartEffects
  <2>3. /\ UNCHANGED outer
        /\ u \in S => call'[u] \in {"leaving", "conflicting"}
        /\ u \notin S => call'[u] = call[u] \/ call[u] = "none"
    BY <1>1, <2>1 DEF Leaves
  <2> QED BY <2>2, <2>3 DEF Holds
<1>8. ASSUME NEW t \in Tx, FinishAbort(t) \/ FinishCommit(t)
      PROVE  u \in Created' /\ outer'[u] = outer[u] /\ (Holds(u)' => Holds(u))
  <2>1. /\ state'[t] \in {"ABORTED", "COMMITTED", "CONFLICTED"}
        /\ u # t => call'[u] = call[u] /\ state'[u] = state[u]
        /\ UNCHANGED <<outer, nested>>
    BY <1>1, <1>8 DEF FinishAbort, FinishCommit, Shape, TypeOK, tree
  <2>2. IsIn(u)' => IsIn(u)
    BY <2>1 DEF IsIn, IsRoot
  <2>3. (Usable(u)' => Usable(u) /\ u # t)
    BY <2>1 DEF Usable
  <2>4. Created' = Created
    BY <1>8, QuietShape, TypeStep DEF Quiet, Work, Next
  <2> QED BY <1>3, <2>1, <2>2, <2>3, <2>4
<1>9. ASSUME NEW t \in Tx, EndMerge(t)
      PROVE  /\ u \in Created' /\ outer'[u] = outer[u]
             /\ u \notin moved' /\ Holds(u)' => Holds(u)
  <2>1. /\ call[t] = "merged" /\ (u # t => call'[u] = call[u])
        /\ u # outer[t] \/ nested[outer[t]] # {} => state'[u] = state[u]
        /\ UNCHANGED <<outer, nested>> /\ Created' = Created
    BY <1>1, <1>9, EndMergeFacts
  <2>2. nested[outer[t]] = {} /\ ~Usable(outer[t]) => outer[t] \in moved'
    BY <1>9 DEF EndMerge, Reopens
  <2>3. IsIn(u)' => IsIn(u)
    BY <2>1 DEF IsIn, IsRoot
  <2>4. u \notin moved' /\ Usable(u)' => Usable(u)
    BY <2>1, <2>2 DEF Usable
  <2> QED BY <2>1, <2>3, <2>4 DEF Holds
<1>10. CASE FlushBottom \/ UNCHANGED vars
  BY <1>4, <1>10 DEF FlushBottom, vars, tree
<1> QED BY <1>2, <1>5, <1>6, <1>7, <1>8, <1>9, <1>10 DEF Next, Work

LEMMA LayersStep ==
    ASSUME Shape, Control, Footing, [Next]_vars
    PROVE  Layers'
<1>1. moved \subseteq moved'
  BY MovedStep DEF Footing
<1>2. ASSUME NEW l \in Elements(stack)
      PROVE  l \in moved' \/ state'[l] = "COMMITTED" \/ call'[l] = "committing"
  <2>1. SUFFICES ASSUME l \notin moved'
                 PROVE  state'[l] = "COMMITTED" \/ call'[l] = "committing"
    OBVIOUS
  <2>2. /\ l \in Created /\ l \in Tx /\ outer[l] = Backend
        /\ \/ state[l] = "COMMITTED" /\ ~Usable(l) /\ call[l] \notin Ending
           \/ call[l] = "committing" /\ state[l] = "OPEN"
    BY <1>1, <2>1, StackFacts
       DEF Footing, Layers, Usable, Created, Control, EndingsAreOpen, Ending
  <2>3. ASSUME NEW t \in Tx, OpenRoot(t) \/ \E o \in Tx : OpenNested(t, o)
        PROVE  state'[l] = "COMMITTED" \/ call'[l] = "committing"
    BY <2>2, <2>3, OpenEffects DEF Usable
  <2>4. ASSUME UNCHANGED state, call'[l] = call[l]
        PROVE  state'[l] = "COMMITTED" \/ call'[l] = "committing"
    BY <2>2, <2>4
  <2>5. ASSUME NEW t \in Tx, \/ Write(t) \/ (\E k \in Key : Preload(t, k)) \/ CommitRoot(t)
                             \/ CommitNested(t) \/ AbortThrows(t) \/ ApplyNested(t) \/ ApplyThrows(t)
        PROVE  state'[l] = "COMMITTED" \/ call'[l] = "committing"
    <3>1. UNCHANGED state
      BY <2>5 DEF Write, Preload, CommitRoot, CommitNested, AbortThrows, ApplyNested, ApplyThrows
    <3>2. CASE state[l] = "COMMITTED"
      BY <3>1, <3>2
    <3>3. CASE call[l] = "committing"
      BY <2>2, <2>5, <3>3 DEF Write, Preload, CommitRoot, Commits, CommitNested, AbortThrows,
                              ApplyNested, ApplyThrows, Shape, TypeOK
    <3> QED BY <2>2, <3>1, <3>2, <3>3
  <2>6. ASSUME NEW t \in Tx, Abort(t) \/ AbortGoesOn(t) \/ ConflictNested(t)
        PROVE  state'[l] = "COMMITTED" \/ call'[l] = "committing"
    <3>1. PICK S \in SUBSET Tx : Leaves(S)
      BY <2>6, LeavingFacts
    <3>2. CASE state[l] = "COMMITTED"
      <4>1. l \notin LeftBy(S)
        BY <3>1, <3>2, DepartEffects
      <4> QED BY <2>2, <3>1, <3>2, <4>1, LeaveFacts DEF Leaves, Shape
    <3>3. CASE call[l] = "committing"
      BY <2>2, <3>1, <3>3 DEF Leaves
    <3> QED BY <2>2, <3>2, <3>3
  <2>7. ASSUME NEW t \in Tx, FinishAbort(t) \/ FinishCommit(t)
        PROVE  state'[l] = "COMMITTED" \/ call'[l] = "committing"
    BY <2>2, <2>7 DEF FinishAbort, FinishCommit, Ending, Shape, TypeOK
  <2>8. ASSUME NEW t \in Tx, EndMerge(t)
        PROVE  state'[l] = "COMMITTED" \/ call'[l] = "committing"
    <3>1. /\ call[t] = "merged" /\ (l # t => call'[l] = call[l]) /\ call'[t] = "committing"
          /\ l # outer[t] \/ nested[outer[t]] # {} => state'[l] = state[l]
      BY <2>2, <2>8, EndMergeFacts
    <3>2. nested[outer[t]] = {} /\ ~Usable(outer[t]) => outer[t] \in moved'
      BY <2>8 DEF EndMerge, Reopens
    <3> QED BY <2>1, <2>2, <3>1, <3>2
  <2>9. CASE FlushBottom \/ UNCHANGED vars
    BY <2>4, <2>9 DEF FlushBottom, vars
  <2> QED BY <2>3, <2>5, <2>6, <2>7, <2>8, <2>9 DEF Next, Work
<1>3. \A l \in Elements(stack)' : l \in Elements(stack) \/ call'[l] = "committing"
  <2>1. ASSUME NEW t \in Tx, CommitRoot(t)
        PROVE  \A l \in Elements(stack') : l \in Elements(stack) \/ call'[l] = "committing"
    <3>1. CASE base[t] = Top
      <4>1. Elements(stack') = Elements(stack) \cup {t}
        BY <2>1, <3>1, CommitRootShape, TypeStep DEF Next
      <4>2. call'[t] = "committing"
        BY <2>1, <3>1 DEF CommitRoot, Shape, TypeOK
      <4> QED BY <4>1, <4>2
    <3>2. CASE base[t] # Top
      BY <2>1, <3>2 DEF CommitRoot
    <3> QED BY <3>1, <3>2
  <2>2. CASE FlushBottom
    BY <2>2, FlushShape, TypeStep
  <2>3. CASE Quiet
    <3>1. stack' = stack
      BY <2>3, QuietShape, TypeStep
    <3> QED BY <3>1
  <2>4. ASSUME NEW t \in Tx, OpenRoot(t) \/ \E o \in Tx : OpenNested(t, o)
        PROVE  stack' = stack
    BY <2>4 DEF OpenRoot, OpenNested, Create, store
  <2> QED BY <2>1, <2>2, <2>3, <2>4 DEF Next, Quiet
<1> QED BY <1>2, <1>3 DEF Layers

LEMMA FootingStep ==
    ASSUME Shape, Control, Footing, [Next]_vars
    PROVE  Footing' /\ moved \subseteq moved'
BY MovedStep, LayersStep DEF Footing

\* Who stands after a step stood before; who is guarded was so, or has just committed.
LEMMA StandingStep ==
    ASSUME Shape, Control, Footing, [Next]_vars, NEW u \in Created, u \notin moved'
    PROVE  /\ Anchored(u)' => Anchored(u)
           /\ Standing(u)' => Standing(u)
           /\ Guarded(u)' => Guarded(u) \/ (call[u] = "none" /\ Anchored(u))
<1>1. Shape' /\ Footing' /\ u \in Tx /\ u \in Nodes /\ Nodes = Created \cup {Backend} /\ Backend \notin Tx
  BY ShapeStep, FootingStep, ShapeFacts
<1>2. \A n \in Nodes : n \notin moved' /\ Anchored(n)' => Anchored(n)
  <2>1. \A v \in Created : v \in Created' /\ outer'[v] = outer[v] /\ (v \notin moved' /\ Holds(v)' => Holds(v))
    BY HoldsStep
  <2> QED BY <1>1, <2>1, AnchorFrame DEF Footing
<1>3. u \in Elements(stack)' => Standing(u)
  <2>1. ASSUME NEW t \in Tx, CommitRoot(t), u \in Elements(stack'), u \notin Elements(stack)
        PROVE  Anchored(u)
    <3>1. u = t
      <4>1. CASE base[t] = Top
        BY <2>1, <4>1, CommitRootShape, TypeStep DEF Next
      <4>2. CASE base[t] # Top
        BY <2>1, <4>2 DEF CommitRoot
      <4> QED BY <4>1, <4>2
    <3>2. Holds(t) /\ outer[t] = Backend
      BY <2>1 DEF CommitRoot, Commits, Holds, Usable, IsRoot
    <3>3. Anchored(outer[t])
      BY <3>2, AnchoredFacts DEF AnchoredEquation
    <3> QED BY <3>1, <3>2, <3>3, AnchoredFacts DEF AnchoredEquation
  <2>2. CASE FlushBottom
    BY <2>2, FlushShape, TypeStep DEF Standing
  <2>3. CASE Quiet
    <3>1. stack' = stack
      BY <2>3, QuietShape, TypeStep
    <3> QED BY <3>1 DEF Standing
  <2>4. ASSUME NEW t \in Tx, OpenRoot(t) \/ \E o \in Tx : OpenNested(t, o)
        PROVE  stack' = stack
    BY <2>4 DEF OpenRoot, OpenNested, Create, store
  <2> QED BY <2>1, <2>2, <2>3, <2>4 DEF Next, Quiet, Standing
<1>4. ASSUME Guarded(u)'
      PROVE  Guarded(u) \/ (call[u] = "none" /\ Anchored(u))
  <2>1. /\ call'[u] = "merging" /\ outer'[u] = outer[u] /\ outer'[u] \notin early'
        /\ outer'[u] \in Created'
    BY <1>1, <1>4, HoldsStep DEF Guarded, Shape, MergesAreNested
  <2>2. base'[u] = outer'[u] /\ u \in Created'
    BY <1>1, <2>1, HoldsStep DEF Shape, Rooted, Created
  <2>3. outer'[u] \notin moved' /\ outer[u] \in Nodes
    BY <1>1, <2>2, ShapeFacts DEF Footing, MovedBelow
  <2>4. Anchored(outer[u])
    <3>1. PICK o : o = outer[u] /\ o = outer'[u]
      BY <2>1
    <3>2. Anchored(o)'
      <4>1. Anchored(outer[u])'
        BY <1>4 DEF Guarded
      <4> QED BY <3>1, <4>1
    <3> QED BY <1>2, <2>3, <3>1, <3>2
  <2>5. CASE call[u] = "merging"
    <3>1. early \subseteq early'
      <4>1. ASSUME NEW S, Depart(S)
            PROVE  early \subseteq early'
        BY <4>1, LeaveFacts DEF Shape
      <4>2. \/ UNCHANGED early \/ \E S : Depart(S)
        BY DEF Next, Work, vars, history, OpenRoot, OpenNested, Create, Write, Preload, Abort, CommitRoot,
               CommitNested, ConflictNested, AbortGoesOn, AbortThrows, FinishAbort, ApplyNested,
               ApplyThrows, EndMerge, FinishCommit, FlushBottom
      <4> QED BY <4>1, <4>2
    <3> QED BY <2>1, <2>4, <2>5, <3>1 DEF Guarded
  <2>6. CASE call[u] # "merging"
    <3>1. CommitNested(u)
      <4>1. ASSUME NEW t \in Tx, OpenRoot(t) \/ \E o \in Tx : OpenNested(t, o)
            PROVE  FALSE
        BY <2>1, <2>6, <4>1, OpenEffects
      <4>2. ASSUME NEW t \in Tx, Abort(t) \/ AbortGoesOn(t) \/ ConflictNested(t)
            PROVE  FALSE
        <5>1. PICK S \in SUBSET Tx : Leaves(S)
          BY <4>2, LeavingFacts
        <5> QED BY <1>1, <2>1, <2>6, <5>1 DEF Leaves
      <4>3. ASSUME NEW t \in Tx, CommitNested(t)
            PROVE  CommitNested(u)
        <5>1. call' = [call EXCEPT ![t] = "merging"] /\ call \in [Tx -> Calls]
          BY <4>3 DEF CommitNested, Shape, TypeOK
        <5>2. u = t
          BY <1>1, <2>1, <2>6, <5>1
        <5> QED BY <4>3, <5>2
      <4>4. ASSUME NEW t \in Tx, \/ Write(t) \/ (\E k \in Key : Preload(t, k)) \/ CommitRoot(t)
                                 \/ Work(t)
            PROVE  FALSE
        <5>1. ~AbortGoesOn(t)
          BY <4>2
        <5>2. CASE Write(t) \/ (\E k \in Key : Preload(t, k))
          BY <2>1, <2>6, <5>2 DEF Write, Preload
        <5>3. CASE AbortThrows(t)
          BY <1>1, <2>1, <2>6, <5>3 DEF AbortThrows
        <5>4. CASE CommitRoot(t) \/ FinishAbort(t) \/ ApplyNested(t) \/ ApplyThrows(t) \/ FinishCommit(t)
          BY <1>1, <2>1, <2>6, <5>4
             DEF CommitRoot, FinishAbort, ApplyNested, ApplyThrows, FinishCommit, Shape, TypeOK
        <5>5. CASE EndMerge(t)
          BY <1>1, <2>1, <2>6, <5>5, EndMergeFacts
        <5> QED BY <4>4, <5>1, <5>2, <5>3, <5>4, <5>5 DEF Work
      <4>5. ~FlushBottom /\ ~UNCHANGED vars
        BY <2>1, <2>6 DEF FlushBottom, vars
      <4> QED BY <4>1, <4>2, <4>3, <4>4, <4>5 DEF Next
    <3>2. call[u] = "none" /\ Holds(u)
      BY <3>1 DEF CommitNested, Commits, Holds, Usable
    <3> QED BY <2>4, <3>2, AnchoredFacts DEF AnchoredEquation
  <2> QED BY <2>5, <2>6
<1>5. (Anchored(u)' => Anchored(u)) /\ (Standing(u)' => Standing(u))
  BY <1>1, <1>2, <1>3 DEF Standing
<1> QED BY <1>4, <1>5

-----------------------------------------------------------------------------
(***************************************************************************)
(* What a transaction is based on stays what it is                         *)
(***************************************************************************)

\* The bottom of the stack is merged into the backend: whatever reads through it reads the same.
LEMMA FlushViews ==
    ASSUME Shape, Control, Footing, FlushBottom, NEW u \in Created \ moved, Standing(u) \/ Guarded(u)
    PROVE  \/ View(base[u])' = View(base[u])
           \/ /\ u \in Elements(stack)
              /\ View(base[u])' = On(change[u], View(base[u]))
<1>0. PICK h : h = Head(stack)
  OBVIOUS
<1> DEFINE N == {n \in Nodes : n = h \/ h \in Below(n)}
<1>1. PICK rank : Chained(Nodes, Backend, base, rank)
  BY ShapeFacts
<1>2. /\ Backend \notin Created /\ Nodes = Created \cup {Backend} /\ Created \subseteq Tx
      /\ \A n \in Created : base[n] \in Nodes
      /\ Below(Backend) = {}
      /\ \A n \in Created : Below(n) = {base[n]} \cup Below(base[n])
  BY ShapeFacts, BelowFacts DEF BelowEquation
<1>3. /\ Shape' /\ Created' = Created /\ Nodes' = Nodes
  BY FlushShape, TypeStep DEF Next
<1>4. /\ h \in Elements(stack) /\ h \in Created /\ base[h] = Backend /\ stack # <<>>
      /\ \A l \in Elements(stack) : base[l] = Backend => l = h
      /\ \A l \in Elements(stack) : base[l] \in Elements(stack) \cup {Backend}
  BY <1>0, StackFacts DEF FlushBottom
<1>5. /\ db' = On(change[h], db) /\ change' = change
      /\ \A n \in Tx : base'[n] = IF base[n] = h /\ outer[n] = Backend THEN Backend ELSE base[n]
  BY <1>0 DEF FlushBottom, IsRoot, data
<1>6. /\ View(Backend) = db /\ View(Backend)' = db'
      /\ \A n \in Created : View(n) = On(change[n], View(base[n]))
      /\ \A n \in Created : View(n)' = On(change[n], View(base[n])')
      /\ \A n \in Created : change[n] \in Change
      /\ db \in Contents
  BY <1>2, <1>3, <1>5, ViewFacts, ViewFactsNext DEF ViewEquation, Shape, TypeOK
<1>7. View(h) = db'
  BY <1>4, <1>5, <1>6
<1>8. ASSUME NEW n \in Created, base'[n] = base[n], NEW b, b = base[n], View(b)' = View(b)
      PROVE  View(base[n])' = View(base[n])
  BY <1>8
<1>9. ASSUME NEW n \in Created, base'[n] = Backend
      PROVE  View(base[n])' = db'
  BY <1>6, <1>9
<1> DEFINE P == {n \in Nodes : n \in N => View(n)' = View(n)}
<1>10. Nodes \subseteq P
  <2>1. Backend \in P
    BY <1>2, <1>4
  <2>2. ASSUME NEW n \in Created, base[n] \in P, n \in N
        PROVE  View(n)' = View(n)
    <3>1. CASE n = h
      <4>1. View(base[h])' = db'
        BY <1>2, <1>4, <1>5, <1>9
      <4>2. View(h)' = On(change[h], On(change[h], db))
        BY <1>4, <1>5, <1>6, <4>1
      <4>3. View(h)' = On(change[h], db)
        BY <1>4, <1>6, <4>2, ApplyTwice
      <4> QED BY <1>5, <1>7, <3>1, <4>3
    <3>2. CASE n # h
      <4>1. base[n] \in N /\ n \in Tx
        BY <1>2, <2>2, <3>2
      <4>2. View(base[n])' = View(base[n])
        <5>1. CASE base[n] = h /\ outer[n] = Backend
          BY <1>5, <1>7, <1>9, <4>1, <5>1
        <5>2. CASE ~(base[n] = h /\ outer[n] = Backend)
          <6>1. base'[n] = base[n]
            BY <1>5, <4>1, <5>2
          <6>2. PICK b : b = base[n]
            OBVIOUS
          <6>3. View(b)' = View(b)
            BY <2>2, <4>1, <6>2
          <6> QED BY <1>8, <6>1, <6>2, <6>3
        <5> QED BY <5>1, <5>2
      <4> QED BY <1>6, <4>2
    <3> QED BY <3>1, <3>2
  <2>3. \A n \in Nodes \ {Backend} : base[n] \in P => n \in P
    BY <1>2, <2>2
  <2> HIDE DEF P
  <2> QED BY <1>1, <2>1, <2>3, ChainInduction
<1> HIDE DEF N
<1>11. \A n \in N : n \in Nodes => View(n)' = View(n)
  BY <1>10
<1> DEFINE Q == {n \in Nodes : n \in Created /\ Standing(n) => n \in N}
<1>12. Nodes \subseteq Q
  <2>1. Backend \in Q
    BY <1>2
  <2>2. ASSUME NEW n \in Created, base[n] \in Q, Standing(n)
        PROVE  n \in N
    <3>1. base[n] \in Created /\ Standing(base[n]) => n \in N
      BY <1>2, <2>2 DEF N
    <3>2. CASE base[n] \in Elements(stack)
      BY <3>1, <3>2, StackFacts DEF Standing
    <3>3. CASE base[n] = Backend /\ n \in Elements(stack)
      BY <1>2, <1>4, <3>3 DEF N
    <3>4. CASE base[n] = Backend /\ n \notin Elements(stack)
      <4>1. Holds(n)
        BY <2>2, <3>4, AnchoredFacts DEF AnchoredEquation, Standing
      <4>2. \A i \in DOMAIN stack : stack[i] # n
        BY <3>4, StackFacts
      <4>3. ReadsBackend(n)
        BY <3>4, <4>1, <4>2 DEF ReadsBackend, Holds
      <4>4. n \in Tx
        BY <1>2
      <4> QED BY <4>3, <4>4 DEF FlushBottom
    <3>5. CASE base[n] \notin Elements(stack) \cup {Backend}
      <4>1. outer[n] \in Created /\ base[n] = outer[n]
        BY <3>5 DEF Shape, Rooted
      <4>2. n \notin Elements(stack)
        BY <1>4, <3>5
      <4>3. Anchored(outer[n])
        BY <2>2, <4>2, AnchoredFacts DEF AnchoredEquation, Standing
      <4> QED BY <3>1, <4>1, <4>3 DEF Standing
    <3> QED BY <3>2, <3>3, <3>4, <3>5
  <2>3. \A n \in Nodes \ {Backend} : base[n] \in Q => n \in Q
    BY <1>2, <2>2
  <2> HIDE DEF Q
  <2> QED BY <1>1, <2>1, <2>3, ChainInduction
<1>13. u \in Tx /\ u \in Created /\ base[u] \in Nodes /\ Standing(base[u])
  BY <1>2, StandingBelow
<1>14. CASE base[u] = Backend
  <2>1. ~Guarded(u)
    <3>1. call[u] = "merging" => outer[u] \in Created /\ base[u] = outer[u]
      BY <1>2, <1>13 DEF Shape, MergesAreNested, Rooted
    <3> QED BY <1>2, <1>14, <3>1 DEF Guarded
  <2>2. u \in N
    BY <1>2, <1>12, <1>13, <2>1
  <2>3. u = h
    BY <1>2, <1>4, <1>13, <1>14, <2>2 DEF N
  <2>4. base'[u] = Backend
    BY <1>2, <1>4, <1>5, <1>13, <1>14
  <2>5. View(base[u])' = db'
    BY <1>9, <1>13, <2>4
  <2> QED BY <1>4, <1>5, <1>6, <1>14, <2>3, <2>5
<1>15. CASE base[u] # Backend
  <2>1. base[u] \in N /\ base[u] \in Created
    BY <1>2, <1>12, <1>13, <1>15
  <2>2. CASE base[u] = h /\ outer[u] = Backend
    BY <1>5, <1>7, <1>9, <1>13, <2>2
  <2>3. CASE ~(base[u] = h /\ outer[u] = Backend)
    <3>1. base'[u] = base[u]
      BY <1>5, <1>13, <2>3
    <3>2. PICK b : b = base[u]
      OBVIOUS
    <3>3. View(b)' = View(b)
      BY <1>11, <1>13, <2>1, <3>2
    <3> QED BY <1>8, <1>13, <3>1, <3>2, <3>3
  <2> QED BY <2>2, <2>3
<1> QED BY <1>14, <1>15

\* No other step changes what is below one that is not moved by it.
LEMMA BaseViewStep ==
    ASSUME Shape, Control, Footing, [Next]_vars, NEW u \in Created, u \notin moved',
           Standing(u) \/ Guarded(u)
    PROVE  \/ View(base[u])' = View(base[u])
           \/ /\ u \in Elements(stack) /\ change'[u] = change[u] /\ call'[u] = call[u]
              /\ View(base[u])' = On(change[u], View(base[u]))
<1>1. /\ Shape' /\ u \notin moved /\ Created \subseteq Tx
      /\ Nodes = Created \cup {Backend} /\ base[u] \in Nodes
      /\ \A n \in Created : base[n] \in Nodes
  BY ShapeStep, MovedStep, ShapeFacts DEF Footing
<1>2. ASSUME NEW w, UNCHANGED <<base, db>>, Created' = Created, w \notin Below(u),
             \A v \in Created : v # w => change'[v] = change[v]
      PROVE  View(base[u])' = View(base[u])
  BY <1>1, <1>2, ChangeFrame
<1>3. ASSUME UNCHANGED <<base, db, change>>, Created' = Created
      PROVE  View(base[u])' = View(base[u])
  <2>1. u \notin Below(u)
    BY <1>1, BelowOrder DEF BelowIsOrder
  <2> QED BY <1>2, <1>3, <2>1
<1>4. ASSUME NEW t \in Tx, OpenRoot(t) \/ \E o \in Tx : OpenNested(t, o)
      PROVE  View(base[u])' = View(base[u])
  <2>1. /\ t \notin Created /\ Created' = Created \cup {t}
        /\ \A n \in Created : base'[n] = base[n]
    BY <1>1, <1>4, OpenFacts
  <2>2. UNCHANGED <<db, change>> /\ Nodes \subseteq Nodes'
    BY <1>4, <2>1 DEF OpenRoot, OpenNested, Create, store, data, Nodes
  <2>3. \A n \in Nodes : View(n)' = View(n)
    BY <1>1, <2>1, <2>2, ViewFrame
  <2>4. PICK b : b = base[u] /\ b = base'[u]
    BY <2>1
  <2>5. View(b)' = View(b)
    BY <1>1, <2>3, <2>4
  <2> QED BY <2>4, <2>5
<1>5. ASSUME NEW t \in Tx, Write(t)
      PROVE  View(base[u])' = View(base[u])
  <2>1. /\ UNCHANGED <<base, db, state>> /\ \A v \in Created : v # t => change'[v] = change[v]
        /\ state[t] = "OPEN" /\ call[t] = "none"
    BY <1>5 DEF Write, Writable, store, tree, Shape, TypeOK, Created
  <2>2. ~Settled(t)
    BY <2>1, ShapeFacts DEF Settled
  <2>3. t \notin Below(u)
    BY <1>1, <2>2, SettledBelow
  <2> QED BY <1>2, <2>1, <2>3 DEF Created
<1>6. ASSUME NEW t \in Tx, ApplyNested(t)
      PROVE  View(base[u])' = View(base[u])
  <2>1. /\ UNCHANGED <<base, db, state>> /\ \A v \in Created : v # outer[t] => change'[v] = change[v]
        /\ moved' = moved \cup Readers(outer[t])
    BY <1>6 DEF ApplyNested, store, tree, Shape, TypeOK, Created
  <2>2. outer[t] \notin Below(u)
    BY <2>1 DEF Readers
  <2> QED BY <1>2, <2>1, <2>2 DEF Created
<1>7. ASSUME NEW t \in Tx, \/ (\E k \in Key : Preload(t, k))
                           \/ Abort(t) \/ CommitNested(t) \/ ConflictNested(t)
                           \/ AbortGoesOn(t) \/ AbortThrows(t) \/ FinishAbort(t)
                           \/ ApplyThrows(t) \/ EndMerge(t) \/ FinishCommit(t)
      PROVE  View(base[u])' = View(base[u])
  <2>1. UNCHANGED change
    BY <1>7 DEF Preload, Abort, CommitNested, ConflictNested, AbortGoesOn, AbortThrows,
                FinishAbort, ApplyThrows, EndMerge, FinishCommit, data
  <2>2. UNCHANGED <<base, db>> /\ Created' = Created
    BY <1>7, QuietShape, TypeStep DEF Quiet, Work
  <2> QED BY <1>3, <2>1, <2>2
<1>8. ASSUME NEW t \in Tx, CommitRoot(t)
      PROVE  View(base[u])' = View(base[u])
  BY <1>3, <1>8 DEF CommitRoot, tree, data, Created
<1>9. CASE FlushBottom
  BY <1>1, <1>9, FlushViews DEF FlushBottom, data
<1>10. CASE UNCHANGED vars
  BY <1>3, <1>10 DEF vars, tree, data, store, Created
<1> QED BY <1>4, <1>5, <1>6, <1>7, <1>8, <1>9, <1>10 DEF Next, Work

\* A transaction is based on what it was opened on: by its contents until it commits, and
\* afterwards as far as its changes leave them to be seen.
Isolated ==
    \A t \in Created \ moved :
        /\ Anchored(t) => On(change[t], View(base[t])) = On(change[t], seen[t])
        /\ Anchored(t) /\ call[t] # "committing" => View(base[t]) = seen[t]
        /\ Guarded(t) => View(base[t]) = seen[t]

LEMMA CommittingStep ==
    ASSUME Shape, Control, [Next]_vars, NEW u \in Created, call[u] = "committing"
    PROVE  call'[u] = "committing" \/ ~Usable(u)'
<1>1. u \in Tx
  BY DEF Created
<1>2. ASSUME NEW t \in Tx, OpenRoot(t) \/ \E o \in Tx : OpenNested(t, o)
      PROVE  call'[u] = "committing"
  BY <1>2, OpenEffects
<1>3. ASSUME NEW t \in Tx, Abort(t) \/ AbortGoesOn(t) \/ ConflictNested(t)
      PROVE  call'[u] = "committing"
  <2>1. PICK S \in SUBSET Tx : Leaves(S)
    BY <1>3, LeavingFacts
  <2> QED BY <1>1, <2>1 DEF Leaves
<1>4. ASSUME NEW t \in Tx, \/ Write(t) \/ (\E k \in Key : Preload(t, k)) \/ CommitRoot(t)
                           \/ CommitNested(t) \/ AbortThrows(t) \/ ApplyNested(t) \/ ApplyThrows(t)
      PROVE  call'[u] = "committing"
  BY <1>1, <1>4 DEF Write, Preload, CommitRoot, Commits, CommitNested, AbortThrows,
                    ApplyNested, ApplyThrows, Shape, TypeOK
<1>5. ASSUME NEW t \in Tx, FinishAbort(t) \/ FinishCommit(t)
      PROVE  call'[u] = "committing" \/ ~Usable(u)'
  BY <1>1, <1>5 DEF FinishAbort, FinishCommit, Usable, Shape, TypeOK
<1>6. ASSUME NEW t \in Tx, EndMerge(t)
      PROVE  call'[u] = "committing"
  BY <1>1, <1>6, EndMergeFacts
<1>7. CASE FlushBottom \/ UNCHANGED vars
  BY <1>7 DEF FlushBottom, vars
<1> QED BY <1>2, <1>3, <1>4, <1>5, <1>6, <1>7 DEF Next, Work

\* How the changes of one that is there may change.
LEMMA ChangeStep ==
    ASSUME Shape, Control, [Next]_vars, NEW u \in Created
    PROVE  \/ change'[u] = change[u]
           \/ Write(u)
           \/ \E t \in Tx : ApplyNested(t) /\ outer[t] = u /\ change'[u] = Merge(change[u], change[t])
<1>1. u \in Tx
  BY DEF Created
<1>2. ASSUME NEW t \in Tx, ApplyNested(t)
      PROVE  \/ change'[u] = change[u]
             \/ outer[t] = u /\ change'[u] = Merge(change[u], change[t])
  BY <1>1, <1>2 DEF ApplyNested, Shape, TypeOK
<1>3. ASSUME NEW t \in Tx, Write(t)
      PROVE  change'[u] = change[u] \/ Write(u)
  <2>1. t # u => change'[u] = change[u]
    BY <1>1, <1>3 DEF Write, Shape, TypeOK
  <2> QED BY <1>3, <2>1
<1>4. ASSUME NEW t \in Tx, \/ OpenRoot(t) \/ (\E o \in Tx : OpenNested(t, o))
                           \/ (\E k \in Key : Preload(t, k)) \/ CommitRoot(t)
                           \/ Abort(t) \/ CommitNested(t) \/ ConflictNested(t)
                           \/ AbortGoesOn(t) \/ AbortThrows(t) \/ FinishAbort(t)
                           \/ ApplyThrows(t) \/ EndMerge(t) \/ FinishCommit(t)
      PROVE  change' = change
  BY <1>4 DEF OpenRoot, OpenNested, Create, Preload, CommitRoot, Abort, CommitNested, ConflictNested,
              AbortGoesOn, AbortThrows, FinishAbort, ApplyThrows, EndMerge, FinishCommit, data
<1>5. CASE FlushBottom \/ UNCHANGED vars
  BY <1>5 DEF FlushBottom, vars, data
<1> QED BY <1>2, <1>3, <1>4, <1>5 DEF Next, Work

LEMMA SeenStep ==
    ASSUME Shape, Control, [Next]_vars
    PROVE  /\ \A u \in Created : seen'[u] = seen[u] /\ seen[u] \in Contents
           /\ \A t \in Created' : t \in Created \/ ( /\ change'[t] = NoChange
                                                     /\ View(base[t])' = seen'[t] )
<1>1. /\ Shape' /\ Created \subseteq Tx /\ Nodes = Created \cup {Backend}
      /\ \A n \in Created : base[n] \in Nodes
  BY ShapeStep, ShapeFacts
<1>2. ASSUME NEW t \in Tx, OpenRoot(t) \/ \E o \in Tx : OpenNested(t, o)
      PROVE  /\ \A u \in Created : seen'[u] = seen[u]
             /\ Created' = Created \cup {t} /\ change'[t] = NoChange /\ View(base[t])' = seen'[t]
  <2>1. /\ t \notin Created /\ Created' = Created \cup {t} /\ state[t] = "none" /\ base'[t] \in Nodes
        /\ \A n \in Created : base'[n] = base[n]
    BY <1>1, <1>2, OpenFacts
  <2>2. PICK o, b : Create(t, o, b)
    BY <1>2 DEF OpenRoot, OpenNested
  <2>3. base'[t] = b /\ seen'[t] = View(b) /\ (\A u \in Created : seen'[u] = seen[u]) /\ UNCHANGED <<db, change>>
    BY <1>1, <2>1, <2>2 DEF Create, store, data, Shape, TypeOK
  <2>4. Nodes \subseteq Nodes'
    BY <2>1 DEF Nodes
  <2>5. \A n \in Nodes : View(n)' = View(n)
    BY <1>1, <2>1, <2>3, <2>4, ViewFrame
  <2>6. View(base[t])' = View(b)
    <3>1. PICK c : c = b /\ c = base'[t]
      BY <2>3
    <3>2. View(c)' = View(c)
      BY <2>1, <2>5, <3>1
    <3> QED BY <3>1, <3>2
  <2>7. change'[t] = NoChange
    BY <2>1, <2>3 DEF Shape, Fresh
  <2> QED BY <2>1, <2>3, <2>6, <2>7
<1>3. Quiet => UNCHANGED seen /\ Created' = Created
  BY QuietShape, TypeStep
<1>4. FlushBottom \/ (\E t \in Tx : CommitRoot(t)) => UNCHANGED seen /\ Created' = Created
  BY DEF FlushBottom, CommitRoot, history, Created
<1>5. \A u \in Created : seen[u] \in Contents
  BY <1>1 DEF Shape, TypeOK
<1> QED BY <1>2, <1>3, <1>4, <1>5 DEF Next, Quiet

LEMMA IsolatedStep ==
    ASSUME Shape, Control, Footing, Isolated, [Next]_vars
    PROVE  Isolated'
<1>1. /\ Shape' /\ Footing' /\ moved \subseteq moved'
      /\ \A u \in Created : u \in Tx /\ base[u] \in Nodes /\ change[u] \in Change
  BY ShapeStep, FootingStep, ShapeFacts DEF Shape, TypeOK
<1>2. ASSUME NEW u \in Created, u \notin moved'
      PROVE  /\ Anchored(u)' => On(change'[u], View(base[u])') = On(change'[u], seen'[u])
             /\ Anchored(u)' /\ call'[u] # "committing" => View(base[u])' = seen'[u]
             /\ Guarded(u)' => View(base[u])' = seen'[u]
  <2>1. /\ u \in Created \ moved
        /\ Anchored(u)' => Anchored(u)
        /\ Guarded(u)' => Guarded(u) \/ (call[u] = "none" /\ Anchored(u))
    BY <1>1, <1>2, StandingStep
  <2>2. /\ Anchored(u) => On(change[u], View(base[u])) = On(change[u], seen[u])
        /\ Anchored(u) /\ call[u] # "committing" => View(base[u]) = seen[u]
        /\ Guarded(u) => View(base[u]) = seen[u]
    BY <2>1 DEF Isolated
  <2>3. seen'[u] = seen[u] /\ seen[u] \in Contents /\ View(base[u]) \in Contents
    BY <1>1, SeenStep, ViewFacts DEF ViewEquation
  <2>4. Anchored(u)' => call[u] # "committing" \/ call'[u] = "committing"
    <3>1. Anchored(u)' => Usable(u)'
      BY <1>1, <1>2, HoldsStep, AnchoredFactsNext DEF AnchoredEquation, Holds
    <3> QED BY <3>1, CommittingStep
  <2>5. CASE /\ View(base[u])' = View(base[u])
    <3>1. Guarded(u)' => View(base[u])' = seen'[u]
      BY <2>1, <2>2, <2>3, <2>5
    <3>2. Anchored(u)' /\ call'[u] # "committing" => View(base[u])' = seen'[u]
      BY <2>1, <2>2, <2>3, <2>4, <2>5
    <3>3. ASSUME Anchored(u)'
          PROVE  On(change'[u], View(base[u])') = On(change'[u], seen'[u])
      <4>1. CASE change'[u] = change[u]
        BY <2>1, <2>2, <2>3, <2>5, <3>3, <4>1
      <4>2. CASE Write(u)
        <5>1. call[u] = "none"
          BY <4>2 DEF Write, Writable
        <5> QED BY <2>1, <2>2, <2>3, <2>5, <3>3, <5>1
      <4>3. ASSUME NEW t \in Tx, change'[u] = Merge(change[u], change[t])
            PROVE  On(change'[u], View(base[u])') = On(change'[u], seen'[u])
        <5>1. change[t] \in Change /\ change[u] \in Change
          BY <1>1 DEF Shape, TypeOK
        <5>2. On(Merge(change[u], change[t]), View(base[u])) = On(change[t], On(change[u], View(base[u])))
          BY <2>3, <5>1, MergeIsComposition
        <5>3. On(Merge(change[u], change[t]), seen[u]) = On(change[t], On(change[u], seen[u]))
          BY <2>3, <5>1, MergeIsComposition
        <5> QED BY <2>1, <2>2, <2>3, <2>5, <3>3, <4>3, <5>2, <5>3
      <4> QED BY <4>1, <4>2, <4>3, ChangeStep
    <3> QED BY <3>1, <3>2, <3>3
  <2>6. CASE /\ u \in Elements(stack) /\ change'[u] = change[u] /\ call'[u] = call[u]
             /\ View(base[u])' = On(change[u], View(base[u]))
    <3>1. /\ ~Guarded(u)'
          /\ Anchored(u) => call[u] = "committing"
      <4>1. call[u] = "committing" \/ state[u] = "COMMITTED"
        BY <2>1, <2>6 DEF Footing, Layers
      <4>2. Anchored(u) => Usable(u)
        BY AnchoredFacts DEF AnchoredEquation, Holds
      <4>3. call[u] = "merging" => state[u] = "OPEN"
        BY <1>1 DEF Control, EndingsAreOpen, Ending
      <4> QED BY <2>6, <4>1, <4>2, <4>3 DEF Guarded, Usable
    <3>2. On(change[u], On(change[u], View(base[u]))) = On(change[u], View(base[u]))
      BY <1>1, <2>3, ApplyTwice
    <3> QED BY <2>1, <2>2, <2>3, <2>6, <3>1, <3>2
  <2>7. CASE ~Standing(u) /\ ~Guarded(u)
    BY <2>1, <2>7, StandingStep DEF Standing
  <2> QED BY <1>2, <2>5, <2>6, <2>7, BaseViewStep
<1>3. ASSUME NEW t \in Created', t \notin Created
      PROVE  On(change'[t], View(base[t])') = On(change'[t], seen'[t]) /\ View(base[t])' = seen'[t]
  BY <1>3, SeenStep
<1> QED BY <1>2, <1>3 DEF Isolated

\* What a merge makes of an outer transaction.
LEMMA MergeStep ==
    ASSUME Shape, Control, Footing, Isolated, [Next]_vars, NEW t \in Created \ moved,
           call[t] = "merging", call'[t] = "merged", outer[t] \notin early, Anchored(outer[t])
    PROVE  View(outer[t])' = On(change[t], seen[t])
<1>1. t \in Tx /\ outer[t] \in Created /\ outer[t] \in Tx /\ Backend \notin Tx /\ base[t] = outer[t]
  BY ShapeFacts DEF Shape, MergesAreNested, Rooted
<1>2. ApplyNested(t)
  <2>1. ASSUME NEW u \in Tx, ApplyNested(u)
        PROVE  ApplyNested(t)
    <3>1. call' = [call EXCEPT ![u] = "merged"]
      BY <2>1 DEF ApplyNested
    <3>2. u = t
      BY <1>1, <3>1
    <3> QED BY <2>1, <3>2
  <2>2. ASSUME NEW u \in Tx, OpenRoot(u) \/ \E o \in Tx : OpenNested(u, o)
        PROVE  FALSE
    BY <2>2, OpenEffects
  <2>3. ASSUME NEW u \in Tx, Abort(u) \/ AbortGoesOn(u) \/ ConflictNested(u)
        PROVE  FALSE
    <3>1. PICK S \in SUBSET Tx : Leaves(S)
      BY <2>3, LeavingFacts
    <3> QED BY <1>1, <3>1 DEF Leaves
  <2>4. ASSUME NEW u \in Tx, Write(u) \/ (\E k \in Key : Preload(u, k)) \/ AbortThrows(u)
        PROVE  FALSE
    BY <1>1, <2>4 DEF Write, Preload, AbortThrows
  <2>5. ASSUME NEW u \in Tx, CommitRoot(u) \/ CommitNested(u) \/ ApplyThrows(u) \/ FinishAbort(u) \/ FinishCommit(u)
        PROVE  FALSE
    BY <1>1, <2>5 DEF CommitRoot, CommitNested, ApplyThrows, FinishAbort, FinishCommit, Shape, TypeOK
  <2>6. ASSUME NEW u \in Tx, EndMerge(u)
        PROVE  FALSE
    BY <1>1, <2>6, EndMergeFacts
  <2>7. ~FlushBottom /\ ~UNCHANGED vars
    BY DEF FlushBottom, vars
  <2> QED BY <2>1, <2>2, <2>3, <2>4, <2>5, <2>6, <2>7 DEF Next, Work
<1>3. PICK o : o = outer[t] /\ o = outer'[t]
  BY <1>2 DEF ApplyNested, tree
<1>4. /\ change'[o] = Merge(change[o], change[t]) /\ UNCHANGED <<base, db>> /\ Created' = Created
      /\ \A v \in Created : v # o => change'[v] = change[v]
      /\ change[o] \in Change /\ change[t] \in Change /\ seen[t] \in Contents
  BY <1>1, <1>2, <1>3 DEF ApplyNested, tree, store, Shape, TypeOK, Created
<1>5. View(o) = seen[t]
  BY <1>1, <1>3 DEF Isolated, Guarded
<1>6. Shape'
  BY ShapeStep
<1>7. o \notin Below(o)
  <2>1. o \in Nodes
    BY <1>1, <1>3 DEF Nodes
  <2> QED BY <2>1, BelowOrder DEF BelowIsOrder
<1>8. View(base[o])' = View(base[o])
  BY <1>1, <1>3, <1>4, <1>6, <1>7, ChangeFrame
<1>9. /\ View(o)' = On(Merge(change[o], change[t]), View(base[o]))
      /\ View(o) = On(change[o], View(base[o])) /\ View(base[o]) \in Contents
  <2>1. o \in Created /\ o \in Created' /\ base[o] \in Nodes
    BY <1>1, <1>3, <1>4, ShapeFacts
  <2>2. View(o)' = On(change'[o], View(base[o])')
    BY <1>6, <2>1, ViewFactsNext DEF ViewEquation
  <2> QED BY <1>4, <1>8, <2>1, <2>2, ViewFacts DEF ViewEquation
<1>10. View(o)' = On(change[t], seen[t])
  BY <1>4, <1>5, <1>9, MergeIsComposition
<1>11. View(outer[t])' = View(o)'
  BY <1>3
<1> QED BY <1>10, <1>11

-----------------------------------------------------------------------------
(***************************************************************************)
(* What has been cached                                                    *)
(***************************************************************************)

\* An own change answers by itself; where there is none, what is below does.
LEMMA DecidesFacts ==
    ASSUME Shape, NEW n \in Created, NEW b \in Contents, NEW k \in Key
    PROVE  /\ Decides(n, k) => Get(change[n], Nothing, k) = On(change[n], b)[k]
           /\ ~Decides(n, k) => On(change[n], b)[k] = b[k]
<1>1. change[n] \in Change
  BY DEF Shape, TypeOK, Created
<1> QED BY <1>1 DEF Decides, On, Get, Change, Nothing

\* A value that is cached and not hidden by an own change is that of the state the transaction
\* is based on, and a synchronous transaction it is based on knows the key too.
Remembered ==
    \A n \in Created, k \in Key : cache[n][k] # Untouched /\ ~Decides(n, k) =>
        /\ n \notin moved /\ Standing(n) => cache[n][k] = View(base[n])[k]
        /\ base[n] \in Synchronous => cache[base[n]][k] # Untouched \/ Decides(base[n], k)

\* So every way of reading a key gives what the node stands for, or an error.
ReadsView(n, k) ==
    /\ IsCached(n, k) \/ (n \in Created /\ Decides(n, k)) => GetSync(n, k, FALSE) = View(n)[k]
    /\ GetSync(n, k, TRUE) \in {View(n)[k], "throws"}
    /\ Read(n, k) = View(n)[k]

LEMMA ReadsViews ==
    ASSUME Shape, Control, Footing, Remembered, NEW k \in Key, NEW u \in Nodes \ moved, Standing(u)
    PROVE  ReadsView(u, k)
<1>1. PICK rank : Chained(Nodes, Backend, base, rank)
  BY ShapeFacts
<1>2. /\ Backend \notin Created /\ Backend \notin Tx /\ Nodes = Created \cup {Backend} /\ Created \subseteq Tx
      /\ Synchronous \subseteq Tx
  BY ShapeFacts, NestedAssumption
<1>3. ViewEquation /\ CachedEquation /\ SyncEquation /\ ReadEquation
  BY ViewFacts, CachedFacts, SyncFacts, ReadFacts
<1> DEFINE P == {n \in Nodes : n \notin moved /\ Standing(n) => ReadsView(n, k)}
<1>4. Backend \in P
  BY <1>2, <1>3 DEF ViewEquation, SyncEquation, ReadEquation, ReadsView
<1>5. ASSUME NEW n \in Created, base[n] \in P, n \notin moved, Standing(n)
      PROVE  ReadsView(n, k)
  <2> DEFINE b == base[n]
             v == View(n)[k]
             below == View(base[n])[k]
  <2>1. b \in Nodes /\ ReadsView(b, k)
    BY <1>5, StandingBelow
  <2>2. View(b) \in Contents /\ View(n) = On(change[n], View(b))
    BY <1>3, <2>1 DEF ViewEquation
  <2>3. /\ Decides(n, k) => Get(change[n], Nothing, k) = v
        /\ ~Decides(n, k) => v = below
    BY <2>2, DecidesFacts
  <2>4. /\ IsCached(n, k) <=> cache[n][k] # Untouched \/ (IsSynchronous(b) /\ IsCached(b, k))
    BY <1>3 DEF CachedEquation
  <2>5. \A e \in BOOLEAN : GetSync(n, k, e) =
              IF Decides(n, k) THEN Get(change[n], Nothing, k)
              ELSE IF Missing(cache[n][k]) /\ IsSynchronous(b) THEN GetSync(b, k, e)
              ELSE IF Missing(cache[n][k]) /\ e THEN "throws"
              ELSE IF cache[n][k] = Untouched THEN Absent ELSE cache[n][k]
    BY <1>3 DEF SyncEquation
  <2>6. /\ Read(n, k) = IF n \in Synchronous /\ IsCached(n, k) THEN GetSync(n, k, FALSE)
                        ELSE IF Decides(n, k) THEN Get(change[n], Nothing, k)
                        ELSE Read(b, k)
    BY <1>3 DEF ReadEquation
  <2>7. cache[n][k] # Untouched /\ ~Decides(n, k) =>
            /\ cache[n][k] = below
            /\ b \in Synchronous => cache[b][k] # Untouched \/ Decides(b, k)
    BY <1>5 DEF Remembered
  <2>8. ~Missing(cache[n][k]) => cache[n][k] # Untouched
    BY DEF Missing
  <2>9. /\ b = Backend => GetSync(b, k, FALSE) = below
        /\ IsSynchronous(b) => b = Backend \/ b \in Synchronous
        /\ b # Backend => b \in Created
    BY <1>2, <1>3, <2>1 DEF IsSynchronous, SyncEquation, ViewEquation
  <2>10. b \in Created => (cache[b][k] # Untouched => IsCached(b, k))
    BY <1>3 DEF CachedEquation
  <2>11. /\ IsCached(b, k) \/ (b \in Created /\ Decides(b, k)) => GetSync(b, k, FALSE) = below
         /\ GetSync(b, k, TRUE) \in {below, "throws"} /\ Read(b, k) = below
    BY <2>1 DEF ReadsView
  <2> HIDE DEF b, v, below
  <2>12. IsCached(n, k) \/ Decides(n, k) => GetSync(n, k, FALSE) = v
    <3>1. CASE Decides(n, k)
      BY <2>3, <2>5, <3>1
    <3>2. CASE ~Decides(n, k) /\ IsCached(n, k) /\ Missing(cache[n][k]) /\ IsSynchronous(b)
      <4>1. GetSync(b, k, FALSE) = below
        <5>1. CASE cache[n][k] = Untouched
          BY <2>4, <2>11, <3>2, <5>1
        <5>2. CASE cache[n][k] # Untouched
          BY <2>7, <2>9, <2>10, <2>11, <3>2, <5>2
        <5> QED BY <5>1, <5>2
      <4> QED BY <2>3, <2>5, <3>2, <4>1
    <3>3. CASE ~Decides(n, k) /\ IsCached(n, k) /\ ~(Missing(cache[n][k]) /\ IsSynchronous(b))
      <4>1. cache[n][k] # Untouched
        BY <2>4, <2>8, <3>3
      <4> QED BY <2>3, <2>5, <2>7, <3>3, <4>1
    <3> QED BY <3>1, <3>2, <3>3
  <2>13. GetSync(n, k, TRUE) \in {v, "throws"}
    BY <2>3, <2>5, <2>7, <2>8, <2>11
  <2>14. Read(n, k) = v
    BY <2>3, <2>6, <2>11, <2>12
  <2> QED BY <2>12, <2>13, <2>14 DEF ReadsView, v
<1>6. Nodes \subseteq P
  <2>1. \A n \in Nodes \ {Backend} : base[n] \in P => n \in P
    BY <1>2, <1>5
  <2> HIDE DEF P
  <2> QED BY <1>1, <1>4, <2>1, ChainInduction
<1> QED BY <1>6

\* Who remembers the answer of a read reads the same, and so do those below that are asked.
LEMMA RememberingFacts ==
    ASSUME Shape, NEW k \in Key, NEW u \in Nodes
    PROVE  \A n \in Remembering(u, k) :
              /\ n \in Created /\ n \in Synchronous /\ ~IsCached(n, k) /\ Read(n, k) = Read(u, k)
              /\ n \in Remembering(n, k) /\ Remembering(n, k) \subseteq Remembering(u, k)
<1>1. PICK rank : Chained(Nodes, Backend, base, rank)
  BY ShapeFacts
<1>2. /\ Backend \notin Created /\ Nodes = Created \cup {Backend}
  BY ShapeFacts
<1>3. RememberEquation /\ ReadEquation
  BY RememberFacts, ReadFacts
<1> DEFINE Right(m) == \A n \in Remembering(m, k) :
              /\ n \in Created /\ n \in Synchronous /\ ~IsCached(n, k) /\ Read(n, k) = Read(m, k)
              /\ n \in Remembering(n, k) /\ Remembering(n, k) \subseteq Remembering(m, k)
           P == {m \in Nodes : Right(m)}
<1>4. Backend \in P
  BY <1>2, <1>3 DEF RememberEquation
<1>5. ASSUME NEW m \in Created, Right(base[m])
      PROVE  Right(m)
  <2>1. /\ Remembering(m, k) =
              IF m \in Synchronous /\ IsCached(m, k) THEN {}
              ELSE ({m} \cap Synchronous) \cup (IF Decides(m, k) THEN {} ELSE Remembering(base[m], k))
        /\ Read(m, k) = IF m \in Synchronous /\ IsCached(m, k) THEN GetSync(m, k, FALSE)
                        ELSE IF Decides(m, k) THEN Get(change[m], Nothing, k)
                        ELSE Read(base[m], k)
    BY <1>3 DEF RememberEquation, ReadEquation
  <2>2. ASSUME NEW n \in Remembering(m, k)
        PROVE  /\ n \in Created /\ n \in Synchronous /\ ~IsCached(n, k) /\ Read(n, k) = Read(m, k)
               /\ n \in Remembering(n, k) /\ Remembering(n, k) \subseteq Remembering(m, k)
    <3>1. ~(m \in Synchronous /\ IsCached(m, k))
      BY <2>1, <2>2
    <3>2. CASE n = m
      <4>1. m \in Synchronous
        BY <1>5, <2>1, <2>2, <3>1, <3>2
      <4>2. ~IsCached(m, k)
        BY <3>1, <4>1
      <4>3. m \in Remembering(m, k)
        BY <2>2, <3>2
      <4> QED BY <4>1, <4>2, <4>3, <3>2, <1>5
    <3>3. CASE n # m
      <4>1. n \in Remembering(base[m], k) /\ ~Decides(m, k)
        BY <2>1, <2>2, <3>1, <3>3
      <4> QED BY <1>5, <2>1, <3>1, <4>1
    <3> QED BY <3>2, <3>3
  <2> QED BY <2>2
<1>6. Nodes \subseteq P
  <2>1. \A m \in Nodes \ {Backend} : base[m] \in P => m \in P
    <3> HIDE DEF Right
    <3> QED BY <1>2, <1>5
  <2> HIDE DEF P
  <2> QED BY <1>1, <1>4, <2>1, ChainInduction
<1> QED BY <1>6

\* No step takes back that a transaction decides about a key.
LEMMA DecidesStep ==
    ASSUME Shape, Control, [Next]_vars, NEW u \in Created, NEW k \in Key, Decides(u, k)
    PROVE  Decides(u, k)'
<1>1. u \in Tx /\ change[u] \in Change
  BY DEF Created, Shape, TypeOK
<1>2. CASE change'[u] = change[u]
  BY <1>2 DEF Decides
<1>3. CASE Write(u)
  BY <1>3, OverlayAssumption DEF Write, Decides, NoChange
<1>4. ASSUME NEW t \in Tx, change'[u] = Merge(change[u], change[t])
      PROVE  Decides(u, k)'
  <2>1. change[t] \in Change
    BY DEF Shape, TypeOK
  <2> QED BY <1>1, <1>4, <2>1 DEF Decides, Merge, Change
<1> QED BY <1>2, <1>3, <1>4, ChangeStep

\* Nobody is rebased, except on the backend.
LEMMA BaseStep ==
    ASSUME Shape, Control, [Next]_vars, NEW u \in Created
    PROVE  base'[u] = base[u] \/ base'[u] = Backend
<1>1. u \in Tx
  BY DEF Created
<1>2. ASSUME NEW t \in Tx, OpenRoot(t) \/ \E o \in Tx : OpenNested(t, o)
      PROVE  base'[u] = base[u]
  BY <1>1, <1>2, OpenFacts
<1>3. ASSUME NEW t \in Tx, \/ Write(t) \/ (\E k \in Key : Preload(t, k)) \/ CommitRoot(t)
                           \/ Abort(t) \/ CommitNested(t) \/ ConflictNested(t) \/ Work(t)
      PROVE  base' = base
  BY <1>3 DEF Write, Preload, CommitRoot, Abort, CommitNested, ConflictNested, Work,
              AbortGoesOn, AbortThrows, FinishAbort, ApplyNested, ApplyThrows, EndMerge, FinishCommit, tree
<1>4. CASE FlushBottom
  BY <1>1, <1>4 DEF FlushBottom
<1>5. CASE UNCHANGED vars
  BY <1>5 DEF vars, tree
<1> QED BY <1>2, <1>3, <1>4, <1>5 DEF Next

\* Only preloading and reading cache something.
LEMMA CacheStep ==
    ASSUME [Next]_vars
    PROVE  cache' = cache \/ \E t \in Tx, k \in Key : Preload(t, k)
<1>1. ASSUME NEW t \in Tx, \/ OpenRoot(t) \/ (\E o \in Tx : OpenNested(t, o))
                           \/ Write(t) \/ CommitRoot(t)
                           \/ Abort(t) \/ CommitNested(t) \/ ConflictNested(t) \/ Work(t)
      PROVE  cache' = cache
  BY <1>1 DEF OpenRoot, OpenNested, Create, Write, CommitRoot, Abort, CommitNested, ConflictNested, Work,
              AbortGoesOn, AbortThrows, FinishAbort, ApplyNested, ApplyThrows, EndMerge, FinishCommit, data
<1>2. CASE FlushBottom
  BY <1>2 DEF FlushBottom, data
<1>3. CASE UNCHANGED vars
  BY <1>3 DEF vars, data
<1> QED BY <1>1, <1>2, <1>3 DEF Next

\* What a read leaves in the caches is what is there.
LEMMA PreloadRemembers ==
    ASSUME Shape, Control, Footing, Remembered, NEW t \in Tx, NEW kk \in Key, Preload(t, kk),
           NEW n \in Created, NEW k \in Key, cache'[n][k] # Untouched, ~Decides(n, k)
    PROVE  /\ n \notin moved /\ Standing(n) => cache'[n][k] = View(base[n])[k]
           /\ base[n] \in Synchronous => cache'[base[n]][k] # Untouched \/ Decides(base[n], k)
<1>1. /\ t \in Created /\ t \in Nodes /\ n \in Tx /\ n \in Nodes /\ base[n] \in Nodes
      /\ Created \subseteq Tx /\ Nodes = Created \cup {Backend} /\ Backend \notin Tx
      /\ Synchronous \subseteq Tx
  BY ShapeFacts, NestedAssumption DEF Preload, Usable, Created, Nodes
<1>2. /\ cache \in [Tx -> [Key -> Value \cup {Absent, Untouched}]]
      /\ Read(t, kk) \in Answers /\ Untouched \notin Answers
  BY <1>1, ReadFacts, OverlayAssumption DEF Shape, TypeOK, ReadEquation, Answers
<1>3. \A m \in Tx : /\ m \in Remembering(t, kk) =>
                          /\ cache'[m][kk] = Read(t, kk)
                          /\ \A x \in Key : x # kk => cache'[m][x] = cache[m][x]
                    /\ m \notin Remembering(t, kk) => cache'[m] = cache[m]
  BY <1>2 DEF Preload
<1>4. CASE cache'[n][k] = cache[n][k]
  <2>1. /\ n \notin moved /\ Standing(n) => cache'[n][k] = View(base[n])[k]
        /\ base[n] \in Synchronous => cache[base[n]][k] # Untouched \/ Decides(base[n], k)
    BY <1>4 DEF Remembered
  <2>2. \A m \in Tx : cache[m][k] # Untouched => cache'[m][k] # Untouched
    BY <1>2, <1>3
  <2> QED BY <1>1, <2>1, <2>2
<1>5. CASE n \in Remembering(t, kk) /\ k = kk
  <2>1. /\ ~IsCached(n, k) /\ Read(n, k) = Read(t, k) /\ n \in Synchronous
        /\ n \in Remembering(n, k) /\ Remembering(n, k) \subseteq Remembering(t, k)
    BY <1>1, <1>5, RememberingFacts
  <2>2. ASSUME n \notin moved, Standing(n)
        PROVE  cache'[n][k] = View(base[n])[k]
    <3>1. Read(n, k) = View(n)[k]
      BY <1>1, <2>2, ReadsViews DEF ReadsView
    <3>2. View(base[n]) \in Contents /\ View(n) = On(change[n], View(base[n]))
      BY <1>1, ViewFacts DEF ViewEquation
    <3> QED BY <1>1, <1>3, <1>5, <2>1, <3>1, <3>2, DecidesFacts
  <2>3. ASSUME base[n] \in Synchronous
        PROVE  cache'[base[n]][k] # Untouched
    <3>1. PICK b : b = base[n]
      OBVIOUS
    <3>2. b \in Created /\ b \in Tx /\ IsSynchronous(b)
      BY <1>1, <2>3, <3>1 DEF IsSynchronous
    <3>3. ~IsCached(b, k)
      BY <2>1, <3>1, <3>2, CachedFacts DEF CachedEquation
    <3>4. b \in Remembering(b, k)
      BY <2>3, <3>1, <3>2, <3>3, RememberFacts DEF RememberEquation
    <3>5. b \in Remembering(n, k)
      <4>1. Remembering(n, k) = ({n} \cap Synchronous) \cup Remembering(b, k)
        BY <2>1, <3>1, RememberFacts DEF RememberEquation
      <4> QED BY <3>4, <4>1
    <3> QED BY <1>2, <1>3, <1>5, <2>1, <3>1, <3>2, <3>5
  <2> QED BY <2>2, <2>3
<1> QED BY <1>1, <1>3, <1>4, <1>5

LEMMA RememberedStep ==
    ASSUME Shape, Control, Footing, Remembered, [Next]_vars
    PROVE  Remembered'
<1>1. /\ moved \subseteq moved' /\ Shape' /\ Backend \notin Synchronous
      /\ \A u \in Created : u \in Tx /\ base[u] \in Nodes /\ change[u] \in Change
      /\ Nodes = Created \cup {Backend}
  BY FootingStep, ShapeStep, ShapeFacts, NestedAssumption DEF Shape, TypeOK
<1>2. ASSUME NEW n \in Created, NEW k \in Key, cache'[n][k] # Untouched, ~Decides(n, k)'
      PROVE  /\ n \notin moved' /\ Standing(n)' => cache'[n][k] = View(base[n])'[k]
             /\ base'[n] \in Synchronous => cache'[base'[n]][k] # Untouched \/ Decides(base[n], k)'
  <2>1. ~Decides(n, k)
    BY <1>2, DecidesStep
  <2>2. /\ n \notin moved /\ Standing(n) => cache'[n][k] = View(base[n])[k]
        /\ base[n] \in Synchronous => cache'[base[n]][k] # Untouched \/ Decides(base[n], k)
    <3>1. CASE cache' = cache
      BY <1>2, <2>1, <3>1 DEF Remembered
    <3>2. ASSUME NEW t \in Tx, NEW kk \in Key, Preload(t, kk)
          PROVE  /\ n \notin moved /\ Standing(n) => cache'[n][k] = View(base[n])[k]
                 /\ base[n] \in Synchronous => cache'[base[n]][k] # Untouched \/ Decides(base[n], k)
      BY <1>2, <2>1, <3>2, PreloadRemembers
    <3> QED BY <3>1, <3>2, CacheStep
  <2>3. ASSUME n \notin moved', Standing(n)'
        PROVE  cache'[n][k] = View(base[n])'[k]
    <3>1. n \notin moved /\ Standing(n)
      BY <1>1, <2>3, StandingStep
    <3>2. View(base[n]) \in Contents
      BY <1>1, ViewFacts DEF ViewEquation
    <3>3. CASE View(base[n])' = View(base[n])
      BY <2>2, <3>1, <3>3
    <3>4. CASE View(base[n])' = On(change[n], View(base[n]))
      BY <2>1, <2>2, <3>1, <3>2, <3>4, DecidesFacts
    <3> QED BY <2>3, <3>1, <3>3, <3>4, BaseViewStep
  <2>4. ASSUME base'[n] \in Synchronous
        PROVE  cache'[base'[n]][k] # Untouched \/ Decides(base[n], k)'
    <3>1. PICK b : b = base[n] /\ b = base'[n]
      BY <1>1, <2>4, BaseStep
    <3>2. b \in Created
      BY <1>1, <2>4, <3>1
    <3>3. Decides(b, k) => Decides(b, k)'
      BY <3>2, DecidesStep
    <3> QED BY <2>2, <2>4, <3>1, <3>3
  <2> QED BY <2>3, <2>4
<1>3. ASSUME NEW n \in Created', n \notin Created, NEW k \in Key
      PROVE  cache'[n][k] = Untouched
  <2>1. ASSUME NEW t \in Tx, OpenRoot(t) \/ \E o \in Tx : OpenNested(t, o)
        PROVE  cache'[n][k] = Untouched
    <3>1. cache' = cache
      BY <2>1 DEF OpenRoot, OpenNested, Create, data
    <3>2. n \in Tx /\ state[n] = "none"
      BY <1>3 DEF Created
    <3> QED BY <3>1, <3>2 DEF Shape, Fresh
  <2>2. (\E t \in Tx : OpenRoot(t) \/ \E o \in Tx : OpenNested(t, o)) \/ Created' = Created
    <3>1. Quiet => Created' = Created
      BY QuietShape, TypeStep
    <3>2. FlushBottom \/ (\E t \in Tx : CommitRoot(t)) => Created' = Created
      BY DEF FlushBottom, CommitRoot, Created
    <3> QED BY <3>1, <3>2 DEF Next, Quiet
  <2> QED BY <1>3, <2>1, <2>2
<1> QED BY <1>2, <1>3 DEF Remembered

-----------------------------------------------------------------------------
(***************************************************************************)
(* What is read                                                            *)
(***************************************************************************)

\* In every state, and for all that has been cached so far, a transaction that still stands
\* is based on the contents it was opened on.
LEMMA Isolation == Spec => [](Shape /\ Control /\ Footing /\ Isolated /\ Remembered)
<1>1. Init => Footing /\ Isolated /\ Remembered
  <2>1. Init => Created = {} /\ Elements(stack) = {}
    BY DEF Init, Created, Elements
  <2> QED BY <2>1 DEF Footing, Layers, MovedBelow, Isolated, Remembered
<1>2. Init => Shape /\ Control
  BY ShapeInit, ControlInit
<1>3. Shape /\ Control /\ Footing /\ Isolated /\ Remembered /\ [Next]_vars
         => (Shape /\ Control /\ Footing /\ Isolated /\ Remembered)'
  BY ShapeStep, ControlStep, FootingStep, IsolatedStep, RememberedStep
<1> QED BY <1>1, <1>2, <1>3, PTL DEF Spec

\* What a transaction reads, synchronously or not, cached or not, is what it was opened on with
\* its own changes, until what it reads through is changed by a merge.
THEOREM ReadsStayTheSame == Spec => []ReadsAreIsolated
<1>1. ASSUME Shape, Control, Footing, Isolated, Remembered
      PROVE  ReadsAreIsolated
  <2> SUFFICES ASSUME NEW t \in Created \ moved, NEW k \in Key, Anchored(t)
               PROVE  LET v == Get(change[t], seen[t], k)
                      IN  /\ Read(t, k) = v
                          /\ t \in Synchronous =>
                                /\ IsCached(t, k) => GetSync(t, k, FALSE) = v
                                /\ GetSync(t, k, TRUE) \in {v, "throws"}
                                /\ GetSync(t, k, TRUE) = "throws" =>
                                      ~Decides(t, k) /\ Missing(cache[t][k])
    BY DEF ReadsAreIsolated
  <2>1. t \in Created /\ t \in Nodes \ moved /\ t \in Tx
    BY <1>1, ShapeFacts
  <2>2. View(t)[k] = Get(change[t], seen[t], k)
    <3>1. View(t) = On(change[t], seen[t])
      BY <1>1, ViewFacts DEF Isolated, ViewEquation
    <3> QED BY <3>1 DEF On
  <2>3. ReadsView(t, k)
    BY <1>1, <2>1, ReadsViews DEF Standing
  <2>4. ASSUME GetSync(t, k, TRUE) = "throws"
        PROVE  ~Decides(t, k) /\ Missing(cache[t][k])
    <3>1. /\ cache[t][k] \in Value \cup {Absent, Untouched} /\ change[t] \in Change
          /\ "throws" \notin Value \cup {Absent}
      BY <1>1, <2>1, NestedAssumption DEF Shape, TypeOK
    <3>2. Decides(t, k) => Get(change[t], Nothing, k) \in Value \cup {Absent}
      BY <3>1 DEF Decides, Get, Change, Nothing
    <3>3. ~Missing(cache[t][k]) => cache[t][k] \in Value
      BY <3>1 DEF Missing
    <3>4. GetSync(t, k, TRUE) =
              IF Decides(t, k) THEN Get(change[t], Nothing, k)
              ELSE IF Missing(cache[t][k]) /\ IsSynchronous(base[t]) THEN GetSync(base[t], k, TRUE)
              ELSE IF Missing(cache[t][k]) /\ TRUE THEN "throws"
              ELSE IF cache[t][k] = Untouched THEN Absent ELSE cache[t][k]
      BY <1>1, <2>1, SyncFacts DEF SyncEquation
    <3> QED BY <2>4, <3>1, <3>2, <3>3, <3>4
  <2> QED BY <2>2, <2>3, <2>4 DEF ReadsView
<1> QED BY <1>1, Isolation, PTL

\* A merge makes of the outer transaction what the nested one has read.
THEOREM MergesAreWhatWasRead == Spec => MergeMatchesReads
<1>1. Shape /\ Control /\ Footing /\ Isolated /\ Remembered /\ [Next]_vars =>
         [\A t \in Created \ moved :
             call[t] = "merging" /\ call'[t] = "merged" /\ outer[t] \notin early /\ Anchored(outer[t])
             => View(outer[t])' = On(change[t], seen[t])]_vars
  BY MergeStep
<1> QED BY <1>1, Isolation, PTL DEF Spec, MergeMatchesReads

=============================================================================
