--------------------------- MODULE SequenceLemmas ---------------------------
(***************************************************************************)
(* Sequences that lose or get an element: the stack of an object store,    *)
(* the lists of a LRU map and of an index.  Functions defined by recursion *)
(* along a chain: what a reader gets through a chain of parents, and what  *)
(* a fold computes.  Sets listed in order, and the scans of a range of a   *)
(* sorted table in the four backends.                                      *)
(***************************************************************************)
EXTENDS Scan, SequenceTheorems, FiniteSetTheorems, WellFoundedInduction, TLAPS

\* Array.prototype.splice(i, 1): the elements above position i move down.
LEMMA RemoveAtFacts ==
    ASSUME NEW S, NEW s \in Seq(S), NEW i \in 1..Len(s)
    PROVE  /\ RemoveAt(s, i) \in Seq(S)
           /\ Len(RemoveAt(s, i)) = Len(s) - 1
           /\ \A j \in 1..(Len(s) - 1) :
                RemoveAt(s, i)[j] = IF j < i THEN s[j] ELSE s[j + 1]
<1> DEFINE a == SubSeq(s, 1, i - 1)
           b == SubSeq(s, i + 1, Len(s))
<1>1. a \in Seq(S) /\ Len(a) = i - 1 /\ \A j \in 1..(i - 1) : a[j] = s[j]
  OBVIOUS
<1>2. b \in Seq(S) /\ Len(b) = Len(s) - i /\ \A j \in 1..(Len(s) - i) : b[j] = s[i + j]
  OBVIOUS
<1> HIDE DEF a, b
<1>3. a \o b \in Seq(S) /\ Len(a \o b) = Len(s) - 1
  <2>1. a \o b \in Seq(S) /\ Len(a \o b) = Len(a) + Len(b)
    BY <1>1, <1>2, ConcatProperties
  <2> QED BY <2>1, <1>1, <1>2
<1>4. ASSUME NEW j \in 1..(Len(s) - 1)
      PROVE  (a \o b)[j] = IF j < i THEN s[j] ELSE s[j + 1]
  <2>1. CASE j < i
    BY <1>1, <1>2, <2>1, ConcatProperties
  <2>2. CASE ~(j < i)
    <3>1. (a \o b)[j] = b[j - (i - 1)]
      BY <1>1, <1>2, <2>2, ConcatProperties
    <3>2. b[j - (i - 1)] = s[i + (j - (i - 1))]
      BY <1>2, <2>2
    <3> QED BY <3>1, <3>2, <2>2
  <2> QED BY <2>1, <2>2
<1>5. RemoveAt(s, i) = a \o b
  BY DEF RemoveAt, a, b
<1> QED BY <1>3, <1>4, <1>5

\* No element occurs twice.
Distinct(s) == \A i, j \in DOMAIN s : s[i] = s[j] => i = j

\* Removing an element of a sequence without repetitions.
LEMMA RemoveFromDistinct ==
    ASSUME NEW S, NEW s \in Seq(S), Distinct(s), NEW i \in 1..Len(s)
    PROVE  /\ Distinct(RemoveAt(s, i))
           /\ \A x \in S : (\E j \in DOMAIN RemoveAt(s, i) : RemoveAt(s, i)[j] = x)
                              <=> x # s[i] /\ \E j \in DOMAIN s : s[j] = x
<1> DEFINE r == RemoveAt(s, i)
<1>1. /\ r \in Seq(S) /\ Len(r) = Len(s) - 1
      /\ \A j \in 1..(Len(s) - 1) : r[j] = IF j < i THEN s[j] ELSE s[j + 1]
  BY RemoveAtFacts
<1>2. Len(s) \in Nat /\ DOMAIN s = 1..Len(s) /\ DOMAIN r = 1..(Len(s) - 1)
  BY <1>1
<1>3. \A a, b \in 1..Len(s) : s[a] = s[b] => a = b
  BY <1>2 DEF Distinct
<1> HIDE DEF r
<1>4. \A a, b \in 1..(Len(s) - 1) : r[a] = r[b] => a = b
  BY <1>1, <1>2, <1>3
<1>5. ASSUME NEW x \in S
      PROVE  (\E j \in 1..(Len(s) - 1) : r[j] = x) <=> x # s[i] /\ \E j \in 1..Len(s) : s[j] = x
  <2>1. ASSUME NEW j \in 1..(Len(s) - 1), r[j] = x
        PROVE  x # s[i] /\ \E a \in 1..Len(s) : s[a] = x
    BY <1>1, <1>2, <1>3, <2>1
  <2>2. ASSUME NEW j \in 1..Len(s), s[j] = x, x # s[i]
        PROVE  \E a \in 1..(Len(s) - 1) : r[a] = x
    <3>1. CASE j < i
      <4>1. j \in 1..(Len(s) - 1) /\ r[j] = s[j]
        BY <1>1, <1>2, <3>1
      <4> QED BY <4>1, <2>2
    <3>2. CASE j > i
      <4>1. j - 1 \in 1..(Len(s) - 1) /\ r[j - 1] = s[j]
        BY <1>1, <1>2, <3>2
      <4> QED BY <4>1, <2>2
    <3> QED BY <2>2, <3>1, <3>2, <1>2
  <2> QED BY <2>1, <2>2
<1> QED BY <1>2, <1>4, <1>5 DEF r, Distinct

-----------------------------------------------------------------------------
\* Each element of q is linked by f to the one below it, the lowest one to root.
Linked(q, f, root) == \A i \in DOMAIN q : f[q[i]] = IF i = 1 THEN root ELSE q[i - 1]

Elements(q) == {q[i] : i \in DOMAIN q}

TopOf(q, root) == IF q = <<>> THEN root ELSE q[Len(q)]

\* What a chain of links says without indices.
LEMMA LinkedFacts ==
    ASSUME NEW S, NEW q \in Seq(S), NEW f, NEW root, root \notin S,
           Linked(q, f, root), Distinct(q)
    PROVE  /\ Elements(q) \subseteq S
           /\ TopOf(q, root) \in Elements(q) \cup {root}
           /\ q # <<>> => TopOf(q, root) \in Elements(q) /\ q[1] \in Elements(q)
           /\ \A l \in Elements(q) :
                /\ f[l] # l /\ f[l] # TopOf(q, root) /\ f[l] \in Elements(q) \cup {root}
                /\ q # <<>>
           /\ \A l, m \in Elements(q) : f[l] = f[m] => l = m
           /\ \A n \in Elements(q) \cup {root} :
                n # TopOf(q, root) => \E l \in Elements(q) : f[l] = n
<1>1. Len(q) \in Nat /\ DOMAIN q = 1..Len(q) /\ \A i \in 1..Len(q) : q[i] \in S
  OBVIOUS
<1>2. /\ \A i \in 1..Len(q) : f[q[i]] = IF i = 1 THEN root ELSE q[i - 1]
      /\ \A i, j \in 1..Len(q) : q[i] = q[j] => i = j
  BY <1>1 DEF Linked, Distinct
<1>3. q = <<>> <=> Len(q) = 0
  OBVIOUS
<1>4. \A x : x \in Elements(q) <=> \E i \in 1..Len(q) : q[i] = x
  BY <1>1 DEF Elements
<1> DEFINE top == TopOf(q, root)
<1>5. top = IF Len(q) = 0 THEN root ELSE q[Len(q)]
  BY <1>3 DEF TopOf
<1> HIDE DEF top
<1>6. q # <<>> => 1 \in 1..Len(q) /\ Len(q) \in 1..Len(q)
  BY <1>1, <1>3
<1>7. Elements(q) \subseteq S
  BY <1>1, <1>4
<1>8. ASSUME NEW l \in Elements(q)
      PROVE  /\ f[l] # l /\ f[l] # top /\ f[l] \in Elements(q) \cup {root} /\ q # <<>>
  <2>1. PICK i \in 1..Len(q) : q[i] = l
    BY <1>4
  <2>2. Len(q) # 0 /\ Len(q) \in 1..Len(q)
    BY <1>1, <2>1
  <2>3. CASE i = 1
    BY <1>1, <1>2, <1>3, <1>5, <2>1, <2>2, <2>3
  <2>4. CASE i # 1
    <3>1. i - 1 \in 1..Len(q) /\ i - 1 # Len(q) /\ i - 1 # i
      BY <1>1, <2>4
    <3> QED BY <1>2, <1>3, <1>4, <1>5, <2>1, <2>2, <2>4, <3>1
  <2> QED BY <2>3, <2>4
<1>9. ASSUME NEW l \in Elements(q), NEW m \in Elements(q), f[l] = f[m]
      PROVE  l = m
  <2>1. PICK i \in 1..Len(q) : q[i] = l
    BY <1>4
  <2>2. PICK j \in 1..Len(q) : q[j] = m
    BY <1>4
  <2>3. CASE i = 1 /\ j = 1
    BY <2>1, <2>2, <2>3
  <2>4. CASE i = 1 /\ j # 1
    <3>1. j - 1 \in 1..Len(q)
      BY <1>1, <2>4
    <3> QED BY <1>1, <1>2, <1>9, <2>1, <2>2, <2>4, <3>1
  <2>5. CASE i # 1 /\ j = 1
    <3>1. i - 1 \in 1..Len(q)
      BY <1>1, <2>5
    <3> QED BY <1>1, <1>2, <1>9, <2>1, <2>2, <2>5, <3>1
  <2>6. CASE i # 1 /\ j # 1
    <3>1. i - 1 \in 1..Len(q) /\ j - 1 \in 1..Len(q)
      BY <1>1, <2>6
    <3>2. i - 1 = j - 1
      BY <1>2, <1>9, <2>1, <2>2, <2>6, <3>1
    <3> QED BY <1>1, <2>1, <2>2, <3>2
  <2> QED BY <2>3, <2>4, <2>5, <2>6
<1>10. ASSUME NEW n \in Elements(q) \cup {root}, n # top
       PROVE  \E l \in Elements(q) : f[l] = n
  <2>1. CASE n = root
    <3>1. 1 \in 1..Len(q)
      BY <1>1, <1>3, <1>5, <1>6, <1>10, <2>1
    <3> QED BY <1>2, <1>4, <2>1, <3>1
  <2>2. CASE n \in Elements(q)
    <3>1. PICK i \in 1..Len(q) : q[i] = n
      BY <1>4, <2>2
    <3>2. i # Len(q)
      <4>1. Len(q) # 0
        BY <1>1, <3>1
      <4>2. top = q[Len(q)]
        BY <1>5, <4>1
      <4> QED BY <1>10, <3>1, <4>2
    <3>3. i + 1 \in 1..Len(q) /\ i + 1 # 1 /\ (i + 1) - 1 = i
      <4>1. i \in Int /\ 1 <= i /\ i <= Len(q) /\ Len(q) \in Int
        BY <1>1
      <4> QED BY <4>1, <3>2
    <3>4. f[q[i + 1]] = n
      BY <1>2, <3>1, <3>3
    <3> QED BY <1>4, <3>3, <3>4
  <2> QED BY <2>1, <2>2
<1>11. top \in Elements(q) \cup {root}
       /\ (q # <<>> => top \in Elements(q) /\ q[1] \in Elements(q))
  BY <1>3, <1>4, <1>5, <1>6
<1> QED BY <1>7, <1>8, <1>9, <1>10, <1>11 DEF top

\* An element that is linked to the top is put on it.
LEMMA LinkedAppend ==
    ASSUME NEW S, NEW q \in Seq(S), NEW f, NEW root, Linked(q, f, root), Distinct(q),
           NEW t \in S, t \notin Elements(q), f[t] = TopOf(q, root)
    PROVE  /\ Append(q, t) \in Seq(S)
           /\ Linked(Append(q, t), f, root) /\ Distinct(Append(q, t))
           /\ Elements(Append(q, t)) = Elements(q) \cup {t}
<1> DEFINE r == Append(q, t)
<1>1. /\ r \in Seq(S) /\ Len(r) = Len(q) + 1 /\ r[Len(q) + 1] = t
      /\ \A i \in 1..Len(q) : r[i] = q[i]
  BY AppendProperties
<1>2. /\ Len(q) \in Nat /\ DOMAIN q = 1..Len(q) /\ DOMAIN r = 1..(Len(q) + 1)
      /\ (q = <<>> <=> Len(q) = 0)
  BY <1>1
<1> HIDE DEF r
<1>3. /\ \A i \in 1..Len(q) : f[q[i]] = IF i = 1 THEN root ELSE q[i - 1]
      /\ \A i, j \in 1..Len(q) : q[i] = q[j] => i = j
  BY <1>2 DEF Linked, Distinct
<1>4. \A i \in 1..(Len(q) + 1) : i \in 1..Len(q) \/ i = Len(q) + 1
  BY <1>2
<1>5. \A i \in 1..Len(q) : q[i] # t
  BY <1>2 DEF Elements
<1>6. Distinct(r)
  BY <1>1, <1>2, <1>3, <1>4, <1>5 DEF Distinct
<1>7. Linked(r, f, root)
  <2> SUFFICES ASSUME NEW i \in 1..(Len(q) + 1)
               PROVE  f[r[i]] = IF i = 1 THEN root ELSE r[i - 1]
    BY <1>2 DEF Linked
  <2>1. CASE i \in 1..Len(q)
    <3>1. i # 1 => i - 1 \in 1..Len(q)
      BY <2>1, <1>2
    <3> QED BY <1>1, <1>3, <2>1, <3>1
  <2>2. CASE i = Len(q) + 1
    <3>1. i = 1 <=> Len(q) = 0
      BY <2>2, <1>2
    <3>2. i # 1 => i - 1 \in 1..Len(q) /\ i - 1 = Len(q)
      BY <2>2, <1>2
    <3> QED BY <1>1, <1>2, <2>2, <3>1, <3>2 DEF TopOf
  <2> QED BY <1>4, <2>1, <2>2
<1>8. Elements(r) = Elements(q) \cup {t}
  <2>1. \A x : x \in Elements(r) <=> \E i \in 1..(Len(q) + 1) : r[i] = x
    BY <1>2 DEF Elements
  <2>2. \A x : x \in Elements(q) <=> \E i \in 1..Len(q) : q[i] = x
    BY <1>2 DEF Elements
  <2>3. Len(q) + 1 \in 1..(Len(q) + 1) /\ \A i \in 1..Len(q) : i \in 1..(Len(q) + 1)
    BY <1>2
  <2> QED BY <1>1, <1>4, <2>1, <2>2, <2>3
<1> QED BY <1>1, <1>6, <1>7, <1>8 DEF r

\* An element is taken out and what was linked to it is linked to the one below it.
LEMMA LinkedRemove ==
    ASSUME NEW S, NEW q \in Seq(S), NEW f, NEW g, NEW root, root \notin S,
           Linked(q, f, root), Distinct(q), NEW k \in 1..Len(q),
           \A l \in Elements(q) : l # q[k] => g[l] = IF f[l] = q[k] THEN f[q[k]] ELSE f[l]
    PROVE  /\ RemoveAt(q, k) \in Seq(S)
           /\ Linked(RemoveAt(q, k), g, root) /\ Distinct(RemoveAt(q, k))
           /\ Elements(RemoveAt(q, k)) = Elements(q) \ {q[k]}
<1> DEFINE r == RemoveAt(q, k)
<1>1. /\ r \in Seq(S) /\ Len(r) = Len(q) - 1
      /\ \A j \in 1..(Len(q) - 1) : r[j] = IF j < k THEN q[j] ELSE q[j + 1]
  BY RemoveAtFacts
<1>2. Len(q) \in Nat /\ DOMAIN q = 1..Len(q) /\ DOMAIN r = 1..(Len(q) - 1)
  BY <1>1
<1>3. /\ Distinct(r)
      /\ \A x \in S : (\E j \in DOMAIN r : r[j] = x) <=> x # q[k] /\ \E j \in DOMAIN q : q[j] = x
  BY RemoveFromDistinct
<1> HIDE DEF r
<1>4. /\ \A i \in 1..Len(q) : f[q[i]] = IF i = 1 THEN root ELSE q[i - 1]
      /\ \A i, j \in 1..Len(q) : q[i] = q[j] => i = j
      /\ \A i \in 1..Len(q) : q[i] \in S /\ q[i] \in Elements(q)
  <2>1. /\ \A i \in 1..Len(q) : f[q[i]] = IF i = 1 THEN root ELSE q[i - 1]
        /\ \A i, j \in 1..Len(q) : q[i] = q[j] => i = j
    BY <1>2 DEF Linked, Distinct
  <2>2. \A i \in 1..Len(q) : q[i] \in S /\ q[i] \in Elements(q)
    BY <1>2 DEF Elements
  <2> QED BY <2>1, <2>2
<1>5. Elements(r) = Elements(q) \ {q[k]}
  <2>1. /\ \A x : x \in Elements(r) <=> \E i \in DOMAIN r : r[i] = x
        /\ \A x : x \in Elements(q) <=> \E i \in DOMAIN q : q[i] = x
    BY DEF Elements
  <2>2. (\A i \in DOMAIN r : r[i] \in S) /\ (\A i \in DOMAIN q : q[i] \in S)
    BY <1>1
  <2> QED BY <2>1, <2>2, <1>3
<1>6. Linked(r, g, root)
  <2> SUFFICES ASSUME NEW j \in 1..(Len(q) - 1)
               PROVE  g[r[j]] = IF j = 1 THEN root ELSE r[j - 1]
    BY <1>2 DEF Linked
  <2>1. CASE j < k
    <3>1. j \in 1..Len(q) /\ j # k /\ r[j] = q[j]
      BY <2>1, <1>1, <1>2
    <3>2. j # 1 => j - 1 \in 1..Len(q) /\ j - 1 # k /\ r[j - 1] = q[j - 1]
      BY <2>1, <1>1, <1>2
    <3> QED BY <3>1, <3>2, <1>4
  <2>2. CASE j = k
    <3>1. /\ j + 1 \in 1..Len(q) /\ j + 1 # k /\ j + 1 # 1 /\ (j + 1) - 1 = k /\ r[j] = q[j + 1]
      BY <2>2, <1>1, <1>2
    <3>2. j # 1 => j - 1 \in 1..Len(q) /\ r[j - 1] = q[j - 1]
      BY <2>2, <1>1, <1>2
    <3>3. f[q[j + 1]] = q[k]
      BY <3>1, <1>4
    <3>4. q[j + 1] \in Elements(q) /\ q[j + 1] # q[k]
      BY <3>1, <1>4
    <3>5. g[r[j]] = f[q[k]]
      BY <3>1, <3>3, <3>4
    <3> QED BY <2>2, <3>2, <3>5, <1>4
  <2>3. CASE j > k
    <3>1. /\ j + 1 \in 1..Len(q) /\ j + 1 # k /\ j + 1 # 1 /\ (j + 1) - 1 = j
          /\ j \in 1..Len(q) /\ j # k /\ j # 1 /\ r[j] = q[j + 1] /\ r[j - 1] = q[j]
      <4>1. j - 1 \in 1..(Len(q) - 1) /\ ~(j - 1 < k) /\ (j - 1) + 1 = j /\ ~(j < k)
        BY <2>3, <1>2
      <4> QED BY <4>1, <2>3, <1>1, <1>2
    <3>2. f[q[j + 1]] = q[j] /\ q[j] # q[k] /\ q[j + 1] # q[k]
      BY <3>1, <1>4
    <3> QED BY <3>1, <3>2, <1>4
  <2> QED BY <2>1, <2>2, <2>3, <1>2
<1> QED BY <1>1, <1>3, <1>5, <1>6 DEF r

-----------------------------------------------------------------------------
\* A set of natural numbers has a least element: the form in which induction is used.
LEMMA LeastNat ==
    ASSUME NEW S, S \subseteq Nat, S # {}
    PROVE  \E n \in S : \A m \in S : n <= m
<1>1. PICK R : IsWellFoundedOn(R, Nat) /\ \A x, y \in Nat : y < x => <<y, x>> \in R
  <2>1. \A x, y \in Nat : y < x => <<y, x>> \in OpToRel(<, Nat)
    BY DEF OpToRel
  <2> QED BY <2>1, NatLessThanWellFounded, Zenon
<1>2. PICK n \in S : \A y \in S : ~ (<<y, n>> \in R)
  BY <1>1, WFMin, Zenon
<1>3. \A m \in S : ~(m < n)
  BY <1>1, <1>2
<1> QED BY <1>3

\* Every node of N but the root has one below it, and no chain of these goes on for ever.
Chained(N, root, below, rank) ==
    /\ root \in N /\ rank \in [N -> Nat]
    /\ \A m \in N \ {root} : below[m] \in N /\ rank[below[m]] < rank[m]

\* The function f on N gives c at the root and goes up by g elsewhere.
GoesUp(f, N, C, root, c, below, g) ==
    f \in [N -> C] /\ \A m \in N : f[m] = IF m = root THEN c ELSE g[m][f[below[m]]]

\* Induction along chains of nodes to a root, for a property given as the set of its nodes.
LEMMA ChainInduction ==
    ASSUME NEW N, NEW root, NEW below, NEW rank, Chained(N, root, below, rank), NEW P,
           root \in P, \A m \in N \ {root} : below[m] \in P => m \in P
    PROVE  N \subseteq P
<1> USE DEF Chained
<1> DEFINE bad == {i \in Nat : \E m \in N \ P : rank[m] = i}
<1>1. SUFFICES ASSUME bad # {} PROVE FALSE
  OBVIOUS
<1>2. PICK i \in bad : \A j \in bad : i <= j
  BY <1>1, LeastNat
<1>3. PICK m \in N \ P : rank[m] = i
  BY <1>2
<1>4. below[m] \in N \ P /\ rank[below[m]] < i /\ rank[below[m]] \in Nat /\ i \in Nat
  BY <1>2, <1>3
<1> QED BY <1>2, <1>4

\* A function that is defined along a chain of nodes to a root exists, if some rank falls
\* along every chain.
LEMMA ChainRecursion ==
    ASSUME NEW N, NEW root, NEW below, NEW rank, Chained(N, root, below, rank),
           NEW C, NEW c \in C, NEW g \in [N -> [C -> C]]
    PROVE  \E f : GoesUp(f, N, C, root, c, below, g)
<1> USE DEF Chained
<1> DEFINE Step(f, m) == IF m = root THEN c ELSE g[m][f[below[m]]]
           Solves(f, n) == f \in [N -> C] /\ \A m \in N : rank[m] < n => f[m] = Step(f, m)
<1>1. ASSUME NEW f \in [N -> C], NEW m \in N
      PROVE  Step(f, m) \in C
  BY <1>1
<1>2. ASSUME NEW f, NEW h, NEW n \in Nat, Solves(f, n), Solves(h, n), NEW m \in N, rank[m] < n
      PROVE  f[m] = h[m]
  <2> DEFINE bad == {i \in Nat : \E x \in N : rank[x] = i /\ i < n /\ f[x] # h[x]}
  <2>1. SUFFICES ASSUME bad # {} PROVE FALSE
    BY <1>2
  <2>2. PICK i \in bad : \A j \in bad : i <= j
    BY <2>1, LeastNat
  <2>3. PICK x \in N : rank[x] = i /\ i < n /\ f[x] # h[x]
    BY <2>2
  <2>4. x # root
    BY <1>2, <2>3
  <2>5. below[x] \in N /\ rank[below[x]] < i /\ rank[below[x]] \in Nat /\ i \in Nat
    BY <2>2, <2>3, <2>4
  <2>6. f[below[x]] = h[below[x]]
    BY <2>2, <2>3, <2>5
  <2> QED BY <1>2, <2>3, <2>6
<1>3. ASSUME NEW n \in Nat
      PROVE  \E f : Solves(f, n)
  <2> DEFINE bad == {i \in Nat : ~\E f : Solves(f, i)}
  <2>1. SUFFICES ASSUME bad # {} PROVE FALSE
    BY <1>3
  <2>2. PICK i \in bad : \A j \in bad : i <= j
    BY <2>1, LeastNat
  <2>3. CASE i = 0
    <3>1. Solves([m \in N |-> c], 0)
      OBVIOUS
    <3> QED BY <2>2, <2>3, <3>1
  <2>4. CASE i # 0
    <3>1. i - 1 \in Nat /\ i - 1 \notin bad
      BY <2>2, <2>4
    <3>2. PICK f : Solves(f, i - 1)
      BY <3>1
    <3> DEFINE h == [m \in N |-> Step(f, m)]
    <3>3. h \in [N -> C]
      BY <1>1, <3>2
    <3>4. ASSUME NEW m \in N, rank[m] < i
          PROVE  h[m] = Step(h, m)
      <4>1. CASE m = root
        BY <4>1
      <4>2. CASE m # root
        <5>1. below[m] \in N /\ rank[below[m]] < i - 1
          BY <2>2, <3>4, <4>2
        <5>2. h[below[m]] = f[below[m]]
          BY <3>2, <5>1
        <5> QED BY <4>2, <5>2
      <4> QED BY <4>1, <4>2
    <3>5. Solves(h, i)
      BY <3>3, <3>4
    <3> QED BY <2>2, <3>5
  <2> QED BY <2>3, <2>4
<1> DEFINE S(m) == CHOOSE f : Solves(f, rank[m] + 1)
           F == [m \in N |-> S(m)[m]]
<1>4. ASSUME NEW m \in N
      PROVE  Solves(S(m), rank[m] + 1)
  <2>1. rank[m] + 1 \in Nat
    OBVIOUS
  <2> HIDE DEF Solves
  <2>2. \E f : Solves(f, rank[m] + 1)
    BY <2>1, <1>3
  <2> QED BY <2>2, Zenon
<1>5. \A m \in N : rank[m] \in Nat /\ F[m] = S(m)[m]
  OBVIOUS
<1> HIDE DEF S, F
<1>6. ASSUME NEW m \in N
      PROVE  F[m] = Step(F, m) /\ F[m] \in C
  <2>1. F[m] = Step(S(m), m) /\ S(m) \in [N -> C]
    BY <1>4, <1>5
  <2>2. CASE m = root
    BY <2>1, <2>2
  <2>3. CASE m # root
    <3>1. below[m] \in N /\ rank[below[m]] < rank[m]
      BY <2>3
    <3>2. Solves(S(m), rank[below[m]] + 1) /\ Solves(S(below[m]), rank[below[m]] + 1)
      BY <1>4, <1>5, <3>1
    <3>3. rank[below[m]] + 1 \in Nat /\ rank[below[m]] < rank[below[m]] + 1
      BY <1>5, <3>1
    <3> HIDE DEF Solves
    <3>4. S(m)[below[m]] = S(below[m])[below[m]]
      BY <1>2, <3>1, <3>2, <3>3
    <3> USE DEF Solves
    <3>5. F[m] = g[m][F[below[m]]]
      BY <2>1, <2>3, <3>1, <3>4, <1>5
    <3>6. F[m] \in C
      BY <1>1, <2>1
    <3> QED BY <2>3, <3>5, <3>6
  <2> QED BY <2>2, <2>3
<1>7. F \in [N -> C]
  BY <1>6 DEF F
<1> QED BY <1>6, <1>7 DEF GoesUp

-----------------------------------------------------------------------------
\* FoldLeft takes the last position away from a set of positions, until none is left.
LEMMA GreatestPosition ==
    ASSUME NEW n \in Nat, NEW s \in SUBSET (1..n), s # {}
    PROVE  Max(s) \in s /\ \A i \in s : Max(s) >= i
<1> DEFINE bounds == {m \in Nat : \A i \in s : m >= i}
<1>1. n \in bounds
  OBVIOUS
<1>2. PICK m \in bounds : \A o \in bounds : m <= o
  BY <1>1, LeastNat
<1>3. m \in s
  <2>1. SUFFICES ASSUME m \notin s PROVE FALSE
    OBVIOUS
  <2>2. PICK i \in s : TRUE
    OBVIOUS
  <2>3. \A j \in s : m - 1 >= j
    BY <1>2, <2>1
  <2>4. m - 1 \in Nat
    BY <1>2, <2>2, <2>3
  <2> QED BY <1>2, <2>3, <2>4
<1>4. \E x \in s : \A y \in s : x >= y
  BY <1>2, <1>3
<1> QED BY <1>4 DEF Max

LEMMA PositionsAreChained ==
    ASSUME NEW n \in Nat
    PROVE  Chained(SUBSET (1..n), {}, [s \in SUBSET (1..n) |-> s \ {Max(s)}],
                   [s \in SUBSET (1..n) |-> Cardinality(s)])
<1>1. IsFiniteSet(1..n)
  BY FS_Interval
<1>2. \A s \in SUBSET (1..n) : IsFiniteSet(s) /\ Cardinality(s) \in Nat
  BY <1>1, FS_Subset, FS_CardinalityType
<1>3. ASSUME NEW s \in SUBSET (1..n), s # {}
      PROVE  s \ {Max(s)} \in SUBSET (1..n) /\ Cardinality(s \ {Max(s)}) < Cardinality(s)
  <2>1. Max(s) \in s
    BY <1>3, GreatestPosition
  <2>2. IsFiniteSet(s) /\ Cardinality(s) \in Nat
    BY <1>2
  <2> DEFINE x == Max(s)
  <2>3. x \in s
    BY <2>1
  <2> HIDE DEF x
  <2>4. Cardinality(s \ {x}) = Cardinality(s) - 1
    BY <2>2, <2>3, FS_RemoveElement
  <2>5. Cardinality(s \ {x}) < Cardinality(s)
    BY <2>2, <2>4
  <2>6. s \ {x} \in SUBSET (1..n)
    BY Zenon
  <2> QED BY <2>5, <2>6 DEF x
<1> QED BY <1>2, <1>3 DEF Chained

\* The steps of a fold over n elements from c on, and the recursive function that FoldLeft is.
Folds(f, h, n, C, c, g) ==
    /\ f \in [0..n -> C] /\ f[0] = c /\ \A i \in 1..n : f[i] = g[i][f[i - 1]]
    /\ h \in [SUBSET (1..n) -> C]
    /\ \A s \in SUBSET (1..n) : h[s] = IF s = {} THEN c ELSE g[Max(s)][h[s \ {Max(s)}]]
    /\ h[1..n] = f[n]

LEMMA FoldSteps ==
    ASSUME NEW n \in Nat, NEW C, NEW c \in C, NEW g \in [1..n -> [C -> C]]
    PROVE  \E f, h : Folds(f, h, n, C, c, g)
<1> DEFINE N == SUBSET (1..n)
           below == [s \in N |-> s \ {Max(s)}]
           rank == [s \in N |-> Cardinality(s)]
           up == [s \in N |-> IF s = {} THEN [x \in C |-> x] ELSE g[Max(s)]]
<1>1. Chained(N, {}, below, rank)
  BY PositionsAreChained
<1>2. up \in [N -> [C -> C]]
  BY GreatestPosition
<1>3. PICK h : GoesUp(h, N, C, {}, c, below, up)
  <2> HIDE DEF N, below, rank, up
  <2> QED BY <1>1, <1>2, ChainRecursion
<1>4. /\ h \in [N -> C]
      /\ \A s \in N : h[s] = IF s = {} THEN c ELSE g[Max(s)][h[s \ {Max(s)}]]
  BY <1>3 DEF GoesUp
<1> DEFINE f == [i \in 0..n |-> h[1..i]]
<1>5. \A i \in 0..n : 1..i \in N
  OBVIOUS
<1>6. f \in [0..n -> C] /\ f[0] = c
  <2>1. \A i \in 0..n : h[1..i] \in C
    BY <1>4, <1>5
  <2>2. 1..0 = {} /\ 0 \in 0..n
    OBVIOUS
  <2>3. h[1..0] = c
    BY <1>4, <1>5, <2>2
  <2> QED BY <2>1, <2>2, <2>3
<1>7. ASSUME NEW i \in 1..n
      PROVE  f[i] = g[i][f[i - 1]]
  <2>1. Max(1..i) = i
    <3>1. 1..i \in SUBSET (1..n) /\ 1..i # {}
      OBVIOUS
    <3>2. Max(1..i) \in 1..i /\ \A j \in 1..i : Max(1..i) >= j
      BY <3>1, GreatestPosition
    <3> QED BY <3>2
  <2>2. (1..i) \ {i} = 1..(i - 1)
    OBVIOUS
  <2>3. h[1..i] = g[i][h[1..(i - 1)]]
    <3> DEFINE s == 1..i
    <3>1. s \in N /\ s # {}
      OBVIOUS
    <3>2. h[s] = g[Max(s)][h[s \ {Max(s)}]]
      <4> HIDE DEF s, N
      <4> QED BY <1>4, <3>1
    <3> QED BY <3>2, <2>1, <2>2
  <2> QED BY <2>3
<1> HIDE DEF f
<1>8. f[n] = h[1..n]
  BY DEF f
<1> QED BY <1>4, <1>6, <1>7, <1>8 DEF Folds

\* Two functions that go the same way down the sets of positions are the same.
LEMMA FoldIsUnique ==
    ASSUME NEW n \in Nat, NEW h, NEW k, h[{}] = k[{}],
           \A s \in SUBSET (1..n) : s # {} /\ h[s \ {Max(s)}] = k[s \ {Max(s)}] => h[s] = k[s]
    PROVE  h[1..n] = k[1..n]
<1> DEFINE N == SUBSET (1..n)
           below == [s \in N |-> s \ {Max(s)}]
           rank == [s \in N |-> Cardinality(s)]
           P == {s \in N : h[s] = k[s]}
<1>1. Chained(N, {}, below, rank)
  BY PositionsAreChained
<1>2. {} \in P /\ {} \in N
  OBVIOUS
<1>3. \A s \in N \ {{}} : below[s] \in P => s \in P
  OBVIOUS
<1>4. N \subseteq P
  <2> HIDE DEF N, below, rank, P
  <2> QED BY <1>1, <1>2, <1>3, ChainInduction
<1>5. 1..n \in P
  BY <1>4
<1> QED BY <1>5

\* Induction over the steps of a fold, for a property given as the set of the positions it holds at.
LEMMA StepInduction ==
    ASSUME NEW n \in Nat, NEW P, 0 \in P, \A i \in 1..n : i - 1 \in P => i \in P
    PROVE  0..n \subseteq P
<1> DEFINE bad == {i \in 0..n : i \notin P}
<1>1. SUFFICES ASSUME bad # {} PROVE FALSE
  OBVIOUS
<1>2. PICK i \in bad : \A j \in bad : i <= j
  <2>1. bad \in SUBSET Nat
    OBVIOUS
  <2> HIDE DEF bad
  <2> QED BY <1>1, <2>1, LeastNat
<1>3. i \in 1..n /\ i - 1 \in 0..n /\ i - 1 \notin bad
  BY <1>2
<1> QED BY <1>2, <1>3

-----------------------------------------------------------------------------
\* Array.prototype.splice(i, 0, e): the elements from position i on move up.
LEMMA InsertAtFacts ==
    ASSUME NEW S, NEW s \in Seq(S), NEW e \in S, NEW i \in 1..(Len(s) + 1)
    PROVE  /\ InsertAt(s, i, e) \in Seq(S)
           /\ Len(InsertAt(s, i, e)) = Len(s) + 1
           /\ \A j \in 1..(Len(s) + 1) :
                InsertAt(s, i, e)[j] = IF j < i THEN s[j] ELSE IF j = i THEN e ELSE s[j - 1]
<1> DEFINE a == SubSeq(s, 1, i - 1)
           b == SubSeq(s, i, Len(s))
           c == <<e>>
<1>0. Len(s) \in Nat /\ i \in Nat
  OBVIOUS
<1>1. a \in Seq(S) /\ Len(a) = i - 1 /\ \A j \in 1..(i - 1) : a[j] = s[j]
  OBVIOUS
<1>2. b \in Seq(S) /\ Len(b) = Len(s) + 1 - i /\ \A j \in 1..(Len(s) + 1 - i) : b[j] = s[i + j - 1]
  OBVIOUS
<1>3. c \in Seq(S) /\ Len(c) = 1 /\ c[1] = e
  OBVIOUS
<1> HIDE DEF a, b, c
<1>4. a \o c \in Seq(S) /\ Len(a \o c) = i /\ \A j \in 1..i : (a \o c)[j] = IF j < i THEN s[j] ELSE e
  <2>1. a \o c \in Seq(S) /\ Len(a \o c) = Len(a) + Len(c)
    BY <1>1, <1>3, ConcatProperties
  <2>2. ASSUME NEW j \in 1..i PROVE (a \o c)[j] = IF j < i THEN s[j] ELSE e
    <3>1. CASE j < i
      BY <1>1, <1>3, <3>1, ConcatProperties
    <3>2. CASE j = i
      <4>1. (a \o c)[i] = c[i - Len(a)]
        BY <1>1, <1>3, ConcatProperties
      <4>2. i - Len(a) = 1
        BY <1>0, <1>1
      <4>3. (a \o c)[j] = e
        BY <4>1, <4>2, <1>3, <3>2
      <4>4. ~(j < i)
        BY <1>0, <3>2
      <4> QED BY <4>3, <4>4, Zenon
    <3>3. j < i \/ j = i
      BY <1>0
    <3> QED BY <3>1, <3>2, <3>3, Zenon
  <2> QED BY <1>1, <1>3, <2>1, <2>2
<1> DEFINE d == a \o c
<1>5. d \in Seq(S) /\ Len(d) = i /\ \A j \in 1..i : d[j] = IF j < i THEN s[j] ELSE e
  BY <1>4
<1> HIDE DEF d
<1>6. d \o b \in Seq(S) /\ Len(d \o b) = Len(s) + 1
  <2>1. d \o b \in Seq(S) /\ Len(d \o b) = Len(d) + Len(b)
    BY <1>5, <1>2, ConcatProperties
  <2> QED BY <2>1, <1>5, <1>2
<1>7. ASSUME NEW j \in 1..(Len(s) + 1)
      PROVE  (d \o b)[j] = IF j < i THEN s[j] ELSE IF j = i THEN e ELSE s[j - 1]
  <2>1. CASE j <= i
    BY <1>2, <1>5, <2>1, ConcatProperties
  <2>2. CASE j > i
    <3>1. (d \o b)[j] = b[j - i]
      BY <1>2, <1>5, <2>2, ConcatProperties
    <3>2. b[j - i] = s[i + (j - i) - 1]
      BY <1>2, <2>2
    <3> QED BY <3>1, <3>2, <2>2, <1>0
  <2>3. j <= i \/ j > i
    BY <1>0
  <2> QED BY <2>1, <2>2, <2>3, Zenon
<1>8. InsertAt(s, i, e) = d \o b
  BY DEF InsertAt, a, b, c, d
<1> QED BY <1>6, <1>7, <1>8

-----------------------------------------------------------------------------
\* The positions of an element in a sequence.
Positions(s, x) == {i \in DOMAIN s : s[i] = x}

\* There are finitely many of them, none if the element does not occur.
LEMMA PositionsFacts ==
    ASSUME NEW S, NEW s \in Seq(S), NEW x
    PROVE  /\ Positions(s, x) \in SUBSET (1..Len(s)) /\ IsFiniteSet(Positions(s, x))
           /\ Cardinality(Positions(s, x)) \in Nat
           /\ Cardinality(Positions(s, x)) <= Len(s)
           /\ Cardinality(Positions(s, x)) = 0 <=> x \notin ToSet(s)
<1>1. Len(s) \in Nat /\ DOMAIN s = 1..Len(s)
  OBVIOUS
<1>2. IsFiniteSet(1..Len(s)) /\ Cardinality(1..Len(s)) = Len(s)
  BY <1>1, FS_Interval
<1>3. Positions(s, x) \in SUBSET (1..Len(s))
  BY <1>1 DEF Positions
<1>4. IsFiniteSet(Positions(s, x)) /\ Cardinality(Positions(s, x)) <= Len(s)
  BY <1>2, <1>3, FS_Subset
<1>5. Cardinality(Positions(s, x)) \in Nat
  BY <1>4, FS_CardinalityType
<1>6. Positions(s, x) = {} <=> x \notin ToSet(s)
  BY DEF Positions, ToSet
<1>7. Cardinality(Positions(s, x)) = 0 <=> Positions(s, x) = {}
  BY <1>4, FS_EmptySet
<1> QED BY <1>3, <1>4, <1>5, <1>6, <1>7

\* An element that is taken out occurs once less, the others as often as before.
LEMMA PositionsAfterRemoval ==
    ASSUME NEW S, NEW s \in Seq(S), NEW k \in 1..Len(s), NEW x
    PROVE  Cardinality(Positions(RemoveAt(s, k), x)) =
             IF x = s[k] THEN Cardinality(Positions(s, x)) - 1 ELSE Cardinality(Positions(s, x))
<1> DEFINE r == RemoveAt(s, k)
           P == Positions(r, x)
           Q == Positions(s, x) \ {k}
           f == [j \in P |-> IF j < k THEN j ELSE j + 1]
           g == [j \in Q |-> IF j < k THEN j ELSE j - 1]
<1>1. /\ r \in Seq(S) /\ Len(r) = Len(s) - 1
      /\ \A j \in 1..(Len(s) - 1) : r[j] = IF j < k THEN s[j] ELSE s[j + 1]
  BY RemoveAtFacts
<1>2. Len(s) \in Nat /\ k \in Nat /\ DOMAIN s = 1..Len(s) /\ DOMAIN r = 1..(Len(s) - 1)
  BY <1>1
<1> HIDE DEF r
<1>3. /\ P = {j \in 1..(Len(s) - 1) : r[j] = x}
      /\ Q = {j \in 1..Len(s) : s[j] = x /\ j # k}
  BY <1>2 DEF Positions
<1>4. ASSUME NEW j \in P PROVE f[j] \in Q /\ (j < k => f[j] = j) /\ (~(j < k) => f[j] = j + 1)
  <2> HIDE DEF P, Q
  <2>1. CASE j < k
    BY <2>1, <1>1, <1>2, <1>3
  <2>2. CASE ~(j < k)
    BY <2>2, <1>1, <1>2, <1>3
  <2> QED BY <2>1, <2>2
<1>5. ASSUME NEW j \in Q PROVE \E i \in P : f[i] = j
  <2> HIDE DEF P, Q
  <2>1. CASE j < k
    <3>1. j \in P
      BY <2>1, <1>1, <1>2, <1>3
    <3> QED BY <3>1, <2>1
  <2>2. CASE ~(j < k)
    <3>1. j - 1 \in P /\ ~(j - 1 < k)
      BY <2>2, <1>1, <1>2, <1>3
    <3>2. f[j - 1] = j
      BY <3>1, <1>2, <1>3
    <3> QED BY <3>1, <3>2
  <2> QED BY <2>1, <2>2
<1>6. f \in Bijection(P, Q)
  <2>1. f \in [P -> Q]
    BY <1>4
  <2>2. \A i, j \in P : f[i] = f[j] => i = j
    <3>1. \A j \in P : j \in Int
      BY <1>3
    <3> HIDE DEF f, P, Q
    <3> QED BY <1>2, <1>4, <3>1
  <2>3. \A j \in Q : \E i \in P : f[i] = j
    BY <1>5
  <2> HIDE DEF f, P, Q
  <2> QED BY <2>1, <2>2, <2>3 DEF Bijection, Injection, Surjection, IsInjective
<1>7. IsFiniteSet(P) /\ IsFiniteSet(Positions(s, x)) /\ Cardinality(Positions(s, x)) \in Nat
  BY <1>1, PositionsFacts
<1>8. Cardinality(Q) = Cardinality(P)
  <2> HIDE DEF f, P, Q
  <2> QED BY <1>6, <1>7, FS_Bijection DEF ExistsBijection
<1>9. Cardinality(Q) = IF k \in Positions(s, x) THEN Cardinality(Positions(s, x)) - 1
                       ELSE Cardinality(Positions(s, x))
  BY <1>7, FS_RemoveElement
<1>10. k \in Positions(s, x) <=> x = s[k]
  BY <1>2 DEF Positions
<1> QED BY <1>8, <1>9, <1>10 DEF r

\* An element that is put in occurs once more.
LEMMA PositionsAfterInsertion ==
    ASSUME NEW S, NEW s \in Seq(S), NEW e \in S, NEW k \in 1..(Len(s) + 1), NEW x
    PROVE  Cardinality(Positions(InsertAt(s, k, e), x)) =
             IF x = e THEN Cardinality(Positions(s, x)) + 1 ELSE Cardinality(Positions(s, x))
<1> DEFINE r == InsertAt(s, k, e)
           t == RemoveAt(r, k)
<1>1. /\ r \in Seq(S) /\ Len(r) = Len(s) + 1
      /\ \A j \in 1..(Len(s) + 1) : r[j] = IF j < k THEN s[j] ELSE IF j = k THEN e ELSE s[j - 1]
  BY InsertAtFacts
<1>2. Len(s) \in Nat /\ k \in Nat /\ k \in 1..Len(r)
  BY <1>1
<1> HIDE DEF r
<1>3. /\ t \in Seq(S) /\ Len(t) = Len(s)
      /\ \A j \in 1..Len(s) : t[j] = IF j < k THEN r[j] ELSE r[j + 1]
  <2>1. /\ t \in Seq(S) /\ Len(t) = Len(r) - 1
        /\ \A j \in 1..(Len(r) - 1) : t[j] = IF j < k THEN r[j] ELSE r[j + 1]
    BY <1>1, <1>2, RemoveAtFacts
  <2> HIDE DEF t
  <2> QED BY <2>1, <1>1, <1>2
<1>4. Cardinality(Positions(t, x)) =
        IF x = r[k] THEN Cardinality(Positions(r, x)) - 1 ELSE Cardinality(Positions(r, x))
  BY <1>1, <1>2, PositionsAfterRemoval
<1> HIDE DEF t
<1>5. \A j \in 1..Len(s) : t[j] = s[j]
  <2> TAKE j \in 1..Len(s)
  <2>1. CASE j < k
    BY <1>1, <1>2, <1>3, <2>1
  <2>2. CASE ~(j < k)
    <3>1. j + 1 \in 1..(Len(s) + 1) /\ ~(j + 1 < k) /\ j + 1 # k /\ (j + 1) - 1 = j
      BY <1>2, <2>2
    <3> QED BY <1>1, <1>3, <2>2, <3>1
  <2> QED BY <2>1, <2>2
<1>6. t = s
  BY <1>3, <1>5, SeqEqual
<1>7. r[k] = e
  BY <1>1, <1>2
<1>8. Cardinality(Positions(r, x)) \in Nat
  BY <1>1, PositionsFacts
<1> QED BY <1>4, <1>6, <1>7, <1>8 DEF r

\* A set of positions that has all positions before one of its own is an initial segment.
LEMMA InitialPositions ==
    ASSUME NEW n \in Nat, NEW P \in SUBSET (1..n), \A i \in P : \A j \in 1..i : j \in P
    PROVE  P = 1..Cardinality(P) /\ Cardinality(P) \in 0..n
<1>1. CASE P = {}
  BY <1>1, FS_EmptySet
<1>2. CASE P # {}
  <2> DEFINE m == Max(P)
  <2>1. m \in P /\ \A i \in P : m >= i
    BY <1>2, GreatestPosition
  <2> HIDE DEF m
  <2>2. m \in 1..n /\ \A j : j \in P <=> j \in 1..m
    <3>1. m \in 1..n
      BY <2>1
    <3>2. ASSUME NEW j \in P PROVE j \in 1..m
      <4>1. j \in 1..n /\ m >= j
        BY <2>1
      <4> QED BY <3>1, <4>1
    <3>3. \A j \in 1..m : j \in P
      BY <2>1
    <3> QED BY <3>1, <3>2, <3>3
  <2>3. Cardinality(1..m) = m
    BY <2>2, FS_Interval
  <2>4. P = 1..m
    BY <2>2
  <2> QED BY <2>2, <2>3, <2>4
<1> QED BY <1>1, <1>2

\* No element is greater than a later one.
Nondecreasing(s) == \A i, j \in DOMAIN s : i < j => s[i] <= s[j]

\* A list that an element is taken out of stays in order.
LEMMA RemovalKeepsOrder ==
    ASSUME NEW S \in SUBSET Int, NEW s \in Seq(S), Nondecreasing(s), NEW k \in 1..Len(s)
    PROVE  Nondecreasing(RemoveAt(s, k))
<1> DEFINE r == RemoveAt(s, k)
<1>1. /\ r \in Seq(S) /\ Len(r) = Len(s) - 1
      /\ \A j \in 1..(Len(s) - 1) : r[j] = IF j < k THEN s[j] ELSE s[j + 1]
  BY RemoveAtFacts
<1>2. Len(s) \in Nat /\ DOMAIN s = 1..Len(s) /\ DOMAIN r = 1..(Len(s) - 1) /\ k \in Nat
  BY <1>1
<1> HIDE DEF r
<1>3. \A i, j \in 1..Len(s) : i < j => s[i] <= s[j]
  BY <1>2 DEF Nondecreasing
<1>4. ASSUME NEW i \in 1..(Len(s) - 1), NEW j \in 1..(Len(s) - 1), i < j PROVE r[i] <= r[j]
  <2>1. PICK a \in 1..Len(s) : r[i] = s[a] /\ a = IF i < k THEN i ELSE i + 1
    <3>1. i \in 1..Len(s) /\ i + 1 \in 1..Len(s)
      BY <1>2
    <3> QED BY <1>1, <3>1
  <2>2. PICK b \in 1..Len(s) : r[j] = s[b] /\ b = IF j < k THEN j ELSE j + 1
    <3>1. j \in 1..Len(s) /\ j + 1 \in 1..Len(s)
      BY <1>2
    <3> QED BY <1>1, <3>1
  <2>3. a < b
    BY <1>2, <1>4, <2>1, <2>2
  <2> QED BY <1>3, <2>1, <2>2, <2>3
<1>5. Nondecreasing(r)
  BY <1>2, <1>4 DEF Nondecreasing
<1> QED BY <1>5 DEF r

\* SortedList.add: an element goes behind the lesser ones, and the list stays in order.
LEMMA InsertionKeepsOrder ==
    ASSUME NEW S \in SUBSET Int, NEW s \in Seq(S), Nondecreasing(s), NEW e \in S
    PROVE  /\ 1 + Cardinality({i \in DOMAIN s : s[i] < e}) \in 1..(Len(s) + 1)
           /\ Nondecreasing(InsertAt(s, 1 + Cardinality({i \in DOMAIN s : s[i] < e}), e))
<1> DEFINE P == {i \in DOMAIN s : s[i] < e}
           k == 1 + Cardinality(P)
           r == InsertAt(s, k, e)
<1>1. /\ Len(s) \in Nat /\ DOMAIN s = 1..Len(s) /\ e \in Int
      /\ \A i \in 1..Len(s) : s[i] \in Int
  <2> HIDE DEF P, k, r
  <2>1. Len(s) \in Nat /\ DOMAIN s = 1..Len(s) /\ \A i \in 1..Len(s) : s[i] \in S
    OBVIOUS
  <2> QED BY <2>1
<1>2. \A i, j \in 1..Len(s) : i < j => s[i] <= s[j]
  BY <1>1 DEF Nondecreasing
<1>3. P = 1..Cardinality(P) /\ Cardinality(P) \in 0..Len(s)
  <2>1. P \in SUBSET (1..Len(s))
    BY <1>1
  <2>2. ASSUME NEW i \in P, NEW j \in 1..i PROVE j \in P
    <3>1. i \in 1..Len(s) /\ j \in 1..Len(s) /\ (j < i \/ j = i)
      BY <1>1
    <3> QED BY <1>1, <1>2, <2>2, <3>1
  <2> HIDE DEF P
  <2> QED BY <1>1, <2>1, <2>2, InitialPositions
<1>4. k \in 1..(Len(s) + 1)
  BY <1>1, <1>3
<1>5. \A i \in 1..Len(s) : s[i] < e <=> i < k
  <2>1. \A i \in 1..Len(s) : s[i] < e <=> i \in P
    BY <1>1
  <2> HIDE DEF P
  <2> QED BY <1>1, <1>3, <2>1
<1> HIDE DEF k, P
<1>6. /\ r \in Seq(S) /\ Len(r) = Len(s) + 1
      /\ \A j \in 1..(Len(s) + 1) : r[j] = IF j < k THEN s[j] ELSE IF j = k THEN e ELSE s[j - 1]
  BY <1>4, InsertAtFacts
<1> HIDE DEF r
<1>7. ASSUME NEW i \in 1..(Len(s) + 1), NEW j \in 1..(Len(s) + 1), i < j PROVE r[i] <= r[j]
  <2>0. k \in Int
    BY <1>1, <1>4
  <2>1. CASE j < k
    <3>1. i \in 1..Len(s) /\ j \in 1..Len(s) /\ i < k
      BY <1>1, <1>4, <1>7, <2>1
    <3> QED BY <1>2, <1>6, <1>7, <2>1, <3>1
  <2>2. CASE j = k
    <3>1. i \in 1..Len(s) /\ i < k
      BY <1>1, <1>4, <1>7, <2>2
    <3>2. r[i] = s[i] /\ r[j] = e
      BY <1>6, <2>0, <2>2, <3>1
    <3> QED BY <1>1, <1>5, <3>1, <3>2
  <2>3. CASE j > k
    <3>1. j - 1 \in 1..Len(s) /\ ~(j < k) /\ j # k /\ r[j] = s[j - 1] /\ ~(j - 1 < k)
      BY <1>1, <1>4, <1>6, <2>0, <2>3
    <3>2. CASE i < k
      <4>1. i \in 1..Len(s) /\ r[i] = s[i] /\ i < j - 1
        BY <1>1, <1>4, <1>6, <2>0, <2>3, <3>2
      <4> QED BY <1>2, <3>1, <4>1
    <3>3. CASE i = k
      <4>1. r[i] = e
        BY <1>6, <2>0, <3>3
      <4> QED BY <1>1, <1>5, <3>1, <4>1
    <3>4. CASE i > k
      <4>1. i - 1 \in 1..Len(s) /\ r[i] = s[i - 1] /\ i - 1 < j - 1
        BY <1>1, <1>4, <1>6, <1>7, <2>0, <3>4
      <4> QED BY <1>2, <3>1, <4>1
    <3> QED BY <2>0, <3>2, <3>3, <3>4
  <2> QED BY <2>0, <2>1, <2>2, <2>3
<1>8. Nondecreasing(r)
  <2>1. DOMAIN r = 1..(Len(s) + 1)
    BY <1>1, <1>6
  <2> QED BY <1>7, <2>1 DEF Nondecreasing
<1> QED BY <1>4, <1>8 DEF r, k, P

\* Ascending lists a finite set of integers: the ranks of its members are 1 to their number.
LEMMA AscendingFacts ==
    ASSUME NEW S \in SUBSET Int, IsFiniteSet(S)
    PROVE  /\ Ascending(S) \in Seq(S) /\ Len(Ascending(S)) = Cardinality(S)
           /\ DOMAIN Ascending(S) = 1..Cardinality(S) /\ Cardinality(S) \in Nat
           /\ \A i, j \in 1..Cardinality(S) : i < j <=> Ascending(S)[i] < Ascending(S)[j]
           /\ \A i, j \in 1..Cardinality(S) : Ascending(S)[i] = Ascending(S)[j] => i = j
           /\ \A k \in S : \E i \in 1..Cardinality(S) : Ascending(S)[i] = k
           /\ ToSet(Ascending(S)) = S
<1> DEFINE n == Cardinality(S)
           below == [k \in S |-> {l \in S : l <= k}]
           rank == [k \in S |-> Cardinality(below[k])]
<1>1. n \in Nat /\ S \subseteq Int
  BY FS_CardinalityType
<1>2. \A k \in S : below[k] \in SUBSET S /\ IsFiniteSet(below[k]) /\ rank[k] \in 1..n
  <2>1. ASSUME NEW k \in S PROVE below[k] \in SUBSET S /\ k \in below[k]
    BY <1>1
  <2>2. ASSUME NEW k \in S
        PROVE  IsFiniteSet(below[k]) /\ Cardinality(below[k]) \in 1..n
    <3> DEFINE b == below[k]
    <3>1. b \in SUBSET S /\ b # {}
      BY <2>1
    <3> HIDE DEF b
    <3>2. IsFiniteSet(b) /\ Cardinality(b) <= n /\ Cardinality(b) \in Nat /\ Cardinality(b) # 0
      BY <3>1, FS_Subset, FS_CardinalityType, FS_EmptySet
    <3>3. IsFiniteSet(b) /\ Cardinality(b) \in 1..n
      BY <3>2, <1>1
    <3> QED BY <3>3 DEF b
  <2> QED BY <2>1, <2>2
<1>3. ASSUME NEW k \in S, NEW m \in S, k < m PROVE rank[k] < rank[m]
  <2>1. below[k] \in SUBSET below[m] /\ m \in below[m] /\ m \notin below[k]
    <3>1. k \in Int /\ m \in Int /\ \A l \in S : l \in Int
      BY <1>1
    <3>2. \A l \in S : l <= k => l <= m
      BY <3>1, <1>3
    <3>3. m <= m /\ ~(m <= k)
      BY <3>1, <1>3
    <3>4. \A l : l \in below[k] => l \in below[m]
      BY <3>2
    <3>5. m \in below[m] /\ m \notin below[k]
      BY <3>3
    <3> HIDE DEF below
    <3> QED BY <3>4, <3>5
  <2>2. Cardinality(below[k]) <= Cardinality(below[m]) /\ Cardinality(below[k]) # Cardinality(below[m])
    <3> HIDE DEF below
    <3>1. IsFiniteSet(below[m])
      BY <1>2
    <3> QED BY <2>1, <3>1, FS_Subset
  <2>3. rank[k] \in Nat /\ rank[m] \in Nat
    BY <1>1, <1>2
  <2> QED BY <2>2, <2>3
<1>4. \A k, m \in S : (rank[k] = rank[m] => k = m) /\ (rank[k] < rank[m] <=> k < m)
  <2>1. \A k, m \in S : k \in Int /\ m \in Int /\ rank[k] \in Nat /\ (k < m \/ k = m \/ m < k)
    BY <1>1, <1>2
  <2> HIDE DEF rank
  <2> QED BY <2>1, <1>3
<1>5. \A i \in 1..n : \E k \in S : rank[k] = i
  <2>1. rank \in [S -> 1..n]
    BY <1>2
  <2>2. rank \in Injection(S, 1..n)
    <3> HIDE DEF rank
    <3> QED BY <2>1, <1>4 DEF Injection, IsInjective
  <2>3. IsFiniteSet(1..n) /\ Cardinality(1..n) = n
    <3> HIDE DEF n
    <3> QED BY <1>1, FS_Interval
  <2>4. rank \in Surjection(S, 1..n)
    <3> HIDE DEF rank
    <3> QED BY <2>2, <2>3, FS_Injection
  <2> HIDE DEF rank
  <2> QED BY <2>4 DEF Surjection
<1> DEFINE r == Ascending(S)
<1>6. DOMAIN r = 1..n /\ r = [i \in DOMAIN r |-> r[i]]
  BY SMTT(20) DEF Ascending
<1>7. \A i \in 1..n : r[i] \in S /\ rank[r[i]] = i
  <2>1. \A k \in S : rank[k] = Cardinality({l \in S : l <= k})
    OBVIOUS
  <2>2. ASSUME NEW i \in 1..n PROVE r[i] = CHOOSE k \in S : Cardinality({l \in S : l <= k}) = i
    BY DEF Ascending
  <2>3. ASSUME NEW i \in 1..n PROVE \E k \in S : Cardinality({l \in S : l <= k}) = i
    <3> HIDE DEF rank
    <3> QED BY <1>5, <2>1
  <2>4. ASSUME NEW i \in 1..n PROVE r[i] \in S /\ Cardinality({l \in S : l <= r[i]}) = i
    <3> HIDE DEF r
    <3> QED BY <2>2, <2>3
  <2> HIDE DEF rank, r
  <2> QED BY <2>1, <2>4
<1>8. r \in Seq(S) /\ Len(r) = n /\ DOMAIN r = 1..n
  <2>1. r \in [1..n -> S]
    <3> HIDE DEF r
    <3> QED BY <1>6, <1>7
  <2> HIDE DEF r, n
  <2> QED BY <2>1, <1>1
<1>9. \A k \in S : rank[k] \in 1..n
  BY <1>2
<1> HIDE DEF r, n, rank
<1>10. \A i, j \in 1..n : (i < j <=> r[i] < r[j]) /\ (r[i] = r[j] => i = j)
  <2> TAKE i, j \in 1..n
  <2>1. r[i] \in S /\ r[j] \in S /\ rank[r[i]] = i /\ rank[r[j]] = j
    BY <1>7
  <2>2. rank[r[i]] < rank[r[j]] <=> r[i] < r[j]
    BY <1>4, <2>1
  <2> QED BY <2>1, <2>2
<1>11. \A k \in S : rank[k] \in 1..n /\ r[rank[k]] = k
  BY <1>4, <1>7, <1>9
<1>12. ToSet(r) = S
  <2>1. ToSet(r) = {r[i] : i \in 1..n}
    BY <1>8 DEF ToSet
  <2> QED BY <2>1, <1>7, <1>11
<1> QED BY <1>1, <1>8, <1>10, <1>11, <1>12 DEF r, n

-----------------------------------------------------------------------------
\* Each element comes before each later one under the relation R.
Rising(s, R) == \A i, j \in DOMAIN s : i < j => <<s[i], s[j]>> \in R

Asymmetric(R) == \A x, y : <<x, y>> \in R => <<y, x>> \notin R

\* There is one way to list a set in the order of an asymmetric relation.
LEMMA RisingIsUnique ==
    ASSUME NEW S, NEW R, Asymmetric(R), NEW s \in Seq(S), NEW t \in Seq(S), Rising(s, R), Rising(t, R),
           ToSet(s) = ToSet(t)
    PROVE  s = t
<1>1. /\ Len(s) \in Nat /\ DOMAIN s = 1..Len(s) /\ Len(t) \in Nat /\ DOMAIN t = 1..Len(t)
      /\ \A i \in 1..Len(s) : \E j \in 1..Len(t) : s[i] = t[j]
      /\ \A i \in 1..Len(t) : \E j \in 1..Len(s) : t[i] = s[j]
  <2>1. Len(s) \in Nat /\ DOMAIN s = 1..Len(s) /\ Len(t) \in Nat /\ DOMAIN t = 1..Len(t)
    OBVIOUS
  <2>2. {s[i] : i \in 1..Len(s)} = {t[i] : i \in 1..Len(t)}
    BY <2>1 DEF ToSet
  <2> QED BY <2>1, <2>2
<1>2. /\ \A i, j \in 1..Len(s) : i < j => <<s[i], s[j]>> \in R
      /\ \A i, j \in 1..Len(t) : i < j => <<t[i], t[j]>> \in R
  BY <1>1 DEF Rising
<1>3. \A x : <<x, x>> \notin R
  BY DEF Asymmetric
<1> DEFINE bad == {i \in (1..Len(s)) \cap (1..Len(t)) : s[i] # t[i]}
<1>4. bad = {}
  <2>1. SUFFICES ASSUME bad # {} PROVE FALSE
    OBVIOUS
  <2>2. PICK i \in bad : \A j \in bad : i <= j
    <3>1. bad \in SUBSET Nat
      OBVIOUS
    <3> HIDE DEF bad
    <3> QED BY <2>1, <3>1, LeastNat
  <2>3. /\ i \in 1..Len(s) /\ i \in 1..Len(t) /\ s[i] # t[i]
        /\ \A j \in 1..Len(s) : j \in 1..Len(t) /\ s[j] # t[j] => i <= j
    BY <2>2
  <2> HIDE DEF bad
  <2>4. PICK j \in 1..Len(t) : s[i] = t[j]
    BY <1>1, <2>3
  <2>5. PICK k \in 1..Len(s) : t[i] = s[k]
    BY <1>1, <2>3
  <2>6. i < j
    <3>1. CASE j < i
      <4>1. j \in 1..Len(s) /\ ~(i <= j)
        BY <1>1, <2>3, <3>1
      <4>2. s[j] = t[j] /\ <<s[j], s[i]>> \in R
        BY <1>2, <2>3, <3>1, <4>1
      <4> QED BY <1>3, <2>4, <4>2
    <3>2. j # i
      BY <2>3, <2>4
    <3> QED BY <1>1, <2>3, <3>1, <3>2
  <2>7. i < k
    <3>1. CASE k < i
      <4>1. k \in 1..Len(t) /\ ~(i <= k)
        BY <1>1, <2>3, <3>1
      <4>2. s[k] = t[k] /\ <<t[k], t[i]>> \in R
        BY <1>2, <2>3, <3>1, <4>1
      <4> QED BY <1>3, <2>5, <4>2
    <3>2. k # i
      BY <2>3, <2>5
    <3> QED BY <1>1, <2>3, <3>1, <3>2
  <2>8. <<s[i], s[k]>> \in R /\ <<t[i], t[j]>> \in R
    BY <1>2, <2>3, <2>6, <2>7
  <2> QED BY <2>4, <2>5, <2>8 DEF Asymmetric
<1>5. \A i \in 1..Len(s) : i \in 1..Len(t) => s[i] = t[i]
  BY <1>4
<1> HIDE DEF bad
<1>6. Len(s) = Len(t)
  <2>0. Len(s) \in Nat /\ Len(t) \in Nat
    BY <1>1
  <2>1. CASE Len(s) < Len(t)
    <3>1. Len(s) + 1 \in 1..Len(t)
      BY <1>1, <2>1
    <3>2. PICK j \in 1..Len(s) : t[Len(s) + 1] = s[j]
      BY <1>1, <3>1
    <3>3. j \in 1..Len(t) /\ j < Len(s) + 1
      BY <1>1, <2>1
    <3>4. s[j] = t[j] /\ <<t[j], t[Len(s) + 1]>> \in R
      BY <1>2, <1>5, <3>1, <3>3
    <3> QED BY <1>3, <3>2, <3>4
  <2>2. CASE Len(t) < Len(s)
    <3>1. Len(t) + 1 \in 1..Len(s)
      BY <1>1, <2>2
    <3>2. PICK j \in 1..Len(t) : s[Len(t) + 1] = t[j]
      BY <1>1, <3>1
    <3>3. j \in 1..Len(s) /\ j < Len(t) + 1
      BY <1>1, <2>2
    <3>4. s[j] = t[j] /\ <<s[j], s[Len(t) + 1]>> \in R
      BY <1>2, <1>5, <3>1, <3>3
    <3> QED BY <1>3, <3>2, <3>4
  <2> QED BY <2>0, <2>1, <2>2
<1>7. \A i \in 1..Len(s) : s[i] = t[i]
  BY <1>5, <1>6
<1> QED BY <1>6, <1>7, SeqEqual

Lesser == {p \in Int \X Int : p[1] < p[2]}
Greater == {p \in Int \X Int : p[1] > p[2]}
Follows(asc) == IF asc THEN Lesser ELSE Greater

LEMMA FollowsFacts ==
    \A asc \in BOOLEAN : /\ Asymmetric(Follows(asc))
                         /\ \A a, b \in Int : <<a, b>> \in Follows(asc) <=> IF asc THEN a < b ELSE a > b
<1>1. \A x, y : <<x, y>> \in Lesser <=> x \in Int /\ y \in Int /\ x < y
  BY DEF Lesser
<1>2. \A x, y : <<x, y>> \in Greater <=> x \in Int /\ y \in Int /\ x > y
  BY DEF Greater
<1>3. Asymmetric(Lesser) /\ Asymmetric(Greater)
  BY <1>1, <1>2 DEF Asymmetric
<1> QED BY <1>1, <1>2, <1>3 DEF Follows

\* A sequence the other way round.
LEMMA ReverseFacts ==
    ASSUME NEW S, NEW s \in Seq(S)
    PROVE  /\ Reverse(s) \in Seq(S) /\ Len(Reverse(s)) = Len(s) /\ DOMAIN Reverse(s) = 1..Len(s)
           /\ \A i \in 1..Len(s) : Len(s) - i + 1 \in 1..Len(s) /\ Reverse(s)[i] = s[Len(s) - i + 1]
           /\ ToSet(Reverse(s)) = ToSet(s)
<1> DEFINE r == Reverse(s)
<1>1. Len(s) \in Nat /\ DOMAIN s = 1..Len(s) /\ \A i \in 1..Len(s) : s[i] \in S
  OBVIOUS
<1>2. r = [i \in 1..Len(s) |-> s[(Len(s) - i) + 1]]
  BY DEF Reverse
<1> HIDE DEF r
<1>3. \A i \in 1..Len(s) : Len(s) - i + 1 \in 1..Len(s) /\ Len(s) - (Len(s) - i + 1) + 1 = i
  BY <1>1
<1>4. r \in [1..Len(s) -> S] /\ DOMAIN r = 1..Len(s) /\ \A i \in 1..Len(s) : r[i] = s[Len(s) - i + 1]
  BY <1>1, <1>2, <1>3
<1>5. r \in Seq(S) /\ Len(r) = Len(s)
  BY <1>1, <1>4
<1>6. ToSet(r) = {r[i] : i \in 1..Len(s)} /\ ToSet(s) = {s[i] : i \in 1..Len(s)}
  BY <1>1, <1>4 DEF ToSet
<1>7. ToSet(r) = ToSet(s)
  <2>1. \A i \in 1..Len(s) : \E j \in 1..Len(s) : r[i] = s[j]
    BY <1>3, <1>4
  <2>2. \A i \in 1..Len(s) : \E j \in 1..Len(s) : s[i] = r[j]
    <3> TAKE i \in 1..Len(s)
    <3>1. Len(s) - i + 1 \in 1..Len(s) /\ Len(s) - (Len(s) - i + 1) + 1 = i
      BY <1>3
    <3> QED BY <1>4, <3>1
  <2> QED BY <1>6, <2>1, <2>2
<1> QED BY <1>3, <1>4, <1>5, <1>7 DEF r

\* A finite set of integers listed in a direction.
LEMMA DirectedFacts ==
    ASSUME NEW S \in SUBSET Int, IsFiniteSet(S), NEW asc \in BOOLEAN
    PROVE  /\ InDirection(Ascending(S), asc) \in Seq(S)
           /\ ToSet(InDirection(Ascending(S), asc)) = S
           /\ Rising(InDirection(Ascending(S), asc), Follows(asc))
<1> DEFINE a == Ascending(S)
           d == InDirection(a, asc)
           n == Cardinality(S)
<1>1. /\ a \in Seq(S) /\ Len(a) = n /\ DOMAIN a = 1..n /\ n \in Nat
      /\ (\A i, j \in 1..n : i < j <=> a[i] < a[j]) /\ ToSet(a) = S
  BY AscendingFacts
<1> HIDE DEF a, n, d
<1>2. \A i \in 1..n : a[i] \in Int
  <2>1. \A i \in 1..n : a[i] \in S
    BY <1>1
  <2> QED BY <2>1
<1>3. CASE asc
  <2>1. d = a
    BY <1>3 DEF InDirection, d
  <2>2. Rising(a, Follows(asc))
    BY <1>1, <1>2, <1>3, FollowsFacts DEF Rising
  <2> QED BY <1>1, <2>1, <2>2 DEF a, d
<1>4. CASE ~asc
  <2> DEFINE r == Reverse(a)
  <2>1. d = r
    BY <1>4 DEF InDirection, d
  <2>2. /\ r \in Seq(S) /\ DOMAIN r = 1..n /\ ToSet(r) = S
        /\ \A i \in 1..n : n - i + 1 \in 1..n /\ r[i] = a[n - i + 1]
    BY <1>1, ReverseFacts
  <2> HIDE DEF r
  <2>3. ASSUME NEW i \in 1..n, NEW j \in 1..n, i < j PROVE r[i] > r[j]
    <3>1. n - j + 1 < n - i + 1
      BY <1>1, <2>3
    <3>2. r[j] < r[i] /\ r[i] \in Int /\ r[j] \in Int
      BY <1>1, <1>2, <2>2, <3>1
    <3> QED BY <3>2
  <2>4. \A i \in 1..n : r[i] \in Int
    BY <1>2, <2>2
  <2>5. Rising(r, Follows(asc))
    BY <1>4, <2>2, <2>3, <2>4, FollowsFacts DEF Rising
  <2> QED BY <2>1, <2>2, <2>5 DEF a, d
<1> QED BY <1>3, <1>4

\* What is listed in strict order is the directed list of its elements.
LEMMA DirectedIsUnique ==
    ASSUME NEW S \in SUBSET Int, IsFiniteSet(S), NEW asc \in BOOLEAN, NEW s \in Seq(Int),
           Rising(s, Follows(asc)), ToSet(s) = S
    PROVE  s = InDirection(Ascending(S), asc)
<1> DEFINE t == InDirection(Ascending(S), asc)
<1>1. t \in Seq(S) /\ ToSet(t) = S /\ Rising(t, Follows(asc))
  BY DirectedFacts
<1> HIDE DEF t
<1>2. t \in Seq(Int) /\ ToSet(s) = ToSet(t)
  BY <1>1, SeqMonotonic
<1>3. Asymmetric(Follows(asc))
  BY FollowsFacts
<1>4. s = t
  BY <1>1, <1>2, <1>3, RisingIsUnique
<1> QED BY <1>4 DEF t

-----------------------------------------------------------------------------
\* The steps of FlattenSeq over n sequences.
Flattens(f, b, n, S) ==
    /\ f \in [0..n -> Seq(S)] /\ f[0] = <<>> /\ \A i \in 1..n : f[i] = f[i - 1] \o b[i]
    /\ f[n] = FlattenSeq(b)

LEMMA FlattenSteps ==
    ASSUME NEW S, NEW b \in Seq(Seq(S))
    PROVE  \E f : Flattens(f, b, Len(b), S)
<1> DEFINE n == Len(b)
<1>1. n \in Nat /\ DOMAIN b = 1..n /\ \A i \in 1..n : b[i] \in Seq(S)
  OBVIOUS
<1>2. <<>> \in Seq(S)
  BY EmptySeq
<1>3. CASE n = 0
  <2> DEFINE f == [i \in 0..n |-> <<>>]
  <2>1. b = <<>>
    BY <1>1, <1>3
  <2>2. FlattenSeq(b) = b
    BY <1>3 DEF FlattenSeq
  <2>3. f \in [0..n -> Seq(S)] /\ f[0] = <<>> /\ f[n] = <<>> /\ 1..n = {}
    BY <1>2, <1>3
  <2>4. Flattens(f, b, n, S)
    BY <2>1, <2>2, <2>3 DEF Flattens
  <2> QED BY <2>4
<1>4. CASE n # 0
  <2> DEFINE N == 1..n
             below == [m \in N |-> m - 1]
             rank == [m \in N |-> m]
             g == [m \in N |-> [x \in Seq(S) |-> x \o b[m]]]
  <2>1. Chained(N, 1, below, rank)
    BY <1>1, <1>4 DEF Chained
  <2>2. g \in [N -> [Seq(S) -> Seq(S)]]
    <3>1. \A m \in N : \A x \in Seq(S) : x \o b[m] \in Seq(S)
      BY <1>1, ConcatProperties
    <3> QED BY <3>1
  <2>3. b[1] \in Seq(S) /\ 1 \in N /\ n \in N
    BY <1>1, <1>4
  <2>4. PICK h : GoesUp(h, N, Seq(S), 1, b[1], below, g)
    <3> HIDE DEF N, below, rank, g
    <3> QED BY <2>1, <2>2, <2>3, ChainRecursion
  <2>5. h \in [N -> Seq(S)] /\ \A m \in N : h[m] = IF m = 1 THEN b[m] ELSE h[m - 1] \o b[m]
    <3>1. h \in [N -> Seq(S)] /\ \A m \in N : h[m] = IF m = 1 THEN b[1] ELSE g[m][h[below[m]]]
      BY <2>4 DEF GoesUp
    <3>2. ASSUME NEW m \in N, m # 1 PROVE g[m][h[below[m]]] = h[m - 1] \o b[m]
      <4>1. below[m] = m - 1 /\ m - 1 \in N
        BY <1>1, <3>2
      <4>2. h[m - 1] \in Seq(S)
        BY <3>1, <4>1
      <4> QED BY <4>1, <4>2
    <3> HIDE DEF g, below
    <3> QED BY <3>1, <3>2
  <2> HIDE DEF below, rank, g
  <2> DEFINE Eq(k) == k = [i \in N |-> IF i = 1 THEN b[i] ELSE k[i - 1] \o b[i]]
             fl == CHOOSE k : Eq(k)
  <2>6. Eq(h)
    <3>1. h = [m \in N |-> h[m]]
      BY <2>5
    <3> QED BY <2>5, <3>1
  <2>7. Eq(fl)
    <3> HIDE DEF Eq
    <3> QED BY <2>6
  <2>8. FlattenSeq(b) = fl[n]
    BY <1>4 DEF FlattenSeq
  <2> HIDE DEF fl
  <2>9. \A i \in N : fl[i] = IF i = 1 THEN b[i] ELSE fl[i - 1] \o b[i]
    <3>1. fl = [i \in N |-> IF i = 1 THEN b[i] ELSE fl[i - 1] \o b[i]]
      BY <2>7
    <3> QED BY <3>1
  <2>10. \A i \in 0..n : i \in N => fl[i] \in Seq(S)
    <3> DEFINE P == {i \in 0..n : i \in N => fl[i] \in Seq(S)}
    <3>1. 0 \in P
      BY <1>1
    <3>2. ASSUME NEW i \in 1..n, i - 1 \in P PROVE i \in P
      <4>1. CASE i = 1
        BY <1>1, <2>9, <4>1
      <4>2. CASE i # 1
        <5>1. i - 1 \in N /\ fl[i - 1] \in Seq(S) /\ i \in N /\ b[i] \in Seq(S)
          BY <1>1, <3>2, <4>2
        <5>2. fl[i] = fl[i - 1] \o b[i]
          BY <2>9, <4>2, <5>1
        <5>3. fl[i] \in Seq(S)
          BY <5>1, <5>2, ConcatProperties
        <5> QED BY <1>1, <5>3
      <4> QED BY <4>1, <4>2
    <3>3. 0..n \subseteq P
      <4> HIDE DEF P
      <4> QED BY <1>1, <3>1, <3>2, StepInduction
    <3> QED BY <3>3
  <2> DEFINE f == [i \in 0..n |-> IF i = 0 THEN <<>> ELSE fl[i]]
  <2>11. f \in [0..n -> Seq(S)]
    <3>1. \A i \in 0..n : i # 0 => i \in N
      BY <1>1
    <3> QED BY <1>2, <2>10, <3>1
  <2>12. f[0] = <<>> /\ f[n] = FlattenSeq(b)
    BY <1>1, <1>4, <2>8
  <2>13. ASSUME NEW i \in 1..n PROVE f[i] = f[i - 1] \o b[i]
    <3>1. f[i] = fl[i]
      BY <1>1
    <3>2. CASE i = 1
      <4>1. f[i - 1] = <<>> /\ f[i] = b[i] /\ b[i] \in Seq(S)
        BY <1>1, <2>9, <3>1, <3>2
      <4> QED BY <4>1, ConcatEmptySeq
    <3>3. CASE i # 1
      <4>1. f[i - 1] = fl[i - 1]
        BY <1>1, <3>3
      <4> QED BY <2>9, <3>1, <3>3, <4>1
    <3> QED BY <3>2, <3>3
  <2> HIDE DEF f
  <2>14. Flattens(f, b, n, S)
    BY <2>11, <2>12, <2>13 DEF Flattens
  <2> QED BY <2>14
<1> QED BY <1>3, <1>4

\* FlattenSeq puts the elements of its sequences, if these are in order and follow one another, in order.
LEMMA FlattenRises ==
    ASSUME NEW S, NEW b \in Seq(Seq(S)), NEW R,
           \A i \in DOMAIN b : Rising(b[i], R),
           \A i, j \in DOMAIN b : i < j => \A x \in ToSet(b[i]), y \in ToSet(b[j]) : <<x, y>> \in R
    PROVE  /\ FlattenSeq(b) \in Seq(S) /\ Rising(FlattenSeq(b), R)
           /\ ToSet(FlattenSeq(b)) = UNION {ToSet(b[i]) : i \in DOMAIN b}
<1> DEFINE n == Len(b)
           Of(i) == UNION {ToSet(b[j]) : j \in 1..i}
<1>1. n \in Nat /\ DOMAIN b = 1..n /\ \A i \in 1..n : b[i] \in Seq(S)
  OBVIOUS
<1>2. PICK f : Flattens(f, b, n, S)
  BY FlattenSteps
<1> HIDE DEF n
<1>3. /\ f \in [0..n -> Seq(S)] /\ f[0] = <<>> /\ (\A i \in 1..n : f[i] = f[i - 1] \o b[i])
      /\ f[n] = FlattenSeq(b)
  BY <1>2 DEF Flattens
<1> DEFINE P == {i \in 0..n : Rising(f[i], R) /\ ToSet(f[i]) = Of(i)}
<1>4. 0 \in P
  <2>1. Rising(<<>>, R) /\ ToSet(<<>>) = {}
    BY DEF Rising, ToSet
  <2>2. Of(0) = {}
    OBVIOUS
  <2>3. 0 \in 0..n
    BY <1>1
  <2> HIDE DEF Of
  <2>4. Rising(f[0], R) /\ ToSet(f[0]) = Of(0)
    BY <1>3, <2>1, <2>2
  <2> QED BY <2>3, <2>4
<1>5. ASSUME NEW i \in 1..n, i - 1 \in P PROVE i \in P
  <2> DEFINE s == f[i - 1]
             t == b[i]
             m == Len(s)
  <2>0. i - 1 \in 0..n /\ i \in 0..n
    BY <1>1
  <2>1. s \in Seq(S) /\ t \in Seq(S) /\ f[i] = s \o t /\ i - 1 \in 0..n /\ i \in 0..n
    <3> HIDE DEF P
    <3> QED BY <1>1, <1>3, <2>0
  <2>2. Rising(s, R) /\ ToSet(s) = Of(i - 1) /\ Rising(t, R)
    BY <1>1, <1>5
  <2>3. Of(i) = Of(i - 1) \cup ToSet(t)
    <3>1. 1..i = (1..(i - 1)) \cup {i}
      BY <1>1
    <3> QED BY <3>1
  <2>4. \A x \in Of(i - 1), y \in ToSet(t) : <<x, y>> \in R
    <3>1. ASSUME NEW x \in Of(i - 1) PROVE \E j \in 1..(i - 1) : x \in ToSet(b[j])
      OBVIOUS
    <3>2. \A j \in 1..(i - 1) : j \in DOMAIN b /\ i \in DOMAIN b /\ j < i
      BY <1>1
    <3> HIDE DEF Of
    <3> QED BY <3>1, <3>2
  <2> HIDE DEF s, t, Of
  <2>5. /\ Len(s \o t) = m + Len(t) /\ m \in Nat /\ Len(t) \in Nat /\ s \o t \in Seq(S)
        /\ DOMAIN (s \o t) = 1..(m + Len(t)) /\ DOMAIN s = 1..m /\ DOMAIN t = 1..Len(t)
        /\ \A k \in 1..m : (s \o t)[k] = s[k]
        /\ \A k \in 1..(m + Len(t)) : ~(k <= m) => k - m \in 1..Len(t) /\ (s \o t)[k] = t[k - m]
    <3>1. s \o t \in Seq(S) /\ Len(s \o t) = m + Len(t) /\ m \in Nat /\ Len(t) \in Nat
      BY <2>1, ConcatProperties
    <3>2. \A k \in 1..(m + Len(t)) : (s \o t)[k] = IF k <= m THEN s[k] ELSE t[k - m]
      BY <2>1, <3>1, ConcatProperties
    <3>3. DOMAIN (s \o t) = 1..(m + Len(t)) /\ DOMAIN s = 1..m /\ DOMAIN t = 1..Len(t)
      BY <2>1, <3>1
    <3> HIDE DEF m
    <3> QED BY <3>1, <3>2, <3>3
  <2> DEFINE u == s \o t
  <2> HIDE DEF u, m
  <2>6. ToSet(u) = ToSet(s) \cup ToSet(t)
    <3>1. /\ ToSet(u) = {u[k] : k \in 1..(m + Len(t))} /\ ToSet(s) = {s[k] : k \in 1..m}
          /\ ToSet(t) = {t[k] : k \in 1..Len(t)}
      BY <2>5 DEF ToSet, u
    <3>2. \A k \in 1..(m + Len(t)) : u[k] \in ToSet(s) \cup ToSet(t)
      BY <2>5, <3>1 DEF u
    <3>3. \A k \in 1..m : s[k] \in ToSet(u)
      <4> TAKE k \in 1..m
      <4>1. k \in 1..(m + Len(t)) /\ u[k] = s[k]
        BY <2>5 DEF u
      <4> QED BY <3>1, <4>1
    <3>4. \A k \in 1..Len(t) : t[k] \in ToSet(u)
      <4> TAKE k \in 1..Len(t)
      <4>1. m + k \in 1..(m + Len(t)) /\ ~(m + k <= m) /\ (m + k) - m = k
        BY <2>5
      <4> QED BY <2>5, <3>1, <4>1 DEF u
    <3> QED BY <3>1, <3>2, <3>3, <3>4
  <2>7. ASSUME NEW k \in 1..(m + Len(t)), NEW l \in 1..(m + Len(t)), k < l PROVE <<u[k], u[l]>> \in R
    <3>1. CASE l <= m
      <4>1. k \in 1..m /\ l \in 1..m
        BY <2>5, <2>7, <3>1
      <4>2. <<s[k], s[l]>> \in R
        BY <2>2, <2>5, <2>7, <4>1 DEF Rising
      <4> QED BY <2>5, <4>1, <4>2 DEF u
    <3>2. CASE ~(l <= m) /\ k <= m
      <4>1. k \in 1..m /\ l - m \in 1..Len(t) /\ u[k] = s[k] /\ u[l] = t[l - m]
        BY <2>5, <3>2 DEF u
      <4>2. s[k] \in ToSet(s) /\ t[l - m] \in ToSet(t)
        BY <2>5, <4>1 DEF ToSet
      <4> QED BY <2>2, <2>4, <4>1, <4>2
    <3>3. CASE ~(l <= m) /\ ~(k <= m)
      <4>1. k - m \in 1..Len(t) /\ l - m \in 1..Len(t) /\ u[k] = t[k - m] /\ u[l] = t[l - m] /\ k - m < l - m
        BY <2>5, <2>7, <3>3 DEF u
      <4> QED BY <2>2, <2>5, <4>1 DEF Rising
    <3> QED BY <3>1, <3>2, <3>3
  <2>8. Rising(u, R)
    BY <2>5, <2>7 DEF Rising, u
  <2>9. ToSet(u) = Of(i)
    BY <2>2, <2>3, <2>6
  <2> QED BY <2>1, <2>8, <2>9 DEF u
<1>6. n \in P
  <2>1. 0..n \subseteq P
    <3> HIDE DEF P
    <3> QED BY <1>1, <1>4, <1>5, StepInduction
  <2>2. n \in 0..n
    BY <1>1
  <2> HIDE DEF P
  <2> QED BY <2>1, <2>2
<1>7. f[n] \in Seq(S) /\ Rising(f[n], R) /\ ToSet(f[n]) = Of(n)
  BY <1>1, <1>3, <1>6
<1> QED BY <1>1, <1>3, <1>7

\* FlattenSeq of what a function makes of the elements.
Mapped(s, g) == [i \in DOMAIN s |-> g[s[i]]]
AllMapped(b, g) == [i \in DOMAIN b |-> Mapped(b[i], g)]

LEMMA FlattenMaps ==
    ASSUME NEW S, NEW T, NEW b \in Seq(Seq(S)), NEW g \in [S -> T]
    PROVE  /\ AllMapped(b, g) \in Seq(Seq(T))
           /\ FlattenSeq(AllMapped(b, g)) = Mapped(FlattenSeq(b), g)
           /\ FlattenSeq(b) \in Seq(S) /\ Mapped(FlattenSeq(b), g) \in Seq(T)
<1> DEFINE n == Len(b)
           c == AllMapped(b, g)
<1>1. n \in Nat /\ DOMAIN b = 1..n /\ \A i \in 1..n : b[i] \in Seq(S)
  OBVIOUS
<1>2. ASSUME NEW s \in Seq(S)
      PROVE  /\ Mapped(s, g) \in Seq(T) /\ Len(Mapped(s, g)) = Len(s) /\ DOMAIN Mapped(s, g) = 1..Len(s)
             /\ \A i \in 1..Len(s) : Mapped(s, g)[i] = g[s[i]]
  <2>1. Len(s) \in Nat /\ DOMAIN s = 1..Len(s) /\ \A i \in 1..Len(s) : s[i] \in S
    OBVIOUS
  <2>2. Mapped(s, g) = [i \in 1..Len(s) |-> g[s[i]]]
    BY <2>1 DEF Mapped
  <2>3. \A i \in 1..Len(s) : g[s[i]] \in T
    BY <2>1
  <2>4. Mapped(s, g) \in [1..Len(s) -> T]
    BY <2>2, <2>3
  <2> QED BY <2>1, <2>2, <2>4
<1> HIDE DEF n
<1>3. /\ c \in Seq(Seq(T)) /\ Len(c) = n /\ DOMAIN c = 1..n
      /\ \A i \in 1..n : c[i] = Mapped(b[i], g)
  <2>1. c = [i \in 1..n |-> Mapped(b[i], g)]
    BY <1>1 DEF AllMapped
  <2> HIDE DEF c
  <2>2. c \in [1..n -> Seq(T)]
    BY <1>1, <1>2, <2>1
  <2> QED BY <1>1, <2>1, <2>2
<1> HIDE DEF c
<1>4. PICK f : Flattens(f, b, n, S)
  BY FlattenSteps DEF n
<1>5. PICK h : Flattens(h, c, n, T)
  BY <1>3, FlattenSteps
<1>6. /\ f \in [0..n -> Seq(S)] /\ f[0] = <<>> /\ (\A i \in 1..n : f[i] = f[i - 1] \o b[i])
      /\ f[n] = FlattenSeq(b)
      /\ h \in [0..n -> Seq(T)] /\ h[0] = <<>> /\ (\A i \in 1..n : h[i] = h[i - 1] \o c[i])
      /\ h[n] = FlattenSeq(c)
  BY <1>4, <1>5 DEF Flattens
<1> DEFINE P == {i \in 0..n : h[i] = Mapped(f[i], g)}
<1>7. 0 \in P
  <2>1. Mapped(<<>>, g) = <<>>
    BY DEF Mapped
  <2> QED BY <1>1, <1>6, <2>1
<1>8. ASSUME NEW i \in 1..n, i - 1 \in P PROVE i \in P
  <2> DEFINE s == f[i - 1]
             t == b[i]
  <2>0. i - 1 \in 0..n /\ i \in 0..n
    BY <1>1
  <2>1. s \in Seq(S) /\ t \in Seq(S) /\ f[i] = s \o t /\ i \in 0..n /\ h[i] = Mapped(s, g) \o Mapped(t, g)
    <3>1. h[i - 1] = Mapped(s, g)
      BY <1>8
    <3>2. c[i] = Mapped(t, g)
      BY <1>3
    <3> HIDE DEF P
    <3> QED BY <1>1, <1>6, <2>0, <3>1, <3>2
  <2> HIDE DEF s, t
  <2>2. /\ s \o t \in Seq(S) /\ Len(s \o t) = Len(s) + Len(t) /\ Len(s) \in Nat /\ Len(t) \in Nat
        /\ \A k \in 1..(Len(s) + Len(t)) : (s \o t)[k] = IF k <= Len(s) THEN s[k] ELSE t[k - Len(s)]
    BY <2>1, ConcatProperties
  <2> DEFINE ms == Mapped(s, g)
             mt == Mapped(t, g)
             mu == Mapped(s \o t, g)
  <2>3. /\ ms \in Seq(T) /\ Len(ms) = Len(s) /\ (\A k \in 1..Len(s) : ms[k] = g[s[k]])
        /\ mt \in Seq(T) /\ Len(mt) = Len(t) /\ (\A k \in 1..Len(t) : mt[k] = g[t[k]])
        /\ mu \in Seq(T) /\ Len(mu) = Len(s) + Len(t)
        /\ \A k \in 1..(Len(s) + Len(t)) : mu[k] = g[(s \o t)[k]]
    BY <1>2, <2>1, <2>2
  <2> HIDE DEF ms, mt, mu
  <2>4. /\ ms \o mt \in Seq(T) /\ Len(ms \o mt) = Len(s) + Len(t)
        /\ \A k \in 1..(Len(s) + Len(t)) : (ms \o mt)[k] = IF k <= Len(s) THEN ms[k] ELSE mt[k - Len(s)]
    <3>1. /\ ms \o mt \in Seq(T) /\ Len(ms \o mt) = Len(ms) + Len(mt)
          /\ \A k \in 1..(Len(ms) + Len(mt)) : (ms \o mt)[k] = IF k <= Len(ms) THEN ms[k] ELSE mt[k - Len(ms)]
      <4>1. ms \in Seq(T) /\ mt \in Seq(T)
        BY <2>3
      <4> QED BY <4>1, ConcatProperties
    <3> QED BY <2>3, <3>1
  <2>5. \A k \in 1..(Len(s) + Len(t)) : mu[k] = (ms \o mt)[k]
    <3> TAKE k \in 1..(Len(s) + Len(t))
    <3>1. CASE k <= Len(s)
      <4>1. k \in 1..Len(s)
        BY <2>2, <3>1
      <4>2. (s \o t)[k] = s[k] /\ (ms \o mt)[k] = ms[k]
        BY <2>2, <2>4, <3>1
      <4> QED BY <2>3, <4>1, <4>2
    <3>2. CASE ~(k <= Len(s))
      <4>1. k - Len(s) \in 1..Len(t)
        BY <2>2, <3>2
      <4>2. (s \o t)[k] = t[k - Len(s)] /\ (ms \o mt)[k] = mt[k - Len(s)]
        BY <2>2, <2>4, <3>2
      <4> QED BY <2>3, <4>1, <4>2
    <3> QED BY <3>1, <3>2
  <2>6. mu = ms \o mt
    BY <2>3, <2>4, <2>5, SeqEqual
  <2> QED BY <2>1, <2>6 DEF ms, mt, mu
<1>9. n \in P
  <2>1. 0..n \subseteq P
    <3> HIDE DEF P
    <3> QED BY <1>1, <1>7, <1>8, StepInduction
  <2> QED BY <1>1, <2>1
<1>10. f[n] \in Seq(S) /\ h[n] = Mapped(f[n], g) /\ h[n] \in Seq(T)
  BY <1>1, <1>6, <1>9
<1> QED BY <1>3, <1>6, <1>10 DEF c

-----------------------------------------------------------------------------
(* Scans.                                                                  *)

\* A range of integers, as Ranges makes them.
ProperRange(r) ==
    /\ NoKey \notin Int /\ r.lower \in Int \cup {NoKey} /\ r.upper \in Int \cup {NoKey}
    /\ r.lowerOpen \in BOOLEAN /\ r.upperOpen \in BOOLEAN
    /\ r.lower = NoKey => ~r.lowerOpen
    /\ r.upper = NoKey => ~r.upperOpen
    /\ r.lower # NoKey /\ r.upper # NoKey => r.lower < r.upper \/ r = Only(r.lower)

LEMMA RangesAreProper ==
    ASSUME NEW K \in SUBSET Int, NoKey \notin Int, NEW r \in Ranges(K)
    PROVE  ProperRange(r)
BY DEF Ranges, ProperRange

\* What lies between two keys of a range is in it.
LEMMA RangeFacts ==
    ASSUME NEW r, ProperRange(r)
    PROVE  /\ \A j, k \in Int : j <= k /\ AboveLower(r, j) => AboveLower(r, k)
           /\ \A j, k \in Int : j <= k /\ BelowUpper(r, k) => BelowUpper(r, j)
           /\ \A j, k, l \in Int : j <= k /\ k <= l /\ Includes(r, j) /\ Includes(r, l) => Includes(r, k)
           /\ \A k \in Int : Includes(r, k) \in BOOLEAN
<1>1. \A j, k \in Int : j <= k /\ AboveLower(r, j) => AboveLower(r, k)
  BY DEF ProperRange, AboveLower
<1>2. \A j, k \in Int : j <= k /\ BelowUpper(r, k) => BelowUpper(r, j)
  BY DEF ProperRange, BelowUpper
<1> QED BY <1>1, <1>2 DEF Includes, AboveLower, BelowUpper

\* The positions of a sorted table whose keys are in the range.
Within(keys, r) == {i \in DOMAIN keys : Includes(r, keys[i])}

LEMMA WithinFacts ==
    ASSUME NEW keys \in Seq(Int), NEW r
    PROVE  /\ Within(keys, r) \in SUBSET (1..Len(keys)) /\ Within(keys, r) \in SUBSET Int
           /\ IsFiniteSet(Within(keys, r)) /\ Len(keys) \in Nat /\ DOMAIN keys = 1..Len(keys)
           /\ \A i \in 1..Len(keys) : keys[i] \in Int
<1>1. Len(keys) \in Nat /\ DOMAIN keys = 1..Len(keys) /\ \A i \in 1..Len(keys) : keys[i] \in Int
  OBVIOUS
<1>2. Within(keys, r) \in SUBSET (1..Len(keys))
  BY <1>1 DEF Within
<1>3. IsFiniteSet(1..Len(keys)) /\ 1..Len(keys) \subseteq Int
  BY <1>1, FS_Interval
<1>4. IsFiniteSet(Within(keys, r))
  BY <1>2, <1>3, FS_Subset
<1> QED BY <1>1, <1>2, <1>3, <1>4

\* A walk takes the positions from the first on, one by one, up to the first that is not in the range.
WalksOver(w, n, keys, i, asc, r) ==
    /\ n \in 0..Len(keys)
    /\ w = [m \in 1..n |-> IF asc THEN i + (m - 1) ELSE i - (m - 1)]
    /\ \A m \in 1..n : (IF asc THEN i + (m - 1) ELSE i - (m - 1)) \in Within(keys, r)
    /\ (IF asc THEN i + n ELSE i - n) \notin Within(keys, r)

LEMMA WalkFacts ==
    ASSUME NEW keys \in Seq(Int), NEW r, NEW asc \in BOOLEAN, NEW i \in DOMAIN keys
    PROVE  \E n : WalksOver(Walk(keys, i, asc, r), n, keys, i, asc, r)
<1> DEFINE step == IF asc THEN 1 ELSE -1
           Stop(j) == j \notin DOMAIN keys \/ ~Includes(r, keys[j])
           Ends(m) == /\ Stop(i + step * m)
                      /\ \A l \in 0..(m - 1) : ~Stop(i + step * l)
           n == CHOOSE m \in 0..Len(keys) : Ends(m)
           at == [m \in 0..Len(keys) |-> IF asc THEN i + m ELSE i - m]
<1>1. Len(keys) \in Nat /\ DOMAIN keys = 1..Len(keys) /\ i \in 1..Len(keys)
  OBVIOUS
<1>2. Walk(keys, i, asc, r) = [m \in 1..n |-> i + step * (m - 1)]
  BY DEF Walk
<1>3. \A m \in 0..Len(keys) : i + step * m = at[m] /\ at[m] \in Int
  BY <1>1
<1>4. \A j : Stop(j) <=> j \notin Within(keys, r)
  BY DEF Within
<1>5. at[Len(keys)] \notin 1..Len(keys)
  BY <1>1
<1> HIDE DEF Stop, at
<1>6. \E m \in 0..Len(keys) : Stop(at[m]) /\ \A l \in 0..(m - 1) : ~Stop(at[l])
  <2> DEFINE stops == {m \in 0..Len(keys) : Stop(at[m])}
  <2>1. Len(keys) \in stops
    BY <1>1, <1>5 DEF Stop
  <2>2. stops \in SUBSET Nat
    BY <1>1
  <2>3. PICK m \in stops : \A l \in stops : m <= l
    <3> HIDE DEF stops
    <3> QED BY <2>1, <2>2, LeastNat
  <2>4. m \in 0..Len(keys) /\ Stop(at[m])
    BY <2>3
  <2>5. ASSUME NEW l \in 0..(m - 1) PROVE ~Stop(at[l])
    <3>1. l \in 0..Len(keys) /\ ~(m <= l)
      BY <1>1, <2>4
    <3> QED BY <2>3, <3>1
  <2> QED BY <2>4, <2>5
<1>7. \E m \in 0..Len(keys) : Ends(m)
  <2>1. PICK m \in 0..Len(keys) : Stop(at[m]) /\ \A l \in 0..(m - 1) : ~Stop(at[l])
    BY <1>6
  <2>2. \A l \in 0..(m - 1) : l \in 0..Len(keys)
    BY <1>1
  <2>3. Ends(m)
    BY <1>3, <2>1, <2>2
  <2> QED BY <2>3
<1>8. n \in 0..Len(keys) /\ Ends(n)
  <2> HIDE DEF Ends
  <2> QED BY <1>7
<1> HIDE DEF n
<1>9. \A m \in 1..n : m - 1 \in 0..(n - 1) /\ m - 1 \in 0..Len(keys)
  BY <1>1, <1>8
<1>10. \A m \in 1..n : i + step * (m - 1) = at[m - 1] /\ at[m - 1] \in Within(keys, r)
  BY <1>3, <1>4, <1>8, <1>9
<1>11. at[n] \notin Within(keys, r)
  BY <1>3, <1>4, <1>8
<1>12. \A m \in 0..Len(keys) : at[m] = IF asc THEN i + m ELSE i - m
  BY DEF at
<1> HIDE DEF step
<1>13. Walk(keys, i, asc, r) = [m \in 1..n |-> IF asc THEN i + (m - 1) ELSE i - (m - 1)]
  BY <1>2, <1>9, <1>10, <1>12
<1>14. WalksOver(Walk(keys, i, asc, r), n, keys, i, asc, r)
  BY <1>8, <1>9, <1>10, <1>11, <1>12, <1>13 DEF WalksOver
<1> QED BY <1>14

LEMMA EmptyDirected == \A asc \in BOOLEAN : InDirection(Ascending({}), asc) = <<>>
<1> TAKE asc \in BOOLEAN
<1> DEFINE s == InDirection(Ascending({}), asc)
<1>1. {} \in SUBSET Int /\ IsFiniteSet({})
  BY FS_EmptySet
<1>2. s \in Seq({}) /\ ToSet(s) = {}
  BY <1>1, DirectedFacts
<1> HIDE DEF s
<1>3. Len(s) = 0
  BY <1>2
<1>4. s = <<>>
  BY <1>2, <1>3
<1> QED BY <1>4 DEF s

\* From a position outside the range nothing is found.
LEMMA NothingFrom ==
    ASSUME NEW keys \in Seq(Int), NEW r, NEW asc \in BOOLEAN, NEW i, i \notin Within(keys, r)
    PROVE  From(keys, i, asc, r) = <<>>
<1>1. CASE i \in DOMAIN keys
  <2>1. PICK n : WalksOver(Walk(keys, i, asc, r), n, keys, i, asc, r)
    BY <1>1, WalkFacts
  <2> DEFINE w == Walk(keys, i, asc, r)
  <2>2. /\ n \in 0..Len(keys) /\ w = [m \in 1..n |-> IF asc THEN i + (m - 1) ELSE i - (m - 1)]
        /\ \A m \in 1..n : (IF asc THEN i + (m - 1) ELSE i - (m - 1)) \in Within(keys, r)
    BY <2>1 DEF WalksOver
  <2> HIDE DEF w
  <2>3. i \in Int /\ Len(keys) \in Nat /\ i + (1 - 1) = i /\ i - (1 - 1) = i
    BY <1>1
  <2>4. n = 0
    <3>1. n \in Nat /\ (n # 0 => 1 \in 1..n)
      BY <2>2, <2>3
    <3>2. (IF asc THEN i + (1 - 1) ELSE i - (1 - 1)) = i
      BY <2>3
    <3>3. ASSUME n # 0 PROVE i \in Within(keys, r)
      <4>1. (IF asc THEN i + (1 - 1) ELSE i - (1 - 1)) \in Within(keys, r)
        BY <2>2, <3>1, <3>3
      <4> QED BY <3>2, <4>1
    <3> QED BY <3>3
  <2>5. w = <<>>
    BY <2>2, <2>4
  <2> QED BY <1>1, <2>5 DEF From, w
<1>2. CASE i \notin DOMAIN keys
  BY <1>2 DEF From
<1> QED BY <1>1, <1>2

\* From its first position in the direction, the range is walked over in full.
FirstOf(P, i, asc) == i \in P /\ \A j \in P : IF asc THEN i <= j ELSE i >= j

LEMMA AllFrom ==
    ASSUME NEW keys \in Seq(Int), Nondecreasing(keys), NEW r, ProperRange(r), NEW asc \in BOOLEAN,
           NEW i, Within(keys, r) # {} => FirstOf(Within(keys, r), i, asc)
    PROVE  From(keys, i, asc, r) = InDirection(Ascending(Within(keys, r)), asc)
<1> DEFINE P == Within(keys, r)
<1>1. /\ P \in SUBSET (1..Len(keys)) /\ P \in SUBSET Int /\ IsFiniteSet(P) /\ Len(keys) \in Nat
      /\ DOMAIN keys = 1..Len(keys) /\ \A j \in 1..Len(keys) : keys[j] \in Int
  BY WithinFacts
<1>2. CASE P = {}
  <2>1. From(keys, i, asc, r) = <<>>
    BY <1>2, NothingFrom
  <2> QED BY <1>2, <2>1, EmptyDirected
<1>3. CASE P # {}
  <2>1. i \in P /\ (\A j \in P : IF asc THEN i <= j ELSE i >= j) /\ i \in DOMAIN keys /\ i \in Int
    BY <1>1, <1>3 DEF FirstOf
  <2>2. PICK n : WalksOver(Walk(keys, i, asc, r), n, keys, i, asc, r)
    BY <2>1, WalkFacts
  <2> DEFINE w == Walk(keys, i, asc, r)
             at == [m \in 1..n |-> IF asc THEN i + (m - 1) ELSE i - (m - 1)]
  <2>3. /\ n \in 0..Len(keys) /\ w = at /\ (\A m \in 1..n : at[m] \in P)
        /\ (IF asc THEN i + n ELSE i - n) \notin P
    BY <2>2 DEF WalksOver
  <2>4. /\ DOMAIN at = 1..n /\ at = [m \in 1..n |-> at[m]]
        /\ \A m \in 1..n : at[m] = IF asc THEN i + (m - 1) ELSE i - (m - 1)
    OBVIOUS
  <2>5. From(keys, i, asc, r) = w
    BY <2>1 DEF From
  <2> HIDE DEF w, at, P
  <2>6. \A m \in 1..n : at[m] \in Int
    BY <1>1, <2>3
  <2>7. at \in Seq(Int)
    <3>1. n \in Nat
      BY <1>1, <2>3
    <3>2. at \in [1..n -> Int]
      BY <2>4, <2>6
    <3> QED BY <3>1, <3>2
  <2>8. Rising(at, Follows(asc))
    <3>3. SUFFICES ASSUME NEW l \in 1..n, NEW m \in 1..n, l < m
                   PROVE  <<at[l], at[m]>> \in Follows(asc)
      BY <2>4 DEF Rising
    <3>0. l \in Int /\ m \in Int /\ i \in Int
      BY <2>1
    <3>1. CASE asc
      <4>1. at[l] = i + (l - 1) /\ at[m] = i + (m - 1)
        BY <2>4, <3>1
      <4>2. at[l] < at[m]
        BY <3>3, <3>0, <4>1
      <4> QED BY <2>6, <3>1, <4>2, FollowsFacts
    <3>2. CASE ~asc
      <4>1. at[l] = i - (l - 1) /\ at[m] = i - (m - 1)
        BY <2>4, <3>2
      <4>2. at[l] > at[m]
        BY <3>3, <3>0, <4>1
      <4> QED BY <2>6, <3>2, <4>2, FollowsFacts
    <3> QED BY <3>1, <3>2
  <2>9. ASSUME NEW p \in P PROVE \E m \in 1..n : at[m] = p
    <3> DEFINE d == IF asc THEN p - i ELSE i - p
               q == IF asc THEN i + n ELSE i - n
    <3>1. p \in 1..Len(keys) /\ d \in Nat /\ i \in 1..Len(keys)
      BY <1>1, <2>1
    <3>2. CASE d < n
      <4>1. d + 1 \in 1..n /\ p \in Int /\ i \in Int /\ d \in Int
        <5> HIDE DEF d
        <5> QED BY <1>1, <2>3, <3>1, <3>2
      <4>2. CASE asc
        <5>1. i + ((d + 1) - 1) = p
          BY <4>1, <4>2
        <5> HIDE DEF d
        <5> QED BY <2>4, <4>1, <4>2, <5>1
      <4>3. CASE ~asc
        <5>1. i - ((d + 1) - 1) = p
          BY <4>1, <4>3
        <5> HIDE DEF d
        <5> QED BY <2>4, <4>1, <4>3, <5>1
      <4> QED BY <4>2, <4>3
    <3>3. CASE ~(d < n)
      <4>1. q \in 1..Len(keys) /\ (IF asc THEN i <= q /\ q <= p ELSE p <= q /\ q <= i)
        <5>1. n \in Nat /\ p \in 1..Len(keys) /\ i \in 1..Len(keys) /\ Len(keys) \in Nat
          BY <1>1, <2>3, <3>1
        <5>2. CASE asc
          <6>1. d = p - i /\ q = i + n /\ n <= d
            BY <3>1, <3>3, <5>1, <5>2
          <6> HIDE DEF d, q
          <6>2. q \in 1..Len(keys) /\ i <= q /\ q <= p
            BY <5>1, <6>1
          <6> QED BY <5>2, <6>2
        <5>3. CASE ~asc
          <6>1. d = i - p /\ q = i - n /\ n <= d
            BY <3>1, <3>3, <5>1, <5>3
          <6> HIDE DEF d, q
          <6>2. q \in 1..Len(keys) /\ p <= q /\ q <= i
            BY <5>1, <6>1
          <6> QED BY <5>3, <6>2
        <5> QED BY <5>2, <5>3
      <4>2. q \notin P
        BY <2>3
      <4> HIDE DEF d, q
      <4>3. \A j, k \in 1..Len(keys) : j <= k => keys[j] <= keys[k]
        <5> SUFFICES ASSUME NEW j \in 1..Len(keys), NEW k \in 1..Len(keys), j <= k
                     PROVE  keys[j] <= keys[k]
          OBVIOUS
        <5>1. j = k \/ j < k
          OBVIOUS
        <5>2. keys[j] \in Int
          BY <1>1
        <5> QED BY <1>1, <5>1, <5>2 DEF Nondecreasing
      <4>4. IF asc THEN keys[i] <= keys[q] /\ keys[q] <= keys[p] ELSE keys[p] <= keys[q] /\ keys[q] <= keys[i]
        BY <3>1, <4>1, <4>3
      <4>5. Includes(r, keys[p]) /\ Includes(r, keys[i]) /\ keys[p] \in Int /\ keys[i] \in Int /\ keys[q] \in Int
        BY <1>1, <2>1, <3>1, <4>1 DEF P, Within
      <4>6. Includes(r, keys[q])
        BY <4>4, <4>5, RangeFacts
      <4>7. q \in P
        BY <1>1, <4>1, <4>6 DEF P, Within
      <4> QED BY <4>2, <4>7
    <3> QED BY <3>2, <3>3
  <2>10. ToSet(at) = P
    <3>1. ToSet(at) = {at[m] : m \in 1..n}
      BY <2>4 DEF ToSet
    <3> QED BY <2>3, <2>9, <3>1
  <2>11. at = InDirection(Ascending(P), asc)
    BY <1>1, <2>7, <2>8, <2>10, DirectedIsUnique
  <2> QED BY <2>3, <2>5, <2>11 DEF P
<1> QED BY <1>2, <1>3

\* A set of positions has a first and a last one.
LEMMA FirstPosition ==
    ASSUME NEW n \in Nat, NEW s \in SUBSET (1..n), s # {}
    PROVE  Min(s) \in s /\ \A i \in s : Min(s) <= i
<1>1. s \in SUBSET Nat
  OBVIOUS
<1>2. \E x \in s : \A y \in s : x <= y
  BY <1>1, LeastNat
<1> QED BY <1>2 DEF Min

LEMMA OrderedFacts ==
    ASSUME NEW keys \in Seq(Int), Nondecreasing(keys)
    PROVE  \A i, j \in 1..Len(keys) : i <= j => keys[i] <= keys[j]
<1>1. DOMAIN keys = 1..Len(keys) /\ \A i \in 1..Len(keys) : keys[i] \in Int
  OBVIOUS
<1> TAKE i, j \in 1..Len(keys)
<1>2. i = j \/ i < j \/ j < i
  OBVIOUS
<1> QED BY <1>1, <1>2 DEF Nondecreasing

\* The cursor of the in-memory index starts where the range does.
LEMMA MemoryStartFacts ==
    ASSUME NEW keys \in Seq(Int), Nondecreasing(keys), NEW r, ProperRange(r), NEW asc \in BOOLEAN,
           Within(keys, r) # {}
    PROVE  FirstOf(Within(keys, r), MemoryStart(keys, r, asc), asc)
<1> DEFINE P == Within(keys, r)
           up == {i \in 1..Len(keys) : AboveLower(r, keys[i])}
           down == {i \in 1..Len(keys) : BelowUpper(r, keys[i])}
<1>1. /\ P \in SUBSET (1..Len(keys)) /\ Len(keys) \in Nat /\ DOMAIN keys = 1..Len(keys)
      /\ \A i \in 1..Len(keys) : keys[i] \in Int
  BY WithinFacts
<1>2. \A i, j \in 1..Len(keys) : i <= j => keys[i] <= keys[j]
  BY OrderedFacts
<1>3. \A i : i \in P <=> i \in up /\ i \in down
  BY <1>1 DEF Within, Includes
<1>4. \A i, j \in 1..Len(keys) : i <= j => (i \in up => j \in up) /\ (j \in down => i \in down)
  BY <1>1, <1>2, RangeFacts
<1>5. up \in SUBSET (1..Len(keys)) /\ down \in SUBSET (1..Len(keys)) /\ up # {} /\ down # {}
  BY <1>3
<1>6. MemoryStart(keys, r, TRUE) = IF up # {} THEN Min(up) ELSE 0
  BY DEF MemoryStart, SelectInSeq
<1>7. MemoryStart(keys, r, FALSE) = IF down # {} THEN Max(down) ELSE 0
  BY DEF MemoryStart, SelectLastInSeq
<1> HIDE DEF up, down, P
<1>8. CASE asc
  <2> DEFINE i == Min(up)
  <2>1. MemoryStart(keys, r, asc) = i
    BY <1>5, <1>6, <1>8
  <2>2. i \in up /\ \A j \in up : i <= j
    BY <1>1, <1>5, FirstPosition
  <2> HIDE DEF i
  <2>3. \A j \in P : i <= j
    BY <1>3, <2>2
  <2>4. i \in P
    <3>1. PICK p \in P : TRUE
      BY DEF P
    <3>2. i <= p /\ p \in down /\ i \in 1..Len(keys) /\ p \in 1..Len(keys)
      BY <1>3, <1>5, <2>2, <2>3
    <3> QED BY <1>3, <1>4, <2>2, <3>2
  <2> QED BY <1>8, <2>1, <2>3, <2>4 DEF FirstOf, P
<1>9. CASE ~asc
  <2> DEFINE i == Max(down)
  <2>1. MemoryStart(keys, r, asc) = i
    BY <1>5, <1>7, <1>9
  <2>2. i \in down /\ \A j \in down : i >= j
    BY <1>1, <1>5, GreatestPosition
  <2> HIDE DEF i
  <2>3. \A j \in P : i >= j
    BY <1>3, <2>2
  <2>4. i \in P
    <3>1. PICK p \in P : TRUE
      BY DEF P
    <3>2. p <= i /\ p \in up /\ i \in 1..Len(keys) /\ p \in 1..Len(keys)
      <4>1. i >= p /\ p \in up /\ i \in 1..Len(keys) /\ p \in 1..Len(keys)
        BY <1>3, <1>5, <2>2, <2>3
      <4> QED BY <4>1
    <3> QED BY <1>3, <1>4, <2>2, <3>2
  <2> QED BY <1>9, <2>1, <2>3, <2>4 DEF FirstOf, P
<1> QED BY <1>8, <1>9

\* LMDB's walk goes wrong upwards from an open bound that is there twice; downwards from a closed bound
\* that is not there, from an open one if the next key from it on is there twice, and from behind the
\* last key if the range is taken to include null.
Twice(keys, k) == \E i, j \in DOMAIN keys : i < j /\ keys[i] = k /\ keys[j] = k
UpFrom(keys, bound) == {i \in 1..Len(keys) : keys[i] >= bound}
LmdbLost(keys, r, asc, numeric) ==
    IF asc THEN r.lowerOpen /\ Twice(keys, r.lower)
    ELSE /\ r.upper # NoKey
         /\ IF r.upperOpen
            THEN IF UpFrom(keys, r.upper) = {} THEN IncludesNull(r, numeric)
                 ELSE Twice(keys, keys[Min(UpFrom(keys, r.upper))])
            ELSE \A i \in DOMAIN keys : keys[i] # r.upper

\* Where LMDB's walk starts: outside of the range if it goes wrong, else where the range does.
Starts(P, at, asc, lost) == IF lost THEN at \notin P ELSE P # {} => FirstOf(P, at, asc)

LEMMA LmdbStartsUp ==
    ASSUME NEW keys \in Seq(Int), Nondecreasing(keys), NEW r, ProperRange(r), NEW numeric \in BOOLEAN
    PROVE  Starts(Within(keys, r), LmdbStart(keys, r, TRUE, numeric), TRUE, LmdbLost(keys, r, TRUE, numeric))
<1> DEFINE P == Within(keys, r)
           at == LmdbStart(keys, r, TRUE, numeric)
           L == r.lower
           I == UpFrom(keys, L)
           lost == LmdbLost(keys, r, TRUE, numeric)
<1> SUFFICES Starts(P, at, TRUE, lost)
  OBVIOUS
<1>1. /\ P \in SUBSET (1..Len(keys)) /\ Len(keys) \in Nat /\ DOMAIN keys = 1..Len(keys)
      /\ \A i \in 1..Len(keys) : keys[i] \in Int
  BY WithinFacts
<1>2. \A i, j \in 1..Len(keys) : i <= j => keys[i] <= keys[j]
  BY OrderedFacts
<1>3. \A i \in 1..Len(keys) : i \in P <=> AboveLower(r, keys[i]) /\ BelowUpper(r, keys[i])
  BY <1>1 DEF Within, Includes
<1>4. \A i, j \in 1..Len(keys) : i <= j /\ BelowUpper(r, keys[j]) => BelowUpper(r, keys[i])
  BY <1>1, <1>2, RangeFacts
<1>5. lost <=> r.lowerOpen /\ Twice(keys, L)
  BY DEF LmdbLost
<1> HIDE DEF lost
<1>6. CASE L = NoKey
  <2>1. at = 1 /\ ~r.lowerOpen
    BY <1>6 DEF LmdbStart, ProperRange
  <2>2. \A k \in Int : AboveLower(r, k)
    BY <1>6 DEF AboveLower
  <2>3. ASSUME NEW p \in P PROVE 1 \in P /\ 1 <= p
    <3>1. p \in 1..Len(keys) /\ 1 \in 1..Len(keys) /\ 1 <= p
      BY <1>1
    <3> QED BY <1>1, <1>3, <1>4, <2>2, <3>1
  <2>4. P # {} => FirstOf(P, at, TRUE)
    <3> HIDE DEF P, at
    <3> QED BY <2>1, <2>3 DEF FirstOf
  <2> QED BY <1>5, <2>1, <2>4 DEF Starts
<1>7. CASE L # NoKey
  <2>1. L \in Int /\ \A k \in Int : AboveLower(r, k) <=> L < k \/ (~r.lowerOpen /\ L = k)
    BY <1>7 DEF ProperRange, AboveLower
  <2>2. I \in SUBSET (1..Len(keys)) /\ \A i \in 1..Len(keys) : i \in I <=> keys[i] >= L
    BY DEF UpFrom
  <2>3. LmdbBound(keys, L, TRUE) = IF I # {} THEN Min(I) ELSE 0
    BY DEF LmdbBound, SelectInSeq, UpFrom
  <2>4. at = LmdbStepped(keys, LmdbBound(keys, L, TRUE), r, TRUE, numeric)
    BY <1>7 DEF LmdbStart
  <2> HIDE DEF I, at
  <2>5. \A p \in P : p \in I /\ p \in 1..Len(keys)
    BY <1>1, <1>3, <2>1, <2>2
  <2>6. CASE I = {}
    <3>1. P = {}
      BY <2>5, <2>6
    <3> QED BY <3>1 DEF Starts
  <2>7. CASE I # {}
    <3> DEFINE f == Min(I)
    <3>1. f \in I /\ \A j \in I : f <= j
      BY <1>1, <2>2, <2>7, FirstPosition
    <3>2. at = LmdbStepped(keys, f, r, TRUE, numeric)
      BY <2>3, <2>4, <2>7
    <3> HIDE DEF f
    <3>3. f \in 1..Len(keys) /\ ~(f > Len(keys)) /\ f # 0 /\ keys[f] >= L /\ keys[f] \in Int
      BY <1>1, <2>2, <3>1
    <3>4. at = IF ~Includes(r, keys[f]) /\ r.lowerOpen THEN f + 1 ELSE f
      BY <3>2, <3>3 DEF LmdbStepped
    <3>5. Includes(r, keys[f]) <=> f \in P
      BY <1>3, <3>3 DEF Includes
    <3>6. ASSUME NEW p \in P PROVE p \in 1..Len(keys) /\ f <= p /\ BelowUpper(r, keys[p])
      BY <1>3, <2>5, <3>1
    <3>7. CASE ~r.lowerOpen
      <4>1. ASSUME NEW p \in P PROVE f \in P
        BY <1>3, <1>4, <2>1, <3>3, <3>6, <3>7
      <4>2. P # {} => FirstOf(P, at, TRUE)
        <5> HIDE DEF P
        <5> QED BY <3>4, <3>6, <3>7, <4>1 DEF FirstOf
      <4> QED BY <1>5, <3>7, <4>2 DEF Starts
    <3>8. CASE r.lowerOpen /\ f \in P
      <4>1. at = f /\ keys[f] > L
        BY <1>3, <2>1, <3>3, <3>4, <3>5, <3>8
      <4>2. ~Twice(keys, L)
        <5>1. ASSUME NEW i \in 1..Len(keys), keys[i] = L PROVE FALSE
          <6>1. i \in I
            BY <2>1, <2>2, <5>1
          <6>2. keys[f] <= keys[i]
            BY <1>2, <3>1, <3>3, <6>1
          <6> QED BY <2>1, <3>3, <4>1, <5>1, <6>2
        <5> QED BY <1>1, <5>1 DEF Twice
      <4>3. FirstOf(P, at, TRUE)
        <5> HIDE DEF P
        <5> QED BY <3>6, <3>8, <4>1 DEF FirstOf
      <4> QED BY <1>5, <4>2, <4>3 DEF Starts
    <3>9. CASE r.lowerOpen /\ f \notin P
      <4>1. at = f + 1
        BY <3>4, <3>5, <3>9
      <4>2. CASE Twice(keys, L)
        <5>1. PICK i \in 1..Len(keys), j \in 1..Len(keys) : i < j /\ keys[i] = L /\ keys[j] = L
          BY <1>1, <4>2 DEF Twice
        <5>2. i \in I
          BY <2>1, <2>2, <5>1
        <5>3. f + 1 \in 1..Len(keys) /\ f + 1 <= j
          BY <1>1, <3>1, <3>3, <5>1, <5>2
        <5>4. keys[f + 1] <= L /\ keys[f + 1] \in Int
          BY <1>1, <1>2, <5>1, <5>3
        <5>5. ~AboveLower(r, keys[f + 1])
          BY <2>1, <3>9, <5>4
        <5>6. at \notin P
          BY <1>3, <4>1, <5>3, <5>5
        <5> QED BY <1>5, <3>9, <4>2, <5>6 DEF Starts
      <4>3. CASE ~Twice(keys, L)
        <5>1. ASSUME NEW p \in P PROVE f + 1 \in P /\ f + 1 <= p
          <6>1. p \in 1..Len(keys) /\ f <= p /\ BelowUpper(r, keys[p]) /\ p # f
            BY <3>6, <3>9
          <6>2. f + 1 \in 1..Len(keys) /\ f + 1 <= p /\ f < f + 1 /\ f <= f + 1
            BY <1>1, <3>3, <6>1
          <6>3. BelowUpper(r, keys[f]) /\ BelowUpper(r, keys[f + 1])
            BY <1>4, <3>3, <6>1, <6>2
          <6>4. keys[f] = L
            <7>1. ~(L < keys[f])
              BY <1>3, <2>1, <3>3, <3>9, <6>3
            <7> QED BY <2>1, <3>3, <7>1
          <6>5. keys[f + 1] # L
            BY <1>1, <3>3, <4>3, <6>2, <6>4 DEF Twice
          <6>6. keys[f + 1] \in Int /\ keys[f] <= keys[f + 1]
            BY <1>1, <1>2, <3>3, <6>2
          <6>7. L < keys[f + 1]
            BY <2>1, <6>4, <6>5, <6>6
          <6> QED BY <1>3, <2>1, <6>2, <6>3, <6>6, <6>7
        <5>2. P # {} => FirstOf(P, at, TRUE)
          <6> HIDE DEF P
          <6> QED BY <4>1, <5>1 DEF FirstOf
        <5> QED BY <1>5, <4>3, <5>2 DEF Starts
      <4> QED BY <4>2, <4>3
    <3> QED BY <3>7, <3>8, <3>9
  <2> QED BY <2>6, <2>7
<1> QED BY <1>6, <1>7

LEMMA LmdbStartsDown ==
    ASSUME NEW keys \in Seq(Int), Nondecreasing(keys), NEW r, ProperRange(r), NEW numeric \in BOOLEAN
    PROVE  Starts(Within(keys, r), LmdbStart(keys, r, FALSE, numeric), FALSE, LmdbLost(keys, r, FALSE, numeric))
<1> DEFINE P == Within(keys, r)
           at == LmdbStart(keys, r, FALSE, numeric)
           U == r.upper
           I == UpFrom(keys, U)
           lost == LmdbLost(keys, r, FALSE, numeric)
<1> SUFFICES Starts(P, at, FALSE, lost)
  OBVIOUS
<1>1. /\ P \in SUBSET (1..Len(keys)) /\ Len(keys) \in Nat /\ DOMAIN keys = 1..Len(keys)
      /\ \A i \in 1..Len(keys) : keys[i] \in Int
  BY WithinFacts
<1>2. \A i, j \in 1..Len(keys) : i <= j => keys[i] <= keys[j]
  BY OrderedFacts
<1>3. \A i \in 1..Len(keys) : i \in P <=> AboveLower(r, keys[i]) /\ BelowUpper(r, keys[i])
  BY <1>1 DEF Within, Includes
<1>4. \A i, j \in 1..Len(keys) : i <= j /\ AboveLower(r, keys[i]) => AboveLower(r, keys[j])
  BY <1>1, <1>2, RangeFacts
<1>5. CASE U = NoKey
  <2>1. at = Len(keys) /\ ~lost
    BY <1>5 DEF LmdbStart, LmdbLost
  <2>2. \A k \in Int : BelowUpper(r, k)
    BY <1>5 DEF BelowUpper
  <2>3. ASSUME NEW p \in P PROVE Len(keys) \in P /\ Len(keys) >= p
    <3>1. p \in 1..Len(keys) /\ Len(keys) \in 1..Len(keys) /\ p <= Len(keys)
      BY <1>1
    <3> QED BY <1>1, <1>3, <1>4, <2>2, <3>1
  <2>4. P # {} => FirstOf(P, at, FALSE)
    <3> HIDE DEF P, at
    <3> QED BY <2>1, <2>3 DEF FirstOf
  <2> HIDE DEF lost
  <2> QED BY <2>1, <2>4 DEF Starts
<1>6. CASE U # NoKey
  <2>1. U \in Int /\ \A k \in Int : BelowUpper(r, k) <=> k < U \/ (~r.upperOpen /\ U = k)
    BY <1>6 DEF ProperRange, BelowUpper
  <2>2. I \in SUBSET (1..Len(keys)) /\ \A i \in 1..Len(keys) : i \in I <=> keys[i] >= U
    BY DEF UpFrom
  <2>3. at = LmdbStepped(keys, LmdbBound(keys, U, FALSE), r, FALSE, numeric)
    BY <1>6 DEF LmdbStart
  <2>4. lost <=> IF r.upperOpen THEN IF I = {} THEN IncludesNull(r, numeric) ELSE Twice(keys, keys[Min(I)])
                 ELSE \A i \in 1..Len(keys) : keys[i] # U
    BY <1>1, <1>6 DEF LmdbLost
  <2>5. SelectInSeq(keys, LAMBDA k : k >= U) = IF I # {} THEN Min(I) ELSE 0
    BY DEF SelectInSeq, UpFrom
  <2> HIDE DEF I, lost
  <2>6. CASE I = {}
    <3>1. LmdbBound(keys, U, FALSE) = Len(keys) + 1
      BY <2>5, <2>6 DEF LmdbBound
    <3>2. Len(keys) + 1 > Len(keys) /\ (Len(keys) + 1) - 1 = Len(keys) /\ Len(keys) + 1 \notin P
      BY <1>1
    <3>3. at = IF ~IncludesNull(r, numeric) /\ r.upperOpen THEN Len(keys) ELSE Len(keys) + 1
      BY <2>3, <3>1, <3>2 DEF LmdbStepped
    <3>4. \A i \in 1..Len(keys) : keys[i] < U
      BY <1>1, <2>1, <2>2, <2>6
    <3> HIDE DEF at
    <3>5. CASE ~r.upperOpen \/ IncludesNull(r, numeric)
      <4>1. lost
        BY <1>1, <2>1, <2>4, <2>6, <3>4, <3>5
      <4> QED BY <3>2, <3>3, <3>5, <4>1 DEF Starts
    <3>6. CASE r.upperOpen /\ ~IncludesNull(r, numeric)
      <4>1. ~lost /\ at = Len(keys)
        BY <2>4, <2>6, <3>3, <3>6
      <4>2. ASSUME NEW p \in P PROVE Len(keys) \in P /\ Len(keys) >= p
        <5>1. p \in 1..Len(keys) /\ Len(keys) \in 1..Len(keys) /\ p <= Len(keys)
          BY <1>1
        <5> QED BY <1>1, <1>3, <1>4, <2>1, <3>4, <5>1
      <4>3. P # {} => FirstOf(P, at, FALSE)
        <5> HIDE DEF P
        <5> QED BY <4>1, <4>2 DEF FirstOf
      <4> QED BY <4>1, <4>3 DEF Starts
    <3> QED BY <3>5, <3>6
  <2>7. CASE I # {}
    <3> DEFINE f == Min(I)
               J == {i \in 1..Len(keys) : keys[i] = keys[f]}
               l == Max(J)
    <3>1. f \in I /\ \A j \in I : f <= j
      BY <1>1, <2>2, <2>7, FirstPosition
    <3>2. f \in 1..Len(keys) /\ f # 0
      <4> HIDE DEF f
      <4> QED BY <2>2, <3>1
    <3>4. f \in J /\ J \in SUBSET (1..Len(keys))
      BY <3>2
    <3>5. LmdbBound(keys, U, FALSE) = l
      <4> DEFINE first == IF I # {} THEN Min(I) ELSE 0
                 last == {i \in 1..Len(keys) : keys[i] = keys[first]}
      <4>1. LmdbBound(keys, U, FALSE) =
              IF first = 0 THEN Len(keys) + 1 ELSE IF last # {} THEN Max(last) ELSE 0
        BY DEF LmdbBound, SelectInSeq, SelectLastInSeq, UpFrom, I
      <4>2. first = f /\ last = J
        BY <2>7
      <4>3. J # {}
        BY <3>4
      <4> HIDE DEF f, J, first, last
      <4> QED BY <3>2, <4>1, <4>2, <4>3
    <3>6. l \in J /\ \A j \in J : l >= j
      <4>1. J # {}
        BY <3>4
      <4> HIDE DEF J
      <4> QED BY <1>1, <3>4, <4>1, GreatestPosition
    <3>7. \A i \in 1..Len(keys) : i \in J <=> keys[i] = keys[f]
      OBVIOUS
    <3>8. r.upperOpen /\ lost <=> r.upperOpen /\ Twice(keys, keys[f])
      BY <2>4, <2>7
    <3> HIDE DEF f, J, l
    <3>9. l \in 1..Len(keys) /\ ~(l > Len(keys)) /\ keys[l] = keys[f] /\ keys[f] >= U /\ f <= l
          /\ keys[f] \in Int
      BY <1>1, <2>2, <3>1, <3>2, <3>4, <3>6, <3>7
    <3>10. at = IF ~Includes(r, keys[l]) /\ r.upperOpen THEN l - 1 ELSE l
      BY <2>3, <3>5, <3>9 DEF LmdbStepped
    <3> HIDE DEF at
    <3>11. CASE ~r.upperOpen /\ lost
      <4>1. at = l /\ keys[f] # U
        BY <2>4, <3>2, <3>10, <3>11
      <4>2. ~BelowUpper(r, keys[l])
        BY <2>1, <3>9, <4>1
      <4>3. at \notin P
        BY <1>3, <3>9, <4>1, <4>2
      <4> QED BY <3>11, <4>3 DEF Starts
    <3>12. CASE ~r.upperOpen /\ ~lost
      <4>1. PICK q \in 1..Len(keys) : keys[q] = U
        BY <2>4, <3>12
      <4>2. q \in I /\ f <= q
        BY <2>1, <2>2, <3>1, <4>1
      <4>3. keys[f] = U /\ keys[l] = U /\ at = l
        BY <1>2, <2>1, <3>2, <3>9, <3>10, <3>12, <4>1, <4>2
      <4>4. ASSUME NEW p \in P PROVE l \in P /\ l >= p
        <5>1. p \in 1..Len(keys) /\ AboveLower(r, keys[p]) /\ keys[p] \in Int
          BY <1>1, <1>3
        <5>2. keys[p] <= U
          BY <1>3, <2>1, <3>12, <5>1
        <5>3. l >= p
          <6>1. CASE l < p
            <7>1. keys[l] <= keys[p]
              BY <1>2, <3>9, <5>1, <6>1
            <7>2. p \in J
              BY <2>1, <3>7, <4>3, <5>1, <5>2, <7>1
            <7> QED BY <3>6, <7>2
          <6> QED BY <3>9, <5>1, <6>1
        <5>4. AboveLower(r, keys[l])
          BY <1>4, <3>9, <5>1, <5>3
        <5>5. BelowUpper(r, keys[l])
          BY <2>1, <3>12, <4>3
        <5> QED BY <1>3, <3>9, <5>3, <5>4, <5>5
      <4>5. P # {} => FirstOf(P, at, FALSE)
        <5> HIDE DEF P
        <5> QED BY <4>3, <4>4 DEF FirstOf
      <4> QED BY <3>12, <4>5 DEF Starts
    <3>13. CASE r.upperOpen
      <4>1. ~BelowUpper(r, keys[l])
        BY <2>1, <3>9, <3>13
      <4>2. at = l - 1
        BY <3>10, <3>13, <4>1 DEF Includes
      <4>3. CASE lost
        <5>1. PICK i \in 1..Len(keys), j \in 1..Len(keys) : i < j /\ keys[i] = keys[f] /\ keys[j] = keys[f]
          BY <1>1, <3>8, <3>13, <4>3 DEF Twice
        <5>2. j \in J /\ l >= j
          BY <3>6, <3>7, <5>1
        <5>3. l - 1 \in 1..Len(keys) /\ i <= l - 1
          BY <1>1, <3>9, <5>1, <5>2
        <5>4. keys[f] <= keys[l - 1] /\ keys[l - 1] \in Int
          BY <1>1, <1>2, <5>1, <5>3
        <5>5. ~BelowUpper(r, keys[l - 1])
          BY <2>1, <3>9, <3>13, <5>4
        <5>6. at \notin P
          BY <1>3, <4>2, <5>3, <5>5
        <5> QED BY <4>3, <5>6 DEF Starts
      <4>4. CASE ~lost
        <5>1. l = f
          <6>1. CASE f < l
            <7>1. Twice(keys, keys[f])
              BY <1>1, <3>2, <3>9, <6>1 DEF Twice
            <7> QED BY <3>8, <3>13, <4>4, <7>1
          <6> QED BY <3>2, <3>9, <6>1
        <5>2. ASSUME NEW p \in P PROVE f - 1 \in P /\ f - 1 >= p
          <6>1. p \in 1..Len(keys) /\ AboveLower(r, keys[p]) /\ keys[p] < U
            BY <1>1, <1>3, <2>1, <3>13
          <6>2. p < f
            <7>1. CASE f <= p
              <8>1. keys[f] <= keys[p]
                BY <1>2, <3>2, <6>1, <7>1
              <8> QED BY <1>1, <2>1, <3>9, <6>1, <8>1
            <7> QED BY <3>2, <6>1, <7>1
          <6>3. f - 1 \in 1..Len(keys) /\ p <= f - 1 /\ f - 1 >= p /\ ~(f <= f - 1)
            BY <1>1, <3>2, <6>1, <6>2
          <6>4. f - 1 \notin I
            BY <3>1, <6>3
          <6>5. keys[f - 1] < U /\ keys[f - 1] \in Int
            BY <1>1, <2>1, <2>2, <6>3, <6>4
          <6>6. AboveLower(r, keys[f - 1])
            BY <1>4, <6>1, <6>3
          <6> QED BY <1>3, <2>1, <6>3, <6>5, <6>6
        <5>3. P # {} => FirstOf(P, at, FALSE)
          <6> HIDE DEF P
          <6> QED BY <4>2, <5>1, <5>2 DEF FirstOf
        <5> QED BY <4>4, <5>3 DEF Starts
      <4> QED BY <4>3, <4>4
    <3> QED BY <3>11, <3>12, <3>13
  <2> QED BY <2>6, <2>7
<1> QED BY <1>5, <1>6

\* On a sorted table with any number of entries for a key, the scans of all four backends take the
\* entries of the range in order, none left out and none twice; but for LMDB's, which takes
\* none at all where its walk starts in the wrong place.
THEOREM ScansAreRight ==
    ASSUME NEW keys \in Seq(Int), Nondecreasing(keys), NEW r, ProperRange(r), NEW asc \in BOOLEAN,
           NEW numeric \in BOOLEAN
    PROVE  /\ MemoryScan(keys, r, asc) = InDirection(Ascending(Within(keys, r)), asc)
           /\ LevelScan(keys, r, asc) = InDirection(Ascending(Within(keys, r)), asc)
           /\ IdbScan(keys, r, asc) = InDirection(Ascending(Within(keys, r)), asc)
           /\ LmdbScan(keys, r, asc, numeric) =
                IF LmdbLost(keys, r, asc, numeric) THEN <<>> ELSE InDirection(Ascending(Within(keys, r)), asc)
<1>1. \A i \in DOMAIN keys : keys[i] \in Int
  OBVIOUS
<1>2. MemoryScan(keys, r, asc) = InDirection(Ascending(Within(keys, r)), asc)
  BY MemoryStartFacts, AllFrom DEF MemoryScan
<1>3. LevelScan(keys, r, asc) = InDirection(Ascending(Within(keys, r)), asc)
  <2> DEFINE o == LevelOptions(r)
             In(k) == /\ o.gt = NoKey \/ k > o.gt
                      /\ o.gte = NoKey \/ k >= o.gte
                      /\ o.lt = NoKey \/ k < o.lt
                      /\ o.lte = NoKey \/ k <= o.lte
  <2>1. \A k \in Int : In(k) <=> Includes(r, k)
    BY DEF LevelOptions, ProperRange, Includes, AboveLower, BelowUpper
  <2>2. LevelScan(keys, r, asc) = InDirection(Ascending({i \in DOMAIN keys : In(keys[i])}), asc)
    BY DEF LevelScan
  <2> HIDE DEF In
  <2>3. {i \in DOMAIN keys : In(keys[i])} = Within(keys, r)
    BY <1>1, <2>1 DEF Within
  <2> QED BY <2>2, <2>3
<1>4. IdbScan(keys, r, asc) = InDirection(Ascending(Within(keys, r)), asc)
  <2>1. \A k \in Int : Includes(IdbRange(r), k) <=> Includes(r, k)
    BY DEF IdbRange, ProperRange, Includes, AboveLower, BelowUpper, ExactMatch, Only, LowerBound, UpperBound, Bound
  <2>2. {i \in DOMAIN keys : Includes(IdbRange(r), keys[i])} = Within(keys, r)
    BY <1>1, <2>1 DEF Within
  <2> QED BY <2>2 DEF IdbScan
<1>5. LmdbScan(keys, r, asc, numeric) =
        IF LmdbLost(keys, r, asc, numeric) THEN <<>> ELSE InDirection(Ascending(Within(keys, r)), asc)
  <2> DEFINE at == LmdbStart(keys, r, asc, numeric)
             lost == LmdbLost(keys, r, asc, numeric)
  <2>1. Starts(Within(keys, r), at, asc, lost)
    <3>1. CASE asc
      BY <3>1, LmdbStartsUp
    <3>2. CASE ~asc
      BY <3>2, LmdbStartsDown
    <3> QED BY <3>1, <3>2
  <2>2. LmdbScan(keys, r, asc, numeric) = From(keys, at, asc, r)
    BY DEF LmdbScan
  <2> HIDE DEF at, lost
  <2>3. CASE lost
    <3>1. From(keys, at, asc, r) = <<>>
      BY <2>1, <2>3, NothingFrom DEF Starts
    <3> QED BY <2>2, <2>3, <3>1 DEF lost
  <2>4. CASE ~lost
    <3>1. From(keys, at, asc, r) = InDirection(Ascending(Within(keys, r)), asc)
      BY <2>1, <2>4, AllFrom DEF Starts
    <3> QED BY <2>2, <2>4, <3>1 DEF lost
  <2> QED BY <2>3, <2>4
<1> QED BY <1>2, <1>3, <1>4, <1>5
=============================================================================
