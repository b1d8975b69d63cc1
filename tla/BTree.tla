------------------------------- MODULE BTree -------------------------------
(***************************************************************************)
(* The B+ tree under every in-memory index (src/main/generic/utils/        *)
(* BTree.js): leaves hold the keys and records and are linked in both      *)
(* directions, inner nodes hold separators, and the tree object has one    *)
(* cursor that every operation moves.                                      *)
(*                                                                         *)
(* Nodes are numbered; root, kids, prev and next are numbers.  A leaf has  *)
(* no kids.  Every operation ends in a renumbering of the nodes that the   *)
(* root reaches, in breadth-first order, the root first: which number a    *)
(* node has is nothing the program can see.  A link to a node that the     *)
(* root does not reach becomes Lost.  Positions start at 1 (the code's     *)
(* start at 0), and item = 0 is the code's _item === -1; the leaf that the *)
(* cursor keeps then is never read and is None here.                       *)
(***************************************************************************)
EXTENDS Integers, Sequences, FiniteSets, SequencesExt, FiniteSetsExt

CONSTANTS Key,              \* the keys, integers
          Orders,           \* the orders a tree may be created with
          NoKey,            \* null, or undefined where a bound is left out
          MaxStep           \* the longest skip

ASSUME BTreeAssumption ==
    Key \subseteq Int /\ NoKey \notin Int /\ Orders \subseteq Nat \ (0..2) /\ MaxStep \in Nat

VARIABLES order, node, cursor, length,
          content           \* the keys inserted and not removed: what the tree should hold

vars == <<order, node, cursor, length, content>>

None == 0                   \* the code's null
Lost == -1
Root == 1

\* maxkey, minkyl, minkyn of the constructor
MaxKeys == order - 1
MinLeaf == order \div 2
MinInner == MaxKeys \div 2

Leaf(keys, recs, prev, next) ==
    [keys |-> keys, recs |-> recs, kids |-> <<>>, prev |-> prev, next |-> next]
Inner(keys, kids) ==
    [keys |-> keys, recs |-> <<>>, kids |-> kids, prev |-> None, next |-> None]

IsLeaf(h, n) == h[n].kids = <<>>
Fresh(h) == Max(DOMAIN h) + 1
AddNode(h, rec) == [n \in DOMAIN h \cup {Fresh(h)} |-> IF n = Fresh(h) THEN rec ELSE h[n]]

\* The record of a key: one payload per key, so that a record that lost its key shows.
RecordOf(k) == <<k>>

-----------------------------------------------------------------------------
(* Finding a place in a node.                                              *)

\* InnerNode.getItem: the child to go down to, the first separator above key.
ChildOf(keys, key) ==
    LET i == SelectInSeq(keys, LAMBDA s : key < s)
    IN  IF i = 0 THEN Len(keys) + 1 ELSE i

\* LeafNode.getItem for the three modes of NEAR_MODE.
Item(keys, key, near) ==
    CASE near = "GE" -> SelectInSeq(keys, LAMBDA s : key <= s)
      [] near = "LE" -> SelectLastInSeq(keys, LAMBDA s : key >= s)
      [] near = "NONE" -> SelectInSeq(keys, LAMBDA s : key = s)

\* Where addKey puts a new key.
Place(keys, key) ==
    LET i == SelectInSeq(keys, LAMBDA s : key <= s)
    IN  IF i = 0 THEN Len(keys) + 1 ELSE i

\* The nodes from the root down to the leaf responsible for key.
RECURSIVE PathFrom(_, _, _)
PathFrom(h, n, key) ==
    IF IsLeaf(h, n) THEN <<n>>
    ELSE <<n>> \o PathFrom(h, h[n].kids[ChildOf(h[n].keys, key)], key)

\* The nodes below n, level by level, and the renumbering by them.
RECURSIVE LevelOrder(_, _)
LevelOrder(h, queue) ==
    IF queue = <<>> THEN <<>>
    ELSE <<Head(queue)>> \o LevelOrder(h, Tail(queue) \o h[Head(queue)].kids)

\* The tree [heap, top] in canonical form, and the new number of one of its nodes.
NameIn(seq, n) == IF n = None THEN None
                  ELSE IF Contains(seq, n) THEN SelectInSeq(seq, LAMBDA m : m = n) ELSE Lost
Renumbered(tree) ==
    LET h   == tree.heap
        seq == LevelOrder(h, <<tree.top>>)
        Name(n) == NameIn(seq, n)
    IN  [n \in DOMAIN seq |->
            [h[seq[n]] EXCEPT !.kids = [i \in DOMAIN @ |-> Name(@[i])],
                              !.prev = Name(@), !.next = Name(@)]]

-----------------------------------------------------------------------------
(* Cursors.  Every operation returns the cursor it leaves.                 *)

AtEnd == [leaf |-> None, item |-> 0, eof |-> TRUE, found |-> FALSE, key |-> NoKey, rec |-> NoKey]
At(h, leaf, item, found) ==
    [leaf |-> leaf, item |-> item, eof |-> FALSE, found |-> found,
     key |-> h[leaf].keys[item], rec |-> h[leaf].recs[item]]

\* Mutant: a search that ends between two leaves stays where it is.
SeekNoHop(h, r, key, near) ==
    LET leaf == Last(PathFrom(h, r, key))
        i    == Item(h[leaf].keys, key, near)
    IN  IF i = 0 THEN AtEnd ELSE At(h, leaf, i, h[leaf].keys[i] = key)

\* seek: the responsible leaf, or its neighbour where that has nothing near key.
SeekIn(h, r, key, near) ==
    LET leaf == Last(PathFrom(h, r, key))
        i    == Item(h[leaf].keys, key, near)
        hop  == CASE i # 0 -> None
                  [] near = "GE" -> h[leaf].next
                  [] near = "LE" -> h[leaf].prev
                  [] OTHER -> None
        at   == IF hop # None THEN hop ELSE leaf
        j    == CASE hop = None -> i
                  [] near = "GE" -> 1
                  [] OTHER -> Len(h[hop].keys)
    IN  IF j = 0 THEN AtEnd ELSE At(h, at, j, h[at].keys[j] = key)

\* skip: walk the chain of leaves, cnt entries further or back.
RECURSIVE Forward(_, _, _, _)
Forward(h, leaf, item, cnt) ==
    IF Len(h[leaf].keys) - item >= cnt THEN At(h, leaf, item + cnt, TRUE)
    ELSE IF h[leaf].next = None THEN AtEnd
    ELSE Forward(h, h[leaf].next, 1, cnt - (Len(h[leaf].keys) - item) - 1)

RECURSIVE Backward(_, _, _, _)
Backward(h, leaf, item, cnt) ==
    IF item > cnt THEN At(h, leaf, item - cnt, TRUE)
    ELSE IF h[leaf].prev = None THEN AtEnd
    ELSE Backward(h, h[leaf].prev, Len(h[h[leaf].prev].keys), cnt - item)

Skipped(h, c, cnt) ==
    IF c.item = 0 \/ c.eof THEN AtEnd
    ELSE IF cnt > 0 THEN Forward(h, c.leaf, c.item, cnt)
    ELSE Backward(h, c.leaf, c.item, -cnt)

\* goTop and goBottom
RECURSIVE Edge(_, _, _)
Edge(h, n, top) ==
    IF IsLeaf(h, n) THEN n
    ELSE Edge(h, IF top THEN h[n].kids[1] ELSE Last(h[n].kids), top)

Top(h, r) ==
    LET leaf == Edge(h, r, TRUE)
    IN  IF h[leaf].keys = <<>> THEN AtEnd ELSE At(h, leaf, 1, TRUE)
Bottom(h, r) ==
    LET leaf == Edge(h, r, FALSE)
    IN  IF h[leaf].keys = <<>> THEN AtEnd ELSE At(h, leaf, Len(h[leaf].keys), TRUE)

\* Mutant: the first entry is the zeroth.
JumpedFromZero(h, r, cnt) ==
    LET c == IF cnt < 0 THEN Bottom(h, r) ELSE Top(h, r) IN IF c.eof THEN c ELSE Skipped(h, c, cnt)

\* goto: the cnt-th entry from the top, or from the bottom for a negative cnt.
Jumped(h, r, cnt) ==
    LET c == IF cnt < 0 THEN Bottom(h, r) ELSE Top(h, r)
    IN  IF c.eof THEN c ELSE Skipped(h, c, IF cnt < 0 THEN cnt + 1 ELSE cnt - 1)

\* Mutant: an open bound skips an entry even if it is not the bound.
LowerBoundSkips(h, r, lower, open) ==
    LET c == SeekIn(h, r, lower, "GE") IN IF ~c.eof /\ open THEN Skipped(h, c, 1) ELSE c

\* goToLowerBound and goToUpperBound; lower = NoKey is the code's undefined.
LowerBound(h, r, lower, open) ==
    IF lower = NoKey THEN Top(h, r)
    ELSE LET c == SeekIn(h, r, lower, "GE")
         IN  IF ~c.eof /\ open /\ c.key = lower THEN Skipped(h, c, 1) ELSE c
UpperBound(h, r, upper, open) ==
    IF upper = NoKey THEN Bottom(h, r)
    ELSE LET c == SeekIn(h, r, upper, "LE")
         IN  IF ~c.eof /\ open /\ c.key = upper THEN Skipped(h, c, -1) ELSE c

\* Mutant: only one leaf is counted.
BeforeOneLeaf(h, leaf) == IF h[leaf].prev = None THEN 0 ELSE Len(h[h[leaf].prev].keys)

\* keynum: count back along the chain; -1 without a current entry.
RECURSIVE Before(_, _)
Before(h, leaf) ==
    IF h[leaf].prev = None THEN 0
    ELSE Len(h[h[leaf].prev].keys) + Before(h, h[leaf].prev)
Keynum(h, c) == IF c.leaf = None \/ c.item = 0 THEN -1 ELSE c.item + Before(h, c.leaf)

-----------------------------------------------------------------------------
(* Insertion.                                                              *)

Put(h, leaf, key) ==
    LET p == Place(h[leaf].keys, key)
    IN  [h EXCEPT ![leaf].keys = InsertAt(@, p, key),
                  ![leaf].recs = InsertAt(@, p, RecordOf(key))]

Cut(s, mov) == <<SubSeq(s, 1, Len(s) - mov), SubSeq(s, Len(s) - mov + 1, Len(s))>>

\* Mutant: the leaf after the split one keeps pointing back at the left half.
LeafSplitForgetsBack(h, n) ==
    LET mov == Len(h[n].keys) \div 2
        k   == Cut(h[n].keys, mov)
        r   == Cut(h[n].recs, mov)
        new == Fresh(h)
    IN  [AddNode(h, Leaf(k[2], r[2], n, h[n].next)) EXCEPT
            ![n].keys = k[1], ![n].recs = r[1], ![n].next = new]

\* LeafNode.split: the upper half moves to a new leaf on the right.
LeafSplit(h, n) ==
    LET mov == Len(h[n].keys) \div 2
        k   == Cut(h[n].keys, mov)
        r   == Cut(h[n].recs, mov)
        new == Fresh(h)
        g   == [AddNode(h, Leaf(k[2], r[2], n, h[n].next)) EXCEPT
                   ![n].keys = k[1], ![n].recs = r[1], ![n].next = new]
    IN  IF h[n].next = None THEN g ELSE [g EXCEPT ![h[n].next].prev = new]

\* InnerNode.split, and the separator that insert takes from the left half after it.
InnerSplit(h, n) ==
    LET mov == (Len(h[n].keys) + 1) \div 2 - 1
        k   == Cut(h[n].keys, mov)
        c   == Cut(h[n].kids, mov + 1)
    IN  [heap |-> [AddNode(h, Inner(k[2], c[2])) EXCEPT ![n].keys = Front(k[1]), ![n].kids = c[1]],
         key  |-> Last(k[1])]

\* InnerNode.addKey
Adopt(h, n, key, l, r) ==
    LET p == Place(h[n].keys, key)
    IN  [h EXCEPT ![n].keys = InsertAt(@, p, key),
                  ![n].kids = [InsertAt(@, p, l) EXCEPT ![p + 1] = r]]

\* insert's loop: the halves l and r of a split node go to the parent, which may split.
RECURSIVE Raise(_, _, _, _, _, _)
Raise(h, top, stack, key, l, r) ==
    IF stack = <<>> THEN [heap |-> AddNode(h, Inner(<<key>>, <<l, r>>)), top |-> Fresh(h)]
    ELSE LET n == Last(stack)
             g == Adopt(h, n, key, l, r)
             s == InnerSplit(g, n)
         IN  IF Len(g[n].keys) <= MaxKeys THEN [heap |-> g, top |-> top]
             ELSE Raise(s.heap, top, Front(stack), s.key, n, Fresh(g))

Inserted(h, top, key) ==
    LET path == PathFrom(h, top, key)
        leaf == Last(path)
        g    == Put(h, leaf, key)
        s    == LeafSplit(g, leaf)
        new  == Fresh(g)
    IN  IF Len(g[leaf].keys) <= MaxKeys THEN [heap |-> g, top |-> top, leaf |-> leaf]
        ELSE LET t == Raise(s, top, Front(path), s[new].keys[1], leaf, new)
             IN  [heap |-> t.heap, top |-> t.top,
                  leaf |-> IF Contains(s[leaf].keys, key) THEN leaf ELSE new]

-----------------------------------------------------------------------------
(* Deletion.                                                               *)

\* _fixNodes: the last separator from in the deepest node of the stack that has one.
FixNodes(h, stack, from, to) ==
    LET at == SelectLastInSeq(stack, LAMBDA n : Contains(h[n].keys, from))
        i  == SelectLastInSeq(h[stack[at]].keys, LAMBDA s : s = from)
    IN  IF at = 0 THEN h ELSE [h EXCEPT ![stack[at]].keys[i] = to]

FixFirst(h, stack, leaf, item, key) ==
    IF item = 1 THEN FixNodes(h, stack, key, h[leaf].keys[1]) ELSE h

\* The separator of a leaf that lost its item-th key.
DelKey(h, leaf, item, key) == IF item = 1 THEN key ELSE h[leaf].keys[1]

StealLeafLeft(h, stack, leaf, sib, delKey) ==
    LET g == [h EXCEPT ![leaf].keys = <<Last(h[sib].keys)>> \o @,
                       ![leaf].recs = <<Last(h[sib].recs)>> \o @,
                       ![sib].keys = Front(@), ![sib].recs = Front(@)]
    IN  FixNodes(g, stack, delKey, g[leaf].keys[1])

\* Mutant: the right sibling's separator stays at the key that moved away.
StealLeafRightUnfixed(h, stack, leaf, sib, item, key) ==
    LET g == [h EXCEPT ![leaf].keys = Append(@, Head(h[sib].keys)),
                       ![leaf].recs = Append(@, Head(h[sib].recs)),
                       ![sib].keys = Tail(@), ![sib].recs = Tail(@)]
    IN  FixFirst(g, stack, leaf, item, key)

StealLeafRight(h, stack, leaf, sib, item, key) ==
    LET g == [h EXCEPT ![leaf].keys = Append(@, Head(h[sib].keys)),
                       ![leaf].recs = Append(@, Head(h[sib].recs)),
                       ![sib].keys = Tail(@), ![sib].recs = Tail(@)]
        f == FixFirst(g, stack, leaf, item, key)
    IN  FixNodes(f, stack, Last(f[leaf].keys), f[sib].keys[1])

\* LeafNode.merge: from goes into leaf, and out of the parent with its separator.
LeafMerge(h, leaf, from, par, frKey) ==
    LET i   == SelectLastInSeq(h[par].keys, LAMBDA s : s = frKey)
        pos == IF i = 0 THEN Len(h[par].keys) ELSE i
        g   == [h EXCEPT ![leaf].keys = @ \o h[from].keys, ![leaf].recs = @ \o h[from].recs,
                         ![leaf].next = h[from].next,
                         ![par].keys = RemoveAt(@, pos), ![par].kids = RemoveAt(@, pos + 1)]
    IN  IF h[from].next = None THEN g ELSE [g EXCEPT ![h[from].next].prev = leaf]

\* InnerNode.merge
InnerMerge(h, n, from, par, i) ==
    [h EXCEPT ![n].keys = Append(@, h[par].keys[i]) \o h[from].keys,
              ![n].kids = @ \o h[from].kids,
              ![par].keys = RemoveAt(@, i), ![par].kids = RemoveAt(@, i + 1)]

\* A separator turns over the parent when an inner node takes a child from its sibling.
StealInnerRight(h, n, sib, par, i) ==
    [h EXCEPT ![n].keys = Append(@, h[par].keys[i]), ![n].kids = Append(@, Head(h[sib].kids)),
              ![par].keys[i] = Head(h[sib].keys),
              ![sib].keys = Tail(@), ![sib].kids = Tail(@)]
StealInnerLeft(h, n, sib, par, i) ==
    [h EXCEPT ![n].keys = <<h[par].keys[i - 1]>> \o @, ![n].kids = <<Last(h[sib].kids)>> \o @,
              ![par].keys[i - 1] = Last(h[sib].keys),
              ![sib].keys = Front(@), ![sib].kids = Front(@)]

\* The sibling d places from the i-th child of par.
Sibling(h, par, i, d) == IF i + d \in DOMAIN h[par].kids THEN h[par].kids[i + d] ELSE None
Spare(h, sib, least) == sib # None /\ Len(h[sib].keys) > least

\* _del's loop over the inner nodes that a merge below left with too few keys.
RECURSIVE Refill(_, _, _, _)
Refill(h, top, stack, delKey) ==
    LET n    == Last(stack)
        par  == stack[Len(stack) - 1]
        i    == ChildOf(h[par].keys, delKey)
        sibL == Sibling(h, par, i, -1)
        sibR == Sibling(h, par, i, 1)
        left == sibL # None
        m    == IF left THEN InnerMerge(h, sibL, n, par, i - 1) ELSE InnerMerge(h, n, sibR, par, i)
    IN  IF Len(h[n].keys) >= MinInner \/ Len(stack) = 1 THEN [heap |-> h, top |-> top]
        ELSE IF Spare(h, sibR, MinInner) THEN [heap |-> StealInnerRight(h, n, sibR, par, i), top |-> top]
        ELSE IF Spare(h, sibL, MinInner) THEN [heap |-> StealInnerLeft(h, n, sibL, par, i), top |-> top]
        ELSE IF Len(stack) = 2 /\ m[par].keys = <<>> THEN [heap |-> m, top |-> IF left THEN sibL ELSE n]
        ELSE Refill(m, top, Front(stack), h[par].keys[IF left THEN i - 1 ELSE i])

\* _del, for a key the tree holds.
Deleted(h0, top, key) ==
    LET path == PathFrom(h0, top, key)
        leaf == Last(path)
        stack == Front(path)
        item == Item(h0[leaf].keys, key, "NONE")
        h    == [h0 EXCEPT ![leaf].keys = RemoveAt(@, item), ![leaf].recs = RemoveAt(@, item)]
        Done(g) == [heap |-> g, top |-> top]
        par  == Last(stack)
        i    == ChildOf(h[par].keys, key)
        sibL == Sibling(h, par, i, -1)
        sibR == Sibling(h, par, i, 1)
        left == sibL # None
        delKey == IF left THEN DelKey(h, leaf, item, key) ELSE h[sibR].keys[1]
        m    == IF left THEN LeafMerge(h, sibL, leaf, par, delKey)
                ELSE FixFirst(LeafMerge(h, leaf, sibR, par, delKey), stack, leaf, item, key)
    IN  IF leaf = top THEN Done(h)
        ELSE IF Len(h[leaf].keys) >= MinLeaf THEN Done(FixFirst(h, stack, leaf, item, key))
        ELSE IF Spare(h, sibL, MinLeaf)
        THEN Done(StealLeafLeft(h, stack, leaf, sibL, DelKey(h, leaf, item, key)))
        ELSE IF Spare(h, sibR, MinLeaf) THEN Done(StealLeafRight(h, stack, leaf, sibR, item, key))
        ELSE IF Len(stack) = 1 /\ m[par].keys = <<>> THEN [heap |-> m, top |-> IF left THEN sibL ELSE leaf]
        ELSE Refill(m, top, stack, delKey)

-----------------------------------------------------------------------------
(* Packing: the entries are laid out anew, as dense as the order allows.   *)

RECURSIVE Chain(_, _)
Chain(h, leaf) == IF leaf = None THEN <<>> ELSE <<leaf>> \o Chain(h, h[leaf].next)

RECURSIVE KeysFrom(_, _)
KeysFrom(h, leaf) == IF leaf = None THEN <<>> ELSE h[leaf].keys \o KeysFrom(h, h[leaf].next)
Entries(h, top) == KeysFrom(h, Edge(h, top, TRUE))

\* The sizes of the groups n things fall into: full ones, the last raised to least.
Sizes(n, full, least) ==
    LET m    == (n + full - 1) \div full
        last == n - (m - 1) * full
        mov  == IF m > 1 /\ last < least THEN least - last ELSE 0
    IN  [i \in 1..m |-> CASE i = m -> last + mov
                          [] i = m - 1 -> full - mov
                          [] OTHER -> full]

\* The i-th group of s.
Group(s, sizes, i) ==
    LET before == FoldSeq(LAMBDA x, y : x + y, 0, SubSeq(sizes, 1, i - 1))
    IN  SubSeq(s, before + 1, before + sizes[i])

\* kids, separated by seps, get a level of inner nodes above them, and so on up to a root.
RECURSIVE Rebuilt(_, _, _)
Rebuilt(h, kids, seps) ==
    IF Len(kids) = 1 THEN [heap |-> h, top |-> kids[1]]
    ELSE LET sizes == Sizes(Len(kids), MaxKeys + 1, MinInner + 1)
             ends  == Append(seps, NoKey)
             base  == Fresh(h) - 1
             g     == [n \in DOMAIN h \cup {base + i : i \in DOMAIN sizes} |->
                          IF n \in DOMAIN h THEN h[n]
                          ELSE Inner(Front(Group(ends, sizes, n - base)), Group(kids, sizes, n - base))]
         IN  Rebuilt(g, [i \in DOMAIN sizes |-> base + i],
                     [i \in 1..(Len(sizes) - 1) |-> Last(Group(ends, sizes, i))])

\* Mutant: the last leaf is left with what remains for it.
PackedRagged(h, top) ==
    LET keys  == Entries(h, top)
        sizes == Sizes(Len(keys), MaxKeys, 1)
        m     == Len(sizes)
        g     == [i \in 1..m |->
                     LET ks == Group(keys, sizes, i)
                     IN  Leaf(ks, [j \in DOMAIN ks |-> RecordOf(ks[j])], i - 1, (i + 1) % (m + 1))]
    IN  Rebuilt(g, [i \in 1..m |-> i], [i \in 1..(m - 1) |-> g[i + 1].keys[1]])

Packed(h, top) ==
    LET keys  == Entries(h, top)
        sizes == Sizes(Len(keys), MaxKeys, MinLeaf)
        m     == Len(sizes)
        g     == [i \in 1..m |->
                     LET ks == Group(keys, sizes, i)
                     IN  Leaf(ks, [j \in DOMAIN ks |-> RecordOf(ks[j])], i - 1, (i + 1) % (m + 1))]
    IN  Rebuilt(g, [i \in 1..m |-> i], [i \in 1..(m - 1) |-> g[i + 1].keys[1]])

-----------------------------------------------------------------------------
(* The operations of the tree.                                             *)

Init ==
    /\ order \in Orders
    /\ node = (Root :> Leaf(<<>>, <<>>, None, None))
    /\ cursor = AtEnd
    /\ length = 0
    /\ content = {}

Insert(key) ==
    LET leaf == Last(PathFrom(node, Root, key))
        tree == Inserted(node, Root, key)
        at   == NameIn(LevelOrder(tree.heap, <<tree.top>>), tree.leaf)
    IN  IF Contains(node[leaf].keys, key)
        THEN /\ cursor' = At(node, leaf, Item(node[leaf].keys, key, "NONE"), TRUE)
             /\ UNCHANGED <<order, node, length, content>>
        ELSE /\ node' = Renumbered(tree)
             /\ cursor' = At(node', at, Item(node'[at].keys, key, "NONE"), FALSE)
             /\ length' = length + 1
             /\ content' = content \cup {key}
             /\ UNCHANGED order

RemoveKey(key) ==
    LET leaf == Last(PathFrom(node, Root, key))
    IN  IF ~Contains(node[leaf].keys, key)
        THEN cursor' = AtEnd /\ UNCHANGED <<order, node, length, content>>
        ELSE /\ node' = Renumbered(Deleted(node, Root, key))
             /\ cursor' = [SeekIn(node', Root, key, "GE") EXCEPT !.found = TRUE]
             /\ length' = length - 1
             /\ content' = content \ {key}
             /\ UNCHANGED order

\* remove() without a key removes the entry under the cursor.
RemoveCurrent ==
    IF cursor.item = 0
    THEN cursor' = [cursor EXCEPT !.eof = TRUE, !.found = FALSE] /\ UNCHANGED <<order, node, length, content>>
    ELSE RemoveKey(node[cursor.leaf].keys[cursor.item])

MoveTo(c) == cursor' = c /\ UNCHANGED <<order, node, length, content>>

Seek(key, near) == MoveTo(SeekIn(node, Root, key, near))
Skip(cnt) == MoveTo(Skipped(node, cursor, cnt))
GoTo(cnt) == MoveTo(Jumped(node, Root, cnt))
GoToLowerBound(key, open) == MoveTo(LowerBound(node, Root, key, open))
GoToUpperBound(key, open) == MoveTo(UpperBound(node, Root, key, open))

\* pack leaves a tree of one leaf alone.
Pack ==
    /\ node' = IF IsLeaf(node, Root) THEN node ELSE Renumbered(Packed(node, Root))
    /\ cursor' = Top(node', Root)
    /\ UNCHANGED <<order, length, content>>

Next ==
    \/ \E key \in Key : Insert(key) \/ RemoveKey(key)
    \/ RemoveCurrent
    \/ \E key \in Key, near \in {"NONE", "LE", "GE"} : Seek(key, near)
    \/ \E cnt \in -MaxStep..MaxStep : Skip(cnt) \/ GoTo(cnt)
    \/ \E key \in Key \cup {NoKey}, open \in BOOLEAN : GoToLowerBound(key, open) \/ GoToUpperBound(key, open)
    \/ Pack

Spec == Init /\ [][Next]_vars

-----------------------------------------------------------------------------
(* Properties.                                                             *)

\* The keys of a set in their order.
Ascending(S) == [i \in 1..Cardinality(S) |-> CHOOSE k \in S : Cardinality({l \in S : l <= k}) = i]
LeastOf(S) == IF S = {} THEN NoKey ELSE Min(S)
GreatestOf(S) == IF S = {} THEN NoKey ELSE Max(S)

RECURSIVE Leaves(_)
Leaves(n) == IF IsLeaf(node, n) THEN <<n>>
             ELSE FlattenSeq([i \in DOMAIN node[n].kids |-> Leaves(node[n].kids[i])])

\* Whatever was inserted, removed and packed, the leaves hold the surviving keys in ascending
\* order, each with its own record; the links run through all of them in both directions, and
\* length counts the entries (leaf split, merge, stealing from siblings, pack).
LeavesHoldContent ==
    LET leaves == Leaves(Root)
    IN  /\ FlattenSeq([i \in DOMAIN leaves |-> node[leaves[i]].keys]) = Ascending(content)
        /\ FlattenSeq([i \in DOMAIN leaves |-> node[leaves[i]].recs])
              = [i \in DOMAIN Ascending(content) |-> RecordOf(Ascending(content)[i])]
        /\ \A i \in DOMAIN leaves :
              /\ node[leaves[i]].prev = IF i = 1 THEN None ELSE leaves[i - 1]
              /\ node[leaves[i]].next = IF i = Len(leaves) THEN None ELSE leaves[i + 1]
        /\ length = Cardinality(content)

\* "The only key values that appear in the internal nodes are the first key values from each
\* leaf, with the exception of the key from the very first leaf" (BTree.js:215): the separator
\* left of a child is the least key below it, also after _fixNodes, steals and merges.
SeparatorsAreFirstKeys ==
    \A n \in DOMAIN node : ~IsLeaf(node, n) =>
        /\ Len(node[n].kids) = Len(node[n].keys) + 1
        /\ \A i \in DOMAIN node[n].keys : node[n].keys[i] = node[Edge(node, node[n].kids[i + 1], TRUE)].keys[1]

RECURSIVE Depth(_)
Depth(n) == IF IsLeaf(node, n) THEN 0 ELSE 1 + Max({Depth(m) : m \in ToSet(node[n].kids)})

\* The tree stays balanced: a leaf has [order/2, order-1] entries and an inner node
\* [(order-1)/2, order-1] (BTree.js:332), the root excepted, and all leaves are equally deep.
Balanced ==
    /\ \A n \in DOMAIN node \ {Root} :
          Len(node[n].keys) \in (IF IsLeaf(node, n) THEN MinLeaf ELSE MinInner)..MaxKeys
    /\ Len(node[Root].keys) <= MaxKeys
    /\ \A n \in DOMAIN node : \A m, l \in ToSet(node[n].kids) : Depth(m) = Depth(l)

\* The cursor never dangles: the key and record it reports are those of the entry it is on,
\* which is still in the tree although nodes were split, merged or rebuilt under it, and keynum
\* is the rank of that key.
CursorIsSound ==
    IF cursor.item = 0 THEN cursor.eof /\ cursor.key = NoKey /\ Keynum(node, cursor) = -1
    ELSE /\ ~cursor.eof
         /\ cursor.item \in DOMAIN node[cursor.leaf].keys
         /\ cursor.key = node[cursor.leaf].keys[cursor.item] /\ cursor.rec = RecordOf(cursor.key)
         /\ Keynum(node, cursor) = Cardinality({k \in content : k <= cursor.key})

\* In every tree, seek and the two bound searches find for every argument the key that the sorted
\* set of keys gives, across leaf boundaries and for keys that are not in the tree.
SearchesAgree ==
    \A k \in Key :
        LET above == {c \in content : c > k}
            below == {c \in content : c < k}
            same  == content \cap {k}
        IN  /\ SeekIn(node, Root, k, "NONE").key = LeastOf(same)
            /\ SeekIn(node, Root, k, "GE").key = LeastOf(above \cup same)
            /\ SeekIn(node, Root, k, "LE").key = GreatestOf(below \cup same)
            /\ LowerBound(node, Root, k, TRUE).key = LeastOf(above)
            /\ LowerBound(node, Root, k, FALSE).key = LeastOf(above \cup same)
            /\ UpperBound(node, Root, k, TRUE).key = GreatestOf(below)
            /\ UpperBound(node, Root, k, FALSE).key = GreatestOf(below \cup same)

\* The i-th key of the content, or none.
Ranked(i) == IF i \in DOMAIN Ascending(content) THEN Ascending(content)[i] ELSE NoKey

\* From every cursor, skip(n) reaches the entry n places on (or none), and goto(n) the n-th entry
\* from either end, however many leaves are in between.
StepsAgree ==
    \A cnt \in -MaxStep..MaxStep :
        /\ cursor.item # 0 => Skipped(node, cursor, cnt).key = Ranked(Keynum(node, cursor) + cnt)
        /\ Jumped(node, Root, cnt).key = Ranked(IF cnt < 0 THEN Cardinality(content) + cnt + 1 ELSE cnt)

\* Every search and every step from every cursor agrees with the sorted content.
LookupsAgree == SearchesAgree /\ StepsAgree

\* A removal, by key or under the cursor, reports success and leaves the cursor on the next
\* greater entry (BTree.js:437), which may be in a leaf that the removal merged or refilled.
RemovalMovesOn ==
    [][\A k \in content : content' = content \ {k} =>
          cursor'.found /\ cursor'.key = LeastOf({c \in content : c > k})]_vars

=============================================================================
