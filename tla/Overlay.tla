------------------------------ MODULE Overlay ------------------------------
(***************************************************************************)
(* The in-memory difference a Transaction keeps on top of its parent       *)
(* (src/main/generic/Transaction.js): the maps _modified and _removed and  *)
(* the flag _truncated, and the reverse difference a Snapshot keeps so     *)
(* that its contents stay what they were (src/main/generic/Snapshot.js).   *)
(*                                                                         *)
(* _put takes a key out of _removed and _remove takes it out of _modified, *)
(* so the two are disjoint and one function represents both: cell[k] is    *)
(*   Untouched  the key is in neither,                                     *)
(*   Absent     the key is in _removed,                                    *)
(*   Undefined  the key is in _modified with the value undefined (only a   *)
(*              snapshot gets there),                                      *)
(*   a value    the key is in _modified with that value.                   *)
(***************************************************************************)
CONSTANTS Key, Value,
          Falsy,                       \* values JavaScript treats as false: 0, '', false
          Absent, Untouched, Undefined

ASSUME OverlayAssumption ==
    /\ Falsy \subseteq Value
    /\ {Absent, Untouched, Undefined} \cap Value = {}
    /\ Absent # Untouched /\ Untouched # Undefined /\ Absent # Undefined

\* What a store holds: a value or nothing for each key.
Contents == [Key -> Value \cup {Absent}]

Change == [cell : [Key -> Value \cup {Absent, Untouched, Undefined}],
           truncated : BOOLEAN]

Nothing == [k \in Key |-> Absent]
NoChange == [cell |-> [k \in Key |-> Untouched], truncated |-> FALSE]

-----------------------------------------------------------------------------
\* Transaction.get: the four-way order removed, modified, truncated, parent.
Get(c, below, k) ==
    IF c.cell[k] = Untouched
      THEN IF c.truncated THEN Absent ELSE below[k]
      ELSE IF c.cell[k] = Undefined THEN Absent ELSE c.cell[k]

\* Everything a reader of the change c over the contents below can get.
On(c, below) == [k \in Key |-> Get(c, below, k)]

\* Transaction.keys: unlike get it reports a key whose value is undefined.
KeysOn(c, belowKeys) ==
    (IF c.truncated THEN {} ELSE {k \in belowKeys : c.cell[k] # Absent})
        \cup {k \in Key : c.cell[k] \notin {Untouched, Absent}}

PutKey(c, k, v) == [c EXCEPT !.cell[k] = v]
RemoveKey(c, k) == [c EXCEPT !.cell[k] = Absent]
Emptied == [cell |-> [k \in Key |-> Untouched], truncated |-> TRUE]

\* Mutants: what is below wins; removals are not passed down.
MergeUnder(c, d) ==
    [cell |-> [k \in Key |-> IF c.cell[k] # Untouched THEN c.cell[k] ELSE d.cell[k]],
     truncated |-> c.truncated \/ d.truncated]
MergePuts(c, d) ==
    [cell |-> [k \in Key |-> IF d.cell[k] \notin {Untouched, Absent} THEN d.cell[k]
                             ELSE IF d.truncated THEN Untouched ELSE c.cell[k]],
     truncated |-> c.truncated \/ d.truncated]

\* Transaction._applySync: truncate, then the puts, then the removals of d.
Merge(c, d) ==
    [cell |-> [k \in Key |-> IF d.cell[k] # Untouched THEN d.cell[k]
                             ELSE IF d.truncated THEN Untouched ELSE c.cell[k]],
     truncated |-> c.truncated \/ d.truncated]

-----------------------------------------------------------------------------
\* _modified.has(k): the snapshot already remembers an old value of k.
Remembers(c, k) == c.cell[k] \notin {Untouched, Absent}

\* Mutant: removed keys are not remembered.
OldCellOfPut(c, d, old, k) ==
    IF Remembers(c, k) \/ d.cell[k] \in {Untouched, Absent} THEN c.cell[k] ELSE old[k]

\* What a snapshot with differences c that reads old keeps for k when d is
\* applied below it: what it remembers already, else the old value if d removes
\* everything, overwrites k or removes k. An old value that is falsy counts as a
\* missing key when k is overwritten, and a missing key that is removed is
\* remembered as undefined.
OldCell(c, d, old, k) ==
    IF Remembers(c, k) THEN c.cell[k]
    ELSE IF d.truncated /\ old[k] # Absent THEN old[k]
    ELSE IF d.cell[k] = Untouched THEN c.cell[k]
    ELSE IF d.cell[k] = Absent THEN IF old[k] = Absent THEN Undefined ELSE old[k]
    ELSE IF old[k] \in Falsy THEN Absent ELSE old[k]

\* Snapshot._apply
Preserve(c, d, old) ==
    [cell |-> [k \in Key |-> OldCell(c, d, old, k)], truncated |-> c.truncated]
=============================================================================
