------------------------------ MODULE KeyRange ------------------------------
(***************************************************************************)
(* Ranges of keys (src/main/generic/KeyRange.js).  A bound may be left     *)
(* out; Everything stands for a query of null, which most reads treat like *)
(* a range without bounds.                                                 *)
(***************************************************************************)
EXTENDS Integers

CONSTANT NoKey              \* undefined

Bound(lower, upper, lowerOpen, upperOpen) ==
    [lower |-> lower, upper |-> upper, lowerOpen |-> lowerOpen, upperOpen |-> upperOpen]
UpperBound(upper, open) == Bound(NoKey, upper, FALSE, open)
LowerBound(lower, open) == Bound(lower, NoKey, open, FALSE)
Only(key) == Bound(key, key, FALSE, FALSE)
Everything == Bound(NoKey, NoKey, FALSE, FALSE)

ExactMatch(r) == r.lower = r.upper /\ ~r.lowerOpen /\ ~r.upperOpen /\ r.lower # NoKey

AboveLower(r, key) == r.lower = NoKey \/ r.lower < key \/ (~r.lowerOpen /\ r.lower = key)
BelowUpper(r, key) == r.upper = NoKey \/ r.upper > key \/ (~r.upperOpen /\ r.upper = key)
Includes(r, key) == AboveLower(r, key) /\ BelowUpper(r, key)

\* includes(null).  ComparisonUtils.compare takes null for 0 beside a
\* number, and for neither less nor greater nor equal beside a string.
IncludesNull(r, numeric) ==
    \/ r = Everything
    \/ numeric /\ (r.lower = NoKey \/ r.lower < 0) /\ (r.upper = NoKey \/ r.upper > 0)

\* The ranges with bounds from K that are not empty by themselves, and the null query.  Left out are
\* bounds that cross or meet openly, which IndexedDB refuses, and the range without any bound, which
\* exactMatch takes for the key undefined.
Ranges(K) ==
    {r \in [lower : K \cup {NoKey}, upper : K \cup {NoKey}, lowerOpen : BOOLEAN, upperOpen : BOOLEAN] :
        /\ r.lower = NoKey => ~r.lowerOpen
        /\ r.upper = NoKey => ~r.upperOpen
        /\ r.lower # NoKey /\ r.upper # NoKey => r.lower < r.upper \/ r = Only(r.lower)}
=============================================================================
