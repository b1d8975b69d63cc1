CONSTANTS
    Tx = {s1, s2, a1}
    Synchronous = {s1, s2}
    Writes = {"put", "truncate"}
    Key = {k1}
    Value = {s1, s2, a1, zero}
    Seeds = {zero}
    Falsy = {zero}
    Kinds = {"async", "lmdb", "memory"}
    Backend = backend
    Null = null
    Absent = absent
    Untouched = untouched
    Undefined = undefined
SPECIFICATION Spec
SYMMETRY Symmetry
INVARIANTS OuterFollowsNested FirstCommitWins ReadsAreIsolated
PROPERTIES ClosedStaysClosed MergeMatchesReads
CHECK_DEADLOCK FALSE
