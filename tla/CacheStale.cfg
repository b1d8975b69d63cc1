CONSTANTS
  Key = {k1}
  Value = {v}
  Falsy = {}
  Absent = absent
  Untouched = untouched
  Undefined = undefined
  Missing = missing
  Reader = {r1}
  MaxCache = 2
  MaxRaw = 0
  Synchronous = FALSE
  Failing = FALSE
  Foreign = FALSE
SPECIFICATION Spec
SYMMETRY Symmetry
INVARIANT CacheIsCurrent
