CONSTANTS
  Key = {k1, k2}
  Value = {v}
  Falsy = {}
  Absent = absent
  Untouched = untouched
  Undefined = undefined
  Missing = missing
  Reader = {r1, r2}
  MaxCache = 2
  MaxRaw = 1
  Synchronous = TRUE
  Failing = TRUE
  Foreign = TRUE
SPECIFICATION Spec
SYMMETRY Symmetry
INVARIANTS TypeOK CachesAreSound CurrentUnlessSuspect
