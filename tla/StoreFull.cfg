CONSTANTS
  Tx = {t1, t2, t3, t4, t5}
  Snap = {}
  Key = {}
  Seed = seed
  Value = {t1, t2, t3, t4, t5, seed}
  Backend = backend
  Null = null
  Absent = absent
  Untouched = untouched
  Undefined = undefined
  Falsy = {}
  MaxStackSize = 2
  Truncates = FALSE
  Failing = TRUE
SPECIFICATION Spec
SYMMETRY Symmetry
INVARIANT LayersAreHeld
CHECK_DEADLOCK FALSE
