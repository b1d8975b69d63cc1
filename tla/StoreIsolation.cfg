CONSTANTS
  Tx = {t1, t2, t3}
  Snap = {s1}
  Key = {k1}
  Seed = seed
  Value = {t1, t2, t3, seed}
  Backend = backend
  Null = null
  Absent = absent
  Untouched = untouched
  Undefined = undefined
  Falsy = {}
  MaxStackSize = 2
  Truncates = FALSE
  Failing = FALSE
SPECIFICATION Spec
SYMMETRY Symmetry
INVARIANTS ReadIsolation CurrentIsNewest LayersMatchHistory
PROPERTIES ImplementsAbstractStore MaintainedSnapshotsAreStable
CHECK_DEADLOCK FALSE
