CONSTANTS
  Tx = {t1, t2, t3}
  Snap = {}
  Key = {}
  Seed = seed
  Value = {t1, t2, t3, seed}
  Backend = backend
  Null = null
  Absent = absent
  Untouched = untouched
  Undefined = undefined
  Falsy = {}
  MaxStackSize = 2
  Truncates = TRUE
  Failing = TRUE
SPECIFICATION FairSpec
INVARIANTS TypeOK StackIsChain FlushStaysLegal Registered
PROPERTIES CallsSettle AllIsFlushed
CHECK_DEADLOCK FALSE
