CONSTANTS
  a = a
  b = b
  a1 = a1
  b1 = b1
  a2 = a2
  a3 = a3
  c = c
  Store = {a, b}
  Comb = {c}
  Tx = {a1, a2, b1}
  StoreOf <- MCStoreOf
  MemberOf <- MCMemberOf
  Null = null
  Failing = FALSE
SPECIFICATION Spec
INVARIANT NothingLost
CHECK_DEADLOCK FALSE
