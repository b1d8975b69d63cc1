CONSTANTS
  a = a
  b = b
  a1 = a1
  b1 = b1
  a2 = a2
  a3 = a3
  c = c
  Store = {a, b}
  Comb = {c}
  Tx = {a1, a2, a3, b1}
  StoreOf <- MCStoreOf
  MemberOf <- MCMemberOf
  Null = null
  Failing = TRUE
SPECIFICATION FairSpec
INVARIANTS TypeOK AllOrNothing ReportsStayTrue StacksAreChains
PROPERTY CombinedIsPersisted
CHECK_DEADLOCK FALSE
