CONSTANTS
  a1 = a1  a2 = a2  k1 = k1  k2 = k2  c1 = c1  c2 = c2
  Accounts <- TwoAccounts
  Workers <- TwoWorkers
  Writers <- TwoWriters
  None = None
  Setups <- AllSetups
  BatchLimit = 2
  MaxChanges = 2
SPECIFICATION Spec
CHECK_DEADLOCK FALSE
INVARIANTS
  TypeOK
  
PROPERTIES
  RebuildsInOrder
  EventuallyFresh
