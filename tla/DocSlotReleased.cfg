CONSTANTS
  r1 = r1  r2 = r2  r3 = r3  a1 = a1  a2 = a2  p1 = p1  p2 = p2
  Requests <- ThreeRequests
  Accounts <- TwoAccounts
  Processes <- TwoProcesses
  User = User
  None = None
  Setups <- HydrateSetups
  SlotTTL = 2
  LockTTL = 1
  ExtraWaitSlots = 0
  MaxWaiting = 1
  MaxClock = 2
SPECIFICATION Spec
CHECK_DEADLOCK FALSE
INVARIANT
  SlotsAreOwned
