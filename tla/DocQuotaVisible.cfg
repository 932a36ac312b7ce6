CONSTANTS
  r1 = r1  r2 = r2
  Requests <- TwoRequests
  Setups <- CalmQuota
  None = None
  FailureThreshold = 2
  HalfOpenRequests = 1
  CacheWriteBuffer = 1
  CacheWriteWorkers = 1
  PoolWorkers = 1
  PoolQueue = 1
  MaxDay = 1
  MaxAdmin = 1
SPECIFICATION Spec
CHECK_DEADLOCK FALSE
INVARIANTS
  NextPreflightSeesUsage
