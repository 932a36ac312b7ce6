CONSTANTS
  o1 = o1  o2 = o2  w1 = w1  w2 = w2
  Orders <- OneOrder
  NoOrder = NoOrder
  SubOrders = {}
  SilentOrders = {}
  Workers <- TwoWorkers
  MaxPending = 1
  Handlers = {"create", "webhook", "delete"}
  MaxFaults = 1
  FailAt = {"applyRebate"}
  LostAt = {}
  CrashAt = {}
SPECIFICATION Spec
CHECK_DEADLOCK FALSE
INVARIANT CreditedAtMostOnce
