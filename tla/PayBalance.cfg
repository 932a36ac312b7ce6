CONSTANTS
  o1 = o1  o2 = o2  w1 = w1  w2 = w2
  Orders <- OneOrder
  NoOrder = NoOrder
  SubOrders = {}
  SilentOrders <- OneOrder
  Workers <- TwoWorkers
  Handlers = {"create", "webhook", "mismatch", "retry", "cancel", "expire", "verify", "reconcile"}
  MaxPending = 1
  MaxFaults = 2
  FailAt <- AnyLabel
  LostAt <- AnyLabel
  CrashAt <- AnyLabel
SYMMETRY WorkerSymmetry
SPECIFICATION Spec
CHECK_DEADLOCK FALSE
INVARIANTS
  TypeOK
  CreditedAtMostOnce
  RebatedAtMostOnce
  DeliveredOnlyIfPaid
  CompletedMeansDelivered
PROPERTY
  LedgerSpec
