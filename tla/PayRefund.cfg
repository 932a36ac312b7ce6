CONSTANTS
  o1 = o1  o2 = o2  w1 = w1  w2 = w2
  Orders <- BalanceOrSubscription
  NoOrder = NoOrder
  SubOrders <- Subscription
  SilentOrders = {}
  Workers <- TwoWorkers
  Handlers = {"create", "webhook", "retry", "cancel", "expire", "verify", "request", "refund", "delete"}
  MaxPending = 1
  MaxFaults = 2
  FailAt <- LoggedFailures
  LostAt <- LostReplies
  CrashAt <- AnyLabel
SYMMETRY WorkerSymmetry
CONSTRAINT OneOrderAtWork
ACTION_CONSTRAINT ExtensionInStep
SPECIFICATION Spec
CHECK_DEADLOCK FALSE
INVARIANTS
  ExtendedAtMostOnce
  OneFulfilmentAtATime
  OneRefundAtATime
  FailedRefundIsUndone
  DeductedAtMostOnce
  
PROPERTIES
  DeliveredStaysDelivered
  RefundIsFinal
