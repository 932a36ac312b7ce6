------------------------------ MODULE PaymentState ------------------------------
(***************************************************************************)
(* The state shared by every payment handler: the payment_orders rows of   *)
(* one user, the audit log and the redeem code of each order, what the     *)
(* handlers changed outside those tables (balance, subscription, rebate,   *)
(* gateway refunds), and the stack frame of each running handler.          *)
(*                                                                         *)
(* A handler is a sequence of database statements and provider calls, one  *)
(* label of pc each; two handlers interleave between any two statements.   *)
(* A statement may fail without effect (FailAt), fail after it committed   *)
(* (LostAt), and the process or request may die before it (CrashAt).       *)
(***************************************************************************)
EXTENDS Integers, FiniteSets

CONSTANTS
  Orders,      \* payment orders of one user
  NoOrder,     \* the order of a worker that runs no handler
  SubOrders,   \* the orders whose order_type is subscription
  SilentOrders,\* the orders whose provider answers queries without a trade number
  Workers,     \* goroutines that run payment handlers, on any instance
  Handlers,    \* the entry points this deployment receives calls on
  MaxPending,  \* cfg.MaxPendingOrders
  MaxFaults,   \* bound on failed statements, lost replies and crashes
  FailAt,      \* labels whose statement may fail without effect
  LostAt,      \* labels whose statement may commit and still report an error
  CrashAt      \* labels before which a handler may die

\* Every entry point of the payment service.
AllHandlers ==
  {"create", "webhook", "mismatch", "retry", "cancel", "expire", "verify",
   "reconcile", "request", "refund", "delete"}

\* Status of a payment order; NONE is a row that does not exist yet.
Statuses ==
  {"NONE", "PENDING", "PAID", "RECHARGING", "COMPLETED", "EXPIRED", "CANCELLED",
   "FAILED", "REFUND_REQUESTED", "REFUNDING", "PARTIALLY_REFUNDED", "REFUNDED",
   "REFUND_FAILED"}

\* The audit actions that some handler reads back.
AuditActions ==
  {"SUBSCRIPTION_SUCCESS", "AFFILIATE_REBATE_APPLIED",
   "AFFILIATE_REBATE_SKIPPED", "REFUND_ROLLBACK_FAILED"}

CreateLabels ==
  {"checkPendingLimit", "insertOrder", "createPayment", "saveDetails", "failOrder"}
LifecycleLabels == {"queryOrder", "persistTradeNo", "cancelPayment", "setClosed"}
NotifyLabels == {"getProviders", "notify", "confirm", "toPaid", "reload"}
FulfilLabels ==
  {"getOrder", "lock", "getByCode", "createCode", "redeem", "applyRebate",
   "getGroup", "hasAuditLog", "assign", "markCompleted", "logSubscription",
   "markFailed"}
RetryLabels == {"resetForRetry"}
RefundLabels ==
  {"refundLog", "deduct", "gwRefund", "rollback", "logRollbackFailed",
   "refundFailed", "restoreStatus", "markRefundOk"}
Labels ==
  CreateLabels \cup LifecycleLabels \cup NotifyLabels \cup FulfilLabels
    \cup RetryLabels \cup RefundLabels \cup {"requestRefund", "refundLock", "idle"}

\* What a refund will take back, and how it was taken.
Deductions == {"nothing", "deduct", "revoked"}

ASSUME OrdersAssumption == NoOrder \notin Orders /\ SubOrders \cup SilentOrders \subseteq Orders
ASSUME BoundsAssumption == MaxPending \in Nat \ {0} /\ MaxFaults \in Nat
ASSUME HandlersAssumption == Handlers \subseteq AllHandlers
ASSUME FaultsAssumption ==
  FailAt \subseteq Labels /\ LostAt \subseteq Labels /\ CrashAt \subseteq Labels

VARIABLES
  \* payment_orders
  status,     \* the status column
  paidAt,     \* paid_at is set
  tradeNo,    \* payment_trade_no: none, the one given at creation, the upstream one
  fresh,      \* updated_at is less than paymentGraceMinutes old
  due,        \* expires_at has passed
  \* payment_audit_logs and redeem_codes
  audit,      \* the actions logged for the order, among AuditActions
  code,       \* the redeem code named by recharge_code
  \* effects outside the payment tables, counted per order
  credited,   \* times the order's amount was added to the user's balance
  extended,   \* times the order's days were added to the subscription
  rebated,    \* times the inviter got the order's rebate
  deducted,   \* refund deductions taken from the user and not given back
  refunds,    \* refunds the gateway carried out
  \* the payment provider
  payment,    \* the payment upstream
  acked,      \* a webhook for the order was answered with success
  \* the running handlers
  pc, job, ord,
  ref,        \* the trade number the handler read or was told
  plan,       \* the RefundPlan of ExecuteRefund
  faults      \* faults so far

orderRow == <<status, paidAt, tradeNo, fresh, due>>
logs == <<audit, code>>
effects == <<credited, extended, rebated, deducted, refunds>>
upstream == <<payment, acked>>
frame == <<job, ord, ref, plan>>
vars == <<orderRow, logs, effects, upstream, pc, frame, faults>>

NoPlan == [was |-> "COMPLETED", partial |-> FALSE, take |-> "nothing"]
TradeNos == {"none", "local", "upstream"}

TypeOK ==
  /\ status \in [Orders -> Statuses]
  /\ paidAt \in [Orders -> BOOLEAN]
  /\ tradeNo \in [Orders -> TradeNos]
  /\ fresh \in [Orders -> BOOLEAN]
  /\ due \in [Orders -> BOOLEAN]
  /\ audit \in [Orders -> SUBSET AuditActions]
  /\ code \in [Orders -> {"none", "unused", "used"}]
  /\ credited \in [Orders -> Nat]
  /\ extended \in [Orders -> Nat]
  /\ rebated \in [Orders -> Nat]
  /\ deducted \in [Orders -> Int]
  /\ refunds \in [Orders -> Nat]
  /\ payment \in [Orders -> {"none", "created", "payable", "paid", "closed"}]
  /\ acked \in [Orders -> BOOLEAN]
  /\ pc \in [Workers -> Labels]
  /\ job \in [Workers -> AllHandlers \cup {"none"}]
  /\ ord \in [Workers -> Orders \cup {NoOrder}]
  /\ ref \in [Workers -> TradeNos]
  /\ plan \in [Workers -> [was: Statuses, partial: BOOLEAN, take: Deductions]]
  /\ faults \in Nat

Init ==
  /\ status = [o \in Orders |-> "NONE"]
  /\ paidAt = [o \in Orders |-> FALSE]
  /\ tradeNo = [o \in Orders |-> "none"]
  /\ fresh = [o \in Orders |-> TRUE]
  /\ due = [o \in Orders |-> FALSE]
  /\ audit = [o \in Orders |-> {}]
  /\ code = [o \in Orders |-> "none"]
  /\ credited = [o \in Orders |-> 0]
  /\ extended = [o \in Orders |-> 0]
  /\ rebated = [o \in Orders |-> 0]
  /\ deducted = [o \in Orders |-> 0]
  /\ refunds = [o \in Orders |-> 0]
  /\ payment = [o \in Orders |-> "none"]
  /\ acked = [o \in Orders |-> FALSE]
  /\ pc = [w \in Workers |-> "idle"]
  /\ job = [w \in Workers |-> "none"]
  /\ ord = [w \in Workers |-> NoOrder]
  /\ ref = [w \in Workers |-> "none"]
  /\ plan = [w \in Workers |-> NoPlan]
  /\ faults = 0

-----------------------------------------------------------------------------
(* Control. *)

\* The handler goes on to label l.
Goto(w, l) ==
  /\ pc' = [pc EXCEPT ![w] = l]
  /\ UNCHANGED frame

\* The handler ends and its frame is gone.
Leave(w) ==
  /\ pc' = [pc EXCEPT ![w] = "idle"]
  /\ job' = [job EXCEPT ![w] = "none"]
  /\ ord' = [ord EXCEPT ![w] = NoOrder]
  /\ ref' = [ref EXCEPT ![w] = "none"]
  /\ plan' = [plan EXCEPT ![w] = NoPlan]

\* The handler starts for order o at label l, having read trade number t.
Enter(w, h, o, l, t, p) ==
  /\ h \in Handlers
  /\ pc[w] = "idle"
  /\ pc' = [pc EXCEPT ![w] = l]
  /\ job' = [job EXCEPT ![w] = h]
  /\ ord' = [ord EXCEPT ![w] = o]
  /\ ref' = [ref EXCEPT ![w] = t]
  /\ plan' = [plan EXCEPT ![w] = p]
  /\ UNCHANGED faults

\* HandlePaymentNotification returns nil: the webhook answers 2xx.
AckIfWebhook(w) ==
  acked' = IF job[w] = "webhook" THEN [acked EXCEPT ![ord[w]] = TRUE] ELSE acked

SpendFault == faults < MaxFaults /\ faults' = faults + 1

\* Where control goes when the statement at pc[w] reports an error.
\* "idle" means the handler returns the error.
OnError(w) ==
  CASE pc[w] \in {"createPayment", "saveDetails"} -> "failOrder"
    [] pc[w] \in {"queryOrder", "cancelPayment"} /\ job[w] \in {"cancel", "expire"} -> "setClosed"
    [] pc[w] = "persistTradeNo" -> "notify"
    [] pc[w] = "getByCode" -> "createCode"
    [] pc[w] = "hasAuditLog" -> "assign"
    [] pc[w] \in {"createCode", "redeem", "applyRebate", "getGroup", "assign",
                  "markCompleted"} -> "markFailed"
    [] pc[w] = "refundLog" -> "deduct"
    [] pc[w] = "deduct" -> "restoreStatus"
    [] pc[w] = "gwRefund" -> "rollback"
    [] pc[w] = "rollback" -> "logRollbackFailed"
    [] pc[w] = "logRollbackFailed" -> "refundFailed"
    [] OTHER -> "idle"

\* Errors the code swallows: the caller gets nil, so a webhook is acknowledged.
\* For getProviders that depends on the provider (wxpay gets a 400).
Swallowed == {"getProviders", "confirm", "reload", "logSubscription"}

\* After a write took effect: the reply arrives, or it is lost and the
\* handler takes its error path.
Reply(w, l) ==
  \/ /\ UNCHANGED faults
     /\ IF l = "idle" THEN Leave(w) ELSE Goto(w, l)
  \/ /\ pc[w] \in LostAt
     /\ SpendFault
     /\ IF OnError(w) = "idle" THEN Leave(w) ELSE Goto(w, OnError(w))

\* The statement at pc[w] fails and changes nothing.
StatementFails(w) ==
  /\ pc[w] \in FailAt \ {"idle"}
  /\ SpendFault
  /\ IF OnError(w) = "idle" THEN Leave(w) ELSE Goto(w, OnError(w))
  /\ \/ pc[w] \in Swallowed /\ AckIfWebhook(w)
     \/ pc[w] \notin Swallowed \ {"getProviders"} /\ UNCHANGED acked
  /\ UNCHANGED <<orderRow, logs, effects, payment>>

\* The process dies, or the request context every later statement needs is
\* cancelled: nothing more of the handler takes effect.
Crash(w) ==
  /\ pc[w] \in CrashAt \ {"idle"}
  /\ SpendFault
  /\ Leave(w)
  /\ UNCHANGED <<orderRow, logs, effects, upstream>>

\* UPDATE payment_orders SET status = s: updated_at moves too.
SetStatus(o, s) ==
  /\ status' = [status EXCEPT ![o] = s]
  /\ fresh' = [fresh EXCEPT ![o] = TRUE]

=============================================================================
