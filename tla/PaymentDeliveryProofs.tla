------------------------------ MODULE PaymentDeliveryProofs ------------------------------
(***************************************************************************)
(* Payment and delivery. Nothing is delivered, and no order counts as      *)
(* paid, before it was paid: the invariant follows the fact "the payment   *)
(* was made" from the provider through every handler that acts on it, and  *)
(* needs that a payment, once made, is never undone (CreationInv). For     *)
(* balance orders the service is an exactly-once ledger, as long as nobody *)
(* deletes redeem codes: the code of an order counts its credits. And what *)
(* a status and a log promise was delivered: an order that reached         *)
(* COMPLETED or the refund flow was credited or extended, and a rebate     *)
(* belongs to one credited order.                                          *)
(***************************************************************************)
EXTENDS PaymentProofs

\* A handler at one of these labels acts on a payment that was made.
PaidLabels ==
  {"persistTradeNo", "toPaid", "reload", "requestRefund", "refundLock"}
    \cup FulfilLabels \cup RetryLabels \cup RefundLabels

\* So does one at these labels, unless it carries a report that does not match.
ReportLabels == {"getProviders", "notify", "confirm"}

ActsOnPayment(l, h) == l \in PaidLabels \/ (l \in ReportLabels /\ h # "mismatch")

PaidStatuses == Delivered \cup {"PAID", "RECHARGING"}

PaidInv ==
  /\ DeliveredOnlyIfPaid
  /\ \A w \in Workers : ActsOnPayment(pc[w], job[w]) => payment[ord[w]] = "paid"

\* A step keeps payments, and adds signs of delivery only to paid orders.
PaidFrame ==
  \A o \in Orders :
    \/ payment'[o] = "paid"
    \/ /\ payment[o] # "paid"
       /\ credited'[o] = credited[o] /\ extended'[o] = extended[o]
       /\ paidAt'[o] = paidAt[o]
       /\ status'[o] \in PaidStatuses => status[o] \in PaidStatuses

LEMMA PaidLabelsList ==
  PaidLabels = {"persistTradeNo", "toPaid", "reload", "requestRefund", "refundLock",
    "getOrder", "lock", "getByCode", "createCode", "redeem", "applyRebate",
    "getGroup", "hasAuditLog", "assign", "markCompleted", "logSubscription",
    "markFailed", "resetForRetry", "refundLog", "deduct", "gwRefund", "rollback",
    "logRollbackFailed", "refundFailed", "restoreStatus", "markRefundOk"}
  BY DEF PaidLabels, FulfilLabels, RetryLabels, RefundLabels

\* What a step must respect for PaidInv to survive it.
LEMMA PaidKept ==
  ASSUME TypeInv, PaidInv, PaidFrame, NEW w \in Workers, Others(w),
         ActsOnPayment(pc'[w], job'[w]) => payment'[ord'[w]] = "paid"
  PROVE  PaidInv'
<1>1. \A o \in Orders : payment[o] = "paid" => payment'[o] = "paid"
  BY DEF PaidFrame
<1>2. \A v \in Workers : pc[v] # "idle" => ord[v] \in Orders
  BY DEF TypeInv, ControlOK
<1>3. \A l, h : ActsOnPayment(l, h) => l # "idle"
  BY PaidLabelsList DEF ActsOnPayment, ReportLabels
<1>4. DeliveredOnlyIfPaid'
  BY DEF PaidFrame, PaidInv, DeliveredOnlyIfPaid, PaidStatuses
<1>5. ASSUME NEW v \in Workers, ActsOnPayment(pc'[v], job'[v])
      PROVE  payment'[ord'[v]] = "paid"
  <2>1. CASE v = w
    BY <2>1, <1>5
  <2>2. CASE v # w
    <3>1. pc'[v] = pc[v] /\ job'[v] = job[v] /\ ord'[v] = ord[v]
      BY <2>2 DEF Others
    <3>2. payment[ord[v]] = "paid" /\ ord[v] \in Orders
      BY <3>1, <1>2, <1>3, <1>5 DEF PaidInv
    <3> QED
      BY <3>1, <3>2, <1>1
  <2> QED
    BY <2>1, <2>2
<1> QED
  BY <1>4, <1>5 DEF PaidInv

\* A step of a handler that acts on a payment disturbs only its own order, so
\* it need only keep the payments.
LEMMA PaidWorker ==
  ASSUME TypeInv, PaidInv, NEW w \in Workers, ActsOnPayment(pc[w], job[w]),
         NEW L, Moves(w, L), payment' = payment,
         \A o \in Orders \ {ord[w]} :
           /\ credited'[o] = credited[o] /\ extended'[o] = extended[o]
           /\ paidAt'[o] = paidAt[o] /\ status'[o] = status[o]
  PROVE  PaidInv'
<1>1. payment[ord[w]] = "paid"
  BY DEF PaidInv
<1>2. PaidFrame
  BY <1>1 DEF PaidFrame
<1>3. ActsOnPayment(pc'[w], job'[w]) => payment'[ord'[w]] = "paid"
  BY <1>1, PaidLabelsList DEF Moves, ActsOnPayment, ReportLabels
<1> QED
  BY <1>2, <1>3, PaidKept DEF Moves

LEMMA PaidCreate ==
  ASSUME TypeInv, CreationInv, PaidInv, NEW w \in Workers, CreateStep(w)
  PROVE  PaidInv'
<1>c. ControlOK
  BY DEF TypeInv
<1>1. ASSUME NEW o \in Orders, CreateOrder(w, o) PROVE PaidInv'
  <2>1. Others(w) /\ pc'[w] = "checkPendingLimit" /\ ord'[w] = o
    BY <1>1, <1>c, EnterMoves DEF CreateOrder
  <2>2. UNCHANGED <<payment, credited, extended, paidAt, status>>
    BY <1>1 DEF CreateOrder, orderRow, effects, upstream
  <2>4. ~ActsOnPayment(pc'[w], job'[w])
    BY <2>1, PaidLabelsList DEF ActsOnPayment, ReportLabels
  <2>5. PaidFrame
    BY <2>2 DEF PaidFrame
  <2> QED
    BY <2>1, <2>4, <2>5, PaidKept
<1>2. ASSUME CheckPendingLimit(w) PROVE PaidInv'
  <2>1. Moves(w, {"insertOrder"})
    BY <1>2, <1>c, CreateMoves
  <2>2. ~ActsOnPayment(pc'[w], job'[w])
    BY <2>1, PaidLabelsList DEF Moves, ActsOnPayment, ReportLabels
  <2>3. PaidFrame
    BY <1>2, <1>c DEF CheckPendingLimit, PaidFrame, PaidStatuses, Delivered, orderRow, effects, upstream, TypeInv, DataOK
  <2> QED
    BY <2>1, <2>2, <2>3, PaidKept DEF Moves
<1>3. ASSUME CreateOrderInTx(w) PROVE PaidInv'
  <2>1. Moves(w, {"createPayment"})
    BY <1>3, <1>c, CreateMoves
  <2>2. ~ActsOnPayment(pc'[w], job'[w])
    BY <2>1, PaidLabelsList DEF Moves, ActsOnPayment, ReportLabels
  <2>3. PaidFrame
    BY <1>3, <1>c DEF CreateOrderInTx, PaidFrame, PaidStatuses, Delivered, SetStatus, effects, upstream, TypeInv, DataOK
  <2> QED
    BY <2>1, <2>2, <2>3, PaidKept DEF Moves
<1>4. ASSUME CreatePayment(w) PROVE PaidInv'
  <2>1. Moves(w, {"saveDetails", "failOrder"})
    BY <1>4, <1>c, CreateMoves
  <2>2. ~ActsOnPayment(pc'[w], job'[w])
    BY <2>1, PaidLabelsList DEF Moves, ActsOnPayment, ReportLabels
  <2>3. PaidFrame
    BY <1>4, <1>c DEF CreatePayment, PaidFrame, PaidStatuses, Delivered, CreationInv, UnpaidLabels, orderRow, effects, TypeInv, DataOK
  <2> QED
    BY <2>1, <2>2, <2>3, PaidKept DEF Moves
<1>5. ASSUME SaveDetails(w) PROVE PaidInv'
  <2>1. Moves(w, {"failOrder"})
    BY <1>5, <1>c, CreateMoves
  <2>2. ~ActsOnPayment(pc'[w], job'[w])
    BY <2>1, PaidLabelsList DEF Moves, ActsOnPayment, ReportLabels
  <2>3. PaidFrame
    BY <1>5, <1>c DEF SaveDetails, PaidFrame, PaidStatuses, Delivered, effects, TypeInv, DataOK
  <2> QED
    BY <2>1, <2>2, <2>3, PaidKept DEF Moves
<1>6. ASSUME FailOrder(w) PROVE PaidInv'
  <2>1. Moves(w, {})
    BY <1>6, <1>c, CreateMoves
  <2>2. ~ActsOnPayment(pc'[w], job'[w])
    BY <2>1, PaidLabelsList DEF Moves, ActsOnPayment, ReportLabels
  <2>3. PaidFrame
    BY <1>6, <1>c DEF FailOrder, PaidFrame, PaidStatuses, Delivered, SetStatus, effects, upstream, TypeInv, DataOK
  <2> QED
    BY <2>1, <2>2, <2>3, PaidKept DEF Moves
<1> QED
  BY <1>1, <1>2, <1>3, <1>4, <1>5, <1>6 DEF CreateStep

LEMMA PaidNotify ==
  ASSUME TypeInv, PaidInv, NEW w \in Workers, NotifyStep(w)
  PROVE  PaidInv'
<1>c. ControlOK
  BY DEF TypeInv
<1>1. ASSUME NEW o \in Orders, NEW h \in {"webhook", "mismatch"}, HandleNotify(w, o, h) PROVE PaidInv'
  <2>1. Others(w) /\ pc'[w] = "getProviders" /\ ord'[w] = o /\ job'[w] = h
    BY <1>1, <1>c, EnterMoves DEF HandleNotify
  <2>2. UNCHANGED <<payment, credited, extended, paidAt, status>>
    BY <1>1 DEF HandleNotify, orderRow, effects, upstream
  <2>3. h = "webhook" => payment[o] = "paid"
    BY <1>1 DEF HandleNotify
  <2>4. ActsOnPayment(pc'[w], job'[w]) => payment'[ord'[w]] = "paid"
    BY <2>1, <2>2, <2>3, PaidLabelsList DEF ActsOnPayment
  <2>5. PaidFrame
    BY <2>2 DEF PaidFrame
  <2> QED
    BY <2>1, <2>4, <2>5, PaidKept
<1>2. ASSUME GetWebhookProviders(w) PROVE PaidInv'
  <2>1. Moves(w, {"notify"})
    BY <1>2, <1>c, NotifyMoves
  <2>2. pc[w] \in ReportLabels /\ UNCHANGED <<payment, credited, extended, paidAt, status>>
    BY <1>2 DEF GetWebhookProviders, ReportLabels, orderRow, effects, upstream
  <2>3. ActsOnPayment(pc'[w], job'[w]) => payment'[ord'[w]] = "paid"
    BY <2>1, <2>2, PaidLabelsList DEF Moves, ActsOnPayment, ReportLabels, PaidInv
  <2>4. PaidFrame
    BY <2>2 DEF PaidFrame
  <2> QED
    BY <2>1, <2>3, <2>4, PaidKept DEF Moves
<1>3. ASSUME HandlePaymentNotification(w) PROVE PaidInv'
  <2>1. Moves(w, {"confirm"})
    BY <1>3, <1>c, NotifyMoves
  <2>2. pc[w] \in ReportLabels /\ UNCHANGED <<payment, credited, extended, paidAt, status>>
    BY <1>3 DEF HandlePaymentNotification, ReportLabels, orderRow, effects, upstream
  <2>3. ActsOnPayment(pc'[w], job'[w]) => payment'[ord'[w]] = "paid"
    BY <2>1, <2>2, PaidLabelsList DEF Moves, ActsOnPayment, ReportLabels, PaidInv
  <2>4. PaidFrame
    BY <2>2 DEF PaidFrame
  <2> QED
    BY <2>1, <2>3, <2>4, PaidKept DEF Moves
<1>4. ASSUME ConfirmPayment(w) PROVE PaidInv'
  <2>1. Moves(w, IF job[w] = "mismatch" THEN {} ELSE {"toPaid"})
    BY <1>4, <1>c, NotifyMoves
  <2>2. pc[w] \in ReportLabels /\ UNCHANGED <<payment, credited, extended, paidAt, status>>
    BY <1>4 DEF ConfirmPayment, ReportLabels, orderRow, effects, upstream
  <2>3. ActsOnPayment(pc'[w], job'[w]) => payment'[ord'[w]] = "paid"
    BY <2>1, <2>2, PaidLabelsList DEF Moves, ActsOnPayment, ReportLabels, PaidInv
  <2>4. PaidFrame
    BY <2>2 DEF PaidFrame
  <2> QED
    BY <2>1, <2>3, <2>4, PaidKept DEF Moves
<1>5. ASSUME ToPaid(w) PROVE PaidInv'
  <2>1. Moves(w, {"getOrder", "reload"})
    BY <1>5, <1>c, NotifyMoves
  <2>2. ActsOnPayment(pc[w], job[w])
    BY <1>5, PaidLabelsList DEF ToPaid, ActsOnPayment
  <2>3. payment' = payment
    BY <1>5 DEF ToPaid, upstream
  <2>4. \A p \in Orders \ {ord[w]} :
          /\ credited'[p] = credited[p] /\ extended'[p] = extended[p]
          /\ paidAt'[p] = paidAt[p] /\ status'[p] = status[p]
    BY <1>5 DEF ToPaid, SetStatus, orderRow, effects, TypeInv, DataOK
  <2> QED
    BY <2>1, <2>2, <2>3, <2>4, PaidWorker
<1>6. ASSUME AlreadyProcessed(w) PROVE PaidInv'
  <2>1. Moves(w, {"getOrder"})
    BY <1>6, <1>c, NotifyMoves
  <2>2. ActsOnPayment(pc[w], job[w])
    BY <1>6, PaidLabelsList DEF AlreadyProcessed, ActsOnPayment
  <2>3. payment' = payment
    BY <1>6 DEF AlreadyProcessed, upstream
  <2>4. \A p \in Orders \ {ord[w]} :
          /\ credited'[p] = credited[p] /\ extended'[p] = extended[p]
          /\ paidAt'[p] = paidAt[p] /\ status'[p] = status[p]
    BY <1>6 DEF AlreadyProcessed, orderRow, effects, TypeInv, DataOK
  <2> QED
    BY <2>1, <2>2, <2>3, <2>4, PaidWorker
<1> QED
  BY <1>1, <1>2, <1>3, <1>4, <1>5, <1>6 DEF NotifyStep

LEMMA PaidFulfil ==
  ASSUME TypeInv, PaidInv, NEW w \in Workers, FulfilStep(w)
  PROVE  PaidInv'
<1>c. ControlOK
  BY DEF TypeInv
<1>1. ASSUME ExecuteFulfillment(w) PROVE PaidInv'
  <2>1. Moves(w, {"lock"})
    BY <1>1, <1>c, FulfilMoves
  <2>2. ActsOnPayment(pc[w], job[w])
    BY <1>1, PaidLabelsList DEF ExecuteFulfillment, ActsOnPayment
  <2>3. payment' = payment
    BY <1>1 DEF ExecuteFulfillment, upstream
  <2>4. \A p \in Orders \ {ord[w]} :
          /\ credited'[p] = credited[p] /\ extended'[p] = extended[p]
          /\ paidAt'[p] = paidAt[p] /\ status'[p] = status[p]
    BY <1>1 DEF ExecuteFulfillment, orderRow, effects, TypeInv, DataOK
  <2> QED
    BY <2>1, <2>2, <2>3, <2>4, PaidWorker
<1>2. ASSUME Lock(w) PROVE PaidInv'
  <2>1. Moves(w, {IF ord[w] \in SubOrders THEN "getGroup" ELSE "getByCode"})
    BY <1>2, <1>c, FulfilMoves
  <2>2. ActsOnPayment(pc[w], job[w])
    BY <1>2, PaidLabelsList DEF Lock, ActsOnPayment
  <2>3. payment' = payment
    BY <1>2 DEF Lock, upstream
  <2>4. \A p \in Orders \ {ord[w]} :
          /\ credited'[p] = credited[p] /\ extended'[p] = extended[p]
          /\ paidAt'[p] = paidAt[p] /\ status'[p] = status[p]
    BY <1>2 DEF Lock, SetStatus, orderRow, effects, TypeInv, DataOK
  <2> QED
    BY <2>1, <2>2, <2>3, <2>4, PaidWorker
<1>3. ASSUME GetByCode(w) PROVE PaidInv'
  <2>1. Moves(w, {ResolveRedeemAction(ord[w])})
    BY <1>3, <1>c, FulfilMoves
  <2>2. ActsOnPayment(pc[w], job[w])
    BY <1>3, PaidLabelsList DEF GetByCode, ActsOnPayment
  <2>3. payment' = payment
    BY <1>3 DEF GetByCode, upstream
  <2>4. \A p \in Orders \ {ord[w]} :
          /\ credited'[p] = credited[p] /\ extended'[p] = extended[p]
          /\ paidAt'[p] = paidAt[p] /\ status'[p] = status[p]
    BY <1>3 DEF GetByCode, orderRow, effects, TypeInv, DataOK
  <2> QED
    BY <2>1, <2>2, <2>3, <2>4, PaidWorker
<1>4. ASSUME CreateCode(w) PROVE PaidInv'
  <2>1. Moves(w, {"redeem", "markFailed"})
    BY <1>4, <1>c, FulfilMoves
  <2>2. ActsOnPayment(pc[w], job[w])
    BY <1>4, PaidLabelsList DEF CreateCode, ActsOnPayment
  <2>3. payment' = payment
    BY <1>4 DEF CreateCode, upstream
  <2>4. \A p \in Orders \ {ord[w]} :
          /\ credited'[p] = credited[p] /\ extended'[p] = extended[p]
          /\ paidAt'[p] = paidAt[p] /\ status'[p] = status[p]
    BY <1>4 DEF CreateCode, orderRow, effects, TypeInv, DataOK
  <2> QED
    BY <2>1, <2>2, <2>3, <2>4, PaidWorker
<1>5. ASSUME Redeem(w) PROVE PaidInv'
  <2>1. Moves(w, {"applyRebate", "markFailed"})
    BY <1>5, <1>c, FulfilMoves
  <2>2. ActsOnPayment(pc[w], job[w])
    BY <1>5, PaidLabelsList DEF Redeem, ActsOnPayment
  <2>3. payment' = payment
    BY <1>5 DEF Redeem, upstream
  <2>4. \A p \in Orders \ {ord[w]} :
          /\ credited'[p] = credited[p] /\ extended'[p] = extended[p]
          /\ paidAt'[p] = paidAt[p] /\ status'[p] = status[p]
    BY <1>5 DEF Redeem, orderRow, effects, TypeInv, DataOK
  <2> QED
    BY <2>1, <2>2, <2>3, <2>4, PaidWorker
<1>6. ASSUME ApplyAffiliateRebate(w) PROVE PaidInv'
  <2>1. Moves(w, {"markCompleted", "markFailed"})
    BY <1>6, <1>c, FulfilMoves
  <2>2. ActsOnPayment(pc[w], job[w])
    BY <1>6, PaidLabelsList DEF ApplyAffiliateRebate, ActsOnPayment
  <2>3. payment' = payment
    BY <1>6 DEF ApplyAffiliateRebate, upstream
  <2>4. \A p \in Orders \ {ord[w]} :
          /\ credited'[p] = credited[p] /\ extended'[p] = extended[p]
          /\ paidAt'[p] = paidAt[p] /\ status'[p] = status[p]
    BY <1>6 DEF ApplyAffiliateRebate, orderRow, effects, TypeInv, DataOK
  <2> QED
    BY <2>1, <2>2, <2>3, <2>4, PaidWorker
<1>7. ASSUME GetGroup(w) PROVE PaidInv'
  <2>1. Moves(w, {"hasAuditLog", "markFailed"})
    BY <1>7, <1>c, FulfilMoves
  <2>2. ActsOnPayment(pc[w], job[w])
    BY <1>7, PaidLabelsList DEF GetGroup, ActsOnPayment
  <2>3. payment' = payment
    BY <1>7 DEF GetGroup, upstream
  <2>4. \A p \in Orders \ {ord[w]} :
          /\ credited'[p] = credited[p] /\ extended'[p] = extended[p]
          /\ paidAt'[p] = paidAt[p] /\ status'[p] = status[p]
    BY <1>7 DEF GetGroup, orderRow, effects, TypeInv, DataOK
  <2> QED
    BY <2>1, <2>2, <2>3, <2>4, PaidWorker
<1>8. ASSUME HasAuditLog(w) PROVE PaidInv'
  <2>1. Moves(w, {IF "SUBSCRIPTION_SUCCESS" \in audit[ord[w]] THEN "markCompleted" ELSE "assign"})
    BY <1>8, <1>c, FulfilMoves
  <2>2. ActsOnPayment(pc[w], job[w])
    BY <1>8, PaidLabelsList DEF HasAuditLog, ActsOnPayment
  <2>3. payment' = payment
    BY <1>8 DEF HasAuditLog, upstream
  <2>4. \A p \in Orders \ {ord[w]} :
          /\ credited'[p] = credited[p] /\ extended'[p] = extended[p]
          /\ paidAt'[p] = paidAt[p] /\ status'[p] = status[p]
    BY <1>8 DEF HasAuditLog, orderRow, effects, TypeInv, DataOK
  <2> QED
    BY <2>1, <2>2, <2>3, <2>4, PaidWorker
<1>9. ASSUME AssignOrExtendSubscription(w) PROVE PaidInv'
  <2>1. Moves(w, {"markCompleted", "markFailed"})
    BY <1>9, <1>c, FulfilMoves
  <2>2. ActsOnPayment(pc[w], job[w])
    BY <1>9, PaidLabelsList DEF AssignOrExtendSubscription, ActsOnPayment
  <2>3. payment' = payment
    BY <1>9 DEF AssignOrExtendSubscription, upstream
  <2>4. \A p \in Orders \ {ord[w]} :
          /\ credited'[p] = credited[p] /\ extended'[p] = extended[p]
          /\ paidAt'[p] = paidAt[p] /\ status'[p] = status[p]
    BY <1>9 DEF AssignOrExtendSubscription, orderRow, effects, TypeInv, DataOK
  <2> QED
    BY <2>1, <2>2, <2>3, <2>4, PaidWorker
<1>10. ASSUME MarkCompleted(w) PROVE PaidInv'
  <2>1. Moves(w, IF ord[w] \in SubOrders THEN {"logSubscription", "markFailed"} ELSE {"markFailed"})
    BY <1>10, <1>c, FulfilMoves
  <2>2. ActsOnPayment(pc[w], job[w])
    BY <1>10, PaidLabelsList DEF MarkCompleted, ActsOnPayment
  <2>3. payment' = payment
    BY <1>10 DEF MarkCompleted, upstream
  <2>4. \A p \in Orders \ {ord[w]} :
          /\ credited'[p] = credited[p] /\ extended'[p] = extended[p]
          /\ paidAt'[p] = paidAt[p] /\ status'[p] = status[p]
    BY <1>10 DEF MarkCompleted, SetStatus, orderRow, effects, TypeInv, DataOK
  <2> QED
    BY <2>1, <2>2, <2>3, <2>4, PaidWorker
<1>11. ASSUME LogSubscriptionSuccess(w) PROVE PaidInv'
  <2>1. Moves(w, {})
    BY <1>11, <1>c, FulfilMoves
  <2>2. ActsOnPayment(pc[w], job[w])
    BY <1>11, PaidLabelsList DEF LogSubscriptionSuccess, ActsOnPayment
  <2>3. payment' = payment
    BY <1>11 DEF LogSubscriptionSuccess, upstream
  <2>4. \A p \in Orders \ {ord[w]} :
          /\ credited'[p] = credited[p] /\ extended'[p] = extended[p]
          /\ paidAt'[p] = paidAt[p] /\ status'[p] = status[p]
    BY <1>11 DEF LogSubscriptionSuccess, orderRow, effects, TypeInv, DataOK
  <2> QED
    BY <2>1, <2>2, <2>3, <2>4, PaidWorker
<1>12. ASSUME MarkFailed(w) PROVE PaidInv'
  <2>1. Moves(w, {})
    BY <1>12, <1>c, FulfilMoves
  <2>2. ActsOnPayment(pc[w], job[w])
    BY <1>12, PaidLabelsList DEF MarkFailed, ActsOnPayment
  <2>3. payment' = payment
    BY <1>12 DEF MarkFailed, upstream
  <2>4. \A p \in Orders \ {ord[w]} :
          /\ credited'[p] = credited[p] /\ extended'[p] = extended[p]
          /\ paidAt'[p] = paidAt[p] /\ status'[p] = status[p]
    BY <1>12 DEF MarkFailed, SetStatus, orderRow, effects, TypeInv, DataOK
  <2> QED
    BY <2>1, <2>2, <2>3, <2>4, PaidWorker
<1> QED
  BY <1>1, <1>2, <1>3, <1>4, <1>5, <1>6, <1>7, <1>8, <1>9, <1>10, <1>11, <1>12 DEF FulfilStep

LEMMA PaidRetry ==
  ASSUME TypeInv, PaidInv, NEW w \in Workers, RetryStep(w)
  PROVE  PaidInv'
<1>c. ControlOK
  BY DEF TypeInv
<1>1. ASSUME NEW o \in Orders, RetryFulfillment(w, o) PROVE PaidInv'
  <2>1. Others(w) /\ pc'[w] = "resetForRetry" /\ ord'[w] = o
    BY <1>1, <1>c, EnterMoves DEF RetryFulfillment
  <2>2. UNCHANGED <<payment, credited, extended, paidAt, status>>
    BY <1>1 DEF RetryFulfillment, orderRow, effects, upstream
  <2>3. payment[o] = "paid"
    BY <1>1 DEF RetryFulfillment, PaidInv, DeliveredOnlyIfPaid, Delivered, Refundable
  <2>4. ActsOnPayment(pc'[w], job'[w]) => payment'[ord'[w]] = "paid"
    BY <2>1, <2>2, <2>3, PaidLabelsList DEF ActsOnPayment
  <2>5. PaidFrame
    BY <2>2 DEF PaidFrame
  <2> QED
    BY <2>1, <2>4, <2>5, PaidKept
<1>2. ASSUME ResetForRetry(w) PROVE PaidInv'
  <2>1. Moves(w, {"getOrder"})
    BY <1>2, <1>c, NotifyMoves
  <2>2. ActsOnPayment(pc[w], job[w])
    BY <1>2, PaidLabelsList DEF ResetForRetry, ActsOnPayment
  <2>3. payment' = payment
    BY <1>2 DEF ResetForRetry, upstream
  <2>4. \A p \in Orders \ {ord[w]} :
          /\ credited'[p] = credited[p] /\ extended'[p] = extended[p]
          /\ paidAt'[p] = paidAt[p] /\ status'[p] = status[p]
    BY <1>2 DEF ResetForRetry, SetStatus, orderRow, effects, TypeInv, DataOK
  <2> QED
    BY <2>1, <2>2, <2>3, <2>4, PaidWorker
<1> QED
  BY <1>1, <1>2 DEF RetryStep

LEMMA PaidLifecycle ==
  ASSUME TypeInv, PaidInv, NEW w \in Workers, LifecycleStep(w)
  PROVE  PaidInv'
<1>c. ControlOK
  BY DEF TypeInv
<1>1. ASSUME NEW o \in Orders, CancelOrder(w, o) PROVE PaidInv'
  <2>1. Others(w) /\ pc'[w] = "queryOrder" /\ ord'[w] = o
    BY <1>1, <1>c, EnterMoves DEF CancelOrder
  <2>2. UNCHANGED <<payment, credited, extended, paidAt, status>>
    BY <1>1 DEF CancelOrder, orderRow, effects, upstream
  <2>4. ~ActsOnPayment(pc'[w], job'[w])
    BY <2>1, PaidLabelsList DEF ActsOnPayment, ReportLabels
  <2>5. PaidFrame
    BY <2>2 DEF PaidFrame
  <2> QED
    BY <2>1, <2>4, <2>5, PaidKept
<1>2. ASSUME NEW o \in Orders, ExpireTimedOutOrder(w, o) PROVE PaidInv'
  <2>1. Others(w) /\ pc'[w] = "queryOrder" /\ ord'[w] = o
    BY <1>2, <1>c, EnterMoves DEF ExpireTimedOutOrder
  <2>2. UNCHANGED <<payment, credited, extended, paidAt, status>>
    BY <1>2 DEF ExpireTimedOutOrder, orderRow, effects, upstream
  <2>4. ~ActsOnPayment(pc'[w], job'[w])
    BY <2>1, PaidLabelsList DEF ActsOnPayment, ReportLabels
  <2>5. PaidFrame
    BY <2>2 DEF PaidFrame
  <2> QED
    BY <2>1, <2>4, <2>5, PaidKept
<1>3. ASSUME NEW o \in Orders, VerifyOrder(w, o) PROVE PaidInv'
  <2>1. Others(w) /\ pc'[w] = "queryOrder" /\ ord'[w] = o
    BY <1>3, <1>c, EnterMoves DEF VerifyOrder
  <2>2. UNCHANGED <<payment, credited, extended, paidAt, status>>
    BY <1>3 DEF VerifyOrder, orderRow, effects, upstream
  <2>4. ~ActsOnPayment(pc'[w], job'[w])
    BY <2>1, PaidLabelsList DEF ActsOnPayment, ReportLabels
  <2>5. PaidFrame
    BY <2>2 DEF PaidFrame
  <2> QED
    BY <2>1, <2>4, <2>5, PaidKept
<1>4. ASSUME NEW o \in Orders, ReconcilePendingOrder(w, o) PROVE PaidInv'
  <2>1. Others(w) /\ pc'[w] = "queryOrder" /\ ord'[w] = o
    BY <1>4, <1>c, EnterMoves DEF ReconcilePendingOrder
  <2>2. UNCHANGED <<payment, credited, extended, paidAt, status>>
    BY <1>4 DEF ReconcilePendingOrder, orderRow, effects, upstream
  <2>4. ~ActsOnPayment(pc'[w], job'[w])
    BY <2>1, PaidLabelsList DEF ActsOnPayment, ReportLabels
  <2>5. PaidFrame
    BY <2>2 DEF PaidFrame
  <2> QED
    BY <2>1, <2>4, <2>5, PaidKept
<1>5. ASSUME CheckPaid(w) PROVE PaidInv'
  <2>1. Moves(w, IF payment[ord[w]] = "paid" THEN {"notify", "persistTradeNo"} ELSE {"cancelPayment"})
    BY <1>5, <1>c, LifecycleMoves
  <2>2. UNCHANGED <<payment, credited, extended, paidAt, status>>
    BY <1>5 DEF CheckPaid, orderRow, effects, upstream
  <2>3. ActsOnPayment(pc'[w], job'[w]) => payment'[ord'[w]] = "paid"
    BY <2>1, <2>2, PaidLabelsList DEF Moves, ActsOnPayment, ReportLabels
  <2>4. PaidFrame
    BY <2>2 DEF PaidFrame
  <2> QED
    BY <2>1, <2>3, <2>4, PaidKept DEF Moves
<1>6. ASSUME PersistTradeNo(w) PROVE PaidInv'
  <2>1. Moves(w, {"notify"})
    BY <1>6, <1>c, LifecycleMoves
  <2>2. ActsOnPayment(pc[w], job[w])
    BY <1>6, PaidLabelsList DEF PersistTradeNo, ActsOnPayment
  <2>3. payment' = payment
    BY <1>6 DEF PersistTradeNo, upstream
  <2>4. \A p \in Orders \ {ord[w]} :
          /\ credited'[p] = credited[p] /\ extended'[p] = extended[p]
          /\ paidAt'[p] = paidAt[p] /\ status'[p] = status[p]
    BY <1>6 DEF PersistTradeNo, orderRow, effects, TypeInv, DataOK
  <2> QED
    BY <2>1, <2>2, <2>3, <2>4, PaidWorker
<1>7. ASSUME CancelPayment(w) PROVE PaidInv'
  <2>1. Moves(w, {"setClosed"})
    BY <1>7, <1>c, LifecycleMoves
  <2>2. ~ActsOnPayment(pc'[w], job'[w])
    BY <2>1, PaidLabelsList DEF Moves, ActsOnPayment, ReportLabels
  <2>3. PaidFrame
    BY <1>7, <1>c DEF CancelPayment, PaidFrame, PaidStatuses, Delivered, orderRow, effects, TypeInv, DataOK
  <2> QED
    BY <2>1, <2>2, <2>3, PaidKept DEF Moves
<1>8. ASSUME SetClosed(w) PROVE PaidInv'
  <2>1. Moves(w, {})
    BY <1>8, <1>c, LifecycleMoves
  <2>2. ~ActsOnPayment(pc'[w], job'[w])
    BY <2>1, PaidLabelsList DEF Moves, ActsOnPayment, ReportLabels
  <2>3. PaidFrame
    BY <1>8, <1>c DEF SetClosed, PaidFrame, PaidStatuses, Delivered, SetStatus, effects, upstream, TypeInv, DataOK
  <2> QED
    BY <2>1, <2>2, <2>3, PaidKept DEF Moves
<1> QED
  BY <1>1, <1>2, <1>3, <1>4, <1>5, <1>6, <1>7, <1>8 DEF LifecycleStep

LEMMA PaidRefund ==
  ASSUME TypeInv, PaidInv, NEW w \in Workers, RefundStep(w)
  PROVE  PaidInv'
<1>c. ControlOK
  BY DEF TypeInv
<1>1. ASSUME NEW o \in Orders, RequestRefund(w, o) PROVE PaidInv'
  <2>1. Others(w) /\ pc'[w] = "requestRefund" /\ ord'[w] = o
    BY <1>1, <1>c, EnterMoves DEF RequestRefund
  <2>2. UNCHANGED <<payment, credited, extended, paidAt, status>>
    BY <1>1 DEF RequestRefund, orderRow, effects, upstream
  <2>3. payment[o] = "paid"
    BY <1>1 DEF RequestRefund, PaidInv, DeliveredOnlyIfPaid, Delivered, Refundable
  <2>4. ActsOnPayment(pc'[w], job'[w]) => payment'[ord'[w]] = "paid"
    BY <2>1, <2>2, <2>3, PaidLabelsList DEF ActsOnPayment
  <2>5. PaidFrame
    BY <2>2 DEF PaidFrame
  <2> QED
    BY <2>1, <2>4, <2>5, PaidKept
<1>2. ASSUME NEW o \in Orders, PrepareRefund(w, o) PROVE PaidInv'
  <2>1. Others(w) /\ pc'[w] = "refundLock" /\ ord'[w] = o
    BY <1>2, <1>c, EnterMoves DEF PrepareRefund
  <2>2. UNCHANGED <<payment, credited, extended, paidAt, status>>
    BY <1>2 DEF PrepareRefund, orderRow, effects, upstream
  <2>3. payment[o] = "paid"
    BY <1>2 DEF PrepareRefund, PaidInv, DeliveredOnlyIfPaid, Delivered, Refundable
  <2>4. ActsOnPayment(pc'[w], job'[w]) => payment'[ord'[w]] = "paid"
    BY <2>1, <2>2, <2>3, PaidLabelsList DEF ActsOnPayment
  <2>5. PaidFrame
    BY <2>2 DEF PaidFrame
  <2> QED
    BY <2>1, <2>4, <2>5, PaidKept
<1>3. ASSUME SetRefundRequested(w) PROVE PaidInv'
  <2>1. Moves(w, {})
    BY <1>3, <1>c, RefundMoves
  <2>2. ActsOnPayment(pc[w], job[w])
    BY <1>3, PaidLabelsList DEF SetRefundRequested, ActsOnPayment
  <2>3. payment' = payment
    BY <1>3 DEF SetRefundRequested, upstream
  <2>4. \A p \in Orders \ {ord[w]} :
          /\ credited'[p] = credited[p] /\ extended'[p] = extended[p]
          /\ paidAt'[p] = paidAt[p] /\ status'[p] = status[p]
    BY <1>3 DEF SetRefundRequested, SetStatus, orderRow, effects, TypeInv, DataOK
  <2> QED
    BY <2>1, <2>2, <2>3, <2>4, PaidWorker
<1>4. ASSUME RefundLock(w) PROVE PaidInv'
  <2>1. Moves(w, {"refundLog", "gwRefund"})
    BY <1>4, <1>c, RefundMoves
  <2>2. ActsOnPayment(pc[w], job[w])
    BY <1>4, PaidLabelsList DEF RefundLock, ActsOnPayment
  <2>3. payment' = payment
    BY <1>4 DEF RefundLock, upstream
  <2>4. \A p \in Orders \ {ord[w]} :
          /\ credited'[p] = credited[p] /\ extended'[p] = extended[p]
          /\ paidAt'[p] = paidAt[p] /\ status'[p] = status[p]
    BY <1>4 DEF RefundLock, SetStatus, orderRow, effects, TypeInv, DataOK
  <2> QED
    BY <2>1, <2>2, <2>3, <2>4, PaidWorker
<1>5. ASSUME CheckRollbackLog(w) PROVE PaidInv'
  <2>1. Moves(w, {"gwRefund", "deduct"})
    BY <1>5, <1>c, RefundMoves
  <2>2. ActsOnPayment(pc[w], job[w])
    BY <1>5, PaidLabelsList DEF CheckRollbackLog, ActsOnPayment
  <2>3. payment' = payment
    BY <1>5 DEF CheckRollbackLog, upstream
  <2>4. \A p \in Orders \ {ord[w]} :
          /\ credited'[p] = credited[p] /\ extended'[p] = extended[p]
          /\ paidAt'[p] = paidAt[p] /\ status'[p] = status[p]
    BY <1>5 DEF CheckRollbackLog, orderRow, effects, TypeInv, DataOK
  <2> QED
    BY <2>1, <2>2, <2>3, <2>4, PaidWorker
<1>6. ASSUME Deduct(w) PROVE PaidInv'
  <2>1. Moves(w, {"gwRefund", "restoreStatus"})
    BY <1>6, <1>c, RefundMoves
  <2>2. ActsOnPayment(pc[w], job[w])
    BY <1>6, PaidLabelsList DEF Deduct, ActsOnPayment
  <2>3. payment' = payment
    BY <1>6 DEF Deduct, upstream
  <2>4. \A p \in Orders \ {ord[w]} :
          /\ credited'[p] = credited[p] /\ extended'[p] = extended[p]
          /\ paidAt'[p] = paidAt[p] /\ status'[p] = status[p]
    BY <1>6 DEF Deduct, orderRow, effects, TypeInv, DataOK
  <2> QED
    BY <2>1, <2>2, <2>3, <2>4, PaidWorker
<1>7. ASSUME GwRefund(w) PROVE PaidInv'
  <2>1. Moves(w, {"markRefundOk", "rollback"})
    BY <1>7, <1>c, RefundMoves
  <2>2. ActsOnPayment(pc[w], job[w])
    BY <1>7, PaidLabelsList DEF GwRefund, ActsOnPayment
  <2>3. payment' = payment
    BY <1>7 DEF GwRefund, upstream
  <2>4. \A p \in Orders \ {ord[w]} :
          /\ credited'[p] = credited[p] /\ extended'[p] = extended[p]
          /\ paidAt'[p] = paidAt[p] /\ status'[p] = status[p]
    BY <1>7 DEF GwRefund, orderRow, effects, TypeInv, DataOK
  <2> QED
    BY <2>1, <2>2, <2>3, <2>4, PaidWorker
<1>8. ASSUME RollbackRefund(w) PROVE PaidInv'
  <2>1. Moves(w, {"restoreStatus", "logRollbackFailed"})
    BY <1>8, <1>c, RefundMoves
  <2>2. ActsOnPayment(pc[w], job[w])
    BY <1>8, PaidLabelsList DEF RollbackRefund, ActsOnPayment
  <2>3. payment' = payment
    BY <1>8 DEF RollbackRefund, upstream
  <2>4. \A p \in Orders \ {ord[w]} :
          /\ credited'[p] = credited[p] /\ extended'[p] = extended[p]
          /\ paidAt'[p] = paidAt[p] /\ status'[p] = status[p]
    BY <1>8 DEF RollbackRefund, orderRow, effects, TypeInv, DataOK
  <2> QED
    BY <2>1, <2>2, <2>3, <2>4, PaidWorker
<1>9. ASSUME LogRollbackFailed(w) PROVE PaidInv'
  <2>1. Moves(w, {"refundFailed"})
    BY <1>9, <1>c, RefundMoves
  <2>2. ActsOnPayment(pc[w], job[w])
    BY <1>9, PaidLabelsList DEF LogRollbackFailed, ActsOnPayment
  <2>3. payment' = payment
    BY <1>9 DEF LogRollbackFailed, upstream
  <2>4. \A p \in Orders \ {ord[w]} :
          /\ credited'[p] = credited[p] /\ extended'[p] = extended[p]
          /\ paidAt'[p] = paidAt[p] /\ status'[p] = status[p]
    BY <1>9 DEF LogRollbackFailed, orderRow, effects, TypeInv, DataOK
  <2> QED
    BY <2>1, <2>2, <2>3, <2>4, PaidWorker
<1>10. ASSUME RefundFailed(w) PROVE PaidInv'
  <2>1. Moves(w, {})
    BY <1>10, <1>c, RefundMoves
  <2>2. ActsOnPayment(pc[w], job[w])
    BY <1>10, PaidLabelsList DEF RefundFailed, ActsOnPayment
  <2>3. payment' = payment
    BY <1>10 DEF RefundFailed, upstream
  <2>4. \A p \in Orders \ {ord[w]} :
          /\ credited'[p] = credited[p] /\ extended'[p] = extended[p]
          /\ paidAt'[p] = paidAt[p] /\ status'[p] = status[p]
    BY <1>10 DEF RefundFailed, SetStatus, orderRow, effects, TypeInv, DataOK
  <2> QED
    BY <2>1, <2>2, <2>3, <2>4, PaidWorker
<1>11. ASSUME RestoreStatus(w) PROVE PaidInv'
  <2>1. Moves(w, {})
    BY <1>11, <1>c, RefundMoves
  <2>2. ActsOnPayment(pc[w], job[w])
    BY <1>11, PaidLabelsList DEF RestoreStatus, ActsOnPayment
  <2>3. payment' = payment
    BY <1>11 DEF RestoreStatus, upstream
  <2>4. \A p \in Orders \ {ord[w]} :
          /\ credited'[p] = credited[p] /\ extended'[p] = extended[p]
          /\ paidAt'[p] = paidAt[p] /\ status'[p] = status[p]
    BY <1>11 DEF RestoreStatus, SetStatus, orderRow, effects, TypeInv, DataOK
  <2> QED
    BY <2>1, <2>2, <2>3, <2>4, PaidWorker
<1>12. ASSUME MarkRefundOk(w) PROVE PaidInv'
  <2>1. Moves(w, {})
    BY <1>12, <1>c, RefundMoves
  <2>2. ActsOnPayment(pc[w], job[w])
    BY <1>12, PaidLabelsList DEF MarkRefundOk, ActsOnPayment
  <2>3. payment' = payment
    BY <1>12 DEF MarkRefundOk, upstream
  <2>4. \A p \in Orders \ {ord[w]} :
          /\ credited'[p] = credited[p] /\ extended'[p] = extended[p]
          /\ paidAt'[p] = paidAt[p] /\ status'[p] = status[p]
    BY <1>12 DEF MarkRefundOk, SetStatus, orderRow, effects, TypeInv, DataOK
  <2> QED
    BY <2>1, <2>2, <2>3, <2>4, PaidWorker
<1> QED
  BY <1>1, <1>2, <1>3, <1>4, <1>5, <1>6, <1>7, <1>8, <1>9, <1>10, <1>11, <1>12 DEF RefundStep

LEMMA PaidFaults ==
  ASSUME TypeInv, PaidInv, NEW w \in Workers, StatementFails(w) \/ Crash(w)
  PROVE  PaidInv'
<1>1. Moves(w, {OnError(w)}) /\ UNCHANGED <<payment, credited, extended, paidAt, status>>
  BY FaultMoves DEF Moves, StatementFails, Crash, orderRow, effects, upstream, TypeInv
<1>2. pc[w] \in Labels \ {"idle"}
  BY DEF TypeInv, ControlOK, StatementFails, Crash
<1>3. ActsOnPayment(OnError(w), job[w]) => ActsOnPayment(pc[w], job[w])
  BY <1>2, OnErrorCases, LabelsList, PaidLabelsList DEF ActsOnPayment, ReportLabels
<1>4. ActsOnPayment(pc'[w], job'[w]) => payment'[ord'[w]] = "paid"
  <2>1. ~ActsOnPayment("idle", job'[w])
    BY PaidLabelsList DEF ActsOnPayment, ReportLabels
  <2> QED
    BY <1>1, <1>3, <2>1 DEF Moves, PaidInv
<1>5. PaidFrame
  BY <1>1 DEF PaidFrame
<1> QED
  BY <1>1, <1>4, <1>5, PaidKept DEF Moves

LEMMA PaidEnvironment ==
  ASSUME TypeInv, PaidInv, Environment
  PROVE  PaidInv'
<1>1. /\ UNCHANGED <<pc, ord, job, credited, extended, paidAt, status>>
      /\ \A o \in Orders : payment[o] = "paid" => payment'[o] = "paid"
  BY DEF Environment, OrderTimesOut, GraceLapses, UserPays, AdminDeletesCode, frame,
         orderRow, effects, upstream, TypeInv, DataOK
<1>2. \A v \in Workers : ActsOnPayment(pc[v], job[v]) => ord[v] \in Orders
  BY PaidLabelsList DEF ActsOnPayment, ReportLabels, TypeInv, ControlOK
<1>3. DeliveredOnlyIfPaid'
  BY <1>1 DEF PaidInv, DeliveredOnlyIfPaid
<1> QED
  BY <1>1, <1>2, <1>3 DEF PaidInv

LEMMA PaidNext == TypeInv /\ CreationInv /\ PaidInv /\ [Next]_vars => PaidInv'
<1> SUFFICES ASSUME TypeInv, CreationInv, PaidInv, [Next]_vars PROVE PaidInv'
  OBVIOUS
<1>1. CASE UNCHANGED vars
  BY <1>1 DEF PaidInv, DeliveredOnlyIfPaid, vars, orderRow, effects, upstream, frame
<1>2. CASE Environment
  BY <1>2, PaidEnvironment
<1>3. ASSUME NEW w \in Workers, WorkerStep(w) PROVE PaidInv'
  BY <1>3, PaidCreate, PaidNotify, PaidFulfil, PaidRetry, PaidLifecycle, PaidRefund
  DEF WorkerStep
<1>4. ASSUME NEW w \in Workers, StatementFails(w) \/ Crash(w) PROVE PaidInv'
  BY <1>4, PaidFaults
<1> QED
  BY <1>1, <1>2, <1>3, <1>4 DEF Next

LEMMA PaidInit == Init => PaidInv
<1> SUFFICES ASSUME Init PROVE PaidInv
  OBVIOUS
<1>1. \A w \in Workers : ~ActsOnPayment(pc[w], job[w])
  BY PaidLabelsList DEF Init, ActsOnPayment, ReportLabels
<1>2. DeliveredOnlyIfPaid
  BY DEF Init, DeliveredOnlyIfPaid, Delivered
<1> QED
  BY <1>1, <1>2 DEF PaidInv

\* The inductive invariant: every handler that acts on a payment has one.
THEOREM PaidInvariant == Spec => [](TypeInv /\ CreationInv /\ PaidInv)
  BY PaidInit, PaidNext, CreationInvariant, PTL DEF Spec

\* Whatever reports arrive, are forged, repeated or late, and whatever fails,
\* an order that was credited, extended, marked paid or moved past PAID was
\* paid (confirmPayment, RetryFulfillment, ExecuteRefund).
THEOREM DeliveryIsPaidFor == Spec => []DeliveredOnlyIfPaid
<1>1. PaidInv => DeliveredOnlyIfPaid
  BY DEF PaidInv
<1> QED
  BY <1>1, PaidInvariant, PTL

-----------------------------------------------------------------------------
(* The ledger *)

\* The redeem code is the memory of the credit.
CreditInv == \A o \in Orders : credited[o] = IF code[o] = "used" THEN 1 ELSE 0

\* A step that redeems nothing: a credit is not added, a code is not used.
NoRedeem ==
  /\ credited' = credited
  /\ \A o \in Orders : code'[o] = "used" <=> code[o] = "used"

\* Only Redeem adds to the balance or uses a code.
LEMMA OnlyRedeem ==
  ASSUME TypeInv, NEW w \in Workers, WorkerStep(w) \/ StatementFails(w) \/ Crash(w),
         ~Redeem(w)
  PROVE  NoRedeem
<1>1. ASSUME CreateStep(w) PROVE NoRedeem
  BY <1>1 DEF CreateStep, CreateOrder, CheckPendingLimit, CreateOrderInTx,
         CreatePayment, SaveDetails, FailOrder, logs, effects, NoRedeem
<1>2. ASSUME NotifyStep(w) PROVE NoRedeem
  BY <1>2 DEF NotifyStep, HandleNotify, GetWebhookProviders,
         HandlePaymentNotification, ConfirmPayment, ToPaid, AlreadyProcessed,
         logs, effects, NoRedeem
<1>3. ASSUME FulfilStep(w), ~CreateCode(w) PROVE NoRedeem
  BY <1>3 DEF FulfilStep, ExecuteFulfillment, Lock, GetByCode,
         ApplyAffiliateRebate, GetGroup, HasAuditLog,
         AssignOrExtendSubscription, MarkCompleted, LogSubscriptionSuccess,
         MarkFailed, logs, effects, NoRedeem
<1>4. ASSUME RetryStep(w) PROVE NoRedeem
  BY <1>4 DEF RetryStep, RetryFulfillment, ResetForRetry, logs, effects,
         NoRedeem
<1>5. ASSUME LifecycleStep(w) PROVE NoRedeem
  BY <1>5 DEF LifecycleStep, CancelOrder, ExpireTimedOutOrder, VerifyOrder,
         ReconcilePendingOrder, CheckPaid, PersistTradeNo, CancelPayment,
         SetClosed, logs, effects, NoRedeem
<1>6. ASSUME RefundStep(w) PROVE NoRedeem
  BY <1>6 DEF RefundStep, RequestRefund, PrepareRefund, SetRefundRequested,
         RefundLock, CheckRollbackLog, Deduct, GwRefund, RollbackRefund,
         LogRollbackFailed, RefundFailed, RestoreStatus, MarkRefundOk, logs,
         effects, NoRedeem
<1>7. ASSUME CreateCode(w) PROVE NoRedeem
  BY <1>7, Running DEF CreateCode, effects, NoRedeem, TypeInv, DataOK
<1>8. ASSUME StatementFails(w) \/ Crash(w) PROVE NoRedeem
  BY <1>8 DEF StatementFails, Crash, logs, effects, NoRedeem
<1> QED
  BY <1>1, <1>2, <1>3, <1>4, <1>5, <1>6, <1>7, <1>8 DEF WorkerStep

\* Redeem finds the code unused and credits the order, or changes nothing.
LEMMA RedeemEffect ==
  ASSUME TypeInv, NEW w \in Workers, Redeem(w)
  PROVE  \/ NoRedeem
         \/ /\ code[ord[w]] = "unused"
            /\ credited' = [credited EXCEPT ![ord[w]] = @ + 1]
            /\ code' = [code EXCEPT ![ord[w]] = "used"]
  BY DEF Redeem, NoRedeem

LEMMA CreditNext ==
  ASSUME "delete" \notin Handlers, TypeInv, CreditInv, [Next]_vars
  PROVE  CreditInv'
<1>1. ASSUME NoRedeem PROVE CreditInv'
  BY <1>1 DEF CreditInv, NoRedeem
<1>2. CASE UNCHANGED vars
  BY <1>1, <1>2 DEF vars, logs, effects, NoRedeem
<1>3. CASE Environment
  BY <1>1, <1>3 DEF Environment, OrderTimesOut, GraceLapses, UserPays,
     AdminDeletesCode, logs, effects, NoRedeem
<1>4. ASSUME NEW w \in Workers, WorkerStep(w) \/ StatementFails(w) \/ Crash(w)
      PROVE  CreditInv'
  <2>1. CASE ~Redeem(w)
    BY <1>1, <1>4, <2>1, OnlyRedeem
  <2>2. CASE Redeem(w)
    <3>1. ord[w] \in Orders
      BY <2>2, Running DEF Redeem, TypeInv
    <3> QED
      BY <1>1, <2>2, <3>1, RedeemEffect DEF CreditInv, TypeInv, DataOK
  <2> QED
    BY <2>1, <2>2
<1> QED
  BY <1>2, <1>3, <1>4 DEF Next

\* The inductive invariant: the code of an order is used exactly when the order
\* was credited, and then once.
THEOREM CreditInvariant ==
  ASSUME "delete" \notin Handlers
  PROVE  Spec => [](TypeInv /\ CreditInv)
<1>1. Init => CreditInv
  BY DEF Init, CreditInv
<1>2. TypeInv /\ CreditInv /\ [Next]_vars => CreditInv'
  BY CreditNext
<1> QED
  BY <1>1, <1>2, TypeInvariant, PTL DEF Spec

\* No interleaving of webhooks, reconciliation and retries, on any number of
\* workers, with any statement failing or lost, credits an order twice
\* (doBalance, RedeemService.Redeem), if redeem codes are not deleted.
THEOREM BalanceCreditedOnce ==
  ASSUME "delete" \notin Handlers
  PROVE  Spec => []CreditedAtMostOnce
<1>1. CreditInv => CreditedAtMostOnce
  BY DEF CreditInv, CreditedAtMostOnce
<1> QED
  BY <1>1, CreditInvariant, PTL

-----------------------------------------------------------------------------
(* Refinement of OrderLedger *)

paidBar == {o \in BalanceOrders : payment[o] = "paid"}
creditBar == [o \in BalanceOrders |-> credited[o]]

\* The variables of OrderLedger under the refinement mapping.
LedgerStep == [Ledger!Next]_<<paidBar, creditBar>>

\* Only the user's payment makes an order paid.
LEMMA OnlyUserPays ==
  ASSUME TypeInv, CreationInv, NEW w \in Workers,
         WorkerStep(w) \/ StatementFails(w) \/ Crash(w)
  PROVE  \A o \in Orders : payment'[o] = "paid" <=> payment[o] = "paid"
<1>1. ASSUME CreateStep(w), ~CreatePayment(w), ~SaveDetails(w) PROVE payment' = payment
  BY <1>1 DEF CreateStep, CreateOrder, CheckPendingLimit, CreateOrderInTx,
         FailOrder, upstream
<1>2. ASSUME NotifyStep(w) PROVE payment' = payment
  BY <1>2 DEF NotifyStep, HandleNotify, GetWebhookProviders,
         HandlePaymentNotification, ConfirmPayment, ToPaid, AlreadyProcessed,
         upstream
<1>3. ASSUME FulfilStep(w) PROVE payment' = payment
  BY <1>3 DEF FulfilStep, ExecuteFulfillment, Lock, GetByCode, CreateCode,
         Redeem, ApplyAffiliateRebate, GetGroup, HasAuditLog,
         AssignOrExtendSubscription, MarkCompleted, LogSubscriptionSuccess,
         MarkFailed, upstream
<1>4. ASSUME RetryStep(w) PROVE payment' = payment
  BY <1>4 DEF RetryStep, RetryFulfillment, ResetForRetry, upstream
<1>5. ASSUME LifecycleStep(w), ~CancelPayment(w) PROVE payment' = payment
  BY <1>5 DEF LifecycleStep, CancelOrder, ExpireTimedOutOrder, VerifyOrder,
         ReconcilePendingOrder, CheckPaid, PersistTradeNo, SetClosed, upstream
<1>6. ASSUME RefundStep(w) PROVE payment' = payment
  BY <1>6 DEF RefundStep, RequestRefund, PrepareRefund, SetRefundRequested,
         RefundLock, CheckRollbackLog, Deduct, GwRefund, RollbackRefund,
         LogRollbackFailed, RefundFailed, RestoreStatus, MarkRefundOk,
         upstream
<1>7. ASSUME CreatePayment(w)
      PROVE  \A o \in Orders : payment'[o] = "paid" <=> payment[o] = "paid"
  BY <1>7, Running DEF CreatePayment, CreationInv, UnpaidLabels, TypeInv, DataOK
<1>8. ASSUME SaveDetails(w) \/ CancelPayment(w)
      PROVE  \A o \in Orders : payment'[o] = "paid" <=> payment[o] = "paid"
  BY <1>8, Running DEF SaveDetails, CancelPayment, TypeInv, DataOK
<1>9. ASSUME StatementFails(w) \/ Crash(w) PROVE payment' = payment
  BY <1>9 DEF StatementFails, Crash, upstream
<1> QED
  BY <1>1, <1>2, <1>3, <1>4, <1>5, <1>6, <1>7, <1>8, <1>9 DEF WorkerStep

LEMMA LedgerSimulation ==
  ASSUME "delete" \notin Handlers, TypeInv, CreationInv, PaidInv, CreditInv, [Next]_vars
  PROVE  LedgerStep
<1>1. ASSUME \A o \in Orders : payment'[o] = "paid" <=> payment[o] = "paid"
      PROVE  paidBar' = paidBar
  BY <1>1 DEF paidBar, BalanceOrders
<1>2. CASE UNCHANGED vars
  BY <1>2 DEF LedgerStep, paidBar, creditBar, vars, upstream, effects
<1>3. ASSUME NEW o \in Orders, UserPays(o) PROVE LedgerStep
  <2>1. creditBar' = creditBar
    BY <1>3 DEF UserPays, effects, creditBar
  <2>2. payment[o] # "paid" /\ payment' = [payment EXCEPT ![o] = "paid"]
    BY <1>3 DEF UserPays
  <2>3. CASE o \in BalanceOrders
    <3>1. o \notin paidBar /\ paidBar' = paidBar \cup {o}
      BY <2>2, <2>3 DEF paidBar, TypeInv, DataOK, BalanceOrders
    <3>2. Ledger!Pay(o)
      BY <2>1, <3>1 DEF Ledger!Pay, paidBar, creditBar
    <3> QED
      BY <2>3, <3>2 DEF LedgerStep, Ledger!Next
  <2>4. CASE o \notin BalanceOrders
    <3>1. paidBar' = paidBar
      BY <2>2, <2>4 DEF paidBar, TypeInv, DataOK, BalanceOrders
    <3> QED
      BY <2>1, <3>1 DEF LedgerStep
  <2> QED
    BY <2>3, <2>4
<1>4. ASSUME NEW o \in Orders, OrderTimesOut(o) \/ GraceLapses(o) PROVE LedgerStep
  BY <1>4 DEF OrderTimesOut, GraceLapses, effects, upstream, LedgerStep, paidBar, creditBar
<1>5. ASSUME NEW w \in Workers, WorkerStep(w) \/ StatementFails(w) \/ Crash(w)
      PROVE  LedgerStep
  <2>1. paidBar' = paidBar
    BY <1>1, <1>5, OnlyUserPays
  <2>2. CASE NoRedeem
    BY <2>1, <2>2 DEF NoRedeem, LedgerStep, creditBar
  <2>3. CASE Redeem(w) /\ ~NoRedeem
    <3>1. ord[w] \in Orders /\ pc[w] = "redeem"
      BY <2>3, Running DEF Redeem, TypeInv
    <3>2. credited' = [credited EXCEPT ![ord[w]] = 1] /\ credited[ord[w]] = 0
      BY <2>3, <3>1, RedeemEffect DEF CreditInv, TypeInv, DataOK
    <3>3. payment[ord[w]] = "paid"
      BY <3>1, PaidLabelsList DEF PaidInv, ActsOnPayment
    <3>4. ASSUME NEW o \in BalanceOrders, o = ord[w] PROVE LedgerStep
      <4>1. creditBar' = [creditBar EXCEPT ![o] = 1]
        BY <3>2, <3>4 DEF creditBar, TypeInv, DataOK, BalanceOrders
      <4>2. creditBar[o] = 0 /\ o \in paidBar
        BY <3>2, <3>3, <3>4 DEF creditBar, paidBar
      <4>3. Ledger!Credit(o)
        BY <2>1, <4>1, <4>2 DEF Ledger!Credit, paidBar, creditBar
      <4> QED
        BY <4>3 DEF LedgerStep, Ledger!Next
    <3>5. CASE ord[w] \notin BalanceOrders
      <4>1. creditBar' = creditBar
        BY <3>2, <3>5 DEF creditBar, TypeInv, DataOK, BalanceOrders
      <4> QED
        BY <2>1, <4>1 DEF LedgerStep
    <3> QED
      BY <3>4, <3>5
  <2> QED
    BY <1>5, <2>2, <2>3, OnlyRedeem
<1> QED
  BY <1>2, <1>3, <1>4, <1>5 DEF Next, Environment, AdminDeletesCode

\* The service implements the ledger: a balance order is credited once, after it
\* was paid, and nothing ever takes back or repeats a payment or a credit.
THEOREM ImplementsLedger ==
  ASSUME "delete" \notin Handlers
  PROVE  Spec => LedgerSpec
<1>1. Init => Ledger!Init
  BY DEF Init, Ledger!Init, BalanceOrders
<1>2. TypeInv /\ CreationInv /\ PaidInv /\ CreditInv /\ [Next]_vars
        => [Ledger!Next]_<<paidBar, creditBar>>
  BY LedgerSimulation DEF LedgerStep
<1>3. [Ledger!Next]_<<paidBar, creditBar>>
        <=> [Ledger!Next]_<<{o \in BalanceOrders : payment[o] = "paid"},
                            [o \in BalanceOrders |-> credited[o]]>>
  BY DEF paidBar, creditBar
<1> QED
  BY <1>1, <1>2, <1>3, CreditInvariant, PaidInvariant, PTL DEF Spec, LedgerSpec, Ledger!Spec

-----------------------------------------------------------------------------
(* Delivery *)

\* The order's amount or its days were delivered.
Done(o) == IF o \in SubOrders THEN extended[o] >= 1 ELSE credited[o] >= 1

\* The labels of doBalance, those of doSub, and those past a delivery.
BalanceLabels == {"getByCode", "createCode", "redeem", "applyRebate"}
SubLabels == {"getGroup", "hasAuditLog", "assign", "logSubscription"}
DoneLabels == {"applyRebate", "markCompleted", "logSubscription"} \cup RefundLabels

\* What the rows of an order promise.
OrderDelivery(o) ==
  /\ status[o] \in Delivered => Done(o)
  /\ code[o] = "used" => credited[o] >= 1
  /\ "SUBSCRIPTION_SUCCESS" \in audit[o] => extended[o] >= 1
  /\ \/ rebated[o] = 0
     \/ /\ rebated[o] = 1 /\ credited[o] >= 1
        /\ "AFFILIATE_REBATE_APPLIED" \in audit[o]

\* What the label of a handler says of its order.
HandlerDelivery(w) ==
  /\ pc[w] \in BalanceLabels => ord[w] \notin SubOrders
  /\ pc[w] \in SubLabels => ord[w] \in SubOrders
  /\ pc[w] \in DoneLabels => Done(ord[w])

DeliveryInv ==
  /\ \A o \in Orders : OrderDelivery(o)
  /\ \A w \in Workers : HandlerDelivery(w)

LEMMA DoneLabelsList ==
  DoneLabels = {"applyRebate", "markCompleted", "logSubscription", "refundLog",
    "deduct", "gwRefund", "rollback", "logRollbackFailed", "refundFailed",
    "restoreStatus", "markRefundOk"}
  BY DEF DoneLabels, RefundLabels

\* A delivery is never forgotten.
DeliveryGrows ==
  \A o \in Orders : credited[o] <= credited'[o] /\ extended[o] <= extended'[o]

LEMMA DoneStays ==
  ASSUME TypeInv, TypeInv', DeliveryGrows
  PROVE  \A o \in Orders : Done(o) => Done(o)'
  BY DEF DeliveryGrows, Done, TypeInv, DataOK

\* What a step must respect for DeliveryInv to survive it.
LEMMA DeliveryKept ==
  ASSUME TypeInv, TypeInv', DeliveryInv, DeliveryGrows, NEW w \in Workers, Others(w),
         \A o \in Orders : OrderDelivery(o)', HandlerDelivery(w)'
  PROVE  DeliveryInv'
<1>1. ASSUME NEW v \in Workers, v # w PROVE HandlerDelivery(v)'
  <2>1. pc'[v] = pc[v] /\ ord'[v] = ord[v] /\ HandlerDelivery(v)
    BY <1>1 DEF Others, DeliveryInv
  <2>2. pc[v] \in DoneLabels => ord[v] \in Orders
    BY DoneLabelsList DEF TypeInv, ControlOK
  <2>3. pc[v] \in DoneLabels => Done(ord[v])'
    BY <2>1, <2>2, DoneStays DEF HandlerDelivery, Done
  <2> QED
    BY <2>1, <2>3 DEF HandlerDelivery, Done
<1> QED
  BY <1>1 DEF DeliveryInv

\* A step that delivers and logs nothing, and publishes only delivered orders.
Quiet ==
  /\ UNCHANGED <<code, audit, credited, extended, rebated>>
  /\ \A o \in Orders : status'[o] \in Delivered => status[o] \in Delivered \/ Done(o)

LEMMA QuietKeeps ==
  ASSUME TypeInv, TypeInv', DeliveryInv, Quiet, NEW w \in Workers, Others(w),
         HandlerDelivery(w)'
  PROVE  DeliveryInv'
<1>1. DeliveryGrows
  BY DEF Quiet, DeliveryGrows, TypeInv, DataOK
<1>2. \A o \in Orders : OrderDelivery(o)'
  BY DEF Quiet, DeliveryInv, OrderDelivery, Done
<1> QED
  BY <1>1, <1>2, DeliveryKept

\* A handler that starts, or goes on before any delivery.
LEMMA EarlyLabel ==
  ASSUME NEW w \in Workers,
         pc'[w] \notin BalanceLabels \cup SubLabels \cup DoneLabels
  PROVE  HandlerDelivery(w)'
  BY DEF HandlerDelivery

LEMMA DeliveryCreate ==
  ASSUME TypeInv, TypeInv', DeliveryInv, NEW w \in Workers, CreateStep(w)
  PROVE  DeliveryInv'
<1>c. ControlOK
  BY DEF TypeInv
<1>1. ASSUME NEW o \in Orders, CreateOrder(w, o) PROVE DeliveryInv'
  <2>1. Others(w) /\ pc'[w] = "checkPendingLimit"
    BY <1>1, <1>c, EnterMoves DEF CreateOrder
  <2>2. Quiet
    BY <1>1 DEF CreateOrder, orderRow, logs, effects, Quiet
  <2>3. HandlerDelivery(w)'
    BY <2>1, EarlyLabel, DoneLabelsList DEF BalanceLabels, SubLabels
  <2> QED
    BY <2>1, <2>2, <2>3, QuietKeeps
<1>2. ASSUME CheckPendingLimit(w) PROVE DeliveryInv'
  <2>1. Moves(w, {"insertOrder"})
    BY <1>2, <1>c, CreateMoves
  <2>2. Quiet
    BY <1>2 DEF CheckPendingLimit, orderRow, logs, effects, Quiet
  <2>3. HandlerDelivery(w)'
    BY <2>1, EarlyLabel, DoneLabelsList DEF Moves, BalanceLabels, SubLabels
  <2> QED
    BY <2>1, <2>2, <2>3, QuietKeeps DEF Moves
<1>3. ASSUME CreateOrderInTx(w) PROVE DeliveryInv'
  <2>1. Moves(w, {"createPayment"})
    BY <1>3, <1>c, CreateMoves
  <2>2. Quiet
    BY <1>3, Running
    DEF CreateOrderInTx, SetStatus, orderRow, logs, effects, Quiet, Delivered, TypeInv,
        DataOK
  <2>3. HandlerDelivery(w)'
    BY <2>1, EarlyLabel, DoneLabelsList DEF Moves, BalanceLabels, SubLabels
  <2> QED
    BY <2>1, <2>2, <2>3, QuietKeeps DEF Moves
<1>4. ASSUME CreatePayment(w) PROVE DeliveryInv'
  <2>1. Moves(w, {"saveDetails", "failOrder"})
    BY <1>4, <1>c, CreateMoves
  <2>2. Quiet
    BY <1>4 DEF CreatePayment, orderRow, logs, effects, Quiet
  <2>3. HandlerDelivery(w)'
    BY <2>1, EarlyLabel, DoneLabelsList DEF Moves, BalanceLabels, SubLabels
  <2> QED
    BY <2>1, <2>2, <2>3, QuietKeeps DEF Moves
<1>5. ASSUME SaveDetails(w) PROVE DeliveryInv'
  <2>1. Moves(w, {"failOrder"})
    BY <1>5, <1>c, CreateMoves
  <2>2. Quiet
    BY <1>5 DEF SaveDetails, orderRow, logs, effects, Quiet
  <2>3. HandlerDelivery(w)'
    BY <2>1, EarlyLabel, DoneLabelsList DEF Moves, BalanceLabels, SubLabels
  <2> QED
    BY <2>1, <2>2, <2>3, QuietKeeps DEF Moves
<1>6. ASSUME FailOrder(w) PROVE DeliveryInv'
  <2>1. Moves(w, {})
    BY <1>6, <1>c, CreateMoves
  <2>2. Quiet
    BY <1>6, Running
    DEF FailOrder, SetStatus, orderRow, logs, effects, Quiet, Delivered, TypeInv,
        DataOK
  <2>3. HandlerDelivery(w)'
    BY <2>1, EarlyLabel, DoneLabelsList DEF Moves, BalanceLabels, SubLabels
  <2> QED
    BY <2>1, <2>2, <2>3, QuietKeeps DEF Moves
<1> QED
  BY <1>1, <1>2, <1>3, <1>4, <1>5, <1>6 DEF CreateStep

LEMMA DeliveryNotify ==
  ASSUME TypeInv, TypeInv', DeliveryInv, NEW w \in Workers, NotifyStep(w)
  PROVE  DeliveryInv'
<1>c. ControlOK
  BY DEF TypeInv
<1>1. ASSUME NEW o \in Orders, NEW h \in {"webhook", "mismatch"}, HandleNotify(w, o, h) PROVE DeliveryInv'
  <2>1. Others(w) /\ pc'[w] = "getProviders"
    BY <1>1, <1>c, EnterMoves DEF HandleNotify
  <2>2. Quiet
    BY <1>1 DEF HandleNotify, orderRow, logs, effects, Quiet
  <2>3. HandlerDelivery(w)'
    BY <2>1, EarlyLabel, DoneLabelsList DEF BalanceLabels, SubLabels
  <2> QED
    BY <2>1, <2>2, <2>3, QuietKeeps
<1>2. ASSUME GetWebhookProviders(w) PROVE DeliveryInv'
  <2>1. Moves(w, {"notify"})
    BY <1>2, <1>c, NotifyMoves
  <2>2. Quiet
    BY <1>2 DEF GetWebhookProviders, orderRow, logs, effects, Quiet
  <2>3. HandlerDelivery(w)'
    BY <2>1, EarlyLabel, DoneLabelsList DEF Moves, BalanceLabels, SubLabels
  <2> QED
    BY <2>1, <2>2, <2>3, QuietKeeps DEF Moves
<1>3. ASSUME HandlePaymentNotification(w) PROVE DeliveryInv'
  <2>1. Moves(w, {"confirm"})
    BY <1>3, <1>c, NotifyMoves
  <2>2. Quiet
    BY <1>3 DEF HandlePaymentNotification, orderRow, logs, effects, Quiet
  <2>3. HandlerDelivery(w)'
    BY <2>1, EarlyLabel, DoneLabelsList DEF Moves, BalanceLabels, SubLabels
  <2> QED
    BY <2>1, <2>2, <2>3, QuietKeeps DEF Moves
<1>4. ASSUME ConfirmPayment(w) PROVE DeliveryInv'
  <2>1. Moves(w, IF job[w] = "mismatch" THEN {} ELSE {"toPaid"})
    BY <1>4, <1>c, NotifyMoves
  <2>2. Quiet
    BY <1>4 DEF ConfirmPayment, orderRow, logs, effects, Quiet
  <2>3. HandlerDelivery(w)'
    BY <2>1, EarlyLabel, DoneLabelsList DEF Moves, BalanceLabels, SubLabels
  <2> QED
    BY <2>1, <2>2, <2>3, QuietKeeps DEF Moves
<1>5. ASSUME ToPaid(w) PROVE DeliveryInv'
  <2>1. Moves(w, {"getOrder", "reload"})
    BY <1>5, <1>c, NotifyMoves
  <2>2. Quiet
    BY <1>5, Running
    DEF ToPaid, SetStatus, orderRow, logs, effects, Quiet, Delivered, TypeInv, DataOK
  <2>3. HandlerDelivery(w)'
    BY <2>1, EarlyLabel, DoneLabelsList DEF Moves, BalanceLabels, SubLabels
  <2> QED
    BY <2>1, <2>2, <2>3, QuietKeeps DEF Moves
<1>6. ASSUME AlreadyProcessed(w) PROVE DeliveryInv'
  <2>1. Moves(w, {"getOrder"})
    BY <1>6, <1>c, NotifyMoves
  <2>2. Quiet
    BY <1>6 DEF AlreadyProcessed, orderRow, logs, effects, Quiet
  <2>3. HandlerDelivery(w)'
    BY <2>1, EarlyLabel, DoneLabelsList DEF Moves, BalanceLabels, SubLabels
  <2> QED
    BY <2>1, <2>2, <2>3, QuietKeeps DEF Moves
<1> QED
  BY <1>1, <1>2, <1>3, <1>4, <1>5, <1>6 DEF NotifyStep

LEMMA DeliveryFulfil ==
  ASSUME TypeInv, TypeInv', DeliveryInv, NEW w \in Workers, FulfilStep(w)
  PROVE  DeliveryInv'
<1>c. ControlOK
  BY DEF TypeInv
<1>1. ASSUME ExecuteFulfillment(w) PROVE DeliveryInv'
  <2>1. Moves(w, {"lock"})
    BY <1>1, <1>c, FulfilMoves
  <2>2. Quiet
    BY <1>1 DEF ExecuteFulfillment, orderRow, logs, effects, Quiet
  <2>3. HandlerDelivery(w)'
    BY <2>1, EarlyLabel, DoneLabelsList DEF Moves, BalanceLabels, SubLabels
  <2> QED
    BY <2>1, <2>2, <2>3, QuietKeeps DEF Moves
<1>2. ASSUME Lock(w) PROVE DeliveryInv'
  <2>1. Moves(w, {IF ord[w] \in SubOrders THEN "getGroup" ELSE "getByCode"})
    BY <1>2, <1>c, FulfilMoves
  <2>2. Quiet
    BY <1>2, Running
    DEF Lock, SetStatus, orderRow, logs, effects, Quiet, Delivered, TypeInv, DataOK
  <2>3. pc[w] = "lock" /\ HandlerDelivery(w) /\ OrderDelivery(ord[w]) /\ ord[w] \in Orders
    BY <1>2, Running DEF Lock, DeliveryInv, TypeInv
  <2>4. HandlerDelivery(w)'
    BY <1>2, <2>1, <2>2, <2>3, DoneLabelsList
    DEF Moves, Quiet, HandlerDelivery, OrderDelivery, Done, BalanceLabels, SubLabels
  <2> QED
    BY <2>1, <2>2, <2>4, QuietKeeps DEF Moves
<1>3. ASSUME GetByCode(w) PROVE DeliveryInv'
  <2>1. Moves(w, {ResolveRedeemAction(ord[w])})
    BY <1>3, <1>c, FulfilMoves
  <2>2. Quiet
    BY <1>3 DEF GetByCode, orderRow, logs, effects, Quiet
  <2>3. pc[w] = "getByCode" /\ HandlerDelivery(w) /\ OrderDelivery(ord[w]) /\ ord[w] \in Orders
    BY <1>3, Running DEF GetByCode, DeliveryInv, TypeInv
  <2>4. HandlerDelivery(w)'
    BY <1>3, <2>1, <2>2, <2>3, DoneLabelsList
    DEF Moves, Quiet, HandlerDelivery, OrderDelivery, Done, BalanceLabels, SubLabels,
        ResolveRedeemAction, TypeInv, DataOK
  <2> QED
    BY <2>1, <2>2, <2>4, QuietKeeps DEF Moves
<1>4. ASSUME CreateCode(w) PROVE DeliveryInv'
  <2>1. Moves(w, {"redeem", "markFailed"})
    BY <1>4, <1>c, FulfilMoves
  <2>2. pc[w] = "createCode" /\ HandlerDelivery(w) /\ ord[w] \in Orders
    BY <1>4, Running DEF CreateCode, DeliveryInv, TypeInv
  <2>3. DeliveryGrows
    BY <1>4, <2>2 DEF CreateCode, effects, DeliveryGrows, TypeInv, DataOK
  <2>4. ASSUME NEW o \in Orders PROVE OrderDelivery(o)'
    BY <1>4, <2>2, <2>4, DoneLabelsList
    DEF CreateCode, DeliveryInv, OrderDelivery, HandlerDelivery, Done, BalanceLabels,
        SubLabels, AuditActions, orderRow, effects, TypeInv, DataOK
  <2>5. HandlerDelivery(w)'
    BY <1>4, <2>1, <2>2, <2>3, DoneLabelsList
    DEF Moves, DeliveryGrows, HandlerDelivery, Done, BalanceLabels, SubLabels, TypeInv,
        DataOK
  <2> QED
    BY <2>1, <2>3, <2>4, <2>5, DeliveryKept DEF Moves
<1>5. ASSUME Redeem(w) PROVE DeliveryInv'
  <2>1. Moves(w, {"applyRebate", "markFailed"})
    BY <1>5, <1>c, FulfilMoves
  <2>2. pc[w] = "redeem" /\ HandlerDelivery(w) /\ ord[w] \in Orders
    BY <1>5, Running DEF Redeem, DeliveryInv, TypeInv
  <2>3. DeliveryGrows
    BY <1>5, <2>2 DEF Redeem, effects, DeliveryGrows, TypeInv, DataOK
  <2>4. ASSUME NEW o \in Orders PROVE OrderDelivery(o)'
    BY <1>5, <2>2, <2>4, DoneLabelsList
    DEF Redeem, DeliveryInv, OrderDelivery, HandlerDelivery, Done, BalanceLabels,
        SubLabels, AuditActions, orderRow, effects, TypeInv, DataOK
  <2>5. HandlerDelivery(w)'
    <3>1. CASE code[ord[w]] = "unused"
      <4>1. credited'[ord[w]] >= 1 /\ ord[w] \notin SubOrders
        BY <1>5, <2>2, <3>1
        DEF Redeem, HandlerDelivery, BalanceLabels, TypeInv, DataOK
      <4> QED
        BY <2>1, <4>1, DoneLabelsList
        DEF Moves, HandlerDelivery, Done, BalanceLabels, SubLabels
    <3>2. CASE code[ord[w]] # "unused"
      <4>1. pc'[w] = "markFailed"
        BY <1>5, <1>c, <3>2 DEF Redeem, Goto, ControlOK
      <4> QED
        BY <4>1, EarlyLabel, DoneLabelsList DEF BalanceLabels, SubLabels
    <3> QED
      BY <3>1, <3>2
  <2> QED
    BY <2>1, <2>3, <2>4, <2>5, DeliveryKept DEF Moves
<1>6. ASSUME ApplyAffiliateRebate(w) PROVE DeliveryInv'
  <2>1. Moves(w, {"markCompleted", "markFailed"})
    BY <1>6, <1>c, FulfilMoves
  <2>2. pc[w] = "applyRebate" /\ HandlerDelivery(w) /\ ord[w] \in Orders
    BY <1>6, Running DEF ApplyAffiliateRebate, DeliveryInv, TypeInv
  <2>3. DeliveryGrows
    BY <1>6, <2>2 DEF ApplyAffiliateRebate, effects, DeliveryGrows, TypeInv, DataOK
  <2>4. ASSUME NEW o \in Orders PROVE OrderDelivery(o)'
    BY <1>6, <2>2, <2>4, DoneLabelsList
    DEF ApplyAffiliateRebate, DeliveryInv, OrderDelivery, HandlerDelivery, Done,
        BalanceLabels, SubLabels, AuditActions, orderRow, effects, RebateClaimed,
        TypeInv, DataOK
  <2>5. HandlerDelivery(w)'
    BY <1>6, <2>1, <2>2, <2>3, DoneLabelsList
    DEF Moves, DeliveryGrows, HandlerDelivery, Done, BalanceLabels, SubLabels, TypeInv,
        DataOK
  <2> QED
    BY <2>1, <2>3, <2>4, <2>5, DeliveryKept DEF Moves
<1>7. ASSUME GetGroup(w) PROVE DeliveryInv'
  <2>1. Moves(w, {"hasAuditLog", "markFailed"})
    BY <1>7, <1>c, FulfilMoves
  <2>2. Quiet
    BY <1>7 DEF GetGroup, orderRow, logs, effects, Quiet
  <2>3. pc[w] = "getGroup" /\ HandlerDelivery(w) /\ OrderDelivery(ord[w]) /\ ord[w] \in Orders
    BY <1>7, Running DEF GetGroup, DeliveryInv, TypeInv
  <2>4. HandlerDelivery(w)'
    BY <1>7, <2>1, <2>2, <2>3, DoneLabelsList
    DEF Moves, Quiet, HandlerDelivery, OrderDelivery, Done, BalanceLabels, SubLabels
  <2> QED
    BY <2>1, <2>2, <2>4, QuietKeeps DEF Moves
<1>8. ASSUME HasAuditLog(w) PROVE DeliveryInv'
  <2>1. Moves(w, {IF "SUBSCRIPTION_SUCCESS" \in audit[ord[w]] THEN "markCompleted" ELSE "assign"})
    BY <1>8, <1>c, FulfilMoves
  <2>2. Quiet
    BY <1>8 DEF HasAuditLog, orderRow, logs, effects, Quiet
  <2>3. pc[w] = "hasAuditLog" /\ HandlerDelivery(w) /\ OrderDelivery(ord[w]) /\ ord[w] \in Orders
    BY <1>8, Running DEF HasAuditLog, DeliveryInv, TypeInv
  <2>4. HandlerDelivery(w)'
    BY <1>8, <2>1, <2>2, <2>3, DoneLabelsList
    DEF Moves, Quiet, HandlerDelivery, OrderDelivery, Done, BalanceLabels, SubLabels
  <2> QED
    BY <2>1, <2>2, <2>4, QuietKeeps DEF Moves
<1>9. ASSUME AssignOrExtendSubscription(w) PROVE DeliveryInv'
  <2>1. Moves(w, {"markCompleted", "markFailed"})
    BY <1>9, <1>c, FulfilMoves
  <2>2. pc[w] = "assign" /\ HandlerDelivery(w) /\ ord[w] \in Orders
    BY <1>9, Running DEF AssignOrExtendSubscription, DeliveryInv, TypeInv
  <2>3. DeliveryGrows
    BY <1>9, <2>2
    DEF AssignOrExtendSubscription, effects, DeliveryGrows, TypeInv, DataOK
  <2>4. ASSUME NEW o \in Orders PROVE OrderDelivery(o)'
    BY <1>9, <2>2, <2>4, DoneLabelsList
    DEF AssignOrExtendSubscription, DeliveryInv, OrderDelivery, HandlerDelivery, Done,
        BalanceLabels, SubLabels, AuditActions, orderRow, effects, logs, TypeInv,
        DataOK
  <2>5. HandlerDelivery(w)'
    BY <1>9, <2>1, <2>2, <2>3, DoneLabelsList
    DEF AssignOrExtendSubscription, Moves, DeliveryGrows, HandlerDelivery, Done,
        BalanceLabels, SubLabels, TypeInv, DataOK
  <2> QED
    BY <2>1, <2>3, <2>4, <2>5, DeliveryKept DEF Moves
<1>10. ASSUME MarkCompleted(w) PROVE DeliveryInv'
  <2>1. Moves(w, IF ord[w] \in SubOrders THEN {"logSubscription", "markFailed"} ELSE {"markFailed"})
    BY <1>10, <1>c, FulfilMoves
  <2>2. Quiet
    <3>1. Done(ord[w]) /\ ord[w] \in Orders
      BY <1>10, Running, DoneLabelsList
      DEF MarkCompleted, DeliveryInv, HandlerDelivery, TypeInv
    <3> QED
      BY <1>10, <3>1 DEF MarkCompleted, SetStatus, logs, effects, Quiet, TypeInv, DataOK
  <2>3. pc[w] = "markCompleted" /\ HandlerDelivery(w) /\ OrderDelivery(ord[w]) /\ ord[w] \in Orders
    BY <1>10, Running DEF MarkCompleted, DeliveryInv, TypeInv
  <2>4. HandlerDelivery(w)'
    BY <1>10, <2>1, <2>2, <2>3, DoneLabelsList
    DEF Moves, Quiet, HandlerDelivery, OrderDelivery, Done, BalanceLabels, SubLabels
  <2> QED
    BY <2>1, <2>2, <2>4, QuietKeeps DEF Moves
<1>11. ASSUME LogSubscriptionSuccess(w) PROVE DeliveryInv'
  <2>1. Moves(w, {})
    BY <1>11, <1>c, FulfilMoves
  <2>2. pc[w] = "logSubscription" /\ HandlerDelivery(w) /\ ord[w] \in Orders
    BY <1>11, Running DEF LogSubscriptionSuccess, DeliveryInv, TypeInv
  <2>3. DeliveryGrows
    BY <1>11, <2>2 DEF LogSubscriptionSuccess, effects, DeliveryGrows, TypeInv, DataOK
  <2>4. ASSUME NEW o \in Orders PROVE OrderDelivery(o)'
    BY <1>11, <2>2, <2>4, DoneLabelsList
    DEF LogSubscriptionSuccess, DeliveryInv, OrderDelivery, HandlerDelivery, Done,
        BalanceLabels, SubLabels, AuditActions, orderRow, effects, TypeInv, DataOK
  <2>5. HandlerDelivery(w)'
    BY <1>11, <2>1, <2>2, <2>3, DoneLabelsList
    DEF Moves, DeliveryGrows, HandlerDelivery, Done, BalanceLabels, SubLabels, TypeInv,
        DataOK
  <2> QED
    BY <2>1, <2>3, <2>4, <2>5, DeliveryKept DEF Moves
<1>12. ASSUME MarkFailed(w) PROVE DeliveryInv'
  <2>1. Moves(w, {})
    BY <1>12, <1>c, FulfilMoves
  <2>2. Quiet
    BY <1>12, Running
    DEF MarkFailed, SetStatus, orderRow, logs, effects, Quiet, Delivered, TypeInv,
        DataOK
  <2>3. HandlerDelivery(w)'
    BY <2>1, EarlyLabel, DoneLabelsList DEF Moves, BalanceLabels, SubLabels
  <2> QED
    BY <2>1, <2>2, <2>3, QuietKeeps DEF Moves
<1> QED
  BY <1>1, <1>2, <1>3, <1>4, <1>5, <1>6, <1>7, <1>8, <1>9, <1>10, <1>11, <1>12
  DEF FulfilStep

LEMMA DeliveryRetry ==
  ASSUME TypeInv, TypeInv', DeliveryInv, NEW w \in Workers, RetryStep(w)
  PROVE  DeliveryInv'
<1>c. ControlOK
  BY DEF TypeInv
<1>1. ASSUME NEW o \in Orders, RetryFulfillment(w, o) PROVE DeliveryInv'
  <2>1. Others(w) /\ pc'[w] = "resetForRetry"
    BY <1>1, <1>c, EnterMoves DEF RetryFulfillment
  <2>2. Quiet
    BY <1>1 DEF RetryFulfillment, orderRow, logs, effects, Quiet
  <2>3. HandlerDelivery(w)'
    BY <2>1, EarlyLabel, DoneLabelsList DEF BalanceLabels, SubLabels
  <2> QED
    BY <2>1, <2>2, <2>3, QuietKeeps
<1>2. ASSUME ResetForRetry(w) PROVE DeliveryInv'
  <2>1. Moves(w, {"getOrder"})
    BY <1>2, <1>c, NotifyMoves
  <2>2. Quiet
    BY <1>2, Running
    DEF ResetForRetry, SetStatus, orderRow, logs, effects, Quiet, Delivered, TypeInv,
        DataOK
  <2>3. HandlerDelivery(w)'
    BY <2>1, EarlyLabel, DoneLabelsList DEF Moves, BalanceLabels, SubLabels
  <2> QED
    BY <2>1, <2>2, <2>3, QuietKeeps DEF Moves
<1> QED
  BY <1>1, <1>2 DEF RetryStep

LEMMA DeliveryLifecycle ==
  ASSUME TypeInv, TypeInv', DeliveryInv, NEW w \in Workers, LifecycleStep(w)
  PROVE  DeliveryInv'
<1>c. ControlOK
  BY DEF TypeInv
<1>1. ASSUME NEW o \in Orders, CancelOrder(w, o) PROVE DeliveryInv'
  <2>1. Others(w) /\ pc'[w] = "queryOrder"
    BY <1>1, <1>c, EnterMoves DEF CancelOrder
  <2>2. Quiet
    BY <1>1 DEF CancelOrder, orderRow, logs, effects, Quiet
  <2>3. HandlerDelivery(w)'
    BY <2>1, EarlyLabel, DoneLabelsList DEF BalanceLabels, SubLabels
  <2> QED
    BY <2>1, <2>2, <2>3, QuietKeeps
<1>2. ASSUME NEW o \in Orders, ExpireTimedOutOrder(w, o) PROVE DeliveryInv'
  <2>1. Others(w) /\ pc'[w] = "queryOrder"
    BY <1>2, <1>c, EnterMoves DEF ExpireTimedOutOrder
  <2>2. Quiet
    BY <1>2 DEF ExpireTimedOutOrder, orderRow, logs, effects, Quiet
  <2>3. HandlerDelivery(w)'
    BY <2>1, EarlyLabel, DoneLabelsList DEF BalanceLabels, SubLabels
  <2> QED
    BY <2>1, <2>2, <2>3, QuietKeeps
<1>3. ASSUME NEW o \in Orders, VerifyOrder(w, o) PROVE DeliveryInv'
  <2>1. Others(w) /\ pc'[w] = "queryOrder"
    BY <1>3, <1>c, EnterMoves DEF VerifyOrder
  <2>2. Quiet
    BY <1>3 DEF VerifyOrder, orderRow, logs, effects, Quiet
  <2>3. HandlerDelivery(w)'
    BY <2>1, EarlyLabel, DoneLabelsList DEF BalanceLabels, SubLabels
  <2> QED
    BY <2>1, <2>2, <2>3, QuietKeeps
<1>4. ASSUME NEW o \in Orders, ReconcilePendingOrder(w, o) PROVE DeliveryInv'
  <2>1. Others(w) /\ pc'[w] = "queryOrder"
    BY <1>4, <1>c, EnterMoves DEF ReconcilePendingOrder
  <2>2. Quiet
    BY <1>4 DEF ReconcilePendingOrder, orderRow, logs, effects, Quiet
  <2>3. HandlerDelivery(w)'
    BY <2>1, EarlyLabel, DoneLabelsList DEF BalanceLabels, SubLabels
  <2> QED
    BY <2>1, <2>2, <2>3, QuietKeeps
<1>5. ASSUME CheckPaid(w) PROVE DeliveryInv'
  <2>1. Moves(w, IF payment[ord[w]] = "paid" THEN {"notify", "persistTradeNo"} ELSE {"cancelPayment"})
    BY <1>5, <1>c, LifecycleMoves
  <2>2. Quiet
    BY <1>5 DEF CheckPaid, orderRow, logs, effects, Quiet
  <2>3. HandlerDelivery(w)'
    BY <2>1, EarlyLabel, DoneLabelsList DEF Moves, BalanceLabels, SubLabels
  <2> QED
    BY <2>1, <2>2, <2>3, QuietKeeps DEF Moves
<1>6. ASSUME PersistTradeNo(w) PROVE DeliveryInv'
  <2>1. Moves(w, {"notify"})
    BY <1>6, <1>c, LifecycleMoves
  <2>2. Quiet
    BY <1>6 DEF PersistTradeNo, orderRow, logs, effects, Quiet
  <2>3. HandlerDelivery(w)'
    BY <2>1, EarlyLabel, DoneLabelsList DEF Moves, BalanceLabels, SubLabels
  <2> QED
    BY <2>1, <2>2, <2>3, QuietKeeps DEF Moves
<1>7. ASSUME CancelPayment(w) PROVE DeliveryInv'
  <2>1. Moves(w, {"setClosed"})
    BY <1>7, <1>c, LifecycleMoves
  <2>2. Quiet
    BY <1>7 DEF CancelPayment, orderRow, logs, effects, Quiet
  <2>3. HandlerDelivery(w)'
    BY <2>1, EarlyLabel, DoneLabelsList DEF Moves, BalanceLabels, SubLabels
  <2> QED
    BY <2>1, <2>2, <2>3, QuietKeeps DEF Moves
<1>8. ASSUME SetClosed(w) PROVE DeliveryInv'
  <2>1. Moves(w, {})
    BY <1>8, <1>c, LifecycleMoves
  <2>2. Quiet
    BY <1>8, Running
    DEF SetClosed, SetStatus, orderRow, logs, effects, Quiet, Delivered, TypeInv,
        DataOK
  <2>3. HandlerDelivery(w)'
    BY <2>1, EarlyLabel, DoneLabelsList DEF Moves, BalanceLabels, SubLabels
  <2> QED
    BY <2>1, <2>2, <2>3, QuietKeeps DEF Moves
<1> QED
  BY <1>1, <1>2, <1>3, <1>4, <1>5, <1>6, <1>7, <1>8 DEF LifecycleStep

LEMMA DeliveryRefund ==
  ASSUME TypeInv, TypeInv', DeliveryInv, NEW w \in Workers, RefundStep(w)
  PROVE  DeliveryInv'
<1>c. ControlOK
  BY DEF TypeInv
<1>1. ASSUME NEW o \in Orders, RequestRefund(w, o) PROVE DeliveryInv'
  <2>1. Others(w) /\ pc'[w] = "requestRefund"
    BY <1>1, <1>c, EnterMoves DEF RequestRefund
  <2>2. Quiet
    BY <1>1 DEF RequestRefund, orderRow, logs, effects, Quiet
  <2>3. HandlerDelivery(w)'
    BY <2>1, EarlyLabel, DoneLabelsList DEF BalanceLabels, SubLabels
  <2> QED
    BY <2>1, <2>2, <2>3, QuietKeeps
<1>2. ASSUME NEW o \in Orders, PrepareRefund(w, o) PROVE DeliveryInv'
  <2>1. Others(w) /\ pc'[w] = "refundLock"
    BY <1>2, <1>c, EnterMoves DEF PrepareRefund
  <2>2. Quiet
    BY <1>2 DEF PrepareRefund, orderRow, logs, effects, Quiet
  <2>3. HandlerDelivery(w)'
    BY <2>1, EarlyLabel, DoneLabelsList DEF BalanceLabels, SubLabels
  <2> QED
    BY <2>1, <2>2, <2>3, QuietKeeps
<1>3. ASSUME SetRefundRequested(w) PROVE DeliveryInv'
  <2>1. Moves(w, {})
    BY <1>3, <1>c, RefundMoves
  <2>2. Quiet
    BY <1>3, Running
    DEF SetRefundRequested, SetStatus, logs, effects, Quiet, Delivered, TypeInv, DataOK
  <2>3. HandlerDelivery(w)'
    BY <2>1, EarlyLabel, DoneLabelsList DEF Moves, BalanceLabels, SubLabels
  <2> QED
    BY <2>1, <2>2, <2>3, QuietKeeps DEF Moves
<1>4. ASSUME RefundLock(w) PROVE DeliveryInv'
  <2>1. Moves(w, {"refundLog", "gwRefund"})
    BY <1>4, <1>c, RefundMoves
  <2>2. Quiet
    BY <1>4, Running
    DEF RefundLock, SetStatus, logs, effects, Quiet, Delivered, Refundable, TypeInv,
        DataOK
  <2>3. ord[w] \in Orders /\ (pc'[w] # "idle" => status[ord[w]] \in Delivered)
    BY <1>4, Running, <1>c
    DEF RefundLock, Leave, Refundable, Delivered, ControlOK, TypeInv
  <2>4. HandlerDelivery(w)'
    BY <2>1, <2>2, <2>3, DoneLabelsList
    DEF Moves, Quiet, DeliveryInv, HandlerDelivery, OrderDelivery, Done, BalanceLabels,
        SubLabels
  <2> QED
    BY <2>1, <2>2, <2>4, QuietKeeps DEF Moves
<1>5. ASSUME CheckRollbackLog(w) PROVE DeliveryInv'
  <2>1. Moves(w, {"gwRefund", "deduct"})
    BY <1>5, <1>c, RefundMoves
  <2>2. Quiet
    BY <1>5 DEF CheckRollbackLog, orderRow, logs, effects, Quiet
  <2>3. pc[w] = "refundLog" /\ HandlerDelivery(w) /\ OrderDelivery(ord[w]) /\ ord[w] \in Orders
    BY <1>5, Running DEF CheckRollbackLog, DeliveryInv, TypeInv
  <2>4. HandlerDelivery(w)'
    BY <1>5, <2>1, <2>2, <2>3, DoneLabelsList
    DEF Moves, Quiet, HandlerDelivery, OrderDelivery, Done, BalanceLabels, SubLabels
  <2> QED
    BY <2>1, <2>2, <2>4, QuietKeeps DEF Moves
<1>6. ASSUME Deduct(w) PROVE DeliveryInv'
  <2>1. Moves(w, {"gwRefund", "restoreStatus"})
    BY <1>6, <1>c, RefundMoves
  <2>2. Quiet
    BY <1>6 DEF Deduct, orderRow, logs, effects, Quiet
  <2>3. pc[w] = "deduct" /\ HandlerDelivery(w) /\ OrderDelivery(ord[w]) /\ ord[w] \in Orders
    BY <1>6, Running DEF Deduct, DeliveryInv, TypeInv
  <2>4. HandlerDelivery(w)'
    BY <1>6, <2>1, <2>2, <2>3, DoneLabelsList
    DEF Moves, Quiet, HandlerDelivery, OrderDelivery, Done, BalanceLabels, SubLabels
  <2> QED
    BY <2>1, <2>2, <2>4, QuietKeeps DEF Moves
<1>7. ASSUME GwRefund(w) PROVE DeliveryInv'
  <2>1. Moves(w, {"markRefundOk", "rollback"})
    BY <1>7, <1>c, RefundMoves
  <2>2. Quiet
    BY <1>7 DEF GwRefund, orderRow, logs, effects, Quiet
  <2>3. pc[w] = "gwRefund" /\ HandlerDelivery(w) /\ OrderDelivery(ord[w]) /\ ord[w] \in Orders
    BY <1>7, Running DEF GwRefund, DeliveryInv, TypeInv
  <2>4. HandlerDelivery(w)'
    BY <1>7, <2>1, <2>2, <2>3, DoneLabelsList
    DEF Moves, Quiet, HandlerDelivery, OrderDelivery, Done, BalanceLabels, SubLabels
  <2> QED
    BY <2>1, <2>2, <2>4, QuietKeeps DEF Moves
<1>8. ASSUME RollbackRefund(w) PROVE DeliveryInv'
  <2>1. Moves(w, {"restoreStatus", "logRollbackFailed"})
    BY <1>8, <1>c, RefundMoves
  <2>2. Quiet
    BY <1>8 DEF RollbackRefund, orderRow, logs, effects, Quiet
  <2>3. pc[w] = "rollback" /\ HandlerDelivery(w) /\ OrderDelivery(ord[w]) /\ ord[w] \in Orders
    BY <1>8, Running DEF RollbackRefund, DeliveryInv, TypeInv
  <2>4. HandlerDelivery(w)'
    BY <1>8, <2>1, <2>2, <2>3, DoneLabelsList
    DEF Moves, Quiet, HandlerDelivery, OrderDelivery, Done, BalanceLabels, SubLabels
  <2> QED
    BY <2>1, <2>2, <2>4, QuietKeeps DEF Moves
<1>9. ASSUME LogRollbackFailed(w) PROVE DeliveryInv'
  <2>1. Moves(w, {"refundFailed"})
    BY <1>9, <1>c, RefundMoves
  <2>2. pc[w] = "logRollbackFailed" /\ HandlerDelivery(w) /\ ord[w] \in Orders
    BY <1>9, Running DEF LogRollbackFailed, DeliveryInv, TypeInv
  <2>3. DeliveryGrows
    BY <1>9, <2>2 DEF LogRollbackFailed, effects, DeliveryGrows, TypeInv, DataOK
  <2>4. ASSUME NEW o \in Orders PROVE OrderDelivery(o)'
    BY <1>9, <2>2, <2>4, DoneLabelsList
    DEF LogRollbackFailed, DeliveryInv, OrderDelivery, HandlerDelivery, Done,
        BalanceLabels, SubLabels, AuditActions, orderRow, effects, TypeInv, DataOK
  <2>5. HandlerDelivery(w)'
    BY <1>9, <2>1, <2>2, <2>3, DoneLabelsList
    DEF Moves, DeliveryGrows, HandlerDelivery, Done, BalanceLabels, SubLabels, TypeInv,
        DataOK
  <2> QED
    BY <2>1, <2>3, <2>4, <2>5, DeliveryKept DEF Moves
<1>10. ASSUME RefundFailed(w) PROVE DeliveryInv'
  <2>1. Moves(w, {})
    BY <1>10, <1>c, RefundMoves
  <2>2. Quiet
    <3>1. Done(ord[w]) /\ ord[w] \in Orders
      BY <1>10, Running, DoneLabelsList
      DEF RefundFailed, DeliveryInv, HandlerDelivery, TypeInv
    <3> QED
      BY <1>10, <3>1 DEF RefundFailed, SetStatus, logs, effects, Quiet, TypeInv, DataOK
  <2>3. HandlerDelivery(w)'
    BY <2>1, EarlyLabel, DoneLabelsList DEF Moves, BalanceLabels, SubLabels
  <2> QED
    BY <2>1, <2>2, <2>3, QuietKeeps DEF Moves
<1>11. ASSUME RestoreStatus(w) PROVE DeliveryInv'
  <2>1. Moves(w, {})
    BY <1>11, <1>c, RefundMoves
  <2>2. Quiet
    <3>1. Done(ord[w]) /\ ord[w] \in Orders
      BY <1>11, Running, DoneLabelsList
      DEF RestoreStatus, DeliveryInv, HandlerDelivery, TypeInv
    <3> QED
      BY <1>11, <3>1 DEF RestoreStatus, SetStatus, logs, effects, Quiet, TypeInv, DataOK
  <2>3. HandlerDelivery(w)'
    BY <2>1, EarlyLabel, DoneLabelsList DEF Moves, BalanceLabels, SubLabels
  <2> QED
    BY <2>1, <2>2, <2>3, QuietKeeps DEF Moves
<1>12. ASSUME MarkRefundOk(w) PROVE DeliveryInv'
  <2>1. Moves(w, {})
    BY <1>12, <1>c, RefundMoves
  <2>2. Quiet
    <3>1. Done(ord[w]) /\ ord[w] \in Orders
      BY <1>12, Running, DoneLabelsList
      DEF MarkRefundOk, DeliveryInv, HandlerDelivery, TypeInv
    <3> QED
      BY <1>12, <3>1 DEF MarkRefundOk, SetStatus, logs, effects, Quiet, TypeInv, DataOK
  <2>3. HandlerDelivery(w)'
    BY <2>1, EarlyLabel, DoneLabelsList DEF Moves, BalanceLabels, SubLabels
  <2> QED
    BY <2>1, <2>2, <2>3, QuietKeeps DEF Moves
<1> QED
  BY <1>1, <1>2, <1>3, <1>4, <1>5, <1>6, <1>7, <1>8, <1>9, <1>10, <1>11, <1>12
  DEF RefundStep

LEMMA DeliveryFaults ==
  ASSUME TypeInv, TypeInv', DeliveryInv, NEW w \in Workers, StatementFails(w) \/ Crash(w)
  PROVE  DeliveryInv'
<1>1. Moves(w, {OnError(w)}) /\ Quiet
  BY FaultMoves
  DEF Moves, StatementFails, Crash, orderRow, logs, effects, Quiet, TypeInv
<1>2. pc[w] \in Labels \ {"idle"} /\ ord[w] \in Orders /\ HandlerDelivery(w)
  BY DEF TypeInv, ControlOK, StatementFails, Crash, DeliveryInv
<1>3. /\ OnError(w) \in BalanceLabels => pc[w] \in BalanceLabels
      /\ OnError(w) \in SubLabels => pc[w] \in SubLabels
      /\ OnError(w) \in DoneLabels => pc[w] \in DoneLabels
  BY <1>2, OnErrorCases, LabelsList, DoneLabelsList DEF BalanceLabels, SubLabels
<1>4. "idle" \notin BalanceLabels \cup SubLabels \cup DoneLabels
  BY DoneLabelsList DEF BalanceLabels, SubLabels
<1>5. HandlerDelivery(w)'
  BY <1>1, <1>2, <1>3, <1>4 DEF Moves, Quiet, HandlerDelivery, Done
<1> QED
  BY <1>1, <1>5, QuietKeeps DEF Moves

LEMMA DeliveryEnvironment ==
  ASSUME TypeInv, TypeInv', DeliveryInv, Environment
  PROVE  DeliveryInv'
<1>1. /\ UNCHANGED <<pc, ord, status, audit, credited, extended, rebated>>
      /\ \A o \in Orders : code'[o] = "used" => code[o] = "used"
  BY DEF Environment, OrderTimesOut, GraceLapses, UserPays, AdminDeletesCode, frame,
         orderRow, logs, effects, TypeInv, DataOK
<1> QED
  BY <1>1 DEF DeliveryInv, OrderDelivery, HandlerDelivery, Done

LEMMA DeliveryNext == TypeInv /\ TypeInv' /\ DeliveryInv /\ [Next]_vars => DeliveryInv'
<1> SUFFICES ASSUME TypeInv, TypeInv', DeliveryInv, [Next]_vars PROVE DeliveryInv'
  OBVIOUS
<1>1. CASE UNCHANGED vars
  BY <1>1 DEF DeliveryInv, OrderDelivery, HandlerDelivery, Done, vars, orderRow, logs,
              effects, frame
<1>2. CASE Environment
  BY <1>2, DeliveryEnvironment
<1>3. ASSUME NEW w \in Workers, WorkerStep(w) PROVE DeliveryInv'
  BY <1>3, DeliveryCreate, DeliveryNotify, DeliveryFulfil, DeliveryRetry,
     DeliveryLifecycle, DeliveryRefund DEF WorkerStep
<1>4. ASSUME NEW w \in Workers, StatementFails(w) \/ Crash(w) PROVE DeliveryInv'
  BY <1>4, DeliveryFaults
<1> QED
  BY <1>1, <1>2, <1>3, <1>4 DEF Next

\* The inductive invariant: labels, logs, codes and statuses agree with what was
\* delivered.
THEOREM DeliveryInvariant == Spec => [](TypeInv /\ DeliveryInv)
<1>1. Init => DeliveryInv
  <2> SUFFICES ASSUME Init PROVE DeliveryInv
    OBVIOUS
  <2>1. \A w \in Workers : HandlerDelivery(w)
    BY DoneLabelsList DEF Init, HandlerDelivery, BalanceLabels, SubLabels
  <2>2. \A o \in Orders : OrderDelivery(o)
    BY DEF Init, OrderDelivery, Delivered
  <2> QED
    BY <2>1, <2>2 DEF DeliveryInv
<1> QED
  BY <1>1, TypeInvariant, DeliveryNext, PTL DEF Spec

\* An order that says COMPLETED or that entered the refund flow was delivered,
\* whatever failed, crashed or ran beside it (markCompleted, ExecuteRefund).
THEOREM CompletedIsDelivered == Spec => []CompletedMeansDelivered
<1>1. DeliveryInv => CompletedMeansDelivered
  BY DEF DeliveryInv, OrderDelivery, Done, CompletedMeansDelivered
<1> QED
  BY <1>1, DeliveryInvariant, PTL

\* A rebate is paid once and for a credited order, even if the order's redeem
\* code is deleted and the order is credited again (applyAffiliateRebateForOrder).
THEOREM RebatedOnce == Spec => []RebatedAtMostOnce
<1>1. DeliveryInv => RebatedAtMostOnce
  BY DEF DeliveryInv, OrderDelivery, RebatedAtMostOnce
<1> QED
  BY <1>1, DeliveryInvariant, PTL

=============================================================================
