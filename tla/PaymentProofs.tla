------------------------------ MODULE PaymentProofs ------------------------------
(***************************************************************************)
(* Types and control of the payment service, for every set of orders and   *)
(* workers, every choice of handlers and every set of labels that can      *)
(* fail: which labels each step can lead to, and that an order is created  *)
(* by one handler before anybody can pay it.                               *)
(***************************************************************************)
EXTENDS PaymentSystem, TLAPS

-----------------------------------------------------------------------------
(* Control: the frames of the handlers. *)

\* The types of the control variables; a running handler has an order.
ControlOK ==
  /\ pc \in [Workers -> Labels]
  /\ job \in [Workers -> AllHandlers \cup {"none"}]
  /\ ord \in [Workers -> Orders \cup {NoOrder}]
  /\ ref \in [Workers -> TradeNos]
  /\ plan \in [Workers -> [was: Statuses, partial: BOOLEAN, take: Deductions]]
  /\ faults \in Nat
  /\ \A w \in Workers : pc[w] # "idle" => ord[w] \in Orders

\* Every label, spelled out for the provers.
LEMMA LabelsList ==
  Labels = {"checkPendingLimit", "insertOrder", "createPayment", "saveDetails",
    "failOrder", "queryOrder", "persistTradeNo", "cancelPayment", "setClosed",
    "getProviders", "notify", "confirm", "toPaid", "reload", "getOrder", "lock",
    "getByCode", "createCode", "redeem", "applyRebate", "getGroup", "hasAuditLog",
    "assign", "markCompleted", "logSubscription", "markFailed", "resetForRetry",
    "refundLog", "deduct", "gwRefund", "rollback", "logRollbackFailed",
    "refundFailed", "restoreStatus", "markRefundOk", "requestRefund", "refundLock",
    "idle"}
  BY DEF Labels, CreateLabels, LifecycleLabels, NotifyLabels, FulfilLabels,
         RetryLabels, RefundLabels

\* Goto, Leave, Enter and Reply keep the frames well formed.
LEMMA GotoOK ==
  ASSUME ControlOK, NEW w \in Workers, NEW l \in Labels, pc[w] # "idle",
         Goto(w, l), faults' \in Nat
  PROVE  ControlOK'
  BY DEF ControlOK, Goto, frame

LEMMA LeaveOK ==
  ASSUME ControlOK, NEW w \in Workers, Leave(w), faults' \in Nat
  PROVE  ControlOK'
<1>1. NoPlan \in [was: Statuses, partial: BOOLEAN, take: Deductions]
  BY DEF NoPlan, Statuses, Deductions
<1>2. "idle" \in Labels
  BY LabelsList
<1> QED
  BY <1>1, <1>2 DEF ControlOK, Leave, TradeNos

LEMMA EnterOK ==
  ASSUME ControlOK, NEW w \in Workers, NEW h, NEW o \in Orders, NEW l \in Labels,
         NEW t \in TradeNos,
         NEW p \in [was: Statuses, partial: BOOLEAN, take: Deductions],
         Enter(w, h, o, l, t, p)
  PROVE  ControlOK'
<1>1. h \in AllHandlers
  BY HandlersAssumption DEF Enter
<1> QED
  BY <1>1 DEF ControlOK, Enter

LEMMA OnErrorLabel ==
  ASSUME NEW w
  PROVE  OnError(w) \in Labels
  BY LabelsList DEF OnError

LEMMA ReplyOK ==
  ASSUME ControlOK, NEW w \in Workers, NEW l \in Labels, pc[w] # "idle", Reply(w, l)
  PROVE  ControlOK'
<1>1. faults' \in Nat
  BY DEF Reply, SpendFault, ControlOK
<1>2. Leave(w) \/ Goto(w, l) \/ Goto(w, OnError(w))
  BY DEF Reply
<1>3. OnError(w) \in Labels
  BY OnErrorLabel
<1> QED
  BY <1>1, <1>2, <1>3, GotoOK, LeaveOK

LEMMA NoPlanOK == NoPlan \in [was: Statuses, partial: BOOLEAN, take: Deductions]
  BY DEF NoPlan, Statuses, Deductions

-----------------------------------------------------------------------------
(* Type correctness. *)

\* The types of the tables, the effects and the provider.
DataOK ==
  /\ status \in [Orders -> Statuses]
  /\ paidAt \in [Orders -> BOOLEAN]
  /\ tradeNo \in [Orders -> TradeNos]
  /\ fresh \in [Orders -> BOOLEAN]
  /\ due \in [Orders -> BOOLEAN]
  /\ audit \in [Orders -> SUBSET AuditActions]
  /\ code \in [Orders -> {"none", "unused", "used"}]
  /\ credited \in [Orders -> Nat]
  /\ extended \in [Orders -> Nat]
  /\ rebated \in [Orders -> Nat]
  /\ deducted \in [Orders -> Int]
  /\ refunds \in [Orders -> Nat]
  /\ payment \in [Orders -> {"none", "created", "payable", "paid", "closed"}]
  /\ acked \in [Orders -> BOOLEAN]

TypeInv == DataOK /\ ControlOK

LEMMA Running ==
  ASSUME ControlOK, NEW w \in Workers, pc[w] # "idle"
  PROVE  ord[w] \in Orders
  BY DEF ControlOK

LEMMA StatusWrite ==
  ASSUME DataOK, NEW o \in Orders, NEW s \in Statuses, SetStatus(o, s)
  PROVE  status' \in [Orders -> Statuses] /\ fresh' \in [Orders -> BOOLEAN]
  BY DEF DataOK, SetStatus

LEMMA AckWrite ==
  ASSUME DataOK, NEW w, ord[w] \in Orders, AckIfWebhook(w)
  PROVE  acked' \in [Orders -> BOOLEAN]
  BY DEF DataOK, AckIfWebhook

LEMMA TypeCreate ==
  ASSUME TypeInv, NEW w \in Workers, CreateStep(w)
  PROVE  TypeInv'
<1> USE DEF TypeInv
<1>1. ASSUME NEW o \in Orders, CreateOrder(w, o) PROVE TypeInv'
  <2>a. {"none", "upstream"} \subseteq TradeNos
    BY DEF DataOK, TradeNos
  <2>1. ControlOK'
    BY <1>1, <2>a, LabelsList, EnterOK, NoPlanOK DEF CreateOrder
  <2> QED
    BY <1>1, <2>1 DEF CreateOrder, DataOK, orderRow, logs, effects, upstream
<1>2. ASSUME CheckPendingLimit(w) PROVE TypeInv'
  <2>1. ControlOK'
    BY <1>2, LabelsList, GotoOK, LeaveOK DEF CheckPendingLimit, ControlOK
  <2>o. ord[w] \in Orders
    BY <1>2, Running DEF CheckPendingLimit
  <2> QED
    BY <1>2, <2>1, <2>o DEF CheckPendingLimit, DataOK, orderRow, logs, effects, upstream
<1>3. ASSUME CreateOrderInTx(w) PROVE TypeInv'
  <2>1. ControlOK'
    BY <1>3, LabelsList, ReplyOK DEF CreateOrderInTx, ControlOK
  <2>o. ord[w] \in Orders
    BY <1>3, Running DEF CreateOrderInTx
  <2>2. status' \in [Orders -> Statuses] /\ fresh' \in [Orders -> BOOLEAN]
    BY <1>3, <2>o, StatusWrite DEF CreateOrderInTx, DataOK, Statuses
  <2> QED
    BY <1>3, <2>1, <2>o, <2>2 DEF CreateOrderInTx, DataOK, orderRow, logs, effects, upstream
<1>4. ASSUME CreatePayment(w) PROVE TypeInv'
  <2>1. ControlOK'
    BY <1>4, LabelsList, ReplyOK, GotoOK DEF CreatePayment, ControlOK
  <2>o. ord[w] \in Orders
    BY <1>4, Running DEF CreatePayment
  <2> QED
    BY <1>4, <2>1, <2>o DEF CreatePayment, DataOK, orderRow, logs, effects, upstream
<1>5. ASSUME SaveDetails(w) PROVE TypeInv'
  <2>1. ControlOK'
    BY <1>5, LabelsList, ReplyOK DEF SaveDetails, ControlOK
  <2>o. ord[w] \in Orders
    BY <1>5, Running DEF SaveDetails
  <2> QED
    BY <1>5, <2>1, <2>o DEF SaveDetails, DataOK, TradeNos, orderRow, logs, effects, upstream
<1>6. ASSUME FailOrder(w) PROVE TypeInv'
  <2>1. ControlOK'
    BY <1>6, LabelsList, ReplyOK DEF FailOrder, ControlOK
  <2>o. ord[w] \in Orders
    BY <1>6, Running DEF FailOrder
  <2>2. status' \in [Orders -> Statuses] /\ fresh' \in [Orders -> BOOLEAN]
    BY <1>6, <2>o, StatusWrite DEF FailOrder, DataOK, Statuses
  <2> QED
    BY <1>6, <2>1, <2>o, <2>2 DEF FailOrder, DataOK, orderRow, logs, effects, upstream
<1> QED
  BY <1>1, <1>2, <1>3, <1>4, <1>5, <1>6 DEF CreateStep

LEMMA TypeNotify ==
  ASSUME TypeInv, NEW w \in Workers, NotifyStep(w)
  PROVE  TypeInv'
<1> USE DEF TypeInv
<1>1. ASSUME NEW o \in Orders, NEW h \in {"webhook", "mismatch"}, HandleNotify(w, o, h) PROVE TypeInv'
  <2>a. {"none", "upstream"} \subseteq TradeNos
    BY DEF DataOK, TradeNos
  <2>1. ControlOK'
    BY <1>1, <2>a, LabelsList, EnterOK, NoPlanOK DEF HandleNotify
  <2> QED
    BY <1>1, <2>1 DEF HandleNotify, DataOK, orderRow, logs, effects, upstream
<1>2. ASSUME GetWebhookProviders(w) PROVE TypeInv'
  <2>1. ControlOK'
    BY <1>2, LabelsList, GotoOK DEF GetWebhookProviders, ControlOK
  <2>o. ord[w] \in Orders
    BY <1>2, Running DEF GetWebhookProviders
  <2> QED
    BY <1>2, <2>1, <2>o DEF GetWebhookProviders, DataOK, orderRow, logs, effects, upstream
<1>3. ASSUME HandlePaymentNotification(w) PROVE TypeInv'
  <2>1. ControlOK'
    BY <1>3, LabelsList, GotoOK DEF HandlePaymentNotification, ControlOK
  <2>o. ord[w] \in Orders
    BY <1>3, Running DEF HandlePaymentNotification
  <2> QED
    BY <1>3, <2>1, <2>o DEF HandlePaymentNotification, DataOK, orderRow, logs, effects, upstream
<1>4. ASSUME ConfirmPayment(w) PROVE TypeInv'
  <2>1. ControlOK'
    BY <1>4, LabelsList, GotoOK, LeaveOK DEF ConfirmPayment, ControlOK
  <2>o. ord[w] \in Orders
    BY <1>4, Running DEF ConfirmPayment
  <2> QED
    BY <1>4, <2>1, <2>o DEF ConfirmPayment, DataOK, orderRow, logs, effects, upstream
<1>5. ASSUME ToPaid(w) PROVE TypeInv'
  <2>1. ControlOK'
    BY <1>5, LabelsList, ReplyOK, GotoOK DEF ToPaid, ControlOK
  <2>o. ord[w] \in Orders
    BY <1>5, Running DEF ToPaid
  <2>2. status' \in [Orders -> Statuses] /\ fresh' \in [Orders -> BOOLEAN]
    BY <1>5, <2>o, StatusWrite DEF ToPaid, DataOK, Statuses
  <2>3. \/ /\ paidAt' = [paidAt EXCEPT ![ord[w]] = TRUE]
           /\ tradeNo' = [tradeNo EXCEPT ![ord[w]] = ref[w]]
        \/ paidAt' = paidAt /\ tradeNo' = tradeNo
    BY <1>5, Zenon DEF ToPaid
  <2>4. ref[w] \in TradeNos
    BY DEF ControlOK
  <2>5. paidAt' \in [Orders -> BOOLEAN] /\ tradeNo' \in [Orders -> TradeNos]
    BY <2>3, <2>4, <2>o DEF DataOK
  <2> QED
    BY <1>5, <2>1, <2>o, <2>2, <2>5 DEF ToPaid, DataOK, orderRow, logs, effects, upstream
<1>6. ASSUME AlreadyProcessed(w) PROVE TypeInv'
  <2>1. ControlOK'
    BY <1>6, LabelsList, GotoOK, LeaveOK DEF AlreadyProcessed, ControlOK
  <2>o. ord[w] \in Orders
    BY <1>6, Running DEF AlreadyProcessed
  <2>3. acked' \in [Orders -> BOOLEAN]
    BY <1>6, <2>o, AckWrite DEF AlreadyProcessed, DataOK
  <2> QED
    BY <1>6, <2>1, <2>o, <2>3 DEF AlreadyProcessed, DataOK, orderRow, logs, effects, upstream
<1> QED
  BY <1>1, <1>2, <1>3, <1>4, <1>5, <1>6 DEF NotifyStep

LEMMA TypeFulfil ==
  ASSUME TypeInv, NEW w \in Workers, FulfilStep(w)
  PROVE  TypeInv'
<1> USE DEF TypeInv
<1>1. ASSUME ExecuteFulfillment(w) PROVE TypeInv'
  <2>1. ControlOK'
    BY <1>1, LabelsList, GotoOK, LeaveOK DEF ExecuteFulfillment, ControlOK
  <2>o. ord[w] \in Orders
    BY <1>1, Running DEF ExecuteFulfillment
  <2>3. acked' \in [Orders -> BOOLEAN]
    BY <1>1, <2>o, AckWrite DEF ExecuteFulfillment, DataOK
  <2> QED
    BY <1>1, <2>1, <2>o, <2>3 DEF ExecuteFulfillment, DataOK, orderRow, logs, effects, upstream
<1>2. ASSUME Lock(w) PROVE TypeInv'
  <2>1. ControlOK'
    BY <1>2, LabelsList, ReplyOK, LeaveOK DEF Lock, ControlOK
  <2>o. ord[w] \in Orders
    BY <1>2, Running DEF Lock
  <2>2. status' \in [Orders -> Statuses] /\ fresh' \in [Orders -> BOOLEAN]
    BY <1>2, <2>o, StatusWrite DEF Lock, DataOK, Statuses
  <2>3. acked' \in [Orders -> BOOLEAN]
    BY <1>2, <2>o, AckWrite DEF Lock, DataOK
  <2> QED
    BY <1>2, <2>1, <2>o, <2>2, <2>3 DEF Lock, DataOK, orderRow, logs, effects, upstream
<1>3. ASSUME GetByCode(w) PROVE TypeInv'
  <2>1. ControlOK'
    <3>1. ResolveRedeemAction(ord[w]) \in {"createCode", "redeem", "applyRebate"}
      BY <1>3, Running DEF GetByCode, ResolveRedeemAction, DataOK
    <3>2. ResolveRedeemAction(ord[w]) \in Labels
      BY <3>1, LabelsList
    <3> QED
      BY <1>3, <3>2, GotoOK DEF GetByCode, ControlOK
  <2>o. ord[w] \in Orders
    BY <1>3, Running DEF GetByCode
  <2> QED
    BY <1>3, <2>1, <2>o DEF GetByCode, DataOK, orderRow, logs, effects, upstream
<1>4. ASSUME CreateCode(w) PROVE TypeInv'
  <2>1. ControlOK'
    BY <1>4, LabelsList, ReplyOK, GotoOK DEF CreateCode, ControlOK
  <2>o. ord[w] \in Orders
    BY <1>4, Running DEF CreateCode
  <2> QED
    BY <1>4, <2>1, <2>o DEF CreateCode, DataOK, orderRow, logs, effects, upstream
<1>5. ASSUME Redeem(w) PROVE TypeInv'
  <2>1. ControlOK'
    BY <1>5, LabelsList, ReplyOK, GotoOK DEF Redeem, ControlOK
  <2>o. ord[w] \in Orders
    BY <1>5, Running DEF Redeem
  <2> QED
    BY <1>5, <2>1, <2>o DEF Redeem, DataOK, orderRow, logs, effects, upstream
<1>6. ASSUME ApplyAffiliateRebate(w) PROVE TypeInv'
  <2>1. ControlOK'
    BY <1>6, LabelsList, ReplyOK, GotoOK DEF ApplyAffiliateRebate, ControlOK
  <2>o. ord[w] \in Orders
    BY <1>6, Running DEF ApplyAffiliateRebate
  <2> QED
    BY <1>6, <2>1, <2>o DEF ApplyAffiliateRebate, DataOK, AuditActions, orderRow, logs, effects, upstream
<1>7. ASSUME GetGroup(w) PROVE TypeInv'
  <2>1. ControlOK'
    BY <1>7, LabelsList, GotoOK DEF GetGroup, ControlOK
  <2>o. ord[w] \in Orders
    BY <1>7, Running DEF GetGroup
  <2> QED
    BY <1>7, <2>1, <2>o DEF GetGroup, DataOK, orderRow, logs, effects, upstream
<1>8. ASSUME HasAuditLog(w) PROVE TypeInv'
  <2>1. ControlOK'
    BY <1>8, LabelsList, GotoOK DEF HasAuditLog, ControlOK
  <2>o. ord[w] \in Orders
    BY <1>8, Running DEF HasAuditLog
  <2> QED
    BY <1>8, <2>1, <2>o DEF HasAuditLog, DataOK, orderRow, logs, effects, upstream
<1>9. ASSUME AssignOrExtendSubscription(w) PROVE TypeInv'
  <2>1. ControlOK'
    BY <1>9, LabelsList, ReplyOK DEF AssignOrExtendSubscription, ControlOK
  <2>o. ord[w] \in Orders
    BY <1>9, Running DEF AssignOrExtendSubscription
  <2> QED
    BY <1>9, <2>1, <2>o DEF AssignOrExtendSubscription, DataOK, orderRow, logs, effects, upstream
<1>10. ASSUME MarkCompleted(w) PROVE TypeInv'
  <2>1. ControlOK'
    BY <1>10, LabelsList, ReplyOK DEF MarkCompleted, ControlOK
  <2>o. ord[w] \in Orders
    BY <1>10, Running DEF MarkCompleted
  <2>2. status' \in [Orders -> Statuses] /\ fresh' \in [Orders -> BOOLEAN]
    BY <1>10, <2>o, StatusWrite DEF MarkCompleted, DataOK, Statuses
  <2>3. acked' \in [Orders -> BOOLEAN]
    BY <1>10, <2>o, AckWrite DEF MarkCompleted, DataOK
  <2> QED
    BY <1>10, <2>1, <2>o, <2>2, <2>3 DEF MarkCompleted, DataOK, orderRow, logs, effects, upstream
<1>11. ASSUME LogSubscriptionSuccess(w) PROVE TypeInv'
  <2>1. ControlOK'
    BY <1>11, LabelsList, LeaveOK DEF LogSubscriptionSuccess, ControlOK
  <2>o. ord[w] \in Orders
    BY <1>11, Running DEF LogSubscriptionSuccess
  <2>3. acked' \in [Orders -> BOOLEAN]
    BY <1>11, <2>o, AckWrite DEF LogSubscriptionSuccess, DataOK
  <2> QED
    BY <1>11, <2>1, <2>o, <2>3 DEF LogSubscriptionSuccess, DataOK, AuditActions, orderRow, logs, effects, upstream
<1>12. ASSUME MarkFailed(w) PROVE TypeInv'
  <2>1. ControlOK'
    BY <1>12, LabelsList, ReplyOK DEF MarkFailed, ControlOK
  <2>o. ord[w] \in Orders
    BY <1>12, Running DEF MarkFailed
  <2>2. status' \in [Orders -> Statuses] /\ fresh' \in [Orders -> BOOLEAN]
    BY <1>12, <2>o, StatusWrite DEF MarkFailed, DataOK, Statuses
  <2> QED
    BY <1>12, <2>1, <2>o, <2>2 DEF MarkFailed, DataOK, orderRow, logs, effects, upstream
<1> QED
  BY <1>1, <1>2, <1>3, <1>4, <1>5, <1>6, <1>7, <1>8, <1>9, <1>10, <1>11, <1>12 DEF FulfilStep

LEMMA TypeRetry ==
  ASSUME TypeInv, NEW w \in Workers, RetryStep(w)
  PROVE  TypeInv'
<1> USE DEF TypeInv
<1>1. ASSUME NEW o \in Orders, RetryFulfillment(w, o) PROVE TypeInv'
  <2>a. {"none", "upstream"} \subseteq TradeNos
    BY DEF DataOK, TradeNos
  <2>1. ControlOK'
    BY <1>1, <2>a, LabelsList, EnterOK, NoPlanOK DEF RetryFulfillment
  <2> QED
    BY <1>1, <2>1 DEF RetryFulfillment, DataOK, orderRow, logs, effects, upstream
<1>2. ASSUME ResetForRetry(w) PROVE TypeInv'
  <2>1. ControlOK'
    BY <1>2, LabelsList, ReplyOK DEF ResetForRetry, ControlOK
  <2>o. ord[w] \in Orders
    BY <1>2, Running DEF ResetForRetry
  <2>2. status' \in [Orders -> Statuses] /\ fresh' \in [Orders -> BOOLEAN]
    BY <1>2, <2>o, StatusWrite DEF ResetForRetry, DataOK, Statuses
  <2> QED
    BY <1>2, <2>1, <2>o, <2>2 DEF ResetForRetry, DataOK, orderRow, logs, effects, upstream
<1> QED
  BY <1>1, <1>2 DEF RetryStep

LEMMA TypeLifecycle ==
  ASSUME TypeInv, NEW w \in Workers, LifecycleStep(w)
  PROVE  TypeInv'
<1> USE DEF TypeInv
<1>1. ASSUME NEW o \in Orders, CancelOrder(w, o) PROVE TypeInv'
  <2>a. tradeNo[o] \in TradeNos
    BY DEF DataOK, TradeNos
  <2>1. ControlOK'
    BY <1>1, <2>a, LabelsList, EnterOK, NoPlanOK DEF CancelOrder
  <2> QED
    BY <1>1, <2>1 DEF CancelOrder, DataOK, orderRow, logs, effects, upstream
<1>2. ASSUME NEW o \in Orders, ExpireTimedOutOrder(w, o) PROVE TypeInv'
  <2>a. tradeNo[o] \in TradeNos
    BY DEF DataOK, TradeNos
  <2>1. ControlOK'
    BY <1>2, <2>a, LabelsList, EnterOK, NoPlanOK DEF ExpireTimedOutOrder
  <2> QED
    BY <1>2, <2>1 DEF ExpireTimedOutOrder, DataOK, orderRow, logs, effects, upstream
<1>3. ASSUME NEW o \in Orders, VerifyOrder(w, o) PROVE TypeInv'
  <2>a. tradeNo[o] \in TradeNos
    BY DEF DataOK, TradeNos
  <2>1. ControlOK'
    BY <1>3, <2>a, LabelsList, EnterOK, NoPlanOK DEF VerifyOrder
  <2> QED
    BY <1>3, <2>1 DEF VerifyOrder, DataOK, orderRow, logs, effects, upstream
<1>4. ASSUME NEW o \in Orders, ReconcilePendingOrder(w, o) PROVE TypeInv'
  <2>a. tradeNo[o] \in TradeNos
    BY DEF DataOK, TradeNos
  <2>1. ControlOK'
    BY <1>4, <2>a, LabelsList, EnterOK, NoPlanOK DEF ReconcilePendingOrder
  <2> QED
    BY <1>4, <2>1 DEF ReconcilePendingOrder, DataOK, orderRow, logs, effects, upstream
<1>5. ASSUME CheckPaid(w) PROVE TypeInv'
  <2>1. ControlOK'
    <3>1. CASE Goto(w, "notify") \/ Goto(w, "cancelPayment")
      BY <1>5, <3>1, LabelsList, GotoOK DEF CheckPaid, ControlOK
    <3>2. CASE Leave(w)
      BY <1>5, <3>2, LeaveOK DEF CheckPaid, ControlOK
    <3>3. CASE /\ ref' = [ref EXCEPT ![w] = "upstream"]
               /\ pc' = [pc EXCEPT ![w] = "persistTradeNo"]
               /\ UNCHANGED <<job, ord, plan>>
      BY <1>5, <3>3, LabelsList DEF CheckPaid, ControlOK, TradeNos
    <3> QED
      BY <1>5, <3>1, <3>2, <3>3 DEF CheckPaid
  <2>o. ord[w] \in Orders
    BY <1>5, Running DEF CheckPaid
  <2> QED
    BY <1>5, <2>1, <2>o DEF CheckPaid, DataOK, orderRow, logs, effects, upstream
<1>6. ASSUME PersistTradeNo(w) PROVE TypeInv'
  <2>1. ControlOK'
    BY <1>6, LabelsList, ReplyOK DEF PersistTradeNo, ControlOK
  <2>o. ord[w] \in Orders
    BY <1>6, Running DEF PersistTradeNo
  <2> QED
    BY <1>6, <2>1, <2>o DEF PersistTradeNo, DataOK, TradeNos, orderRow, logs, effects, upstream
<1>7. ASSUME CancelPayment(w) PROVE TypeInv'
  <2>1. ControlOK'
    BY <1>7, LabelsList, GotoOK DEF CancelPayment, ControlOK
  <2>o. ord[w] \in Orders
    BY <1>7, Running DEF CancelPayment
  <2> QED
    BY <1>7, <2>1, <2>o DEF CancelPayment, DataOK, orderRow, logs, effects, upstream
<1>8. ASSUME SetClosed(w) PROVE TypeInv'
  <2>1. ControlOK'
    BY <1>8, LabelsList, ReplyOK DEF SetClosed, ControlOK
  <2>o. ord[w] \in Orders
    BY <1>8, Running DEF SetClosed
  <2>2. status' \in [Orders -> Statuses] /\ fresh' \in [Orders -> BOOLEAN]
    BY <1>8, <2>o, StatusWrite DEF SetClosed, DataOK, Statuses
  <2> QED
    BY <1>8, <2>1, <2>o, <2>2 DEF SetClosed, DataOK, orderRow, logs, effects, upstream
<1> QED
  BY <1>1, <1>2, <1>3, <1>4, <1>5, <1>6, <1>7, <1>8 DEF LifecycleStep

LEMMA TypeRefund ==
  ASSUME TypeInv, NEW w \in Workers, RefundStep(w)
  PROVE  TypeInv'
<1> USE DEF TypeInv
<1>1. ASSUME NEW o \in Orders, RequestRefund(w, o) PROVE TypeInv'
  <2>a. {"none", "upstream"} \subseteq TradeNos
    BY DEF DataOK, TradeNos
  <2>1. ControlOK'
    BY <1>1, <2>a, LabelsList, EnterOK, NoPlanOK DEF RequestRefund
  <2> QED
    BY <1>1, <2>1 DEF RequestRefund, DataOK, orderRow, logs, effects, upstream
<1>2. ASSUME NEW o \in Orders, PrepareRefund(w, o) PROVE TypeInv'
  <2>1. ControlOK'
    <3>1. PICK partial \in BOOLEAN, take \in {"nothing", "deduct"} :
            Enter(w, "refund", o, "refundLock", tradeNo[o],
                  [was |-> status[o], partial |-> partial, take |-> take])
      BY <1>2 DEF PrepareRefund
    <3>2. [was |-> status[o], partial |-> partial, take |-> take]
            \in [was: Statuses, partial: BOOLEAN, take: Deductions]
      BY DEF DataOK, Deductions
    <3>3. tradeNo[o] \in TradeNos
      BY DEF DataOK
    <3> QED
      BY <3>1, <3>2, <3>3, LabelsList, EnterOK
  <2> QED
    BY <1>2, <2>1 DEF PrepareRefund, DataOK, orderRow, logs, effects, upstream
<1>3. ASSUME SetRefundRequested(w) PROVE TypeInv'
  <2>1. ControlOK'
    BY <1>3, LabelsList, ReplyOK DEF SetRefundRequested, ControlOK
  <2>o. ord[w] \in Orders
    BY <1>3, Running DEF SetRefundRequested
  <2>2. status' \in [Orders -> Statuses] /\ fresh' \in [Orders -> BOOLEAN]
    BY <1>3, <2>o, StatusWrite DEF SetRefundRequested, DataOK, Statuses
  <2> QED
    BY <1>3, <2>1, <2>o, <2>2 DEF SetRefundRequested, DataOK, orderRow, logs, effects, upstream
<1>4. ASSUME RefundLock(w) PROVE TypeInv'
  <2>1. ControlOK'
    BY <1>4, LabelsList, ReplyOK, LeaveOK DEF RefundLock, ControlOK
  <2>o. ord[w] \in Orders
    BY <1>4, Running DEF RefundLock
  <2>2. status' \in [Orders -> Statuses] /\ fresh' \in [Orders -> BOOLEAN]
    BY <1>4, <2>o, StatusWrite DEF RefundLock, DataOK, Statuses
  <2> QED
    BY <1>4, <2>1, <2>o, <2>2 DEF RefundLock, DataOK, orderRow, logs, effects, upstream
<1>5. ASSUME CheckRollbackLog(w) PROVE TypeInv'
  <2>1. ControlOK'
    <3>1. CASE Goto(w, "deduct")
      BY <1>5, <3>1, LabelsList, GotoOK DEF CheckRollbackLog, ControlOK
    <3>2. CASE /\ plan' = [plan EXCEPT ![w].take = "nothing"]
               /\ pc' = [pc EXCEPT ![w] = "gwRefund"]
               /\ UNCHANGED <<job, ord, ref>>
      BY <1>5, <3>2, LabelsList DEF CheckRollbackLog, ControlOK, Deductions
    <3> QED
      BY <1>5, <3>1, <3>2 DEF CheckRollbackLog
  <2>o. ord[w] \in Orders
    BY <1>5, Running DEF CheckRollbackLog
  <2> QED
    BY <1>5, <2>1, <2>o DEF CheckRollbackLog, DataOK, orderRow, logs, effects, upstream
<1>6. ASSUME Deduct(w) PROVE TypeInv'
  <2>1. ControlOK'
    <3>1. CASE Reply(w, "gwRefund")
      BY <1>6, <3>1, LabelsList, ReplyOK DEF Deduct
    <3>2. CASE Goto(w, "restoreStatus") /\ UNCHANGED faults
      BY <1>6, <3>2, LabelsList, GotoOK DEF Deduct, ControlOK
    <3>3. CASE /\ plan' = [plan EXCEPT ![w].take = "revoked"]
               /\ pc' = [pc EXCEPT ![w] = "gwRefund"]
               /\ UNCHANGED <<job, ord, ref, faults>>
      BY <1>6, <3>3, LabelsList DEF Deduct, ControlOK, Deductions
    <3> QED
      BY <1>6, <3>1, <3>2, <3>3 DEF Deduct
  <2>o. ord[w] \in Orders
    BY <1>6, Running DEF Deduct
  <2> QED
    BY <1>6, <2>1, <2>o DEF Deduct, DataOK, orderRow, logs, effects, upstream
<1>7. ASSUME GwRefund(w) PROVE TypeInv'
  <2>1. ControlOK'
    BY <1>7, LabelsList, ReplyOK, GotoOK DEF GwRefund, ControlOK
  <2>o. ord[w] \in Orders
    BY <1>7, Running DEF GwRefund
  <2> QED
    BY <1>7, <2>1, <2>o DEF GwRefund, DataOK, orderRow, logs, effects, upstream
<1>8. ASSUME RollbackRefund(w) PROVE TypeInv'
  <2>1. ControlOK'
    BY <1>8, LabelsList, ReplyOK, GotoOK DEF RollbackRefund, ControlOK
  <2>o. ord[w] \in Orders
    BY <1>8, Running DEF RollbackRefund
  <2> QED
    BY <1>8, <2>1, <2>o DEF RollbackRefund, DataOK, orderRow, logs, effects, upstream
<1>9. ASSUME LogRollbackFailed(w) PROVE TypeInv'
  <2>1. ControlOK'
    BY <1>9, LabelsList, GotoOK DEF LogRollbackFailed, ControlOK
  <2>o. ord[w] \in Orders
    BY <1>9, Running DEF LogRollbackFailed
  <2> QED
    BY <1>9, <2>1, <2>o DEF LogRollbackFailed, DataOK, AuditActions, orderRow, logs, effects, upstream
<1>10. ASSUME RefundFailed(w) PROVE TypeInv'
  <2>1. ControlOK'
    BY <1>10, LabelsList, ReplyOK DEF RefundFailed, ControlOK
  <2>o. ord[w] \in Orders
    BY <1>10, Running DEF RefundFailed
  <2>2. status' \in [Orders -> Statuses] /\ fresh' \in [Orders -> BOOLEAN]
    BY <1>10, <2>o, StatusWrite DEF RefundFailed, DataOK, Statuses
  <2> QED
    BY <1>10, <2>1, <2>o, <2>2 DEF RefundFailed, DataOK, orderRow, logs, effects, upstream
<1>11. ASSUME RestoreStatus(w) PROVE TypeInv'
  <2>1. ControlOK'
    BY <1>11, LabelsList, ReplyOK DEF RestoreStatus, ControlOK
  <2>o. ord[w] \in Orders
    BY <1>11, Running DEF RestoreStatus
  <2>2. status' \in [Orders -> Statuses] /\ fresh' \in [Orders -> BOOLEAN]
    BY <1>11, <2>o, StatusWrite DEF RestoreStatus, DataOK, Statuses
  <2> QED
    BY <1>11, <2>1, <2>o, <2>2 DEF RestoreStatus, DataOK, orderRow, logs, effects, upstream
<1>12. ASSUME MarkRefundOk(w) PROVE TypeInv'
  <2>1. ControlOK'
    BY <1>12, LabelsList, ReplyOK DEF MarkRefundOk, ControlOK
  <2>o. ord[w] \in Orders
    BY <1>12, Running DEF MarkRefundOk
  <2>2. status' \in [Orders -> Statuses] /\ fresh' \in [Orders -> BOOLEAN]
    BY <1>12, <2>o, StatusWrite DEF MarkRefundOk, DataOK, Statuses
  <2> QED
    BY <1>12, <2>1, <2>o, <2>2 DEF MarkRefundOk, DataOK, orderRow, logs, effects, upstream
<1> QED
  BY <1>1, <1>2, <1>3, <1>4, <1>5, <1>6, <1>7, <1>8, <1>9, <1>10, <1>11, <1>12 DEF RefundStep

-----------------------------------------------------------------------------

LEMMA TypeFails ==
  ASSUME TypeInv, NEW w \in Workers, StatementFails(w)
  PROVE  TypeInv'
<1> USE DEF TypeInv
<1>o. ord[w] \in Orders
  BY Running DEF StatementFails
<1>1. ControlOK'
  <2>1. faults' \in Nat
    BY DEF StatementFails, SpendFault, ControlOK
  <2>2. Leave(w) \/ Goto(w, OnError(w))
    BY DEF StatementFails
  <2>3. pc[w] # "idle"
    BY DEF StatementFails
  <2> QED
    BY <2>1, <2>2, <2>3, OnErrorLabel, GotoOK, LeaveOK
<1>2. acked' \in [Orders -> BOOLEAN]
  <2>1. AckIfWebhook(w) \/ acked' = acked
    BY DEF StatementFails
  <2> QED
    BY <2>1, <1>o, AckWrite DEF DataOK
<1> QED
  BY <1>1, <1>2 DEF StatementFails, DataOK, orderRow, logs, effects

LEMMA TypeCrash ==
  ASSUME TypeInv, NEW w \in Workers, Crash(w)
  PROVE  TypeInv'
<1>1. faults' \in Nat
  BY DEF TypeInv, Crash, SpendFault, ControlOK
<1>2. ControlOK'
  BY <1>1, LeaveOK DEF TypeInv, Crash
<1> QED
  BY <1>2 DEF TypeInv, Crash, DataOK, orderRow, logs, effects, upstream

LEMMA TypeEnvironment ==
  ASSUME TypeInv, Environment
  PROVE  TypeInv'
<1> USE DEF TypeInv
<1>1. ControlOK'
  BY DEF Environment, OrderTimesOut, GraceLapses, UserPays, AdminDeletesCode,
         ControlOK, frame
<1> PICK o \in Orders :
      OrderTimesOut(o) \/ GraceLapses(o) \/ UserPays(o) \/ AdminDeletesCode(o)
  BY DEF Environment
<1>2. CASE OrderTimesOut(o)
  BY <1>1, <1>2 DEF OrderTimesOut, DataOK, logs, effects, upstream
<1>3. CASE GraceLapses(o)
  BY <1>1, <1>3 DEF GraceLapses, DataOK, logs, effects, upstream
<1>4. CASE UserPays(o)
  BY <1>1, <1>4 DEF UserPays, DataOK, orderRow, logs, effects
<1>5. CASE AdminDeletesCode(o)
  BY <1>1, <1>5 DEF AdminDeletesCode, DataOK, orderRow, effects, upstream
<1> QED
  BY <1>2, <1>3, <1>4, <1>5

LEMMA TypeInit == Init => TypeInv
<1>1. "idle" \in Labels
  BY LabelsList
<1>2. NoPlan \in [was: Statuses, partial: BOOLEAN, take: Deductions]
  BY NoPlanOK
<1>3. "NONE" \in Statuses /\ "none" \in TradeNos
  BY DEF Statuses, TradeNos
<1>4. Init => ControlOK
  BY <1>1, <1>2, <1>3 DEF Init, ControlOK
<1>5. Init => DataOK
  BY <1>3 DEF Init, DataOK
<1> QED
  BY <1>4, <1>5 DEF TypeInv

LEMMA TypeNext == TypeInv /\ [Next]_vars => TypeInv'
<1> SUFFICES ASSUME TypeInv, [Next]_vars PROVE TypeInv'
  OBVIOUS
<1>1. CASE UNCHANGED vars
  BY <1>1 DEF TypeInv, DataOK, ControlOK, vars, orderRow, logs, effects, upstream, frame
<1>2. CASE Environment
  BY <1>2, TypeEnvironment
<1>3. ASSUME NEW w \in Workers, WorkerStep(w) PROVE TypeInv'
  BY <1>3, TypeCreate, TypeNotify, TypeFulfil, TypeRetry, TypeLifecycle, TypeRefund
     DEF WorkerStep
<1>4. ASSUME NEW w \in Workers, StatementFails(w) \/ Crash(w) PROVE TypeInv'
  BY <1>4, TypeFails, TypeCrash
<1> QED
  BY <1>1, <1>2, <1>3, <1>4 DEF Next

\* The state of the payment service stays well typed, and a running handler
\* always has an order, whatever interleaves, fails or dies.
THEOREM TypeInvariant == Spec => []TypeInv
  BY TypeInit, TypeNext, PTL DEF Spec

\* The type invariant that the runs check.
THEOREM TypeCorrect == Spec => []TypeOK
<1>1. TypeInv => TypeOK
  BY DEF TypeInv, DataOK, ControlOK, TypeOK
<1> QED
  BY <1>1, TypeInvariant, PTL

-----------------------------------------------------------------------------
(* How a step moves the handlers. *)

\* The workers other than w do not move.
Others(w) ==
  \A v \in Workers \ {w} : pc'[v] = pc[v] /\ ord'[v] = ord[v] /\ job'[v] = job[v]

\* Worker w ends its handler or goes on at one of the labels L with the same
\* order and the same job.
Moves(w, L) ==
  /\ Others(w)
  /\ \/ pc'[w] = "idle"
     \/ pc'[w] \in L /\ ord'[w] = ord[w] /\ job'[w] = job[w]

LEMMA GotoMoves ==
  ASSUME ControlOK, NEW w \in Workers, NEW l, Goto(w, l)
  PROVE  Moves(w, {l})
  BY DEF ControlOK, Goto, frame, Moves, Others

LEMMA LeaveMoves ==
  ASSUME ControlOK, NEW w \in Workers, Leave(w)
  PROVE  Moves(w, {})
  BY DEF ControlOK, Leave, Moves, Others

LEMMA ReplyMoves ==
  ASSUME ControlOK, NEW w \in Workers, NEW l, Reply(w, l)
  PROVE  Moves(w, {l, OnError(w)})
<1>1. Leave(w) \/ Goto(w, l) \/ Goto(w, OnError(w))
  BY DEF Reply
<1> QED
  BY <1>1, GotoMoves, LeaveMoves DEF Moves

LEMMA EnterMoves ==
  ASSUME ControlOK, NEW w \in Workers, NEW h, NEW o, NEW l, NEW t, NEW p,
         Enter(w, h, o, l, t, p)
  PROVE  /\ Others(w)
         /\ pc'[w] = l /\ ord'[w] = o /\ job'[w] = h
  BY DEF ControlOK, Enter, Others

\* The error paths, by label.
LEMMA OnErrorCases ==
  ASSUME NEW w
  PROVE  /\ pc[w] \in {"createPayment", "saveDetails"} => OnError(w) = "failOrder"
         /\ pc[w] \in {"queryOrder", "cancelPayment"} => OnError(w) \in {"setClosed", "idle"}
         /\ pc[w] = "persistTradeNo" => OnError(w) = "notify"
         /\ pc[w] = "getByCode" => OnError(w) = "createCode"
         /\ pc[w] = "hasAuditLog" => OnError(w) = "assign"
         /\ pc[w] \in {"createCode", "redeem", "applyRebate", "getGroup", "assign",
                       "markCompleted"} => OnError(w) = "markFailed"
         /\ pc[w] = "refundLog" => OnError(w) = "deduct"
         /\ pc[w] = "deduct" => OnError(w) = "restoreStatus"
         /\ pc[w] = "gwRefund" => OnError(w) = "rollback"
         /\ pc[w] = "rollback" => OnError(w) = "logRollbackFailed"
         /\ pc[w] = "logRollbackFailed" => OnError(w) = "refundFailed"
         /\ pc[w] \in {"checkPendingLimit", "insertOrder", "failOrder", "setClosed",
                       "getProviders", "notify", "confirm", "toPaid", "reload",
                       "getOrder", "lock", "logSubscription", "markFailed",
                       "resetForRetry", "refundFailed", "restoreStatus",
                       "markRefundOk", "requestRefund", "refundLock"}
              => OnError(w) = "idle"
  BY Zenon DEF OnError

\* Where each step of CreateOrder leads.
LEMMA CreateMoves ==
  ASSUME ControlOK, NEW w \in Workers
  PROVE  /\ CheckPendingLimit(w) => Moves(w, {"insertOrder"})
         /\ CreateOrderInTx(w) => Moves(w, {"createPayment"})
         /\ CreatePayment(w) => Moves(w, {"saveDetails", "failOrder"})
         /\ SaveDetails(w) => Moves(w, {"failOrder"})
         /\ FailOrder(w) => Moves(w, {})
<1>1. CheckPendingLimit(w) => Moves(w, {"insertOrder"})
  BY GotoMoves, LeaveMoves DEF CheckPendingLimit, Moves
<1>2. CreateOrderInTx(w) => Moves(w, {"createPayment"})
  BY ReplyMoves, OnErrorCases DEF CreateOrderInTx, Moves
<1>3. CreatePayment(w) => Moves(w, {"saveDetails", "failOrder"})
  BY GotoMoves, ReplyMoves, OnErrorCases DEF CreatePayment, Moves
<1>4. SaveDetails(w) => Moves(w, {"failOrder"})
  BY ReplyMoves, OnErrorCases DEF SaveDetails, Moves
<1>5. FailOrder(w) => Moves(w, {})
  BY ReplyMoves, OnErrorCases DEF FailOrder, Moves
<1> QED
  BY <1>1, <1>2, <1>3, <1>4, <1>5

\* Where each step of a notification and of a retry leads.
LEMMA NotifyMoves ==
  ASSUME ControlOK, NEW w \in Workers
  PROVE  /\ GetWebhookProviders(w) => Moves(w, {"notify"})
         /\ HandlePaymentNotification(w) => Moves(w, {"confirm"})
         /\ ConfirmPayment(w) => Moves(w, IF job[w] = "mismatch" THEN {} ELSE {"toPaid"})
         /\ ToPaid(w) => Moves(w, {"getOrder", "reload"})
         /\ AlreadyProcessed(w) => Moves(w, {"getOrder"})
         /\ ResetForRetry(w) => Moves(w, {"getOrder"})
<1>1. GetWebhookProviders(w) => Moves(w, {"notify"})
  BY GotoMoves DEF GetWebhookProviders, Moves
<1>2. HandlePaymentNotification(w) => Moves(w, {"confirm"})
  BY GotoMoves DEF HandlePaymentNotification, Moves
<1>3. ConfirmPayment(w) => Moves(w, IF job[w] = "mismatch" THEN {} ELSE {"toPaid"})
  BY GotoMoves, LeaveMoves DEF ConfirmPayment, Moves
<1>4. ToPaid(w) => Moves(w, {"getOrder", "reload"})
  BY GotoMoves, ReplyMoves, OnErrorCases DEF ToPaid, Moves
<1>5. AlreadyProcessed(w) => Moves(w, {"getOrder"})
  BY GotoMoves, LeaveMoves DEF AlreadyProcessed, Moves
<1>6. ResetForRetry(w) => Moves(w, {"getOrder"})
  BY ReplyMoves, OnErrorCases DEF ResetForRetry, Moves
<1> QED
  BY <1>1, <1>2, <1>3, <1>4, <1>5, <1>6

\* Where each step of a fulfilment leads.
LEMMA FulfilMoves ==
  ASSUME ControlOK, NEW w \in Workers
  PROVE  /\ ExecuteFulfillment(w) => Moves(w, {"lock"})
         /\ Lock(w) => Moves(w, {IF ord[w] \in SubOrders THEN "getGroup" ELSE "getByCode"})
         /\ GetByCode(w) => Moves(w, {ResolveRedeemAction(ord[w])})
         /\ CreateCode(w) => Moves(w, {"redeem", "markFailed"})
         /\ Redeem(w) => Moves(w, {"applyRebate", "markFailed"})
         /\ ApplyAffiliateRebate(w) => Moves(w, {"markCompleted", "markFailed"})
         /\ GetGroup(w) => Moves(w, {"hasAuditLog", "markFailed"})
         /\ HasAuditLog(w) => Moves(w, {IF "SUBSCRIPTION_SUCCESS" \in audit[ord[w]] THEN "markCompleted" ELSE "assign"})
         /\ AssignOrExtendSubscription(w) => Moves(w, {"markCompleted", "markFailed"})
         /\ MarkCompleted(w) => Moves(w, IF ord[w] \in SubOrders THEN {"logSubscription", "markFailed"} ELSE {"markFailed"})
         /\ LogSubscriptionSuccess(w) => Moves(w, {})
         /\ MarkFailed(w) => Moves(w, {})
<1>1. ExecuteFulfillment(w) => Moves(w, {"lock"})
  BY GotoMoves, LeaveMoves DEF ExecuteFulfillment, Moves
<1>2. Lock(w) => Moves(w, {IF ord[w] \in SubOrders THEN "getGroup" ELSE "getByCode"})
  BY LeaveMoves, ReplyMoves, OnErrorCases DEF Lock, Moves
<1>3. GetByCode(w) => Moves(w, {ResolveRedeemAction(ord[w])})
  BY GotoMoves DEF GetByCode, Moves
<1>4. CreateCode(w) => Moves(w, {"redeem", "markFailed"})
  BY GotoMoves, ReplyMoves, OnErrorCases DEF CreateCode, Moves
<1>5. Redeem(w) => Moves(w, {"applyRebate", "markFailed"})
  BY GotoMoves, ReplyMoves, OnErrorCases DEF Redeem, Moves
<1>6. ApplyAffiliateRebate(w) => Moves(w, {"markCompleted", "markFailed"})
  BY GotoMoves, ReplyMoves, OnErrorCases DEF ApplyAffiliateRebate, Moves
<1>7. GetGroup(w) => Moves(w, {"hasAuditLog", "markFailed"})
  BY GotoMoves DEF GetGroup, Moves
<1>8. HasAuditLog(w) => Moves(w, {IF "SUBSCRIPTION_SUCCESS" \in audit[ord[w]] THEN "markCompleted" ELSE "assign"})
  BY GotoMoves DEF HasAuditLog, Moves
<1>9. AssignOrExtendSubscription(w) => Moves(w, {"markCompleted", "markFailed"})
  BY ReplyMoves, OnErrorCases DEF AssignOrExtendSubscription, Moves
<1>10. MarkCompleted(w) => Moves(w, IF ord[w] \in SubOrders THEN {"logSubscription", "markFailed"} ELSE {"markFailed"})
  BY ReplyMoves, OnErrorCases DEF MarkCompleted, Moves
<1>11. LogSubscriptionSuccess(w) => Moves(w, {})
  BY LeaveMoves DEF LogSubscriptionSuccess, Moves
<1>12. MarkFailed(w) => Moves(w, {})
  BY ReplyMoves, OnErrorCases DEF MarkFailed, Moves
<1> QED
  BY <1>1, <1>2, <1>3, <1>4, <1>5, <1>6, <1>7, <1>8, <1>9, <1>10, <1>11, <1>12

\* Where each step of a cancellation, an expiry or a reconciliation leads.
LEMMA LifecycleMoves ==
  ASSUME ControlOK, NEW w \in Workers
  PROVE  /\ CheckPaid(w) => Moves(w, IF payment[ord[w]] = "paid" THEN {"notify", "persistTradeNo"} ELSE {"cancelPayment"})
         /\ PersistTradeNo(w) => Moves(w, {"notify"})
         /\ CancelPayment(w) => Moves(w, {"setClosed"})
         /\ SetClosed(w) => Moves(w, {})
<1>1. CheckPaid(w) => Moves(w, IF payment[ord[w]] = "paid" THEN {"notify", "persistTradeNo"} ELSE {"cancelPayment"})
  BY GotoMoves, LeaveMoves DEF CheckPaid, Moves, Others, ControlOK
<1>2. PersistTradeNo(w) => Moves(w, {"notify"})
  BY ReplyMoves, OnErrorCases DEF PersistTradeNo, Moves
<1>3. CancelPayment(w) => Moves(w, {"setClosed"})
  BY GotoMoves DEF CancelPayment, Moves
<1>4. SetClosed(w) => Moves(w, {})
  BY ReplyMoves, OnErrorCases DEF SetClosed, Moves
<1> QED
  BY <1>1, <1>2, <1>3, <1>4

\* Where each step of a refund leads.
LEMMA RefundMoves ==
  ASSUME ControlOK, NEW w \in Workers
  PROVE  /\ SetRefundRequested(w) => Moves(w, {})
         /\ RefundLock(w) => Moves(w, {"refundLog", "gwRefund"})
         /\ CheckRollbackLog(w) => Moves(w, {"gwRefund", "deduct"})
         /\ Deduct(w) => Moves(w, {"gwRefund", "restoreStatus"})
         /\ GwRefund(w) => Moves(w, {"markRefundOk", "rollback"})
         /\ RollbackRefund(w) => Moves(w, {"restoreStatus", "logRollbackFailed"})
         /\ LogRollbackFailed(w) => Moves(w, {"refundFailed"})
         /\ RefundFailed(w) => Moves(w, {})
         /\ RestoreStatus(w) => Moves(w, {})
         /\ MarkRefundOk(w) => Moves(w, {})
<1>1. SetRefundRequested(w) => Moves(w, {})
  BY ReplyMoves, OnErrorCases DEF SetRefundRequested, Moves
<1>2. RefundLock(w) => Moves(w, {"refundLog", "gwRefund"})
  BY LeaveMoves, ReplyMoves, OnErrorCases DEF RefundLock, Moves
<1>3. CheckRollbackLog(w) => Moves(w, {"gwRefund", "deduct"})
  BY GotoMoves DEF CheckRollbackLog, Moves, Others, ControlOK
<1>4. Deduct(w) => Moves(w, {"gwRefund", "restoreStatus"})
  BY GotoMoves, ReplyMoves, OnErrorCases DEF Deduct, Moves, Others, ControlOK
<1>5. GwRefund(w) => Moves(w, {"markRefundOk", "rollback"})
  BY GotoMoves, ReplyMoves, OnErrorCases DEF GwRefund, Moves
<1>6. RollbackRefund(w) => Moves(w, {"restoreStatus", "logRollbackFailed"})
  BY GotoMoves, ReplyMoves, OnErrorCases DEF RollbackRefund, Moves
<1>7. LogRollbackFailed(w) => Moves(w, {"refundFailed"})
  BY GotoMoves DEF LogRollbackFailed, Moves
<1>8. RefundFailed(w) => Moves(w, {})
  BY ReplyMoves, OnErrorCases DEF RefundFailed, Moves
<1>9. RestoreStatus(w) => Moves(w, {})
  BY ReplyMoves, OnErrorCases DEF RestoreStatus, Moves
<1>10. MarkRefundOk(w) => Moves(w, {})
  BY ReplyMoves, OnErrorCases DEF MarkRefundOk, Moves
<1> QED
  BY <1>1, <1>2, <1>3, <1>4, <1>5, <1>6, <1>7, <1>8, <1>9, <1>10

\* Where a fault leads.
LEMMA FaultMoves ==
  ASSUME ControlOK, NEW w \in Workers
  PROVE  /\ StatementFails(w) => Moves(w, {OnError(w)})
         /\ Crash(w) => Moves(w, {})
<1>1. StatementFails(w) => Moves(w, {OnError(w)})
  BY GotoMoves, LeaveMoves DEF StatementFails, Moves
<1>2. Crash(w) => Moves(w, {})
  BY LeaveMoves DEF Crash, Moves
<1> QED
  BY <1>1, <1>2

-----------------------------------------------------------------------------
(* An order is created by one handler, before it can be paid. *)

\* The labels before the provider knows the order.
UnpaidLabels == {"checkPendingLimit", "insertOrder", "createPayment"}

CreationInv ==
  /\ \A o \in Orders : status[o] = "NONE" => payment[o] = "none"
  /\ \A w \in Workers : pc[w] \in UnpaidLabels => payment[ord[w]] = "none"
  /\ \A w \in Workers : pc[w] = "createPayment" => status[ord[w]] # "NONE"
  /\ \A v, w \in Workers :
       v # w /\ pc[v] \in CreateLabels /\ pc[w] \in CreateLabels => ord[v] # ord[w]

\* What a step outside CreateOrder may do to the tables.
CreationFrame ==
  \A o \in Orders : /\ status'[o] = "NONE" => status[o] = "NONE"
                    /\ payment[o] = "none" => payment'[o] = "none"

LEMMA CreationKept ==
  ASSUME TypeInv, CreationInv, CreationFrame, NEW w \in Workers, Others(w),
         pc'[w] \notin CreateLabels
  PROVE  CreationInv'
<1>1. \A v \in Workers : pc'[v] \in CreateLabels => v # w /\ pc[v] = pc'[v] /\ ord'[v] = ord[v]
  BY DEF Others, CreateLabels
<1>2. \A v \in Workers : pc[v] # "idle" => ord[v] \in Orders
  BY DEF TypeInv, ControlOK
<1>3. UnpaidLabels \subseteq CreateLabels /\ "idle" \notin CreateLabels
  BY DEF UnpaidLabels, CreateLabels
<1>4. ASSUME NEW o \in Orders, status'[o] = "NONE" PROVE payment'[o] = "none"
  BY <1>4 DEF CreationFrame, CreationInv
<1>5. ASSUME NEW v \in Workers, pc'[v] \in UnpaidLabels PROVE payment'[ord'[v]] = "none"
  BY <1>1, <1>2, <1>3, <1>5 DEF CreationFrame, CreationInv
<1>6. ASSUME NEW v \in Workers, pc'[v] = "createPayment" PROVE status'[ord'[v]] # "NONE"
  BY <1>1, <1>2, <1>3, <1>6 DEF CreationFrame, CreationInv, UnpaidLabels
<1>7. ASSUME NEW u \in Workers, NEW v \in Workers, u # v,
             pc'[u] \in CreateLabels, pc'[v] \in CreateLabels
      PROVE  ord'[u] # ord'[v]
  BY <1>1, <1>7 DEF CreationInv
<1> QED
  BY <1>4, <1>5, <1>6, <1>7 DEF CreationInv

LEMMA CreationNotify ==
  ASSUME TypeInv, CreationInv, NEW w \in Workers, NotifyStep(w)
  PROVE  CreationInv'
<1>c. ControlOK
  BY DEF TypeInv
<1>1. ASSUME NEW o \in Orders, NEW h \in {"webhook", "mismatch"}, HandleNotify(w, o, h) PROVE CreationInv'
  <2>1. Others(w) /\ pc'[w] \notin CreateLabels
    BY <1>1, <1>c, EnterMoves DEF HandleNotify, CreateLabels
  <2>2. CreationFrame
    BY <1>1 DEF CreationFrame, HandleNotify, orderRow, upstream
  <2> QED
    BY <2>1, <2>2, CreationKept
<1>2. ASSUME GetWebhookProviders(w) PROVE CreationInv'
  <2>1. Others(w) /\ pc'[w] \notin CreateLabels
    BY <1>2, <1>c, NotifyMoves DEF Moves, CreateLabels
  <2>2. CreationFrame
    BY <1>2, Running DEF CreationFrame, GetWebhookProviders, SetStatus, orderRow, upstream, TypeInv, DataOK
  <2> QED
    BY <2>1, <2>2, CreationKept
<1>3. ASSUME HandlePaymentNotification(w) PROVE CreationInv'
  <2>1. Others(w) /\ pc'[w] \notin CreateLabels
    BY <1>3, <1>c, NotifyMoves DEF Moves, CreateLabels
  <2>2. CreationFrame
    BY <1>3, Running DEF CreationFrame, HandlePaymentNotification, SetStatus, orderRow, upstream, TypeInv, DataOK
  <2> QED
    BY <2>1, <2>2, CreationKept
<1>4. ASSUME ConfirmPayment(w) PROVE CreationInv'
  <2>1. Others(w) /\ pc'[w] \notin CreateLabels
    BY <1>4, <1>c, NotifyMoves DEF Moves, CreateLabels
  <2>2. CreationFrame
    BY <1>4, Running DEF CreationFrame, ConfirmPayment, SetStatus, orderRow, upstream, TypeInv, DataOK
  <2> QED
    BY <2>1, <2>2, CreationKept
<1>5. ASSUME ToPaid(w) PROVE CreationInv'
  <2>1. Others(w) /\ pc'[w] \notin CreateLabels
    BY <1>5, <1>c, NotifyMoves DEF Moves, CreateLabels
  <2>2. CreationFrame
    BY <1>5, Running DEF CreationFrame, ToPaid, SetStatus, orderRow, upstream, TypeInv, DataOK
  <2> QED
    BY <2>1, <2>2, CreationKept
<1>6. ASSUME AlreadyProcessed(w) PROVE CreationInv'
  <2>1. Others(w) /\ pc'[w] \notin CreateLabels
    BY <1>6, <1>c, NotifyMoves DEF Moves, CreateLabels
  <2>2. CreationFrame
    BY <1>6, Running DEF CreationFrame, AlreadyProcessed, SetStatus, orderRow, upstream, TypeInv, DataOK
  <2> QED
    BY <2>1, <2>2, CreationKept
<1> QED
  BY <1>1, <1>2, <1>3, <1>4, <1>5, <1>6 DEF NotifyStep

LEMMA CreationFulfil ==
  ASSUME TypeInv, CreationInv, NEW w \in Workers, FulfilStep(w)
  PROVE  CreationInv'
<1>c. ControlOK
  BY DEF TypeInv
<1>1. ASSUME ExecuteFulfillment(w) PROVE CreationInv'
  <2>1. Others(w) /\ pc'[w] \notin CreateLabels
    BY <1>1, <1>c, FulfilMoves DEF Moves, CreateLabels
  <2>2. CreationFrame
    BY <1>1, Running DEF CreationFrame, ExecuteFulfillment, SetStatus, orderRow, upstream, TypeInv, DataOK
  <2> QED
    BY <2>1, <2>2, CreationKept
<1>2. ASSUME Lock(w) PROVE CreationInv'
  <2>1. Others(w) /\ pc'[w] \notin CreateLabels
    BY <1>2, <1>c, FulfilMoves DEF Moves, CreateLabels
  <2>2. CreationFrame
    BY <1>2, Running DEF CreationFrame, Lock, SetStatus, orderRow, upstream, TypeInv, DataOK
  <2> QED
    BY <2>1, <2>2, CreationKept
<1>3. ASSUME GetByCode(w) PROVE CreationInv'
  <2>0. ResolveRedeemAction(ord[w]) \in {"createCode", "redeem", "applyRebate"}
    BY <1>3, Running DEF GetByCode, ResolveRedeemAction, TypeInv, DataOK
  <2>1. Others(w) /\ pc'[w] \notin CreateLabels
    BY <1>3, <1>c, <2>0, FulfilMoves DEF Moves, CreateLabels
  <2>2. CreationFrame
    BY <1>3, Running DEF CreationFrame, GetByCode, SetStatus, orderRow, upstream, TypeInv, DataOK
  <2> QED
    BY <2>1, <2>2, CreationKept
<1>4. ASSUME CreateCode(w) PROVE CreationInv'
  <2>1. Others(w) /\ pc'[w] \notin CreateLabels
    BY <1>4, <1>c, FulfilMoves DEF Moves, CreateLabels
  <2>2. CreationFrame
    BY <1>4, Running DEF CreationFrame, CreateCode, SetStatus, orderRow, upstream, TypeInv, DataOK
  <2> QED
    BY <2>1, <2>2, CreationKept
<1>5. ASSUME Redeem(w) PROVE CreationInv'
  <2>1. Others(w) /\ pc'[w] \notin CreateLabels
    BY <1>5, <1>c, FulfilMoves DEF Moves, CreateLabels
  <2>2. CreationFrame
    BY <1>5, Running DEF CreationFrame, Redeem, SetStatus, orderRow, upstream, TypeInv, DataOK
  <2> QED
    BY <2>1, <2>2, CreationKept
<1>6. ASSUME ApplyAffiliateRebate(w) PROVE CreationInv'
  <2>1. Others(w) /\ pc'[w] \notin CreateLabels
    BY <1>6, <1>c, FulfilMoves DEF Moves, CreateLabels
  <2>2. CreationFrame
    BY <1>6, Running DEF CreationFrame, ApplyAffiliateRebate, SetStatus, orderRow, upstream, TypeInv, DataOK
  <2> QED
    BY <2>1, <2>2, CreationKept
<1>7. ASSUME GetGroup(w) PROVE CreationInv'
  <2>1. Others(w) /\ pc'[w] \notin CreateLabels
    BY <1>7, <1>c, FulfilMoves DEF Moves, CreateLabels
  <2>2. CreationFrame
    BY <1>7, Running DEF CreationFrame, GetGroup, SetStatus, orderRow, upstream, TypeInv, DataOK
  <2> QED
    BY <2>1, <2>2, CreationKept
<1>8. ASSUME HasAuditLog(w) PROVE CreationInv'
  <2>1. Others(w) /\ pc'[w] \notin CreateLabels
    BY <1>8, <1>c, FulfilMoves DEF Moves, CreateLabels
  <2>2. CreationFrame
    BY <1>8, Running DEF CreationFrame, HasAuditLog, SetStatus, orderRow, upstream, TypeInv, DataOK
  <2> QED
    BY <2>1, <2>2, CreationKept
<1>9. ASSUME AssignOrExtendSubscription(w) PROVE CreationInv'
  <2>1. Others(w) /\ pc'[w] \notin CreateLabels
    BY <1>9, <1>c, FulfilMoves DEF Moves, CreateLabels
  <2>2. CreationFrame
    BY <1>9, Running DEF CreationFrame, AssignOrExtendSubscription, SetStatus, orderRow, upstream, TypeInv, DataOK
  <2> QED
    BY <2>1, <2>2, CreationKept
<1>10. ASSUME MarkCompleted(w) PROVE CreationInv'
  <2>1. Others(w) /\ pc'[w] \notin CreateLabels
    BY <1>10, <1>c, FulfilMoves DEF Moves, CreateLabels
  <2>2. CreationFrame
    BY <1>10, Running DEF CreationFrame, MarkCompleted, SetStatus, orderRow, upstream, TypeInv, DataOK
  <2> QED
    BY <2>1, <2>2, CreationKept
<1>11. ASSUME LogSubscriptionSuccess(w) PROVE CreationInv'
  <2>1. Others(w) /\ pc'[w] \notin CreateLabels
    BY <1>11, <1>c, FulfilMoves DEF Moves, CreateLabels
  <2>2. CreationFrame
    BY <1>11, Running DEF CreationFrame, LogSubscriptionSuccess, SetStatus, orderRow, upstream, TypeInv, DataOK
  <2> QED
    BY <2>1, <2>2, CreationKept
<1>12. ASSUME MarkFailed(w) PROVE CreationInv'
  <2>1. Others(w) /\ pc'[w] \notin CreateLabels
    BY <1>12, <1>c, FulfilMoves DEF Moves, CreateLabels
  <2>2. CreationFrame
    BY <1>12, Running DEF CreationFrame, MarkFailed, SetStatus, orderRow, upstream, TypeInv, DataOK
  <2> QED
    BY <2>1, <2>2, CreationKept
<1> QED
  BY <1>1, <1>2, <1>3, <1>4, <1>5, <1>6, <1>7, <1>8, <1>9, <1>10, <1>11, <1>12 DEF FulfilStep

LEMMA CreationRetry ==
  ASSUME TypeInv, CreationInv, NEW w \in Workers, RetryStep(w)
  PROVE  CreationInv'
<1>c. ControlOK
  BY DEF TypeInv
<1>1. ASSUME NEW o \in Orders, RetryFulfillment(w, o) PROVE CreationInv'
  <2>1. Others(w) /\ pc'[w] \notin CreateLabels
    BY <1>1, <1>c, EnterMoves DEF RetryFulfillment, CreateLabels
  <2>2. CreationFrame
    BY <1>1 DEF CreationFrame, RetryFulfillment, orderRow, upstream
  <2> QED
    BY <2>1, <2>2, CreationKept
<1>2. ASSUME ResetForRetry(w) PROVE CreationInv'
  <2>1. Others(w) /\ pc'[w] \notin CreateLabels
    BY <1>2, <1>c, NotifyMoves DEF Moves, CreateLabels
  <2>2. CreationFrame
    BY <1>2, Running DEF CreationFrame, ResetForRetry, SetStatus, orderRow, upstream, TypeInv, DataOK
  <2> QED
    BY <2>1, <2>2, CreationKept
<1> QED
  BY <1>1, <1>2 DEF RetryStep

LEMMA CreationLifecycle ==
  ASSUME TypeInv, CreationInv, NEW w \in Workers, LifecycleStep(w)
  PROVE  CreationInv'
<1>c. ControlOK
  BY DEF TypeInv
<1>1. ASSUME NEW o \in Orders, CancelOrder(w, o) PROVE CreationInv'
  <2>1. Others(w) /\ pc'[w] \notin CreateLabels
    BY <1>1, <1>c, EnterMoves DEF CancelOrder, CreateLabels
  <2>2. CreationFrame
    BY <1>1 DEF CreationFrame, CancelOrder, orderRow, upstream
  <2> QED
    BY <2>1, <2>2, CreationKept
<1>2. ASSUME NEW o \in Orders, ExpireTimedOutOrder(w, o) PROVE CreationInv'
  <2>1. Others(w) /\ pc'[w] \notin CreateLabels
    BY <1>2, <1>c, EnterMoves DEF ExpireTimedOutOrder, CreateLabels
  <2>2. CreationFrame
    BY <1>2 DEF CreationFrame, ExpireTimedOutOrder, orderRow, upstream
  <2> QED
    BY <2>1, <2>2, CreationKept
<1>3. ASSUME NEW o \in Orders, VerifyOrder(w, o) PROVE CreationInv'
  <2>1. Others(w) /\ pc'[w] \notin CreateLabels
    BY <1>3, <1>c, EnterMoves DEF VerifyOrder, CreateLabels
  <2>2. CreationFrame
    BY <1>3 DEF CreationFrame, VerifyOrder, orderRow, upstream
  <2> QED
    BY <2>1, <2>2, CreationKept
<1>4. ASSUME NEW o \in Orders, ReconcilePendingOrder(w, o) PROVE CreationInv'
  <2>1. Others(w) /\ pc'[w] \notin CreateLabels
    BY <1>4, <1>c, EnterMoves DEF ReconcilePendingOrder, CreateLabels
  <2>2. CreationFrame
    BY <1>4 DEF CreationFrame, ReconcilePendingOrder, orderRow, upstream
  <2> QED
    BY <2>1, <2>2, CreationKept
<1>5. ASSUME CheckPaid(w) PROVE CreationInv'
  <2>1. Others(w) /\ pc'[w] \notin CreateLabels
    BY <1>5, <1>c, LifecycleMoves DEF Moves, CreateLabels
  <2>2. CreationFrame
    BY <1>5, Running DEF CreationFrame, CheckPaid, SetStatus, orderRow, upstream, TypeInv, DataOK
  <2> QED
    BY <2>1, <2>2, CreationKept
<1>6. ASSUME PersistTradeNo(w) PROVE CreationInv'
  <2>1. Others(w) /\ pc'[w] \notin CreateLabels
    BY <1>6, <1>c, LifecycleMoves DEF Moves, CreateLabels
  <2>2. CreationFrame
    BY <1>6, Running DEF CreationFrame, PersistTradeNo, SetStatus, orderRow, upstream, TypeInv, DataOK
  <2> QED
    BY <2>1, <2>2, CreationKept
<1>7. ASSUME CancelPayment(w) PROVE CreationInv'
  <2>1. Others(w) /\ pc'[w] \notin CreateLabels
    BY <1>7, <1>c, LifecycleMoves DEF Moves, CreateLabels
  <2>2. CreationFrame
    BY <1>7, Running DEF CreationFrame, CancelPayment, SetStatus, orderRow, upstream, TypeInv, DataOK
  <2> QED
    BY <2>1, <2>2, CreationKept
<1>8. ASSUME SetClosed(w) PROVE CreationInv'
  <2>1. Others(w) /\ pc'[w] \notin CreateLabels
    BY <1>8, <1>c, LifecycleMoves DEF Moves, CreateLabels
  <2>2. CreationFrame
    BY <1>8, Running DEF CreationFrame, SetClosed, SetStatus, orderRow, upstream, TypeInv, DataOK
  <2> QED
    BY <2>1, <2>2, CreationKept
<1> QED
  BY <1>1, <1>2, <1>3, <1>4, <1>5, <1>6, <1>7, <1>8 DEF LifecycleStep

LEMMA CreationRefund ==
  ASSUME TypeInv, CreationInv, NEW w \in Workers, RefundStep(w)
  PROVE  CreationInv'
<1>c. ControlOK
  BY DEF TypeInv
<1>1. ASSUME NEW o \in Orders, RequestRefund(w, o) PROVE CreationInv'
  <2>1. Others(w) /\ pc'[w] \notin CreateLabels
    BY <1>1, <1>c, EnterMoves DEF RequestRefund, CreateLabels
  <2>2. CreationFrame
    BY <1>1 DEF CreationFrame, RequestRefund, orderRow, upstream
  <2> QED
    BY <2>1, <2>2, CreationKept
<1>2. ASSUME NEW o \in Orders, PrepareRefund(w, o) PROVE CreationInv'
  <2>1. Others(w) /\ pc'[w] \notin CreateLabels
    BY <1>2, <1>c, EnterMoves DEF PrepareRefund, CreateLabels
  <2>2. CreationFrame
    BY <1>2 DEF CreationFrame, PrepareRefund, orderRow, upstream
  <2> QED
    BY <2>1, <2>2, CreationKept
<1>3. ASSUME SetRefundRequested(w) PROVE CreationInv'
  <2>1. Others(w) /\ pc'[w] \notin CreateLabels
    BY <1>3, <1>c, RefundMoves DEF Moves, CreateLabels
  <2>2. CreationFrame
    BY <1>3, Running DEF CreationFrame, SetRefundRequested, SetStatus, orderRow, upstream, TypeInv, DataOK
  <2> QED
    BY <2>1, <2>2, CreationKept
<1>4. ASSUME RefundLock(w) PROVE CreationInv'
  <2>1. Others(w) /\ pc'[w] \notin CreateLabels
    BY <1>4, <1>c, RefundMoves DEF Moves, CreateLabels
  <2>2. CreationFrame
    BY <1>4, Running DEF CreationFrame, RefundLock, SetStatus, orderRow, upstream, TypeInv, DataOK
  <2> QED
    BY <2>1, <2>2, CreationKept
<1>5. ASSUME CheckRollbackLog(w) PROVE CreationInv'
  <2>1. Others(w) /\ pc'[w] \notin CreateLabels
    BY <1>5, <1>c, RefundMoves DEF Moves, CreateLabels
  <2>2. CreationFrame
    BY <1>5, Running DEF CreationFrame, CheckRollbackLog, SetStatus, orderRow, upstream, TypeInv, DataOK
  <2> QED
    BY <2>1, <2>2, CreationKept
<1>6. ASSUME Deduct(w) PROVE CreationInv'
  <2>1. Others(w) /\ pc'[w] \notin CreateLabels
    BY <1>6, <1>c, RefundMoves DEF Moves, CreateLabels
  <2>2. CreationFrame
    BY <1>6, Running DEF CreationFrame, Deduct, SetStatus, orderRow, upstream, TypeInv, DataOK
  <2> QED
    BY <2>1, <2>2, CreationKept
<1>7. ASSUME GwRefund(w) PROVE CreationInv'
  <2>1. Others(w) /\ pc'[w] \notin CreateLabels
    BY <1>7, <1>c, RefundMoves DEF Moves, CreateLabels
  <2>2. CreationFrame
    BY <1>7, Running DEF CreationFrame, GwRefund, SetStatus, orderRow, upstream, TypeInv, DataOK
  <2> QED
    BY <2>1, <2>2, CreationKept
<1>8. ASSUME RollbackRefund(w) PROVE CreationInv'
  <2>1. Others(w) /\ pc'[w] \notin CreateLabels
    BY <1>8, <1>c, RefundMoves DEF Moves, CreateLabels
  <2>2. CreationFrame
    BY <1>8, Running DEF CreationFrame, RollbackRefund, SetStatus, orderRow, upstream, TypeInv, DataOK
  <2> QED
    BY <2>1, <2>2, CreationKept
<1>9. ASSUME LogRollbackFailed(w) PROVE CreationInv'
  <2>1. Others(w) /\ pc'[w] \notin CreateLabels
    BY <1>9, <1>c, RefundMoves DEF Moves, CreateLabels
  <2>2. CreationFrame
    BY <1>9, Running DEF CreationFrame, LogRollbackFailed, SetStatus, orderRow, upstream, TypeInv, DataOK
  <2> QED
    BY <2>1, <2>2, CreationKept
<1>10. ASSUME RefundFailed(w) PROVE CreationInv'
  <2>1. Others(w) /\ pc'[w] \notin CreateLabels
    BY <1>10, <1>c, RefundMoves DEF Moves, CreateLabels
  <2>2. CreationFrame
    BY <1>10, Running DEF CreationFrame, RefundFailed, SetStatus, orderRow, upstream, TypeInv, DataOK
  <2> QED
    BY <2>1, <2>2, CreationKept
<1>11. ASSUME RestoreStatus(w) PROVE CreationInv'
  <2>1. Others(w) /\ pc'[w] \notin CreateLabels
    BY <1>11, <1>c, RefundMoves DEF Moves, CreateLabels
  <2>2. CreationFrame
    BY <1>11, Running DEF CreationFrame, RestoreStatus, SetStatus, orderRow, upstream, TypeInv, DataOK
  <2> QED
    BY <2>1, <2>2, CreationKept
<1>12. ASSUME MarkRefundOk(w) PROVE CreationInv'
  <2>1. Others(w) /\ pc'[w] \notin CreateLabels
    BY <1>12, <1>c, RefundMoves DEF Moves, CreateLabels
  <2>2. CreationFrame
    BY <1>12, Running DEF CreationFrame, MarkRefundOk, SetStatus, orderRow, upstream, TypeInv, DataOK
  <2> QED
    BY <2>1, <2>2, CreationKept
<1> QED
  BY <1>1, <1>2, <1>3, <1>4, <1>5, <1>6, <1>7, <1>8, <1>9, <1>10, <1>11, <1>12 DEF RefundStep

LEMMA CreationCreate ==
  ASSUME TypeInv, CreationInv, NEW w \in Workers, CreateStep(w)
  PROVE  CreationInv'
<1>c. ControlOK /\ \A v \in Workers : pc[v] # "idle" => ord[v] \in Orders
  BY DEF TypeInv, ControlOK
<1>1. ASSUME NEW o \in Orders, CreateOrder(w, o) PROVE CreationInv'
  <2>1. Others(w) /\ pc'[w] = "checkPendingLimit" /\ ord'[w] = o
    BY <1>1, <1>c, EnterMoves DEF CreateOrder
  <2>2. payment' = payment /\ status' = status /\ payment[o] = "none"
    BY <1>1 DEF CreateOrder, orderRow, upstream, CreationInv
  <2>3. \A v \in Workers : ord[v] # o
    BY <1>1 DEF CreateOrder
  <2> QED
    BY <2>1, <2>2, <2>3 DEF CreationInv, Others, UnpaidLabels
<1>2. ASSUME CheckPendingLimit(w) PROVE CreationInv'
  <2>1. Moves(w, {"insertOrder"}) /\ pc[w] = "checkPendingLimit"
    BY <1>2, <1>c, CreateMoves DEF CheckPendingLimit
  <2>2. payment' = payment /\ status' = status
    BY <1>2 DEF CheckPendingLimit, orderRow, upstream
  <2> QED
    BY <2>1, <2>2 DEF CreationInv, Moves, Others, UnpaidLabels, CreateLabels
<1>3. ASSUME CreateOrderInTx(w) PROVE CreationInv'
  <2>1. Moves(w, {"createPayment"}) /\ pc[w] = "insertOrder" /\ ord[w] \in Orders
    BY <1>3, <1>c, CreateMoves DEF CreateOrderInTx
  <2>2. payment' = payment /\ status' = [status EXCEPT ![ord[w]] = "PENDING"]
    BY <1>3 DEF CreateOrderInTx, upstream, SetStatus
  <2> QED
    BY <2>1, <2>2, <1>c DEF CreationInv, Moves, Others, UnpaidLabels, CreateLabels, TypeInv, DataOK
<1>4. ASSUME CreatePayment(w) PROVE CreationInv'
  <2>1. Moves(w, {"saveDetails", "failOrder"}) /\ pc[w] = "createPayment" /\ ord[w] \in Orders
    BY <1>4, <1>c, CreateMoves DEF CreatePayment
  <2>2. /\ status' = status
        /\ payment' = [payment EXCEPT ![ord[w]] = "created"] \/ payment' = payment
    BY <1>4 DEF CreatePayment, orderRow
  <2> QED
    BY <2>1, <2>2, <1>c DEF CreationInv, Moves, Others, UnpaidLabels, CreateLabels, TypeInv, DataOK
<1>5. ASSUME SaveDetails(w) PROVE CreationInv'
  <2>1. Moves(w, {"failOrder"}) /\ pc[w] = "saveDetails" /\ ord[w] \in Orders
    BY <1>5, <1>c, CreateMoves DEF SaveDetails
  <2>2. /\ status' = status
        /\ \A o \in Orders : payment[o] = "none" => payment'[o] = "none"
    BY <1>5 DEF SaveDetails, TypeInv, DataOK
  <2> QED
    BY <2>1, <2>2, <1>c DEF CreationInv, Moves, Others, UnpaidLabels, CreateLabels
<1>6. ASSUME FailOrder(w) PROVE CreationInv'
  <2>1. Moves(w, {}) /\ pc[w] = "failOrder" /\ ord[w] \in Orders
    BY <1>6, <1>c, CreateMoves DEF FailOrder
  <2>2. payment' = payment /\ status' = [status EXCEPT ![ord[w]] = "FAILED"]
    BY <1>6 DEF FailOrder, upstream, SetStatus
  <2> QED
    BY <2>1, <2>2, <1>c DEF CreationInv, Moves, Others, UnpaidLabels, CreateLabels, TypeInv, DataOK
<1> QED
  BY <1>1, <1>2, <1>3, <1>4, <1>5, <1>6 DEF CreateStep

LEMMA CreationFaults ==
  ASSUME TypeInv, CreationInv, NEW w \in Workers, StatementFails(w) \/ Crash(w)
  PROVE  CreationInv'
<1>1. /\ Moves(w, {OnError(w)})
      /\ payment' = payment /\ status' = status
  BY FaultMoves DEF Moves, StatementFails, Crash, orderRow, upstream, TypeInv
<1>2. pc[w] \in Labels \ {"idle"}
  BY DEF TypeInv, ControlOK, StatementFails, Crash
<1>3. \/ OnError(w) \notin CreateLabels
      \/ OnError(w) = "failOrder" /\ pc[w] \in CreateLabels
  BY <1>2, OnErrorCases, LabelsList DEF CreateLabels
<1> QED
  BY <1>1, <1>3 DEF CreationInv, Moves, Others, UnpaidLabels, CreateLabels

LEMMA CreationEnvironment ==
  ASSUME TypeInv, CreationInv, Environment
  PROVE  CreationInv'
<1>1. /\ pc' = pc /\ ord' = ord /\ status' = status
      /\ \A o \in Orders : payment[o] = "none" => payment'[o] = "none"
  BY DEF Environment, OrderTimesOut, GraceLapses, UserPays, AdminDeletesCode, frame,
         orderRow, upstream, TypeInv, DataOK
<1>2. \A v \in Workers : pc[v] # "idle" => ord[v] \in Orders
  BY DEF TypeInv, ControlOK
<1> QED
  BY <1>1, <1>2 DEF CreationInv, UnpaidLabels

LEMMA CreationNext == TypeInv /\ CreationInv /\ [Next]_vars => CreationInv'
<1> SUFFICES ASSUME TypeInv, CreationInv, [Next]_vars PROVE CreationInv'
  OBVIOUS
<1>1. CASE UNCHANGED vars
  BY <1>1 DEF CreationInv, vars, orderRow, upstream, frame
<1>2. CASE Environment
  BY <1>2, CreationEnvironment
<1>3. ASSUME NEW w \in Workers, WorkerStep(w) PROVE CreationInv'
  BY <1>3, CreationCreate, CreationNotify, CreationFulfil, CreationRetry,
     CreationLifecycle, CreationRefund DEF WorkerStep
<1>4. ASSUME NEW w \in Workers, StatementFails(w) \/ Crash(w) PROVE CreationInv'
  BY <1>4, CreationFaults
<1> QED
  BY <1>1, <1>2, <1>3, <1>4 DEF Next

\* One CreateOrder call at a time works on an order, and until it has called the
\* provider nobody can have paid the order.
THEOREM CreationInvariant == Spec => [](TypeInv /\ CreationInv)
<1>1. Init => CreationInv
  BY DEF Init, CreationInv, UnpaidLabels, CreateLabels
<1> QED
  BY <1>1, TypeInvariant, CreationNext, PTL DEF Spec

=============================================================================
