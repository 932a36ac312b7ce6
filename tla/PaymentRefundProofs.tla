-------------------------- MODULE PaymentRefundProofs --------------------------
(***************************************************************************)
(* The counters of deliveries and refunds. A subscription order adds its   *)
(* days once; a refund takes back what was delivered at most once, gives   *)
(* it back when it fails, and is called REFUNDED only after the gateway    *)
(* refunded. Each needs that some statements do not fail or do not lose    *)
(* their reply, which the theorems name.                                   *)
(***************************************************************************)
EXTENDS PaymentLockProofs

-----------------------------------------------------------------------------
(* Frames of the handlers *)

\* The other workers' frames stay.
OtherFrames(w) ==
  \A v \in Workers \ {w} :
    pc'[v] = pc[v] /\ ord'[v] = ord[v] /\ ref'[v] = ref[v] /\ plan'[v] = plan[v]

\* The handler's own frame stays until it ends.
OwnFrame(w) ==
  pc'[w] # "idle" => ord'[w] = ord[w] /\ ref'[w] = ref[w] /\ plan'[w] = plan[w]

Frames(w) == OtherFrames(w) /\ OwnFrame(w)

\* Going on, ending and entering a handler touch one frame.
LEMMA ControlFrames ==
  ASSUME ControlOK, NEW w \in Workers
  PROVE  /\ Leave(w) => Frames(w) /\ pc'[w] = "idle"
         /\ \A l : Goto(w, l) => Frames(w) /\ pc'[w] = l
         /\ \A l : Reply(w, l) => Frames(w)
         /\ \A h, o, l, t, p : Enter(w, h, o, l, t, p) =>
              OtherFrames(w) /\ pc'[w] = l /\ ord'[w] = o /\ ref'[w] = t /\ plan'[w] = p
<1>1. Leave(w) => Frames(w) /\ pc'[w] = "idle"
  BY DEF ControlOK, Leave, Frames, OtherFrames, OwnFrame
<1>2. ASSUME NEW l, Goto(w, l) PROVE Frames(w) /\ pc'[w] = l
  BY <1>2 DEF ControlOK, Goto, frame, Frames, OtherFrames, OwnFrame
<1>3. ASSUME NEW l, Reply(w, l) PROVE Frames(w)
  BY <1>1, <1>2, <1>3 DEF Reply
<1>4. ASSUME NEW h, NEW o, NEW l, NEW t, NEW p, Enter(w, h, o, l, t, p)
      PROVE  OtherFrames(w) /\ pc'[w] = l /\ ord'[w] = o /\ ref'[w] = t /\ plan'[w] = p
  BY <1>4 DEF ControlOK, Enter, OtherFrames
<1> QED
  BY <1>1, <1>2, <1>3, <1>4

\* The steps that start a handler.
Entry(w) ==
  \E o \in Orders :
    \/ CreateOrder(w, o) \/ (\E h \in {"webhook", "mismatch"} : HandleNotify(w, o, h))
    \/ RetryFulfillment(w, o) \/ CancelOrder(w, o) \/ ExpireTimedOutOrder(w, o)
    \/ VerifyOrder(w, o) \/ ReconcilePendingOrder(w, o)
    \/ RequestRefund(w, o) \/ PrepareRefund(w, o)

LEMMA EntryLabels ==
  ASSUME ControlOK, NEW w \in Workers, Entry(w)
  PROVE  /\ pc[w] = "idle"
         /\ pc'[w] \in {"checkPendingLimit", "getProviders", "resetForRetry", "queryOrder",
                       "requestRefund", "refundLock"}
         /\ pc'[w] = "refundLock" => \E o \in Orders : PrepareRefund(w, o)
<1>0. pc[w] = "idle"
  BY DEF Entry, CreateOrder, HandleNotify, RetryFulfillment, CancelOrder,
         ExpireTimedOutOrder, VerifyOrder, ReconcilePendingOrder, RequestRefund,
         PrepareRefund, Enter
<1> DEFINE P == pc'[w] \in {"checkPendingLimit", "getProviders", "resetForRetry", "queryOrder",
                            "requestRefund"}
<1>1. ASSUME NEW o \in Orders,
             CreateOrder(w, o) \/ RetryFulfillment(w, o) \/ RequestRefund(w, o)
      PROVE  P
  BY <1>1, ControlFrames DEF CreateOrder, RetryFulfillment, RequestRefund
<1>2. ASSUME NEW o \in Orders,
             CancelOrder(w, o) \/ ExpireTimedOutOrder(w, o) \/ VerifyOrder(w, o)
               \/ ReconcilePendingOrder(w, o)
      PROVE  P
  BY <1>2, ControlFrames
  DEF CancelOrder, ExpireTimedOutOrder, VerifyOrder, ReconcilePendingOrder
<1>3. ASSUME NEW o \in Orders, NEW h, HandleNotify(w, o, h) PROVE P
  BY <1>3, ControlFrames DEF HandleNotify
<1>4. ASSUME NEW o \in Orders, PrepareRefund(w, o) PROVE pc'[w] = "refundLock"
  BY <1>4, ControlFrames DEF PrepareRefund
<1> QED
  BY <1>0, <1>1, <1>2, <1>3, <1>4 DEF Entry

\* Every step touches one frame, and all but three keep what is in it.
LEMMA StepFrames ==
  ASSUME TypeInv, NEW w \in Workers, WorkerStep(w) \/ StatementFails(w) \/ Crash(w)
  PROVE  /\ OtherFrames(w)
         /\ Entry(w) \/ CheckPaid(w) \/ CheckRollbackLog(w) \/ Deduct(w) \/ OwnFrame(w)
<1> DEFINE P == /\ OtherFrames(w)
                /\ Entry(w) \/ CheckPaid(w) \/ CheckRollbackLog(w) \/ Deduct(w) \/ OwnFrame(w)
<1>c. ControlOK
  BY DEF TypeInv
<1>0. CASE Frames(w)
  BY <1>0 DEF Frames
<1>1. CASE Entry(w)
  BY <1>1, <1>c, ControlFrames
  DEF Entry, CreateOrder, HandleNotify, RetryFulfillment, CancelOrder, ExpireTimedOutOrder,
      VerifyOrder, ReconcilePendingOrder, RequestRefund, PrepareRefund
<1>2. ASSUME CheckPaid(w) PROVE P
  BY <1>2, <1>c, ControlFrames DEF CheckPaid, Frames, OtherFrames, ControlOK
<1>3. ASSUME CheckRollbackLog(w) \/ Deduct(w) PROVE P
  <2>1. OtherFrames(w)
    BY <1>3, <1>c, ControlFrames DEF CheckRollbackLog, Deduct, Frames, OtherFrames, ControlOK
  <2> QED
    BY <1>3, <2>1
<1>4. ASSUME CreateStep(w), ~Entry(w) PROVE Frames(w)
  BY <1>4, <1>c, ControlFrames
  DEF CreateStep, CheckPendingLimit, CreateOrderInTx, CreatePayment, SaveDetails, FailOrder,
      Entry
<1>5. ASSUME NotifyStep(w), ~Entry(w) PROVE Frames(w)
  BY <1>5, <1>c, ControlFrames
  DEF NotifyStep, GetWebhookProviders, HandlePaymentNotification, ConfirmPayment, ToPaid,
      AlreadyProcessed, Entry
<1>6. ASSUME FulfilStep(w) PROVE Frames(w)
  BY <1>6, <1>c, ControlFrames
  DEF FulfilStep, ExecuteFulfillment, Lock, GetByCode, CreateCode, Redeem,
      ApplyAffiliateRebate, GetGroup, HasAuditLog, AssignOrExtendSubscription,
      MarkCompleted, LogSubscriptionSuccess, MarkFailed
<1>7. ASSUME RetryStep(w), ~Entry(w) PROVE Frames(w)
  BY <1>7, <1>c, ControlFrames DEF RetryStep, ResetForRetry, Entry
<1>8. ASSUME LifecycleStep(w), ~Entry(w), ~CheckPaid(w) PROVE Frames(w)
  BY <1>8, <1>c, ControlFrames
  DEF LifecycleStep, PersistTradeNo, CancelPayment, SetClosed, Entry
<1>9. ASSUME RefundStep(w), ~Entry(w), ~CheckRollbackLog(w), ~Deduct(w) PROVE Frames(w)
  BY <1>9, <1>c, ControlFrames
  DEF RefundStep, SetRefundRequested, RefundLock, GwRefund, RollbackRefund,
      LogRollbackFailed, RefundFailed, RestoreStatus, MarkRefundOk, Entry
<1>10. ASSUME StatementFails(w) \/ Crash(w) PROVE Frames(w)
  BY <1>10, <1>c, ControlFrames DEF StatementFails, Crash
<1> QED
  BY <1>0, <1>1, <1>2, <1>3, <1>4, <1>5, <1>6, <1>7, <1>8, <1>9, <1>10 DEF WorkerStep

-----------------------------------------------------------------------------
(* A paid order has a trade number *)

\* Where a handler carries the trade number that the provider reported.
NumberedLabels == {"persistTradeNo", "getProviders", "notify", "confirm", "toPaid"}

TradeInv ==
  /\ \A o \in Orders : paidAt[o] => tradeNo[o] # "none"
  /\ \A o \in Orders : status[o] \in PaidStatuses => paidAt[o]
  /\ \A o \in Orders : status[o] = "FAILED" /\ payment[o] \notin Unpayable => paidAt[o]
  /\ \A w \in Workers : pc[w] \in {"createPayment", "saveDetails"} => status[ord[w]] # "FAILED"
  /\ \A w \in Workers :
       pc[w] \in NumberedLabels \cup {"refundLock"} \cup RefundLabels => ref[w] # "none"

\* What the steps of all handlers are about, for a step of w.
Working(w) == WorkerStep(w) \/ StatementFails(w) \/ Crash(w)

\* The invariants this module builds on.
KnownInv == TypeInv /\ CreationInv /\ PaidInv /\ CreatorInv /\ LockInv

\* An order keeps its trade number and the sign that it was paid, and gets that
\* sign with a number.
LEMMA NumbersStay ==
  ASSUME TypeInv, TradeInv, NEW w \in Workers, Working(w), NEW o \in Orders
  PROVE  /\ tradeNo[o] # "none" => tradeNo'[o] # "none"
         /\ paidAt[o] => paidAt'[o]
         /\ paidAt'[o] => paidAt[o] \/ tradeNo'[o] # "none"
<1> DEFINE P == /\ tradeNo[o] # "none" => tradeNo'[o] # "none"
                /\ paidAt[o] => paidAt'[o]
                /\ paidAt'[o] => paidAt[o] \/ tradeNo'[o] # "none"
<1>t. /\ tradeNo \in [Orders -> TradeNos] /\ paidAt \in [Orders -> BOOLEAN]
  BY DEF TypeInv, DataOK
<1>1. ASSUME ToPaid(w) PROVE P
  <2>1. ref[w] # "none" /\ ord[w] \in Orders
    BY <1>1, Running DEF ToPaid, TradeInv, NumberedLabels, TypeInv
  <2> QED
    BY <1>t, <1>1, <2>1 DEF ToPaid
<1>2. ASSUME SaveDetails(w) PROVE P
  BY <1>t, <1>2 DEF SaveDetails
<1>3. ASSUME PersistTradeNo(w) PROVE P
  BY <1>t, <1>3 DEF PersistTradeNo
<1>4. ASSUME CreateStep(w), ~SaveDetails(w) PROVE UNCHANGED <<tradeNo, paidAt>>
  BY <1>4
  DEF CreateStep, CreateOrder, CheckPendingLimit, CreateOrderInTx, CreatePayment, FailOrder,
      orderRow
<1>5. ASSUME NotifyStep(w), ~ToPaid(w) PROVE UNCHANGED <<tradeNo, paidAt>>
  BY <1>5
  DEF NotifyStep, HandleNotify, GetWebhookProviders, HandlePaymentNotification,
      ConfirmPayment, AlreadyProcessed, orderRow
<1>6. ASSUME FulfilStep(w) PROVE UNCHANGED <<tradeNo, paidAt>>
  BY <1>6
  DEF FulfilStep, ExecuteFulfillment, Lock, GetByCode, CreateCode, Redeem,
      ApplyAffiliateRebate, GetGroup, HasAuditLog, AssignOrExtendSubscription,
      MarkCompleted, LogSubscriptionSuccess, MarkFailed, orderRow
<1>7. ASSUME RetryStep(w) PROVE UNCHANGED <<tradeNo, paidAt>>
  BY <1>7 DEF RetryStep, RetryFulfillment, ResetForRetry, orderRow
<1>8. ASSUME LifecycleStep(w), ~PersistTradeNo(w) PROVE UNCHANGED <<tradeNo, paidAt>>
  BY <1>8
  DEF LifecycleStep, CancelOrder, ExpireTimedOutOrder, VerifyOrder, ReconcilePendingOrder,
      CheckPaid, CancelPayment, SetClosed, orderRow
<1>9. ASSUME RefundStep(w) PROVE UNCHANGED <<tradeNo, paidAt>>
  BY <1>9
  DEF RefundStep, RequestRefund, PrepareRefund, SetRefundRequested, RefundLock,
      CheckRollbackLog, Deduct, GwRefund, RollbackRefund, LogRollbackFailed, RefundFailed,
      RestoreStatus, MarkRefundOk, orderRow
<1>10. ASSUME StatementFails(w) \/ Crash(w) PROVE UNCHANGED <<tradeNo, paidAt>>
  BY <1>10 DEF StatementFails, Crash, orderRow
<1> QED
  BY <1>1, <1>2, <1>3, <1>4, <1>5, <1>6, <1>7, <1>8, <1>9, <1>10 DEF Working, WorkerStep

\* A status that follows a payment is written to an order that has the sign;
\* FAILED also to one that nobody can pay.
LEMMA NumberedWrites ==
  ASSUME KnownInv, TradeInv, NEW w \in Workers, StatusWriter(w), NEW o \in Orders
  PROVE  \/ status'[o] = status[o]
         \/ /\ ord[w] = o
            /\ status'[o] \in PaidStatuses => paidAt'[o]
            /\ status'[o] = "FAILED" =>
                 \/ FailOrder(w) /\ payment[o] \in Unpayable /\ payment'[o] = payment[o]
                 \/ MarkFailed(w) /\ paidAt[o] /\ status[o] = "RECHARGING"
<1> DEFINE P == \/ status'[o] = status[o]
                \/ /\ ord[w] = o
                   /\ status'[o] \in PaidStatuses => paidAt'[o]
                   /\ status'[o] = "FAILED" =>
                        \/ FailOrder(w) /\ payment[o] \in Unpayable /\ payment'[o] = payment[o]
                        \/ MarkFailed(w) /\ paidAt[o] /\ status[o] = "RECHARGING"
<1>t. status \in [Orders -> Statuses] /\ paidAt \in [Orders -> BOOLEAN]
  BY DEF KnownInv, TypeInv, DataOK
<1>o. ord[w] \in Orders
  BY Running
  DEF StatusWriter, CreateOrderInTx, FailOrder, ToPaid, ResetForRetry, SetClosed, Lock,
      MarkCompleted, MarkFailed, SetRefundRequested, RefundLock, RefundFailed,
      RestoreStatus, MarkRefundOk, KnownInv, TypeInv
<1>1. ASSUME CreateOrderInTx(w) \/ SetClosed(w) PROVE P
  BY <1>t, <1>o, <1>1 DEF CreateOrderInTx, SetClosed, SetStatus, PaidStatuses, Delivered
<1>2. ASSUME FailOrder(w) PROVE P
  <2>1. payment[ord[w]] \in Unpayable
    BY <1>2 DEF KnownInv, CreatorInv, FailOrder, CreateLabels
  <2> QED
    BY <1>t, <1>o, <1>2, <2>1 DEF FailOrder, SetStatus, PaidStatuses, Delivered, upstream
<1>3. ASSUME ToPaid(w) PROVE P
  BY <1>t, <1>o, <1>3 DEF ToPaid, SetStatus
<1>4. ASSUME ResetForRetry(w) \/ Lock(w) PROVE P
  <2>1. payment[ord[w]] = "paid"
    BY <1>4 DEF KnownInv, PaidInv, ActsOnPayment, PaidLabels, RetryLabels, FulfilLabels,
                ResetForRetry, Lock
  <2>2. status[ord[w]] \in Fulfillable => paidAt[ord[w]]
    BY <1>o, <2>1 DEF Fulfillable, TradeInv, PaidStatuses, Unpayable
  <2> QED
    BY <1>t, <1>o, <1>4, <2>2 DEF ResetForRetry, Lock, SetStatus
<1>5. ASSUME MarkCompleted(w) \/ MarkFailed(w) PROVE P
  <2>1. status[ord[w]] = "RECHARGING" => paidAt[ord[w]]
    BY <1>o DEF TradeInv, PaidStatuses
  <2> QED
    BY <1>t, <1>o, <1>5, <2>1 DEF MarkCompleted, MarkFailed, SetStatus, PaidStatuses, Delivered
<1>6. ASSUME SetRefundRequested(w) \/ RefundLock(w) PROVE P
  <2>1. status[ord[w]] \in Refundable => paidAt[ord[w]]
    BY <1>o DEF TradeInv, PaidStatuses, Delivered, Refundable
  <2> QED
    BY <1>t, <1>o, <1>6, <2>1 DEF SetRefundRequested, RefundLock, SetStatus, Refundable
<1>7. ASSUME RefundFailed(w) \/ RestoreStatus(w) \/ MarkRefundOk(w) PROVE P
  <2>1. status[ord[w]] = "REFUNDING"
    BY <1>7 DEF KnownInv, LockInv, RefundFailed, RestoreStatus, MarkRefundOk, RefundLabels
  <2>2. paidAt[ord[w]]
    BY <1>o, <2>1 DEF TradeInv, PaidStatuses, Delivered
  <2> QED
    BY <1>t, <1>o, <1>7, <2>2 DEF RefundFailed, RestoreStatus, MarkRefundOk, SetStatus
<1> QED
  BY <1>1, <1>2, <1>3, <1>4, <1>5, <1>6, <1>7 DEF StatusWriter

\* Where a handler needs a trade number.
NeedsNumber == NumberedLabels \cup {"refundLock"} \cup RefundLabels

LEMMA NeedsNumberList ==
  NeedsNumber = {"persistTradeNo", "getProviders", "notify", "confirm", "toPaid", "refundLock",
    "refundLog", "deduct", "gwRefund", "rollback", "logRollbackFailed", "refundFailed",
    "restoreStatus", "markRefundOk"}
  BY DEF NeedsNumber, NumberedLabels, RefundLabels

\* A handler gets there from its like.
LEMMA NumberedMoves ==
  ASSUME TypeInv, NEW w \in Workers, Working(w), ~Entry(w), ~CheckPaid(w),
         pc'[w] \in NeedsNumber
  PROVE  pc[w] \in NeedsNumber
<1> USE NeedsNumberList
<1>c. ControlOK
  BY DEF TypeInv
<1>1. ASSUME CreateStep(w) PROVE FALSE
  BY <1>c, <1>1, CreateMoves DEF CreateStep, Entry, Moves
<1>2. ASSUME NotifyStep(w) PROVE pc[w] \in NeedsNumber
  <2>1. ASSUME GetWebhookProviders(w) \/ HandlePaymentNotification(w) \/ ConfirmPayment(w)
                 \/ ToPaid(w)
        PROVE  pc[w] \in NeedsNumber
    BY <2>1 DEF GetWebhookProviders, HandlePaymentNotification, ConfirmPayment, ToPaid
  <2>2. ASSUME AlreadyProcessed(w) PROVE FALSE
    BY <1>c, <2>2, NotifyMoves DEF Moves
  <2> QED
    BY <1>2, <2>1, <2>2 DEF NotifyStep, Entry
<1>3. ASSUME FulfilStep(w) PROVE FALSE
  <2>1. GetByCode(w) => ResolveRedeemAction(ord[w]) \in {"createCode", "redeem", "applyRebate"}
    BY <1>c, Running DEF GetByCode, ResolveRedeemAction, TypeInv, DataOK
  <2>2. \A l : Moves(w, {l}) => pc'[w] = l \/ pc'[w] = "idle"
    BY DEF Moves
  <2>3. ~GetByCode(w)
    BY <1>c, <2>1, <2>2, FulfilMoves
  <2> QED
    BY <1>3, <1>c, <2>3, FulfilMoves DEF FulfilStep, Moves
<1>4. ASSUME RetryStep(w) PROVE FALSE
  BY <1>c, <1>4, NotifyMoves DEF RetryStep, Entry, Moves
<1>5. ASSUME LifecycleStep(w) PROVE pc[w] \in NeedsNumber
  <2>1. PersistTradeNo(w) => pc[w] \in NeedsNumber
    BY DEF PersistTradeNo
  <2>2. ~(CancelPayment(w) \/ SetClosed(w))
    BY <1>c, LifecycleMoves DEF Moves
  <2> QED
    BY <1>5, <2>1, <2>2 DEF LifecycleStep, Entry
<1>6. ASSUME RefundStep(w) PROVE pc[w] \in NeedsNumber
  <2>1. ~SetRefundRequested(w)
    BY <1>c, RefundMoves DEF Moves
  <2> QED
    BY <1>6, <2>1
    DEF RefundStep, Entry, RefundLock, CheckRollbackLog, Deduct, GwRefund, RollbackRefund,
        LogRollbackFailed, RefundFailed, RestoreStatus, MarkRefundOk
<1>7. ASSUME StatementFails(w) \/ Crash(w) PROVE pc[w] \in NeedsNumber
  <2>1. Moves(w, {OnError(w)}) /\ pc[w] \in Labels \ {"idle"}
    BY <1>7, <1>c, FaultMoves DEF Moves, StatementFails, Crash, ControlOK
  <2> QED
    BY <2>1, OnErrorCases, LabelsList DEF Moves
<1> QED
  BY <1>1, <1>2, <1>3, <1>4, <1>5, <1>6, <1>7 DEF Working, WorkerStep

\* It comes there with a number, if every provider answers with one.
LEMMA NumberedHandlers ==
  ASSUME SilentOrders = {}, KnownInv, TradeInv, NEW w \in Workers, Working(w)
  PROVE  \A v \in Workers : pc'[v] \in NeedsNumber => ref'[v] # "none"
<1>c. ControlOK /\ TypeInv
  BY DEF KnownInv, TypeInv
<1>f. /\ OtherFrames(w)
      /\ Entry(w) \/ CheckPaid(w) \/ CheckRollbackLog(w) \/ Deduct(w) \/ OwnFrame(w)
  BY <1>c, StepFrames DEF Working
<1>0. \A v \in Workers : pc[v] \in NeedsNumber => ref[v] # "none"
  BY DEF TradeInv, NeedsNumber
<1>1. CASE pc'[w] \in NeedsNumber
  <2> SUFFICES ref'[w] # "none"
    BY <1>0, <1>f DEF OtherFrames
  <2>1. CASE Entry(w)
    <3>1. ASSUME NEW o \in Orders, PrepareRefund(w, o) PROVE ref'[w] # "none"
      <4>1. tradeNo[o] # "none"
        BY <3>1 DEF PrepareRefund, TradeInv, PaidStatuses, Delivered, Refundable
      <4>2. PICK p : Enter(w, "refund", o, "refundLock", tradeNo[o], p)
        BY <3>1 DEF PrepareRefund
      <4> QED
        BY <1>c, <4>1, <4>2, ControlFrames
    <3>2. ASSUME NEW o \in Orders, NEW h, HandleNotify(w, o, h) PROVE ref'[w] # "none"
      BY <1>c, <3>2, ControlFrames DEF HandleNotify
    <3>3. ASSUME NEW o \in Orders,
                 CreateOrder(w, o) \/ RetryFulfillment(w, o) \/ RequestRefund(w, o)
          PROVE  FALSE
      BY <1>1, <1>c, <3>3, ControlFrames, NeedsNumberList
      DEF CreateOrder, RetryFulfillment, RequestRefund
    <3>4. ASSUME NEW o \in Orders,
                 CancelOrder(w, o) \/ ExpireTimedOutOrder(w, o) \/ VerifyOrder(w, o)
                   \/ ReconcilePendingOrder(w, o)
          PROVE  FALSE
      BY <1>1, <1>c, <3>4, ControlFrames, NeedsNumberList
      DEF CancelOrder, ExpireTimedOutOrder, VerifyOrder, ReconcilePendingOrder
    <3> QED
      BY <2>1, <3>1, <3>2, <3>3, <3>4 DEF Entry
  <2>2. CASE CheckPaid(w)
    BY <1>1, <1>c, <2>2, ControlFrames, NeedsNumberList
    DEF CheckPaid, ShouldPersistUpstreamTradeNo, Frames, OwnFrame, ControlOK
  <2>3. CASE ~Entry(w) /\ ~CheckPaid(w)
    <3>1. pc[w] \in NeedsNumber
      BY <1>1, <1>c, <2>3, NumberedMoves
    <3>2. ref'[w] = ref[w]
      <4>1. CASE OwnFrame(w)
        BY <1>1, <4>1, NeedsNumberList DEF OwnFrame
      <4>2. CASE CheckRollbackLog(w)
        BY <4>2 DEF CheckRollbackLog, Goto, frame
      <4>3. CASE Deduct(w)
        <5>1. Reply(w, "gwRefund") => ref'[w] = ref[w]
          <6>1. Reply(w, "gwRefund") => OwnFrame(w)
            BY <1>c, ControlFrames DEF Frames
          <6> QED
            BY <1>1, <6>1, NeedsNumberList DEF OwnFrame
        <5> QED
          BY <4>3, <5>1 DEF Deduct, Goto, frame
      <4> QED
        BY <1>f, <2>3, <4>1, <4>2, <4>3
    <3> QED
      BY <1>0, <3>1, <3>2
  <2> QED
    BY <2>1, <2>2, <2>3
<1>2. CASE pc'[w] \notin NeedsNumber
  BY <1>0, <1>2, <1>f DEF OtherFrames
<1> QED
  BY <1>1, <1>2

\* A step starts at a label of its handler.
LEMMA StepLabels ==
  ASSUME NEW w \in Workers
  PROVE  /\ CreateStep(w) => pc[w] \in CreateLabels \cup {"idle"}
         /\ NotifyStep(w) => pc[w] \in NotifyLabels \cup {"idle"}
         /\ FulfilStep(w) => pc[w] \in FulfilLabels
         /\ RetryStep(w) => pc[w] \in RetryLabels \cup {"idle"}
         /\ LifecycleStep(w) => pc[w] \in LifecycleLabels \cup {"idle"}
         /\ RefundStep(w) => pc[w] \in RefundLabels \cup {"requestRefund", "refundLock", "idle"}
<1>1. CreateStep(w) => pc[w] \in CreateLabels \cup {"idle"}
  BY DEF CreateStep, CreateOrder, Enter, CheckPendingLimit, CreateOrderInTx, CreatePayment,
         SaveDetails, FailOrder, CreateLabels
<1>2. NotifyStep(w) => pc[w] \in NotifyLabels \cup {"idle"}
  BY DEF NotifyStep, HandleNotify, Enter, GetWebhookProviders, HandlePaymentNotification,
         ConfirmPayment, ToPaid, AlreadyProcessed, NotifyLabels
<1>3. FulfilStep(w) => pc[w] \in FulfilLabels
  BY DEF FulfilStep, ExecuteFulfillment, Lock, GetByCode, CreateCode, Redeem,
         ApplyAffiliateRebate, GetGroup, HasAuditLog, AssignOrExtendSubscription,
         MarkCompleted, LogSubscriptionSuccess, MarkFailed, FulfilLabels
<1>4. RetryStep(w) => pc[w] \in RetryLabels \cup {"idle"}
  BY DEF RetryStep, RetryFulfillment, Enter, ResetForRetry, RetryLabels
<1>5. LifecycleStep(w) => pc[w] \in LifecycleLabels \cup {"idle"}
  BY DEF LifecycleStep, CancelOrder, ExpireTimedOutOrder, VerifyOrder,
         ReconcilePendingOrder, Enter, CheckPaid, PersistTradeNo, CancelPayment, SetClosed,
         LifecycleLabels
<1>6. RefundStep(w) => pc[w] \in RefundLabels \cup {"requestRefund", "refundLock", "idle"}
  BY DEF RefundStep, RequestRefund, PrepareRefund, Enter, SetRefundRequested, RefundLock,
         CheckRollbackLog, Deduct, GwRefund, RollbackRefund, LogRollbackFailed,
         RefundFailed, RestoreStatus, MarkRefundOk, RefundLabels
<1> QED
  BY <1>1, <1>2, <1>3, <1>4, <1>5, <1>6

\* Only these steps lead to where the provider is called and to the refund lock.
LEMMA RareMoves ==
  ASSUME TypeInv, NEW w \in Workers, Working(w), ~Entry(w),
         pc'[w] \in {"createPayment", "saveDetails", "refundLock"}
  PROVE  (CreateOrderInTx(w) \/ CreatePayment(w)) /\ pc'[w] # "refundLock"
<1>c. ControlOK
  BY DEF TypeInv
<1>1. ASSUME CreateStep(w)
      PROVE  (CreateOrderInTx(w) \/ CreatePayment(w)) /\ pc'[w] # "refundLock"
  BY <1>1, <1>c, CreateMoves DEF CreateStep, Entry, Moves
<1>2. ~NotifyStep(w) /\ ~RetryStep(w)
  BY <1>c, NotifyMoves DEF NotifyStep, RetryStep, Entry, Moves
<1>3. ~FulfilStep(w)
  <2>1. GetByCode(w) => ResolveRedeemAction(ord[w]) \in {"createCode", "redeem", "applyRebate"}
    BY <1>c, Running DEF GetByCode, ResolveRedeemAction, TypeInv, DataOK
  <2>2. \A l : Moves(w, {l}) => pc'[w] = l \/ pc'[w] = "idle"
    BY DEF Moves
  <2>3. ~GetByCode(w)
    BY <1>c, <2>1, <2>2, FulfilMoves
  <2> QED
    BY <1>c, <2>3, FulfilMoves DEF FulfilStep, Moves
<1>4. ~LifecycleStep(w)
  BY <1>c, LifecycleMoves DEF LifecycleStep, Entry, Moves
<1>5. ~RefundStep(w)
  BY <1>c, RefundMoves DEF RefundStep, Entry, Moves
<1>6. ~(StatementFails(w) \/ Crash(w))
  <2>1. ASSUME StatementFails(w) \/ Crash(w)
        PROVE  Moves(w, {OnError(w)}) /\ pc[w] \in Labels \ {"idle"}
    BY <2>1, <1>c, FaultMoves DEF Moves, StatementFails, Crash, ControlOK
  <2> QED
    BY <2>1, OnErrorCases, LabelsList DEF Moves
<1> QED
  BY <1>1, <1>2, <1>3, <1>4, <1>5, <1>6 DEF Working, WorkerStep

LEMMA TradeStep ==
  ASSUME SilentOrders = {}, KnownInv, TradeInv, NEW w \in Workers, Working(w)
  PROVE  TradeInv'
<1>t. /\ TypeInv /\ ControlOK
      /\ status \in [Orders -> Statuses] /\ paidAt \in [Orders -> BOOLEAN]
  BY DEF KnownInv, TypeInv, DataOK
<1>f. OtherFrames(w)
  BY <1>t, StepFrames DEF Working
<1>s. \A o \in Orders :
        /\ tradeNo[o] # "none" => tradeNo'[o] # "none"
        /\ paidAt[o] => paidAt'[o]
        /\ paidAt'[o] => paidAt[o] \/ tradeNo'[o] # "none"
  BY <1>t, NumbersStay
<1>w. \A o \in Orders :
        \/ status'[o] = status[o]
        \/ /\ ord[w] = o
           /\ status'[o] \in PaidStatuses => paidAt'[o]
           /\ status'[o] = "FAILED" =>
                \/ FailOrder(w) /\ payment[o] \in Unpayable /\ payment'[o] = payment[o]
                \/ MarkFailed(w) /\ paidAt[o] /\ status[o] = "RECHARGING"
  BY <1>t, OnlyWriters, NumberedWrites DEF Working
<1>1. \A o \in Orders : paidAt'[o] => tradeNo'[o] # "none"
  BY <1>s DEF TradeInv
<1>2. \A o \in Orders : status'[o] \in PaidStatuses => paidAt'[o]
  BY <1>s, <1>w DEF TradeInv
<1>3. ASSUME NEW o \in Orders, status'[o] = "FAILED", payment'[o] \notin Unpayable
      PROVE  paidAt'[o]
  <2>1. CASE status'[o] = status[o] /\ payment[o] \in Unpayable
    <3>1. SaveDetails(w)
      BY <1>3, <1>t, <2>1, OnlySaveDetails DEF Working
    <3>2. pc[w] = "saveDetails" /\ ord[w] # o
      BY <1>3, <2>1, <3>1 DEF TradeInv, SaveDetails
    <3> QED
      BY <1>3, <1>t, <2>1, <3>1, <3>2, Running DEF SaveDetails, KnownInv, TypeInv, DataOK
  <2>2. CASE status'[o] = status[o] /\ payment[o] \notin Unpayable
    BY <1>3, <1>s, <2>2 DEF TradeInv
  <2>3. CASE status'[o] # status[o]
    BY <1>3, <1>s, <1>w, <2>3
  <2> QED
    BY <2>1, <2>2, <2>3
<1>4. ASSUME NEW v \in Workers, pc'[v] \in {"createPayment", "saveDetails"}
      PROVE  status'[ord'[v]] # "FAILED"
  <2>1. CASE v = w
    <3>1. CASE CreateOrderInTx(w)
      <4>1. ord'[w] = ord[w] /\ ord[w] \in Orders
        BY <1>4, <1>t, <2>1, <3>1, CreateMoves, Running DEF Moves, CreateOrderInTx
      <4> QED
        BY <1>t, <2>1, <3>1, <4>1 DEF CreateOrderInTx, SetStatus
    <3>2. CASE CreatePayment(w)
      <4>1. ord'[w] = ord[w] /\ ord[w] \in Orders
        BY <1>4, <1>t, <2>1, <3>2, CreateMoves, Running DEF Moves, CreatePayment
      <4> QED
        BY <2>1, <3>2, <4>1 DEF CreatePayment, orderRow, TradeInv
    <3> QED
      BY <1>4, <1>t, <2>1, <3>1, <3>2, RareMoves, EntryLabels
  <2>2. CASE v # w
    <3>1. pc[v] \in {"createPayment", "saveDetails"} /\ ord'[v] = ord[v]
      BY <1>4, <1>f, <2>2 DEF OtherFrames
    <3>2. ord[v] \in Orders /\ status[ord[v]] # "FAILED"
      BY <1>t, <3>1, Running DEF TradeInv
    <3>3. ~(FailOrder(w) /\ ord[w] = ord[v])
      BY <2>2, <3>1 DEF FailOrder, KnownInv, CreationInv, CreateLabels
    <3>4. status[ord[v]] # "RECHARGING"
      BY <3>1, <3>2
      DEF KnownInv, CreatorInv, PaidInv, DeliveredOnlyIfPaid, CreateLabels, Unpayable
    <3> QED
      BY <1>w, <3>1, <3>2, <3>3, <3>4
  <2> QED
    BY <2>1, <2>2
<1>5. \A v \in Workers : pc'[v] \in NeedsNumber => ref'[v] # "none"
  BY NumberedHandlers
<1> QED
  BY <1>1, <1>2, <1>3, <1>4, <1>5 DEF TradeInv, NeedsNumber

LEMMA TradeNext ==
  ASSUME SilentOrders = {}, KnownInv, TradeInv, [Next]_vars
  PROVE  TradeInv'
<1>1. CASE UNCHANGED vars
  BY <1>1 DEF vars, orderRow, upstream, frame, TradeInv, Unpayable
<1>2. CASE Environment
  <2>1. UNCHANGED <<status, paidAt, tradeNo, pc, ord, ref>>
    BY <1>2 DEF Environment, OrderTimesOut, GraceLapses, UserPays, AdminDeletesCode, frame,
                orderRow
  <2>2. \A o \in Orders : payment[o] \in Unpayable => payment'[o] \in Unpayable
    BY <1>2
    DEF Environment, OrderTimesOut, GraceLapses, UserPays, AdminDeletesCode, upstream,
        Unpayable, KnownInv, TypeInv, DataOK
  <2> QED
    BY <2>1, <2>2 DEF TradeInv, Unpayable
<1> QED
  BY <1>1, <1>2, TradeStep DEF Next, Working

-----------------------------------------------------------------------------
(* The steps of a running refund *)

RefundActions(w) ==
  \/ CheckRollbackLog(w) \/ Deduct(w) \/ GwRefund(w) \/ RollbackRefund(w)
  \/ LogRollbackFailed(w) \/ RefundFailed(w) \/ RestoreStatus(w) \/ MarkRefundOk(w)

\* A handler that holds the refund lock takes one of its own steps.
LEMMA RefundSteps ==
  ASSUME NEW w \in Workers, WorkerStep(w), pc[w] \in RefundLabels
  PROVE  RefundActions(w)
<1>1. /\ pc[w] \notin CreateLabels \cup NotifyLabels \cup FulfilLabels \cup RetryLabels
      /\ pc[w] \notin LifecycleLabels \cup {"idle", "requestRefund", "refundLock"}
  BY DEF RefundLabels, CreateLabels, NotifyLabels, FulfilLabels, RetryLabels, LifecycleLabels
<1>2. RefundStep(w)
  BY <1>1, StepLabels DEF WorkerStep
<1> QED
  BY <1>1, <1>2
  DEF RefundStep, RequestRefund, PrepareRefund, Enter, SetRefundRequested, RefundLock,
      RefundActions

\* Where each step of a refund leads, faults included.
LEMMA RefundArrivals ==
  ASSUME TypeInv, NEW w \in Workers, Working(w), pc'[w] \in RefundLabels
  PROVE  /\ ord'[w] = ord[w] /\ ord[w] \in Orders
         /\ pc'[w] = "refundLog" => RefundLock(w)
         /\ pc'[w] = "deduct" =>
              CheckRollbackLog(w) \/ (pc[w] = "refundLog" /\ StatementFails(w))
         /\ pc'[w] = "gwRefund" => RefundLock(w) \/ CheckRollbackLog(w) \/ Deduct(w)
         /\ pc'[w] = "rollback" => pc[w] = "gwRefund"
         /\ pc'[w] = "logRollbackFailed" => pc[w] = "rollback"
         /\ pc'[w] = "refundFailed" =>
              LogRollbackFailed(w) \/ (pc[w] = "logRollbackFailed" /\ StatementFails(w))
         /\ pc'[w] = "restoreStatus" =>
              Deduct(w) \/ RollbackRefund(w) \/ (pc[w] = "deduct" /\ StatementFails(w))
         /\ pc'[w] = "markRefundOk" => GwRefund(w)
<1>c. ControlOK
  BY DEF TypeInv
<1>1. CASE RefundLock(w)
  BY <1>c, <1>1, RefundMoves, Running DEF Moves, RefundLock, RefundLabels
<1>2. CASE ~RefundLock(w)
  <2>1. ~Lock(w)
    <3>1. Lock(w) => pc'[w] \in {"getGroup", "getByCode", "idle"}
      BY <1>c, FulfilMoves DEF Moves
    <3> QED
      BY <3>1 DEF RefundLabels
  <2>2. pc[w] \in RefundLabels /\ ord'[w] = ord[w]
    BY <1>2, <2>1, HolderMoves DEF Working, Follows
  <2>3. ord[w] \in Orders
    BY <1>c, <2>2, Running DEF RefundLabels
  <2>4. CASE WorkerStep(w)
    BY <1>c, <2>2, <2>3, <2>4, RefundSteps, RefundMoves
    DEF RefundActions, Moves, RefundLabels, CheckRollbackLog, Deduct, GwRefund,
        RollbackRefund, LogRollbackFailed
  <2>5. CASE StatementFails(w) \/ Crash(w)
    <3>1. Moves(w, {OnError(w)}) /\ ~Crash(w)
      BY <1>c, <2>5, FaultMoves DEF Moves, RefundLabels
    <3> QED
      BY <2>2, <2>3, <2>5, <3>1, OnErrorCases DEF Moves, RefundLabels
  <2> QED
    BY <2>4, <2>5 DEF Working
<1> QED
  BY <1>1, <1>2

\* Only these steps touch what a refund is about.
LEMMA RefundFrame ==
  ASSUME TypeInv, NEW w \in Workers, Working(w)
  PROVE  /\ GwRefund(w) \/ refunds' = refunds
         /\ Deduct(w) \/ RollbackRefund(w) \/ deducted' = deducted
         /\ \A o \in Orders : audit[o] \subseteq audit'[o]
<1> DEFINE P == /\ GwRefund(w) \/ refunds' = refunds
                /\ Deduct(w) \/ RollbackRefund(w) \/ deducted' = deducted
                /\ \A o \in Orders : audit[o] \subseteq audit'[o]
<1>t. audit \in [Orders -> SUBSET AuditActions]
  BY DEF TypeInv, DataOK
<1>1. ASSUME CreateStep(w) PROVE UNCHANGED <<refunds, deducted, audit>>
  BY <1>1
  DEF CreateStep, CreateOrder, CheckPendingLimit, CreateOrderInTx, CreatePayment,
      SaveDetails, FailOrder, effects, logs
<1>2. ASSUME NotifyStep(w) PROVE UNCHANGED <<refunds, deducted, audit>>
  BY <1>2
  DEF NotifyStep, HandleNotify, GetWebhookProviders, HandlePaymentNotification,
      ConfirmPayment, ToPaid, AlreadyProcessed, effects, logs
<1>3. ASSUME FulfilStep(w), ~ApplyAffiliateRebate(w), ~LogSubscriptionSuccess(w)
      PROVE  UNCHANGED <<refunds, deducted, audit>>
  BY <1>3
  DEF FulfilStep, ExecuteFulfillment, Lock, GetByCode, CreateCode, Redeem, GetGroup,
      HasAuditLog, AssignOrExtendSubscription, MarkCompleted, MarkFailed, effects, logs
<1>4. ASSUME ApplyAffiliateRebate(w) \/ LogSubscriptionSuccess(w) PROVE P
  BY <1>t, <1>4 DEF ApplyAffiliateRebate, LogSubscriptionSuccess, effects
<1>5. ASSUME RetryStep(w) PROVE UNCHANGED <<refunds, deducted, audit>>
  BY <1>5 DEF RetryStep, RetryFulfillment, ResetForRetry, effects, logs
<1>6. ASSUME LifecycleStep(w) PROVE UNCHANGED <<refunds, deducted, audit>>
  BY <1>6
  DEF LifecycleStep, CancelOrder, ExpireTimedOutOrder, VerifyOrder, ReconcilePendingOrder,
      CheckPaid, PersistTradeNo, CancelPayment, SetClosed, effects, logs
<1>7. ASSUME RefundStep(w), ~GwRefund(w), ~Deduct(w), ~RollbackRefund(w),
             ~LogRollbackFailed(w)
      PROVE  UNCHANGED <<refunds, deducted, audit>>
  BY <1>7
  DEF RefundStep, RequestRefund, PrepareRefund, SetRefundRequested, RefundLock,
      CheckRollbackLog, RefundFailed, RestoreStatus, MarkRefundOk, effects, logs
<1>8. ASSUME GwRefund(w) \/ Deduct(w) \/ RollbackRefund(w) PROVE P
  BY <1>8 DEF GwRefund, Deduct, RollbackRefund, logs
<1>9. ASSUME LogRollbackFailed(w) PROVE P
  BY <1>t, <1>9 DEF LogRollbackFailed, effects
<1>10. ASSUME StatementFails(w) \/ Crash(w) PROVE UNCHANGED <<refunds, deducted, audit>>
  BY <1>10 DEF StatementFails, Crash, effects, logs
<1> QED
  BY <1>1, <1>2, <1>3, <1>4, <1>5, <1>6, <1>7, <1>8, <1>9, <1>10 DEF Working, WorkerStep

\* The statuses in which a refund may have taken something.
Taken == {"REFUNDING", "REFUNDED", "PARTIALLY_REFUNDED"}

\* REFUNDED is written by MarkRefundOk, and the refund statuses are left by the
\* two other ends of ExecuteRefund.
LEMMA RefundStatus ==
  ASSUME KnownInv, NEW w \in Workers, Working(w), NEW o \in Orders, status'[o] # status[o]
  PROVE  /\ ord[w] = o
         /\ status'[o] \in {"REFUNDED", "PARTIALLY_REFUNDED"} => MarkRefundOk(w)
         /\ status[o] \in Taken /\ status'[o] \notin Taken => RefundFailed(w) \/ RestoreStatus(w)
<1> USE DEF KnownInv
<1>w. StatusWriter(w)
  BY OnlyWriters DEF Working
<1>1. PICK s \in Statuses : Writes(w, s) /\ WriteAllowed(w, s)
  BY <1>w, WritesAreAllowed
<1>2. ord[w] = o /\ status'[o] = s
  BY <1>1 DEF Writes, TypeInv, DataOK
<1>3. ASSUME s \in {"REFUNDED", "PARTIALLY_REFUNDED"} PROVE MarkRefundOk(w)
  BY <1>w, <1>2, <1>3
  DEF StatusWriter, CreateOrderInTx, FailOrder, ToPaid, ResetForRetry, SetClosed, Lock,
      MarkCompleted, MarkFailed, SetRefundRequested, RefundLock, RefundFailed,
      RestoreStatus, SetStatus, TypeInv, DataOK
<1>4. ASSUME status[o] \in Taken, s \notin Taken PROVE RefundFailed(w) \/ RestoreStatus(w)
  <2>1. pc[w] \in RefundLabels
    BY <1>1, <1>2, <1>4
    DEF WriteAllowed, Taken, Delivered, Refundable
  <2>2. RefundFailed(w) \/ RestoreStatus(w) \/ MarkRefundOk(w)
    BY <1>w, <2>1
    DEF StatusWriter, CreateOrderInTx, FailOrder, ToPaid, ResetForRetry, SetClosed, Lock,
        MarkCompleted, MarkFailed, SetRefundRequested, RefundLock, RefundLabels
  <2>3. MarkRefundOk(w) => status'[o] \in Taken
    BY <1>2 DEF MarkRefundOk, SetStatus, Taken, TypeInv, DataOK
  <2> QED
    BY <1>2, <1>4, <2>2, <2>3
<1> QED
  BY <1>2, <1>3, <1>4

-----------------------------------------------------------------------------
(* REFUNDED follows a refund of the gateway *)

GatewayInv ==
  /\ RefundedMeansGatewayRefunded
  /\ \A w \in Workers : pc[w] = "markRefundOk" => refunds[ord[w]] >= 1

LEMMA GatewayStep ==
  ASSUME KnownInv, TradeInv, GatewayInv, NEW w \in Workers, Working(w)
  PROVE  GatewayInv'
<1>t. TypeInv /\ ControlOK /\ refunds \in [Orders -> Nat]
  BY DEF KnownInv, TypeInv, DataOK
<1>f. OtherFrames(w)
  BY <1>t, StepFrames DEF Working
<1>1. \A o \in Orders : refunds'[o] \in Nat /\ refunds'[o] >= refunds[o]
  <2>1. GwRefund(w) => ord[w] \in Orders
    BY <1>t, Running DEF GwRefund
  <2>2. CASE GwRefund(w)
    BY <1>t, <2>1, <2>2 DEF GwRefund
  <2>3. CASE refunds' = refunds
    BY <1>t, <2>3
  <2> QED
    BY <1>t, <2>2, <2>3, RefundFrame
<1>2. RefundedMeansGatewayRefunded'
  <2> SUFFICES ASSUME NEW o \in Orders, status'[o] \in {"REFUNDED", "PARTIALLY_REFUNDED"}
               PROVE  refunds'[o] >= 1
    BY DEF RefundedMeansGatewayRefunded
  <2>1. CASE status'[o] = status[o]
    BY <1>t, <1>1, <2>1 DEF GatewayInv, RefundedMeansGatewayRefunded
  <2>2. CASE status'[o] # status[o]
    <3>1. MarkRefundOk(w) /\ ord[w] = o
      BY <2>2, RefundStatus
    <3>2. refunds[o] >= 1
      BY <3>1 DEF GatewayInv, MarkRefundOk
    <3> QED
      BY <1>t, <1>1, <3>2
  <2> QED
    BY <2>1, <2>2
<1>3. ASSUME NEW v \in Workers, pc'[v] = "markRefundOk" PROVE refunds'[ord'[v]] >= 1
  <2>1. CASE v = w
    <3>1. ord'[w] = ord[w] /\ ord[w] \in Orders /\ GwRefund(w)
      BY <1>3, <1>t, <2>1, RefundArrivals DEF RefundLabels
    <3>2. ref[w] # "none"
      BY <3>1 DEF TradeInv, RefundLabels, GwRefund
    <3>3. Goto(w, "rollback") => pc'[w] = "rollback"
      BY <1>t, ControlFrames
    <3>4. refunds' = [refunds EXCEPT ![ord[w]] = @ + 1]
      BY <1>3, <2>1, <3>1, <3>2, <3>3 DEF GwRefund
    <3> QED
      BY <1>t, <2>1, <3>1, <3>4
  <2>2. CASE v # w
    <3>1. pc[v] = "markRefundOk" /\ ord'[v] = ord[v]
      BY <1>3, <1>f, <2>2 DEF OtherFrames
    <3>2. ord[v] \in Orders
      BY <1>t, <3>1, Running
    <3> QED
      BY <1>t, <1>1, <3>1, <3>2 DEF GatewayInv
  <2> QED
    BY <2>1, <2>2
<1> QED
  BY <1>2, <1>3 DEF GatewayInv

\* The environment touches neither statuses, refunds nor handlers.
LEMMA EnvironmentFrame ==
  ASSUME Environment
  PROVE  UNCHANGED <<status, audit, credited, extended, deducted, refunds, pc, ord, ref, plan>>
  BY DEF Environment, OrderTimesOut, GraceLapses, UserPays, AdminDeletesCode, frame, orderRow,
         logs, effects

LEMMA GatewayNext ==
  ASSUME KnownInv, TradeInv, GatewayInv, [Next]_vars
  PROVE  GatewayInv'
<1>1. CASE UNCHANGED vars \/ Environment
  <2>1. UNCHANGED <<status, refunds, pc, ord>>
    BY <1>1, EnvironmentFrame DEF vars, orderRow, effects, frame
  <2> QED
    BY <2>1 DEF GatewayInv, RefundedMeansGatewayRefunded
<1> QED
  BY <1>1, GatewayStep DEF Next, Working

LEMMA RefundInit == Init => TradeInv /\ GatewayInv
  BY DEF Init, TradeInv, GatewayInv, RefundedMeansGatewayRefunded, PaidStatuses, Delivered,
         NumberedLabels, RefundLabels, Unpayable

\* If every provider gives trade numbers, an order is called REFUNDED only after
\* the gateway refunded it: no stale plan skips the gateway (gwRefund). A silent
\* provider would leave a paid order without the number that the refund needs.
THEOREM RefundsReachTheGateway ==
  ASSUME SilentOrders = {}, "saveDetails" \notin LostAt
  PROVE  Spec => []RefundedMeansGatewayRefunded
<1>1. KnownInv /\ TradeInv /\ [Next]_vars => TradeInv'
  BY TradeNext
<1>2. KnownInv /\ TradeInv /\ GatewayInv /\ [Next]_vars => GatewayInv'
  BY GatewayNext
<1>3. Spec => []KnownInv
  BY LockInvariant DEF KnownInv
<1>4. GatewayInv => RefundedMeansGatewayRefunded
  BY DEF GatewayInv
<1> QED
  BY <1>1, <1>2, <1>3, <1>4, RefundInit, PTL DEF Spec

-----------------------------------------------------------------------------
(* What is taken back is taken once, and given back when the refund fails *)

\* The log says that something was taken and could not be given back.
Noted(o) == "REFUND_ROLLBACK_FAILED" \in audit[o]

\* Nothing is taken back, or the log says so.
Whole(o) == deducted[o] = 0 \/ Noted(o)

\* What the plan of a running refund says of its order.
PlanOK(w) ==
  LET o == ord[w] IN
  /\ pc[w] = "refundLock" => plan[w].take # "revoked"
  /\ pc[w] \in {"refundLog", "deduct"} => plan[w].take = "deduct"
  /\ pc[w] = "refundLog" => Whole(o)
  /\ pc[w] = "deduct" => deducted[o] = 0
  /\ pc[w] \in {"gwRefund", "rollback"} =>
       IF plan[w].take = "nothing" THEN Whole(o) ELSE deducted[o] = 1
  /\ pc[w] = "refundFailed" => Noted(o)
  /\ pc[w] = "restoreStatus" => Whole(o)

DeductionInv ==
  /\ DeductedAtMostOnce
  /\ \A o \in Orders : status[o] \notin Taken => Whole(o)
  /\ \A w \in Workers : PlanOK(w)

\* The statements that guard the deduction do not fail.
DeductionAssumption ==
  {"refundLog", "logRollbackFailed"} \cap FailAt = {} /\ "deduct" \notin LostAt

\* What a step takes and gives back.
LEMMA DeductionSteps ==
  ASSUME KnownInv, DeductionInv, NEW w \in Workers, Working(w)
  PROVE  /\ \A o \in Orders : Noted(o) => Noted(o)'
         /\ \A o \in Orders : deducted'[o] # deducted[o] =>
              ord[w] = o /\ status[o] = "REFUNDING" /\ pc[w] \in {"deduct", "rollback"}
         /\ DeductedAtMostOnce'
<1>t. TypeInv /\ ControlOK /\ deducted \in [Orders -> Int]
  BY DEF KnownInv, TypeInv, DataOK
<1>1. \A o \in Orders : Noted(o) => Noted(o)'
  BY <1>t, RefundFrame DEF Noted
<1>2. ASSUME Deduct(w) \/ RollbackRefund(w)
      PROVE  /\ pc[w] \in {"deduct", "rollback"}
             /\ ord[w] \in Orders /\ status[ord[w]] = "REFUNDING"
             /\ \A o \in Orders \ {ord[w]} : deducted'[o] = deducted[o]
             /\ deducted'[ord[w]] \in {0, 1}
  <2>1. pc[w] \in {"deduct", "rollback"}
    BY <1>2 DEF Deduct, RollbackRefund
  <2>2. ord[w] \in Orders /\ status[ord[w]] = "REFUNDING"
    BY <1>t, <2>1, Running DEF KnownInv, LockInv, RefundLabels
  <2>3. CASE Deduct(w)
    <3>1. deducted[ord[w]] = 0
      BY <2>3 DEF Deduct, DeductionInv, PlanOK
    <3> QED
      BY <1>t, <2>1, <2>2, <2>3, <3>1 DEF Deduct
  <2>4. CASE RollbackRefund(w)
    <3>1. pc[w] = "rollback" /\ deducted[ord[w]] \in {0, 1}
      BY <2>2, <2>4 DEF RollbackRefund, DeductionInv, DeductedAtMostOnce
    <3>2. plan[w].take = "deduct" => deducted[ord[w]] = 1
      BY <3>1 DEF DeductionInv, PlanOK
    <3> QED
      BY <1>t, <2>1, <2>2, <2>4, <3>1, <3>2 DEF RollbackRefund
  <2> QED
    BY <1>2, <2>3, <2>4
<1>3. CASE Deduct(w) \/ RollbackRefund(w)
  BY <1>1, <1>2, <1>3 DEF DeductionInv, DeductedAtMostOnce
<1>4. CASE deducted' = deducted
  BY <1>1, <1>4 DEF DeductionInv, DeductedAtMostOnce
<1> QED
  BY <1>3, <1>4, <1>t, RefundFrame

\* But for those two steps the plan stays as it is until the handler ends.
LEMMA PlanFrame ==
  ASSUME TypeInv, NEW w \in Workers, Working(w),
         pc[w] # "idle", pc[w] # "queryOrder", pc'[w] # "idle"
  PROVE  CheckRollbackLog(w) \/ Deduct(w) \/ plan'[w] = plan[w]
<1>1. ~Entry(w) /\ ~CheckPaid(w)
  BY EntryLabels DEF TypeInv, CheckPaid
<1> QED
  BY <1>1, StepFrames DEF Working, OwnFrame

\* The handlers that do not move keep what they know.
LEMMA PlansStay ==
  ASSUME KnownInv, DeductionInv, NEW w \in Workers, Working(w), NEW v \in Workers \ {w}
  PROVE  PlanOK(v)'
<1>t. TypeInv /\ ControlOK
  BY DEF KnownInv, TypeInv
<1>f. pc'[v] = pc[v] /\ ord'[v] = ord[v] /\ plan'[v] = plan[v]
  BY <1>t, StepFrames DEF Working, OtherFrames
<1>1. ASSUME pc[v] \in RefundLabels
      PROVE  \E o \in Orders :
               o = ord[v] /\ deducted'[o] = deducted[o] /\ (Noted(o) => Noted(o)')
  <2>1. ord[v] \in Orders
    BY <1>t, <1>1, Running DEF RefundLabels
  <2>2. ~(ord[w] = ord[v] /\ pc[w] \in {"deduct", "rollback"})
    BY <1>1 DEF KnownInv, LockInv, OneRefundAtATime, RefundLabels
  <2> QED
    BY <2>1, <2>2, DeductionSteps
<1>2. CASE pc[v] \in RefundLabels
  BY <1>f, <1>1, <1>2 DEF DeductionInv, PlanOK, Whole, Noted
<1>3. CASE pc[v] \notin RefundLabels
  BY <1>f, <1>3 DEF DeductionInv, PlanOK, RefundLabels
<1> QED
  BY <1>2, <1>3

\* The handler that moves learns what it relies on.
LEMMA PlanMoves ==
  ASSUME DeductionAssumption, KnownInv, DeductionInv, NEW w \in Workers, Working(w)
  PROVE  PlanOK(w)'
<1>t. /\ TypeInv /\ ControlOK /\ deducted \in [Orders -> Int]
      /\ plan \in [Workers -> [was: Statuses, partial: BOOLEAN, take: Deductions]]
  BY DEF KnownInv, TypeInv, DataOK, ControlOK
<1>n. \A o \in Orders : Noted(o) => Noted(o)'
  BY DeductionSteps
<1>p. PlanOK(w)
  BY DEF DeductionInv
<1>1. ASSUME pc'[w] = "refundLock" PROVE plan'[w].take # "revoked"
  <2>1. PICK o \in Orders : PrepareRefund(w, o)
    BY <1>1, <1>t, EntryLabels, RareMoves
  <2>2. PICK partial \in BOOLEAN, take \in {"nothing", "deduct"} :
          Enter(w, "refund", o, "refundLock", tradeNo[o],
                [was |-> status[o], partial |-> partial, take |-> take])
    BY <2>1 DEF PrepareRefund
  <2>3. plan'[w] = [was |-> status[o], partial |-> partial, take |-> take]
    BY <1>t, <2>2, ControlFrames
  <2> QED
    BY <2>3
<1>2. ASSUME pc'[w] \in RefundLabels PROVE PlanOK(w)'
  <2> DEFINE o == ord[w]
  <2>1. o \in Orders /\ ord'[w] = o
    BY <1>2, <1>t, RefundArrivals
  <2>2. CASE RefundLock(w)
    <3>1. /\ pc'[w] \in {"refundLog", "gwRefund"}
          /\ plan'[w] = plan[w]
      BY <1>2, <1>t, <2>2, RefundMoves, PlanFrame
      DEF Moves, RefundLabels, RefundLock, CheckRollbackLog, Deduct
    <3>2. status[o] \in Refundable /\ Reply(w, IF plan[w].take = "deduct" THEN "refundLog" ELSE "gwRefund")
      BY <1>t, <2>2, <3>1, ControlFrames DEF RefundLock
    <3>3. pc'[w] = IF plan[w].take = "deduct" THEN "refundLog" ELSE "gwRefund"
      BY <1>t, <2>2, <3>1, <3>2, ControlFrames, OnErrorCases DEF Reply, RefundLock
    <3>4. Whole(o)'
      <4>1. Whole(o)
        BY <2>1, <3>2 DEF DeductionInv, Refundable, Taken
      <4>2. deducted' = deducted
        BY <2>2 DEF RefundLock, effects
      <4> QED
        BY <1>n, <2>1, <4>1, <4>2 DEF Whole
    <3>5. plan[w].take # "deduct" => plan[w].take = "nothing"
      BY <1>p, <1>t, <2>2 DEF PlanOK, RefundLock, Deductions
    <3> QED
      BY <2>1, <3>1, <3>3, <3>4, <3>5 DEF PlanOK, Whole, Noted
  <2>3. CASE CheckRollbackLog(w)
    <3>1. plan[w].take = "deduct" /\ Whole(o)
      BY <1>p, <2>3 DEF PlanOK, CheckRollbackLog
    <3>2. UNCHANGED <<deducted, audit>>
      BY <2>3 DEF CheckRollbackLog, effects, logs
    <3>3. CASE Noted(o)
      <4>1. pc'[w] = "gwRefund" /\ plan'[w].take = "nothing"
        BY <1>t, <2>3, <3>3 DEF CheckRollbackLog, Noted, ControlOK
      <4> QED
        BY <2>1, <3>2, <3>3, <4>1 DEF PlanOK, Whole, Noted
    <3>4. CASE ~Noted(o)
      <4>1. Goto(w, "deduct")
        BY <2>3, <3>4 DEF CheckRollbackLog, Noted
      <4>2. pc'[w] = "deduct" /\ plan'[w] = plan[w]
        BY <1>t, <4>1 DEF Goto, frame, ControlOK
      <4> QED
        BY <2>1, <3>1, <3>2, <3>4, <4>2 DEF PlanOK, Whole
    <3> QED
      BY <3>3, <3>4
  <2>4. CASE Deduct(w)
    <3>1. pc[w] = "deduct" /\ plan[w].take = "deduct" /\ deducted[o] = 0
      BY <1>p, <2>4 DEF PlanOK, Deduct
    <3>2. \/ /\ deducted'[o] = 1 /\ pc'[w] = "gwRefund" /\ plan'[w].take # "nothing"
          \/ /\ deducted'[o] = 0 /\ pc'[w] = "restoreStatus"
      <4>1. Reply(w, "gwRefund") => pc'[w] = "gwRefund" /\ plan'[w] = plan[w]
        BY <1>t, <3>1 DEF DeductionAssumption, Reply, Goto, frame, ControlOK
      <4>2. Goto(w, "restoreStatus") => pc'[w] = "restoreStatus"
        BY <1>t, ControlFrames
      <4> QED
        BY <1>t, <2>1, <2>4, <3>1, <4>1, <4>2 DEF Deduct, ControlOK
    <3> QED
      BY <2>1, <3>2 DEF PlanOK, Whole
  <2>5. CASE RollbackRefund(w)
    <3>1. pc[w] = "rollback" /\ (pc'[w] = "restoreStatus" \/ pc'[w] = "logRollbackFailed")
      BY <1>2, <1>t, <2>5, RefundMoves DEF RollbackRefund, Moves, RefundLabels
    <3>2. pc'[w] = "restoreStatus" => plan[w].take # "revoked"
      <4>1. Goto(w, "logRollbackFailed") => pc'[w] = "logRollbackFailed"
        BY <1>t, ControlFrames
      <4> QED
        BY <2>5, <4>1 DEF RollbackRefund
    <3>3. CASE plan[w].take = "deduct"
      <4>1. deducted[o] = 1
        BY <1>p, <3>1, <3>3 DEF PlanOK
      <4>2. deducted'[o] = 0
        BY <1>t, <2>1, <2>5, <3>3, <4>1 DEF RollbackRefund
      <4> QED
        BY <2>1, <3>1, <4>2 DEF PlanOK, Whole
    <3>4. CASE plan[w].take # "deduct" /\ plan[w].take # "revoked"
      <4>1. Whole(o)
        BY <1>p, <1>t, <3>1, <3>4 DEF PlanOK, Deductions
      <4>2. UNCHANGED <<deducted, audit>>
        BY <2>5, <3>4 DEF RollbackRefund, logs
      <4> QED
        BY <2>1, <3>1, <4>1, <4>2 DEF PlanOK, Whole, Noted
    <3>5. CASE plan[w].take = "revoked"
      BY <3>1, <3>2, <3>5 DEF PlanOK
    <3> QED
      BY <3>3, <3>4, <3>5
  <2>6. CASE LogRollbackFailed(w)
    <3>1. pc'[w] = "refundFailed"
      BY <1>t, <2>6, ControlFrames DEF LogRollbackFailed
    <3>2. Noted(o)'
      BY <1>t, <2>1, <2>6 DEF LogRollbackFailed, Noted, TypeInv, DataOK
    <3> QED
      BY <2>1, <3>1, <3>2 DEF PlanOK, Noted
  <2>7. CASE ~RefundLock(w) /\ ~CheckRollbackLog(w) /\ ~Deduct(w) /\ ~RollbackRefund(w)
               /\ ~LogRollbackFailed(w)
    <3>1. deducted' = deducted
      BY <1>t, <2>7, RefundFrame
    <3>2. \/ pc'[w] \in {"logRollbackFailed", "markRefundOk"}
          \/ pc'[w] = "rollback" /\ pc[w] = "gwRefund"
          \/ pc'[w] = "restoreStatus" /\ pc[w] = "deduct"
      BY <1>2, <1>t, <2>7, RefundArrivals
      DEF RefundLabels, DeductionAssumption, StatementFails
    <3>3. pc'[w] = "rollback" => plan'[w] = plan[w]
      BY <1>t, <2>7, <3>2, PlanFrame
    <3> QED
      BY <1>n, <1>p, <2>1, <3>1, <3>2, <3>3 DEF PlanOK, Whole, Noted
  <2> QED
    BY <2>2, <2>3, <2>4, <2>5, <2>6, <2>7
<1> QED
  BY <1>1, <1>2 DEF PlanOK, RefundLabels

LEMMA DeductionNext ==
  ASSUME DeductionAssumption, KnownInv, DeductionInv, [Next]_vars
  PROVE  DeductionInv'
<1>1. CASE UNCHANGED vars \/ Environment
  <2>1. UNCHANGED <<status, audit, deducted, pc, ord, plan>>
    BY <1>1, EnvironmentFrame DEF vars, orderRow, logs, effects, frame
  <2> QED
    BY <2>1 DEF DeductionInv, DeductedAtMostOnce, PlanOK, Whole, Noted
<1>2. ASSUME NEW w \in Workers, Working(w) PROVE DeductionInv'
  <2>1. DeductedAtMostOnce'
    BY <1>2, DeductionSteps
  <2>2. ASSUME NEW o \in Orders, status'[o] \notin Taken PROVE Whole(o)'
    <3>1. CASE status[o] \notin Taken
      <4>1. Whole(o) /\ deducted'[o] = deducted[o]
        BY <1>2, <3>1, DeductionSteps DEF DeductionInv, Taken
      <4> QED
        BY <1>2, <4>1, DeductionSteps DEF Whole
    <3>2. CASE status[o] \in Taken
      <4>1. ord[w] = o /\ (RefundFailed(w) \/ RestoreStatus(w))
        BY <1>2, <2>2, <3>2, RefundStatus
      <4>2. pc[w] \in {"refundFailed", "restoreStatus"} /\ UNCHANGED <<deducted, audit>>
        BY <4>1 DEF RefundFailed, RestoreStatus, effects, logs
      <4>3. Whole(o)
        BY <4>1, <4>2 DEF DeductionInv, PlanOK, Whole
      <4> QED
        BY <4>2, <4>3 DEF Whole, Noted
    <3> QED
      BY <3>1, <3>2
  <2>3. ASSUME NEW v \in Workers PROVE PlanOK(v)'
    BY <1>2, PlanMoves, PlansStay
  <2> QED
    BY <2>1, <2>2, <2>3 DEF DeductionInv
<1> QED
  BY <1>1, <1>2 DEF Next, Working

THEOREM DeductionInvariant ==
  ASSUME DeductionAssumption, "saveDetails" \notin LostAt
  PROVE  Spec => [](KnownInv /\ DeductionInv)
<1>1. Init => DeductionInv
  BY DEF Init, DeductionInv, DeductedAtMostOnce, PlanOK, Whole, Noted, Taken, NoPlan
<1>2. KnownInv /\ DeductionInv /\ [Next]_vars => DeductionInv'
  BY DeductionNext
<1>3. Spec => []KnownInv
  BY LockInvariant DEF KnownInv
<1> QED
  BY <1>1, <1>2, <1>3, PTL DEF Spec

\* However often a refund fails, is rolled back and is tried again, what was
\* delivered is taken back at most once (ExecuteRefund).
THEOREM DeductionIsTakenOnce ==
  ASSUME DeductionAssumption, "saveDetails" \notin LostAt
  PROVE  Spec => []DeductedAtMostOnce
<1>1. DeductionInv => DeductedAtMostOnce
  BY DEF DeductionInv
<1> QED
  BY <1>1, DeductionInvariant, PTL

\* A refund that failed and was undone leaves nothing taken (handleGwFail,
\* RollbackRefund, restoreStatus).
THEOREM FailedRefundsAreUndone ==
  ASSUME DeductionAssumption, "saveDetails" \notin LostAt
  PROVE  Spec => []FailedRefundIsUndone
<1>1. DeductionInv => FailedRefundIsUndone
  BY DEF DeductionInv, FailedRefundIsUndone, Taken, Whole, Noted
<1> QED
  BY <1>1, DeductionInvariant, PTL

-----------------------------------------------------------------------------
(* The days of a subscription order are added once *)

\* The days are added by the last step before markCompleted, and then the order
\* is RECHARGING until it is COMPLETED.
ExtensionInv ==
  /\ ExtendedAtMostOnce
  /\ \A o \in Orders : status[o] \notin Delivered \cup {"RECHARGING"} => extended[o] = 0
  /\ \A w \in Workers :
       pc[w] \in LockedLabels \ {"markCompleted"} /\ status[ord[w]] = "RECHARGING"
         => extended[ord[w]] = 0

\* The extension is not reported as failed when it took effect, and the status
\* update after it does not fail.
ExtensionAssumption == "assign" \notin LostAt /\ "markCompleted" \notin FailAt

\* A handler that holds the fulfilment lock takes one of the steps of FulfilStep.
LEMMA LockedSteps ==
  ASSUME NEW w \in Workers, WorkerStep(w), pc[w] \in LockedLabels
  PROVE  FulfilStep(w)
<1>1. /\ pc[w] \notin CreateLabels \cup NotifyLabels \cup RefundLabels \cup RetryLabels
      /\ pc[w] \notin LifecycleLabels \cup {"idle", "requestRefund", "refundLock"}
  BY LockedLabelsList DEF RefundLabels, CreateLabels, NotifyLabels, RetryLabels, LifecycleLabels
<1> QED
  BY <1>1, StepLabels DEF WorkerStep

LEMMA OnlyAssign ==
  ASSUME NEW w \in Workers, Working(w)
  PROVE  AssignOrExtendSubscription(w) \/ extended' = extended
<1>1. ASSUME CreateStep(w) PROVE extended' = extended
  BY <1>1
  DEF CreateStep, CreateOrder, CheckPendingLimit, CreateOrderInTx, CreatePayment,
      SaveDetails, FailOrder, effects
<1>2. ASSUME NotifyStep(w) PROVE extended' = extended
  BY <1>2
  DEF NotifyStep, HandleNotify, GetWebhookProviders, HandlePaymentNotification,
      ConfirmPayment, ToPaid, AlreadyProcessed, effects
<1>3. ASSUME FulfilStep(w), ~AssignOrExtendSubscription(w) PROVE extended' = extended
  BY <1>3
  DEF FulfilStep, ExecuteFulfillment, Lock, GetByCode, CreateCode, Redeem,
      ApplyAffiliateRebate, GetGroup, HasAuditLog, MarkCompleted, LogSubscriptionSuccess,
      MarkFailed, effects
<1>4. ASSUME RetryStep(w) PROVE extended' = extended
  BY <1>4 DEF RetryStep, RetryFulfillment, ResetForRetry, effects
<1>5. ASSUME LifecycleStep(w) PROVE extended' = extended
  BY <1>5
  DEF LifecycleStep, CancelOrder, ExpireTimedOutOrder, VerifyOrder, ReconcilePendingOrder,
      CheckPaid, PersistTradeNo, CancelPayment, SetClosed, effects
<1>6. ASSUME RefundStep(w) PROVE extended' = extended
  BY <1>6
  DEF RefundStep, RequestRefund, PrepareRefund, SetRefundRequested, RefundLock,
      CheckRollbackLog, Deduct, GwRefund, RollbackRefund, LogRollbackFailed, RefundFailed,
      RestoreStatus, MarkRefundOk, effects
<1>7. ASSUME StatementFails(w) \/ Crash(w) PROVE extended' = extended
  BY <1>7 DEF StatementFails, Crash, effects
<1> QED
  BY <1>1, <1>2, <1>3, <1>4, <1>5, <1>6, <1>7 DEF Working, WorkerStep

\* RECHARGING is written by Lock, and left by the ends of a fulfilment.
LEMMA RechargingStatus ==
  ASSUME KnownInv, NEW w \in Workers, Working(w), NEW o \in Orders, status'[o] # status[o]
  PROVE  /\ ord[w] = o
         /\ status'[o] = "RECHARGING" => Lock(w) /\ status[o] \in Fulfillable
         /\ status[o] = "RECHARGING" => MarkCompleted(w) \/ MarkFailed(w)
         /\ status[o] \in Delivered => status'[o] \in Delivered
<1> USE DEF KnownInv
<1>w. StatusWriter(w)
  BY OnlyWriters DEF Working
<1>1. PICK s \in Statuses : Writes(w, s) /\ WriteAllowed(w, s)
  BY <1>w, WritesAreAllowed
<1>2. ord[w] = o /\ status'[o] = s
  BY <1>1 DEF Writes, TypeInv, DataOK
<1>3. ASSUME s = "RECHARGING" PROVE Lock(w) /\ status[o] \in Fulfillable
  BY <1>w, <1>2, <1>3
  DEF StatusWriter, CreateOrderInTx, FailOrder, ToPaid, ResetForRetry, SetClosed, Lock,
      MarkCompleted, MarkFailed, SetRefundRequested, RefundLock, RefundFailed,
      RestoreStatus, MarkRefundOk, SetStatus, TypeInv, DataOK
<1>4. ASSUME status[o] = "RECHARGING" PROVE MarkCompleted(w) \/ MarkFailed(w)
  <2>1. pc[w] \in LockedLabels
    BY <1>1, <1>2, <1>4 DEF WriteAllowed, Delivered, Refundable
  <2> QED
    BY <1>w, <2>1, LockedLabelsList
    DEF StatusWriter, CreateOrderInTx, FailOrder, ToPaid, ResetForRetry, SetClosed, Lock,
        MarkCompleted, MarkFailed, SetRefundRequested, RefundLock, RefundFailed,
        RestoreStatus, MarkRefundOk
<1>5. ASSUME status[o] \in Delivered PROVE s \in Delivered
  BY <1>1, <1>2, <1>5 DEF WriteAllowed, Delivered
<1> QED
  BY <1>2, <1>3, <1>4, <1>5

LEMMA ExtensionStep ==
  ASSUME ExtensionAssumption, KnownInv, ExtensionInv, NEW w \in Workers, Working(w)
  PROVE  ExtensionInv'
<1>t. /\ TypeInv /\ ControlOK
      /\ status \in [Orders -> Statuses] /\ extended \in [Orders -> Nat]
  BY DEF KnownInv, TypeInv, DataOK
<1>f. OtherFrames(w)
  BY <1>t, StepFrames DEF Working
<1>a. ASSUME AssignOrExtendSubscription(w)
      PROVE  /\ pc[w] = "assign" /\ ord[w] \in Orders
             /\ status' = status /\ status[ord[w]] = "RECHARGING"
             /\ extended[ord[w]] = 0 /\ extended'[ord[w]] = 1
             /\ \A o \in Orders \ {ord[w]} : extended'[o] = extended[o]
             /\ pc'[w] = "markCompleted"
  <2>1. pc[w] = "assign" /\ status' = status
    BY <1>a DEF AssignOrExtendSubscription, orderRow
  <2>2. ord[w] \in Orders /\ status[ord[w]] = "RECHARGING"
    BY <1>t, <2>1, Running, LockedLabelsList DEF KnownInv, LockInv, Locked
  <2>3. extended[ord[w]] = 0
    BY <2>1, <2>2, LockedLabelsList DEF ExtensionInv
  <2>4. pc'[w] = "markCompleted"
    BY <1>t, <1>a, <2>1, ControlFrames
    DEF AssignOrExtendSubscription, Reply, ExtensionAssumption
  <2> QED
    BY <1>t, <1>a, <2>1, <2>2, <2>3, <2>4 DEF AssignOrExtendSubscription
<1>1. ExtendedAtMostOnce'
  <2>1. CASE AssignOrExtendSubscription(w)
    <3>1. \A o \in Orders : extended'[o] = 1 \/ extended'[o] = extended[o]
      BY <1>a, <2>1
    <3> QED
      BY <3>1 DEF ExtensionInv, ExtendedAtMostOnce
  <2>2. CASE extended' = extended
    BY <2>2 DEF ExtensionInv, ExtendedAtMostOnce
  <2> QED
    BY <2>1, <2>2, OnlyAssign
<1>2. ASSUME NEW o \in Orders, status'[o] \notin Delivered \cup {"RECHARGING"}
      PROVE  extended'[o] = 0
  <2>1. CASE status[o] \notin Delivered \cup {"RECHARGING"}
    BY <1>a, <2>1, OnlyAssign DEF ExtensionInv
  <2>2. CASE status[o] \in Delivered \cup {"RECHARGING"}
    <3>1. /\ ord[w] = o /\ status[o] = "RECHARGING"
          /\ MarkCompleted(w) \/ MarkFailed(w)
      BY <1>2, <2>2, RechargingStatus
    <3>2. ~MarkCompleted(w)
      BY <1>2, <1>t, <3>1 DEF MarkCompleted, SetStatus, Delivered
    <3>3. pc[w] = "markFailed" /\ extended' = extended
      BY <3>1, <3>2 DEF MarkFailed, effects
    <3> QED
      BY <3>1, <3>3, LockedLabelsList DEF ExtensionInv
  <2> QED
    BY <2>1, <2>2
<1>3. ASSUME NEW v \in Workers, pc'[v] \in LockedLabels \ {"markCompleted"},
             status'[ord'[v]] = "RECHARGING"
      PROVE  extended'[ord'[v]] = 0
  <2>1. CASE v = w
    <3>0. Lock(w) \/ (~Lock(w) /\ ~RefundLock(w))
      <4>1. RefundLock(w) => pc'[w] \in {"refundLog", "gwRefund", "idle"}
        BY <1>t, RefundMoves DEF Moves
      <4> QED
        BY <1>3, <2>1, <4>1, LockedLabelsList
    <3>1. CASE Lock(w)
      <4>1. ord'[w] = ord[w] /\ ord[w] \in Orders /\ extended' = extended
        BY <1>3, <1>t, <2>1, <3>1, FulfilMoves, Running, LockedLabelsList
        DEF Moves, Lock, effects
      <4>2. status[ord[w]] \in Fulfillable
        BY <1>3, <1>t, <2>1, <3>1, ControlFrames, LockedLabelsList DEF Lock
      <4> QED
        BY <2>1, <4>1, <4>2 DEF ExtensionInv, Fulfillable, Delivered
    <3>2. CASE ~Lock(w) /\ ~RefundLock(w)
      <4>1. pc[w] \in LockedLabels \ {"markFailed"} /\ ord'[w] = ord[w]
        BY <1>3, <1>t, <2>1, <3>2, HolderMoves DEF Working, Follows
      <4>2. ord[w] \in Orders /\ status[ord[w]] = "RECHARGING"
        BY <1>t, <4>1, Running, LockedLabelsList DEF KnownInv, LockInv, Locked
      <4>3. pc[w] # "markCompleted"
        <5>1. ASSUME pc[w] = "markCompleted" PROVE MarkCompleted(w) \/ Crash(w)
          BY <5>1, LockedSteps, LockedLabelsList
          DEF Working, ExtensionAssumption, StatementFails, FulfilStep, ExecuteFulfillment,
              Lock, GetByCode, CreateCode, Redeem, ApplyAffiliateRebate, GetGroup,
              HasAuditLog, AssignOrExtendSubscription, LogSubscriptionSuccess, MarkFailed
        <5>2. ~Crash(w)
          BY <1>3, <1>t, <2>1, ControlFrames, LockedLabelsList DEF Crash
        <5>3. MarkCompleted(w) => status'[ord[w]] = "COMPLETED"
          BY <1>t, <4>2 DEF MarkCompleted, SetStatus
        <5> QED
          BY <1>3, <2>1, <4>1, <5>1, <5>2, <5>3
      <4>4. extended[ord[w]] = 0
        BY <4>1, <4>2, <4>3 DEF ExtensionInv
      <4>5. ~AssignOrExtendSubscription(w)
        BY <1>3, <1>a, <2>1
      <4> QED
        BY <2>1, <4>1, <4>4, <4>5, OnlyAssign
    <3> QED
      BY <3>0, <3>1, <3>2
  <2>2. CASE v # w
    <3>1. pc[v] \in LockedLabels \ {"markCompleted"} /\ ord'[v] = ord[v]
      BY <1>3, <1>f, <2>2 DEF OtherFrames
    <3>2. ord[v] \in Orders
      BY <1>t, <3>1, Running, LockedLabelsList
    <3>3. status[ord[v]] = "RECHARGING"
      BY <1>3, <3>1, <3>2, RechargingStatus
      DEF KnownInv, LockInv, Locked, Fulfillable, Delivered
    <3>4. extended[ord[v]] = 0
      BY <3>1, <3>3 DEF ExtensionInv
    <3>5. AssignOrExtendSubscription(w) => ord[w] # ord[v]
      BY <2>2, <3>1, LockedLabelsList
      DEF AssignOrExtendSubscription, KnownInv, LockInv, OneFulfilmentAtATime
    <3> QED
      BY <1>a, <3>1, <3>2, <3>4, <3>5, OnlyAssign
  <2> QED
    BY <2>1, <2>2
<1> QED
  BY <1>1, <1>2, <1>3 DEF ExtensionInv

\* When neither the extension's reply is lost nor the update after it fails, a
\* subscription order adds its days once, whatever else fails, crashes and is
\* retried (doSub).
THEOREM ExtensionIsGrantedOnce ==
  ASSUME ExtensionAssumption, "saveDetails" \notin LostAt
  PROVE  Spec => []ExtendedAtMostOnce
<1>1. Init => ExtensionInv
  BY LockedLabelsList DEF Init, ExtensionInv, ExtendedAtMostOnce
<1>2. KnownInv /\ ExtensionInv /\ [Next]_vars => ExtensionInv'
  <2>1. ASSUME ExtensionInv, UNCHANGED vars \/ Environment PROVE ExtensionInv'
    <3>1. UNCHANGED <<status, extended, pc, ord>>
      BY <2>1, EnvironmentFrame DEF vars, orderRow, effects, frame
    <3> QED
      BY <2>1, <3>1 DEF ExtensionInv, ExtendedAtMostOnce
  <2> QED
    BY <2>1, ExtensionStep DEF Next, Working
<1>3. Spec => []KnownInv
  BY LockInvariant DEF KnownInv
<1>4. ExtensionInv => ExtendedAtMostOnce
  BY DEF ExtensionInv
<1> QED
  BY <1>1, <1>2, <1>3, <1>4, PTL DEF Spec

=============================================================================
