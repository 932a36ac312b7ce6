---------------------------- MODULE PaymentLockProofs ----------------------------
(***************************************************************************)
(* The status column is the lock of a fulfilment (RECHARGING) and of a     *)
(* refund (REFUNDING): each has one holder, and nobody else overwrites it. *)
(* The danger is the unconditional FAILED of CreateOrder, which is safe    *)
(* while the user has no payment link: the theorems assume that the update *)
(* that hands it out (saveDetails) does not report an error after it       *)
(* committed.                                                              *)
(***************************************************************************)
EXTENDS PaymentDeliveryProofs

LEMMA LockedLabelsList ==
  LockedLabels = {"getByCode", "createCode", "redeem", "applyRebate", "getGroup",
    "hasAuditLog", "assign", "markCompleted", "markFailed"}
  BY DEF LockedLabels, FulfilLabels

-----------------------------------------------------------------------------
(* Until CreateOrder has ended, its order cannot be paid. *)

\* A payment the user has no link to, or that is closed.
Unpayable == {"none", "created", "closed"}

CreatorInv == \A w \in Workers : pc[w] \in CreateLabels => payment[ord[w]] \in Unpayable

\* Only SaveDetails makes a payment payable.
LEMMA OnlySaveDetails ==
  ASSUME TypeInv, NEW w \in Workers, WorkerStep(w) \/ StatementFails(w) \/ Crash(w),
         ~SaveDetails(w)
  PROVE  \A o \in Orders : payment[o] \in Unpayable => payment'[o] \in Unpayable
<1>1. ASSUME CreateStep(w), ~CreatePayment(w), ~SaveDetails(w) PROVE payment' = payment
  BY <1>1
  DEF CreateStep, CreateOrder, CheckPendingLimit, CreateOrderInTx, FailOrder, upstream
<1>2. ASSUME NotifyStep(w) PROVE payment' = payment
  BY <1>2
  DEF NotifyStep, HandleNotify, GetWebhookProviders, HandlePaymentNotification,
      ConfirmPayment, ToPaid, AlreadyProcessed, upstream
<1>3. ASSUME FulfilStep(w) PROVE payment' = payment
  BY <1>3
  DEF FulfilStep, ExecuteFulfillment, Lock, GetByCode, CreateCode, Redeem,
      ApplyAffiliateRebate, GetGroup, HasAuditLog, AssignOrExtendSubscription,
      MarkCompleted, LogSubscriptionSuccess, MarkFailed, upstream
<1>4. ASSUME RetryStep(w) PROVE payment' = payment
  BY <1>4 DEF RetryStep, RetryFulfillment, ResetForRetry, upstream
<1>5. ASSUME LifecycleStep(w), ~CancelPayment(w) PROVE payment' = payment
  BY <1>5
  DEF LifecycleStep, CancelOrder, ExpireTimedOutOrder, VerifyOrder,
      ReconcilePendingOrder, CheckPaid, PersistTradeNo, SetClosed, upstream
<1>6. ASSUME RefundStep(w) PROVE payment' = payment
  BY <1>6
  DEF RefundStep, RequestRefund, PrepareRefund, SetRefundRequested, RefundLock,
      CheckRollbackLog, Deduct, GwRefund, RollbackRefund, LogRollbackFailed,
      RefundFailed, RestoreStatus, MarkRefundOk, upstream
<1>7. ASSUME CreatePayment(w) \/ CancelPayment(w)
      PROVE  \A o \in Orders : payment[o] \in Unpayable => payment'[o] \in Unpayable
  BY <1>7, Running DEF CreatePayment, CancelPayment, Unpayable, TypeInv, DataOK
<1>8. ASSUME StatementFails(w) \/ Crash(w) PROVE payment' = payment
  BY <1>8 DEF StatementFails, Crash, upstream
<1> QED
  BY <1>1, <1>2, <1>3, <1>4, <1>5, <1>6, <1>7, <1>8 DEF WorkerStep

\* No handler but CreateOrder enters its labels, and CreateOrder enters them for
\* an order without a payment.
LEMMA CreatorMoves ==
  ASSUME TypeInv, CreationInv, NEW w \in Workers,
         WorkerStep(w) \/ StatementFails(w) \/ Crash(w)
  PROVE  /\ Others(w)
         /\ pc'[w] \in CreateLabels =>
              \/ pc[w] \in CreateLabels /\ ord'[w] = ord[w]
              \/ ord'[w] \in Orders /\ payment[ord'[w]] = "none"
<1> DEFINE P == /\ Others(w)
                /\ pc'[w] \in CreateLabels =>
                     \/ pc[w] \in CreateLabels /\ ord'[w] = ord[w]
                     \/ ord'[w] \in Orders /\ payment[ord'[w]] = "none"
<1>c. ControlOK
  BY DEF TypeInv
<1>1. ASSUME CreateStep(w) PROVE P
  <2>1. ASSUME NEW o \in Orders, CreateOrder(w, o) PROVE P
    <3>1. Others(w) /\ ord'[w] = o
      BY <2>1, <1>c, EnterMoves DEF CreateOrder
    <3>2. payment[o] = "none"
      BY <2>1 DEF CreateOrder, CreationInv
    <3> QED
      BY <3>1, <3>2
  <2>2. ASSUME NEW L, Moves(w, L), pc[w] \in CreateLabels PROVE P
    BY <2>2 DEF Moves, CreateLabels
  <2>3. ASSUME CheckPendingLimit(w) \/ CreateOrderInTx(w) \/ CreatePayment(w)
                 \/ SaveDetails(w) \/ FailOrder(w)
        PROVE  P
    <3>1. pc[w] \in CreateLabels
      BY <2>3
      DEF CheckPendingLimit, CreateOrderInTx, CreatePayment, SaveDetails, FailOrder,
          CreateLabels
    <3> QED
      BY <1>c, <2>2, <2>3, <3>1, CreateMoves
  <2> QED
    BY <1>1, <2>1, <2>3 DEF CreateStep
<1>2. ASSUME NotifyStep(w) PROVE P
  BY <1>2, <1>c, EnterMoves, NotifyMoves
  DEF NotifyStep, HandleNotify, Moves, CreateLabels
<1>3. ASSUME FulfilStep(w) PROVE P
  <2>1. GetByCode(w) => ResolveRedeemAction(ord[w]) \in {"createCode", "redeem", "applyRebate"}
    BY Running DEF GetByCode, ResolveRedeemAction, TypeInv, DataOK
  <2> QED
    BY <1>3, <1>c, <2>1, FulfilMoves DEF FulfilStep, Moves, CreateLabels
<1>4. ASSUME RetryStep(w) PROVE P
  BY <1>4, <1>c, EnterMoves, NotifyMoves
  DEF RetryStep, RetryFulfillment, Moves, CreateLabels
<1>5. ASSUME LifecycleStep(w) PROVE P
  BY <1>5, <1>c, EnterMoves, LifecycleMoves
  DEF LifecycleStep, CancelOrder, ExpireTimedOutOrder, VerifyOrder,
      ReconcilePendingOrder, Moves, CreateLabels
<1>6. ASSUME RefundStep(w) PROVE P
  <2>1. ASSUME NEW o \in Orders, RequestRefund(w, o) \/ PrepareRefund(w, o) PROVE P
    <3>1. Others(w) /\ pc'[w] \in {"requestRefund", "refundLock"}
      BY <2>1, <1>c, EnterMoves DEF RequestRefund, PrepareRefund
    <3> QED
      BY <3>1 DEF CreateLabels
  <2>2. ASSUME \A o \in Orders : ~(RequestRefund(w, o) \/ PrepareRefund(w, o)) PROVE P
    BY <1>6, <1>c, <2>2, RefundMoves DEF RefundStep, Moves, CreateLabels
  <2> QED
    BY <2>1, <2>2
<1>7. ASSUME StatementFails(w) \/ Crash(w) PROVE P
  <2>1. Moves(w, {OnError(w)}) /\ pc[w] \in Labels \ {"idle"}
    BY <1>c, <1>7, FaultMoves DEF Moves, StatementFails, Crash, ControlOK
  <2>2. OnError(w) \in CreateLabels => pc[w] \in CreateLabels
    BY <2>1, OnErrorCases, LabelsList DEF CreateLabels
  <2> QED
    BY <2>1, <2>2 DEF Moves, CreateLabels
<1> QED
  BY <1>1, <1>2, <1>3, <1>4, <1>5, <1>6, <1>7 DEF WorkerStep

LEMMA CreatorNext ==
  ASSUME "saveDetails" \notin LostAt, TypeInv, CreationInv, CreatorInv, [Next]_vars
  PROVE  CreatorInv'
<1>0. \A v \in Workers : pc[v] \in CreateLabels => ord[v] \in Orders
  BY DEF CreateLabels, TypeInv, ControlOK
<1>1. CASE UNCHANGED vars
  BY <1>1 DEF CreatorInv, vars, upstream, frame
<1>2. CASE Environment
  <2>1. /\ UNCHANGED <<pc, ord>>
        /\ \A o \in Orders : payment[o] \in Unpayable => payment'[o] \in Unpayable
    BY <1>2
    DEF Environment, OrderTimesOut, GraceLapses, UserPays, AdminDeletesCode, frame,
        upstream, Unpayable, TypeInv, DataOK
  <2> QED
    BY <1>0, <2>1 DEF CreatorInv
<1>3. ASSUME NEW w \in Workers, WorkerStep(w) \/ StatementFails(w) \/ Crash(w)
      PROVE  CreatorInv'
  <2>1. CASE ~SaveDetails(w)
    BY <1>0, <1>3, <2>1, OnlySaveDetails, CreatorMoves DEF CreatorInv, Others, Unpayable
  <2>2. CASE SaveDetails(w)
    <3>1. pc[w] = "saveDetails" /\ ord[w] \in Orders
      BY <2>2, Running DEF SaveDetails, TypeInv
    <3>2. Others(w) /\ pc'[w] = "idle"
      BY <2>2, <3>1, LeaveMoves DEF SaveDetails, Reply, Moves, TypeInv
    <3>3. \A o \in Orders \ {ord[w]} : payment'[o] = payment[o]
      BY <2>2, <3>1 DEF SaveDetails, TypeInv, DataOK
    <3>4. \A v \in Workers \ {w} : pc[v] \in CreateLabels => ord[v] # ord[w]
      BY <3>1 DEF CreationInv, CreateLabels
    <3> QED
      BY <1>0, <3>2, <3>3, <3>4 DEF CreatorInv, Others, CreateLabels
  <2> QED
    BY <2>1, <2>2
<1> QED
  BY <1>1, <1>2, <1>3 DEF Next

-----------------------------------------------------------------------------
(* The two locks *)

\* A fulfilment between Lock and its end has the order RECHARGING, except that
\* markFailed may come after a COMPLETED whose reply was lost.
Locked(w) ==
  \/ status[ord[w]] = "RECHARGING"
  \/ pc[w] = "markFailed" /\ status[ord[w]] \in Delivered

LockInv ==
  /\ \A w \in Workers : pc[w] \in LockedLabels => Locked(w)
  /\ \A w \in Workers : pc[w] \in RefundLabels => status[ord[w]] = "REFUNDING"
  /\ OneFulfilmentAtATime
  /\ OneRefundAtATime

\* Worker w is at one of the labels L after the step only if it was there, for
\* the same order, and before its last label.
Follows(w, L) == pc'[w] \in L => pc[w] \in L \ {"markFailed"} /\ ord'[w] = ord[w]

\* Only Lock and RefundLock lead into the labels that hold a lock.
LEMMA HolderMoves ==
  ASSUME TypeInv, NEW w \in Workers, WorkerStep(w) \/ StatementFails(w) \/ Crash(w),
         ~Lock(w), ~RefundLock(w)
  PROVE  Others(w) /\ Follows(w, LockedLabels) /\ Follows(w, RefundLabels)
<1> DEFINE P == Others(w) /\ Follows(w, LockedLabels) /\ Follows(w, RefundLabels)
<1>c. ControlOK
  BY DEF TypeInv
<1>0. ASSUME Others(w), pc'[w] \notin LockedLabels \cup RefundLabels PROVE P
  BY <1>0 DEF Follows
<1>1. ASSUME CreateStep(w) PROVE P
  <2>1. Others(w) /\ pc'[w] \notin LockedLabels \cup RefundLabels
    BY <1>1, <1>c, EnterMoves, CreateMoves, LockedLabelsList
    DEF CreateStep, CreateOrder, Moves, RefundLabels
  <2> QED
    BY <1>0, <2>1
<1>2. ASSUME NotifyStep(w) PROVE P
  <2>1. Others(w) /\ pc'[w] \notin LockedLabels \cup RefundLabels
    BY <1>2, <1>c, EnterMoves, NotifyMoves, LockedLabelsList
    DEF NotifyStep, HandleNotify, Moves, RefundLabels
  <2> QED
    BY <1>0, <2>1
<1>3. ASSUME RetryStep(w) PROVE P
  <2>1. Others(w) /\ pc'[w] \notin LockedLabels \cup RefundLabels
    BY <1>3, <1>c, EnterMoves, NotifyMoves, LockedLabelsList
    DEF RetryStep, RetryFulfillment, Moves, RefundLabels
  <2> QED
    BY <1>0, <2>1
<1>4. ASSUME LifecycleStep(w) PROVE P
  <2>1. Others(w) /\ pc'[w] \notin LockedLabels \cup RefundLabels
    BY <1>4, <1>c, EnterMoves, LifecycleMoves, LockedLabelsList
    DEF LifecycleStep, CancelOrder, ExpireTimedOutOrder, VerifyOrder,
        ReconcilePendingOrder, Moves, RefundLabels
  <2> QED
    BY <1>0, <2>1
<1>5. ASSUME FulfilStep(w) PROVE P
  <2>1. GetByCode(w) => ResolveRedeemAction(ord[w]) \in {"createCode", "redeem", "applyRebate"}
    BY Running DEF GetByCode, ResolveRedeemAction, TypeInv, DataOK
  <2>2. ASSUME ExecuteFulfillment(w) \/ LogSubscriptionSuccess(w) \/ MarkFailed(w) PROVE P
    <3>1. Others(w) /\ pc'[w] \notin LockedLabels \cup RefundLabels
      BY <1>c, <2>2, FulfilMoves, LockedLabelsList DEF Moves, RefundLabels
    <3> QED
      BY <1>0, <3>1
  <2>3. ASSUME GetByCode(w) \/ CreateCode(w) \/ Redeem(w) \/ ApplyAffiliateRebate(w)
                 \/ GetGroup(w) \/ HasAuditLog(w) \/ AssignOrExtendSubscription(w)
                 \/ MarkCompleted(w)
        PROVE  P
    <3>1. pc[w] \in LockedLabels \ {"markFailed"}
      BY <2>3, LockedLabelsList
      DEF GetByCode, CreateCode, Redeem, ApplyAffiliateRebate, GetGroup, HasAuditLog,
          AssignOrExtendSubscription, MarkCompleted
    <3>2. Others(w) /\ pc'[w] \notin RefundLabels /\ (pc'[w] # "idle" => ord'[w] = ord[w])
      BY <1>c, <2>1, <2>3, FulfilMoves DEF Moves, RefundLabels
    <3> QED
      BY <3>1, <3>2, LockedLabelsList DEF Follows
  <2> QED
    BY <1>5, <2>2, <2>3 DEF FulfilStep
<1>6. ASSUME RefundStep(w) PROVE P
  <2>1. ASSUME NEW o \in Orders, RequestRefund(w, o) \/ PrepareRefund(w, o) PROVE P
    <3>1. Others(w) /\ pc'[w] \in {"requestRefund", "refundLock"}
      BY <2>1, <1>c, EnterMoves DEF RequestRefund, PrepareRefund
    <3> QED
      BY <1>0, <3>1, LockedLabelsList DEF RefundLabels
  <2>2. ASSUME SetRefundRequested(w) \/ RefundFailed(w) \/ RestoreStatus(w) \/ MarkRefundOk(w)
        PROVE  P
    <3>1. Others(w) /\ pc'[w] = "idle"
      BY <1>c, <2>2, RefundMoves DEF Moves
    <3> QED
      BY <1>0, <3>1, LockedLabelsList DEF RefundLabels
  <2>3. ASSUME CheckRollbackLog(w) \/ Deduct(w) \/ GwRefund(w) \/ RollbackRefund(w)
                 \/ LogRollbackFailed(w)
        PROVE  P
    <3>1. pc[w] \in RefundLabels
      BY <2>3
      DEF CheckRollbackLog, Deduct, GwRefund, RollbackRefund, LogRollbackFailed,
          RefundLabels
    <3>2. Others(w) /\ pc'[w] \notin LockedLabels /\ (pc'[w] # "idle" => ord'[w] = ord[w])
      BY <1>c, <2>3, RefundMoves, LockedLabelsList DEF Moves
    <3> QED
      BY <3>1, <3>2 DEF Follows, RefundLabels
  <2> QED
    BY <1>6, <2>1, <2>2, <2>3 DEF RefundStep
<1>7. ASSUME StatementFails(w) \/ Crash(w) PROVE P
  <2>1. Moves(w, {OnError(w)}) /\ pc[w] \in Labels \ {"idle"}
    BY <1>c, <1>7, FaultMoves DEF Moves, StatementFails, Crash, ControlOK
  <2>2. /\ OnError(w) \in LockedLabels => pc[w] \in LockedLabels \ {"markFailed"}
        /\ OnError(w) \in RefundLabels => pc[w] \in RefundLabels
    BY <2>1, OnErrorCases, LabelsList, LockedLabelsList DEF RefundLabels
  <2> QED
    BY <2>1, <2>2, LockedLabelsList DEF Moves, Follows, RefundLabels
<1> QED
  BY <1>1, <1>2, <1>3, <1>4, <1>5, <1>6, <1>7 DEF WorkerStep

\* A step that writes no status keeps the locks.
LEMMA LockStill ==
  ASSUME TypeInv, LockInv, NEW w \in Workers, status' = status, Others(w),
         Follows(w, LockedLabels), Follows(w, RefundLabels)
  PROVE  LockInv'
<1>1. ASSUME NEW v \in Workers, pc'[v] \in LockedLabels
      PROVE  pc[v] \in LockedLabels /\ ord'[v] = ord[v] /\ Locked(v)'
  BY <1>1 DEF Others, Follows, LockInv, Locked
<1>2. ASSUME NEW v \in Workers, pc'[v] \in RefundLabels
      PROVE  pc[v] \in RefundLabels /\ ord'[v] = ord[v]
  BY <1>2 DEF Others, Follows
<1>3. \A v \in Workers : pc'[v] \in RefundLabels => status'[ord'[v]] = "REFUNDING"
  BY <1>2 DEF LockInv
<1>4. OneFulfilmentAtATime'
  BY <1>1 DEF LockInv, OneFulfilmentAtATime
<1>5. OneRefundAtATime'
  BY <1>2 DEF LockInv, OneRefundAtATime
<1> QED
  BY <1>1, <1>3, <1>4, <1>5 DEF LockInv

\* Worker w writes status s to its order.
Writes(w, s) == ord[w] \in Orders /\ status' = [status EXCEPT ![ord[w]] = s]

\* A write by a worker that ends or goes on outside the lock labels: to an order
\* nobody holds, or within the statuses of a delivered order that nobody
\* refunds, or by the holder of the lock.
LEMMA LockWrite ==
  ASSUME TypeInv, LockInv, NEW w \in Workers, NEW s, Writes(w, s), Others(w),
         pc'[w] \notin RefundLabels,
         pc'[w] \in LockedLabels =>
           pc'[w] = "markFailed" /\ pc[w] \in LockedLabels /\ ord'[w] = ord[w] /\ s \in Delivered,
         \/ status[ord[w]] \notin Delivered \cup {"RECHARGING"}
         \/ status[ord[w]] \in Delivered \ {"REFUNDING"} /\ s \in Delivered
         \/ pc[w] \in LockedLabels /\ status[ord[w]] = "RECHARGING"
         \/ pc[w] \in RefundLabels /\ s \in Delivered
  PROVE  LockInv'
<1>0. \A v \in Workers : pc[v] \in LockedLabels \cup RefundLabels => ord[v] \in Orders
  BY LockedLabelsList DEF RefundLabels, TypeInv, ControlOK
<1>1. \A v \in Workers \ {w} :
        pc'[v] \in LockedLabels /\ ord[v] = ord[w]
          => pc[v] = "markFailed" /\ status[ord[w]] \in Delivered /\ s \in Delivered
  BY DEF Others, LockInv, Locked, OneFulfilmentAtATime, Delivered
<1>2. \A v \in Workers \ {w} : pc'[v] \in RefundLabels => ord[v] # ord[w]
  BY DEF Others, LockInv, OneRefundAtATime, Delivered
<1>3. ASSUME NEW v \in Workers, pc'[v] \in LockedLabels PROVE Locked(v)'
  <2>1. CASE v = w
    BY <1>3, <2>1 DEF Locked, Writes, TypeInv, DataOK
  <2>2. CASE v # w /\ ord[v] = ord[w]
    BY <1>1, <1>3, <2>2 DEF Others, Locked, Writes, TypeInv, DataOK
  <2>3. CASE v # w /\ ord[v] # ord[w]
    BY <1>0, <1>3, <2>3 DEF Others, Locked, LockInv, Writes, TypeInv, DataOK
  <2> QED
    BY <2>1, <2>2, <2>3
<1>4. \A v \in Workers : pc'[v] \in RefundLabels => status'[ord'[v]] = "REFUNDING"
  BY <1>0, <1>2 DEF Others, LockInv, Writes, TypeInv, DataOK
<1>5. OneFulfilmentAtATime'
  BY DEF Others, LockInv, OneFulfilmentAtATime
<1>6. OneRefundAtATime'
  BY DEF Others, LockInv, OneRefundAtATime
<1> QED
  BY <1>3, <1>4, <1>5, <1>6 DEF LockInv

\* Taking a lock: nobody holds an order in a status the lock is taken from.
LEMMA LockTaken ==
  ASSUME TypeInv, LockInv, NEW w \in Workers, Others(w),
         pc'[w] # "idle" => ord'[w] = ord[w],
         \/ /\ Writes(w, "RECHARGING") /\ status[ord[w]] \in Fulfillable
            /\ pc'[w] \notin RefundLabels
         \/ /\ Writes(w, "REFUNDING") /\ status[ord[w]] \in Refundable
            /\ pc'[w] \notin LockedLabels
  PROVE  LockInv'
<1>0. /\ \A v \in Workers : pc[v] \in LockedLabels \cup RefundLabels => ord[v] \in Orders
      /\ "idle" \notin LockedLabels \cup RefundLabels
  BY LockedLabelsList DEF RefundLabels, TypeInv, ControlOK
<1>1. ASSUME NEW v \in Workers \ {w}, ord[v] = ord[w]
      PROVE  /\ pc'[v] \notin RefundLabels
             /\ pc'[v] \in LockedLabels => pc'[v] = "markFailed" /\ pc'[w] \notin LockedLabels /\ status'[ord[w]] \in Delivered
  BY <1>1
  DEF Others, LockInv, Locked, Writes, Fulfillable, Refundable, Delivered, TypeInv,
      DataOK
<1>2. ASSUME NEW v \in Workers, pc'[v] \in LockedLabels PROVE Locked(v)'
  <2>1. CASE v = w
    BY <1>0, <1>2, <2>1 DEF Locked, Writes, TypeInv, DataOK
  <2>2. CASE v # w /\ ord[v] = ord[w]
    BY <1>1, <1>2, <2>2 DEF Others, Locked
  <2>3. CASE v # w /\ ord[v] # ord[w]
    BY <1>0, <1>2, <2>3 DEF Others, Locked, LockInv, Writes, TypeInv, DataOK
  <2> QED
    BY <2>1, <2>2, <2>3
<1>3. ASSUME NEW v \in Workers, pc'[v] \in RefundLabels PROVE status'[ord'[v]] = "REFUNDING"
  <2>1. CASE v = w
    BY <1>0, <1>3, <2>1 DEF Writes, TypeInv, DataOK
  <2>2. CASE v # w
    BY <1>0, <1>1, <1>3, <2>2 DEF Others, LockInv, Writes, TypeInv, DataOK
  <2> QED
    BY <2>1, <2>2
<1>4. OneFulfilmentAtATime'
  BY <1>0, <1>1 DEF Others, LockInv, OneFulfilmentAtATime
<1>5. OneRefundAtATime'
  BY <1>0, <1>1 DEF Others, LockInv, OneRefundAtATime
<1> QED
  BY <1>2, <1>3, <1>4, <1>5 DEF LockInv

\* The steps that write a status.
StatusWriter(w) ==
  \/ CreateOrderInTx(w) \/ FailOrder(w)
  \/ ToPaid(w) \/ ResetForRetry(w) \/ SetClosed(w)
  \/ Lock(w) \/ MarkCompleted(w) \/ MarkFailed(w)
  \/ SetRefundRequested(w) \/ RefundLock(w)
  \/ RefundFailed(w) \/ RestoreStatus(w) \/ MarkRefundOk(w)

LEMMA OnlyWriters ==
  ASSUME TypeInv, NEW w \in Workers, WorkerStep(w) \/ StatementFails(w) \/ Crash(w),
         ~StatusWriter(w)
  PROVE  status' = status
<1>1. ASSUME CreateStep(w) PROVE status' = status
  BY <1>1
  DEF CreateStep, CreateOrder, CheckPendingLimit, CreatePayment, SaveDetails, orderRow,
      StatusWriter
<1>2. ASSUME NotifyStep(w) PROVE status' = status
  BY <1>2
  DEF NotifyStep, HandleNotify, GetWebhookProviders, HandlePaymentNotification,
      ConfirmPayment, AlreadyProcessed, orderRow, StatusWriter
<1>3. ASSUME FulfilStep(w) PROVE status' = status
  BY <1>3
  DEF FulfilStep, ExecuteFulfillment, GetByCode, CreateCode, Redeem,
      ApplyAffiliateRebate, GetGroup, HasAuditLog, AssignOrExtendSubscription,
      LogSubscriptionSuccess, orderRow, StatusWriter
<1>4. ASSUME RetryStep(w) PROVE status' = status
  BY <1>4 DEF RetryStep, RetryFulfillment, orderRow, StatusWriter
<1>5. ASSUME LifecycleStep(w) PROVE status' = status
  BY <1>5
  DEF LifecycleStep, CancelOrder, ExpireTimedOutOrder, VerifyOrder,
      ReconcilePendingOrder, CheckPaid, PersistTradeNo, CancelPayment, orderRow,
      StatusWriter
<1>6. ASSUME RefundStep(w) PROVE status' = status
  BY <1>6
  DEF RefundStep, RequestRefund, PrepareRefund, CheckRollbackLog, Deduct, GwRefund,
      RollbackRefund, LogRollbackFailed, orderRow, StatusWriter
<1>7. ASSUME StatementFails(w) \/ Crash(w) PROVE status' = status
  BY <1>7 DEF StatementFails, Crash, orderRow
<1> QED
  BY <1>1, <1>2, <1>3, <1>4, <1>5, <1>6, <1>7 DEF WorkerStep

\* What each of them writes, over what. For the two unconditional writes of
\* CreateOrder this is where the user's missing payment link counts, for those
\* of ExecuteRefund it is the lock.
WriteAllowed(w, s) ==
  \/ status[ord[w]] \notin Delivered \cup {"RECHARGING"}
  \/ s \in Delivered /\ status[ord[w]] = "COMPLETED" /\ pc[w] = "requestRefund"
  \/ s \in Delivered /\ status[ord[w]] \in Refundable /\ pc[w] = "refundLock"
  \/ pc[w] \in LockedLabels /\ status[ord[w]] = "RECHARGING"
  \/ pc[w] \in RefundLabels /\ status[ord[w]] = "REFUNDING" /\ s \in Delivered

LEMMA WritesAreAllowed ==
  ASSUME TypeInv, PaidInv, CreatorInv, LockInv, NEW w \in Workers, StatusWriter(w)
  PROVE  \/ status' = status
         \/ \E s \in Statuses : Writes(w, s) /\ WriteAllowed(w, s)
<1> DEFINE P == \/ status' = status
                \/ \E s \in Statuses : Writes(w, s) /\ WriteAllowed(w, s)
<1>o. ord[w] \in Orders
  BY Running
  DEF StatusWriter, CreateOrderInTx, FailOrder, ToPaid, ResetForRetry, SetClosed, Lock,
      MarkCompleted, MarkFailed, SetRefundRequested, RefundLock, RefundFailed,
      RestoreStatus, MarkRefundOk, TypeInv
<1>1. ASSUME CreateOrderInTx(w) \/ FailOrder(w) PROVE P
  <2>1. payment[ord[w]] # "paid"
    BY <1>1 DEF CreatorInv, CreateLabels, Unpayable, CreateOrderInTx, FailOrder
  <2>2. status[ord[w]] \notin Delivered \cup {"RECHARGING"}
    BY <1>o, <2>1 DEF PaidInv, DeliveredOnlyIfPaid
  <2>3. Writes(w, "PENDING") \/ Writes(w, "FAILED")
    BY <1>o, <1>1 DEF CreateOrderInTx, FailOrder, SetStatus, Writes
  <2> QED
    BY <2>2, <2>3 DEF WriteAllowed, Statuses
<1>2. ASSUME ToPaid(w) \/ ResetForRetry(w) \/ SetClosed(w) \/ Lock(w) PROVE P
  <2>1. CASE status' # status
    <3>1. status[ord[w]] \in {"PENDING", "CANCELLED", "EXPIRED", "PAID", "FAILED"}
      BY <1>2, <2>1 DEF ToPaid, CanBePaid, ResetForRetry, SetClosed, Lock, Fulfillable
    <3>2. \E s \in {"PAID", "EXPIRED", "CANCELLED", "RECHARGING"} : Writes(w, s)
      BY <1>o, <1>2, <2>1 DEF ToPaid, ResetForRetry, SetClosed, Lock, SetStatus, Writes
    <3> QED
      BY <3>1, <3>2 DEF WriteAllowed, Delivered, Statuses
  <2> QED
    BY <2>1
<1>3. ASSUME MarkCompleted(w) \/ MarkFailed(w) PROVE P
  <2>1. CASE status' # status
    <3>1. pc[w] \in LockedLabels /\ status[ord[w]] = "RECHARGING"
      BY <1>3, <2>1, LockedLabelsList DEF MarkCompleted, MarkFailed
    <3>2. \E s \in {"COMPLETED", "FAILED"} : Writes(w, s)
      BY <1>o, <1>3, <2>1 DEF MarkCompleted, MarkFailed, SetStatus, Writes
    <3> QED
      BY <3>1, <3>2 DEF WriteAllowed, Statuses
  <2> QED
    BY <2>1
<1>4. ASSUME SetRefundRequested(w) \/ RefundLock(w) PROVE P
  BY <1>o, <1>4
  DEF SetRefundRequested, RefundLock, SetStatus, Writes, WriteAllowed, Delivered,
      Statuses
<1>5. ASSUME RefundFailed(w) \/ RestoreStatus(w) \/ MarkRefundOk(w) PROVE P
  <2>1. pc[w] \in RefundLabels /\ status[ord[w]] = "REFUNDING"
    BY <1>5 DEF LockInv, RefundFailed, RestoreStatus, MarkRefundOk, RefundLabels
  <2>2. \E s \in {"REFUND_FAILED", "REFUND_REQUESTED", "COMPLETED", "PARTIALLY_REFUNDED", "REFUNDED"} : Writes(w, s)
    BY <1>o, <1>5 DEF RefundFailed, RestoreStatus, MarkRefundOk, SetStatus, Writes
  <2> QED
    BY <2>1, <2>2 DEF WriteAllowed, Delivered, Statuses
<1> QED
  BY <1>1, <1>2, <1>3, <1>4, <1>5 DEF StatusWriter

LEMMA LockNext ==
  ASSUME TypeInv, PaidInv, CreatorInv, LockInv, [Next]_vars
  PROVE  LockInv'
<1>0. ASSUME UNCHANGED <<status, pc, ord>> PROVE LockInv'
  BY <1>0 DEF LockInv, Locked, OneFulfilmentAtATime, OneRefundAtATime
<1>1. CASE UNCHANGED vars
  BY <1>0, <1>1 DEF vars, orderRow, frame
<1>2. CASE Environment
  BY <1>0, <1>2
  DEF Environment, OrderTimesOut, GraceLapses, UserPays, AdminDeletesCode, orderRow,
      frame
<1>3. ASSUME NEW w \in Workers, WorkerStep(w) \/ StatementFails(w) \/ Crash(w)
      PROVE  LockInv'
  <2>c. ControlOK
    BY DEF TypeInv
  <2>1. CASE ~Lock(w) /\ ~RefundLock(w) /\ status' = status
    BY <1>3, <2>1, HolderMoves, LockStill
  <2>2. CASE ~Lock(w) /\ ~RefundLock(w) /\ status' # status
    <3>1. PICK s \in Statuses : Writes(w, s) /\ WriteAllowed(w, s)
      BY <1>3, <2>2, OnlyWriters, WritesAreAllowed
    <3>2. Others(w) /\ Follows(w, LockedLabels) /\ Follows(w, RefundLabels)
      BY <1>3, <2>2, HolderMoves
    <3>3. StatusWriter(w)
      BY <1>3, <2>2, OnlyWriters
    <3>4. CASE MarkCompleted(w)
      <4>1. pc[w] = "markCompleted" /\ Moves(w, {"logSubscription", "markFailed"})
        BY <2>c, <3>4, FulfilMoves DEF MarkCompleted, Moves
      <4>2. s \in Delivered /\ status[ord[w]] = "RECHARGING"
        BY <2>2, <3>1, <3>4
        DEF MarkCompleted, SetStatus, Writes, Delivered, TypeInv, DataOK
      <4> QED
        BY <3>1, <4>1, <4>2, LockWrite, LockedLabelsList DEF Moves, RefundLabels
    <3>5. CASE ~MarkCompleted(w)
      <4>1. pc'[w] \notin LockedLabels \cup RefundLabels
        BY <2>c, <2>2, <3>3, <3>5, CreateMoves, NotifyMoves, FulfilMoves,
           LifecycleMoves, RefundMoves, LockedLabelsList
        DEF StatusWriter, Moves, RefundLabels
      <4> QED
        BY <3>1, <3>2, <4>1, LockWrite DEF WriteAllowed, Refundable, Delivered
    <3> QED
      BY <3>4, <3>5
  <2>3. CASE Lock(w)
    <3>1. pc[w] = "lock" /\ ord[w] \in Orders
      BY <2>3, Running DEF Lock, TypeInv
    <3>2. Moves(w, {IF ord[w] \in SubOrders THEN "getGroup" ELSE "getByCode"})
      BY <2>c, <2>3, FulfilMoves
    <3>3. CASE status[ord[w]] \in Fulfillable
      BY <2>3, <3>1, <3>2, <3>3, LockTaken
      DEF Lock, SetStatus, Writes, Moves, RefundLabels
    <3>4. CASE status[ord[w]] \notin Fulfillable
      <4>1. status' = status /\ Leave(w)
        BY <2>3, <3>4 DEF Lock
      <4> QED
        BY <2>c, <4>1, LeaveMoves, LockStill, LockedLabelsList
        DEF Moves, Follows, RefundLabels
    <3> QED
      BY <3>3, <3>4
  <2>4. CASE RefundLock(w)
    <3>1. pc[w] = "refundLock" /\ ord[w] \in Orders
      BY <2>4, Running DEF RefundLock, TypeInv
    <3>2. Moves(w, {"refundLog", "gwRefund"})
      BY <2>c, <2>4, RefundMoves
    <3>3. CASE status[ord[w]] \in Refundable
      BY <2>4, <3>1, <3>2, <3>3, LockTaken, LockedLabelsList
      DEF RefundLock, SetStatus, Writes, Moves
    <3>4. CASE status[ord[w]] \notin Refundable
      <4>1. status' = status /\ Leave(w)
        BY <2>4, <3>4 DEF RefundLock
      <4> QED
        BY <2>c, <4>1, LeaveMoves, LockStill, LockedLabelsList
        DEF Moves, Follows, RefundLabels
    <3> QED
      BY <3>3, <3>4
  <2> QED
    BY <2>1, <2>2, <2>3, <2>4
<1> QED
  BY <1>1, <1>2, <1>3 DEF Next

\* The inductive invariant: who holds a lock, in which status, and that nobody
\* can pay an order whose CreateOrder still runs.
THEOREM LockInvariant ==
  ASSUME "saveDetails" \notin LostAt
  PROVE  Spec => [](TypeInv /\ CreationInv /\ PaidInv /\ CreatorInv /\ LockInv)
<1>1. Init => CreatorInv /\ LockInv
  BY LockedLabelsList
  DEF Init, CreatorInv, CreateLabels, LockInv, OneFulfilmentAtATime, OneRefundAtATime,
      RefundLabels
<1>2. TypeInv /\ CreationInv /\ CreatorInv /\ [Next]_vars => CreatorInv'
  BY CreatorNext
<1>3. TypeInv /\ PaidInv /\ CreatorInv /\ LockInv /\ [Next]_vars => LockInv'
  BY LockNext
<1> QED
  BY <1>1, <1>2, <1>3, PaidInvariant, PTL DEF Spec

\* RECHARGING is a lock: two fulfilments never work on one order together
\* (ExecuteBalanceFulfillment, ExecuteSubscriptionFulfillment).
THEOREM FulfilmentIsExclusive ==
  ASSUME "saveDetails" \notin LostAt
  PROVE  Spec => []OneFulfilmentAtATime
<1>1. LockInv => OneFulfilmentAtATime
  BY DEF LockInv
<1> QED
  BY <1>1, LockInvariant, PTL

\* REFUNDING is a lock: two refunds never work on one order together
\* (ExecuteRefund).
THEOREM RefundIsExclusive ==
  ASSUME "saveDetails" \notin LostAt
  PROVE  Spec => []OneRefundAtATime
<1>1. LockInv => OneRefundAtATime
  BY DEF LockInv
<1> QED
  BY <1>1, LockInvariant, PTL

-----------------------------------------------------------------------------
(* What no step does to a delivered order *)

LEMMA StatusSteps ==
  ASSUME TypeInv, PaidInv, CreatorInv, LockInv, [Next]_vars, NEW o \in Orders,
         status[o] \in Delivered, status'[o] # status[o]
  PROVE  status'[o] \in Delivered /\ status[o] \notin {"REFUNDED", "PARTIALLY_REFUNDED"}
<1>1. PICK w \in Workers : WorkerStep(w) \/ StatementFails(w) \/ Crash(w)
  BY DEF Next, Environment, OrderTimesOut, GraceLapses, UserPays, AdminDeletesCode,
     vars, orderRow
<1>2. PICK s \in Statuses : Writes(w, s) /\ WriteAllowed(w, s)
  BY <1>1, OnlyWriters, WritesAreAllowed
<1>3. ord[w] = o /\ status'[o] = s
  BY <1>2 DEF Writes, TypeInv, DataOK
<1> QED
  BY <1>2, <1>3 DEF WriteAllowed, Delivered, Refundable

\* A delivered order is never opened for payment or fulfilment again (FailOrder,
\* MarkFailed, SetClosed, ToPaid, ResetForRetry).
THEOREM DeliveryIsKept ==
  ASSUME "saveDetails" \notin LostAt
  PROVE  Spec => DeliveredStaysDelivered
<1>1. TypeInv /\ PaidInv /\ CreatorInv /\ LockInv /\ [Next]_vars
        => [\A o \in Orders : status[o] \in Delivered => status'[o] \in Delivered]_vars
  BY StatusSteps
<1> QED
  BY <1>1, LockInvariant, PTL DEF Spec, DeliveredStaysDelivered

\* No rollback, late restoreStatus or second refund moves an order out of
\* REFUNDED or PARTIALLY_REFUNDED (ExecuteRefund).
THEOREM RefundsAreFinal ==
  ASSUME "saveDetails" \notin LostAt
  PROVE  Spec => RefundIsFinal
<1>1. TypeInv /\ PaidInv /\ CreatorInv /\ LockInv /\ [Next]_vars
        => [\A o \in Orders : status[o] \in {"REFUNDED", "PARTIALLY_REFUNDED"} => status'[o] = status[o]]_vars
  BY StatusSteps DEF Delivered
<1> QED
  BY <1>1, LockInvariant, PTL DEF Spec, RefundIsFinal

=============================================================================
