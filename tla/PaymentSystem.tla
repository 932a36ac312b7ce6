------------------------------ MODULE PaymentSystem ------------------------------
(***************************************************************************)
(* The payment service: every handler of the four parts, running on any    *)
(* number of workers against the same tables, the provider and the clock,  *)
(* together with the administrator's removal of redeem codes.              *)
(***************************************************************************)
EXTENDS PaymentOrderCreate, PaymentFulfillment, PaymentOrderLifecycle, PaymentRefund

\* DeleteRedeemCode of the admin service deletes a code whatever its status.
AdminDeletesCode(o) ==
  /\ "delete" \in Handlers
  /\ code[o] # "none"
  /\ code' = [code EXCEPT ![o] = "none"]
  /\ UNCHANGED <<orderRow, audit, effects, upstream, pc, frame, faults>>

Environment ==
  \E o \in Orders :
    OrderTimesOut(o) \/ GraceLapses(o) \/ UserPays(o) \/ AdminDeletesCode(o)

WorkerStep(w) ==
  \/ CreateStep(w)
  \/ NotifyStep(w)
  \/ FulfilStep(w)
  \/ RetryStep(w)
  \/ LifecycleStep(w)
  \/ RefundStep(w)

Next ==
  \/ \E w \in Workers : WorkerStep(w) \/ StatementFails(w) \/ Crash(w)
  \/ Environment

Spec == Init /\ [][Next]_vars

-----------------------------------------------------------------------------
(* Safety *)

\* The statuses an order reaches only after it was delivered.
Delivered ==
  {"COMPLETED", "REFUND_REQUESTED", "REFUNDING", "PARTIALLY_REFUNDED", "REFUNDED",
   "REFUND_FAILED"}

\* However webhooks, reconciliation and retries interleave, fail and are
\* repeated, the balance gets an order's amount at most once: the unique
\* redeem code and its unused -> used update are the only guard that holds
\* when two fulfilments of one order run together (doBalance).
CreditedAtMostOnce == \A o \in Orders : credited[o] <= 1

\* The inviter's rebate of an order is paid at most once and only for an order
\* whose amount was credited (tryClaimAffiliateRebateAudit).
RebatedAtMostOnce ==
  \A o \in Orders : rebated[o] <= 1 /\ (rebated[o] = 1 => credited[o] >= 1)

\* Nothing is delivered, and no order counts as paid, unless the user paid:
\* forged or mismatching notifications, admin retries of an order that failed
\* before payment, and cancelled or expired orders included (confirmPayment,
\* RetryFulfillment).
DeliveredOnlyIfPaid ==
  \A o \in Orders :
    (credited[o] > 0 \/ extended[o] > 0 \/ paidAt[o]
       \/ status[o] \in Delivered \cup {"PAID", "RECHARGING"})
      => payment[o] = "paid"

\* An order that says COMPLETED, or that entered the refund flow, was delivered:
\* markCompleted and the unconditional status writes of ExecuteRefund never
\* publish an order that was not credited or extended.
CompletedMeansDelivered ==
  \A o \in Orders :
    status[o] \in Delivered =>
      IF o \in SubOrders THEN extended[o] >= 1 ELSE credited[o] >= 1

\* Two ExecuteRefund never work on the same order at the same time: the
\* REFUNDING status is their lock.
OneRefundAtATime ==
  \A v, w \in Workers :
    v # w /\ ord[v] = ord[w] => ~(pc[v] \in RefundLabels /\ pc[w] \in RefundLabels)

\* Two fulfilments never work on the same order at the same time: the
\* RECHARGING status is their lock (ExecuteBalanceFulfillment).
LockedLabels == FulfilLabels \ {"getOrder", "lock", "logSubscription"}
OneFulfilmentAtATime ==
  \A v, w \in Workers :
    v # w /\ ord[v] = ord[w] => ~(pc[v] \in LockedLabels /\ pc[w] \in LockedLabels)

\* The order is being refunded by some handler.
Refunding(o) == \E w \in Workers : ord[w] = o /\ pc[w] \in RefundLabels

\* A refund that failed and was undone leaves the user with everything that
\* was taken: outside a running refund, an order that is back in COMPLETED or
\* REFUND_REQUESTED has no deduction left, unless the log says that the
\* rollback failed (handleGwFail, RollbackRefund, restoreStatus).
FailedRefundIsUndone ==
  \A o \in Orders :
    /\ ~Refunding(o)
    /\ status[o] \in {"COMPLETED", "REFUND_REQUESTED"}
    /\ "REFUND_ROLLBACK_FAILED" \notin audit[o]
    => deducted[o] = 0

\* However often a refund is retried, what was delivered is taken back at most
\* once (ExecuteRefund skips the deduction when the rollback had failed).
DeductedAtMostOnce == \A o \in Orders : deducted[o] \in {0, 1}

\* An order is called refunded only when the gateway refunded it: no path of
\* ExecuteRefund, however its plan aged, skips the gateway and still ends in
\* REFUNDED (gwRefund, markRefundOk).
RefundedMeansGatewayRefunded ==
  \A o \in Orders :
    status[o] \in {"REFUNDED", "PARTIALLY_REFUNDED"} => refunds[o] >= 1

\* A subscription order extends the subscription at most once (doSub). It holds
\* as long as markCompleted does not fail after the extension.
ExtendedAtMostOnce == \A o \in Orders : extended[o] <= 1

-----------------------------------------------------------------------------
(* Action properties *)

\* A delivered order is never opened for payment or fulfilment again, whatever
\* late webhook, cancellation, failure or retry still runs.
DeliveredStaysDelivered ==
  [][\A o \in Orders : status[o] \in Delivered => status'[o] \in Delivered]_vars

\* A refund is final: no rollback, late restoreStatus or second refund moves an
\* order out of REFUNDED or PARTIALLY_REFUNDED.
RefundIsFinal ==
  [][\A o \in Orders :
       status[o] \in {"REFUNDED", "PARTIALLY_REFUNDED"} => status'[o] = status[o]]_vars

-----------------------------------------------------------------------------
(* Refinement: for balance orders the service is an exactly-once ledger. *)

BalanceOrders == Orders \ SubOrders

Ledger == INSTANCE OrderLedger WITH
  Orders <- BalanceOrders,
  paid <- {o \in BalanceOrders : payment[o] = "paid"},
  credit <- [o \in BalanceOrders |-> credited[o]]

LedgerSpec == Ledger!Spec

-----------------------------------------------------------------------------
(* Liveness *)

\* A handler that runs is scheduled, and a provider repeats a webhook until it
\* is answered with success; each delivery gets a goroutine of its own, so it
\* is not starved by other requests.
Fairness ==
  /\ \A w \in Workers : WF_vars(pc[w] # "idle" /\ WorkerStep(w))
  /\ \A o \in Orders :
       SF_vars(~acked[o] /\ \E w \in Workers : HandleNotify(w, o, "webhook"))

LiveSpec == Spec /\ Fairness

\* Every payment is settled: the order is delivered, or it is left for an
\* administrator in one of the two ways the code foresees, EXPIRED beyond the
\* grace period or FAILED after a webhook for it was acknowledged.
PaidOrderIsSettled ==
  \A o \in Orders :
    payment[o] = "paid" ~>
      \/ status[o] \in Delivered
      \/ status[o] = "EXPIRED"
      \/ status[o] = "FAILED" /\ acked[o]

\* The two locks are given back: an order does not stay RECHARGING or REFUNDING
\* (markCompleted, markFailed and the ends of ExecuteRefund).
LocksAreReleased ==
  \A o \in Orders :
    /\ status[o] = "RECHARGING" ~> status[o] # "RECHARGING"
    /\ status[o] = "REFUNDING" ~> status[o] # "REFUNDING"

\* What PAYMENT.md promises of an order paid in time whose callback is late.
PaidInTimeIsReconciled ==
  \A o \in Orders :
    payment[o] = "paid" /\ status[o] = "PENDING" ~> status[o] \in Delivered

=============================================================================
