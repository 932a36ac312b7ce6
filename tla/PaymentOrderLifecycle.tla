-------------------------- MODULE PaymentOrderLifecycle --------------------------
(***************************************************************************)
(* Cancellation, expiry and reconciliation: the handlers that ask the      *)
(* provider whether an order was paid (checkPaid), hand a paid one to      *)
(* HandlePaymentNotification, and otherwise close it.                      *)
(***************************************************************************)
EXTENDS PaymentState

\* The statuses each handler starts from, as read by its first query.
CancelOrder(w, o) ==        \* CancelOrder and AdminCancelOrder
  /\ status[o] = "PENDING"
  /\ Enter(w, "cancel", o, "queryOrder", tradeNo[o], NoPlan)
  /\ UNCHANGED <<orderRow, logs, effects, upstream>>

ExpireTimedOutOrder(w, o) == \* one order of the ExpireTimedOutOrders loop
  /\ status[o] = "PENDING" /\ due[o]
  /\ Enter(w, "expire", o, "queryOrder", tradeNo[o], NoPlan)
  /\ UNCHANGED <<orderRow, logs, effects, upstream>>

VerifyOrder(w, o) ==        \* VerifyOrderByOutTradeNo, GetPublicOrderByResumeToken
  /\ status[o] \in {"PENDING", "EXPIRED"}
  /\ Enter(w, "verify", o, "queryOrder", tradeNo[o], NoPlan)
  /\ UNCHANGED <<orderRow, logs, effects, upstream>>

ReconcilePendingOrder(w, o) == \* one order of the ReconcilePendingWxpayOrders loop
  /\ status[o] = "PENDING" /\ ~due[o]
  /\ Enter(w, "reconcile", o, "queryOrder", tradeNo[o], NoPlan)
  /\ UNCHANGED <<orderRow, logs, effects, upstream>>

\* paymentOrderShouldPersistUpstreamTradeNo: the reply has a new trade number.
ShouldPersistUpstreamTradeNo(w) == ref[w] # "upstream" /\ ord[w] \notin SilentOrders

\* checkPaidWithOptions up to the answer of QueryOrder.
CheckPaid(w) ==
  LET paid == payment[ord[w]] = "paid" IN
  /\ pc[w] = "queryOrder"
  /\ \/ paid /\ ~ShouldPersistUpstreamTradeNo(w) /\ Goto(w, "notify")
     \/ /\ paid /\ ShouldPersistUpstreamTradeNo(w)
        /\ ref' = [ref EXCEPT ![w] = "upstream"]
        /\ pc' = [pc EXCEPT ![w] = "persistTradeNo"]
        /\ UNCHANGED <<job, ord, plan>>
     \/ ~paid /\ job[w] \in {"cancel", "expire"} /\ Goto(w, "cancelPayment")
     \/ ~paid /\ job[w] \in {"verify", "reconcile"} /\ Leave(w)
  /\ UNCHANGED <<orderRow, logs, effects, upstream, faults>>

\* The trade number is written whatever the status is by now, and moves
\* updated_at; the notification carries it even when the write fails.
PersistTradeNo(w) ==
  /\ pc[w] = "persistTradeNo"
  /\ tradeNo' = [tradeNo EXCEPT ![ord[w]] = "upstream"]
  /\ fresh' = [fresh EXCEPT ![ord[w]] = TRUE]
  /\ Reply(w, "notify")
  /\ UNCHANGED <<status, paidAt, due, logs, effects, upstream>>

\* CancelPayment, best effort: the provider may not support it, may refuse,
\* and cannot close what was paid in the meantime.
CancelPayment(w) ==
  LET o == ord[w] IN
  /\ pc[w] = "cancelPayment"
  /\ \/ /\ payment[o] \in {"created", "payable"}
        /\ payment' = [payment EXCEPT ![o] = "closed"]
     \/ UNCHANGED payment
  /\ Goto(w, "setClosed")
  /\ UNCHANGED <<orderRow, logs, effects, acked, faults>>

\* Mutant: the outcome the handler reports is written as the status.
SetClosedOutcome(w) ==
  LET o == ord[w] IN
  /\ pc[w] = "setClosed"
  /\ IF status[o] = "PENDING" THEN SetStatus(o, job[w]) ELSE UNCHANGED <<status, fresh>>
  /\ Reply(w, "idle")
  /\ UNCHANGED <<paidAt, tradeNo, due, logs, effects, upstream>>

\* The end of cancelCore: only an order still PENDING is closed.
SetClosed(w) ==
  LET o == ord[w] IN
  /\ pc[w] = "setClosed"
  /\ IF status[o] = "PENDING"
       THEN SetStatus(o, IF job[w] = "expire" THEN "EXPIRED" ELSE "CANCELLED")
       ELSE UNCHANGED <<status, fresh>>
  /\ Reply(w, "idle")
  /\ UNCHANGED <<paidAt, tradeNo, due, logs, effects, upstream>>

LifecycleStep(w) ==
  \/ \E o \in Orders :
       \/ CancelOrder(w, o)
       \/ ExpireTimedOutOrder(w, o)
       \/ VerifyOrder(w, o)
       \/ ReconcilePendingOrder(w, o)
  \/ CheckPaid(w)
  \/ PersistTradeNo(w)
  \/ CancelPayment(w)
  \/ SetClosed(w)

-----------------------------------------------------------------------------
(* Time, as the clauses of the queries see it. *)

\* expires_at passes.
OrderTimesOut(o) ==
  /\ status[o] = "PENDING" /\ ~due[o]
  /\ due' = [due EXCEPT ![o] = TRUE]
  /\ UNCHANGED <<status, paidAt, tradeNo, fresh, logs, effects, upstream, pc, frame, faults>>

\* An expired row was last updated more than paymentGraceMinutes ago.
GraceLapses(o) ==
  /\ status[o] = "EXPIRED" /\ fresh[o]
  /\ fresh' = [fresh EXCEPT ![o] = FALSE]
  /\ UNCHANGED <<status, paidAt, tradeNo, due, logs, effects, upstream, pc, frame, faults>>

\* The user pays; a payment that was closed upstream cannot be made.
UserPays(o) ==
  /\ payment[o] = "payable"
  /\ payment' = [payment EXCEPT ![o] = "paid"]
  /\ UNCHANGED <<orderRow, logs, effects, acked, pc, frame, faults>>

=============================================================================
