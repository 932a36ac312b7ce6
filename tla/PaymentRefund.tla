------------------------------ MODULE PaymentRefund ------------------------------
(***************************************************************************)
(* The user's refund request and the administrator's refund: PrepareRefund *)
(* reads the order and makes a plan, ExecuteRefund takes the REFUNDING     *)
(* lock, takes back what was delivered, calls the gateway, and rolls the   *)
(* deduction back when the gateway fails.                                  *)
(***************************************************************************)
EXTENDS PaymentState

\* Mutants: an order that is being refunded, or that was refunded in part, may
\* be refunded again.
RefundableTwice == {"COMPLETED", "REFUND_REQUESTED", "REFUND_FAILED", "REFUNDING"}
RefundablePartly == {"COMPLETED", "REFUND_REQUESTED", "REFUND_FAILED", "PARTIALLY_REFUNDED"}

Refundable == {"COMPLETED", "REFUND_REQUESTED", "REFUND_FAILED"}

\* RequestRefund after validateRefundRequest: a balance order, COMPLETED.
RequestRefund(w, o) ==
  /\ status[o] = "COMPLETED" /\ o \notin SubOrders
  /\ Enter(w, "request", o, "requestRefund", "none", NoPlan)
  /\ UNCHANGED <<orderRow, logs, effects, upstream>>

SetRefundRequested(w) ==
  LET o == ord[w] IN
  /\ pc[w] = "requestRefund"
  /\ IF status[o] = "COMPLETED"
       THEN SetStatus(o, "REFUND_REQUESTED")
       ELSE UNCHANGED <<status, fresh>>
  /\ Reply(w, "idle")
  /\ UNCHANGED <<paidAt, tradeNo, due, logs, effects, upstream>>

\* PrepareRefund: the plan holds the order as it was read here, whether the
\* refund is partial, and whether something is to be taken back (the
\* administrator's choice, and nothing when the balance is empty or no
\* active subscription is found).
PrepareRefund(w, o) ==
  /\ status[o] \in Refundable
  /\ \E partial \in BOOLEAN, take \in {"nothing", "deduct"} :
       Enter(w, "refund", o, "refundLock", tradeNo[o],
             [was |-> status[o], partial |-> partial, take |-> take])
  /\ UNCHANGED <<orderRow, logs, effects, upstream>>

\* ExecuteRefund's compare-and-set to REFUNDING.
RefundLock(w) ==
  LET o == ord[w] IN
  /\ pc[w] = "refundLock"
  /\ IF status[o] \in Refundable
       THEN /\ SetStatus(o, "REFUNDING")
            /\ Reply(w, IF plan[w].take = "deduct" THEN "refundLog" ELSE "gwRefund")
       ELSE Leave(w) /\ UNCHANGED <<status, fresh, faults>>
  /\ UNCHANGED <<paidAt, tradeNo, due, logs, effects, upstream>>

\* Mutant: the log of the earlier attempt is not consulted.
CheckRollbackLogIgnored(w) ==
  /\ pc[w] = "refundLog"
  /\ Goto(w, "deduct")
  /\ UNCHANGED <<orderRow, logs, effects, upstream, faults>>

\* A deduction that an earlier attempt took and could not give back is not
\* taken again.
CheckRollbackLog(w) ==
  /\ pc[w] = "refundLog"
  /\ IF "REFUND_ROLLBACK_FAILED" \in audit[ord[w]]
       THEN /\ plan' = [plan EXCEPT ![w].take = "nothing"]
            /\ pc' = [pc EXCEPT ![w] = "gwRefund"]
            /\ UNCHANGED <<job, ord, ref>>
       ELSE Goto(w, "deduct")
  /\ UNCHANGED <<orderRow, logs, effects, upstream, faults>>

\* DeductBalance, or ExtendSubscription by minus the days; a subscription the
\* deduction would expire is revoked, that is deleted, and one that is already
\* expired cannot be shortened.
Deduct(w) ==
  LET o == ord[w] IN
  /\ pc[w] = "deduct"
  /\ \/ /\ deducted' = [deducted EXCEPT ![o] = @ + 1]
        /\ Reply(w, "gwRefund")
     \/ /\ o \in SubOrders
        /\ deducted' = [deducted EXCEPT ![o] = @ + 1]
        /\ plan' = [plan EXCEPT ![w].take = "revoked"]
        /\ pc' = [pc EXCEPT ![w] = "gwRefund"]
        /\ UNCHANGED <<job, ord, ref, faults>>
     \/ /\ o \in SubOrders
        /\ Goto(w, "restoreStatus")
        /\ UNCHANGED <<deducted, faults>>
  /\ UNCHANGED <<orderRow, logs, credited, extended, rebated, refunds, upstream>>

\* Mutant: the gateway's refusal is taken for success.
GwRefundUnchecked(w) ==
  /\ pc[w] = "gwRefund"
  /\ refunds' \in {refunds, [refunds EXCEPT ![ord[w]] = @ + 1]}
  /\ Reply(w, "markRefundOk")
  /\ UNCHANGED <<orderRow, logs, credited, extended, rebated, deducted, upstream>>

\* gwRefund: an order without a trade number needs no gateway; otherwise the
\* provider refunds or refuses.
GwRefund(w) ==
  /\ pc[w] = "gwRefund"
  /\ \/ /\ ref[w] = "none"
        /\ Goto(w, "markRefundOk")
        /\ UNCHANGED <<refunds, faults>>
     \/ /\ ref[w] # "none"
        /\ refunds' = [refunds EXCEPT ![ord[w]] = @ + 1]
        /\ Reply(w, "markRefundOk")
     \/ /\ ref[w] # "none"
        /\ Goto(w, "rollback")
        /\ UNCHANGED <<refunds, faults>>
  /\ UNCHANGED <<orderRow, logs, credited, extended, rebated, deducted, upstream>>

\* Mutant: nothing is given back.
RollbackRefundForgotten(w) ==
  /\ pc[w] = "rollback"
  /\ Goto(w, "restoreStatus")
  /\ UNCHANGED <<orderRow, logs, effects, upstream, faults>>

\* RollbackRefund: what was taken is given back, except that a revoked
\* subscription is gone and cannot be extended.
RollbackRefund(w) ==
  /\ pc[w] = "rollback"
  /\ \/ /\ plan[w].take = "deduct"
        /\ deducted' = [deducted EXCEPT ![ord[w]] = @ - 1]
        /\ Reply(w, "restoreStatus")
     \/ /\ plan[w].take = "nothing"
        /\ Goto(w, "restoreStatus")
        /\ UNCHANGED <<deducted, faults>>
     \/ /\ plan[w].take = "revoked"
        /\ Goto(w, "logRollbackFailed")
        /\ UNCHANGED <<deducted, faults>>
  /\ UNCHANGED <<orderRow, logs, credited, extended, rebated, refunds, upstream>>

\* writeAuditLog REFUND_ROLLBACK_FAILED: its error is only printed.
LogRollbackFailed(w) ==
  /\ pc[w] = "logRollbackFailed"
  /\ audit' = [audit EXCEPT ![ord[w]] = @ \cup {"REFUND_ROLLBACK_FAILED"}]
  /\ Goto(w, "refundFailed")
  /\ UNCHANGED <<orderRow, code, effects, upstream, faults>>

\* The three ends of ExecuteRefund all write the status unconditionally.
RefundFailed(w) ==
  /\ pc[w] = "refundFailed"
  /\ SetStatus(ord[w], "REFUND_FAILED")
  /\ Reply(w, "idle")
  /\ UNCHANGED <<paidAt, tradeNo, due, logs, effects, upstream>>

RestoreStatus(w) ==
  /\ pc[w] = "restoreStatus"
  /\ SetStatus(ord[w], IF plan[w].was = "REFUND_REQUESTED" THEN "REFUND_REQUESTED" ELSE "COMPLETED")
  /\ Reply(w, "idle")
  /\ UNCHANGED <<paidAt, tradeNo, due, logs, effects, upstream>>

MarkRefundOk(w) ==
  /\ pc[w] = "markRefundOk"
  /\ SetStatus(ord[w], IF plan[w].partial THEN "PARTIALLY_REFUNDED" ELSE "REFUNDED")
  /\ Reply(w, "idle")
  /\ UNCHANGED <<paidAt, tradeNo, due, logs, effects, upstream>>

RefundStep(w) ==
  \/ \E o \in Orders : RequestRefund(w, o) \/ PrepareRefund(w, o)
  \/ SetRefundRequested(w)
  \/ RefundLock(w)
  \/ CheckRollbackLog(w)
  \/ Deduct(w)
  \/ GwRefund(w)
  \/ RollbackRefund(w)
  \/ LogRollbackFailed(w)
  \/ RefundFailed(w)
  \/ RestoreStatus(w)
  \/ MarkRefundOk(w)

=============================================================================
