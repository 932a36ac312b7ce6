--------------------------- MODULE PaymentFulfillment ---------------------------
(***************************************************************************)
(* From a provider's notification to a delivered order: the webhook, the   *)
(* check against the order, the compare-and-set to PAID, the RECHARGING    *)
(* lock, the delivery (redeem code for a balance order, subscription       *)
(* extension for a subscription order), the affiliate rebate and the       *)
(* final COMPLETED or FAILED; and the administrator's RetryFulfillment.    *)
(***************************************************************************)
EXTENDS PaymentState

\* Mutant: an order that is being fulfilled may be fulfilled again.
FulfillableTwice == {"PAID", "RECHARGING", "FAILED"}

Fulfillable == {"PAID", "FAILED"}

\* A provider reports a successful payment: one that was made, or ("mismatch")
\* one whose provider, merchant or amount is not the order's. Reports come
\* late, twice and out of order, so nothing but the payment is required.
HandleNotify(w, o, h) ==
  /\ h = "webhook" => payment[o] = "paid"
  /\ h = "mismatch" => status[o] # "NONE"
  /\ h \in {"webhook", "mismatch"}
  /\ Enter(w, h, o, "getProviders", "upstream", NoPlan)
  /\ UNCHANGED <<orderRow, logs, effects, upstream>>

\* The handler finds the provider instance and verifies the signature.
GetWebhookProviders(w) ==
  /\ pc[w] = "getProviders"
  /\ Goto(w, "notify")
  /\ UNCHANGED <<orderRow, logs, effects, upstream, faults>>

\* The lookup by out_trade_no.
HandlePaymentNotification(w) ==
  /\ pc[w] = "notify"
  /\ Goto(w, "confirm")
  /\ UNCHANGED <<orderRow, logs, effects, upstream, faults>>

\* Mutant: the notification is not compared with the order.
ConfirmPaymentUnchecked(w) ==
  /\ pc[w] = "confirm"
  /\ Goto(w, "toPaid")
  /\ UNCHANGED <<orderRow, logs, effects, upstream, faults>>

\* The checks of provider key, merchant metadata and amount.
ConfirmPayment(w) ==
  /\ pc[w] = "confirm"
  /\ IF job[w] = "mismatch" THEN Leave(w) ELSE Goto(w, "toPaid")
  /\ UNCHANGED <<orderRow, logs, effects, upstream, faults>>

\* The rows toPaid's update matches.
CanBePaid(o) ==
  \/ status[o] \in {"PENDING", "CANCELLED"}
  \/ status[o] = "EXPIRED" /\ fresh[o]

ToPaid(w) ==
  LET o == ord[w] IN
  /\ pc[w] = "toPaid"
  /\ IF CanBePaid(o)
       THEN /\ SetStatus(o, "PAID")
            /\ paidAt' = [paidAt EXCEPT ![o] = TRUE]
            /\ tradeNo' = [tradeNo EXCEPT ![o] = ref[w]]
            /\ Reply(w, "getOrder")
       ELSE Goto(w, "reload") /\ UNCHANGED <<status, fresh, paidAt, tradeNo, faults>>
  /\ UNCHANGED <<due, logs, effects, upstream>>

\* Mutant: a FAILED order is reported as an error and not fulfilled again.
AlreadyProcessedNoRetry(w) ==
  LET s == status[ord[w]] IN
  /\ pc[w] = "reload"
  /\ Leave(w)
  /\ IF s \in {"FAILED", "PAID", "RECHARGING"} THEN UNCHANGED acked ELSE AckIfWebhook(w)
  /\ UNCHANGED <<orderRow, logs, effects, payment, faults>>

\* No row matched: a FAILED order is fulfilled again, a PAID or RECHARGING one
\* is an error the provider should retry on, anything else is acknowledged.
AlreadyProcessed(w) ==
  LET s == status[ord[w]] IN
  /\ pc[w] = "reload"
  /\ IF s = "FAILED" THEN Goto(w, "getOrder") ELSE Leave(w)
  /\ IF s \in {"FAILED", "PAID", "RECHARGING"} THEN UNCHANGED acked ELSE AckIfWebhook(w)
  /\ UNCHANGED <<orderRow, logs, effects, payment, faults>>

\* executeFulfillment and the checks at the head of Execute...Fulfillment.
ExecuteFulfillment(w) ==
  LET s == status[ord[w]] IN
  /\ pc[w] = "getOrder"
  /\ IF s \in Fulfillable THEN Goto(w, "lock") ELSE Leave(w)
  /\ IF s = "COMPLETED" THEN AckIfWebhook(w) ELSE UNCHANGED acked
  /\ UNCHANGED <<orderRow, logs, effects, payment, faults>>

\* The compare-and-set to RECHARGING; the loser returns nil.
Lock(w) ==
  LET o == ord[w] IN
  /\ pc[w] = "lock"
  /\ IF status[o] \in Fulfillable
       THEN /\ SetStatus(o, "RECHARGING")
            /\ Reply(w, IF o \in SubOrders THEN "getGroup" ELSE "getByCode")
            /\ UNCHANGED acked
       ELSE /\ AckIfWebhook(w)
            /\ Leave(w)
            /\ UNCHANGED <<status, fresh, faults>>
  /\ UNCHANGED <<paidAt, tradeNo, due, logs, effects, payment>>

-----------------------------------------------------------------------------
(* doBalance *)

\* Mutant: a code that exists counts as redeemed.
ResolveRedeemActionExists(o) ==
  IF code[o] = "none" THEN "createCode" ELSE "applyRebate"

\* resolveRedeemAction on the code as it is now.
ResolveRedeemAction(o) ==
  CASE code[o] = "none" -> "createCode"
    [] code[o] = "unused" -> "redeem"
    [] code[o] = "used" -> "applyRebate"

GetByCode(w) ==
  /\ pc[w] = "getByCode"
  /\ Goto(w, ResolveRedeemAction(ord[w]))
  /\ UNCHANGED <<orderRow, logs, effects, upstream, faults>>

\* redeem_codes.code is unique: a second insert of the code fails.
CreateCode(w) ==
  LET o == ord[w] IN
  /\ pc[w] = "createCode"
  /\ IF code[o] = "none"
       THEN code' = [code EXCEPT ![o] = "unused"] /\ Reply(w, "redeem")
       ELSE Goto(w, "markFailed") /\ UNCHANGED <<code, faults>>
  /\ UNCHANGED <<orderRow, audit, effects, upstream>>

\* Mutant: the update of the code is not conditional on its being unused.
RedeemUsed(w) ==
  /\ pc[w] = "redeem"
  /\ code' = [code EXCEPT ![ord[w]] = "used"]
  /\ credited' = [credited EXCEPT ![ord[w]] = @ + 1]
  /\ Reply(w, "applyRebate")
  /\ UNCHANGED <<orderRow, audit, extended, rebated, deducted, refunds, upstream>>

\* RedeemService.Redeem: one transaction marks an unused code used and adds
\* its value to the balance.
Redeem(w) ==
  LET o == ord[w] IN
  /\ pc[w] = "redeem"
  /\ IF code[o] = "unused"
       THEN /\ code' = [code EXCEPT ![o] = "used"]
            /\ credited' = [credited EXCEPT ![o] = @ + 1]
            /\ Reply(w, "applyRebate")
       ELSE Goto(w, "markFailed") /\ UNCHANGED <<code, credited, faults>>
  /\ UNCHANGED <<orderRow, audit, extended, rebated, deducted, refunds, upstream>>

\* Mutant: only a skipped rebate blocks another claim.
RebateClaimedSkipped(o) == "AFFILIATE_REBATE_SKIPPED" \in audit[o]

\* applyAffiliateRebateForOrder: one transaction claims the audit row that
\* makes the rebate unique, accrues it, and renames the row when there is
\* nothing to accrue.
RebateClaimed(o) ==
  audit[o] \cap {"AFFILIATE_REBATE_APPLIED", "AFFILIATE_REBATE_SKIPPED"} # {}

ApplyAffiliateRebate(w) ==
  LET o == ord[w] IN
  /\ pc[w] = "applyRebate"
  /\ \/ /\ RebateClaimed(o)
        /\ Goto(w, "markCompleted")
        /\ UNCHANGED <<audit, rebated, faults>>
     \/ /\ ~RebateClaimed(o)
        /\ audit' = [audit EXCEPT ![o] = @ \cup {"AFFILIATE_REBATE_APPLIED"}]
        /\ rebated' = [rebated EXCEPT ![o] = @ + 1]
        /\ Reply(w, "markCompleted")
     \/ /\ ~RebateClaimed(o)
        /\ audit' = [audit EXCEPT ![o] = @ \cup {"AFFILIATE_REBATE_SKIPPED"}]
        /\ UNCHANGED rebated
        /\ Reply(w, "markCompleted")
  /\ UNCHANGED <<orderRow, code, credited, extended, deducted, refunds, upstream>>

-----------------------------------------------------------------------------
(* doSub *)

\* The group may have been deactivated since the order was created.
GetGroup(w) ==
  /\ pc[w] = "getGroup"
  /\ \E l \in {"hasAuditLog", "markFailed"} : Goto(w, l)
  /\ UNCHANGED <<orderRow, logs, effects, upstream, faults>>

HasAuditLog(w) ==
  /\ pc[w] = "hasAuditLog"
  /\ Goto(w, IF "SUBSCRIPTION_SUCCESS" \in audit[ord[w]] THEN "markCompleted" ELSE "assign")
  /\ UNCHANGED <<orderRow, logs, effects, upstream, faults>>

\* Mutant: the answer "an existing subscription was extended" counts as an error.
AssignOrExtendRefused(w) ==
  /\ pc[w] = "assign"
  /\ extended' = [extended EXCEPT ![ord[w]] = @ + 1]
  /\ Reply(w, "markFailed")
  /\ UNCHANGED <<orderRow, logs, credited, rebated, deducted, refunds, upstream>>

AssignOrExtendSubscription(w) ==
  /\ pc[w] = "assign"
  /\ extended' = [extended EXCEPT ![ord[w]] = @ + 1]
  /\ Reply(w, "markCompleted")
  /\ UNCHANGED <<orderRow, logs, credited, rebated, deducted, refunds, upstream>>

-----------------------------------------------------------------------------
(* The end of a fulfilment *)

\* The update is guarded by RECHARGING, its row count is ignored, and the
\* audit log comes after it. Only the subscription's log is ever read back.
MarkCompleted(w) ==
  LET o == ord[w]
      next == IF o \in SubOrders THEN "logSubscription" ELSE "idle"
  IN
  /\ pc[w] = "markCompleted"
  /\ IF status[o] = "RECHARGING"
       THEN SetStatus(o, "COMPLETED")
       ELSE UNCHANGED <<status, fresh>>
  /\ Reply(w, next)
  /\ IF next = "idle" /\ pc'[w] = "idle" THEN AckIfWebhook(w) ELSE UNCHANGED acked
  /\ UNCHANGED <<paidAt, tradeNo, due, logs, effects, payment>>

LogSubscriptionSuccess(w) ==
  /\ pc[w] = "logSubscription"
  /\ audit' = [audit EXCEPT ![ord[w]] = @ \cup {"SUBSCRIPTION_SUCCESS"}]
  /\ AckIfWebhook(w)
  /\ Leave(w)
  /\ UNCHANGED <<orderRow, code, effects, payment, faults>>

\* Mutant: FAILED is written whatever the status is by now.
MarkFailedAlways(w) ==
  /\ pc[w] = "markFailed"
  /\ SetStatus(ord[w], "FAILED")
  /\ Reply(w, "idle")
  /\ UNCHANGED <<paidAt, tradeNo, due, logs, effects, upstream>>

\* Mutant: the failed fulfilment keeps the lock.
MarkFailedLocked(w) ==
  /\ pc[w] = "markFailed"
  /\ Reply(w, "idle")
  /\ UNCHANGED <<orderRow, logs, effects, upstream>>

\* Only an order still RECHARGING becomes FAILED.
MarkFailed(w) ==
  LET o == ord[w] IN
  /\ pc[w] = "markFailed"
  /\ IF status[o] = "RECHARGING"
       THEN SetStatus(o, "FAILED")
       ELSE UNCHANGED <<status, fresh>>
  /\ Reply(w, "idle")
  /\ UNCHANGED <<paidAt, tradeNo, due, logs, effects, upstream>>

-----------------------------------------------------------------------------
(* RetryFulfillment *)

\* Mutant: an order that failed before it was paid can be retried.
RetryFulfillmentUnpaid(w, o) ==
  /\ status[o] \in Fulfillable
  /\ Enter(w, "retry", o, "resetForRetry", "none", NoPlan)
  /\ UNCHANGED <<orderRow, logs, effects, upstream>>

RetryFulfillment(w, o) ==
  /\ paidAt[o]
  /\ status[o] \in Fulfillable
  /\ Enter(w, "retry", o, "resetForRetry", "none", NoPlan)
  /\ UNCHANGED <<orderRow, logs, effects, upstream>>

\* The row count of the reset is ignored.
ResetForRetry(w) ==
  LET o == ord[w] IN
  /\ pc[w] = "resetForRetry"
  /\ IF status[o] \in Fulfillable
       THEN SetStatus(o, "PAID")
       ELSE UNCHANGED <<status, fresh>>
  /\ Reply(w, "getOrder")
  /\ UNCHANGED <<paidAt, tradeNo, due, logs, effects, upstream>>

NotifyStep(w) ==
  \/ \E o \in Orders, h \in {"webhook", "mismatch"} : HandleNotify(w, o, h)
  \/ GetWebhookProviders(w)
  \/ HandlePaymentNotification(w)
  \/ ConfirmPayment(w)
  \/ ToPaid(w)
  \/ AlreadyProcessed(w)

FulfilStep(w) ==
  \/ ExecuteFulfillment(w)
  \/ Lock(w)
  \/ GetByCode(w)
  \/ CreateCode(w)
  \/ Redeem(w)
  \/ ApplyAffiliateRebate(w)
  \/ GetGroup(w)
  \/ HasAuditLog(w)
  \/ AssignOrExtendSubscription(w)
  \/ MarkCompleted(w)
  \/ LogSubscriptionSuccess(w)
  \/ MarkFailed(w)

RetryStep(w) ==
  \/ \E o \in Orders : RetryFulfillment(w, o)
  \/ ResetForRetry(w)

=============================================================================
