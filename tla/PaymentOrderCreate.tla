--------------------------- MODULE PaymentOrderCreate ---------------------------
(***************************************************************************)
(* CreateOrder: the pending-order limit and the insert of the row in one   *)
(* transaction, then the call to the provider, then the payment details,   *)
(* and the unconditional FAILED when any of the last two goes wrong.       *)
(* The checks of amount, plan, user and provider selection that come first *)
(* change nothing: a request they refuse is one that does not start.       *)
(***************************************************************************)
EXTENDS PaymentState

\* CreateOrder passed its validation; o is the id the insert will get.
CreateOrder(w, o) ==
  /\ status[o] = "NONE"
  /\ \A v \in Workers : ord[v] # o
  /\ Enter(w, "create", o, "checkPendingLimit", "none", NoPlan)
  /\ UNCHANGED <<orderRow, logs, effects, upstream>>

\* The user's pending orders, counted inside the transaction but under no lock.
PendingOrders == {o \in Orders : status[o] = "PENDING"}

CheckPendingLimit(w) ==
  /\ pc[w] = "checkPendingLimit"
  /\ IF Cardinality(PendingOrders) >= MaxPending THEN Leave(w) ELSE Goto(w, "insertOrder")
  /\ UNCHANGED <<orderRow, logs, effects, upstream, faults>>

\* INSERT, SetRechargeCode and Commit of createOrderInTx.
CreateOrderInTx(w) ==
  /\ pc[w] = "insertOrder"
  /\ SetStatus(ord[w], "PENDING")
  /\ Reply(w, "createPayment")
  /\ UNCHANGED <<paidAt, tradeNo, due, logs, effects, upstream>>

\* prov.CreatePayment: the provider accepts or refuses.
CreatePayment(w) ==
  /\ pc[w] = "createPayment"
  /\ \/ /\ payment' = [payment EXCEPT ![ord[w]] = "created"]
        /\ Reply(w, "saveDetails")
     \/ Goto(w, "failOrder") /\ UNCHANGED <<payment, faults>>
  /\ UNCHANGED <<orderRow, logs, effects, acked>>

\* The row gets the trade number, if the provider gave one, and the payment
\* link, which the user can open from now on.
SaveDetails(w) ==
  /\ pc[w] = "saveDetails"
  /\ \E t \in TradeNos :
       tradeNo' = [tradeNo EXCEPT ![ord[w]] = IF t = "none" THEN @ ELSE t]
  /\ fresh' = [fresh EXCEPT ![ord[w]] = TRUE]
  /\ payment' = [payment EXCEPT ![ord[w]] = IF @ = "created" THEN "payable" ELSE @]
  /\ Reply(w, "idle")
  /\ UNCHANGED <<status, paidAt, due, logs, effects, acked>>

\* UpdateOneID(order.ID).SetStatus(FAILED), whatever the status is by now.
FailOrder(w) ==
  /\ pc[w] = "failOrder"
  /\ SetStatus(ord[w], "FAILED")
  /\ Reply(w, "idle")
  /\ UNCHANGED <<paidAt, tradeNo, due, logs, effects, upstream>>

CreateStep(w) ==
  \/ \E o \in Orders : CreateOrder(w, o)
  \/ CheckPendingLimit(w)
  \/ CreateOrderInTx(w)
  \/ CreatePayment(w)
  \/ SaveDetails(w)
  \/ FailOrder(w)

=============================================================================
