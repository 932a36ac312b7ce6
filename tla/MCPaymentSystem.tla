----------------------------- MODULE MCPaymentSystem -----------------------------
(* Instances of PaymentSystem for TLC. *)
EXTENDS PaymentSystem, TLC

CONSTANTS o1, o2, w1, w2

OneOrder == {o1}
TwoWorkers == {w1, w2}

\* Fault labels. A refund needs the rollback log to be written and read.
AnyLabel == Labels
LoggedFailures == Labels \ {"refundLog", "logRollbackFailed"}
LostReplies == Labels \ {"saveDetails", "deduct"}

\* One balance order or one subscription order is worked on in a behaviour.
BalanceOrSubscription == {o1, o2}
Subscription == {o2}
OneOrderAtWork ==
  LET known == {o \in Orders : status[o] # "NONE"}
      named == {ord[w] : w \in Workers} \ {NoOrder}
  IN  Cardinality(known \cup named) <= 1

\* The faults of a subscription order leave its extension and its log in step
\* (what happens when they do not is DocSubscriptionIdempotent): between the
\* audit check and the log a handler may die, but not fail and go on.
ExtensionInStep ==
  \A w \in Workers :
    /\ ord[w] \in SubOrders
    /\ faults' # faults
    /\ pc[w] \in {"hasAuditLog", "assign", "markCompleted", "logSubscription"}
    => pc'[w] \in {pc[w], "idle"} \/ (pc[w] = "assign" /\ extended' = extended)

WorkerSymmetry == Permutations(Workers)

=============================================================================
