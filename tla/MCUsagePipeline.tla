---------------------------- MODULE MCUsagePipeline ----------------------------
(* Instances of UsagePipeline for TLC. *)
EXTENDS UsagePipeline

CONSTANTS r1, r2

TwoRequests == {r1, r2}

Plain ==
  [id |-> [r \in Requests |-> r], print |-> [r \in Requests |-> r1],
   mandatory |-> [r \in Requests |-> FALSE],
   breaker |-> FALSE, quota |-> "off", overflow |-> "drop",
   balance |-> 2, limit |-> None, limits |-> {},
   upstream |-> TRUE, stop |-> FALSE, admin |-> FALSE, midnight |-> FALSE, archiving |-> FALSE,
   cached |-> FALSE, expires |-> {"balance"}, faults |-> {}, budget |-> 1]

\* The eligibility check alone, with a broken database, for a user with and
\* without money.
BreakerSetups ==
  {[Plain EXCEPT !.breaker = TRUE, !.upstream = FALSE, !.balance = b,
                 !.faults = {"db", "redis"}, !.budget = 4] : b \in {0, 2}}

\* Requests with one request id (a retry, or another payload under the same
\* id) or two, while keys are archived, replies are lost and the process stops.
BillingSetups ==
  {[Plain EXCEPT !.id = [r \in Requests |-> r1], !.print = [@ EXCEPT ![r2] = p],
                 !.archiving = TRUE, !.budget = 2, !.faults = {"db", "reply", "crash"}] : p \in {r1, r2}}
  \cup {[Plain EXCEPT !.overflow = "sample", !.stop = TRUE, !.faults = {"redis", "crash"},
                      !.mandatory = [@ EXCEPT ![r1] = TRUE]]}

\* The platform quota, written by goroutines or by the flusher; the balance is
\* cached throughout.
Quota == [Plain EXCEPT !.cached = TRUE, !.expires = {"quota"}, !.limit = 2, !.limits = {1}]

DirectSetups ==
  {[Quota EXCEPT !.quota = "direct", !.limit = l, !.admin = TRUE] : l \in {2, None}}
  \cup {[Quota EXCEPT !.quota = "direct", !.midnight = TRUE, !.faults = {"redis", "db"}]}

FlusherSetups ==
  {[Quota EXCEPT !.quota = "flusher", !.midnight = TRUE,
                 !.faults = {"redis", "db", "reply", "crash"}],
   [Quota EXCEPT !.quota = "flusher", !.admin = TRUE, !.faults = {"redis"}],
   [Quota EXCEPT !.quota = "flusher", !.stop = TRUE]}

\* The quota alone: nothing expires, no fault, no administrator.
CalmQuota == {[Quota EXCEPT !.quota = "direct", !.expires = {}]}

AllSetups == BreakerSetups \cup BillingSetups \cup DirectSetups \cup FlusherSetups
=============================================================================
