---------------------------- MODULE UsagePipeline ----------------------------
(***************************************************************************)
(* The usage pipeline of one process: requests, pool and cache workers,    *)
(* the flusher, the administrator, cleanup, shutdown and crash.            *)
(***************************************************************************)
EXTENDS QuotaFlusher

\* The process dies and starts again: memory is lost, Redis and the database
\* stay.  Keys a flusher had popped are out of the dirty set.
Crash ==
  /\ Fault("crash")
  /\ pc' = [r \in Requests |-> IF pc[r] = "idle" THEN "idle" ELSE "dead"]
  /\ held' = [r \in Requests |-> None]
  /\ breaker' = Closed
  /\ writer' = "open" /\ writes' = {}
  /\ queue' = {} /\ running' = {} /\ poolStopped' = FALSE
  /\ dbPending' = {} /\ flush' = [f \in Flushers |-> IdleFlush] /\ flusherStopped' = FALSE
  /\ admin' = "idle"
  /\ lost' = (lost \/ \E f \in Flushers : flush[f].at \in {"popped", "read"})
  /\ UNCHANGED <<redis, billing, row, changes, deducted, stale, logs>>

Request(r) == Eligibility(r) \/ Submit(r) \/ ForwardFails(r) \/ RecordUsage(r)

Next ==
  \/ \E r \in Requests : Request(r) \/ ApplyFails(r) \/ WorkerTakes(r) \/ PersistUsage(r)
  \/ CacheWorker \/ ArchiveKeys \/ StopWriter \/ StopPool \/ StopFlusher
  \/ \E f \in Flushers : Flush(f)
  \/ AdminWrites \/ AdminInvalidates
  \/ BreakerCools \/ RedisExpires \/ DayPasses \/ Crash

\* Goroutines run; clients, administrators, clocks and faults need not act.
Fairness ==
  \A r \in Requests : WF_vars((pc[r] # "idle" /\ Request(r)) \/ WorkerTakes(r))

Spec == Init /\ [][Next]_vars /\ Fairness

-----------------------------------------------------------------------------
(* Properties *)

\* "Must be applied at most once" (UsageBillingCommand): whatever retries,
\* rolled back claims and archiving of keys come between, no two requests
\* with one request id are charged.
BilledAtMostOnce ==
  \A r, q \in charged : Key(r) = Key(q) => r = q

\* A usage log stands for a charge: recordUsageCore writes it when its own
\* transaction committed or the same command, with the same fingerprint, was
\* billed before; a conflicting one is never logged as paid.
LoggedMeansBilled ==
  \A r \in logs : \E q \in charged : KeyRow(q) = KeyRow(r)

\* A half-open breaker that has handed out all its probes has one in flight:
\* every path of an allowed request reports to the breaker, so it cannot stay
\* half-open and refuse everyone.
ProbeInFlight ==
  breaker.state = "half-open" /\ breaker.remaining < HalfOpenRequests
    => \E r \in Requests : pc[r] \in CheckLabels

\* QueueDeductBalance never forgets a deduction: a task past it has its
\* deduction in the channel or sent to Redis, also while both services stop.
DeductionNeverDropped ==
  \A r \in charged : pc[r] \in TailLabels \cup {"done"}
    => r \in deducted \/ \E t \in writes : t.kind = "deduct" /\ t.req = r

\* Quota usage is never counted twice on its way from Redis through snapshots,
\* goroutines and reloads: neither Redis nor the row ever shows more usage
\* than there are charged requests.
QuotaNeverOvercounts ==
  /\ quotaKey # None => quotaKey.usage <= Cardinality(charged)
  /\ row # None => row.usage <= Cardinality(charged)

\* The dirty set is a complete to-do list of the flusher: usage that Redis
\* shows and the row does not is marked dirty or in a flusher's hands, unless
\* a fault took the mark, an administrator changed the row, or a flush wrote an
\* older usage over a newer one: the last tick after Stop's flush, or any flush
\* after a request filled the cache with what it read before others counted.
UnflushedIsDirty ==
  setup.quota = "flusher" /\ quotaKey # None /\ changes = 0 /\ ~stale /\ ~lost
    => \/ UsageNow(quotaKey) <= UsageNow(row)
       \/ dirty \/ \E f \in Flushers : flush[f].at \in {"popped", "read"}

\* Every task the pool accepted is executed to its end, also when the pool is
\* stopped meanwhile; only a crash loses it.
AcceptedTaskEnds ==
  \A r \in Requests : pc[r] = "queued" ~> pc[r] \in {"done", "error", "panicked", "dead"}

\* "The synchronous write ensures that the next preflight sees the latest
\* usage" (IncrementUserPlatformQuotaUsage): what a check of the cached entry
\* would compare with the limit includes every increment Redis made today.
NextPreflightSeesUsage ==
  quotaKey # None /\ quotaKey.limit # None
    => UsageInWindow(quotaKey) >= Cardinality(counted)
=============================================================================
