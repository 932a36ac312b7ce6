-------------------------- MODULE BillingEligibility --------------------------
(***************************************************************************)
(* BillingCacheService.CheckBillingEligibility in balance mode: the        *)
(* circuit breaker, the cached balance and the platform quota.  The two    *)
(* singleflight groups only let requests share one read of the database;   *)
(* here each request reads for itself, at any moment, which includes       *)
(* reading together.  A refused client may come back: it is idle again.    *)
(***************************************************************************)
EXTENDS UsageState

-----------------------------------------------------------------------------
(* billingCircuitBreaker *)

\* Allow moves a breaker that has been open for resetTimeout to half-open.
HalfOpened(b) ==
  IF b.state = "open" /\ b.cooled
    THEN [b EXCEPT !.state = "half-open", !.remaining = HalfOpenRequests, !.cooled = FALSE]
    ELSE b

Allows(b) == b.state = "closed" \/ (b.state = "half-open" /\ b.remaining > 0)

\* Mutant: every allowed request counts as a probe.
AfterAllowAlways(b) == [b EXCEPT !.remaining = @ - 1]

AfterAllow(b) == IF b.state = "half-open" THEN [b EXCEPT !.remaining = @ - 1] ELSE b

Opened(b) == [b EXCEPT !.state = "open", !.remaining = 0, !.cooled = FALSE]

OnFailure(b) ==
  IF b.state = "open" THEN b
  ELSE IF b.state = "half-open" THEN Opened(b)
  ELSE LET c == [b EXCEPT !.failures = @ + 1]
       IN  IF c.failures >= FailureThreshold THEN Opened(c) ELSE c

OnSuccess(b) == Closed

\* resetTimeout has passed since openedAt.
BreakerCools ==
  /\ breaker.state = "open" /\ ~breaker.cooled
  /\ breaker' = [breaker EXCEPT !.cooled = TRUE]
  /\ UNCHANGED <<request, redis, billing, cache, pool, quota, env, logs>>

\* A request arrives while the server accepts requests.
Begin(r) ==
  /\ pc[r] = "idle" /\ writer = "open" /\ ~poolStopped /\ ~flusherStopped
  /\ LET b == HalfOpened(breaker)
     IN  \/ ~setup.breaker /\ Goto(r, "balance") /\ UNCHANGED breaker
         \/ setup.breaker /\ Allows(b) /\ Goto(r, "balance") /\ breaker' = AfterAllow(b)
         \/ setup.breaker /\ ~Allows(b) /\ UNCHANGED request /\ breaker' = b
  /\ UNCHANGED <<redis, billing, cache, pool, quota, env, logs>>

-----------------------------------------------------------------------------
(* The balance *)

Judged(b) == IF b > 0 THEN "balanceOk" ELSE "balanceLow"

\* GetUserBalance reads Redis; a miss and an error both go to the database.
ReadBalance(r) ==
  /\ pc[r] = "balance"
  /\ \/ balanceKey # None /\ Goto(r, Judged(balanceKey)) /\ NoFault
     \/ balanceKey = None /\ Goto(r, "loadBalance") /\ NoFault
     \/ balanceKey # None /\ Goto(r, "loadBalance") /\ Fault("redis")
  /\ UNCHANGED <<breaker, redis, billing, cache, pool, quota, logs>>

\* The write channel: a send succeeds while the buffer has room or a worker
\* is about to take a task, and finds it full when the buffer is.
CanSend == Cardinality(writes) < CacheWriteBuffer + CacheWriteWorkers
MayBeFull == Cardinality(writes) >= CacheWriteBuffer

\* getUserBalanceFromDB, and a write of the cache that is dropped when full.
LoadBalance(r) ==
  /\ pc[r] = "loadBalance"
  /\ \/ /\ Goto(r, Judged(balance)) /\ NoFault
        /\ \/ /\ CanSend
              /\ writes' = writes \cup {[kind |-> "set", req |-> r, amount |-> balance]}
           \/ MayBeFull /\ UNCHANGED writes
     \/ Goto(r, "balanceErr") /\ Fault("db") /\ UNCHANGED writes
  /\ UNCHANGED <<breaker, redis, billing, writer, deducted, pool, quota, logs>>

\* Mutant: an empty balance is refused before the breaker hears of the success.
JudgeBalanceFirst(r) ==
  /\ \/ pc[r] = "balanceErr" /\ Goto(r, "idle") /\ breaker' = OnFailure(breaker)
     \/ pc[r] = "balanceLow" /\ Goto(r, "idle") /\ UNCHANGED breaker
     \/ /\ pc[r] = "balanceOk" /\ breaker' = OnSuccess(breaker)
        /\ Goto(r, IF setup.quota = "off" THEN "forward" ELSE "quota")
  /\ UNCHANGED <<redis, billing, cache, pool, quota, env, logs>>

\* checkBalanceEligibility reports to the breaker, then judges the balance.
JudgeBalance(r) ==
  /\ \/ pc[r] = "balanceErr" /\ Goto(r, "idle") /\ breaker' = OnFailure(breaker)
     \/ pc[r] = "balanceLow" /\ Goto(r, "idle") /\ breaker' = OnSuccess(breaker)
     \/ /\ pc[r] = "balanceOk" /\ breaker' = OnSuccess(breaker)
        /\ Goto(r, IF setup.quota = "off" THEN "forward" ELSE "quota")
  /\ UNCHANGED <<redis, billing, cache, pool, quota, env, logs>>

-----------------------------------------------------------------------------
(* The platform quota, one daily window *)

WindowExpired(start) == start = None \/ start < day
UsageInWindow(e) == IF WindowExpired(e.start) THEN 0 ELSE e.usage
UsageNow(e) == IF e = None THEN 0 ELSE UsageInWindow(e)
\* The entry judged now: usage of an older window is none.
Current(e) == [e EXCEPT !.usage = UsageInWindow(e)]
Verdict(e) == IF e.limit # None /\ e.usage >= e.limit THEN "idle" ELSE "forward"

\* A hit whose window is over is written back for the new window, unless it
\* has no limit; the write is the next step, from the entry read here.
ReadQuota(r) ==
  /\ pc[r] = "quota"
  /\ \/ /\ quotaKey # None /\ NoFault
        /\ IF WindowExpired(quotaKey.start) /\ quotaKey.limit # None
             THEN GotoWith(r, "fillQuota", [quotaKey EXCEPT !.usage = 0, !.start = day])
             ELSE Goto(r, Verdict(Current(quotaKey)))
     \/ quotaKey = None /\ Goto(r, "loadQuota") /\ NoFault
     \/ Goto(r, "loadOnly") /\ Fault("redis")
  /\ UNCHANGED <<breaker, redis, billing, cache, pool, quota, logs>>

\* What is cached when the database has no row.
Sentinel == [usage |-> 0, limit |-> None, start |-> day]

\* GetByUserPlatform: usage is judged now, the window start copied.  An error
\* lets the request pass, and after a Redis error nothing is cached.
LoadQuota(r) ==
  /\ pc[r] \in {"loadQuota", "loadOnly"}
  /\ \/ Goto(r, "forward") /\ Fault("db")
     \/ /\ NoFault
        /\ LET e == IF row = None THEN Sentinel ELSE Current(row)
           IN  IF pc[r] = "loadQuota" THEN GotoWith(r, "fillQuota", e) ELSE Goto(r, Verdict(e))
  /\ UNCHANGED <<breaker, redis, billing, cache, pool, quota, logs>>

\* SetUserPlatformQuotaCache of the entry the request holds, over whatever was
\* counted since it was read, then the verdict.
FillQuota(r) ==
  /\ pc[r] = "fillQuota"
  /\ \/ quotaKey' = held[r] /\ NoFault
     \/ UNCHANGED quotaKey /\ Fault("redis")
  /\ GotoWith(r, Verdict(held[r]), None)
  /\ UNCHANGED <<breaker, balanceKey, dirty, counted, billing, cache, pool, quota, logs>>

\* The TTLs in Redis, the midnight of the daily window.
RedisExpires ==
  /\ \/ "balance" \in setup.expires /\ balanceKey # None
        /\ balanceKey' = None /\ UNCHANGED quotaKey
     \/ "quota" \in setup.expires /\ quotaKey # None
        /\ quotaKey' = None /\ UNCHANGED balanceKey
  /\ UNCHANGED <<request, breaker, dirty, counted, billing, cache, pool, quota, env, logs>>

DayPasses ==
  /\ setup.midnight /\ day < MaxDay
  /\ day' = day + 1 /\ counted' = {}
  /\ UNCHANGED <<request, breaker, balanceKey, quotaKey, dirty, billing, cache, pool,
                 quota, setup, faults, logs>>

Eligibility(r) ==
  \/ Begin(r) \/ ReadBalance(r) \/ LoadBalance(r) \/ JudgeBalance(r)
  \/ ReadQuota(r) \/ LoadQuota(r) \/ FillQuota(r)
=============================================================================
