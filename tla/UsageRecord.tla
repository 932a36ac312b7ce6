----------------------------- MODULE UsageRecord -----------------------------
(***************************************************************************)
(* After the upstream answered: the usage task is submitted to             *)
(* UsageRecordWorkerPool, runs recordUsageCore on a worker or inline,      *)
(* claims its billing key and commits the charge, updates the caches, and  *)
(* writes the usage log.  BillingCacheService's write workers and the      *)
(* parallel Stop of both services run beside it.                           *)
(***************************************************************************)
EXTENDS BillingEligibility

-----------------------------------------------------------------------------
(* UsageRecordWorkerPool.Submit *)

\* Mutant: Submit counts a task it could not queue as accepted.
SubmitAccepts(r) ==
  /\ pc[r] = "forward" /\ setup.upstream
  /\ Goto(r, "queued")
  /\ queue' = IF poolStopped \/ Cardinality(queue) >= PoolQueue THEN queue ELSE queue \cup {r}
  /\ UNCHANGED <<running, poolStopped>>
  /\ UNCHANGED <<breaker, redis, billing, cache, quota, env, logs>>

\* The handler's goroutine runs the task itself.
Inline(r) == Goto(r, "claim") /\ UNCHANGED queue

\* submitMandatoryUsageRecordTask runs what Submit dropped; others forget it.
Drop(r) ==
  \/ setup.mandatory[r] /\ Inline(r)
  \/ ~setup.mandatory[r] /\ Goto(r, "dropped") /\ UNCHANGED queue

QueueFull == Cardinality(queue) >= PoolQueue

Submit(r) ==
  /\ pc[r] = "forward" /\ setup.upstream
  /\ \/ poolStopped /\ Drop(r)
     \/ ~poolStopped /\ ~QueueFull /\ Goto(r, "queued") /\ queue' = queue \cup {r}
     \/ ~poolStopped /\ QueueFull /\ setup.overflow \in {"sync", "sample"} /\ Inline(r)
     \/ ~poolStopped /\ QueueFull /\ setup.overflow \in {"drop", "sample"} /\ Drop(r)
  /\ UNCHANGED <<running, poolStopped>>
  /\ UNCHANGED <<breaker, redis, billing, cache, quota, env, logs>>

\* The upstream call failed: there is no usage to record.
ForwardFails(r) ==
  /\ pc[r] = "forward" /\ ~setup.upstream
  /\ Goto(r, "idle")
  /\ UNCHANGED <<breaker, redis, billing, cache, pool, quota, env, logs>>

\* A pool worker starts a queued task.
WorkerTakes(r) ==
  /\ r \in queue /\ Cardinality(running) < PoolWorkers
  /\ queue' = queue \ {r} /\ running' = running \cup {r}
  /\ Goto(r, "claim")
  /\ UNCHANGED <<poolStopped, breaker, redis, billing, cache, quota, env, logs>>

\* The task returns, with or without an error, or its panic is recovered.
Return(r, l) == Goto(r, l) /\ running' = running \ {r} /\ UNCHANGED <<queue, poolStopped>>
Step(r, l) == Goto(r, l) /\ UNCHANGED pool

-----------------------------------------------------------------------------
(* usageBillingRepository.Apply: one transaction *)

\* Other requests whose open transaction inserted the same key.
Holding(r) == {q \in Requests \ {r} : Key(q) = Key(r) /\ pc[q] \in {"archive", "commit"}}

\* A statement fails or the context ends: the transaction is rolled back.
ApplyFails(r) ==
  /\ pc[r] \in ClaimLabels /\ Fault("db") /\ Return(r, "error")
  /\ UNCHANGED <<breaker, redis, billing, cache, quota, logs>>

\* INSERT ... ON CONFLICT DO NOTHING: waits for an open transaction that
\* inserted the key.
ClaimKey(r) ==
  /\ pc[r] = "claim" /\ Holding(r) = {}
  /\ Step(r, IF Key(r) \in Ids(dedup) THEN "conflict" ELSE "archive")
  /\ UNCHANGED <<breaker, redis, billing, cache, quota, env, logs>>

\* SELECT of the fingerprint in dedup or in the archive: the same one was
\* billed before (rolled back, logged), another one is a conflict.
CompareFingerprint(r, rows) ==
  IF KeyRow(r) \in rows THEN Step(r, "log") ELSE Return(r, "error")

\* Mutant: a key that exists is taken for this request, whatever its fingerprint.
ReadConflictByKey(r) ==
  /\ pc[r] = "conflict"
  /\ IF Key(r) \in Ids(dedup) THEN Step(r, "log") ELSE Return(r, "error")
  /\ UNCHANGED <<breaker, redis, billing, cache, quota, env, logs>>

ReadConflict(r) ==
  /\ pc[r] = "conflict"
  \* a row archived meanwhile is not found, which is an error too
  /\ CompareFingerprint(r, dedup)
  /\ UNCHANGED <<breaker, redis, billing, cache, quota, env, logs>>

\* Mutant: a key found in the archive is not taken for a billed one.
ReadArchiveIgnored(r) ==
  /\ pc[r] = "archive" /\ Step(r, "commit")
  /\ UNCHANGED <<breaker, redis, billing, cache, quota, env, logs>>

ReadArchive(r) ==
  /\ pc[r] = "archive"
  /\ IF Key(r) \in Ids(archive) THEN CompareFingerprint(r, archive) ELSE Step(r, "commit")
  /\ UNCHANGED <<breaker, redis, billing, cache, quota, env, logs>>

\* applyUsageBillingEffects and COMMIT; the reply to the commit may be lost.
Commit(r) ==
  /\ pc[r] = "commit"
  /\ balance' = balance - 1
  /\ dedup' = dedup \cup {KeyRow(r)}
  /\ charged' = charged \cup {r}
  /\ \/ Step(r, "finalize") /\ NoFault
     \/ Return(r, "error") /\ Fault("reply")
  /\ UNCHANGED <<archive, breaker, redis, cache, quota, logs>>

\* CleanupUsageBillingDedup moves old keys to the archive in one statement.
ArchiveKeys ==
  /\ setup.archiving
  /\ \E k \in dedup : dedup' = dedup \ {k} /\ archive' = archive \cup {k}
  /\ UNCHANGED <<balance, charged>>
  /\ UNCHANGED <<request, breaker, redis, cache, pool, quota, env, logs>>

-----------------------------------------------------------------------------
(* finalizePostUsageBilling *)

\* enqueueCacheWrite first looks at the stopped flag ...
CheckStopped(r) ==
  /\ pc[r] = "finalize"
  /\ Step(r, IF writer = "open" THEN "enqueue" ELSE "syncDeduct")
  /\ UNCHANGED <<breaker, redis, billing, cache, quota, env, logs>>

\* Mutant: a deduction that does not fit the channel is dropped.
EnqueueOrDrop(r) ==
  /\ pc[r] = "enqueue"
  /\ \/ /\ writer \in {"open", "stopped"} /\ CanSend /\ Step(r, "limit")
        /\ writes' = writes \cup {[kind |-> "deduct", req |-> r, amount |-> 1]}
     \/ writer \in {"open", "stopped"} /\ MayBeFull /\ Step(r, "limit") /\ UNCHANGED writes
     \/ writer = "closed" /\ Return(r, "panicked") /\ UNCHANGED writes
     \/ writer = "nil" /\ Step(r, "syncDeduct") /\ UNCHANGED writes
  /\ UNCHANGED <<breaker, redis, billing, writer, deducted, quota, env, logs>>

\* ... then, under the read lock, at the channel.  A send on the closed
\* channel panics; the task is recovered and does nothing more.
Enqueue(r) ==
  /\ pc[r] = "enqueue"
  /\ \/ /\ writer \in {"open", "stopped"} /\ CanSend /\ Step(r, "limit")
        /\ writes' = writes \cup {[kind |-> "deduct", req |-> r, amount |-> 1]}
     \/ writer \in {"open", "stopped"} /\ MayBeFull /\ Step(r, "syncDeduct") /\ UNCHANGED writes
     \/ writer = "closed" /\ Return(r, "panicked") /\ UNCHANGED writes
     \/ writer = "nil" /\ Step(r, "syncDeduct") /\ UNCHANGED writes
  /\ UNCHANGED <<breaker, redis, billing, writer, deducted, quota, env, logs>>

\* deductBalanceScript does nothing when the key is missing.
Deducted(key) == IF key = None THEN None ELSE key - 1

\* QueueDeductBalance's synchronous fallback.
SyncDeduct(r) ==
  /\ pc[r] = "syncDeduct"
  /\ \/ balanceKey' = Deducted(balanceKey) /\ NoFault
     \/ UNCHANGED balanceKey /\ Fault("redis")
  /\ deducted' = deducted \cup {r}
  /\ Step(r, "limit")
  /\ UNCHANGED <<breaker, quotaKey, dirty, counted, billing, writer, writes, quota, logs>>

\* HasUserPlatformQuotaLimit: only a cached entry without a limit says no.
HasLimit(r) ==
  /\ pc[r] = "limit"
  /\ \/ setup.quota = "off" /\ Step(r, "log") /\ NoFault
     \/ /\ setup.quota # "off" /\ NoFault
        /\ Step(r, IF quotaKey # None /\ quotaKey.limit = None THEN "log" ELSE "incr")
     \/ setup.quota # "off" /\ quotaKey # None /\ Step(r, "incr") /\ Fault("redis")
  /\ UNCHANGED <<breaker, redis, billing, cache, quota, logs>>

\* IncrementUserPlatformQuotaUsage: the script skips a missing key and marks
\* the key dirty for the flusher; without the flusher a goroutine writes the
\* database.
IncrementQuota(r) ==
  /\ pc[r] = "incr"
  /\ \/ /\ quotaKey # None /\ NoFault
        /\ quotaKey' = [quotaKey EXCEPT !.usage = @ + 1]
        /\ dirty' = (setup.quota = "flusher" \/ dirty)
        /\ lost' = (lost /\ setup.quota # "flusher")
        /\ counted' = counted \cup {r}
     \/ quotaKey = None /\ NoFault /\ UNCHANGED <<quotaKey, dirty, lost, counted>>
     \/ Fault("redis") /\ UNCHANGED <<quotaKey, dirty, lost, counted>>
  /\ dbPending' = IF setup.quota = "direct" THEN dbPending \cup {r} ELSE dbPending
  /\ Step(r, "log")
  /\ UNCHANGED <<breaker, balanceKey, billing, cache, row, flush, flusherStopped, admin,
                 changes, stale, logs>>

\* writeUsageLogBestEffort
WriteLog(r) ==
  /\ pc[r] = "log"
  /\ \/ logs' = logs \cup {r} /\ NoFault
     \/ UNCHANGED logs /\ Fault("db")
  /\ Return(r, "done")
  /\ UNCHANGED <<breaker, redis, billing, cache, quota>>

-----------------------------------------------------------------------------
(* Cache write workers, shutdown and crash *)

CacheWorker ==
  /\ \E t \in writes :
       /\ writes' = writes \ {t}
       /\ \/ /\ NoFault
             /\ balanceKey' = IF t.kind = "set" THEN t.amount ELSE Deducted(balanceKey)
          \/ Fault("redis") /\ UNCHANGED balanceKey
       /\ deducted' = IF t.kind = "deduct" THEN deducted \cup {t.req} ELSE deducted
  /\ UNCHANGED <<request, breaker, quotaKey, dirty, counted, billing, writer, pool, quota, logs>>

\* The HTTP server has drained: no request is being checked.  A turn of a
\* hijacked connection may still be forwarding.
Drained == \A r \in Requests : pc[r] \notin CheckLabels \cup QuotaLabels

\* BillingCacheService.Stop: the flag, close, and nil once the workers are done.
StopWriter ==
  /\ setup.stop
  /\ \/ writer = "open" /\ Drained /\ writer' = "stopped"
     \/ writer = "stopped" /\ writer' = "closed"
     \/ writer = "closed" /\ writes = {} /\ writer' = "nil"
  /\ UNCHANGED <<request, breaker, redis, billing, writes, deducted, pool, quota, env, logs>>

\* UsageRecordWorkerPool.Stop: StopAndWait takes no more tasks and waits for
\* the accepted ones, beside the other Stops.
StopPool ==
  /\ setup.stop /\ ~poolStopped /\ Drained /\ poolStopped' = TRUE
  /\ UNCHANGED <<request, breaker, redis, billing, cache, queue, running, quota, env, logs>>

\* One task's next step.
RecordUsage(r) ==
  \/ ClaimKey(r) \/ ReadConflict(r) \/ ReadArchive(r) \/ Commit(r)
  \/ CheckStopped(r) \/ Enqueue(r) \/ SyncDeduct(r)
  \/ HasLimit(r) \/ IncrementQuota(r) \/ WriteLog(r)
=============================================================================
