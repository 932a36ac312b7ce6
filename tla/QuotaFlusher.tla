----------------------------- MODULE QuotaFlusher -----------------------------
(***************************************************************************)
(* How quota usage reaches the database: the goroutine of a request        *)
(* (flusher disabled) or UserPlatformQuotaUsageFlusher, whose timer flush  *)
(* and Stop's flush may overlap; and the administrator's quota endpoints,  *)
(* which write the row and then delete the Redis entry.  One user and one  *)
(* platform, so a batch is at most one key and a flush is one batch.       *)
(***************************************************************************)
EXTENDS UsageRecord

\* maybeReset: usage of another window is dropped.
MaybeReset(rec) == IF rec.start = day THEN rec.usage + 1 ELSE 1

\* IncrementUsageWithReset; a missing row is created without a limit.
PersistUsage(r) ==
  /\ r \in dbPending
  /\ dbPending' = dbPending \ {r}
  /\ \/ /\ NoFault
        /\ row' = IF row = None THEN [usage |-> 1, limit |-> None, start |-> day]
                  ELSE [row EXCEPT !.usage = MaybeReset(row), !.start = day]
     \/ Fault("db") /\ UNCHANGED row
  /\ UNCHANGED <<request, breaker, redis, billing, cache, pool, flush, flusherStopped,
                 admin, changes, lost, stale, logs>>

-----------------------------------------------------------------------------
(* flushOneBatch *)

SetFlush(f, a, e) == flush' = [flush EXCEPT ![f] = [at |-> a, snap |-> e]]
\* Stop's flush runs once.
Ended(f) == IF f = "stop" THEN "done" ELSE "idle"

\* PopDirtyUserPlatformQuotaKeys; the keys of a lost reply are gone.
FlushPop(f) ==
  /\ setup.quota = "flusher"
  /\ flush[f].at = "idle" /\ (flusherStopped <=> f = "stop")
  /\ \/ dirty /\ dirty' = FALSE /\ SetFlush(f, "popped", None) /\ UNCHANGED lost /\ NoFault
     \/ ~dirty /\ f = "stop" /\ SetFlush(f, "done", None) /\ UNCHANGED <<dirty, lost>> /\ NoFault
     \/ dirty /\ dirty' = FALSE /\ lost' = TRUE /\ SetFlush(f, Ended(f), None) /\ Fault("reply")
  /\ UNCHANGED <<request, breaker, balanceKey, quotaKey, counted, billing, cache, pool,
                 row, dbPending, flusherStopped, admin, changes, stale, logs>>

\* Mutant: keys whose write failed are not put back.
ReaddForgets == UNCHANGED <<dirty, lost>>

\* readdOrCountLost
Readd ==
  \/ dirty' = TRUE /\ UNCHANGED lost
  \/ lost' = TRUE /\ UNCHANGED dirty

\* BatchGetUserPlatformQuotaCache; a missing entry or one without a window
\* start is skipped.
FlushRead(f) ==
  /\ flush[f].at = "popped"
  /\ \/ /\ NoFault /\ UNCHANGED <<dirty, lost>>
        /\ IF quotaKey = None \/ (quotaKey # None /\ quotaKey.start = None)
             THEN SetFlush(f, Ended(f), None)
             ELSE SetFlush(f, "read", quotaKey)
     \/ Fault("redis") /\ Readd /\ SetFlush(f, Ended(f), None)
  /\ UNCHANGED <<request, breaker, balanceKey, quotaKey, counted, billing, cache, pool,
                 row, dbPending, flusherStopped, admin, changes, stale, logs>>

\* Mutant: the snapshot is added to the row instead of replacing it.
SnapshotAdded(rec, snap) ==
  IF rec = None THEN [snap EXCEPT !.limit = None]
  ELSE [rec EXCEPT !.usage = @ + snap.usage, !.start = snap.start]

\* BatchSnapshotUsage overwrites usage and window start, never the limit.
Snapshot(rec, snap) ==
  IF rec = None THEN [snap EXCEPT !.limit = None]
  ELSE [rec EXCEPT !.usage = snap.usage, !.start = snap.start]

FlushWrite(f) ==
  /\ flush[f].at = "read"
  /\ \/ /\ row' = Snapshot(row, flush[f].snap) /\ UNCHANGED <<dirty, lost>> /\ NoFault
        /\ stale' = (stale \/ UsageNow(flush[f].snap) < UsageNow(row))
     \/ UNCHANGED <<row, stale>> /\ Fault("db") /\ Readd
  /\ SetFlush(f, Ended(f), None)
  /\ UNCHANGED <<request, breaker, balanceKey, quotaKey, counted, billing, cache, pool,
                 dbPending, flusherStopped, admin, changes, logs>>

Flush(f) == FlushPop(f) \/ FlushRead(f) \/ FlushWrite(f)

\* UserPlatformQuotaUsageFlusher.Stop: no new tick, then one more flush.
StopFlusher ==
  /\ setup.stop /\ setup.quota = "flusher" /\ ~flusherStopped /\ Drained
  /\ flusherStopped' = TRUE
  /\ UNCHANGED <<request, breaker, redis, billing, cache, pool, row, dbPending, flush,
                 admin, changes, lost, stale, env, logs>>

-----------------------------------------------------------------------------
(* The administrator *)

\* UpsertForUser (a new limit, or the platform removed) or ResetExpiredWindow.
AdminWrites ==
  /\ admin = "idle" /\ changes < MaxAdmin /\ setup.admin /\ setup.quota # "off"
  /\ changes' = changes + 1 /\ admin' = "invalidate"
  /\ \/ \E l \in setup.limits :
          row' = IF row = None THEN [usage |-> 0, limit |-> l, start |-> None]
                 ELSE [row EXCEPT !.limit = l]
     \/ row # None /\ row' = None
     \/ row # None /\ row' = [row EXCEPT !.usage = 0, !.start = day]
  /\ UNCHANGED <<request, breaker, redis, billing, cache, pool, dbPending, flush,
                 flusherStopped, lost, stale, env, logs>>

\* DeleteUserPlatformQuotaCache; an error is only logged.
AdminInvalidates ==
  /\ admin = "invalidate" /\ admin' = "idle"
  /\ \/ quotaKey' = None /\ NoFault
     \/ UNCHANGED quotaKey /\ Fault("redis")
  /\ UNCHANGED <<request, breaker, balanceKey, dirty, counted, billing, cache, pool, row,
                 dbPending, flush, flusherStopped, changes, lost, stale, logs>>
=============================================================================
