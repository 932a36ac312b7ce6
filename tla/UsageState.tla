------------------------------ MODULE UsageState ------------------------------
(***************************************************************************)
(* State shared by the usage modules: gateway requests of one user on one  *)
(* quota platform, from the eligibility check before the upstream call to  *)
(* the usage record after it.  Every request costs 1.  The database holds  *)
(* the balance, the billing keys, the quota row and the usage logs; Redis  *)
(* holds the balance, the quota entry and the dirty mark; the rest is      *)
(* memory of the one process and dies with it.                             *)
(***************************************************************************)
EXTENDS Integers, FiniteSets

CONSTANTS
  Requests,
  Setups,            \* configurations and request identities to start from
  None,              \* a missing key, row, limit or window start
  FailureThreshold,  \* circuit_breaker.failure_threshold
  HalfOpenRequests,  \* circuit_breaker.half_open_requests
  CacheWriteBuffer,  \* cacheWriteBufferSize
  CacheWriteWorkers, \* cacheWriteWorkerCount
  PoolWorkers, PoolQueue,  \* usage_record.worker_count, queue_size
  MaxDay,            \* bound: the daily window changes at most MaxDay times
  MaxAdmin           \* bound: administrator changes of the quota

ASSUME UsageAssumption ==
  /\ FailureThreshold \in Nat \ {0} /\ HalfOpenRequests \in Nat \ {0}
  /\ MaxDay \in Nat /\ MaxAdmin \in Nat
ASSUME SetupsAssumption ==
  \A s \in Setups : /\ s.balance \in Int /\ s.budget \in Nat
                   /\ s.limit \in Nat \cup {None} /\ s.limits \subseteq Nat

VARIABLES
  setup,       \* the configuration; never changes
  pc, held,    \* per request: where it is, the quota entry it holds
  breaker,
  balanceKey, quotaKey, dirty,          \* Redis
  balance, dedup, archive, row, logs,   \* database
  writer, writes,                       \* BillingCacheService's write channel
  queue, running, poolStopped,          \* UsageRecordWorkerPool
  dbPending,                            \* IncrementUsageWithReset goroutines
  flush, flusherStopped,                \* UserPlatformQuotaUsageFlusher
  admin, changes,                       \* UserHandler's quota endpoints
  day, faults,
  \* history
  charged,     \* requests whose billing transaction committed
  deducted,    \* requests whose cache deduction was sent to Redis
  counted,     \* requests the Redis quota entry was incremented for today
  lost,        \* a fault took the dirty mark away
  stale        \* a flush wrote an older usage over a newer one

request == <<pc, held>>
redis == <<balanceKey, quotaKey, dirty, counted>>
billing == <<balance, dedup, archive, charged>>
cache == <<writer, writes, deducted>>
pool == <<queue, running, poolStopped>>
quota == <<row, dbPending, flush, flusherStopped, admin, changes, lost, stale>>
env == <<setup, day, faults>>
vars == <<setup, pc, held, breaker, balanceKey, quotaKey, dirty, balance, dedup,
          archive, row, logs, writer, writes, queue, running, poolStopped,
          dbPending, flush, flusherStopped, admin, changes, day, faults,
          charged, deducted, counted, lost, stale>>

CheckLabels == {"balance", "loadBalance", "balanceOk", "balanceLow", "balanceErr"}
QuotaLabels == {"quota", "loadQuota", "loadOnly", "fillQuota"}
ClaimLabels == {"claim", "conflict", "archive", "commit"}
FinalizeLabels == {"finalize", "enqueue", "syncDeduct"}
TailLabels == {"limit", "incr", "log"}
FinalLabels == {"idle", "dropped", "error", "panicked", "done", "dead"}
Labels == CheckLabels \cup QuotaLabels \cup {"forward", "queued"} \cup ClaimLabels
            \cup FinalizeLabels \cup TailLabels \cup FinalLabels

\* The task that records the usage runs, on a pool worker or inline.
TaskLabels == ClaimLabels \cup FinalizeLabels \cup TailLabels

Flushers == {"tick", "stop"}   \* the timer's flush and Stop's last one
IdleFlush == [at |-> "idle", snap |-> None]

Entry == [usage : Nat, limit : Nat \cup {None}, start : Nat \cup {None}]
ASSUME NoneAssumption == None \notin Entry
Breakers == [state : {"closed", "open", "half-open"}, failures : Nat,
             remaining : Nat, cooled : BOOLEAN]
Closed == [state |-> "closed", failures |-> 0, remaining |-> 0, cooled |-> FALSE]

\* What a behaviour starts from: the commands' request ids and fingerprints
\* and which requests are mandatory (image requests); the configuration; the
\* user's balance and limit; whether the upstream answers, the process is
\* stopped, an administrator acts, a day ends, keys get
\* old enough to be archived; whether the balance is cached
\* to begin with, which Redis keys expire; and which kinds of faults
\* happen, at most budget of them.
Setup(ids, prints, limits, kinds) ==
  [id : [Requests -> ids], print : [Requests -> prints], mandatory : [Requests -> BOOLEAN],
   breaker : BOOLEAN, quota : {"off", "direct", "flusher"},
   overflow : {"drop", "sync", "sample"},
   balance : Int, limit : limits \cup {None}, limits : SUBSET limits,
   upstream : BOOLEAN, stop : BOOLEAN, admin : BOOLEAN, midnight : BOOLEAN,
   archiving : BOOLEAN,
   cached : BOOLEAN, expires : SUBSET {"balance", "quota"}, faults : SUBSET kinds, budget : Nat]

Key(r) == setup.id[r]
KeyRow(r) == [id |-> setup.id[r], print |-> setup.print[r]]
Ids(rows) == {k.id : k \in rows}

TypeOK ==
  /\ setup \in Setups
  /\ pc \in [Requests -> Labels]
  /\ held \in [Requests -> Entry \cup {None}]
  /\ breaker \in Breakers
  /\ balanceKey \in Int \cup {None}
  /\ quotaKey \in Entry \cup {None} /\ row \in Entry \cup {None}
  /\ dirty \in BOOLEAN /\ lost \in BOOLEAN /\ stale \in BOOLEAN
  /\ balance \in Int
  /\ dedup \subseteq {KeyRow(r) : r \in Requests}
  /\ archive \subseteq {KeyRow(r) : r \in Requests}
  /\ logs \subseteq Requests /\ charged \subseteq Requests /\ deducted \subseteq Requests
  /\ counted \subseteq Requests
  /\ writer \in {"open", "stopped", "closed", "nil"}
  /\ writes \subseteq [kind : {"set", "deduct"}, req : Requests, amount : Int]
  /\ queue \subseteq Requests /\ running \subseteq Requests /\ poolStopped \in BOOLEAN
  /\ dbPending \subseteq Requests
  /\ flush \in [Flushers -> [at : {"idle", "popped", "read", "done"}, snap : Entry \cup {None}]]
  /\ flusherStopped \in BOOLEAN
  /\ admin \in {"idle", "invalidate"} /\ changes \in 0..MaxAdmin
  /\ day \in 0..MaxDay /\ faults \in 0..setup.budget

Init ==
  /\ setup \in Setups
  /\ pc = [r \in Requests |-> "idle"]
  /\ held = [r \in Requests |-> None]
  /\ breaker = Closed
  /\ balanceKey = (IF setup.cached THEN setup.balance ELSE None) /\ quotaKey = None /\ dirty = FALSE
  /\ balance = setup.balance /\ dedup = {} /\ archive = {} /\ logs = {}
  \* BulkInsertInitial wrote the limits when the user registered, or there is no row
  /\ row \in IF setup.limit = None THEN {None}
             ELSE {[usage |-> 0, limit |-> setup.limit, start |-> None]}
  /\ writer = "open" /\ writes = {}
  /\ queue = {} /\ running = {} /\ poolStopped = FALSE
  /\ dbPending = {} /\ flush = [f \in Flushers |-> IdleFlush] /\ flusherStopped = FALSE
  /\ admin = "idle" /\ changes = 0
  /\ day = 0 /\ faults = 0
  /\ charged = {} /\ deducted = {} /\ counted = {} /\ lost = FALSE /\ stale = FALSE

-----------------------------------------------------------------------------
(* Control *)

Goto(r, l) == pc' = [pc EXCEPT ![r] = l] /\ UNCHANGED held
GotoWith(r, l, e) == pc' = [pc EXCEPT ![r] = l] /\ held' = [held EXCEPT ![r] = e]

\* One call of a kind that may fail in this setup fails.
Fault(kind) ==
  /\ kind \in setup.faults /\ faults < setup.budget
  /\ faults' = faults + 1
  /\ UNCHANGED <<setup, day>>

NoFault == UNCHANGED env
=============================================================================
