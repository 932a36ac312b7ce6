---------------------------- MODULE SystemOperations ----------------------------
(***************************************************************************)
(* The administrator's update, rollback and restart endpoints: a request   *)
(* with an Idempotency-Key goes through IdempotencyCoordinator.Execute,    *)
(* one without goes straight to the executor (observe-only mode), and the  *)
(* executor takes the global lock of SystemOperationLockService, whose     *)
(* renew loop runs beside it, does the operation and releases the lock.    *)
(***************************************************************************)
EXTENDS IdempotencyStore

CONSTANTS
  Workers,    \* request goroutines, on any instance
  MaxStay,    \* a request is over within MaxStay ticks of the clock
  MaxFaults   \* bound on failed statements, lost replies and crashes

ASSUME StayAssumption == MaxStay \in Nat /\ MaxFaults \in Nat

VARIABLES
  pc, keyed, op,
  now,        \* the time Execute read
  seen,       \* the record the handler read last
  recId,      \* the request record it claimed
  lockNow,    \* the time Acquire read
  lockId,     \* the lock row it claimed
  ok,         \* the operation succeeded
  renewing,   \* the renew loop runs
  renewed,    \* and ran since the last tick
  faults,
  \* history
  effectUntil,\* until when the last effect of the key must not be repeated
  repeated,   \* it was repeated before
  takenOver,  \* a record was reclaimed as expired that was expired no more
  executed    \* the payloads whose operation succeeded

store == <<clock, rows, lastId>>
times == <<keyed, op, now>>
claim == <<seen, recId>>
lease == <<lockNow, lockId, ok, renewing, renewed>>
history == <<effectUntil, repeated, takenOver, executed>>
vars == <<store, pc, times, claim, lease, faults, history>>

ClaimLabels == {"create", "get", "reclaimExpired", "getLatest", "reclaim"}
LockLabels == {"lockCreate", "lockGet", "lockReclaim"}
HoldLabels == {"operate", "release"}
MarkLabels == {"markSucceeded", "markFailed"}
Labels == ClaimLabels \cup LockLabels \cup HoldLabels \cup MarkLabels \cup {"idle"}

TypeOK ==
  /\ clock \in Nat /\ lastId \in Nat
  /\ rows \in [{"request", "lock"} -> Row]
  /\ pc \in [Workers -> Labels]
  /\ keyed \in [Workers -> BOOLEAN]
  /\ op \in [Workers -> Ops \cup {NoOp}]
  /\ now \in [Workers -> Nat] /\ lockNow \in [Workers -> Nat]
  /\ seen \in [Workers -> Row]
  /\ recId \in [Workers -> Nat] /\ lockId \in [Workers -> Nat]
  /\ ok \in [Workers -> BOOLEAN]
  /\ renewing \in [Workers -> BOOLEAN] /\ renewed \in [Workers -> BOOLEAN]
  /\ faults \in Nat
  /\ effectUntil \in Nat /\ repeated \in BOOLEAN /\ takenOver \in BOOLEAN
  /\ executed \subseteq Ops

Init ==
  /\ StoreInit
  /\ pc = [w \in Workers |-> "idle"]
  /\ keyed = [w \in Workers |-> FALSE]
  /\ op = [w \in Workers |-> NoOp]
  /\ now = [w \in Workers |-> 0]
  /\ lockNow = [w \in Workers |-> 0]
  /\ seen = [w \in Workers |-> NoRow]
  /\ recId = [w \in Workers |-> 0]
  /\ lockId = [w \in Workers |-> 0]
  /\ ok = [w \in Workers |-> FALSE]
  /\ renewing = [w \in Workers |-> FALSE]
  /\ renewed = [w \in Workers |-> FALSE]
  /\ faults = 0
  /\ effectUntil = 0 /\ repeated = FALSE /\ takenOver = FALSE /\ executed = {}

-----------------------------------------------------------------------------
(* Control *)

Goto(w, l) == pc' = [pc EXCEPT ![w] = l] /\ UNCHANGED <<times, claim, lease>>

Leave(w) ==
  /\ pc' = [pc EXCEPT ![w] = "idle"]
  /\ keyed' = [keyed EXCEPT ![w] = FALSE]
  /\ op' = [op EXCEPT ![w] = NoOp]
  /\ now' = [now EXCEPT ![w] = 0]
  /\ lockNow' = [lockNow EXCEPT ![w] = 0]
  /\ seen' = [seen EXCEPT ![w] = NoRow]
  /\ recId' = [recId EXCEPT ![w] = 0]
  /\ lockId' = [lockId EXCEPT ![w] = 0]
  /\ ok' = [ok EXCEPT ![w] = FALSE]
  /\ renewing' = [renewing EXCEPT ![w] = FALSE]
  /\ renewed' = [renewed EXCEPT ![w] = FALSE]

\* The executor starts: Acquire reads the time.
StartExecutor(w, id) ==
  /\ pc' = [pc EXCEPT ![w] = "lockCreate"]
  /\ recId' = [recId EXCEPT ![w] = id]
  /\ lockNow' = [lockNow EXCEPT ![w] = clock]
  /\ UNCHANGED <<times, seen, lockId, ok, renewing, renewed>>

\* The executor returns an error.
ExecutorFails(w) == IF keyed[w] THEN Goto(w, "markFailed") ELSE Leave(w)

\* The lock is held and its renew loop started.
Hold(w, id) ==
  /\ pc' = [pc EXCEPT ![w] = "operate"]
  /\ lockId' = [lockId EXCEPT ![w] = id]
  /\ renewing' = [renewing EXCEPT ![w] = TRUE]
  /\ renewed' = [renewed EXCEPT ![w] = TRUE]
  /\ UNCHANGED <<times, claim, lockNow, ok>>

\* Mutant: the handler reports success whatever the operation returned.
AfterReleaseSucceeds(w) ==
  IF keyed[w]
    THEN /\ pc' = [pc EXCEPT ![w] = "markSucceeded"]
         /\ renewing' = [renewing EXCEPT ![w] = FALSE]
         /\ renewed' = [renewed EXCEPT ![w] = FALSE]
         /\ UNCHANGED <<times, claim, lockNow, lockId, ok>>
    ELSE Leave(w)

\* Release stopped the renew loop; its own error is dropped.
AfterRelease(w) ==
  IF keyed[w]
    THEN /\ pc' = [pc EXCEPT ![w] = IF ok[w] THEN "markSucceeded" ELSE "markFailed"]
         /\ renewing' = [renewing EXCEPT ![w] = FALSE]
         /\ renewed' = [renewed EXCEPT ![w] = FALSE]
         /\ UNCHANGED <<times, claim, lockNow, lockId, ok>>
    ELSE Leave(w)

SpendFault == faults < MaxFaults /\ faults' = faults + 1

\* Mutant: a success that could not be recorded is recorded as a failure to retry.
OnErrorRetry(w) ==
  \/ pc[w] \in LockLabels /\ ExecutorFails(w)
  \/ pc[w] = "release" /\ AfterRelease(w)
  \/ pc[w] = "markSucceeded" /\ Goto(w, "markFailed")
  \/ pc[w] \in ClaimLabels \cup {"markFailed"} /\ Leave(w)

\* Where an error of the statement at pc[w] leads.
OnError(w) ==
  \/ pc[w] \in LockLabels /\ ExecutorFails(w)
  \/ pc[w] = "release" /\ AfterRelease(w)
  \/ pc[w] \in ClaimLabels \cup MarkLabels /\ Leave(w)

\* A write took effect; its reply arrives and A goes on, or it is lost.
Reply(w, A) == (A /\ UNCHANGED faults) \/ (SpendFault /\ OnError(w))

-----------------------------------------------------------------------------
(* IdempotencyCoordinator.Execute *)

Execute(w, p) ==
  /\ pc[w] = "idle"
  /\ pc' = [pc EXCEPT ![w] = "create"]
  /\ keyed' = [keyed EXCEPT ![w] = TRUE]
  /\ op' = [op EXCEPT ![w] = p]
  /\ now' = [now EXCEPT ![w] = clock]
  /\ UNCHANGED <<store, claim, lease, faults, history>>

\* A request without a key, let through in observe-only mode; its operation id
\* holds the time in nanoseconds and is like no other.
ExecuteWithoutKey(w, a) ==
  /\ pc[w] = "idle"
  /\ rows["lock"].fp # a /\ \A v \in Workers : op[v] # a
  /\ pc' = [pc EXCEPT ![w] = "lockCreate"]
  /\ op' = [op EXCEPT ![w] = a]
  /\ now' = [now EXCEPT ![w] = clock]
  /\ lockNow' = [lockNow EXCEPT ![w] = clock]
  /\ UNCHANGED <<store, keyed, claim, lockId, ok, renewing, renewed, faults, history>>

Create(w) ==
  /\ pc[w] = "create"
  /\ IF IsFree("request")
       THEN /\ CreateProcessing("request", op[w], now[w])
            /\ Reply(w, StartExecutor(w, lastId'))
       ELSE Goto(w, "get") /\ UNCHANGED <<rows, lastId, faults>>
  /\ UNCHANGED <<clock, history>>

\* The switch over the status of the record r, whose fingerprint is the request's:
\* a success is replayed, a running request and one in backoff are conflicts.
Dispatch(w, r) ==
  IF r.status = "failed_retryable" /\ r.until <= now[w]
    THEN /\ pc' = [pc EXCEPT ![w] = "reclaim"]
         /\ seen' = [seen EXCEPT ![w] = r]
         /\ UNCHANGED <<times, recId, lease>>
    ELSE Leave(w)

GetByScopeAndKeyHash(w) ==
  LET r == rows["request"] IN
  /\ pc[w] = "get"
  /\ IF r.status = "none" \/ r.fp # op[w] THEN Leave(w)
     ELSE IF r.expires <= now[w]
       THEN /\ pc' = [pc EXCEPT ![w] = "reclaimExpired"]
            /\ seen' = [seen EXCEPT ![w] = r]
            /\ UNCHANGED <<times, recId, lease>>
       ELSE Dispatch(w, r)
  /\ UNCHANGED <<store, faults, history>>

\* TryReclaim of a record that was expired when it was read, with the status it
\* had then; the statement does not look at expires_at again.
ReclaimExpired(w) ==
  LET r == seen[w] IN
  /\ pc[w] = "reclaimExpired"
  /\ IF CanReclaim("request", r.id, r.status, now[w])
       THEN /\ Reclaim("request", now[w])
            /\ Reply(w, StartExecutor(w, r.id))
            /\ takenOver' = (takenOver \/ rows["request"].expires > now[w])
       ELSE Goto(w, "getLatest") /\ UNCHANGED <<rows, faults, takenOver>>
  /\ UNCHANGED <<clock, lastId, effectUntil, repeated, executed>>

GetLatest(w) ==
  LET r == rows["request"] IN
  /\ pc[w] = "getLatest"
  /\ IF r.status = "none" \/ r.fp # op[w] THEN Leave(w) ELSE Dispatch(w, r)
  /\ UNCHANGED <<store, faults, history>>

ReclaimFailed(w) ==
  LET r == seen[w] IN
  /\ pc[w] = "reclaim"
  /\ IF CanReclaim("request", r.id, "failed_retryable", now[w])
       THEN /\ Reclaim("request", now[w])
            /\ Reply(w, StartExecutor(w, r.id))
       ELSE Leave(w) /\ UNCHANGED <<rows, faults>>
  /\ UNCHANGED <<clock, lastId, history>>

MarkRequestFailed(w) ==
  /\ pc[w] = "markFailed"
  /\ MarkFailedRetryable("request", recId[w], clock + Backoff, now[w] + TTL)
  /\ Reply(w, Leave(w))
  /\ UNCHANGED <<clock, lastId, history>>

MarkRequestSucceeded(w) ==
  /\ pc[w] = "markSucceeded"
  /\ MarkSucceeded("request", recId[w], now[w] + TTL)
  /\ Reply(w, Leave(w))
  /\ UNCHANGED <<clock, lastId, history>>

-----------------------------------------------------------------------------
(* The executor: SystemOperationLockService *)

AcquireCreate(w) ==
  /\ pc[w] = "lockCreate"
  /\ IF IsFree("lock")
       THEN /\ CreateProcessing("lock", op[w], lockNow[w])
            /\ Reply(w, Hold(w, lastId'))
       ELSE Goto(w, "lockGet") /\ UNCHANGED <<rows, lastId, faults>>
  /\ UNCHANGED <<clock, history>>

AcquireGet(w) ==
  LET r == rows["lock"] IN
  /\ pc[w] = "lockGet"
  /\ IF r.status = "none" \/ (r.status = "processing" /\ r.until > lockNow[w])
       THEN ExecutorFails(w)
       ELSE /\ pc' = [pc EXCEPT ![w] = "lockReclaim"]
            /\ seen' = [seen EXCEPT ![w] = r]
            /\ UNCHANGED <<times, recId, lease>>
  /\ UNCHANGED <<store, faults, history>>

\* Mutant: the result of TryReclaim is not looked at.
AcquireReclaimUnchecked(w) ==
  LET r == seen[w] IN
  /\ pc[w] = "lockReclaim"
  /\ IF CanReclaim("lock", r.id, r.status, lockNow[w])
       THEN Reclaim("lock", lockNow[w]) ELSE UNCHANGED rows
  /\ Reply(w, Hold(w, r.id))
  /\ UNCHANGED <<clock, lastId, history>>

AcquireReclaim(w) ==
  LET r == seen[w] IN
  /\ pc[w] = "lockReclaim"
  /\ IF CanReclaim("lock", r.id, r.status, lockNow[w])
       THEN /\ Reclaim("lock", lockNow[w])
            /\ Reply(w, Hold(w, r.id))
       ELSE ExecutorFails(w) /\ UNCHANGED <<rows, faults>>
  /\ UNCHANGED <<clock, lastId, history>>

\* The update, rollback or restart, done or failed.
Operate(w) ==
  /\ pc[w] = "operate"
  /\ \E done \in BOOLEAN :
       /\ pc' = [pc EXCEPT ![w] = "release"]
       /\ ok' = [ok EXCEPT ![w] = done]
       /\ IF done /\ keyed[w]
            THEN /\ effectUntil' = now[w] + TTL
                 /\ repeated' = (repeated \/ clock < effectUntil)
                 /\ executed' = executed \cup {op[w]}
            ELSE UNCHANGED <<effectUntil, repeated, executed>>
  /\ UNCHANGED <<store, times, claim, lockNow, lockId, renewing, renewed, faults, takenOver>>

Release(w) ==
  /\ pc[w] = "release"
  /\ IF ok[w] THEN MarkSucceeded("lock", lockId[w], clock + TTL)
              ELSE MarkFailedRetryable("lock", lockId[w], clock, clock + TTL)
  /\ AfterRelease(w)
  /\ UNCHANGED <<clock, lastId, faults, history>>

\* One turn of renewLoop: it ends when no row matches.
Renew(w) ==
  /\ renewing[w] /\ ~renewed[w]
  /\ IF CanExtend("lock", lockId[w], op[w])
       THEN /\ ExtendProcessingLock("lock")
            /\ renewed' = [renewed EXCEPT ![w] = TRUE]
            /\ UNCHANGED renewing
       ELSE /\ renewing' = [renewing EXCEPT ![w] = FALSE]
            /\ UNCHANGED <<rows, renewed>>
  /\ UNCHANGED <<clock, lastId, pc, times, claim, lockNow, lockId, ok, faults, history>>

\* A renewal that fails is tried again at the next tick.
RenewFails(w) ==
  /\ renewing[w] /\ ~renewed[w]
  /\ SpendFault
  /\ renewed' = [renewed EXCEPT ![w] = TRUE]
  /\ UNCHANGED <<store, pc, times, claim, lockNow, lockId, ok, renewing, history>>

-----------------------------------------------------------------------------
(* Faults, time and the cleanup service *)

StatementFails(w) ==
  /\ pc[w] \notin {"idle", "operate"}
  /\ SpendFault
  /\ OnError(w)
  /\ UNCHANGED <<store, history>>

\* The process dies, its renew loop with it.
Crash(w) ==
  /\ pc[w] # "idle"
  /\ SpendFault
  /\ Leave(w)
  /\ UNCHANGED <<store, history>>

\* A tick is longer than renewInterval (a third of the lease), so a renew loop
\* that runs has tried since the last one; no request outlives MaxStay ticks.
Tick ==
  /\ clock < MaxTime
  /\ \A w \in Workers : pc[w] # "idle" => clock < now[w] + MaxStay
  /\ \A w \in Workers : renewing[w] => renewed[w]
  /\ clock' = clock + 1
  /\ renewed' = [w \in Workers |-> FALSE]
  /\ UNCHANGED <<rows, lastId, pc, times, claim, lockNow, lockId, ok, renewing, faults, history>>

CleanupOnce(k) ==
  /\ CanDelete(k)
  /\ DeleteExpired(k)
  /\ UNCHANGED <<clock, lastId, pc, times, claim, lease, faults, history>>

CoordinatorStep(w) ==
  \/ \E p \in Payloads : Execute(w, p)
  \/ \E a \in Anon : ExecuteWithoutKey(w, a)
  \/ Create(w)
  \/ GetByScopeAndKeyHash(w)
  \/ ReclaimExpired(w)
  \/ GetLatest(w)
  \/ ReclaimFailed(w)
  \/ MarkRequestFailed(w)
  \/ MarkRequestSucceeded(w)

ExecutorStep(w) ==
  \/ AcquireCreate(w)
  \/ AcquireGet(w)
  \/ AcquireReclaim(w)
  \/ Operate(w)
  \/ Release(w)
  \/ Renew(w)

Next ==
  \/ \E w \in Workers :
       CoordinatorStep(w) \/ ExecutorStep(w) \/ RenewFails(w) \/ StatementFails(w) \/ Crash(w)
  \/ Tick
  \/ \E k \in {"request", "lock"} : CleanupOnce(k)

Spec == Init /\ [][Next]_vars

-----------------------------------------------------------------------------
(* Properties *)

\* The handlers that own the record of the key: between their claim and the end.
Claimed(w) == keyed[w] /\ pc[w] \in LockLabels \cup HoldLabels \cup MarkLabels

\* Two requests never execute for one key at the same time, whatever expires, is
\* deleted or taken over meanwhile (CreateProcessing and TryReclaim).
ClaimIsExclusive == \A v, w \in Workers : v # w => ~(Claimed(v) /\ Claimed(w))

\* The side effect of a key is not repeated before its record expires, also when
\* recording the success fails or the process dies after the effect, unless a
\* record that another request renewed meanwhile was reclaimed as expired (Execute
\* decides on the expires_at it read, and TryReclaim does not check it again).
SideEffectOnce == repeated => takenOver

\* What a replay returns is the result of a request with the same payload: a
\* record says succeeded only for a payload that was executed (MarkSucceeded
\* trusts the id alone).
SucceededMeansExecuted ==
  rows["request"].status = "succeeded" => rows["request"].fp \in executed

\* Update, rollback and restart exclude each other, if each is shorter than the
\* lease (Acquire, Release, DeleteExpired).
OperationsExclude ==
  \A v, w \in Workers : v # w => ~(pc[v] \in HoldLabels /\ pc[w] \in HoldLabels)

=============================================================================
