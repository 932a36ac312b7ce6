------------------------- MODULE SystemOperationsProofs -------------------------
(***************************************************************************)
(* Proofs about SystemOperations, for any number of requests, payloads and *)
(* ticks of the clock: types, and, when a request is over before the lease *)
(* it took ends, that one request at a time owns a key and one operation   *)
(* at a time holds the lock.                                               *)
(***************************************************************************)
EXTENDS SystemOperations, TLAPS

\* The variables of a request are functions of their types.
LocalType ==
  /\ pc \in [Workers -> Labels]
  /\ keyed \in [Workers -> BOOLEAN]
  /\ op \in [Workers -> Ops \cup {NoOp}]
  /\ now \in [Workers -> Nat] /\ lockNow \in [Workers -> Nat]
  /\ seen \in [Workers -> Row]
  /\ recId \in [Workers -> Nat] /\ lockId \in [Workers -> Nat]
  /\ ok \in [Workers -> BOOLEAN]
  /\ renewing \in [Workers -> BOOLEAN] /\ renewed \in [Workers -> BOOLEAN]

\* NoRow is a row (the read of a record that does not exist).
LEMMA NoRowType == NoRow \in Row
BY DEF NoRow, Row, RowStatuses

\* Every way for a handler to go on (jump, return, start the executor, hold the
\* lock, fail, go on after the release) keeps the types of its variables.
LEMMA ControlTypes ==
  ASSUME LocalType, NEW w \in Workers, clock \in Nat
  PROVE  /\ \A l \in Labels : Goto(w, l) => LocalType'
         /\ Leave(w) => LocalType'
         /\ \A id \in Nat : StartExecutor(w, id) => LocalType'
         /\ ExecutorFails(w) => LocalType'
         /\ \A id \in Nat : Hold(w, id) => LocalType'
         /\ AfterRelease(w) => LocalType'
         /\ OnError(w) => LocalType'
<1> USE DEF Labels, ClaimLabels, LockLabels, HoldLabels, MarkLabels
<1>1. \A l \in Labels : Goto(w, l) => LocalType'
  BY DEF LocalType, Goto, times, claim, lease
<1>2. Leave(w) => LocalType'
  BY NoRowType DEF LocalType, Leave
<1>3. \A id \in Nat : StartExecutor(w, id) => LocalType'
  BY DEF LocalType, StartExecutor, times
<1>4. ExecutorFails(w) => LocalType'
  BY <1>1, <1>2 DEF ExecutorFails
<1>5. \A id \in Nat : Hold(w, id) => LocalType'
  BY DEF LocalType, Hold, times, claim
<1>6. AfterRelease(w) => LocalType'
  BY <1>2 DEF LocalType, AfterRelease, times, claim
<1>7. OnError(w) => LocalType'
  BY <1>2, <1>4, <1>6 DEF OnError
<1> QED
  BY <1>1, <1>2, <1>3, <1>4, <1>5, <1>6, <1>7

\* The statements keep the types of the table.
LEMMA StoreTypes ==
  ASSUME rows \in [{"request", "lock"} -> Row], lastId \in Nat, clock \in Nat,
         NEW k \in {"request", "lock"}, NEW id \in Nat, NEW t \in Nat, NEW e \in Nat
  PROVE  /\ \A f \in Ops : CreateProcessing(k, f, t) =>
              rows' \in [{"request", "lock"} -> Row] /\ lastId' \in Nat
         /\ Reclaim(k, t) => rows' \in [{"request", "lock"} -> Row]
         /\ ExtendProcessingLock(k) => rows' \in [{"request", "lock"} -> Row]
         /\ MarkSucceeded(k, id, e) => rows' \in [{"request", "lock"} -> Row]
         /\ MarkFailedRetryable(k, id, t, e) => rows' \in [{"request", "lock"} -> Row]
         /\ DeleteExpired(k) => rows' \in [{"request", "lock"} -> Row]
<1> USE TimesAssumption DEF Row, RowStatuses
<1>1. ASSUME NEW f \in Ops, CreateProcessing(k, f, t)
      PROVE  rows' \in [{"request", "lock"} -> Row] /\ lastId' \in Nat
  BY <1>1 DEF CreateProcessing
<1>2. Reclaim(k, t) => rows' \in [{"request", "lock"} -> Row]
  BY DEF Reclaim
<1>3. ExtendProcessingLock(k) => rows' \in [{"request", "lock"} -> Row]
  BY DEF ExtendProcessingLock
<1>4. MarkSucceeded(k, id, e) => rows' \in [{"request", "lock"} -> Row]
  BY DEF MarkSucceeded
<1>5. MarkFailedRetryable(k, id, t, e) => rows' \in [{"request", "lock"} -> Row]
  BY DEF MarkFailedRetryable
<1>6. DeleteExpired(k) => rows' \in [{"request", "lock"} -> Row]
  BY NoRowType DEF DeleteExpired
<1> QED
  BY <1>1, <1>2, <1>3, <1>4, <1>5, <1>6

-----------------------------------------------------------------------------
(* Type correctness *)

GlobalType ==
  /\ clock \in Nat /\ lastId \in Nat
  /\ rows \in [{"request", "lock"} -> Row]
  /\ faults \in Nat
  /\ effectUntil \in Nat /\ repeated \in BOOLEAN /\ takenOver \in BOOLEAN
  /\ executed \subseteq Ops

\* A request that runs has an operation id (Execute, buildSystemOperationID).
HasOp == \A w \in Workers : pc[w] # "idle" => op[w] \in Ops

TypeInv == LocalType /\ GlobalType /\ HasOp

\* No step of a handler but its start and its end changes the operation id.
LEMMA ControlOps ==
  ASSUME TypeInv, NEW w \in Workers, pc[w] # "idle"
  PROVE  /\ \A l \in Labels : Goto(w, l) => HasOp'
         /\ Leave(w) => HasOp'
         /\ \A id \in Nat : StartExecutor(w, id) => HasOp'
         /\ ExecutorFails(w) => HasOp'
         /\ \A id \in Nat : Hold(w, id) => HasOp'
         /\ AfterRelease(w) => HasOp'
         /\ OnError(w) => HasOp'
<1> USE DEF TypeInv, LocalType, HasOp
<1>1. \A l \in Labels : Goto(w, l) => HasOp'
  BY DEF Goto, times
<1>2. Leave(w) => HasOp'
  BY DEF Leave
<1>3. \A id \in Nat : StartExecutor(w, id) => HasOp'
  BY DEF StartExecutor, times
<1>4. ExecutorFails(w) => HasOp'
  BY <1>1, <1>2 DEF ExecutorFails, Labels, MarkLabels
<1>5. \A id \in Nat : Hold(w, id) => HasOp'
  BY DEF Hold, times
<1>6. AfterRelease(w) => HasOp'
  BY <1>2 DEF AfterRelease, times
<1>7. OnError(w) => HasOp'
  BY <1>2, <1>4, <1>6 DEF OnError
<1> QED
  BY <1>1, <1>2, <1>3, <1>4, <1>5, <1>6, <1>7

\* One step of the coordinator keeps the types.
LEMMA CoordinatorTypes ==
  ASSUME TypeInv, NEW w \in Workers, CoordinatorStep(w)
  PROVE  TypeInv'
<1> USE DEF TypeInv, GlobalType
<1>1. ASSUME NEW p \in Payloads, Execute(w, p) PROVE TypeInv'
  BY <1>1 DEF Execute, LocalType, HasOp, Ops, Labels, ClaimLabels, store, claim, lease, history
<1>2. ASSUME NEW a \in Anon, ExecuteWithoutKey(w, a) PROVE TypeInv'
  BY <1>2 DEF ExecuteWithoutKey, LocalType, HasOp, Ops, Labels, LockLabels, store, claim, history
<1>3. ASSUME Create(w) PROVE TypeInv'
  <2>1. pc[w] # "idle" /\ op[w] \in Ops /\ now[w] \in Nat
    BY <1>3 DEF Create, HasOp, LocalType
  <2>2. CASE IsFree("request")
    <3>1. CreateProcessing("request", op[w], now[w]) /\ Reply(w, StartExecutor(w, lastId'))
      BY <1>3, <2>2 DEF Create
    <3>2. rows' \in [{"request", "lock"} -> Row] /\ lastId' \in Nat
      BY <2>1, <3>1, StoreTypes
    <3>3. LocalType' /\ faults' \in Nat
      BY <3>1, <3>2, ControlTypes DEF Reply, SpendFault
    <3>4. HasOp'
      BY <2>1, <3>1, <3>2, ControlOps DEF Reply
    <3> QED
      BY <1>3, <3>2, <3>3, <3>4 DEF Create, history
  <2>3. CASE ~IsFree("request")
    <3>1. Goto(w, "get") /\ "get" \in Labels /\ UNCHANGED <<rows, lastId, faults>>
      BY <1>3, <2>3 DEF Create, Labels, ClaimLabels
    <3> QED
      BY <1>3, <2>1, <3>1, ControlTypes, ControlOps DEF Create, history
  <2> QED
    BY <2>2, <2>3
<1>4. ASSUME NEW r \in Row, pc[w] # "idle", Dispatch(w, r) PROVE LocalType' /\ HasOp'
  <2>1. CASE r.status = "failed_retryable" /\ r.until <= now[w]
    BY <1>4, <2>1 DEF Dispatch, LocalType, HasOp, Labels, ClaimLabels, times, lease
  <2>2. CASE ~(r.status = "failed_retryable" /\ r.until <= now[w])
    BY <1>4, <2>2, ControlTypes, ControlOps DEF Dispatch
  <2> QED
    BY <2>1, <2>2
<1>5. ASSUME GetByScopeAndKeyHash(w) PROVE TypeInv'
  <2> DEFINE r == rows["request"]
  <2>1. pc[w] # "idle" /\ r \in Row
    BY <1>5 DEF GetByScopeAndKeyHash
  <2>2. LocalType' /\ HasOp'
    <3>1. CASE r.status = "none" \/ r.fp # op[w]
      BY <1>5, <2>1, <3>1, ControlTypes, ControlOps DEF GetByScopeAndKeyHash
    <3>2. CASE ~(r.status = "none" \/ r.fp # op[w]) /\ r.expires <= now[w]
      BY <1>5, <2>1, <3>2 DEF GetByScopeAndKeyHash, LocalType, HasOp, Labels, ClaimLabels,
                              times, lease
    <3>3. CASE ~(r.status = "none" \/ r.fp # op[w]) /\ ~(r.expires <= now[w])
      BY <1>4, <1>5, <2>1, <3>3 DEF GetByScopeAndKeyHash
    <3> QED
      BY <3>1, <3>2, <3>3
  <2> QED
    BY <1>5, <2>2 DEF GetByScopeAndKeyHash, store, history
<1>6. ASSUME ReclaimExpired(w) PROVE TypeInv'
  <2>1. pc[w] # "idle" /\ seen[w] \in Row /\ seen[w].id \in Nat /\ now[w] \in Nat
    BY <1>6 DEF ReclaimExpired, LocalType, Row
  <2>2. CASE CanReclaim("request", seen[w].id, seen[w].status, now[w])
    <3>1. /\ Reclaim("request", now[w]) /\ Reply(w, StartExecutor(w, seen[w].id))
          /\ takenOver' \in BOOLEAN
      BY <1>6, <2>2 DEF ReclaimExpired
    <3>2. rows' \in [{"request", "lock"} -> Row]
      BY <2>1, <3>1, StoreTypes
    <3>3. LocalType' /\ faults' \in Nat
      BY <2>1, <3>1, ControlTypes DEF Reply, SpendFault
    <3>4. HasOp'
      BY <2>1, <3>1, ControlOps DEF Reply
    <3> QED
      BY <1>6, <3>1, <3>2, <3>3, <3>4 DEF ReclaimExpired
  <2>3. CASE ~CanReclaim("request", seen[w].id, seen[w].status, now[w])
    <3>1. Goto(w, "getLatest") /\ "getLatest" \in Labels /\ UNCHANGED <<rows, faults, takenOver>>
      BY <1>6, <2>3 DEF ReclaimExpired, Labels, ClaimLabels
    <3> QED
      BY <1>6, <2>1, <3>1, ControlTypes, ControlOps DEF ReclaimExpired
  <2> QED
    BY <2>2, <2>3
<1>7. ASSUME GetLatest(w) PROVE TypeInv'
  <2>1. pc[w] # "idle" /\ rows["request"] \in Row
    BY <1>7 DEF GetLatest
  <2>2. LocalType' /\ HasOp'
    BY <1>4, <1>7, <2>1, ControlTypes, ControlOps DEF GetLatest
  <2> QED
    BY <1>7, <2>2 DEF GetLatest, store, history
<1>8. ASSUME ReclaimFailed(w) PROVE TypeInv'
  <2>1. pc[w] # "idle" /\ seen[w] \in Row /\ seen[w].id \in Nat /\ now[w] \in Nat
    BY <1>8 DEF ReclaimFailed, LocalType, Row
  <2>2. CASE CanReclaim("request", seen[w].id, "failed_retryable", now[w])
    <3>1. Reclaim("request", now[w]) /\ Reply(w, StartExecutor(w, seen[w].id))
      BY <1>8, <2>2 DEF ReclaimFailed
    <3>2. rows' \in [{"request", "lock"} -> Row]
      BY <2>1, <3>1, StoreTypes
    <3>3. LocalType' /\ faults' \in Nat
      BY <2>1, <3>1, ControlTypes DEF Reply, SpendFault
    <3>4. HasOp'
      BY <2>1, <3>1, ControlOps DEF Reply
    <3> QED
      BY <1>8, <3>1, <3>2, <3>3, <3>4 DEF ReclaimFailed, history
  <2>3. CASE ~CanReclaim("request", seen[w].id, "failed_retryable", now[w])
    BY <1>8, <2>1, <2>3, ControlTypes, ControlOps DEF ReclaimFailed, history
  <2> QED
    BY <2>2, <2>3
<1>9. ASSUME MarkRequestFailed(w) \/ MarkRequestSucceeded(w) PROVE TypeInv'
  <2>1. /\ pc[w] # "idle" /\ recId[w] \in Nat /\ Reply(w, Leave(w))
        /\ now[w] + TTL \in Nat /\ clock + Backoff \in Nat
    BY <1>9, TimesAssumption DEF MarkRequestFailed, MarkRequestSucceeded, LocalType
  <2>2. rows' \in [{"request", "lock"} -> Row]
    BY <1>9, <2>1, StoreTypes DEF MarkRequestFailed, MarkRequestSucceeded
  <2>3. LocalType' /\ faults' \in Nat
    BY <2>1, ControlTypes DEF Reply, SpendFault
  <2>4. HasOp'
    BY <2>1, ControlOps DEF Reply
  <2> QED
    BY <1>9, <2>2, <2>3, <2>4 DEF MarkRequestFailed, MarkRequestSucceeded, history
<1> QED
  BY <1>1, <1>2, <1>3, <1>5, <1>6, <1>7, <1>8, <1>9 DEF CoordinatorStep

\* So does one of the executor, its renew loop included.
LEMMA ExecutorTypes ==
  ASSUME TypeInv, NEW w \in Workers, ExecutorStep(w)
  PROVE  TypeInv'
<1> USE DEF TypeInv, GlobalType
<1>1. ASSUME AcquireCreate(w) PROVE TypeInv'
  <2>1. pc[w] # "idle" /\ op[w] \in Ops /\ lockNow[w] \in Nat
    BY <1>1 DEF AcquireCreate, HasOp, LocalType
  <2>2. CASE IsFree("lock")
    <3>1. CreateProcessing("lock", op[w], lockNow[w]) /\ Reply(w, Hold(w, lastId'))
      BY <1>1, <2>2 DEF AcquireCreate
    <3>2. rows' \in [{"request", "lock"} -> Row] /\ lastId' \in Nat
      BY <2>1, <3>1, StoreTypes
    <3>3. LocalType' /\ faults' \in Nat
      BY <3>1, <3>2, ControlTypes DEF Reply, SpendFault
    <3>4. HasOp'
      BY <2>1, <3>1, <3>2, ControlOps DEF Reply
    <3> QED
      BY <1>1, <3>2, <3>3, <3>4 DEF AcquireCreate, history
  <2>3. CASE ~IsFree("lock")
    <3>1. Goto(w, "lockGet") /\ "lockGet" \in Labels /\ UNCHANGED <<rows, lastId, faults>>
      BY <1>1, <2>3 DEF AcquireCreate, Labels, LockLabels
    <3> QED
      BY <1>1, <2>1, <3>1, ControlTypes, ControlOps DEF AcquireCreate, history
  <2> QED
    BY <2>2, <2>3
<1>2. ASSUME AcquireGet(w) PROVE TypeInv'
  <2>1. pc[w] # "idle" /\ rows["lock"] \in Row
    BY <1>2 DEF AcquireGet
  <2>2. CASE ExecutorFails(w)
    BY <1>2, <2>1, <2>2, ControlTypes, ControlOps DEF AcquireGet, store, history
  <2>3. CASE ~ExecutorFails(w)
    BY <1>2, <2>1, <2>3 DEF AcquireGet, LocalType, HasOp, Labels, LockLabels, times, lease,
                            store, history
  <2> QED
    BY <2>2, <2>3
<1>3. ASSUME AcquireReclaim(w) PROVE TypeInv'
  <2>1. pc[w] # "idle" /\ seen[w] \in Row /\ seen[w].id \in Nat /\ lockNow[w] \in Nat
    BY <1>3 DEF AcquireReclaim, LocalType, Row
  <2>2. CASE CanReclaim("lock", seen[w].id, seen[w].status, lockNow[w])
    <3>1. Reclaim("lock", lockNow[w]) /\ Reply(w, Hold(w, seen[w].id))
      BY <1>3, <2>2 DEF AcquireReclaim
    <3>2. rows' \in [{"request", "lock"} -> Row]
      BY <2>1, <3>1, StoreTypes
    <3>3. LocalType' /\ faults' \in Nat
      BY <2>1, <3>1, ControlTypes DEF Reply, SpendFault
    <3>4. HasOp'
      BY <2>1, <3>1, ControlOps DEF Reply
    <3> QED
      BY <1>3, <3>2, <3>3, <3>4 DEF AcquireReclaim, history
  <2>3. CASE ~CanReclaim("lock", seen[w].id, seen[w].status, lockNow[w])
    BY <1>3, <2>1, <2>3, ControlTypes, ControlOps DEF AcquireReclaim, history
  <2> QED
    BY <2>2, <2>3
<1>4. ASSUME Operate(w) PROVE TypeInv'
  <2>1. now[w] + TTL \in Nat /\ op[w] \in Ops
    BY <1>4, TimesAssumption DEF Operate, LocalType, HasOp
  <2>2. effectUntil' \in Nat /\ repeated' \in BOOLEAN /\ executed' \subseteq Ops
    BY <1>4, <2>1 DEF Operate
  <2>3. LocalType' /\ HasOp'
    BY <1>4 DEF Operate, LocalType, HasOp, Labels, HoldLabels, times, claim
  <2> QED
    BY <1>4, <2>2, <2>3 DEF Operate, store
<1>5. ASSUME Release(w) PROVE TypeInv'
  <2>1. pc[w] # "idle" /\ lockId[w] \in Nat /\ clock + TTL \in Nat
    BY <1>5, TimesAssumption DEF Release, LocalType
  <2>2. rows' \in [{"request", "lock"} -> Row]
    BY <1>5, <2>1, StoreTypes DEF Release
  <2> QED
    BY <1>5, <2>1, <2>2, ControlTypes, ControlOps DEF Release, history
<1>6. ASSUME Renew(w) PROVE TypeInv'
  <2>1. rows' \in [{"request", "lock"} -> Row]
    BY <1>6, StoreTypes DEF Renew
  <2>2. LocalType' /\ HasOp'
    BY <1>6 DEF Renew, LocalType, HasOp, times, claim
  <2> QED
    BY <1>6, <2>1, <2>2 DEF Renew, history
<1> QED
  BY <1>1, <1>2, <1>3, <1>4, <1>5, <1>6 DEF ExecutorStep

\* So do faults, ticks and the cleanup: TypeInv is inductive.
LEMMA TypeInvInductive ==
  ASSUME TypeInv, [Next]_vars
  PROVE  TypeInv'
<1> USE DEF TypeInv, GlobalType
<1>1. ASSUME NEW w \in Workers, RenewFails(w) PROVE TypeInv'
  BY <1>1 DEF RenewFails, SpendFault, LocalType, HasOp, store, times, claim, history
<1>2. ASSUME NEW w \in Workers, StatementFails(w) PROVE TypeInv'
  BY <1>2, ControlTypes, ControlOps DEF StatementFails, SpendFault, store, history
<1>3. ASSUME NEW w \in Workers, Crash(w) PROVE TypeInv'
  BY <1>3, ControlTypes, ControlOps DEF Crash, SpendFault, store, history
<1>4. ASSUME Tick PROVE TypeInv'
  BY <1>4 DEF Tick, LocalType, HasOp, times, claim, history
<1>5. ASSUME NEW k \in {"request", "lock"}, CleanupOnce(k) PROVE TypeInv'
  <2>1. rows' \in [{"request", "lock"} -> Row]
    BY <1>5, StoreTypes DEF CleanupOnce
  <2> QED
    BY <1>5, <2>1 DEF CleanupOnce, LocalType, HasOp, times, claim, lease, history
<1>6. ASSUME UNCHANGED vars PROVE TypeInv'
  BY <1>6 DEF vars, store, times, claim, lease, history, LocalType, HasOp
<1> QED
  BY <1>1, <1>2, <1>3, <1>4, <1>5, <1>6, CoordinatorTypes, ExecutorTypes DEF Next

LEMMA TypeInvInit ==
  ASSUME Init
  PROVE  TypeInv
<1>1. LocalType /\ HasOp
  BY NoRowType DEF Init, LocalType, HasOp, Labels
<1>2. GlobalType
  BY NoRowType DEF Init, StoreInit, GlobalType
<1> QED
  BY <1>1, <1>2 DEF TypeInv

\* The rows of the table, what each request remembers of them and the lease it
\* holds have their types in every state.
THEOREM TypeCorrect == Spec => []TypeOK
<1>1. Init => TypeInv
  BY TypeInvInit
<1>2. TypeInv /\ [Next]_vars => TypeInv'
  BY TypeInvInductive
<1>3. TypeInv => TypeOK
  BY DEF TypeInv, LocalType, GlobalType, TypeOK
<1> QED
  BY <1>1, <1>2, <1>3, PTL DEF Spec

-----------------------------------------------------------------------------
(* Exclusion *)

\* The request w owns row k as id: the row is locked for it, and neither the lock
\* nor the row runs out before Lease ticks have passed since w began.
Owns(w, k, id) ==
  /\ rows[k].id = id /\ rows[k].status = "processing"
  /\ rows[k].until >= now[w] + Lease /\ rows[k].expires >= now[w] + TTL

Holding(w) == pc[w] \in HoldLabels

\* What is true of one request: it began at most MaxStay ticks ago, Acquire read
\* the time later than Execute did, only a request with a key is in the steps of
\* the coordinator, the renew loop runs only beside a held lock, and the request
\* owns what it claimed.
RequestInv(w) ==
  /\ pc[w] # "idle" => now[w] <= clock /\ clock <= now[w] + MaxStay
  /\ pc[w] = "idle" => ~keyed[w]
  /\ pc[w] \in LockLabels => now[w] <= lockNow[w] /\ lockNow[w] <= clock
  /\ pc[w] \in ClaimLabels \cup MarkLabels => keyed[w]
  /\ renewing[w] => Holding(w)
  /\ Claimed(w) => Owns(w, "request", recId[w])
  /\ Holding(w) => Owns(w, "lock", lockId[w])

ExclusionInv ==
  /\ TypeInv
  /\ \A w \in Workers : RequestInv(w)
  /\ ClaimIsExclusive
  /\ OperationsExclude

\* A row that some request owns is not free, cannot be reclaimed at a time that a
\* running request read, and is not expired.
LEMMA OwnedRowIsSafe ==
  ASSUME ExclusionInv, MaxStay < Lease, NEW v \in Workers, pc[v] # "idle",
         NEW k \in {"request", "lock"}, NEW id \in Nat, Owns(v, k, id)
  PROVE  /\ ~IsFree(k)
         /\ ~CanDelete(k)
         /\ \A i, s : \A t \in Nat : t <= clock => ~CanReclaim(k, i, s, t)
<1>1. /\ now[v] \in Nat /\ clock \in Nat /\ MaxStay \in Nat /\ Lease \in Nat /\ TTL \in Nat
      /\ clock <= now[v] + MaxStay /\ Lease < TTL
      /\ rows[k].until \in Nat /\ rows[k].expires \in Nat
  BY TimesAssumption, StayAssumption
     DEF ExclusionInv, TypeInv, LocalType, GlobalType, RequestInv, Row
<1>2. rows[k].until > clock /\ rows[k].expires > clock
  BY <1>1 DEF Owns
<1> QED
  BY <1>1, <1>2 DEF Owns, IsFree, CanDelete, CanReclaim

\* A step of w leaves the variables of every other request alone.
Others(w) ==
  \A v \in Workers \ {w} :
    /\ pc'[v] = pc[v] /\ keyed'[v] = keyed[v] /\ now'[v] = now[v]
    /\ recId'[v] = recId[v] /\ lockNow'[v] = lockNow[v] /\ lockId'[v] = lockId[v]
    /\ renewing'[v] = renewing[v]

\* Every way to go on is one of w's own.
LEMMA ControlOthers ==
  ASSUME TypeInv, NEW w \in Workers
  PROVE  /\ \A l : Goto(w, l) => Others(w)
         /\ Leave(w) => Others(w)
         /\ \A id : StartExecutor(w, id) => Others(w)
         /\ ExecutorFails(w) => Others(w)
         /\ \A id : Hold(w, id) => Others(w)
         /\ AfterRelease(w) => Others(w)
         /\ OnError(w) => Others(w)
<1> USE DEF TypeInv, LocalType, Others
<1>1. \A l : Goto(w, l) => Others(w)
  BY DEF Goto, times, claim, lease
<1>2. Leave(w) => Others(w)
  BY DEF Leave
<1>3. \A id : StartExecutor(w, id) => Others(w)
  BY DEF StartExecutor, times
<1>4. ExecutorFails(w) => Others(w)
  BY <1>1, <1>2 DEF ExecutorFails
<1>5. \A id : Hold(w, id) => Others(w)
  BY DEF Hold, times, claim
<1>6. AfterRelease(w) => Others(w)
  BY <1>2 DEF AfterRelease, times, claim
<1>7. OnError(w) => Others(w)
  BY <1>2, <1>4, <1>6 DEF OnError
<1> QED
  BY <1>1, <1>2, <1>3, <1>4, <1>5, <1>6, <1>7

\* A step of w that keeps the clock, and changes a row only when no other request
\* owns it, keeps the invariant of the others; if it also keeps its own and claims
\* a row only when no other request owns it, it keeps the exclusion.
LEMMA StepKeepsExclusion ==
  ASSUME ExclusionInv, TypeInv', NEW w \in Workers, clock' = clock, Others(w), RequestInv(w)',
         \A v \in Workers \ {w} :
           /\ Claimed(v) => rows'["request"] = rows["request"] /\ (Claimed(w)' => Claimed(w))
           /\ Holding(v) => rows'["lock"] = rows["lock"] /\ (Holding(w)' => Holding(w))
  PROVE  ExclusionInv'
<1>1. ASSUME NEW v \in Workers, v # w PROVE RequestInv(v)' /\ (Claimed(v)' => Claimed(v)) /\ (Holding(v)' => Holding(v))
  BY <1>1 DEF ExclusionInv, Others, RequestInv, Claimed, Holding, Owns
<1>2. ClaimIsExclusive'
  BY <1>1 DEF ExclusionInv, ClaimIsExclusive
<1>3. OperationsExclude'
  BY <1>1 DEF ExclusionInv, OperationsExclude, Holding
<1> QED
  BY <1>1, <1>2, <1>3 DEF ExclusionInv

\* Nobody owns row k: what a claim of it, and its deletion, presuppose.
Unowned(k) ==
  /\ k = "request" => \A v \in Workers : ~Claimed(v)
  /\ k = "lock" => \A v \in Workers : ~Holding(v)

LEMMA ClaimableIsUnowned ==
  ASSUME ExclusionInv, MaxStay < Lease, NEW k \in {"request", "lock"},
         \/ IsFree(k)
         \/ CanDelete(k)
         \/ \E i, s : \E t \in Nat : t <= clock /\ CanReclaim(k, i, s, t)
  PROVE  Unowned(k)
<1>1. ASSUME NEW v \in Workers, Claimed(v), k = "request" PROVE FALSE
  <2>1. Owns(v, k, recId[v]) /\ recId[v] \in Nat /\ pc[v] # "idle"
    BY <1>1 DEF ExclusionInv, RequestInv, TypeInv, LocalType, Claimed, LockLabels, HoldLabels,
                MarkLabels
  <2> QED
    BY <2>1, OwnedRowIsSafe
<1>2. ASSUME NEW v \in Workers, Holding(v), k = "lock" PROVE FALSE
  <2>1. Owns(v, k, lockId[v]) /\ lockId[v] \in Nat /\ pc[v] # "idle"
    BY <1>2 DEF ExclusionInv, RequestInv, TypeInv, LocalType, Holding, HoldLabels
  <2> QED
    BY <2>1, OwnedRowIsSafe
<1> QED
  BY <1>1, <1>2 DEF Unowned

\* Returning, failing, jumping to a step of the same kind and going on after the
\* release keep what is true of the request itself, if the record it claimed stays.
LEMMA ControlKeepsRequest ==
  ASSUME ExclusionInv, NEW w \in Workers, pc[w] # "idle", clock' = clock
  PROVE  /\ Leave(w) => RequestInv(w)'
         /\ ~Holding(w) /\ rows'["request"] = rows["request"] /\ ExecutorFails(w)
              /\ pc[w] \in LockLabels => RequestInv(w)'
         /\ rows'["request"] = rows["request"] /\ AfterRelease(w) /\ Holding(w) => RequestInv(w)'
         /\ \A l \in ClaimLabels : pc[w] \in ClaimLabels /\ Goto(w, l) => RequestInv(w)'
         /\ \A l \in LockLabels :
              pc[w] \in LockLabels /\ rows'["request"] = rows["request"] /\ Goto(w, l)
                => RequestInv(w)'
<1> USE DEF ExclusionInv, TypeInv, LocalType, RequestInv, Claimed, Holding, Owns, ClaimLabels,
            LockLabels, HoldLabels, MarkLabels
<1>1. Leave(w) => RequestInv(w)'
  BY DEF Leave
<1>2. ~Holding(w) /\ rows'["request"] = rows["request"] /\ ExecutorFails(w)
        /\ pc[w] \in LockLabels => RequestInv(w)'
  BY <1>1 DEF ExecutorFails, Goto, times, claim, lease
<1>3. rows'["request"] = rows["request"] /\ AfterRelease(w) /\ Holding(w) => RequestInv(w)'
  BY <1>1 DEF AfterRelease, times, claim
<1>4. \A l \in ClaimLabels : pc[w] \in ClaimLabels /\ Goto(w, l) => RequestInv(w)'
  BY DEF Goto, times, claim, lease
<1>5. \A l \in LockLabels :
        pc[w] \in LockLabels /\ rows'["request"] = rows["request"] /\ Goto(w, l) => RequestInv(w)'
  BY DEF Goto, times, claim, lease
<1> QED
  BY <1>1, <1>2, <1>3, <1>4, <1>5

\* Row k, as a claim with id at time t writes it.
Claims(k, id, t) ==
  /\ rows'[k].id = id /\ rows'[k].status = "processing"
  /\ rows'[k].until = t + Lease /\ rows'[k].expires = t + TTL

\* CreateProcessing and TryReclaim write that row and leave the other one alone.
LEMMA StatementsClaim ==
  ASSUME TypeInv, NEW k \in {"request", "lock"}, NEW t \in Nat, NEW f, NEW id
  PROVE  /\ CreateProcessing(k, f, t) =>
              Claims(k, lastId', t) /\ \A j \in {"request", "lock"} \ {k} : rows'[j] = rows[j]
         /\ Reclaim(k, t) /\ rows[k].id = id =>
              Claims(k, id, t) /\ \A j \in {"request", "lock"} \ {k} : rows'[j] = rows[j]
<1> USE DEF TypeInv, GlobalType, Row, Claims
<1>1. CreateProcessing(k, f, t) =>
        Claims(k, lastId', t) /\ \A j \in {"request", "lock"} \ {k} : rows'[j] = rows[j]
  BY DEF CreateProcessing
<1>2. Reclaim(k, t) /\ rows[k].id = id =>
        Claims(k, id, t) /\ \A j \in {"request", "lock"} \ {k} : rows'[j] = rows[j]
  BY DEF Reclaim
<1> QED
  BY <1>1, <1>2

\* The claim of a key that nobody owns, with its reply or without, keeps the
\* exclusion (Create, ReclaimExpired, ReclaimFailed).
LEMMA ClaimKeepsExclusion ==
  ASSUME ExclusionInv, TypeInv', NEW w \in Workers, pc[w] \in ClaimLabels, clock' = clock,
         Unowned("request"), rows'["lock"] = rows["lock"],
         \E id \in Nat : Claims("request", id, now[w]) /\ Reply(w, StartExecutor(w, id))
  PROVE  ExclusionInv'
<1> PICK id \in Nat : Claims("request", id, now[w]) /\ Reply(w, StartExecutor(w, id))
  OBVIOUS
<1>1. pc[w] # "idle" /\ pc[w] \notin LockLabels /\ pc[w] # "release"
  BY DEF ClaimLabels, LockLabels
<1>2. StartExecutor(w, id) \/ Leave(w)
  BY <1>1 DEF Reply, OnError
<1>3. Others(w)
  BY <1>2, ControlOthers DEF ExclusionInv
<1>4. RequestInv(w)' /\ (Holding(w)' => Holding(w))
  <2>1. CASE Leave(w)
    BY <1>1, <2>1, ControlKeepsRequest
       DEF ExclusionInv, TypeInv, LocalType, Leave, Holding, HoldLabels
  <2>2. CASE StartExecutor(w, id)
    BY <1>1, <2>2, TimesAssumption
       DEF ExclusionInv, TypeInv, LocalType, GlobalType, Row, RequestInv, Claimed, Holding, Owns,
           Claims, StartExecutor, times, ClaimLabels, LockLabels, HoldLabels, MarkLabels
  <2> QED
    BY <1>2, <2>1, <2>2
<1> QED
  BY <1>3, <1>4, StepKeepsExclusion DEF Unowned

\* The acquisition of the lock when nobody holds it (AcquireCreate, AcquireReclaim).
LEMMA HoldKeepsExclusion ==
  ASSUME ExclusionInv, TypeInv', NEW w \in Workers, pc[w] \in LockLabels, clock' = clock,
         Unowned("lock"), rows'["request"] = rows["request"],
         \E id \in Nat : Claims("lock", id, lockNow[w]) /\ Reply(w, Hold(w, id))
  PROVE  ExclusionInv'
<1> PICK id \in Nat : Claims("lock", id, lockNow[w]) /\ Reply(w, Hold(w, id))
  OBVIOUS
<1>1. pc[w] # "idle" /\ pc[w] # "release" /\ ~Holding(w)
      /\ pc[w] \notin ClaimLabels \cup MarkLabels
  BY DEF LockLabels, Holding, HoldLabels, ClaimLabels, MarkLabels
<1>2. Hold(w, id) \/ ExecutorFails(w)
  BY <1>1 DEF Reply, OnError
<1>3. Others(w)
  BY <1>2, ControlOthers DEF ExclusionInv
<1>4. RequestInv(w)' /\ (Claimed(w)' => Claimed(w))
  <2>1. CASE ExecutorFails(w)
    <3>1. RequestInv(w)'
      BY <1>1, <2>1, ControlKeepsRequest
    <3>2. Claimed(w)' => Claimed(w)
      BY <2>1 DEF ExclusionInv, TypeInv, LocalType, ExecutorFails, Goto, Leave, times, Claimed,
                  LockLabels, HoldLabels, MarkLabels
    <3> QED
      BY <3>1, <3>2
  <2>2. CASE Hold(w, id)
    BY <1>1, <2>2, TimesAssumption
       DEF ExclusionInv, TypeInv, LocalType, GlobalType, Row, RequestInv, Claimed, Holding, Owns,
           Claims, Hold, times, claim, ClaimLabels, LockLabels, HoldLabels, MarkLabels
  <2> QED
    BY <1>2, <2>1, <2>2
<1> QED
  BY <1>3, <1>4, StepKeepsExclusion DEF Unowned

\* A step that leaves both rows alone and claims nothing.
LEMMA QuietKeepsExclusion ==
  ASSUME ExclusionInv, TypeInv', NEW w \in Workers, clock' = clock, rows' = rows, Others(w),
         RequestInv(w)', Claimed(w)' => Claimed(w), Holding(w)' => Holding(w)
  PROVE  ExclusionInv'
BY StepKeepsExclusion

\* The end of a request claims nothing.
LEMMA LeaveIsQuiet ==
  ASSUME ExclusionInv, NEW w \in Workers, Leave(w), pc[w] # "idle", clock' = clock
  PROVE  Others(w) /\ RequestInv(w)' /\ ~Claimed(w)' /\ ~Holding(w)'
<1>1. Others(w) /\ RequestInv(w)'
  BY ControlOthers, ControlKeepsRequest DEF ExclusionInv
<1> QED
  BY <1>1 DEF ExclusionInv, TypeInv, LocalType, Leave, Claimed, Holding, LockLabels, HoldLabels,
              MarkLabels

\* Nor does an executor that fails, or goes on after the release.
LEMMA FailureIsQuiet ==
  ASSUME ExclusionInv, NEW w \in Workers, clock' = clock, rows'["request"] = rows["request"],
         \/ pc[w] \in LockLabels /\ ExecutorFails(w)
         \/ pc[w] \in HoldLabels /\ AfterRelease(w)
  PROVE  Others(w) /\ RequestInv(w)' /\ (Claimed(w)' => Claimed(w)) /\ ~Holding(w)'
<1>1. Others(w)
  BY ControlOthers DEF ExclusionInv
<1>2. RequestInv(w)'
  BY ControlKeepsRequest DEF Holding, LockLabels, HoldLabels
<1> QED
  BY <1>1, <1>2 DEF ExclusionInv, TypeInv, LocalType, ExecutorFails, AfterRelease, Goto, Leave,
     times, Claimed, Holding, LockLabels, HoldLabels, MarkLabels

\* Each step of the coordinator keeps the exclusion.
LEMMA CoordinatorExclusion ==
  ASSUME ExclusionInv, MaxStay < Lease, NEW w \in Workers, CoordinatorStep(w)
  PROVE  ExclusionInv'
<1> TypeInv /\ TypeInv'
  BY CoordinatorTypes DEF ExclusionInv
<1>1. ASSUME NEW p \in Payloads, Execute(w, p) PROVE ExclusionInv'
  <2>1. Others(w) /\ clock' = clock /\ rows' = rows
    BY <1>1 DEF Execute, TypeInv, LocalType, Others, store, claim, lease
  <2>2. RequestInv(w)' /\ ~Claimed(w)' /\ ~Holding(w)'
    <3>1. /\ pc'[w] = "create" /\ keyed'[w] /\ now'[w] = clock /\ clock' = clock
          /\ renewing'[w] = renewing[w] /\ pc[w] = "idle"
      BY <1>1 DEF Execute, TypeInv, LocalType, store, lease
    <3>2. clock \in Nat /\ MaxStay \in Nat /\ ~renewing[w]
      BY <3>1, StayAssumption DEF TypeInv, GlobalType, ExclusionInv, RequestInv, Holding, HoldLabels
    <3> QED
      BY <3>1, <3>2 DEF RequestInv, Claimed, Holding, ClaimLabels, LockLabels, HoldLabels, MarkLabels
  <2> QED
    BY <2>1, <2>2, QuietKeepsExclusion
<1>2. ASSUME NEW a \in Anon, ExecuteWithoutKey(w, a) PROVE ExclusionInv'
  <2>1. Others(w) /\ clock' = clock /\ rows' = rows
    BY <1>2 DEF ExecuteWithoutKey, TypeInv, LocalType, Others, store, claim
  <2>2. RequestInv(w)' /\ ~Claimed(w)' /\ ~Holding(w)'
    <3>1. /\ pc'[w] = "lockCreate" /\ keyed'[w] = keyed[w] /\ now'[w] = clock /\ clock' = clock
          /\ lockNow'[w] = clock /\ renewing'[w] = renewing[w] /\ pc[w] = "idle"
      BY <1>2 DEF ExecuteWithoutKey, TypeInv, LocalType, store
    <3>2. clock \in Nat /\ MaxStay \in Nat /\ ~renewing[w] /\ ~keyed[w]
      BY <3>1, StayAssumption DEF TypeInv, GlobalType, ExclusionInv, RequestInv, Holding, HoldLabels
    <3> QED
      BY <3>1, <3>2 DEF RequestInv, Claimed, Holding, ClaimLabels, LockLabels, HoldLabels, MarkLabels
  <2> QED
    BY <2>1, <2>2, QuietKeepsExclusion
<1>3. ASSUME Create(w) PROVE ExclusionInv'
  <2>1. pc[w] = "create" /\ pc[w] \in ClaimLabels /\ now[w] \in Nat /\ clock' = clock
    BY <1>3 DEF Create, ClaimLabels, TypeInv, LocalType
  <2>2. CASE IsFree("request")
    <3>1. CreateProcessing("request", op[w], now[w]) /\ Reply(w, StartExecutor(w, lastId'))
      BY <1>3, <2>2 DEF Create
    <3>2. Claims("request", lastId', now[w]) /\ rows'["lock"] = rows["lock"] /\ lastId' \in Nat
      BY <2>1, <3>1, StatementsClaim DEF TypeInv, GlobalType
    <3> QED
      BY <2>1, <2>2, <3>1, <3>2, ClaimableIsUnowned, ClaimKeepsExclusion
  <2>3. CASE ~IsFree("request")
    BY <1>3, <2>1, <2>3, QuietKeepsExclusion, ControlOthers, ControlKeepsRequest
       DEF Create, Goto, TypeInv, LocalType, Claimed, Holding, ClaimLabels, LockLabels,
           HoldLabels, MarkLabels
  <2> QED
    BY <2>2, <2>3
<1>4. ASSUME GetByScopeAndKeyHash(w) \/ GetLatest(w) PROVE ExclusionInv'
  <2>1. pc[w] \in ClaimLabels /\ pc[w] # "idle" /\ clock' = clock /\ rows' = rows
    BY <1>4 DEF GetByScopeAndKeyHash, GetLatest, ClaimLabels, store
  <2>2. CASE Leave(w)
    BY <2>1, <2>2, LeaveIsQuiet, QuietKeepsExclusion
  <2>3. CASE ~Leave(w)
    <3>1. /\ \E l \in ClaimLabels : pc' = [pc EXCEPT ![w] = l]
          /\ UNCHANGED <<keyed, now, recId, lockNow, lockId, renewing>>
      BY <1>4, <2>3 DEF GetByScopeAndKeyHash, GetLatest, Dispatch, ClaimLabels, times, lease
    <3> QED
      BY <2>1, <3>1, QuietKeepsExclusion
         DEF ExclusionInv, TypeInv, LocalType, Others, RequestInv, Claimed, Holding, ClaimLabels,
             LockLabels, HoldLabels, MarkLabels
  <2> QED
    BY <2>2, <2>3
<1>5. ASSUME NEW s, CanReclaim("request", seen[w].id, s, now[w]), pc[w] \in ClaimLabels,
             clock' = clock, Reclaim("request", now[w]), Reply(w, StartExecutor(w, seen[w].id))
      PROVE  ExclusionInv'
  <2>1. /\ now[w] \in Nat /\ now[w] <= clock /\ seen[w].id \in Nat
        /\ rows["request"].id = seen[w].id
    BY <1>5 DEF ExclusionInv, TypeInv, LocalType, Row, RequestInv, ClaimLabels, CanReclaim
  <2>2. Claims("request", seen[w].id, now[w]) /\ rows'["lock"] = rows["lock"]
    BY <1>5, <2>1, StatementsClaim
  <2>3. Unowned("request")
    BY <1>5, <2>1, ClaimableIsUnowned
  <2> QED
    BY <1>5, <2>1, <2>2, <2>3, ClaimKeepsExclusion
<1>6. ASSUME ReclaimExpired(w) PROVE ExclusionInv'
  <2>1. pc[w] \in ClaimLabels /\ pc[w] # "idle" /\ clock' = clock
    BY <1>6 DEF ReclaimExpired, ClaimLabels
  <2>2. CASE CanReclaim("request", seen[w].id, seen[w].status, now[w])
    BY <1>5, <1>6, <2>1, <2>2 DEF ReclaimExpired
  <2>3. CASE ~CanReclaim("request", seen[w].id, seen[w].status, now[w])
    BY <1>6, <2>1, <2>3, QuietKeepsExclusion, ControlOthers, ControlKeepsRequest
       DEF ReclaimExpired, Goto, TypeInv, LocalType, Claimed, Holding, ClaimLabels, LockLabels,
           HoldLabels, MarkLabels
  <2> QED
    BY <2>2, <2>3
<1>7. ASSUME ReclaimFailed(w) PROVE ExclusionInv'
  <2>1. pc[w] \in ClaimLabels /\ pc[w] # "idle" /\ clock' = clock
    BY <1>7 DEF ReclaimFailed, ClaimLabels
  <2>2. CASE CanReclaim("request", seen[w].id, "failed_retryable", now[w])
    BY <1>5, <1>7, <2>1, <2>2 DEF ReclaimFailed
  <2>3. CASE ~CanReclaim("request", seen[w].id, "failed_retryable", now[w])
    BY <1>7, <2>1, <2>3, LeaveIsQuiet, QuietKeepsExclusion DEF ReclaimFailed
  <2> QED
    BY <2>2, <2>3
<1>8. ASSUME MarkRequestFailed(w) \/ MarkRequestSucceeded(w) PROVE ExclusionInv'
  <2>1. /\ pc[w] \in MarkLabels /\ pc[w] # "idle" /\ clock' = clock /\ Claimed(w)
        /\ rows'["lock"] = rows["lock"]
    BY <1>8 DEF MarkRequestFailed, MarkRequestSucceeded, MarkSucceeded, MarkFailedRetryable,
                MarkLabels, ExclusionInv, RequestInv, Claimed, TypeInv, GlobalType
  <2>2. Leave(w)
    BY <1>8, <2>1 DEF MarkRequestFailed, MarkRequestSucceeded, Reply, OnError, MarkLabels,
                      LockLabels
  <2>3. \A v \in Workers \ {w} : ~Claimed(v)
    BY <2>1 DEF ExclusionInv, ClaimIsExclusive
  <2> QED
    BY <2>1, <2>2, <2>3, LeaveIsQuiet, StepKeepsExclusion
<1> QED
  BY <1>1, <1>2, <1>3, <1>4, <1>6, <1>7, <1>8 DEF CoordinatorStep

\* Each step of the executor, too.
LEMMA ExecutorExclusion ==
  ASSUME ExclusionInv, MaxStay < Lease, NEW w \in Workers, ExecutorStep(w)
  PROVE  ExclusionInv'
<1> TypeInv /\ TypeInv'
  BY ExecutorTypes DEF ExclusionInv
<1>1. ASSUME AcquireCreate(w) PROVE ExclusionInv'
  <2>1. pc[w] = "lockCreate" /\ pc[w] \in LockLabels /\ lockNow[w] \in Nat /\ clock' = clock
    BY <1>1 DEF AcquireCreate, LockLabels, TypeInv, LocalType
  <2>2. CASE IsFree("lock")
    <3>1. CreateProcessing("lock", op[w], lockNow[w]) /\ Reply(w, Hold(w, lastId'))
      BY <1>1, <2>2 DEF AcquireCreate
    <3>2. Claims("lock", lastId', lockNow[w]) /\ rows'["request"] = rows["request"] /\ lastId' \in Nat
      BY <2>1, <3>1, StatementsClaim DEF TypeInv, GlobalType
    <3> QED
      BY <2>1, <2>2, <3>1, <3>2, ClaimableIsUnowned, HoldKeepsExclusion
  <2>3. CASE ~IsFree("lock")
    BY <1>1, <2>1, <2>3, QuietKeepsExclusion, ControlOthers, ControlKeepsRequest
       DEF AcquireCreate, Goto, TypeInv, LocalType, Claimed, Holding, LockLabels, HoldLabels,
           MarkLabels, times
  <2> QED
    BY <2>2, <2>3
<1>2. ASSUME AcquireGet(w) PROVE ExclusionInv'
  <2>1. pc[w] = "lockGet" /\ pc[w] \in LockLabels /\ clock' = clock /\ rows' = rows
    BY <1>2 DEF AcquireGet, LockLabels, store
  <2>2. CASE ExecutorFails(w)
    BY <2>1, <2>2, FailureIsQuiet, QuietKeepsExclusion
  <2>3. CASE ~ExecutorFails(w)
    <3>1. /\ pc' = [pc EXCEPT ![w] = "lockReclaim"]
          /\ UNCHANGED <<keyed, now, recId, lockNow, lockId, renewing>>
      BY <1>2, <2>3 DEF AcquireGet, times, lease
    <3> QED
      BY <2>1, <3>1, QuietKeepsExclusion
         DEF ExclusionInv, TypeInv, LocalType, Others, RequestInv, Claimed, Holding, Owns,
             ClaimLabels, LockLabels, HoldLabels, MarkLabels
  <2> QED
    BY <2>2, <2>3
<1>3. ASSUME AcquireReclaim(w) PROVE ExclusionInv'
  <2>1. /\ pc[w] \in LockLabels /\ clock' = clock /\ lockNow[w] \in Nat /\ lockNow[w] <= clock
        /\ seen[w].id \in Nat
    BY <1>3 DEF AcquireReclaim, LockLabels, ExclusionInv, RequestInv, TypeInv, LocalType, Row
  <2>2. CASE CanReclaim("lock", seen[w].id, seen[w].status, lockNow[w])
    <3>1. /\ Reclaim("lock", lockNow[w]) /\ Reply(w, Hold(w, seen[w].id))
          /\ rows["lock"].id = seen[w].id
      BY <1>3, <2>2 DEF AcquireReclaim, CanReclaim
    <3>2. Claims("lock", seen[w].id, lockNow[w]) /\ rows'["request"] = rows["request"]
      BY <2>1, <3>1, StatementsClaim
    <3>3. Unowned("lock")
      BY <2>1, <2>2, ClaimableIsUnowned
    <3> QED
      BY <2>1, <3>1, <3>2, <3>3, HoldKeepsExclusion
  <2>3. CASE ~CanReclaim("lock", seen[w].id, seen[w].status, lockNow[w])
    BY <1>3, <2>1, <2>3, FailureIsQuiet, QuietKeepsExclusion DEF AcquireReclaim
  <2> QED
    BY <2>2, <2>3
<1>4. ASSUME Operate(w) PROVE ExclusionInv'
  BY <1>4, QuietKeepsExclusion
     DEF Operate, ExclusionInv, TypeInv, LocalType, Others, RequestInv, Claimed, Holding, Owns,
         ClaimLabels, LockLabels, HoldLabels, MarkLabels, store, times, claim
<1>5. ASSUME Release(w) PROVE ExclusionInv'
  <2>1. /\ pc[w] \in HoldLabels /\ clock' = clock /\ Holding(w) /\ AfterRelease(w)
        /\ rows'["request"] = rows["request"]
    BY <1>5 DEF Release, MarkSucceeded, MarkFailedRetryable, HoldLabels, Holding, TypeInv, GlobalType
  <2>2. \A v \in Workers \ {w} : ~Holding(v)
    BY <2>1 DEF ExclusionInv, OperationsExclude, Holding
  <2> QED
    BY <2>1, <2>2, FailureIsQuiet, StepKeepsExclusion
<1>6. ASSUME Renew(w) PROVE ExclusionInv'
  <2>1. Holding(w) /\ clock' = clock /\ rows'["request"] = rows["request"]
    BY <1>6 DEF Renew, ExtendProcessingLock, ExclusionInv, RequestInv, TypeInv, GlobalType
  <2>2. \A v \in Workers \ {w} : ~Holding(v)
    BY <2>1 DEF ExclusionInv, OperationsExclude, Holding
  <2>3. /\ UNCHANGED <<pc, keyed, now, recId, lockNow, lockId>> /\ Others(w)
        /\ (renewing'[w] => renewing[w])
    BY <1>6 DEF Renew, times, claim, Others, TypeInv, LocalType
  <2>4. Owns(w, "lock", lockId[w])'
    <3>1. Owns(w, "lock", lockId[w]) /\ now[w] <= clock
      BY <2>1 DEF ExclusionInv, RequestInv, Holding, HoldLabels
    <3> QED
      BY <1>6, <2>3, <3>1, TimesAssumption
         DEF Renew, ExtendProcessingLock, Owns, TypeInv, LocalType, GlobalType, Row
  <2>5. RequestInv(w)'
    BY <2>1, <2>3, <2>4 DEF ExclusionInv, RequestInv, Claimed, Holding, Owns
  <2> QED
    BY <2>1, <2>2, <2>3, <2>5, StepKeepsExclusion DEF Claimed, Holding
<1> QED
  BY <1>1, <1>2, <1>3, <1>4, <1>5, <1>6 DEF ExecutorStep

\* So do faults, ticks and the cleanup: the cleanup deletes no row that is owned, and
\* the clock stops MaxStay ticks after the oldest request began.
LEMMA ExclusionInductive ==
  ASSUME ExclusionInv, MaxStay < Lease, [Next]_vars
  PROVE  ExclusionInv'
<1> TypeInv /\ TypeInv'
  BY TypeInvInductive DEF ExclusionInv
<1>1. ASSUME NEW w \in Workers, RenewFails(w) PROVE ExclusionInv'
  BY <1>1 DEF RenewFails, store, times, claim, ExclusionInv, RequestInv, Claimed, Holding, Owns,
              ClaimIsExclusive, OperationsExclude
<1>2. ASSUME NEW w \in Workers, StatementFails(w) PROVE ExclusionInv'
  <2>1. clock' = clock /\ rows' = rows /\ pc[w] # "idle"
    BY <1>2 DEF StatementFails, store
  <2>2. CASE Leave(w)
    BY <2>1, <2>2, LeaveIsQuiet, QuietKeepsExclusion
  <2>3. CASE ~Leave(w)
    BY <1>2, <2>1, <2>3, FailureIsQuiet, QuietKeepsExclusion
       DEF StatementFails, OnError, HoldLabels
  <2> QED
    BY <2>2, <2>3
<1>3. ASSUME NEW w \in Workers, Crash(w) PROVE ExclusionInv'
  BY <1>3, LeaveIsQuiet, QuietKeepsExclusion DEF Crash, store
<1>4. ASSUME Tick PROVE ExclusionInv'
  <2>1. /\ UNCHANGED <<rows, pc, keyed, now, recId, lockNow, lockId, renewing>>
        /\ clock' = clock + 1
        /\ \A w \in Workers : pc[w] # "idle" => clock < now[w] + MaxStay
    BY <1>4 DEF Tick, times, claim
  <2>2. ASSUME NEW w \in Workers PROVE RequestInv(w)'
    <3>1. clock \in Nat /\ now[w] \in Nat /\ lockNow[w] \in Nat /\ MaxStay \in Nat /\ RequestInv(w)
      BY StayAssumption DEF TypeInv, LocalType, GlobalType, ExclusionInv
    <3> QED
      BY <2>1, <3>1 DEF RequestInv, Claimed, Holding, Owns
  <2> QED
    BY <2>1, <2>2 DEF ExclusionInv, Claimed, ClaimIsExclusive, OperationsExclude
<1>5. ASSUME NEW k \in {"request", "lock"}, CleanupOnce(k) PROVE ExclusionInv'
  <2>1. Unowned(k)
    BY <1>5, ClaimableIsUnowned DEF CleanupOnce
  <2>2. /\ UNCHANGED <<clock, pc, keyed, now, recId, lockNow, lockId, renewing>>
        /\ \A j \in {"request", "lock"} \ {k} : rows'[j] = rows[j]
    BY <1>5 DEF CleanupOnce, DeleteExpired, times, claim, lease, TypeInv, GlobalType
  <2>3. ASSUME NEW w \in Workers PROVE RequestInv(w)'
    BY <2>1, <2>2 DEF Unowned, ExclusionInv, RequestInv, Claimed, Holding, Owns
  <2> QED
    BY <2>2, <2>3 DEF ExclusionInv, Claimed, ClaimIsExclusive, OperationsExclude
<1>6. ASSUME UNCHANGED vars PROVE ExclusionInv'
  BY <1>6 DEF vars, store, times, claim, lease, ExclusionInv, RequestInv, Claimed, Holding, Owns,
              ClaimIsExclusive, OperationsExclude
<1> QED
  BY <1>1, <1>2, <1>3, <1>4, <1>5, <1>6, CoordinatorExclusion, ExecutorExclusion DEF Next

\* The invariant holds in every state if every request is over before the lease it
\* took ends.
THEOREM ExclusionInvariant ==
  ASSUME MaxStay < Lease
  PROVE  Spec => []ExclusionInv
<1>1. Init => ExclusionInv
  <2> SUFFICES ASSUME Init PROVE ExclusionInv
    OBVIOUS
  <2>1. TypeInv
    BY TypeInvInit
  <2> QED
    BY <2>1 DEF Init, ExclusionInv, RequestInv, Claimed, Holding, ClaimIsExclusive,
       OperationsExclude, ClaimLabels, LockLabels, HoldLabels, MarkLabels
<1>2. ExclusionInv /\ [Next]_vars => ExclusionInv'
  BY ExclusionInductive
<1> QED
  BY <1>1, <1>2, PTL DEF Spec

\* Two requests never execute for one key at the same time (CreateProcessing and
\* TryReclaim), whatever expires, fails, is lost or is deleted, if every request is
\* over before its lease ends.
THEOREM OneRequestPerKey ==
  ASSUME MaxStay < Lease
  PROVE  Spec => []ClaimIsExclusive
<1>1. ExclusionInv => ClaimIsExclusive
  BY DEF ExclusionInv
<1> QED
  BY <1>1, ExclusionInvariant, PTL

\* Update, rollback and restart exclude each other (SystemOperationLockService.Acquire
\* and Release), under the same condition and whether the renew loop runs or not.
THEOREM OneOperationAtATime ==
  ASSUME MaxStay < Lease
  PROVE  Spec => []OperationsExclude
<1>1. ExclusionInv => OperationsExclude
  BY DEF ExclusionInv
<1> QED
  BY <1>1, ExclusionInvariant, PTL

-----------------------------------------------------------------------------
(* What a record says *)

\* A step of w leaves all of the other requests' variables alone.
Alone(w) ==
  /\ Others(w)
  /\ \A v \in Workers \ {w} : op'[v] = op[v] /\ ok'[v] = ok[v] /\ seen'[v] = seen[v]

LEMMA ControlAlone ==
  ASSUME TypeInv, NEW w \in Workers
  PROVE  /\ \A l : Goto(w, l) => Alone(w)
         /\ Leave(w) => Alone(w)
         /\ \A id : StartExecutor(w, id) => Alone(w)
         /\ ExecutorFails(w) => Alone(w)
         /\ \A id : Hold(w, id) => Alone(w)
         /\ AfterRelease(w) => Alone(w)
         /\ OnError(w) => Alone(w)
<1> USE ControlOthers DEF TypeInv, LocalType, Alone
<1>1. \A l : Goto(w, l) => Alone(w)
  BY DEF Goto, times, claim, lease
<1>2. Leave(w) => Alone(w)
  BY DEF Leave
<1>3. \A id : StartExecutor(w, id) => Alone(w)
  BY DEF StartExecutor, times
<1>4. ExecutorFails(w) => Alone(w)
  BY <1>1, <1>2 DEF ExecutorFails
<1>5. \A id : Hold(w, id) => Alone(w)
  BY DEF Hold, times, claim
<1>6. AfterRelease(w) => Alone(w)
  BY <1>2 DEF AfterRelease, times, claim
<1>7. OnError(w) => Alone(w)
  BY <1>2, <1>4, <1>6 DEF OnError
<1> QED
  BY <1>1, <1>2, <1>3, <1>4, <1>5, <1>6, <1>7

\* The steps of one request.
RequestStep(w) ==
  CoordinatorStep(w) \/ ExecutorStep(w) \/ RenewFails(w) \/ StatementFails(w) \/ Crash(w)

LEMMA StepsAlone ==
  ASSUME TypeInv, NEW w \in Workers, RequestStep(w)
  PROVE  Alone(w) /\ clock' = clock
<1> DEFINE P == Alone(w) /\ clock' = clock
<1>1. ASSUME NEW p, Execute(w, p) PROVE P
  BY <1>1 DEF Execute, TypeInv, LocalType, Alone, Others, store, claim, lease
<1>2. ASSUME NEW a, ExecuteWithoutKey(w, a) PROVE P
  BY <1>2 DEF ExecuteWithoutKey, TypeInv, LocalType, Alone, Others, store, claim
<1>3. ASSUME Create(w) \/ ReclaimExpired(w) \/ ReclaimFailed(w) PROVE P
  BY <1>3, ControlAlone DEF Create, ReclaimExpired, ReclaimFailed, Reply
<1>4. ASSUME GetByScopeAndKeyHash(w) \/ GetLatest(w) PROVE P
  <2>1. CASE Leave(w)
    BY <1>4, <2>1, ControlAlone DEF GetByScopeAndKeyHash, GetLatest, store
  <2>2. CASE ~Leave(w)
    BY <1>4, <2>2
    DEF GetByScopeAndKeyHash, GetLatest, Dispatch, store, times, lease, TypeInv, LocalType,
        Alone, Others
  <2> QED
    BY <2>1, <2>2
<1>5. ASSUME MarkRequestFailed(w) \/ MarkRequestSucceeded(w) PROVE P
  BY <1>5, ControlAlone DEF MarkRequestFailed, MarkRequestSucceeded, Reply
<1>6. ASSUME AcquireCreate(w) \/ AcquireReclaim(w) PROVE P
  BY <1>6, ControlAlone DEF AcquireCreate, AcquireReclaim, Reply
<1>7. ASSUME AcquireGet(w) PROVE P
  <2>1. CASE ExecutorFails(w)
    BY <1>7, <2>1, ControlAlone DEF AcquireGet, store
  <2>2. CASE ~ExecutorFails(w)
    BY <1>7, <2>2 DEF AcquireGet, store, times, lease, TypeInv, LocalType, Alone, Others
  <2> QED
    BY <2>1, <2>2
<1>8. ASSUME Operate(w) PROVE P
  BY <1>8 DEF Operate, store, times, claim, TypeInv, LocalType, Alone, Others
<1>9. ASSUME Release(w) PROVE P
  BY <1>9, ControlAlone DEF Release
<1>10. ASSUME Renew(w) \/ RenewFails(w) PROVE P
  BY <1>10 DEF Renew, RenewFails, store, times, claim, TypeInv, LocalType, Alone, Others
<1>11. ASSUME StatementFails(w) \/ Crash(w) PROVE P
  BY <1>11, ControlAlone DEF StatementFails, Crash, store
<1> QED
  BY <1>1, <1>2, <1>3, <1>4, <1>5, <1>6, <1>7, <1>8, <1>9, <1>10, <1>11
  DEF RequestStep, CoordinatorStep, ExecutorStep

\* What is true of one request: the record it claimed, and the one it is about to
\* reclaim if no other took its place, is for its own payload; one that is about to
\* report success did the operation.
SuccessOf(w) ==
  /\ Claimed(w) => rows["request"].fp = op[w]
  /\ pc[w] \in {"reclaimExpired", "reclaim"} =>
       /\ seen[w].id <= lastId
       /\ rows["request"].status # "none" /\ rows["request"].id = seen[w].id
            => rows["request"].fp = op[w]
  /\ pc[w] = "markSucceeded" => op[w] \in executed
  /\ pc[w] = "release" /\ ok[w] /\ keyed[w] => op[w] \in executed

SuccessInv ==
  /\ rows["request"].id <= lastId
  /\ SucceededMeansExecuted
  /\ \A w \in Workers : SuccessOf(w)

\* The record of the key stays the one it was, with its payload.
RecordKept ==
  /\ rows'["request"].id = rows["request"].id /\ rows'["request"].fp = rows["request"].fp
  /\ rows["request"].status = "none" => rows'["request"].status = "none"

\* It does, or nobody owned it and it is deleted or has a new id; when it says that
\* the operation succeeded, it did.
RecordStep ==
  /\ lastId <= lastId' /\ executed \subseteq executed'
  /\ rows'["request"].id <= lastId'
  /\ rows'["request"].status = "succeeded" => rows'["request"].fp \in executed'
  /\ \/ RecordKept
     \/ /\ Unowned("request")
        /\ rows'["request"].status = "none" \/ rows'["request"].id > lastId

\* Such a step keeps what is true of a request that does not move.
LEMMA StillSuccess ==
  ASSUME ExclusionInv, SuccessInv, TypeInv', RecordStep, NEW v \in Workers,
         pc'[v] = pc[v], keyed'[v] = keyed[v], op'[v] = op[v], ok'[v] = ok[v], seen'[v] = seen[v]
  PROVE  SuccessOf(v)'
<1>1. SuccessOf(v) /\ (Claimed(v)' <=> Claimed(v))
  BY DEF SuccessInv, Claimed
<1>2. /\ seen[v].id \in Nat /\ lastId \in Nat /\ lastId' \in Nat
      /\ rows'["request"].id \in Nat /\ rows["request"].id \in Nat
  BY DEF ExclusionInv, TypeInv, LocalType, GlobalType, Row
<1>3. Claimed(v) => rows'["request"].fp = rows["request"].fp
  BY DEF RecordStep, RecordKept, Unowned
<1>4. Claimed(v)' => rows'["request"].fp = op'[v]
  BY <1>1, <1>3 DEF SuccessOf
<1>5. ASSUME pc[v] \in {"reclaimExpired", "reclaim"}
      PROVE  /\ seen[v].id <= lastId'
             /\ rows'["request"].status # "none" /\ rows'["request"].id = seen[v].id
                  => rows'["request"].fp = op[v]
  <2>1. /\ seen[v].id <= lastId /\ lastId <= lastId'
        /\ rows["request"].status # "none" /\ rows["request"].id = seen[v].id
             => rows["request"].fp = op[v]
    BY <1>1, <1>5 DEF SuccessOf, RecordStep
  <2>2. seen[v].id <= lastId'
    BY <1>2, <2>1
  <2>3. CASE RecordKept
    BY <2>1, <2>2, <2>3 DEF RecordKept
  <2>4. CASE rows'["request"].status = "none" \/ rows'["request"].id > lastId
    BY <1>2, <2>1, <2>2, <2>4
  <2> QED
    BY <2>3, <2>4 DEF RecordStep
<1>6. executed \subseteq executed'
  BY DEF RecordStep
<1> QED
  BY <1>1, <1>4, <1>5, <1>6 DEF SuccessOf

LEMMA StepKeepsSuccess ==
  ASSUME ExclusionInv, SuccessInv, TypeInv', NEW w \in Workers, Alone(w), RecordStep,
         SuccessOf(w)'
  PROVE  SuccessInv'
<1>1. ASSUME NEW v \in Workers, v # w PROVE SuccessOf(v)'
  BY <1>1, StillSuccess DEF Alone, Others
<1> QED
  BY <1>1 DEF SuccessInv, SucceededMeansExecuted, RecordStep

\* A step that leaves the record alone.
LEMMA SameRecord ==
  ASSUME TypeInv, SuccessInv, rows'["request"] = rows["request"], lastId' = lastId,
         executed \subseteq executed'
  PROVE  RecordStep /\ RecordKept
<1>1. lastId <= lastId' /\ rows["request"].id <= lastId'
  BY DEF SuccessInv, TypeInv, GlobalType
<1> QED
  BY <1>1 DEF SuccessInv, SucceededMeansExecuted, RecordStep, RecordKept

\* The ways for a request to go on that keep what is true of it.
LEMMA ControlSuccess ==
  ASSUME ExclusionInv, SuccessInv, NEW w \in Workers, pc[w] # "idle",
         RecordKept, executed \subseteq executed'
  PROVE  /\ Leave(w) => SuccessOf(w)'
         /\ pc[w] \in LockLabels /\ ExecutorFails(w) => SuccessOf(w)'
         /\ pc[w] \in LockLabels /\ (\E id : Hold(w, id)) => SuccessOf(w)'
         /\ pc[w] \in LockLabels /\ Goto(w, "lockGet") => SuccessOf(w)'
         /\ pc[w] = "release" /\ AfterRelease(w) => SuccessOf(w)'
         /\ OnError(w) => SuccessOf(w)'
<1> USE DEF ExclusionInv, TypeInv, LocalType, SuccessInv, SuccessOf, RecordKept, Claimed,
            LockLabels, HoldLabels, MarkLabels
<1>1. Leave(w) => SuccessOf(w)'
  BY DEF Leave
<1>2. pc[w] \in LockLabels /\ ExecutorFails(w) => SuccessOf(w)'
  BY <1>1 DEF ExecutorFails, Goto, times, claim, lease
<1>3. pc[w] \in LockLabels /\ (\E id : Hold(w, id)) => SuccessOf(w)'
  BY DEF Hold, times, claim
<1>4. pc[w] \in LockLabels /\ Goto(w, "lockGet") => SuccessOf(w)'
  BY DEF Goto, times, claim, lease
<1>5. pc[w] = "release" /\ AfterRelease(w) => SuccessOf(w)'
  BY <1>1 DEF AfterRelease, times, claim
<1>6. OnError(w) => SuccessOf(w)'
  BY <1>1, <1>2, <1>5 DEF OnError
<1> QED
  BY <1>1, <1>2, <1>3, <1>4, <1>5, <1>6

\* A reclaim of the record is a step of a record that nobody owned, for the payload
\* of its first owner.
LEMMA ReclaimSuccess ==
  ASSUME ExclusionInv, SuccessInv, NEW w \in Workers, NEW t \in Nat, NEW s,
         pc[w] \in {"reclaimExpired", "reclaim"}, CanReclaim("request", seen[w].id, s, t),
         Reclaim("request", t), Reply(w, StartExecutor(w, seen[w].id)),
         lastId' = lastId, executed' = executed
  PROVE  RecordStep /\ SuccessOf(w)'
<1>1. /\ rows["request"].status # "none" /\ rows["request"].id = seen[w].id
      /\ rows["request"].fp = op[w]
  BY DEF SuccessInv, SuccessOf, CanReclaim
<1>2. /\ rows'["request"].id = rows["request"].id /\ rows'["request"].fp = rows["request"].fp
      /\ rows'["request"].status = "processing"
  BY DEF Reclaim, ExclusionInv, TypeInv, GlobalType, Row
<1>3. RecordKept
  BY <1>1, <1>2 DEF RecordKept
<1>4. lastId <= lastId' /\ rows'["request"].id <= lastId'
  BY <1>2 DEF SuccessInv, ExclusionInv, TypeInv, GlobalType
<1>5. RecordStep
  BY <1>2, <1>3, <1>4 DEF RecordStep
<1>6. StartExecutor(w, seen[w].id) \/ Leave(w)
  BY DEF Reply, OnError, LockLabels
<1>7. SuccessOf(w)'
  <2>1. CASE Leave(w)
    BY <1>3, <2>1, ControlSuccess
  <2>2. CASE StartExecutor(w, seen[w].id)
    BY <1>1, <1>2, <2>2
       DEF StartExecutor, times, SuccessOf, Claimed, LockLabels, HoldLabels, MarkLabels,
           ExclusionInv, TypeInv, LocalType
  <2> QED
    BY <1>6, <2>1, <2>2
<1> QED
  BY <1>5, <1>7

\* Reading the record: a request goes on with one that is for its payload.
LEMMA ReadSuccess ==
  ASSUME ExclusionInv, SuccessInv, NEW w \in Workers, pc[w] # "idle",
         rows' = rows, lastId' = lastId, executed' = executed,
         \/ Leave(w)
         \/ /\ rows["request"].fp = op[w]
            /\ seen' = [seen EXCEPT ![w] = rows["request"]] /\ op' = op
            /\ pc' = [pc EXCEPT ![w] = "reclaim"] \/ pc' = [pc EXCEPT ![w] = "reclaimExpired"]
  PROVE  SuccessOf(w)'
<1>1. CASE Leave(w)
  BY <1>1, ControlSuccess DEF RecordKept
<1>2. CASE /\ rows["request"].fp = op[w]
           /\ seen' = [seen EXCEPT ![w] = rows["request"]] /\ op' = op
           /\ pc' = [pc EXCEPT ![w] = "reclaim"] \/ pc' = [pc EXCEPT ![w] = "reclaimExpired"]
  <2>1. /\ seen'[w] = rows["request"] /\ op'[w] = op[w] /\ rows["request"].fp = op[w]
        /\ pc'[w] = "reclaim" \/ pc'[w] = "reclaimExpired"
        /\ rows["request"].id <= lastId
    BY <1>2 DEF SuccessInv, ExclusionInv, TypeInv, LocalType
  <2> QED
    BY <2>1 DEF SuccessOf, Claimed, LockLabels, HoldLabels, MarkLabels
<1> QED
  BY <1>1, <1>2

\* Every step of the coordinator keeps SuccessInv.
LEMMA CoordinatorSuccess ==
  ASSUME ExclusionInv, SuccessInv, MaxStay < Lease, NEW w \in Workers, CoordinatorStep(w)
  PROVE  RecordStep /\ SuccessOf(w)'
<1> DEFINE P == RecordStep /\ SuccessOf(w)'
<1> TypeInv
  BY DEF ExclusionInv
<1>1. ASSUME NEW p \in Payloads, Execute(w, p) PROVE P
  <2>1. RecordStep
    BY <1>1, SameRecord DEF Execute, store, history
  <2> QED
    BY <1>1, <2>1 DEF Execute, SuccessOf, Claimed, LockLabels, HoldLabels, MarkLabels, TypeInv,
                      LocalType
<1>2. ASSUME NEW a \in Anon, ExecuteWithoutKey(w, a) PROVE P
  <2>1. RecordStep
    BY <1>2, SameRecord DEF ExecuteWithoutKey, store, history
  <2>2. pc'[w] = "lockCreate" /\ ~keyed'[w]
    BY <1>2 DEF ExecuteWithoutKey, ExclusionInv, RequestInv, TypeInv, LocalType
  <2> QED
    BY <2>1, <2>2 DEF SuccessOf, Claimed
<1>3. ASSUME Create(w), IsFree("request") PROVE P
  <2>1. /\ CreateProcessing("request", op[w], now[w]) /\ Reply(w, StartExecutor(w, lastId'))
        /\ executed' = executed /\ pc[w] = "create"
    BY <1>3 DEF Create, history
  <2>2. /\ rows'["request"].id = lastId + 1 /\ rows'["request"].fp = op[w]
        /\ rows'["request"].status = "processing" /\ lastId' = lastId + 1
    BY <2>1 DEF CreateProcessing, TypeInv, GlobalType
  <2>3. Unowned("request")
    BY <1>3, ClaimableIsUnowned
  <2>4. lastId <= lastId' /\ rows'["request"].id <= lastId' /\ rows'["request"].id > lastId
    BY <2>2 DEF TypeInv, GlobalType
  <2>5. RecordStep
    BY <2>1, <2>2, <2>3, <2>4 DEF RecordStep
  <2>6. StartExecutor(w, lastId') \/ Leave(w)
    BY <2>1 DEF Reply, OnError, LockLabels
  <2>7. CASE Leave(w)
    BY <2>5, <2>7 DEF Leave, SuccessOf, Claimed, TypeInv, LocalType, LockLabels, HoldLabels,
                      MarkLabels
  <2>8. CASE StartExecutor(w, lastId')
    BY <2>2, <2>5, <2>8 DEF StartExecutor, times, SuccessOf, Claimed, TypeInv, LocalType
  <2> QED
    BY <2>6, <2>7, <2>8
<1>4. ASSUME \/ Create(w) /\ ~IsFree("request")
             \/ ReclaimExpired(w) /\ ~CanReclaim("request", seen[w].id, seen[w].status, now[w])
      PROVE  P
  <2>1. /\ rows' = rows /\ lastId' = lastId /\ executed' = executed
        /\ Goto(w, "get") \/ Goto(w, "getLatest")
    BY <1>4 DEF Create, ReclaimExpired, history
  <2>2. pc'[w] \in {"get", "getLatest"}
    BY <2>1 DEF Goto, TypeInv, LocalType
  <2> QED
    BY <2>1, <2>2, SameRecord DEF SuccessOf, Claimed, LockLabels, HoldLabels, MarkLabels
<1>5. ASSUME ReclaimExpired(w), CanReclaim("request", seen[w].id, seen[w].status, now[w]) PROVE P
  BY <1>5, ReclaimSuccess DEF ReclaimExpired, TypeInv, LocalType
<1>6. ASSUME GetByScopeAndKeyHash(w) \/ GetLatest(w) PROVE P
  <2>1. rows' = rows /\ lastId' = lastId /\ executed' = executed /\ pc[w] # "idle"
    BY <1>6 DEF GetByScopeAndKeyHash, GetLatest, store, history
  <2>2. \/ Leave(w)
        \/ /\ rows["request"].fp = op[w]
           /\ seen' = [seen EXCEPT ![w] = rows["request"]] /\ op' = op
           /\ pc' = [pc EXCEPT ![w] = "reclaim"] \/ pc' = [pc EXCEPT ![w] = "reclaimExpired"]
    BY <1>6 DEF GetByScopeAndKeyHash, GetLatest, Dispatch, times
  <2> QED
    BY <2>1, <2>2, SameRecord, ReadSuccess
<1>7. ASSUME ReclaimFailed(w), CanReclaim("request", seen[w].id, "failed_retryable", now[w])
      PROVE  P
  BY <1>7, ReclaimSuccess DEF ReclaimFailed, history, TypeInv, LocalType
<1>8. ASSUME ReclaimFailed(w), ~CanReclaim("request", seen[w].id, "failed_retryable", now[w])
      PROVE  P
  BY <1>8, SameRecord, ControlSuccess DEF ReclaimFailed, history
<1>9. ASSUME MarkRequestFailed(w) \/ MarkRequestSucceeded(w) PROVE P
  <2>1. /\ pc[w] \in MarkLabels /\ Reply(w, Leave(w)) /\ Claimed(w)
        /\ lastId' = lastId /\ executed' = executed
    BY <1>9 DEF MarkRequestFailed, MarkRequestSucceeded, MarkLabels, history, ExclusionInv,
                RequestInv, Claimed
  <2>2. /\ rows["request"].status = "processing" /\ rows["request"].fp = op[w]
        /\ pc[w] = "markSucceeded" => op[w] \in executed
    BY <2>1 DEF ExclusionInv, RequestInv, Owns, SuccessInv, SuccessOf
  <2>3. /\ rows'["request"].id = rows["request"].id /\ rows'["request"].fp = rows["request"].fp
        /\ rows'["request"].status = "succeeded" => pc[w] = "markSucceeded"
    BY <1>9, <2>2 DEF MarkRequestFailed, MarkRequestSucceeded, MarkFailedRetryable, MarkSucceeded,
                      TypeInv, GlobalType, Row
  <2>4. RecordKept /\ rows'["request"].id <= lastId' /\ lastId <= lastId'
    BY <2>1, <2>2, <2>3 DEF RecordKept, SuccessInv, TypeInv, GlobalType
  <2>5. RecordStep
    BY <2>1, <2>2, <2>3, <2>4 DEF RecordStep
  <2>6. Leave(w) /\ pc[w] # "idle"
    BY <2>1 DEF Reply, OnError, MarkLabels, LockLabels
  <2> QED
    BY <2>1, <2>4, <2>5, <2>6, ControlSuccess
<1> QED
  BY <1>1, <1>2, <1>3, <1>4, <1>5, <1>6, <1>7, <1>8, <1>9 DEF CoordinatorStep

\* So does every step of the executor, which writes the row of the lock only.
LEMMA ExecutorSuccess ==
  ASSUME ExclusionInv, SuccessInv, NEW w \in Workers, ExecutorStep(w)
  PROVE  RecordStep /\ SuccessOf(w)'
<1> DEFINE P == RecordStep /\ SuccessOf(w)'
<1> TypeInv
  BY DEF ExclusionInv
<1>1. ASSUME AcquireCreate(w), IsFree("lock") PROVE P
  <2>1. /\ CreateProcessing("lock", op[w], lockNow[w]) /\ Reply(w, Hold(w, lastId'))
        /\ executed' = executed /\ pc[w] = "lockCreate"
    BY <1>1 DEF AcquireCreate, history
  <2>2. rows'["request"] = rows["request"] /\ lastId' = lastId + 1 /\ lastId \in Nat
    BY <2>1 DEF CreateProcessing, TypeInv, GlobalType
  <2>3. lastId <= lastId' /\ rows'["request"].id <= lastId' /\ RecordKept
    BY <2>2 DEF SuccessInv, RecordKept, TypeInv, GlobalType, Row
  <2>4. RecordStep
    BY <2>1, <2>2, <2>3 DEF RecordStep, SuccessInv, SucceededMeansExecuted
  <2> QED
    BY <2>1, <2>3, <2>4, ControlSuccess DEF Reply, LockLabels
<1>2. ASSUME AcquireCreate(w), ~IsFree("lock") PROVE P
  BY <1>2, SameRecord, ControlSuccess DEF AcquireCreate, history, LockLabels
<1>3. ASSUME AcquireGet(w) PROVE P
  <2>1. /\ rows' = rows /\ lastId' = lastId /\ executed' = executed
        /\ pc[w] # "idle" /\ pc[w] \in LockLabels
    BY <1>3 DEF AcquireGet, store, history, LockLabels
  <2>2. CASE ExecutorFails(w)
    BY <2>1, <2>2, SameRecord, ControlSuccess
  <2>3. CASE ~ExecutorFails(w)
    BY <1>3, <2>1, <2>3, SameRecord
       DEF AcquireGet, times, SuccessInv, SuccessOf, Claimed, LockLabels, TypeInv, LocalType
  <2> QED
    BY <2>2, <2>3
<1>4. ASSUME AcquireReclaim(w) PROVE P
  <2>1. /\ rows'["request"] = rows["request"] /\ lastId' = lastId /\ executed' = executed
        /\ pc[w] # "idle" /\ pc[w] \in LockLabels
    BY <1>4 DEF AcquireReclaim, Reclaim, history, LockLabels, TypeInv, GlobalType
  <2> QED
    BY <1>4, <2>1, SameRecord, ControlSuccess DEF AcquireReclaim, Reply
<1>5. ASSUME Operate(w) PROVE P
  <2>1. /\ rows' = rows /\ lastId' = lastId /\ op' = op /\ keyed' = keyed
        /\ executed \subseteq executed' /\ pc[w] = "operate" /\ pc'[w] = "release"
        /\ ok'[w] /\ keyed[w] => op[w] \in executed'
    BY <1>5 DEF Operate, store, times, TypeInv, LocalType
  <2> QED
    BY <2>1, SameRecord DEF SuccessInv, SuccessOf, Claimed, HoldLabels
<1>6. ASSUME Release(w) PROVE P
  <2>1. /\ rows'["request"] = rows["request"] /\ lastId' = lastId /\ executed' = executed
        /\ pc[w] # "idle" /\ pc[w] = "release"
    BY <1>6 DEF Release, MarkSucceeded, MarkFailedRetryable, history, TypeInv, GlobalType
  <2> QED
    BY <1>6, <2>1, SameRecord, ControlSuccess DEF Release
<1>7. ASSUME Renew(w) PROVE P
  <2>1. /\ rows'["request"] = rows["request"] /\ lastId' = lastId /\ executed' = executed
        /\ UNCHANGED <<pc, keyed, op, seen, ok>>
    BY <1>7 DEF Renew, ExtendProcessingLock, times, claim, history, TypeInv, GlobalType
  <2> QED
    BY <2>1, SameRecord DEF SuccessInv, SuccessOf, Claimed
<1> QED
  BY <1>1, <1>2, <1>3, <1>4, <1>5, <1>6, <1>7 DEF ExecutorStep

LEMMA SuccessInductive ==
  ASSUME ExclusionInv, SuccessInv, MaxStay < Lease, [Next]_vars
  PROVE  SuccessInv'
<1> TypeInv /\ TypeInv'
  BY TypeInvInductive DEF ExclusionInv
<1>1. ASSUME NEW w \in Workers, RequestStep(w) PROVE SuccessInv'
  <2>1. RecordStep /\ SuccessOf(w)'
    <3>1. CASE RenewFails(w)
      BY <3>1, SameRecord DEF RenewFails, store, times, claim, history, SuccessInv, SuccessOf,
                              Claimed
    <3>2. CASE StatementFails(w) \/ Crash(w)
      BY <3>2, SameRecord, ControlSuccess DEF StatementFails, Crash, store, history
    <3> QED
      BY <1>1, <3>1, <3>2, CoordinatorSuccess, ExecutorSuccess DEF RequestStep
  <2> QED
    BY <1>1, <2>1, StepsAlone, StepKeepsSuccess
<1>2. ASSUME NEW k \in {"request", "lock"}, CleanupOnce(k) PROVE SuccessInv'
  <2>1. RecordStep
    <3>1. CASE k = "lock"
      BY <1>2, <3>1, SameRecord DEF CleanupOnce, DeleteExpired, history, TypeInv, GlobalType
    <3>2. CASE k = "request"
      <4>1. Unowned("request")
        BY <1>2, <3>2, ClaimableIsUnowned DEF CleanupOnce
      <4>2. rows'["request"] = NoRow /\ lastId' = lastId /\ executed' = executed
        BY <1>2, <3>2 DEF CleanupOnce, DeleteExpired, history, TypeInv, GlobalType
      <4> QED
        BY <4>1, <4>2 DEF RecordStep, NoRow, TypeInv, GlobalType
    <3> QED
      BY <3>1, <3>2
  <2>2. UNCHANGED <<pc, keyed, op, ok, seen>>
    BY <1>2 DEF CleanupOnce, times, claim, lease
  <2> QED
    BY <2>1, <2>2, StillSuccess DEF RecordStep, SuccessInv, SucceededMeansExecuted
<1>3. ASSUME Tick \/ UNCHANGED vars PROVE SuccessInv'
  BY <1>3 DEF Tick, vars, store, times, claim, lease, history, SuccessInv, SucceededMeansExecuted,
              SuccessOf, Claimed
<1> QED
  BY <1>1, <1>2, <1>3 DEF Next, RequestStep

\* A record says succeeded only for a payload that was executed (MarkSucceeded trusts
\* the id alone), if every request is over before its lease ends.
THEOREM SuccessIsExecuted ==
  ASSUME MaxStay < Lease
  PROVE  Spec => []SucceededMeansExecuted
<1>1. Init => SuccessInv
  BY DEF Init, StoreInit, NoRow, SuccessInv, SuccessOf, SucceededMeansExecuted, Claimed,
         LockLabels, HoldLabels, MarkLabels
<1>2. ExclusionInv /\ SuccessInv /\ [Next]_vars => SuccessInv'
  BY SuccessInductive
<1>3. SuccessInv => SucceededMeansExecuted
  BY DEF SuccessInv
<1> QED
  BY <1>1, <1>2, <1>3, ExclusionInvariant, PTL DEF Spec

-----------------------------------------------------------------------------
(* The side effect of a key *)

\* The request w did the last effect of the key and is on its way to report it.
Done(w) == ok[w] /\ pc[w] \in {"release", "markSucceeded"} /\ effectUntil = now[w] + TTL

\* While its effect must not be repeated, the record is neither free nor failed, does
\* not expire earlier, and nobody owns it but the request that did the effect.
Protected ==
  /\ rows["request"].status \in {"processing", "succeeded"}
  /\ rows["request"].expires >= effectUntil
  /\ \A w \in Workers : Claimed(w) => Done(w)

EffectInv == takenOver \/ (~repeated /\ (clock < effectUntil => Protected))

\* A request that did the effect does it no more, and goes on to report success.
LEMMA DoneStaysDone ==
  ASSUME TypeInv, NEW w \in Workers, Done(w), keyed[w], RequestStep(w)
  PROVE  /\ effectUntil' = effectUntil /\ repeated' = repeated
         /\ Claimed(w)' => Done(w)'
<1> USE DEF Done, TypeInv, LocalType
<1>1. CASE Release(w) \/ (StatementFails(w) /\ pc[w] = "release")
  <2>1. AfterRelease(w) /\ effectUntil' = effectUntil /\ repeated' = repeated /\ pc[w] = "release"
    BY <1>1 DEF Release, StatementFails, OnError, history, LockLabels, ClaimLabels, MarkLabels
  <2> QED
    BY <2>1 DEF AfterRelease, times, claim
<1>2. CASE \/ MarkRequestSucceeded(w)
           \/ StatementFails(w) /\ pc[w] = "markSucceeded"
           \/ Crash(w)
  <2>1. Leave(w) /\ effectUntil' = effectUntil /\ repeated' = repeated
    BY <1>2 DEF MarkRequestSucceeded, Reply, StatementFails, Crash, OnError, history, LockLabels
  <2> QED
    BY <2>1 DEF Leave, Claimed, LockLabels, HoldLabels, MarkLabels
<1>3. CASE Renew(w) \/ RenewFails(w)
  BY <1>3 DEF Renew, RenewFails, times, claim, history
<1> QED
  BY <1>1, <1>2, <1>3
  DEF RequestStep, CoordinatorStep, ExecutorStep, Execute, ExecuteWithoutKey, Create,
      GetByScopeAndKeyHash, ReclaimExpired, GetLatest, ReclaimFailed, MarkRequestFailed,
      AcquireCreate, AcquireGet, AcquireReclaim, Operate, StatementFails

\* While the record is protected, no other request claims it, unless it takes it over.
LEMMA ProtectedIsNotClaimed ==
  ASSUME ExclusionInv, Protected, clock < effectUntil, NEW w \in Workers, ~Claimed(w),
         RequestStep(w), ~takenOver'
  PROVE  /\ ~Claimed(w)' /\ rows'["request"] = rows["request"]
         /\ effectUntil' = effectUntil /\ repeated' = repeated
<1> DEFINE P == /\ ~Claimed(w)' /\ rows'["request"] = rows["request"]
                /\ effectUntil' = effectUntil /\ repeated' = repeated
<1> USE DEF ExclusionInv, TypeInv, LocalType, GlobalType
<1>1. ~IsFree("request") /\ rows["request"].status # "failed_retryable"
  BY DEF Protected, IsFree
<1>2. pc[w] \notin ClaimLabels \cup MarkLabels \cup {"idle"} => ~keyed[w]
  BY DEF Claimed, Labels
<1>3. pc[w] \notin MarkLabels /\ (pc[w] \in LockLabels \cup HoldLabels => ~keyed[w])
  BY DEF Claimed, RequestInv
<1>4. Leave(w) => ~Claimed(w)'
  BY DEF Leave, Claimed, LockLabels, HoldLabels, MarkLabels
<1>5. ASSUME \/ \E p \in Payloads : Execute(w, p)
             \/ \E a \in Anon : ExecuteWithoutKey(w, a)
      PROVE  P
  BY <1>5 DEF Execute, ExecuteWithoutKey, Claimed, RequestInv, store, history, LockLabels,
              HoldLabels, MarkLabels
<1>6. ASSUME Create(w) \/ GetByScopeAndKeyHash(w) \/ GetLatest(w) PROVE P
  <2>1. rows'["request"] = rows["request"] /\ effectUntil' = effectUntil /\ repeated' = repeated
    BY <1>1, <1>6 DEF Create, GetByScopeAndKeyHash, GetLatest, store, history
  <2>2. Leave(w) \/ pc'[w] \in ClaimLabels
    BY <1>1, <1>6 DEF Create, GetByScopeAndKeyHash, GetLatest, Dispatch, Goto, ClaimLabels
  <2> QED
    BY <1>4, <2>1, <2>2 DEF Claimed, ClaimLabels, LockLabels, HoldLabels, MarkLabels
<1>7. ASSUME ReclaimExpired(w) PROVE P
  <2>1. now[w] <= clock
    BY <1>7 DEF ReclaimExpired, RequestInv
  <2>2. rows["request"].expires > now[w]
    BY <2>1 DEF Protected, Row
  <2>3. ~CanReclaim("request", seen[w].id, seen[w].status, now[w])
    BY <1>7, <2>2 DEF ReclaimExpired
  <2>4. Goto(w, "getLatest") /\ rows' = rows /\ effectUntil' = effectUntil /\ repeated' = repeated
    BY <1>7, <2>3 DEF ReclaimExpired
  <2> QED
    BY <2>4 DEF Goto, Claimed, LockLabels, HoldLabels, MarkLabels
<1>8. ASSUME ReclaimFailed(w) PROVE P
  BY <1>1, <1>4, <1>8 DEF ReclaimFailed, CanReclaim, history
<1>9. ASSUME ExecutorStep(w) \/ RenewFails(w) PROVE P
  <2>1. ~keyed[w]
    <3>1. pc[w] \in LockLabels \cup HoldLabels
      BY <1>9 DEF ExecutorStep, AcquireCreate, AcquireGet, AcquireReclaim, Operate, Release, Renew,
                  RenewFails, RequestInv, Holding, LockLabels, HoldLabels
    <3> QED
      BY <1>3, <3>1
  <2>2. ~keyed'[w]
    <3>1. ASSUME ExecutorFails(w) \/ AfterRelease(w) \/ (\E id : Hold(w, id)) PROVE ~keyed'[w]
      BY <2>1, <3>1 DEF ExecutorFails, AfterRelease, Hold, Leave, times
    <3>2. CASE AcquireCreate(w) \/ AcquireReclaim(w)
      BY <2>1, <3>1, <3>2 DEF AcquireCreate, AcquireReclaim, Reply, OnError, LockLabels,
                              ClaimLabels, MarkLabels, Goto, times
    <3>3. CASE AcquireGet(w) \/ Release(w)
      BY <2>1, <3>1, <3>3 DEF AcquireGet, Release, times
    <3>4. CASE Operate(w) \/ Renew(w) \/ RenewFails(w)
      BY <2>1, <3>4 DEF Operate, Renew, RenewFails, times
    <3> QED
      BY <1>9, <3>2, <3>3, <3>4 DEF ExecutorStep
  <2>3. rows'["request"] = rows["request"]
    <3>1. CASE AcquireCreate(w) \/ AcquireReclaim(w) \/ Release(w) \/ Renew(w)
      BY <3>1 DEF AcquireCreate, AcquireReclaim, Release, Renew, CreateProcessing, Reclaim,
                  MarkSucceeded, MarkFailedRetryable, ExtendProcessingLock
    <3> QED
      BY <1>9, <3>1 DEF ExecutorStep, AcquireGet, Operate, RenewFails, store
  <2>4. effectUntil' = effectUntil /\ repeated' = repeated
    BY <1>9, <2>1 DEF ExecutorStep, AcquireCreate, AcquireGet, AcquireReclaim, Operate, Release,
                      Renew, RenewFails, history
  <2> QED
    BY <2>2, <2>3, <2>4 DEF Claimed
<1>10. ASSUME StatementFails(w) \/ Crash(w) PROVE P
  <2>1. rows' = rows /\ effectUntil' = effectUntil /\ repeated' = repeated
    BY <1>10 DEF StatementFails, Crash, store, history
  <2>2. ~Claimed(w)'
    <3>1. Leave(w) \/ (~keyed[w] /\ (ExecutorFails(w) \/ AfterRelease(w)))
      BY <1>3, <1>10 DEF StatementFails, Crash, OnError, HoldLabels
    <3> QED
      BY <1>4, <3>1 DEF ExecutorFails, AfterRelease
  <2> QED
    BY <2>1, <2>2
<1>11. ~MarkRequestFailed(w) /\ ~MarkRequestSucceeded(w)
  BY <1>3 DEF MarkRequestFailed, MarkRequestSucceeded, MarkLabels
<1> QED
  BY <1>5, <1>6, <1>7, <1>8, <1>9, <1>10, <1>11 DEF RequestStep, CoordinatorStep

\* What a request that did the effect writes: nothing, or the record of its success.
LEMMA DoneKeepsRecord ==
  ASSUME ExclusionInv, Protected, NEW w \in Workers, Done(w), keyed[w], RequestStep(w)
  PROVE  /\ rows'["request"].status \in {"processing", "succeeded"}
         /\ rows'["request"].expires >= effectUntil
<1> USE DEF ExclusionInv, TypeInv, LocalType, GlobalType, Done
<1>1. CASE MarkRequestSucceeded(w)
  <2>1. \/ rows'["request"].status = "succeeded" /\ rows'["request"].expires = effectUntil
        \/ rows'["request"] = rows["request"]
    BY <1>1 DEF MarkRequestSucceeded, MarkSucceeded, Row
  <2> QED
    BY <2>1 DEF Protected
<1>2. CASE Release(w) \/ Renew(w)
  BY <1>2 DEF Release, Renew, MarkSucceeded, MarkFailedRetryable, ExtendProcessingLock, Protected
<1>3. CASE RenewFails(w) \/ StatementFails(w) \/ Crash(w)
  BY <1>3 DEF RenewFails, StatementFails, Crash, store, Protected
<1> QED
  BY <1>1, <1>2, <1>3
  DEF RequestStep, CoordinatorStep, ExecutorStep, Execute, ExecuteWithoutKey, Create,
      GetByScopeAndKeyHash, ReclaimExpired, GetLatest, ReclaimFailed, MarkRequestFailed,
      AcquireCreate, AcquireGet, AcquireReclaim, Operate

\* Every step of a request keeps the effect protected: only the operation of a request
\* that owns the record, after the last effect may be repeated, makes a new one.
LEMMA RequestStepEffect ==
  ASSUME ExclusionInv, EffectInv, NEW w \in Workers, RequestStep(w), ~takenOver'
  PROVE  EffectInv'
<1> TypeInv /\ clock' = clock /\ Alone(w)
  BY StepsAlone DEF ExclusionInv
<1> ~takenOver
  BY DEF RequestStep, CoordinatorStep, ExecutorStep, Execute, ExecuteWithoutKey, Create,
         GetByScopeAndKeyHash, ReclaimExpired, GetLatest, ReclaimFailed, MarkRequestFailed,
         MarkRequestSucceeded, AcquireCreate, AcquireGet, AcquireReclaim, Operate, Release, Renew,
         RenewFails, StatementFails, Crash, history, TypeInv, GlobalType
<1>1. ~repeated /\ (clock < effectUntil => Protected)
  BY DEF EffectInv
<1>2. ASSUME NEW v \in Workers, v # w, effectUntil' = effectUntil
      PROVE  (Claimed(v)' <=> Claimed(v)) /\ (Done(v)' <=> Done(v))
  BY <1>2 DEF Alone, Others, Claimed, Done
<1>3. CASE Operate(w)
  <2>1. CASE ok'[w] /\ keyed[w]
    <3>1. /\ pc[w] = "operate" /\ pc'[w] = "release" /\ keyed'[w] /\ now'[w] = now[w]
          /\ effectUntil' = now[w] + TTL /\ repeated' = (repeated \/ clock < effectUntil)
          /\ rows' = rows
      BY <1>3, <2>1 DEF Operate, store, times, TypeInv, LocalType
    <3>2. Claimed(w) /\ ~Done(w)
      BY <2>1, <3>1 DEF Claimed, Done, HoldLabels
    <3>3. ~repeated'
      BY <1>1, <3>1, <3>2 DEF Protected
    <3>4. Owns(w, "request", recId[w])
      BY <3>2 DEF ExclusionInv, RequestInv
    <3>5. Done(w)'
      BY <2>1, <3>1 DEF Done
    <3>6. \A v \in Workers \ {w} : ~Claimed(v)'
      BY <3>2 DEF ExclusionInv, ClaimIsExclusive, Alone, Others, Claimed
    <3>7. Protected'
      BY <3>1, <3>4, <3>5, <3>6 DEF Protected, Owns
    <3> QED
      BY <3>3, <3>7 DEF EffectInv
  <2>2. CASE ~(ok'[w] /\ keyed[w])
    <3>1. /\ pc[w] = "operate" /\ effectUntil' = effectUntil /\ repeated' = repeated
          /\ rows' = rows /\ keyed'[w] = keyed[w]
      BY <1>3, <2>2 DEF Operate, store, times, TypeInv, LocalType
    <3>2. clock < effectUntil => ~Claimed(w)
      BY <1>1, <3>1 DEF Protected, Done
    <3>3. clock < effectUntil => ~keyed[w]
      BY <3>1, <3>2 DEF Claimed, HoldLabels
    <3> QED
      BY <1>1, <1>2, <3>1, <3>3 DEF EffectInv, Protected, Claimed
  <2> QED
    BY <2>1, <2>2
<1>4. CASE ~Operate(w)
  <2>1. effectUntil' = effectUntil /\ repeated' = repeated
    BY <1>4 DEF RequestStep, CoordinatorStep, ExecutorStep, Execute, ExecuteWithoutKey, Create,
         GetByScopeAndKeyHash, ReclaimExpired, GetLatest, ReclaimFailed, MarkRequestFailed,
         MarkRequestSucceeded, AcquireCreate, AcquireGet, AcquireReclaim, Release, Renew,
         RenewFails, StatementFails, Crash, history
  <2>2. ASSUME clock < effectUntil PROVE Protected'
    <3>1. Protected
      BY <1>1, <2>2
    <3>2. CASE Claimed(w)
      <4>1. Done(w) /\ keyed[w]
        BY <3>1, <3>2 DEF Protected, Claimed
      <4>2. Claimed(w)' => Done(w)'
        BY <4>1, DoneStaysDone
      <4>3. /\ rows'["request"].status \in {"processing", "succeeded"}
            /\ rows'["request"].expires >= effectUntil
        BY <3>1, <4>1, DoneKeepsRecord
      <4> QED
        BY <1>2, <2>1, <3>1, <4>2, <4>3 DEF Protected
    <3>3. CASE ~Claimed(w)
      <4>1. ~Claimed(w)' /\ rows'["request"] = rows["request"]
        BY <2>2, <3>1, <3>3, ProtectedIsNotClaimed
      <4> QED
        BY <1>2, <2>1, <3>1, <4>1 DEF Protected
    <3> QED
      BY <3>2, <3>3
  <2> QED
    BY <1>1, <2>1, <2>2 DEF EffectInv
<1> QED
  BY <1>3, <1>4

LEMMA EffectInductive ==
  ASSUME ExclusionInv, EffectInv, [Next]_vars
  PROVE  EffectInv'
<1> TypeInv
  BY DEF ExclusionInv
<1>1. CASE takenOver'
  BY <1>1 DEF EffectInv
<1>2. ASSUME ~takenOver', NEW w \in Workers, RequestStep(w) PROVE EffectInv'
  BY <1>2, RequestStepEffect
<1>3. ASSUME ~takenOver', Tick PROVE EffectInv'
  <2>1. /\ clock' = clock + 1 /\ rows' = rows
        /\ UNCHANGED <<pc, keyed, now, ok, effectUntil, repeated, takenOver>>
    BY <1>3 DEF Tick, times, claim, history
  <2>2. clock' < effectUntil => clock < effectUntil
    BY <2>1 DEF TypeInv, GlobalType
  <2> QED
    BY <1>3, <2>1, <2>2 DEF EffectInv, Protected, Claimed, Done
<1>4. ASSUME ~takenOver', NEW k \in {"request", "lock"}, CleanupOnce(k) PROVE EffectInv'
  <2>1. UNCHANGED <<clock, pc, keyed, now, ok, effectUntil, repeated, takenOver>>
    BY <1>4 DEF CleanupOnce, times, claim, lease, history
  <2>2. clock < effectUntil /\ Protected => rows'["request"] = rows["request"]
    BY <1>4 DEF CleanupOnce, CanDelete, DeleteExpired, Protected, TypeInv, GlobalType, Row
  <2> QED
    BY <1>4, <2>1, <2>2 DEF EffectInv, Protected, Claimed, Done
<1>5. ASSUME ~takenOver', UNCHANGED vars PROVE EffectInv'
  BY <1>5 DEF vars, store, times, claim, lease, history, EffectInv, Protected, Claimed, Done
<1> QED
  BY <1>1, <1>2, <1>3, <1>4, <1>5 DEF Next, RequestStep

\* The update, rollback or restart of a key is not done again before its record
\* expires, also when the success could not be recorded or the process died after it,
\* unless a record that was renewed meanwhile was reclaimed as expired (Execute decides
\* on the expires_at it read); if every request is over before its lease ends.
THEOREM EffectsHappenOnce ==
  ASSUME MaxStay < Lease
  PROVE  Spec => []SideEffectOnce
<1>1. Init => EffectInv
  <2> SUFFICES ASSUME Init PROVE EffectInv
    OBVIOUS
  <2>1. ~repeated /\ clock = 1 /\ effectUntil = 0
    BY DEF Init, StoreInit
  <2> QED
    BY <2>1 DEF EffectInv
<1>2. ExclusionInv /\ EffectInv /\ [Next]_vars => EffectInv'
  BY EffectInductive
<1>3. EffectInv => SideEffectOnce
  BY DEF EffectInv, SideEffectOnce
<1> QED
  BY <1>1, <1>2, <1>3, ExclusionInvariant, PTL DEF Spec

=============================================================================
