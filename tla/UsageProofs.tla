----------------------------- MODULE UsageProofs -----------------------------
(***************************************************************************)
(* Safety of the usage pipeline, for every set of requests and every       *)
(* configuration: no request id is charged twice, a log stands for a       *)
(* charge, no deduction is forgotten, a half-open breaker waits for a      *)
(* probe that is under way, quota usage is counted at most once on its way *)
(* to the row, and none of it is forgotten by the flusher.                 *)
(***************************************************************************)
EXTENDS UsagePipeline, FiniteSetTheorems, TLAPS

\* The transaction has inserted the billing key and is still open.
OpenLabels == {"archive", "commit"}

\* The command is known to have been charged.
BilledLabels == FinalizeLabels \cup TailLabels

\* Where the request whose own transaction committed can be.
ChargedLabels == BilledLabels \cup {"done", "error", "panicked", "dead"}

\* Past QueueDeductBalance.
DeductedLabels == TailLabels \cup {"done"}

Paid(r) == \E q \in charged : KeyRow(q) = KeyRow(r)
DeductionSent(r) == r \in deducted \/ \E t \in writes : t.kind = "deduct" /\ t.req = r

UsageTypes ==
  /\ pc \in [Requests -> Labels]
  /\ breaker \in Breakers
  /\ charged \subseteq Requests /\ logs \subseteq Requests
  /\ queue \subseteq Requests
  /\ \A r \in queue : pc[r] = "queued"

\* The keys in dedup and archive are those of the charged requests.
KeysMatch ==
  /\ \A r \in charged : KeyRow(r) \in dedup \cup archive
  /\ \A k \in dedup \cup archive : \E q \in charged : KeyRow(q) = k

\* An open transaction is the only one with its key, and nobody was charged
\* for that key: so far as it has looked, which is dedup and then the archive.
KeysExclude ==
  /\ \A r, q \in Requests :
       pc[r] \in OpenLabels /\ pc[q] \in OpenLabels /\ Key(r) = Key(q) => r = q
  /\ \A r \in Requests : pc[r] \in OpenLabels => Key(r) \notin Ids(dedup)
  /\ \A r \in Requests : pc[r] = "commit" => Key(r) \notin Ids(archive)

LabelsMatch ==
  /\ \A r \in Requests : pc[r] \in BilledLabels => Paid(r)
  /\ \A r \in charged : pc[r] \in ChargedLabels

UsageInv ==
  /\ UsageTypes /\ KeysMatch /\ KeysExclude /\ LabelsMatch
  /\ BilledAtMostOnce /\ LoggedMeansBilled /\ DeductionNeverDropped /\ ProbeInFlight

-----------------------------------------------------------------------------
(* Steps that bill nothing *)

\* No key and no charge changes, and nobody comes to hold a key or to count as
\* billed who did not.
Quiet ==
  /\ UNCHANGED <<setup, dedup, archive, charged>>
  /\ \A r \in Requests : /\ pc'[r] \in OpenLabels => pc'[r] = pc[r]
                         /\ pc'[r] \in BilledLabels => pc[r] \in BilledLabels
                         /\ pc[r] \in ChargedLabels => pc'[r] \in ChargedLabels
  /\ \A r \in logs' : r \in logs \/ pc[r] = "log"

\* Deductions stay in the channel or reach Redis, unless the process dies.
DeductionsKept ==
  \A r \in charged :
    pc'[r] \in DeductedLabels =>
      \/ DeductionSent(r)'
      \/ pc[r] \in DeductedLabels /\ (DeductionSent(r) => DeductionSent(r)')

\* A step that bills nothing keeps the billing invariant.
LEMMA QuietKeeps ==
  ASSUME UsageInv, Quiet, UsageTypes'
  PROVE  (KeysMatch /\ KeysExclude /\ LabelsMatch /\ BilledAtMostOnce /\ LoggedMeansBilled)'
<1> USE DEF UsageInv, UsageTypes, Quiet
<1>1. \A r : Key(r)' = Key(r) /\ KeyRow(r)' = KeyRow(r)
  BY DEF Key, KeyRow
<1>2. \A r : Paid(r)' <=> Paid(r)
  BY <1>1 DEF Paid
<1>3. KeysMatch'
  BY <1>1 DEF KeysMatch
<1>4. KeysExclude'
  BY <1>1 DEF KeysExclude, OpenLabels, Ids
<1>5. LabelsMatch'
  BY <1>2 DEF LabelsMatch
<1>6. BilledAtMostOnce'
  BY <1>1 DEF BilledAtMostOnce
<1>7. LoggedMeansBilled'
  <2> SUFFICES ASSUME NEW r \in logs' PROVE Paid(r)
    BY <1>1 DEF LoggedMeansBilled, Paid
  <2>1. CASE r \in logs
    BY <2>1 DEF LoggedMeansBilled, Paid
  <2>2. CASE pc[r] = "log"
    BY <2>2 DEF LabelsMatch, BilledLabels, TailLabels
  <2> QED BY <2>1, <2>2
<1> QED BY <1>3, <1>4, <1>5, <1>6, <1>7

\* Deductions that are kept leave none forgotten.
LEMMA DeductionsStay ==
  ASSUME UsageInv, DeductionsKept, charged' = charged
  PROVE  DeductionNeverDropped'
BY DEF UsageInv, DeductionsKept, DeductionNeverDropped, DeductedLabels, DeductionSent

-----------------------------------------------------------------------------
(* The eligibility check *)

\* Every step of the check bills nothing and, if it moves the breaker to
\* half-open or uses up a probe, is itself the probe under way.
LEMMA EligibilityKeeps ==
  ASSUME UsageInv, NEW r \in Requests, Eligibility(r)
  PROVE  Quiet /\ DeductionsKept /\ UsageTypes' /\ ProbeInFlight'
<1> USE DEF UsageInv, UsageTypes, Labels, CheckLabels, QuotaLabels, ClaimLabels, FinalizeLabels,
            TailLabels, FinalLabels, OpenLabels, BilledLabels, ChargedLabels, DeductedLabels,
            request, billing, env, cache, pool, Goto, GotoWith, NoFault, Fault
<1>1. ASSUME Begin(r)
      PROVE  Quiet /\ DeductionsKept /\ UsageTypes' /\ ProbeInFlight'
  <2>1. Quiet
    BY <1>1 DEF Begin, Quiet
  <2>2. DeductionsKept
    BY <1>1 DEF Begin, DeductionsKept, DeductionSent
  <2> DEFINE b == HalfOpened(breaker)
  <2>a. b \in Breakers
    BY UsageAssumption DEF HalfOpened, Breakers
  <2>b. Allows(b) => AfterAllow(b) \in Breakers
    BY <2>a DEF Allows, AfterAllow, Breakers
  <2>3. breaker' \in Breakers
    BY <1>1, <2>a, <2>b DEF Begin
  <2>4. UsageTypes'
    BY <1>1, <2>3 DEF Begin
  <2>5. ProbeInFlight'
    BY <1>1, <2>3, UsageAssumption DEF Begin, ProbeInFlight, Breakers, HalfOpened, Allows, AfterAllow
  <2> QED BY <2>1, <2>2, <2>4, <2>5
<1>2. ASSUME ReadBalance(r)
      PROVE  Quiet /\ DeductionsKept /\ UsageTypes' /\ ProbeInFlight'
  <2>1. Quiet
    BY <1>2 DEF ReadBalance, Judged, Quiet
  <2>2. DeductionsKept
    BY <1>2 DEF ReadBalance, Judged, DeductionsKept, DeductionSent
  <2>3. UsageTypes'
    BY <1>2 DEF ReadBalance, Judged
  <2>4. ProbeInFlight'
    BY <1>2 DEF ReadBalance, Judged, ProbeInFlight
  <2> QED BY <2>1, <2>2, <2>3, <2>4
<1>3. ASSUME LoadBalance(r)
      PROVE  Quiet /\ DeductionsKept /\ UsageTypes' /\ ProbeInFlight'
  <2>1. Quiet
    BY <1>3 DEF LoadBalance, Judged, Quiet
  <2>2. DeductionsKept
    BY <1>3 DEF LoadBalance, Judged, DeductionsKept, DeductionSent
  <2>3. UsageTypes'
    BY <1>3 DEF LoadBalance, Judged
  <2>4. ProbeInFlight'
    BY <1>3 DEF LoadBalance, Judged, ProbeInFlight
  <2> QED BY <2>1, <2>2, <2>3, <2>4
<1>4. ASSUME JudgeBalance(r)
      PROVE  Quiet /\ DeductionsKept /\ UsageTypes' /\ ProbeInFlight'
  <2>1. Quiet
    BY <1>4 DEF JudgeBalance, Quiet
  <2>2. DeductionsKept
    BY <1>4 DEF JudgeBalance, DeductionsKept, DeductionSent
  <2>a. Closed \in Breakers /\ Closed.state # "half-open"
    BY DEF Closed, Breakers
  <2>b. OnFailure(breaker) \in Breakers /\ OnFailure(breaker).state # "half-open"
    <3>1. \A b \in Breakers : Opened(b) \in Breakers /\ Opened(b).state = "open"
      BY DEF Opened, Breakers
    <3> DEFINE c == [breaker EXCEPT !.failures = @ + 1]
    <3>2. c \in Breakers /\ c.state = breaker.state
      BY DEF Breakers
    <3> QED BY <3>1, <3>2 DEF OnFailure, Breakers
  <2>3. breaker' \in Breakers /\ breaker'.state # "half-open"
    BY <1>4, <2>a, <2>b DEF JudgeBalance, OnSuccess
  <2>4. UsageTypes'
    BY <1>4, <2>3 DEF JudgeBalance
  <2>5. ProbeInFlight'
    BY <2>3 DEF ProbeInFlight
  <2> QED BY <2>1, <2>2, <2>4, <2>5
<1>5. ASSUME ReadQuota(r) \/ LoadQuota(r) \/ FillQuota(r)
      PROVE  Quiet /\ DeductionsKept /\ UsageTypes' /\ ProbeInFlight'
  <2>1. /\ pc[r] \in QuotaLabels /\ breaker' = breaker
        /\ UNCHANGED <<setup, dedup, archive, charged, logs, queue, deducted, writes>>
    BY <1>5 DEF ReadQuota, LoadQuota, FillQuota
  <2>2. \E l \in QuotaLabels \cup {"idle", "forward"} : pc' = [pc EXCEPT ![r] = l]
    BY <1>5 DEF ReadQuota, LoadQuota, FillQuota, Verdict
  <2>3. Quiet
    BY <2>1, <2>2 DEF Quiet
  <2>4. DeductionsKept
    BY <2>1, <2>2 DEF DeductionsKept, DeductionSent
  <2>5. UsageTypes'
    BY <2>1, <2>2
  <2>6. ProbeInFlight'
    BY <2>1, <2>2 DEF ProbeInFlight
  <2> QED BY <2>3, <2>4, <2>5, <2>6
<1> QED BY <1>1, <1>2, <1>3, <1>4, <1>5 DEF Eligibility

-----------------------------------------------------------------------------
(* The usage task, apart from its transaction *)

\* The task's steps outside its transaction bill nothing; QueueDeductBalance
\* leaves its deduction in the channel or sends it.
LEMMA TaskKeeps ==
  ASSUME UsageInv, NEW r \in Requests,
         \/ Submit(r) \/ ForwardFails(r) \/ WorkerTakes(r) \/ ApplyFails(r)
         \/ CheckStopped(r) \/ Enqueue(r) \/ SyncDeduct(r)
         \/ HasLimit(r) \/ IncrementQuota(r) \/ WriteLog(r)
  PROVE  Quiet /\ DeductionsKept /\ UsageTypes' /\ ProbeInFlight'
<1> USE DEF UsageInv, UsageTypes, Labels, CheckLabels, QuotaLabels, ClaimLabels, FinalizeLabels,
            TailLabels, FinalLabels, OpenLabels, BilledLabels, ChargedLabels, DeductedLabels,
            request, billing, env, cache, pool, Goto, NoFault, Fault
<1>1. ASSUME Submit(r) \/ ForwardFails(r)
      PROVE  Quiet /\ DeductionsKept /\ UsageTypes' /\ ProbeInFlight'
  <2>1. /\ pc[r] \in {"forward"} /\ breaker' = breaker
        /\ UNCHANGED <<setup, dedup, archive, charged, logs, deducted, writes>>
    BY <1>1 DEF Submit, ForwardFails, Drop, Inline
  <2>2. PICK l \in {"idle", "queued", "claim", "dropped"} : pc' = [pc EXCEPT ![r] = l]
    BY <1>1 DEF Submit, ForwardFails, Drop, Inline
  <2>a. queue' \subseteq queue \cup {r} /\ (r \in queue' => l = "queued" \/ r \in queue)
    BY <1>1, <2>1, <2>2 DEF Submit, ForwardFails, Drop, Inline
  <2>3. Quiet
    BY <2>1, <2>2 DEF Quiet
  <2>4. DeductionsKept
    BY <2>1, <2>2 DEF DeductionsKept, DeductionSent
  <2>5. UsageTypes'
    BY <2>1, <2>2, <2>a
  <2>6. ProbeInFlight'
    BY <2>1, <2>2 DEF ProbeInFlight
  <2> QED BY <2>3, <2>4, <2>5, <2>6
<1>2. ASSUME WorkerTakes(r)
      PROVE  Quiet /\ DeductionsKept /\ UsageTypes' /\ ProbeInFlight'
  <2>1. /\ pc[r] \in {"queued"} /\ breaker' = breaker
        /\ UNCHANGED <<setup, dedup, archive, charged, logs, deducted, writes>>
    BY <1>2 DEF WorkerTakes
  <2>2. PICK l \in {"claim"} : pc' = [pc EXCEPT ![r] = l]
    BY <1>2 DEF WorkerTakes
  <2>a. queue' = queue \ {r}
    BY <1>2 DEF WorkerTakes
  <2>3. Quiet
    BY <2>1, <2>2 DEF Quiet
  <2>4. DeductionsKept
    BY <2>1, <2>2 DEF DeductionsKept, DeductionSent
  <2>5. UsageTypes'
    BY <2>1, <2>2, <2>a
  <2>6. ProbeInFlight'
    BY <2>1, <2>2 DEF ProbeInFlight
  <2> QED BY <2>3, <2>4, <2>5, <2>6
<1>3. ASSUME ApplyFails(r)
      PROVE  Quiet /\ DeductionsKept /\ UsageTypes' /\ ProbeInFlight'
  <2>1. /\ pc[r] \in ClaimLabels /\ breaker' = breaker
        /\ UNCHANGED <<setup, dedup, archive, charged, logs, deducted, writes, queue>>
    BY <1>3 DEF ApplyFails, Return
  <2>2. PICK l \in {"error"} : pc' = [pc EXCEPT ![r] = l]
    BY <1>3 DEF ApplyFails, Return
  <2>3. Quiet
    BY <2>1, <2>2 DEF Quiet
  <2>4. DeductionsKept
    BY <2>1, <2>2 DEF DeductionsKept, DeductionSent
  <2>5. UsageTypes'
    BY <2>1, <2>2
  <2>6. ProbeInFlight'
    BY <2>1, <2>2 DEF ProbeInFlight
  <2> QED BY <2>3, <2>4, <2>5, <2>6
<1>4. ASSUME CheckStopped(r) \/ HasLimit(r)
      PROVE  Quiet /\ DeductionsKept /\ UsageTypes' /\ ProbeInFlight'
  <2>1. /\ pc[r] \in {"finalize", "limit"} /\ breaker' = breaker
        /\ UNCHANGED <<setup, dedup, archive, charged, logs, deducted, writes, queue>>
    BY <1>4 DEF CheckStopped, HasLimit, Step
  <2>2. PICK l \in {"enqueue", "syncDeduct", "log", "incr"} : pc' = [pc EXCEPT ![r] = l]
    BY <1>4 DEF CheckStopped, HasLimit, Step
  <2>a. l \in {"log", "incr"} => pc[r] = "limit"
    BY <1>4, <2>2 DEF CheckStopped, HasLimit, Step
  <2>3. Quiet
    BY <2>1, <2>2 DEF Quiet
  <2>4. DeductionsKept
    BY <2>1, <2>2, <2>a DEF DeductionsKept, DeductionSent
  <2>5. UsageTypes'
    BY <2>1, <2>2
  <2>6. ProbeInFlight'
    BY <2>1, <2>2 DEF ProbeInFlight
  <2> QED BY <2>3, <2>4, <2>5, <2>6
<1>5. ASSUME Enqueue(r) \/ SyncDeduct(r)
      PROVE  Quiet /\ DeductionsKept /\ UsageTypes' /\ ProbeInFlight'
  <2>1. /\ pc[r] \in {"enqueue", "syncDeduct"} /\ breaker' = breaker
        /\ UNCHANGED <<setup, dedup, archive, charged, logs, queue>>
    BY <1>5 DEF Enqueue, SyncDeduct, Step, Return
  <2>2. PICK l \in {"limit", "syncDeduct", "panicked"} : pc' = [pc EXCEPT ![r] = l]
    BY <1>5 DEF Enqueue, SyncDeduct, Step, Return
  <2>a. deducted \subseteq deducted' /\ writes \subseteq writes'
    BY <1>5 DEF Enqueue, SyncDeduct, Step, Return
  <2>b. l = "limit" => DeductionSent(r)'
    <3>1. CASE SyncDeduct(r)
      BY <3>1 DEF SyncDeduct, DeductionSent
    <3>2. CASE Enqueue(r)
      <4> SUFFICES ASSUME l = "limit" PROVE DeductionSent(r)'
        OBVIOUS
      <4>1. pc'[r] = "limit"
        BY <2>2
      <4> DEFINE t == [kind |-> "deduct", req |-> r, amount |-> 1]
      <4>2. t \in writes'
        BY <3>2, <4>1 DEF Enqueue, Step, Return
      <4>3. t.kind = "deduct" /\ t.req = r
        OBVIOUS
      <4> QED BY <4>2, <4>3 DEF DeductionSent
    <3> QED BY <1>5, <3>1, <3>2
  <2>3. Quiet
    BY <2>1, <2>2 DEF Quiet
  <2>4. DeductionsKept
    BY <2>1, <2>2, <2>a, <2>b DEF DeductionsKept, DeductionSent
  <2>5. UsageTypes'
    BY <2>1, <2>2
  <2>6. ProbeInFlight'
    BY <2>1, <2>2 DEF ProbeInFlight
  <2> QED BY <2>3, <2>4, <2>5, <2>6
<1>6. ASSUME IncrementQuota(r) \/ WriteLog(r)
      PROVE  Quiet /\ DeductionsKept /\ UsageTypes' /\ ProbeInFlight'
  <2>1. /\ pc[r] \in {"incr", "log"} /\ breaker' = breaker
        /\ UNCHANGED <<setup, dedup, archive, charged, deducted, writes, queue>>
    BY <1>6 DEF IncrementQuota, WriteLog, Step, Return
  <2>2. PICK l \in {"log", "done"} : pc' = [pc EXCEPT ![r] = l]
    BY <1>6 DEF IncrementQuota, WriteLog, Step, Return
  <2>a. /\ logs' \subseteq logs \cup {r} /\ (r \in logs' => r \in logs \/ pc[r] = "log")
        /\ l = "log" => pc[r] = "incr"
    BY <1>6, <2>1, <2>2 DEF IncrementQuota, WriteLog, Step, Return
  <2>3. Quiet
    BY <2>1, <2>2, <2>a DEF Quiet
  <2>4. DeductionsKept
    BY <2>1, <2>2 DEF DeductionsKept, DeductionSent
  <2>5. UsageTypes'
    BY <2>1, <2>2, <2>a
  <2>6. ProbeInFlight'
    BY <2>1, <2>2 DEF ProbeInFlight
  <2> QED BY <2>3, <2>4, <2>5, <2>6
<1> QED BY <1>1, <1>2, <1>3, <1>4, <1>5, <1>6

-----------------------------------------------------------------------------
(* Everything beside the requests *)

\* Shutdown, flusher, administrator, expiry and the clock touch neither the
\* requests nor the billing tables.
LEMMA OthersKeep ==
  ASSUME UsageInv,
         \/ \E r \in Requests : PersistUsage(r)
         \/ StopWriter \/ StopPool \/ StopFlusher
         \/ \E f \in Flushers : Flush(f)
         \/ AdminWrites \/ AdminInvalidates \/ RedisExpires \/ DayPasses
  PROVE  Quiet /\ DeductionsKept /\ UsageTypes' /\ ProbeInFlight'
<1>1. /\ UNCHANGED <<pc, breaker, setup, dedup, archive, charged, logs, queue>>
      /\ UNCHANGED <<writes, deducted>>
  BY DEF PersistUsage, StopWriter, StopPool, StopFlusher, Flush, FlushPop, FlushRead, FlushWrite,
         AdminWrites, AdminInvalidates, RedisExpires, DayPasses, NoFault, Fault,
         request, billing, env, cache, pool
<1>2. Quiet
  BY <1>1 DEF Quiet
<1>3. DeductionsKept
  BY <1>1 DEF DeductionsKept, DeductionSent
<1>4. UsageTypes'
  BY <1>1 DEF UsageInv, UsageTypes
<1>5. ProbeInFlight'
  BY <1>1 DEF UsageInv, ProbeInFlight
<1> QED BY <1>2, <1>3, <1>4, <1>5

\* A breaker that may be tried again is still open.
LEMMA BreakerCoolsKeeps ==
  ASSUME UsageInv, BreakerCools
  PROVE  Quiet /\ DeductionsKept /\ UsageTypes' /\ ProbeInFlight'
<1>1. UNCHANGED <<pc, setup, dedup, archive, charged, logs, queue, writes, deducted>>
  BY DEF BreakerCools, request, billing, env, cache, pool
<1>2. breaker' \in Breakers /\ breaker'.state = "open"
  BY DEF BreakerCools, Breakers, UsageInv, UsageTypes
<1>3. Quiet
  BY <1>1 DEF Quiet
<1>4. DeductionsKept
  BY <1>1 DEF DeductionsKept, DeductionSent
<1>5. UsageTypes'
  BY <1>1, <1>2 DEF UsageInv, UsageTypes
<1>6. ProbeInFlight'
  BY <1>2 DEF ProbeInFlight
<1> QED BY <1>3, <1>4, <1>5, <1>6

\* A write worker takes a deduction out of the channel and sends it to Redis.
LEMMA CacheWorkerKeeps ==
  ASSUME UsageInv, CacheWorker
  PROVE  Quiet /\ DeductionsKept /\ UsageTypes' /\ ProbeInFlight'
<1>1. UNCHANGED <<pc, breaker, setup, dedup, archive, charged, logs, queue>>
  BY DEF CacheWorker, NoFault, Fault, request, billing, env, pool
<1>2. Quiet
  BY <1>1 DEF Quiet
<1>3. DeductionsKept
  <2>1. PICK t \in writes :
          /\ writes' = writes \ {t}
          /\ deducted' = IF t.kind = "deduct" THEN deducted \cup {t.req} ELSE deducted
    BY DEF CacheWorker
  <2>2. \A r : DeductionSent(r) => DeductionSent(r)'
    BY <2>1 DEF DeductionSent
  <2> QED BY <1>1, <2>2 DEF DeductionsKept
<1>4. UsageTypes'
  BY <1>1 DEF UsageInv, UsageTypes
<1>5. ProbeInFlight'
  BY <1>1 DEF UsageInv, ProbeInFlight
<1> QED BY <1>2, <1>3, <1>4, <1>5

\* A crash rolls open transactions back and loses the channel, together with
\* the tasks that relied on it.
LEMMA CrashKeeps ==
  ASSUME UsageInv, Crash
  PROVE  Quiet /\ DeductionsKept /\ UsageTypes' /\ ProbeInFlight'
<1> USE DEF UsageInv, UsageTypes, Labels, CheckLabels, QuotaLabels, ClaimLabels, FinalizeLabels,
            TailLabels, FinalLabels, OpenLabels, BilledLabels, ChargedLabels, DeductedLabels
<1>1. UNCHANGED <<setup, dedup, archive, charged, logs, deducted>>
  BY DEF Crash, Fault, billing
<1>2. pc' = [r \in Requests |-> IF pc[r] = "idle" THEN "idle" ELSE "dead"] /\ queue' = {}
  BY DEF Crash
<1>3. Closed \in Breakers /\ Closed.state # "half-open" /\ breaker' = Closed
  BY DEF Crash, Closed, Breakers
<1>4. Quiet
  BY <1>1, <1>2 DEF Quiet
<1>5. DeductionsKept
  BY <1>1, <1>2 DEF DeductionsKept
<1>6. UsageTypes'
  BY <1>1, <1>2, <1>3
<1>7. ProbeInFlight'
  BY <1>3 DEF ProbeInFlight
<1> QED BY <1>4, <1>5, <1>6, <1>7

-----------------------------------------------------------------------------
(* The billing transaction *)

\* What every step of the transaction leaves alone.
LEMMA TransactionTypes ==
  ASSUME UsageInv, NEW r \in Requests, pc[r] \in ClaimLabels,
         NEW l \in ClaimLabels \cup FinalizeLabels \cup TailLabels \cup FinalLabels,
         pc' = [pc EXCEPT ![r] = l],
         UNCHANGED <<breaker, queue, logs>>, charged' \subseteq Requests
  PROVE  UsageTypes' /\ ProbeInFlight'
<1> USE DEF UsageInv, UsageTypes, Labels, CheckLabels, QuotaLabels, ClaimLabels, FinalizeLabels,
            TailLabels, FinalLabels, OpenLabels, BilledLabels, ChargedLabels, DeductedLabels
<1>1. UsageTypes'
  OBVIOUS
<1>2. ProbeInFlight'
  BY DEF ProbeInFlight
<1> QED BY <1>1, <1>2

\* Claiming the key, comparing the fingerprint and looking into the archive.
LEMMA TransactionKeeps ==
  ASSUME UsageInv, NEW r \in Requests, ClaimKey(r) \/ ReadConflict(r) \/ ReadArchive(r)
  PROVE  UsageInv'
<1> USE DEF UsageInv, UsageTypes, Labels, CheckLabels, QuotaLabels, ClaimLabels, FinalizeLabels,
            TailLabels, FinalLabels, OpenLabels, BilledLabels, ChargedLabels, DeductedLabels
<1>1. /\ pc[r] \in {"claim", "conflict", "archive"}
      /\ UNCHANGED <<setup, dedup, archive, charged, logs, breaker, queue, writes, deducted>>
  BY DEF ClaimKey, ReadConflict, ReadArchive, CompareFingerprint, Step, Return, Goto, billing, env,
         cache, pool
<1>2. PICK l \in {"conflict", "archive", "commit", "log", "error"} : pc' = [pc EXCEPT ![r] = l]
  BY DEF ClaimKey, ReadConflict, ReadArchive, CompareFingerprint, Step, Return, Goto
<1>3. UsageTypes' /\ ProbeInFlight'
  BY <1>1, <1>2, TransactionTypes
<1>4. \A q : Key(q)' = Key(q) /\ KeyRow(q)' = KeyRow(q)
  BY <1>1 DEF Key, KeyRow
<1>5. \A q : Paid(q)' <=> Paid(q)
  BY <1>1, <1>4 DEF Paid
<1>6. r \notin charged
  BY <1>1 DEF LabelsMatch
<1>7. KeysMatch'
  BY <1>1, <1>4 DEF KeysMatch
<1>8. KeysExclude'
  <2>1. CASE l \in {"conflict", "log", "error"}
    BY <1>1, <1>2, <1>4, <2>1 DEF KeysExclude, Ids
  <2>2. CASE l = "archive"
    <3>1. pc[r] = "claim" /\ Holding(r) = {} /\ Key(r) \notin Ids(dedup)
      BY <1>2, <2>2 DEF ClaimKey, ReadConflict, ReadArchive, CompareFingerprint, Step, Return, Goto
    <3>2. \A q \in Requests : pc[q] \in OpenLabels => Key(q) # Key(r)
      BY <3>1 DEF Holding
    <3> QED BY <1>1, <1>2, <1>4, <2>2, <3>1, <3>2 DEF KeysExclude, Ids
  <2>3. CASE l = "commit"
    <3>1. pc[r] = "archive" /\ Key(r) \notin Ids(archive)
      BY <1>2, <2>3 DEF ClaimKey, ReadConflict, ReadArchive, CompareFingerprint, Step, Return, Goto
    <3> QED BY <1>1, <1>2, <1>4, <2>3, <3>1 DEF KeysExclude, Ids
  <2> QED BY <2>1, <2>2, <2>3
<1>9. LabelsMatch'
  <2>1. l = "log" => Paid(r)
    <3> SUFFICES ASSUME l = "log" PROVE Paid(r)
      OBVIOUS
    <3>1. KeyRow(r) \in dedup \cup archive
      BY <1>2 DEF ClaimKey, ReadConflict, ReadArchive, CompareFingerprint, Step, Return, Goto
    <3> QED BY <3>1 DEF KeysMatch, Paid
  <2> QED BY <1>1, <1>2, <1>5, <1>6, <2>1 DEF LabelsMatch
<1>10. BilledAtMostOnce' /\ LoggedMeansBilled'
  BY <1>1, <1>4 DEF BilledAtMostOnce, LoggedMeansBilled
<1>11. DeductionNeverDropped'
  BY <1>1, <1>2, <1>6 DEF DeductionNeverDropped
<1> QED BY <1>3, <1>7, <1>8, <1>9, <1>10, <1>11

\* The one step that charges: the key it commits is nobody else's.
LEMMA CommitKeeps ==
  ASSUME UsageInv, NEW r \in Requests, Commit(r)
  PROVE  UsageInv'
<1> USE DEF UsageInv, UsageTypes, Labels, CheckLabels, QuotaLabels, ClaimLabels, FinalizeLabels,
            TailLabels, FinalLabels, OpenLabels, BilledLabels, ChargedLabels, DeductedLabels
<1>1. /\ pc[r] = "commit"
      /\ dedup' = dedup \cup {KeyRow(r)} /\ charged' = charged \cup {r}
      /\ UNCHANGED <<setup, archive, logs, breaker, queue, writes, deducted>>
  BY DEF Commit, Step, Return, NoFault, Fault, Goto, env, cache, pool
<1>2. PICK l \in {"finalize", "error"} : pc' = [pc EXCEPT ![r] = l]
  BY DEF Commit, Step, Return, Goto
<1>3. UsageTypes' /\ ProbeInFlight'
  BY <1>1, <1>2, TransactionTypes
<1>4. \A q : Key(q)' = Key(q) /\ KeyRow(q)' = KeyRow(q) /\ KeyRow(q).id = Key(q)
  BY <1>1 DEF Key, KeyRow
<1>5. \A q \in charged : Key(q) # Key(r)
  <2> SUFFICES ASSUME NEW q \in charged, Key(q) = Key(r) PROVE FALSE
    OBVIOUS
  <2>1. Key(r) \in Ids(dedup) \cup Ids(archive)
    BY <1>4 DEF KeysMatch, Ids
  <2> QED BY <1>1, <2>1 DEF KeysExclude
<1>6. KeysMatch'
  BY <1>1, <1>4 DEF KeysMatch
<1>7. KeysExclude'
  <2>1. \A q \in Requests : pc'[q] \in OpenLabels =>
          q # r /\ pc[q] = pc'[q] /\ Key(q) # Key(r)
    BY <1>1, <1>2 DEF KeysExclude
  <2>2. Ids(dedup)' = Ids(dedup) \cup {Key(r)} /\ Ids(archive)' = Ids(archive)
    BY <1>1, <1>4 DEF Ids
  <2>3. \A q \in Requests : pc'[q] \in OpenLabels => Key(q) \notin Ids(dedup)
    BY <2>1 DEF KeysExclude
  <2> QED BY <1>4, <2>1, <2>2, <2>3 DEF KeysExclude
<1>8. LabelsMatch'
  BY <1>1, <1>2, <1>4 DEF LabelsMatch, Paid
<1>9. BilledAtMostOnce'
  BY <1>1, <1>4, <1>5 DEF BilledAtMostOnce
<1>10. LoggedMeansBilled'
  BY <1>1, <1>4 DEF LoggedMeansBilled
<1>11. DeductionNeverDropped'
  BY <1>1, <1>2 DEF DeductionNeverDropped
<1> QED BY <1>3, <1>6, <1>7, <1>8, <1>9, <1>10, <1>11

\* A key that moves to the archive is not one a transaction is looking for there.
LEMMA ArchiveKeysKeeps ==
  ASSUME UsageInv, ArchiveKeys
  PROVE  UsageInv'
<1> USE DEF UsageInv, UsageTypes
<1>1. UNCHANGED <<setup, charged, logs, breaker, queue, writes, deducted, pc>>
  BY DEF ArchiveKeys, request, env, cache, pool
<1>2. PICK k \in dedup : dedup' = dedup \ {k} /\ archive' = archive \cup {k}
  BY DEF ArchiveKeys
<1>3. \A q : Key(q)' = Key(q) /\ KeyRow(q)' = KeyRow(q)
  BY <1>1 DEF Key, KeyRow
<1>4. UsageTypes' /\ ProbeInFlight'
  BY <1>1 DEF ProbeInFlight
<1>5. KeysMatch'
  BY <1>1, <1>2, <1>3 DEF KeysMatch
<1>6. KeysExclude'
  BY <1>1, <1>2, <1>3 DEF KeysExclude, Ids, OpenLabels
<1>7. LabelsMatch'
  BY <1>1, <1>3 DEF LabelsMatch, Paid
<1>8. BilledAtMostOnce' /\ LoggedMeansBilled' /\ DeductionNeverDropped'
  BY <1>1, <1>3 DEF BilledAtMostOnce, LoggedMeansBilled, DeductionNeverDropped
<1> QED BY <1>4, <1>5, <1>6, <1>7, <1>8

-----------------------------------------------------------------------------
(* The invariant and what follows *)

\* Nothing is charged, queued or half-open to begin with.
LEMMA UsageInit == Init => UsageInv
<1> SUFFICES ASSUME Init PROVE UsageInv
  OBVIOUS
<1> USE DEF Init, Labels, CheckLabels, QuotaLabels, ClaimLabels, FinalizeLabels,
            TailLabels, FinalLabels, OpenLabels, BilledLabels, ChargedLabels, DeductedLabels
<1>1. Closed \in Breakers /\ Closed.state # "half-open"
  BY DEF Closed, Breakers
<1>2. UsageTypes
  BY <1>1 DEF UsageTypes
<1>3. KeysMatch /\ KeysExclude /\ LabelsMatch
  BY DEF KeysMatch, KeysExclude, LabelsMatch
<1>4. BilledAtMostOnce /\ LoggedMeansBilled /\ DeductionNeverDropped
  BY DEF BilledAtMostOnce, LoggedMeansBilled, DeductionNeverDropped
<1>5. ProbeInFlight
  BY <1>1 DEF ProbeInFlight
<1> QED BY <1>2, <1>3, <1>4, <1>5 DEF UsageInv

\* Every step of the pipeline keeps the invariant.
LEMMA UsageStep == UsageInv /\ [Next]_vars => UsageInv'
<1> SUFFICES ASSUME UsageInv, [Next]_vars PROVE UsageInv'
  OBVIOUS
<1>1. ASSUME Quiet /\ DeductionsKept /\ UsageTypes' /\ ProbeInFlight'
      PROVE  UsageInv'
  BY <1>1, QuietKeeps, DeductionsStay DEF Quiet, UsageInv
<1>2. ASSUME NEW r \in Requests, Request(r) \/ ApplyFails(r) \/ WorkerTakes(r) \/ PersistUsage(r)
      PROVE  UsageInv'
  <2>1. CASE Eligibility(r)
    BY <1>1, <2>1, EligibilityKeeps
  <2>2. CASE \/ Submit(r) \/ ForwardFails(r) \/ WorkerTakes(r) \/ ApplyFails(r)
             \/ CheckStopped(r) \/ Enqueue(r) \/ SyncDeduct(r)
             \/ HasLimit(r) \/ IncrementQuota(r) \/ WriteLog(r)
    BY <1>1, <2>2, TaskKeeps
  <2>3. CASE ClaimKey(r) \/ ReadConflict(r) \/ ReadArchive(r)
    BY <2>3, TransactionKeeps
  <2>4. CASE Commit(r)
    BY <2>4, CommitKeeps
  <2>5. CASE PersistUsage(r)
    BY <1>1, <2>5, OthersKeep
  <2> QED BY <1>2, <2>1, <2>2, <2>3, <2>4, <2>5 DEF Request, RecordUsage
<1>3. CASE \/ StopWriter \/ StopPool \/ StopFlusher \/ \E f \in Flushers : Flush(f)
           \/ AdminWrites \/ AdminInvalidates \/ RedisExpires \/ DayPasses
  BY <1>1, <1>3, OthersKeep
<1>4. CASE BreakerCools
  BY <1>1, <1>4, BreakerCoolsKeeps
<1>5. CASE CacheWorker
  BY <1>1, <1>5, CacheWorkerKeeps
<1>6. CASE Crash
  BY <1>1, <1>6, CrashKeeps
<1>7. CASE ArchiveKeys
  BY <1>7, ArchiveKeysKeeps
<1>8. CASE UNCHANGED vars
  <2>1. /\ UNCHANGED <<pc, breaker, setup, dedup, archive, charged, logs, queue>>
        /\ UNCHANGED <<writes, deducted>>
    BY <1>8 DEF vars
  <2>2. Quiet /\ DeductionsKept
    BY <2>1 DEF Quiet, DeductionsKept, DeductionSent
  <2>3. UsageTypes' /\ ProbeInFlight'
    BY <2>1 DEF UsageInv, UsageTypes, ProbeInFlight
  <2> QED BY <1>1, <2>2, <2>3
<1> QED BY <1>2, <1>3, <1>4, <1>5, <1>6, <1>7, <1>8 DEF Next

\* The inductive invariant holds in every reachable state of the pipeline.
THEOREM UsageInvariant == Spec => []UsageInv
BY UsageInit, UsageStep, PTL DEF Spec

\* Apply charges a request id at most once, through retries, rollbacks, lost
\* replies, crashes and the archiving of keys.
THEOREM ChargedOnce == Spec => []BilledAtMostOnce
<1>1. UsageInv => BilledAtMostOnce
  BY DEF UsageInv
<1> QED BY <1>1, UsageInvariant, PTL

\* recordUsageCore logs only what was charged, to it or to the same command.
THEOREM LogsArePaid == Spec => []LoggedMeansBilled
<1>1. UsageInv => LoggedMeansBilled
  BY DEF UsageInv
<1> QED BY <1>1, UsageInvariant, PTL

\* QueueDeductBalance forgets no deduction of a task that goes on, whenever the
\* write channel fills up or is closed.
THEOREM DeductionsAreSent == Spec => []DeductionNeverDropped
<1>1. UsageInv => DeductionNeverDropped
  BY DEF UsageInv
<1> QED BY <1>1, UsageInvariant, PTL

\* A half-open breaker without probes left has one under way that will report.
THEOREM BreakerIsProbed == Spec => []ProbeInFlight
<1>1. UsageInv => ProbeInFlight
  BY DEF UsageInv
<1> QED BY <1>1, UsageInvariant, PTL

-----------------------------------------------------------------------------
(* Type correctness *)

Entries == Entry \cup {None}

\* The quota entry in Redis, the row, and what requests and flushers hold of them.
\* A flush that writes has an entry to write.
EntryTypes ==
  /\ held \in [Requests -> Entries]
  /\ quotaKey \in Entries /\ row \in Entries
  /\ flush \in [Flushers -> [at : {"idle", "popped", "read", "done"}, snap : Entries]]
  /\ \A f \in Flushers : flush[f].at = "read" => flush[f].snap # None
  /\ day \in 0..MaxDay

BalanceTypes ==
  /\ setup \in Setups /\ faults \in 0..setup.budget
  /\ balance \in Int /\ balanceKey \in Int \cup {None}
  /\ dedup \subseteq {KeyRow(r) : r \in Requests}
  /\ archive \subseteq {KeyRow(r) : r \in Requests}
  /\ writer \in {"open", "stopped", "closed", "nil"}
  /\ writes \subseteq [kind : {"set", "deduct"}, req : Requests, amount : Int]
  /\ deducted \subseteq Requests

MarkTypes ==
  /\ dirty \in BOOLEAN /\ lost \in BOOLEAN /\ stale \in BOOLEAN
  /\ counted \subseteq Requests /\ dbPending \subseteq Requests
  /\ running \subseteq Requests /\ poolStopped \in BOOLEAN /\ flusherStopped \in BOOLEAN
  /\ admin \in {"idle", "invalidate"} /\ changes \in 0..MaxAdmin

\* The steps that touch no quota entry.
EntriesKept == UNCHANGED <<held, quotaKey, row, flush, day, dbPending, dirty, lost, stale, changes>>

PlainStep(r) ==
  \/ Begin(r) \/ ReadBalance(r) \/ LoadBalance(r) \/ JudgeBalance(r)
  \/ Submit(r) \/ ForwardFails(r) \/ WorkerTakes(r) \/ ApplyFails(r)
  \/ ClaimKey(r) \/ ReadConflict(r) \/ ReadArchive(r) \/ Commit(r)
  \/ CheckStopped(r) \/ Enqueue(r) \/ SyncDeduct(r) \/ HasLimit(r) \/ WriteLog(r)

LEMMA PlainStepKeepsEntries ==
  ASSUME NEW r, PlainStep(r)
  PROVE  EntriesKept
<1> USE DEF EntriesKept, request, redis, quota, env, Goto, Fault, NoFault
<1>1. CASE Begin(r) \/ ReadBalance(r) \/ LoadBalance(r) \/ JudgeBalance(r)
  BY <1>1 DEF Begin, ReadBalance, LoadBalance, JudgeBalance
<1>2. CASE Submit(r) \/ ForwardFails(r) \/ WorkerTakes(r) \/ ApplyFails(r)
  BY <1>2 DEF Submit, Drop, Inline, ForwardFails, WorkerTakes, ApplyFails, Return
<1>3. CASE ClaimKey(r) \/ ReadConflict(r) \/ ReadArchive(r) \/ Commit(r)
  BY <1>3 DEF ClaimKey, ReadConflict, ReadArchive, Commit, CompareFingerprint, Step, Return
<1>4. CASE CheckStopped(r) \/ Enqueue(r) \/ SyncDeduct(r) \/ HasLimit(r) \/ WriteLog(r)
  BY <1>4 DEF CheckStopped, Enqueue, SyncDeduct, HasLimit, WriteLog, Step, Return
<1> QED
  BY <1>1, <1>2, <1>3, <1>4 DEF PlainStep

LEMMA OtherStepsKeepEntries ==
  ASSUME CacheWorker \/ ArchiveKeys \/ StopWriter \/ StopPool \/ StopFlusher \/ BreakerCools
  PROVE  EntriesKept
BY DEF EntriesKept, CacheWorker, ArchiveKeys, StopWriter, StopPool, StopFlusher, BreakerCools,
       request, redis, quota, env, Fault, NoFault

\* The steps that read or write one.
EntryStep ==
  \/ \E r \in Requests : ReadQuota(r) \/ LoadQuota(r) \/ FillQuota(r)
                         \/ IncrementQuota(r) \/ PersistUsage(r)
  \/ \E f \in Flushers : Flush(f)
  \/ AdminWrites \/ AdminInvalidates \/ RedisExpires \/ DayPasses \/ Crash

\* An entry that is read, filled, incremented, flushed or reset is one.
LEMMA EntryStepTypes ==
  ASSUME EntryTypes, BalanceTypes, EntryStep
  PROVE  EntryTypes'
<1> USE DEF EntryTypes
<1>0. day \in Nat /\ MaxDay \in Nat /\ (0 \in Nat)
  BY UsageAssumption
<1>1. ASSUME NEW r \in Requests, ReadQuota(r) PROVE EntryTypes'
  <2>1. UNCHANGED <<quotaKey, row, flush, day>>
    BY <1>1 DEF ReadQuota, redis, quota, env, NoFault, Fault
  <2>2. \/ held' = held
        \/ \E e \in Entry : held' = [held EXCEPT ![r] = e]
    <3>1. quotaKey \in Entry => [quotaKey EXCEPT !.usage = 0, !.start = day] \in Entry
      BY <1>0 DEF Entry
    <3> QED
      BY <1>1, <3>1 DEF ReadQuota, Goto, GotoWith, Entries
  <2> QED
    BY <2>1, <2>2 DEF Entries
<1>2. \A e \in Entry : Current(e) \in Entry
  BY DEF Current, UsageInWindow, Entry
<1>3. ASSUME NEW r \in Requests, LoadQuota(r) PROVE EntryTypes'
  <2>1. UNCHANGED <<quotaKey, row, flush, day>>
    BY <1>3 DEF LoadQuota, redis, quota, env, NoFault, Fault
  <2>2. \/ held' = held
        \/ \E e \in Entry : held' = [held EXCEPT ![r] = e]
    <3>1. Sentinel \in Entry
      BY <1>0 DEF Sentinel, Entry
    <3> QED
      BY <1>2, <1>3, <3>1 DEF LoadQuota, Goto, GotoWith, Entries
  <2> QED
    BY <2>1, <2>2 DEF Entries
<1>4. ASSUME NEW r \in Requests, FillQuota(r) PROVE EntryTypes'
  BY <1>4 DEF FillQuota, quota, env, NoFault, Fault, GotoWith, Entries
<1>5. ASSUME NEW r \in Requests, IncrementQuota(r) PROVE EntryTypes'
  <2>1. UNCHANGED <<held, row, flush, day>>
    BY <1>5 DEF IncrementQuota, env, NoFault, Fault, Step, Goto
  <2>2. quotaKey' \in Entries
    BY <1>5 DEF IncrementQuota, Entries, Entry
  <2> QED
    BY <2>1, <2>2
<1>6. ASSUME NEW r \in Requests, PersistUsage(r) PROVE EntryTypes'
  <2>1. UNCHANGED <<held, quotaKey, flush, day>>
    BY <1>6 DEF PersistUsage, request, redis, env, NoFault, Fault
  <2>2. row' \in Entries
    <3>1. [usage |-> 1, limit |-> None, start |-> day] \in Entry
      BY <1>0 DEF Entry
    <3>2. row # None => [row EXCEPT !.usage = MaybeReset(row), !.start = day] \in Entry
      <4>1. row # None => row \in Entry /\ MaybeReset(row) \in Nat
        BY DEF MaybeReset, Entries, Entry
      <4> QED
        BY <1>0, <4>1 DEF Entry
    <3> QED
      BY <1>6, <3>1, <3>2 DEF PersistUsage, Entries
  <2> QED
    BY <2>1, <2>2
<1>7. ASSUME NEW f \in Flushers, Flush(f) PROVE EntryTypes'
  <2>1. UNCHANGED <<held, quotaKey, day>>
    BY <1>7 DEF Flush, FlushPop, FlushRead, FlushWrite, request, env, NoFault, Fault
  <2>2. row' \in Entries
    <3>1. flush[f].at = "read" => Snapshot(row, flush[f].snap) \in Entry
      <4>1. flush[f].at = "read" => flush[f].snap \in Entry
        BY DEF Entries
      <4> QED
        BY <4>1 DEF Snapshot, Entries, Entry
    <3> QED
      BY <1>7, <3>1 DEF Flush, FlushPop, FlushRead, FlushWrite, Entries
  <2>3. \E a \in {"idle", "popped", "read", "done"}, e \in Entries :
          /\ flush' = [flush EXCEPT ![f] = [at |-> a, snap |-> e]]
          /\ a = "read" => e # None
    BY <1>7 DEF Flush, FlushPop, FlushRead, FlushWrite, SetFlush, Ended, Entries
  <2> QED
    BY <2>1, <2>2, <2>3
<1>8. ASSUME AdminWrites PROVE EntryTypes'
  <2>1. UNCHANGED <<held, quotaKey, flush, day>>
    BY <1>8 DEF AdminWrites, request, redis, env
  <2>2. \A l \in setup.limits : l \in Nat
    BY SetupsAssumption DEF BalanceTypes
  <2>3. row' \in Entries
    <3>2. row # None => [row EXCEPT !.usage = 0, !.start = day] \in Entry
      BY <1>0 DEF Entries, Entry
    <3>3. ASSUME NEW l \in setup.limits,
                 row' = IF row = None THEN [usage |-> 0, limit |-> l, start |-> None]
                        ELSE [row EXCEPT !.limit = l]
          PROVE  row' \in Entries
      <4> DEFINE new == [usage |-> 0, limit |-> l, start |-> None]
                 changed == [row EXCEPT !.limit = l]
      <4>1. l \in Nat
        BY <2>2
      <4>2. new \in Entry
        BY <4>1 DEF Entry
      <4>3. row # None => changed \in Entry
        BY <4>1 DEF Entries, Entry
      <4>4. row' = IF row = None THEN new ELSE changed
        BY <3>3
      <4> HIDE DEF new, changed
      <4> QED
        BY <4>2, <4>3, <4>4 DEF Entries
    <3>4. CASE row' = None \/ (row # None /\ row' = [row EXCEPT !.usage = 0, !.start = day])
      BY <3>2, <3>4 DEF Entries
    <3> QED
      BY <1>8, <3>3, <3>4 DEF AdminWrites
  <2> QED
    BY <2>1, <2>3
<1>9. ASSUME AdminInvalidates \/ RedisExpires \/ DayPasses PROVE EntryTypes'
  BY <1>9, UsageAssumption DEF AdminInvalidates, RedisExpires, DayPasses, request, quota, env,
                               NoFault, Fault, Entries
<1>10. ASSUME Crash PROVE EntryTypes'
  <2>1. UNCHANGED <<quotaKey, row, day>>
    BY <1>10 DEF Crash, redis, Fault
  <2> QED
    BY <1>10, <2>1 DEF Crash, IdleFlush, Entries
<1> QED
  BY <1>1, <1>3, <1>4, <1>5, <1>6, <1>7, <1>8, <1>9, <1>10 DEF EntryStep

\* A fault is one of those the configuration allows.
LEMMA EnvTypes ==
  ASSUME BalanceTypes, NoFault \/ \E k : Fault(k)
  PROVE  setup' = setup /\ faults' \in 0..setup'.budget
<1>1. setup.budget \in Nat /\ faults \in 0..setup.budget
  BY SetupsAssumption DEF BalanceTypes
<1> QED
  BY <1>1 DEF NoFault, env, Fault

\* Every step of a request, and every other one, keeps the types of the balance, its
\* caches, the billing keys and the write channel.
LEMMA RequestBalanceTypes ==
  ASSUME BalanceTypes, NEW r \in Requests, Request(r) \/ ApplyFails(r) \/ WorkerTakes(r) \/ PersistUsage(r)
  PROVE  BalanceTypes'
<1>1. setup' = setup /\ faults' \in 0..setup'.budget
  <2>1. CASE Eligibility(r)
    BY <2>1, EnvTypes DEF Eligibility, Begin, ReadBalance, LoadBalance, JudgeBalance, ReadQuota,
                          LoadQuota, FillQuota, NoFault
  <2>2. CASE Submit(r) \/ ForwardFails(r) \/ ApplyFails(r) \/ WorkerTakes(r) \/ PersistUsage(r)
    BY <2>2, EnvTypes DEF Submit, ForwardFails, ApplyFails, WorkerTakes, PersistUsage, NoFault
  <2>3. CASE RecordUsage(r)
    BY <2>3, EnvTypes DEF RecordUsage, ClaimKey, ReadConflict, ReadArchive, Commit, CheckStopped,
                          Enqueue, SyncDeduct, HasLimit, IncrementQuota, WriteLog, NoFault
  <2> QED
    BY <2>1, <2>2, <2>3 DEF Request
<1>2. \A q : KeyRow(q)' = KeyRow(q)
  BY <1>1 DEF KeyRow
<1> DEFINE Rest ==
      /\ balance' \in Int /\ balanceKey' \in Int \cup {None}
      /\ dedup' \subseteq {KeyRow(q) : q \in Requests} /\ archive' = archive
      /\ writer' = writer
      /\ writes' \subseteq [kind : {"set", "deduct"}, req : Requests, amount : Int]
      /\ deducted' \subseteq Requests
<1>3. CASE LoadBalance(r)
  <2>1. UNCHANGED <<balance, balanceKey, dedup, archive, writer, deducted>>
    BY <1>3 DEF LoadBalance, redis, billing
  <2> DEFINE t == [kind |-> "set", req |-> r, amount |-> balance]
  <2>2. t \in [kind : {"set", "deduct"}, req : Requests, amount : Int]
    BY DEF BalanceTypes
  <2>3. writes' = writes \cup {t} \/ writes' = writes
    BY <1>3 DEF LoadBalance
  <2> HIDE DEF t
  <2>4. Rest
    BY <2>1, <2>2, <2>3 DEF BalanceTypes
  <2> QED
    BY <1>1, <1>2, <2>4 DEF BalanceTypes
<1>4. CASE Commit(r)
  <2>1. /\ UNCHANGED <<balanceKey, archive, writer, writes, deducted>>
        /\ balance' = balance - 1 /\ dedup' = dedup \cup {KeyRow(r)}
    BY <1>4 DEF Commit, redis, cache
  <2>2. Rest
    BY <2>1 DEF BalanceTypes
  <2> QED
    BY <1>1, <1>2, <2>2 DEF BalanceTypes
<1>5. CASE Enqueue(r)
  <2>1. UNCHANGED <<balance, balanceKey, dedup, archive, writer, deducted>>
    BY <1>5 DEF Enqueue, redis, billing
  <2> DEFINE t == [kind |-> "deduct", req |-> r, amount |-> 1]
  <2>2. t \in [kind : {"set", "deduct"}, req : Requests, amount : Int]
    OBVIOUS
  <2>3. writes' = writes \cup {t} \/ writes' = writes
    BY <1>5 DEF Enqueue
  <2> HIDE DEF t
  <2>4. Rest
    BY <2>1, <2>2, <2>3 DEF BalanceTypes
  <2> QED
    BY <1>1, <1>2, <2>4 DEF BalanceTypes
<1>6. CASE SyncDeduct(r)
  <2>1. /\ UNCHANGED <<balance, dedup, archive, writer, writes>>
        /\ deducted' = deducted \cup {r}
        /\ balanceKey' = Deducted(balanceKey) \/ balanceKey' = balanceKey
    BY <1>6 DEF SyncDeduct, billing
  <2>2. Rest
    BY <2>1 DEF BalanceTypes, Deducted
  <2> QED
    BY <1>1, <1>2, <2>2 DEF BalanceTypes
<1>7. CASE \/ Begin(r) \/ ReadBalance(r) \/ JudgeBalance(r)
           \/ ReadQuota(r) \/ LoadQuota(r) \/ FillQuota(r)
           \/ Submit(r) \/ ForwardFails(r) \/ WorkerTakes(r) \/ ApplyFails(r) \/ PersistUsage(r)
           \/ ClaimKey(r) \/ ReadConflict(r) \/ ReadArchive(r)
           \/ CheckStopped(r) \/ HasLimit(r) \/ IncrementQuota(r) \/ WriteLog(r)
  <2>1. UNCHANGED <<balance, balanceKey, dedup, archive, writer, writes, deducted>>
    BY <1>7 DEF Begin, ReadBalance, JudgeBalance, ReadQuota, LoadQuota, FillQuota, Submit,
         ForwardFails, WorkerTakes, ApplyFails, PersistUsage, ClaimKey, ReadConflict, ReadArchive,
         CheckStopped, HasLimit, IncrementQuota, WriteLog, redis, billing, cache
  <2>2. Rest
    BY <2>1 DEF BalanceTypes
  <2> QED
    BY <1>1, <1>2, <2>2 DEF BalanceTypes
<1> QED
  BY <1>3, <1>4, <1>5, <1>6, <1>7 DEF Request, Eligibility, RecordUsage

LEMMA BalanceTypesStep ==
  ASSUME BalanceTypes, [Next]_vars
  PROVE  BalanceTypes'
<1>1. CASE \E r \in Requests : Request(r) \/ ApplyFails(r) \/ WorkerTakes(r) \/ PersistUsage(r)
  BY <1>1, RequestBalanceTypes
<1>2. CASE CacheWorker
  <2>1. setup' = setup /\ faults' \in 0..setup'.budget
    BY <1>2, EnvTypes DEF CacheWorker
  <2>2. PICK t \in writes :
          /\ writes' = writes \ {t}
          /\ balanceKey' \in {t.amount, Deducted(balanceKey), balanceKey}
          /\ deducted' = IF t.kind = "deduct" THEN deducted \cup {t.req} ELSE deducted
    BY <1>2 DEF CacheWorker
  <2>3. t.amount \in Int /\ t.req \in Requests
    BY DEF BalanceTypes
  <2>4. UNCHANGED <<balance, dedup, archive, writer>>
    BY <1>2 DEF CacheWorker, billing
  <2>5. balanceKey' \in Int \cup {None}
    BY <2>2, <2>3 DEF BalanceTypes, Deducted
  <2>6. writes' \subseteq writes /\ deducted' \subseteq Requests
    BY <2>2, <2>3 DEF BalanceTypes
  <2> QED
    BY <2>1, <2>4, <2>5, <2>6 DEF BalanceTypes, KeyRow
<1>3. CASE ArchiveKeys
  <2>1. /\ UNCHANGED <<setup, faults, balance, balanceKey, writer, writes, deducted>>
        /\ \E k \in dedup : dedup' = dedup \ {k} /\ archive' = archive \cup {k}
    BY <1>3 DEF ArchiveKeys, redis, cache, env
  <2> QED
    BY <2>1 DEF BalanceTypes, KeyRow
<1>4. CASE \/ StopWriter \/ StopPool \/ StopFlusher \/ AdminWrites \/ BreakerCools \/ RedisExpires
           \/ DayPasses
  <2>1. /\ UNCHANGED <<setup, faults, balance, dedup, archive, writes, deducted>>
        /\ balanceKey' \in {balanceKey, None}
        /\ writer' \in {writer, "stopped", "closed", "nil"}
    BY <1>4 DEF StopWriter, StopPool, StopFlusher, AdminWrites, BreakerCools, RedisExpires,
                DayPasses, redis, billing, cache, env
  <2> QED
    BY <2>1 DEF BalanceTypes, KeyRow
<1>5. CASE (\E f \in Flushers : Flush(f)) \/ AdminInvalidates \/ Crash
  <2>1. setup' = setup /\ faults' \in 0..setup'.budget
    BY <1>5, EnvTypes DEF Flush, FlushPop, FlushRead, FlushWrite, AdminInvalidates, Crash
  <2>2. /\ UNCHANGED <<balance, balanceKey, dedup, archive, deducted>>
        /\ writer' \in {writer, "open"} /\ writes' \subseteq writes
    BY <1>5 DEF Flush, FlushPop, FlushRead, FlushWrite, AdminInvalidates, Crash, redis, billing,
                cache
  <2> QED
    BY <2>1, <2>2 DEF BalanceTypes, KeyRow
<1>6. CASE UNCHANGED vars
  BY <1>6 DEF vars, BalanceTypes, KeyRow
<1> QED
  BY <1>1, <1>2, <1>3, <1>4, <1>5, <1>6 DEF Next

\* So do the marks of the flusher, the pool and the administrator.
LEMMA MarkTypesStep ==
  ASSUME MarkTypes, [Next]_vars
  PROVE  MarkTypes'
<1> USE DEF MarkTypes, request, redis, billing, cache, pool, quota, env
<1>1. ASSUME NEW r \in Requests, Eligibility(r) PROVE MarkTypes'
  BY <1>1 DEF Eligibility, Begin, ReadBalance, LoadBalance, JudgeBalance, ReadQuota, LoadQuota,
              FillQuota
<1>2. ASSUME NEW r \in Requests, Submit(r) \/ ForwardFails(r) \/ ApplyFails(r) \/ WorkerTakes(r)
      PROVE  MarkTypes'
  BY <1>2 DEF Submit, ForwardFails, ApplyFails, WorkerTakes, Return
<1>3. ASSUME NEW r \in Requests, ClaimKey(r) \/ ReadConflict(r) \/ ReadArchive(r) \/ Commit(r)
      PROVE  MarkTypes'
  BY <1>3 DEF ClaimKey, ReadConflict, ReadArchive, Commit, CompareFingerprint, Step, Return
<1>4. ASSUME NEW r \in Requests, CheckStopped(r) \/ Enqueue(r) \/ SyncDeduct(r) \/ HasLimit(r)
      PROVE  MarkTypes'
  BY <1>4 DEF CheckStopped, Enqueue, SyncDeduct, HasLimit, Step, Return
<1>5. ASSUME NEW r \in Requests, IncrementQuota(r) \/ WriteLog(r) \/ PersistUsage(r)
      PROVE  MarkTypes'
  BY <1>5 DEF IncrementQuota, WriteLog, PersistUsage, Step, Return
<1>6. CASE CacheWorker \/ ArchiveKeys \/ StopWriter \/ StopPool \/ StopFlusher
  BY <1>6 DEF CacheWorker, ArchiveKeys, StopWriter, StopPool, StopFlusher
<1>7. ASSUME NEW f \in Flushers, Flush(f) PROVE MarkTypes'
  BY <1>7 DEF Flush, FlushPop, FlushRead, FlushWrite, Readd
<1>8. CASE AdminWrites \/ AdminInvalidates \/ BreakerCools \/ RedisExpires \/ DayPasses
  BY <1>8, UsageAssumption DEF AdminWrites, AdminInvalidates, BreakerCools, RedisExpires, DayPasses
<1>9. CASE Crash
  BY <1>9 DEF Crash
<1>10. CASE UNCHANGED vars
  BY <1>10 DEF vars
<1> QED
  BY <1>1, <1>2, <1>3, <1>4, <1>5, <1>6, <1>7, <1>8, <1>9, <1>10
  DEF Next, Request, RecordUsage

\* Every step touches no entry or is one of those that do.
LEMMA StepTouchesEntries ==
  ASSUME [Next]_vars
  PROVE  EntriesKept \/ EntryStep
<1>1. ASSUME NEW r \in Requests,
             Request(r) \/ ApplyFails(r) \/ WorkerTakes(r) \/ PersistUsage(r)
      PROVE  EntriesKept \/ EntryStep
  <2>1. CASE PlainStep(r)
    BY <2>1, PlainStepKeepsEntries
  <2>2. CASE \/ ReadQuota(r) \/ LoadQuota(r) \/ FillQuota(r)
             \/ IncrementQuota(r) \/ PersistUsage(r)
    BY <2>2 DEF EntryStep
  <2> QED
    BY <1>1, <2>1, <2>2 DEF Request, Eligibility, RecordUsage, PlainStep
<1>2. CASE CacheWorker \/ ArchiveKeys \/ StopWriter \/ StopPool \/ StopFlusher \/ BreakerCools
  BY <1>2, OtherStepsKeepEntries
<1>3. CASE \/ \E f \in Flushers : Flush(f)
           \/ AdminWrites \/ AdminInvalidates \/ RedisExpires \/ DayPasses \/ Crash
  BY <1>3 DEF EntryStep
<1>4. CASE UNCHANGED vars
  BY <1>4 DEF vars, EntriesKept
<1> QED
  BY <1>1, <1>2, <1>3, <1>4 DEF Next

Types == EntryTypes /\ BalanceTypes /\ MarkTypes

\* What the pipeline starts from has the right types.
LEMMA TypesInit == Init => Types
<1> SUFFICES ASSUME Init PROVE Types
  OBVIOUS
<1>0. setup \in Setups
  BY DEF Init
<1>1. setup.balance \in Int /\ setup.budget \in Nat /\ setup.limit \in Nat \cup {None}
  BY <1>0, SetupsAssumption
<1>2. EntryTypes
  <2>1. row \in Entries
    <3> DEFINE first == [usage |-> 0, limit |-> setup.limit, start |-> None]
    <3>1. first \in Entry
      BY <1>1 DEF Entry
    <3>2. row = None \/ row = first
      BY DEF Init
    <3> HIDE DEF first
    <3> QED
      BY <3>1, <3>2 DEF Entries
  <2>2. held \in [Requests -> Entries] /\ quotaKey \in Entries
    BY DEF Init, Entries
  <2>3. /\ flush \in [Flushers -> [at : {"idle", "popped", "read", "done"}, snap : Entries]]
        /\ \A f \in Flushers : flush[f].at # "read"
    BY DEF Init, IdleFlush, Entries
  <2>4. day \in 0..MaxDay
    BY UsageAssumption DEF Init
  <2> QED
    BY <2>1, <2>2, <2>3, <2>4 DEF EntryTypes
<1>3. BalanceTypes
  BY <1>0, <1>1 DEF Init, BalanceTypes
<1>4. MarkTypes
  <2>1. /\ dirty \in BOOLEAN /\ lost \in BOOLEAN /\ stale \in BOOLEAN
        /\ poolStopped \in BOOLEAN /\ flusherStopped \in BOOLEAN
        /\ counted = {} /\ dbPending = {} /\ running = {} /\ admin = "idle" /\ changes = 0
    BY DEF Init
  <2>2. 0 \in 0..MaxAdmin
    BY UsageAssumption
  <2> QED
    BY <2>1, <2>2 DEF MarkTypes
<1> QED
  BY <1>2, <1>3, <1>4 DEF Types

\* Every step keeps them.
LEMMA TypesStep == Types /\ [Next]_vars => Types'
<1> SUFFICES ASSUME Types, [Next]_vars PROVE Types'
  OBVIOUS
<1>1. EntryTypes'
  <2>1. CASE EntriesKept
    BY <2>1 DEF EntriesKept, EntryTypes, Types
  <2>2. CASE EntryStep
    BY <2>2, EntryStepTypes DEF Types
  <2> QED
    BY <2>1, <2>2, StepTouchesEntries
<1>2. BalanceTypes' /\ MarkTypes'
  BY BalanceTypesStep, MarkTypesStep DEF Types
<1> QED
  BY <1>1, <1>2 DEF Types

THEOREM TypesInvariant == Spec => []Types
BY TypesInit, TypesStep, PTL DEF Spec

\* The state of the pipeline keeps its types, whatever the requests and the
\* configurations: a balance is an integer, a quota entry never has negative usage,
\* a row or an entry is there before anything is written to it.
THEOREM TypeCorrect == Spec => []TypeOK
<1>1. UsageInv /\ Types => TypeOK
  BY DEF UsageInv, UsageTypes, Types, EntryTypes, BalanceTypes, MarkTypes, TypeOK, Entries
<1> QED
  BY <1>1, UsageInvariant, TypesInvariant, PTL

-----------------------------------------------------------------------------
(* No usage is counted twice *)

\* A request is counted, in Redis or by its goroutine, when it leaves IncrementQuota.
ToCount == FinalizeLabels \cup {"limit", "incr"}
Counted == {r \in charged : pc[r] \notin ToCount}

\* An entry shows no more than one for each request of S.
Covers(S, e) == e # None => e.usage <= Cardinality(S)

\* The requests behind the usage an entry shows: those counted in Redis, and for the
\* row those whose goroutine ended too.  The two ways to the row, goroutine and
\* snapshot, are never used together.
CountInv ==
  /\ IsFiniteSet(charged)
  /\ \A r \in Requests : pc[r] \in ToCount => r \in charged
  /\ dbPending \subseteq Counted
  /\ Covers(Counted \ dbPending, row)
  /\ Covers(Counted, quotaKey)
  /\ \A r \in Requests : Covers(Counted, held[r])
  /\ \A f \in Flushers : Covers(Counted, flush[f].snap)
  /\ dbPending # {} => setup.quota = "direct"
  /\ \A f \in Flushers : flush[f].at \in {"popped", "read"} => setup.quota = "flusher"

\* More requests cover what fewer did.
LEMMA CoversMore ==
  ASSUME NEW S, NEW T, IsFiniteSet(T), S \subseteq T, NEW e \in Entries, Covers(S, e)
  PROVE  Covers(T, e)
<1>1. Cardinality(S) <= Cardinality(T) /\ Cardinality(S) \in Nat /\ Cardinality(T) \in Nat
  BY FS_Subset, FS_CardinalityType
<1>2. e # None => e.usage \in Nat
  BY DEF Entries, Entry
<1> QED
  BY <1>1, <1>2 DEF Covers

\* One more request covers one more.
LEMMA CoversOneMore ==
  ASSUME NEW S, IsFiniteSet(S), NEW r, r \notin S,
         NEW n \in Nat, n <= Cardinality(S)
  PROVE  n + 1 <= Cardinality(S \cup {r})
<1>1. Cardinality(S \cup {r}) = Cardinality(S) + 1 /\ Cardinality(S) \in Nat
  BY FS_AddElement, FS_CardinalityType
<1> QED
  BY <1>1

\* What every step does to the counted requests: none is lost, and nobody is about to
\* be counted who was not charged.
CountGrows ==
  /\ setup' = setup
  /\ IsFiniteSet(charged')
  /\ Counted \subseteq Counted'
  /\ \A r \in Requests : pc'[r] \in ToCount => r \in charged'

LEMMA StepCountGrows ==
  ASSUME UsageInv, CountInv, [Next]_vars
  PROVE  CountGrows
<1> USE DEF UsageInv, UsageTypes, ToCount, Counted, FinalizeLabels, request, billing, env, pool,
            Goto, GotoWith, Fault, NoFault, Return, Step
<1>a. ASSUME setup' = setup, charged' = charged,
             \A r \in Requests : pc'[r] \in ToCount => pc[r] \in ToCount
      PROVE  CountGrows
  BY <1>a DEF CountInv, CountGrows
<1>1. ASSUME NEW r \in Requests, Eligibility(r) \/ Submit(r) \/ ForwardFails(r) \/ WorkerTakes(r)
      PROVE  CountGrows
  <2>1. setup' = setup /\ charged' = charged
    BY <1>1 DEF Eligibility, Begin, ReadBalance, LoadBalance, JudgeBalance, ReadQuota, LoadQuota,
                FillQuota, Submit, ForwardFails, WorkerTakes
  <2>2. pc' = pc \/ \E l \in Labels \ ToCount : pc' = [pc EXCEPT ![r] = l]
    <3> USE DEF Labels, CheckLabels, QuotaLabels, ClaimLabels, FinalLabels
    <3>1. CASE Begin(r) \/ ReadBalance(r) \/ LoadBalance(r) \/ JudgeBalance(r)
      BY <3>1 DEF Begin, ReadBalance, LoadBalance, JudgeBalance, Judged
    <3>2. CASE ReadQuota(r) \/ LoadQuota(r) \/ FillQuota(r)
      BY <3>2 DEF ReadQuota, LoadQuota, FillQuota, Verdict
    <3>3. CASE Submit(r) \/ ForwardFails(r) \/ WorkerTakes(r)
      BY <3>3 DEF Submit, ForwardFails, WorkerTakes, Inline, Drop
    <3> QED
      BY <1>1, <3>1, <3>2, <3>3 DEF Eligibility
  <2> QED
    BY <1>a, <2>1, <2>2
<1>2. ASSUME NEW r \in Requests,
             ClaimKey(r) \/ ReadConflict(r) \/ ReadArchive(r) \/ ApplyFails(r) \/ WriteLog(r)
      PROVE  CountGrows
  <2>1. setup' = setup /\ charged' = charged
    BY <1>2 DEF ClaimKey, ReadConflict, ReadArchive, CompareFingerprint, ApplyFails, WriteLog
  <2>2. \E l \in {"conflict", "archive", "commit", "log", "error", "done"} :
          pc' = [pc EXCEPT ![r] = l]
    BY <1>2 DEF ClaimKey, ReadConflict, ReadArchive, CompareFingerprint, ApplyFails, WriteLog
  <2> QED
    BY <1>a, <2>1, <2>2
<1>3. ASSUME NEW r \in Requests, Commit(r) PROVE CountGrows
  <2>1. /\ setup' = setup /\ charged' = charged \cup {r} /\ pc[r] = "commit"
        /\ \E l \in {"finalize", "error"} : pc' = [pc EXCEPT ![r] = l]
    BY <1>3 DEF Commit
  <2>2. r \notin charged
    BY <2>1 DEF LabelsMatch, ChargedLabels, BilledLabels, TailLabels
  <2>3. IsFiniteSet(charged')
    BY <2>1, FS_AddElement DEF CountInv
  <2> QED
    BY <2>1, <2>2, <2>3 DEF CountInv, CountGrows
<1>4. ASSUME NEW r \in Requests,
             CheckStopped(r) \/ Enqueue(r) \/ SyncDeduct(r) \/ HasLimit(r) \/ IncrementQuota(r)
      PROVE  CountGrows
  <2>1. setup' = setup /\ charged' = charged /\ pc[r] \in ToCount
    BY <1>4 DEF CheckStopped, Enqueue, SyncDeduct, HasLimit, IncrementQuota
  <2>2. \E l : pc' = [pc EXCEPT ![r] = l]
    BY <1>4 DEF CheckStopped, Enqueue, SyncDeduct, HasLimit, IncrementQuota
  <2> QED
    BY <1>a, <2>1, <2>2
<1>5. CASE \/ (\E r \in Requests : PersistUsage(r)) \/ CacheWorker \/ ArchiveKeys \/ StopWriter
           \/ StopPool \/ StopFlusher \/ (\E f \in Flushers : Flush(f))
           \/ AdminWrites \/ AdminInvalidates \/ BreakerCools \/ RedisExpires \/ DayPasses
  <2>1. setup' = setup /\ charged' = charged /\ pc' = pc
    BY <1>5 DEF PersistUsage, CacheWorker, ArchiveKeys, StopWriter, StopPool, StopFlusher, Flush,
                FlushPop, FlushRead, FlushWrite, AdminWrites, AdminInvalidates, BreakerCools,
                RedisExpires, DayPasses
  <2> QED
    BY <1>a, <2>1
<1>6. CASE Crash
  <2>1. setup' = setup /\ charged' = charged /\ \A r \in Requests : pc'[r] \in {"idle", "dead"}
    BY <1>6 DEF Crash
  <2> QED
    BY <1>a, <2>1
<1>7. CASE UNCHANGED vars
  <2>1. setup' = setup /\ charged' = charged /\ pc' = pc
    BY <1>7 DEF vars
  <2> QED
    BY <1>a, <2>1
<1> QED
  BY <1>1, <1>2, <1>3, <1>4, <1>5, <1>6, <1>7 DEF Next, Request, RecordUsage

\* What the entries show stays covered, and so does what is left as it was.
LEMMA CoveredStays ==
  ASSUME CountInv, CountGrows
  PROVE  /\ \A e \in Entries : Covers(Counted, e) => Covers(Counted', e)
         /\ IsFiniteSet(Counted') /\ IsFiniteSet(Counted)
<1>1. IsFiniteSet(Counted') /\ IsFiniteSet(Counted)
  BY FS_Subset DEF CountInv, CountGrows, Counted
<1> QED
  BY <1>1, CoversMore DEF CountGrows

\* A step that leaves the entries as they are, or sets them to what others showed.
LEMMA CoverStep ==
  ASSUME CountInv, CountGrows, Types,
         dbPending' \subseteq dbPending,
         Covers(Counted \ dbPending, row'), row' \in Entries,
         Covers(Counted, quotaKey'), quotaKey' \in Entries,
         \A r \in Requests : Covers(Counted, held'[r]) /\ held'[r] \in Entries,
         \A f \in Flushers : /\ Covers(Counted, flush'[f].snap) /\ flush'[f].snap \in Entries
                             /\ flush'[f].at \in {"popped", "read"} => setup.quota = "flusher"
  PROVE  CountInv'
<1>1. /\ \A e \in Entries : Covers(Counted, e) => Covers(Counted', e)
      /\ IsFiniteSet(Counted') /\ IsFiniteSet(Counted)
  BY CoveredStays
<1>2. Counted \ dbPending \subseteq Counted' \ dbPending' /\ dbPending' \subseteq Counted'
  BY DEF CountInv, CountGrows
<1>3. IsFiniteSet(Counted' \ dbPending')
  BY <1>1, FS_Difference
<1>4. Covers(Counted' \ dbPending', row')
  <2> DEFINE S == Counted \ dbPending
             T == Counted' \ dbPending'
  <2>1. S \subseteq T /\ IsFiniteSet(T) /\ Covers(S, row')
    BY <1>2, <1>3
  <2> HIDE DEF S, T
  <2>2. Covers(T, row')
    BY <2>1, CoversMore
  <2> QED
    BY <2>2 DEF T
<1>5. Covers(Counted, quotaKey)' /\ Covers(Counted \ dbPending, row)'
  BY <1>1, <1>4 DEF Covers
<1>6. \A r \in Requests : Covers(Counted, held[r])'
  BY <1>1 DEF Covers
<1>7. \A f \in Flushers : Covers(Counted, flush[f].snap)'
  BY <1>1 DEF Covers
<1>8. /\ IsFiniteSet(charged)' /\ (\A r \in Requests : pc[r] \in ToCount => r \in charged)'
      /\ (dbPending \subseteq Counted)'
      /\ (dbPending # {} => setup.quota = "direct")'
      /\ (\A f \in Flushers : flush[f].at \in {"popped", "read"} => setup.quota = "flusher")'
  BY <1>2 DEF CountInv, CountGrows
<1> QED
  BY <1>5, <1>6, <1>7, <1>8 DEF CountInv

LEMMA KeptCounts ==
  ASSUME CountInv, CountGrows, Types, EntriesKept
  PROVE  CountInv'
<1>1. /\ dbPending' = dbPending /\ row' = row /\ quotaKey' = quotaKey /\ held' = held
      /\ flush' = flush
  BY DEF EntriesKept
<1>2. /\ row \in Entries /\ quotaKey \in Entries /\ \A r \in Requests : held[r] \in Entries
      /\ \A f \in Flushers : flush[f].snap \in Entries
  BY DEF Types, EntryTypes
<1>3. /\ Covers(Counted \ dbPending, row) /\ Covers(Counted, quotaKey)
      /\ \A r \in Requests : Covers(Counted, held[r])
      /\ \A f \in Flushers : Covers(Counted, flush[f].snap)
      /\ \A f \in Flushers : flush[f].at \in {"popped", "read"} => setup.quota = "flusher"
  BY DEF CountInv
<1> QED
  BY <1>1, <1>2, <1>3, CoverStep

\* What the row shows, everyone may show.
LEMMA RowIsCovered ==
  ASSUME CountInv, CountGrows, Types
  PROVE  Covers(Counted, row)
<1> DEFINE S == Counted \ dbPending
<1>1. S \subseteq Counted /\ Covers(S, row)
  BY DEF CountInv
<1> HIDE DEF S
<1>2. row \in Entries
  BY DEF Types, EntryTypes
<1> QED
  BY <1>1, <1>2, CoveredStays, CoversMore

\* Nothing is counted twice by a step that reads, fills, increments, flushes or resets.
LEMMA EntryStepCounts ==
  ASSUME UsageInv, CountInv, CountGrows, Types, Types', EntryStep
  PROVE  CountInv'
<1>t. /\ row \in Entries /\ quotaKey \in Entries /\ \A r \in Requests : held[r] \in Entries
      /\ \A f \in Flushers : flush[f].snap \in Entries
      /\ held \in [Requests -> Entries]
      /\ flush \in [Flushers -> [at : {"idle", "popped", "read", "done"}, snap : Entries]]
      /\ \A f \in Flushers : flush[f].at = "read" => flush[f].snap # None
  BY DEF Types, EntryTypes
<1>u. /\ row' \in Entries /\ quotaKey' \in Entries /\ \A r \in Requests : held'[r] \in Entries
      /\ \A f \in Flushers : flush'[f].snap \in Entries
  BY DEF Types, EntryTypes
<1>c. /\ Covers(Counted \ dbPending, row) /\ Covers(Counted, quotaKey)
      /\ \A r \in Requests : Covers(Counted, held[r])
      /\ \A f \in Flushers : Covers(Counted, flush[f].snap)
      /\ \A f \in Flushers : flush[f].at \in {"popped", "read"} => setup.quota = "flusher"
  BY DEF CountInv
<1>n. \A S : Covers(S, None)
  BY DEF Covers
<1>f. IsFiniteSet(Counted) /\ IsFiniteSet(Counted')
  BY CoveredStays
<1>z. Cardinality(Counted) \in Nat
  BY <1>f, FS_CardinalityType
\* a step leaves everything but what it names
<1>s. ASSUME dbPending' = dbPending, row' = row, quotaKey' \in {quotaKey, None}, flush' = flush,
             \A r \in Requests : Covers(Counted, held'[r])
      PROVE  CountInv'
  <2>1. Covers(Counted, quotaKey')
    BY <1>s, <1>c, <1>n
  <2>2. /\ dbPending' \subseteq dbPending /\ Covers(Counted \ dbPending, row')
        /\ \A f \in Flushers : /\ Covers(Counted, flush'[f].snap) /\ flush'[f].snap \in Entries
                               /\ flush'[f].at \in {"popped", "read"} => setup.quota = "flusher"
    BY <1>s, <1>c, <1>t
  <2> QED
    BY <1>s, <1>u, <2>1, <2>2, CoverStep
<1>1. ASSUME NEW r \in Requests, ReadQuota(r) PROVE CountInv'
  <2>1. UNCHANGED <<dbPending, row, quotaKey, flush>>
    BY <1>1 DEF ReadQuota, quota, redis
  <2>2. held' = held \/ \E e : held' = [held EXCEPT ![r] = e] /\ (e # None => e.usage = 0)
    <3>1. quotaKey # None => [quotaKey EXCEPT !.usage = 0, !.start = day].usage = 0
      BY <1>t DEF Entries, Entry
    <3> QED
      BY <1>1, <3>1 DEF ReadQuota, Goto, GotoWith
  <2>3. \A q \in Requests : Covers(Counted, held'[q])
    <3>1. \A e : (e # None => e.usage = 0) => Covers(Counted, e)
      BY <1>z DEF Covers
    <3> QED
      BY <1>c, <1>t, <2>2, <3>1
  <2> QED
    BY <1>s, <2>1, <2>3
<1>2. ASSUME NEW r \in Requests, LoadQuota(r) PROVE CountInv'
  <2>1. UNCHANGED <<dbPending, row, quotaKey, flush>>
    BY <1>2 DEF LoadQuota, quota, redis
  <2>2. Covers(Counted, Sentinel)
    BY <1>z DEF Covers, Sentinel
  <2>3. row # None => Covers(Counted, Current(row))
    <3>1. row # None => row \in Entry /\ row.usage <= Cardinality(Counted)
      BY <1>t, RowIsCovered DEF Covers, Entries
    <3>2. row # None => Current(row).usage \in {0, row.usage}
      BY <3>1 DEF Current, UsageInWindow, Entry
    <3> QED
      BY <1>z, <3>1, <3>2 DEF Covers, Entry
  <2>4. held' = held \/ \E e : held' = [held EXCEPT ![r] = e] /\ Covers(Counted, e)
    BY <1>2, <2>2, <2>3 DEF LoadQuota, Goto, GotoWith
  <2>5. \A q \in Requests : Covers(Counted, held'[q])
    BY <1>c, <1>t, <2>4
  <2> QED
    BY <1>s, <2>1, <2>5
<1>3. ASSUME NEW r \in Requests, FillQuota(r) PROVE CountInv'
  <2>1. UNCHANGED <<dbPending, row, flush>>
    BY <1>3 DEF FillQuota, quota
  <2>2. quotaKey' \in {held[r], quotaKey} /\ held' = [held EXCEPT ![r] = None]
    BY <1>3 DEF FillQuota, GotoWith
  <2>3. Covers(Counted, quotaKey') /\ \A q \in Requests : Covers(Counted, held'[q])
    BY <1>c, <1>n, <1>t, <2>2
  <2>4. /\ dbPending' \subseteq dbPending /\ Covers(Counted \ dbPending, row')
        /\ \A f \in Flushers : /\ Covers(Counted, flush'[f].snap) /\ flush'[f].snap \in Entries
                               /\ flush'[f].at \in {"popped", "read"} => setup.quota = "flusher"
    BY <1>c, <1>t, <2>1
  <2> QED
    BY <1>u, <2>3, <2>4, CoverStep
<1>4. ASSUME NEW f \in Flushers, Flush(f) PROVE CountInv'
  <2>1. UNCHANGED <<dbPending, held, quotaKey>> /\ setup.quota = "flusher"
    BY <1>4, <1>c DEF Flush, FlushPop, FlushRead, FlushWrite, request
  <2>2. Covers(Counted \ dbPending, row')
    <3>1. CASE row' = row
      BY <1>c, <3>1
    <3>2. CASE row' # row
      <4>1. flush[f].at = "read" /\ row' = Snapshot(row, flush[f].snap)
        BY <1>4, <3>2 DEF Flush, FlushPop, FlushRead, FlushWrite
      <4>2. flush[f].snap \in Entry /\ flush[f].snap # None
        BY <1>t, <4>1 DEF Entries
      <4>3. row'.usage = flush[f].snap.usage
        BY <1>t, <4>1, <4>2 DEF Snapshot, Entries, Entry
      <4>4. Counted \ dbPending = Counted
        BY <2>1 DEF CountInv
      <4> QED
        BY <1>c, <4>2, <4>3, <4>4 DEF Covers
    <3> QED
      BY <3>1, <3>2
  <2>3. \E a, e : flush' = [flush EXCEPT ![f] = [at |-> a, snap |-> e]] /\ Covers(Counted, e)
    BY <1>4, <1>c, <1>n DEF Flush, FlushPop, FlushRead, FlushWrite, SetFlush
  <2>4. \A g \in Flushers : Covers(Counted, flush'[g].snap)
    BY <1>c, <1>t, <2>3
  <2> QED
    BY <1>c, <1>u, <2>1, <2>2, <2>4, CoverStep
<1>5. ASSUME NEW r \in Requests, IncrementQuota(r) PROVE CountInv'
  <2>1. /\ UNCHANGED <<row, flush, charged, held>> /\ pc[r] = "incr"
        /\ pc' = [pc EXCEPT ![r] = "log"] /\ pc \in [Requests -> Labels]
        /\ dbPending' = IF setup.quota = "direct" THEN dbPending \cup {r} ELSE dbPending
        /\ \/ quotaKey # None /\ quotaKey' = [quotaKey EXCEPT !.usage = @ + 1]
           \/ quotaKey' = quotaKey
    BY <1>5 DEF IncrementQuota, billing, Step, Goto, UsageInv, UsageTypes
  <2>2. /\ r \in charged /\ r \notin Counted /\ Counted' = Counted \cup {r}
        /\ r \notin dbPending
    BY <2>1 DEF CountInv, Counted, ToCount, FinalizeLabels
  <2>3. quotaKey # None => quotaKey \in Entry
    BY <1>t DEF Entries
  <2>4. Covers(Counted', quotaKey')
    <3>1. CASE quotaKey # None /\ quotaKey' = [quotaKey EXCEPT !.usage = @ + 1]
      <4>1. quotaKey.usage \in Nat /\ quotaKey'.usage = quotaKey.usage + 1
        BY <2>3, <3>1 DEF Entry
      <4>2. quotaKey.usage <= Cardinality(Counted)
        BY <1>c, <3>1 DEF Covers
      <4>3. quotaKey.usage + 1 <= Cardinality(Counted \cup {r})
        BY <1>f, <2>2, <4>1, <4>2, CoversOneMore
      <4> QED
        BY <2>2, <4>1, <4>3 DEF Covers
    <3>2. CASE quotaKey' = quotaKey
      BY <1>c, <1>t, <3>2, CoveredStays
    <3> QED
      BY <2>1, <3>1, <3>2
  <2>5. Covers(Counted' \ dbPending', row')
    <3> DEFINE S == Counted \ dbPending
               T == Counted' \ dbPending'
    <3>1. S \subseteq T /\ IsFiniteSet(T) /\ Covers(S, row) /\ row' = row
      BY <1>c, <1>f, <2>1, <2>2, FS_Difference
    <3> HIDE DEF S, T
    <3>2. Covers(T, row')
      BY <1>t, <3>1, CoversMore
    <3> QED
      BY <3>2 DEF T
  <2>6. /\ \A q \in Requests : Covers(Counted', held'[q])
        /\ \A f \in Flushers : Covers(Counted', flush'[f].snap)
    BY <1>c, <1>t, <2>1, CoveredStays
  <2>7. dbPending' \subseteq Counted' /\ (dbPending' # {} => setup'.quota = "direct")
    BY <2>1, <2>2 DEF CountInv, CountGrows
  <2>8. \A f \in Flushers : flush'[f].at \in {"popped", "read"} => setup'.quota = "flusher"
    BY <1>c, <2>1 DEF CountGrows
  <2>9. IsFiniteSet(charged') /\ \A q \in Requests : pc'[q] \in ToCount => q \in charged'
    BY DEF CountGrows
  <2> QED
    BY <2>4, <2>5, <2>6, <2>7, <2>8, <2>9 DEF CountInv, Covers
<1>6. ASSUME NEW r \in Requests, PersistUsage(r) PROVE CountInv'
  <2>1. /\ UNCHANGED <<held, flush, quotaKey, pc, charged>>
        /\ r \in dbPending /\ dbPending' = dbPending \ {r}
    BY <1>6 DEF PersistUsage, request, billing, redis
  <2>2. r \in Counted /\ Counted' = Counted
    BY <2>1 DEF CountInv, Counted
  <2> DEFINE S == Counted \ dbPending
             T == Counted' \ dbPending'
  <2>3. r \notin S /\ T = S \cup {r} /\ IsFiniteSet(S) /\ IsFiniteSet(T) /\ Covers(S, row)
    BY <1>c, <1>f, <2>1, <2>2, FS_Difference
  <2> HIDE DEF S, T
  <2>4. Covers(T, row')
    <3>1. CASE row' = row
      BY <1>t, <2>3, <3>1, CoversMore
    <3>2. CASE row = None /\ row'.usage = 1
      <4>1. 0 + 1 <= Cardinality(S \cup {r})
        BY <2>3, FS_CardinalityType, CoversOneMore
      <4> QED
        BY <2>3, <3>2, <4>1 DEF Covers
    <3>3. CASE row # None /\ row' = [row EXCEPT !.usage = MaybeReset(row), !.start = day]
      <4>1. row \in Entry /\ row.usage \in Nat
        BY <1>t, <3>3 DEF Entries, Entry
      <4>2. row'.usage = MaybeReset(row) /\ MaybeReset(row) \in {1, row.usage + 1}
        BY <3>3, <4>1 DEF MaybeReset, Entry
      <4>3. row.usage <= Cardinality(S)
        BY <2>3, <3>3 DEF Covers
      <4>4. row.usage + 1 <= Cardinality(S \cup {r})
        BY <2>3, <4>1, <4>3, CoversOneMore
      <4>5. Cardinality(S \cup {r}) \in Nat
        BY <2>3, FS_CardinalityType
      <4>6. row'.usage <= Cardinality(S \cup {r})
        BY <4>1, <4>2, <4>4, <4>5
      <4> QED
        BY <2>3, <4>6 DEF Covers
    <3> QED
      BY <1>6, <3>1, <3>2, <3>3 DEF PersistUsage
  <2>5. Covers(Counted' \ dbPending', row')
    BY <2>4 DEF T
  <2>6. /\ Covers(Counted', quotaKey')
        /\ \A q \in Requests : Covers(Counted', held'[q])
        /\ \A f \in Flushers : Covers(Counted', flush'[f].snap)
    BY <1>c, <2>1, <2>2
  <2>7. dbPending' \subseteq Counted' /\ (dbPending' # {} => setup'.quota = "direct")
    BY <2>1, <2>2 DEF CountInv, CountGrows
  <2>8. \A f \in Flushers : flush'[f].at \in {"popped", "read"} => setup'.quota = "flusher"
    BY <1>c, <2>1 DEF CountGrows
  <2>9. IsFiniteSet(charged') /\ \A q \in Requests : pc'[q] \in ToCount => q \in charged'
    BY DEF CountGrows
  <2> QED
    BY <2>5, <2>6, <2>7, <2>8, <2>9 DEF CountInv, Covers
<1>7. ASSUME AdminWrites PROVE CountInv'
  <2>1. UNCHANGED <<dbPending, held, quotaKey, flush>>
    BY <1>7 DEF AdminWrites, request, redis
  <2>2. row' = None \/ row'.usage = 0 \/ (row # None /\ row'.usage = row.usage)
    <3>1. row # None => row \in Entry
      BY <1>t DEF Entries
    <3>2. row # None => \A l : [row EXCEPT !.limit = l].usage = row.usage
      BY <3>1 DEF Entry
    <3>3. row # None => [row EXCEPT !.usage = 0, !.start = day].usage = 0
      BY <3>1 DEF Entry
    <3>4. ASSUME NEW l, row' = IF row = None THEN [usage |-> 0, limit |-> l, start |-> None]
                              ELSE [row EXCEPT !.limit = l]
          PROVE  row'.usage = 0 \/ (row # None /\ row'.usage = row.usage)
      BY <3>2, <3>4
    <3> QED
      BY <1>7, <3>3, <3>4 DEF AdminWrites
  <2> DEFINE S == Counted \ dbPending
  <2>3. Cardinality(S) \in Nat /\ Covers(S, row)
    BY <1>c, <1>f, FS_Difference, FS_CardinalityType
  <2> HIDE DEF S
  <2>4. Covers(S, row')
    BY <2>2, <2>3 DEF Covers
  <2>5. Covers(Counted \ dbPending, row')
    BY <2>4 DEF S
  <2>6. /\ dbPending' \subseteq dbPending /\ Covers(Counted, quotaKey')
        /\ \A q \in Requests : Covers(Counted, held'[q])
        /\ \A f \in Flushers : /\ Covers(Counted, flush'[f].snap)
                               /\ flush'[f].at \in {"popped", "read"} => setup.quota = "flusher"
    BY <1>c, <2>1
  <2> QED
    BY <1>u, <2>5, <2>6, CoverStep
<1>8. ASSUME AdminInvalidates \/ RedisExpires \/ DayPasses PROVE CountInv'
  <2>1. /\ UNCHANGED <<dbPending, row, held, flush>> /\ quotaKey' \in {quotaKey, None}
    BY <1>8 DEF AdminInvalidates, RedisExpires, DayPasses, request, quota
  <2> QED
    BY <1>c, <1>s, <2>1
<1>9. ASSUME Crash PROVE CountInv'
  <2>1. /\ UNCHANGED <<row, quotaKey>> /\ dbPending' = {}
        /\ held' = [q \in Requests |-> None] /\ flush' = [f \in Flushers |-> IdleFlush]
    BY <1>9 DEF Crash, redis
  <2>2. /\ dbPending' \subseteq dbPending /\ Covers(Counted, quotaKey')
        /\ Covers(Counted \ dbPending, row')
        /\ \A q \in Requests : Covers(Counted, held'[q])
        /\ \A f \in Flushers : /\ Covers(Counted, flush'[f].snap)
                               /\ flush'[f].at \in {"popped", "read"} => setup.quota = "flusher"
    BY <1>c, <1>n, <2>1 DEF IdleFlush
  <2> QED
    BY <1>u, <2>2, CoverStep
<1> QED
  BY <1>1, <1>2, <1>3, <1>4, <1>5, <1>6, <1>7, <1>8, <1>9 DEF EntryStep

LEMMA CountInit == Init => CountInv
<1> SUFFICES ASSUME Init PROVE CountInv
  OBVIOUS
<1>1. /\ charged = {} /\ dbPending = {} /\ quotaKey = None /\ (row = None \/ row.usage = 0)
      /\ \A r \in Requests : held[r] = None /\ pc[r] = "idle"
      /\ \A f \in Flushers : flush[f].snap = None /\ flush[f].at = "idle"
  BY DEF Init, IdleFlush
<1>2. Counted = {} /\ Counted \ dbPending = {} /\ Cardinality({}) = 0 /\ IsFiniteSet({})
  BY <1>1, FS_EmptySet DEF Counted
<1> QED
  BY <1>1, <1>2 DEF CountInv, Covers, ToCount, FinalizeLabels

\* The invariant of the pipeline with its types and its count.
CountedInv == UsageInv /\ Types /\ CountInv

LEMMA CountedStep == CountedInv /\ [Next]_vars => CountedInv'
<1> SUFFICES ASSUME CountedInv, [Next]_vars PROVE CountedInv'
  OBVIOUS
<1>1. UsageInv' /\ Types'
  BY UsageStep, TypesStep DEF CountedInv
<1>2. CountGrows
  BY StepCountGrows DEF CountedInv
<1>3. CountInv'
  BY <1>1, <1>2, StepTouchesEntries, KeptCounts, EntryStepCounts DEF CountedInv
<1> QED
  BY <1>1, <1>3 DEF CountedInv

THEOREM CountInvariant == Spec => []CountedInv
<1>1. Init => CountedInv
  BY UsageInit, TypesInit, CountInit DEF CountedInv
<1> QED
  BY <1>1, CountedStep, PTL DEF Spec

\* Whatever path the usage takes to Redis and to the row, and however increments,
\* reloads, snapshots, goroutines, resets and crashes interleave, neither ever shows
\* more than one for each charged request.
THEOREM QuotaIsNotOvercounted == Spec => []QuotaNeverOvercounts
<1>1. CountedInv => QuotaNeverOvercounts
  <2> SUFFICES ASSUME CountedInv PROVE QuotaNeverOvercounts
    OBVIOUS
  <2>1. /\ Covers(Counted \ dbPending, row) /\ Covers(Counted, quotaKey) /\ IsFiniteSet(charged)
        /\ row \in Entries /\ quotaKey \in Entries
    BY DEF CountedInv, CountInv, Types, EntryTypes
  <2>2. Counted \subseteq charged
    BY DEF Counted
  <2> DEFINE S == Counted \ dbPending
  <2>3. S \subseteq charged /\ Covers(S, row)
    BY <2>1, <2>2
  <2> HIDE DEF S
  <2>4. Covers(charged, row)
    BY <2>1, <2>3, CoversMore
  <2>5. Covers(charged, quotaKey)
    BY <2>1, <2>2, CoversMore
  <2> QED
    BY <2>4, <2>5 DEF Covers, QuotaNeverOvercounts
<1> QED
  BY <1>1, CountInvariant, PTL

-----------------------------------------------------------------------------
(* No usage is forgotten *)

\* The usage an entry shows on a day.
UsageOn(d, e) == IF e = None THEN 0 ELSE IF e.start = None \/ e.start < d THEN 0 ELSE e.usage

\* No window starts in the future.
Timely(d, e) == e # None => e.start = None \/ e.start <= d
WindowInv ==
  /\ Timely(day, quotaKey) /\ Timely(day, row)
  /\ \A r \in Requests : Timely(day, held[r])
  /\ \A f \in Flushers : Timely(day, flush[f].snap)

\* What Redis shows and the row does not is marked, lost, or with a flusher that has
\* not read it or read it all.
Accounted ==
  \/ lost \/ quotaKey = None \/ UsageOn(day, quotaKey) <= UsageOn(day, row) \/ dirty
  \/ \E f \in Flushers :
       \/ flush[f].at = "popped"
       \/ flush[f].at = "read" /\ UsageOn(day, quotaKey) <= UsageOn(day, flush[f].snap)

\* ... and what a request would fill the cache with is in the row: as long as no
\* flush wrote an older usage.
DirtyInv ==
  setup.quota = "flusher" /\ changes = 0 /\ ~stale
    => /\ \A r \in Requests : UsageOn(day, held[r]) <= UsageOn(day, row)
       /\ Accounted

LEMMA UsageIsNatural ==
  ASSUME NEW e \in Entries, NEW d \in Nat
  PROVE  /\ UsageOn(d, e) \in Nat /\ UsageOn(d, None) = 0
         /\ e # None => UsageOn(d, e) \in {0, e.usage} /\ e.usage \in Nat
BY DEF UsageOn, Entries, Entry

LEMMA UsageIsUsageNow == \A e : UsageNow(e) = UsageOn(day, e)
BY DEF UsageNow, UsageInWindow, WindowExpired, UsageOn

\* Windows start when they are opened.
LEMMA WindowStep ==
  ASSUME Types, Types', WindowInv, [Next]_vars
  PROVE  WindowInv'
<1>t. /\ row \in Entries /\ quotaKey \in Entries /\ \A r \in Requests : held[r] \in Entries
      /\ \A f \in Flushers : flush[f].snap \in Entries
      /\ held \in [Requests -> Entries]
      /\ flush \in [Flushers -> [at : {"idle", "popped", "read", "done"}, snap : Entries]]
      /\ \A f \in Flushers : flush[f].at = "read" => flush[f].snap # None
      /\ day \in Nat
  BY DEF Types, EntryTypes
<1>n. Timely(day, None) /\ \A e : e.start = day => Timely(day, e)
  BY <1>t DEF Timely
<1>w. /\ Timely(day, quotaKey) /\ Timely(day, row)
      /\ \A r \in Requests : Timely(day, held[r])
      /\ \A f \in Flushers : Timely(day, flush[f].snap)
  BY DEF WindowInv
<1>1. CASE EntriesKept
  BY <1>1, <1>w DEF EntriesKept, WindowInv
<1>2. ASSUME NEW r \in Requests, ReadQuota(r) PROVE WindowInv'
  <2>1. UNCHANGED <<day, row, quotaKey, flush>>
    BY <1>2 DEF ReadQuota, quota, redis, NoFault, Fault, env
  <2>2. held' = held \/ \E e : held' = [held EXCEPT ![r] = e] /\ e.start = day
    <3>1. quotaKey # None => [quotaKey EXCEPT !.usage = 0, !.start = day].start = day
      BY <1>t DEF Entries, Entry
    <3> QED
      BY <1>2, <3>1 DEF ReadQuota, Goto, GotoWith
  <2>3. \A q \in Requests : Timely(day, held'[q])
    BY <1>n, <1>w, <1>t, <2>2
  <2> QED
    BY <1>w, <2>1, <2>3 DEF WindowInv
<1>3. ASSUME NEW r \in Requests, LoadQuota(r) PROVE WindowInv'
  <2>1. UNCHANGED <<day, row, quotaKey, flush>>
    BY <1>3 DEF LoadQuota, quota, redis, NoFault, Fault, env
  <2>2. row # None => Timely(day, Current(row))
    <3>1. row # None => row \in Entry
      BY <1>t DEF Entries
    <3>2. row # None => Current(row).start = row.start
      BY <3>1 DEF Current, Entry
    <3> QED
      BY <1>w, <3>2 DEF Timely
  <2>3. Timely(day, Sentinel)
    BY <1>n DEF Sentinel
  <2>4. held' = held \/ \E e : held' = [held EXCEPT ![r] = e] /\ Timely(day, e)
    BY <1>3, <2>2, <2>3 DEF LoadQuota, Goto, GotoWith
  <2>5. \A q \in Requests : Timely(day, held'[q])
    BY <1>w, <1>t, <2>4
  <2> QED
    BY <1>w, <2>1, <2>5 DEF WindowInv
<1>4. ASSUME NEW r \in Requests, FillQuota(r) PROVE WindowInv'
  <2>1. UNCHANGED <<day, row, flush>>
    BY <1>4 DEF FillQuota, quota, NoFault, Fault, env
  <2>2. quotaKey' \in {held[r], quotaKey} /\ held' = [held EXCEPT ![r] = None]
    BY <1>4 DEF FillQuota, GotoWith
  <2>3. Timely(day, quotaKey') /\ \A q \in Requests : Timely(day, held'[q])
    BY <1>n, <1>w, <1>t, <2>2
  <2> QED
    BY <1>w, <2>1, <2>3 DEF WindowInv
<1>5. ASSUME NEW r \in Requests, IncrementQuota(r) PROVE WindowInv'
  <2>1. UNCHANGED <<day, row, flush, held>>
    BY <1>5 DEF IncrementQuota, NoFault, Fault, env, Step, Goto
  <2>2. Timely(day, quotaKey')
    <3>1. quotaKey # None => quotaKey \in Entry
      BY <1>t DEF Entries
    <3>2. quotaKey # None => [quotaKey EXCEPT !.usage = @ + 1].start = quotaKey.start
      BY <3>1 DEF Entry
    <3> QED
      BY <1>5, <1>w, <3>2 DEF IncrementQuota, Timely
  <2> QED
    BY <1>w, <2>1, <2>2 DEF WindowInv
<1>6. ASSUME NEW r \in Requests, PersistUsage(r) PROVE WindowInv'
  <2>1. UNCHANGED <<day, quotaKey, flush, held>>
    BY <1>6 DEF PersistUsage, request, redis, NoFault, Fault, env
  <2>2. Timely(day, row')
    <3>1. row # None => row \in Entry
      BY <1>t DEF Entries
    <3>2. row # None => [row EXCEPT !.usage = MaybeReset(row), !.start = day].start = day
      BY <3>1 DEF Entry
    <3>3. [usage |-> 1, limit |-> None, start |-> day].start = day
      OBVIOUS
    <3>4. row' = row \/ row'.start = day
      BY <1>6, <3>2, <3>3 DEF PersistUsage
    <3> QED
      BY <1>n, <1>w, <3>4
  <2> QED
    BY <1>w, <2>1, <2>2 DEF WindowInv
<1>7. ASSUME NEW f \in Flushers, Flush(f) PROVE WindowInv'
  <2>1. UNCHANGED <<day, held, quotaKey>>
    BY <1>7 DEF Flush, FlushPop, FlushRead, FlushWrite, request, NoFault, Fault, env
  <2>2. Timely(day, row')
    <3>1. CASE row' = row
      BY <1>w, <3>1
    <3>2. CASE flush[f].at = "read" /\ row' = Snapshot(row, flush[f].snap)
      <4>1. flush[f].snap \in Entry /\ flush[f].snap # None
        BY <1>t, <3>2 DEF Entries
      <4>2. row'.start = flush[f].snap.start
        BY <1>t, <3>2, <4>1 DEF Snapshot, Entries, Entry
      <4> QED
        BY <1>w, <4>1, <4>2 DEF Timely
    <3> QED
      BY <1>7, <3>1, <3>2 DEF Flush, FlushPop, FlushRead, FlushWrite
  <2>3. \E a, e : flush' = [flush EXCEPT ![f] = [at |-> a, snap |-> e]] /\ Timely(day, e)
    BY <1>7, <1>n, <1>w DEF Flush, FlushPop, FlushRead, FlushWrite, SetFlush
  <2>4. \A g \in Flushers : Timely(day, flush'[g].snap)
    BY <1>w, <1>t, <2>3
  <2> QED
    BY <1>w, <2>1, <2>2, <2>4 DEF WindowInv
<1>8. CASE AdminWrites
  <2>1. UNCHANGED <<day, held, quotaKey, flush>>
    BY <1>8 DEF AdminWrites, request, redis, env
  <2>2. row # None => row \in Entry
    BY <1>t DEF Entries
  <2>3. row # None => [row EXCEPT !.usage = 0, !.start = day].start = day
    BY <2>2 DEF Entry
  <2>4. ASSUME NEW l, row' = IF row = None THEN [usage |-> 0, limit |-> l, start |-> None]
                             ELSE [row EXCEPT !.limit = l]
        PROVE  row'.start = None \/ (row # None /\ row'.start = row.start)
    BY <2>2, <2>4 DEF Entry
  <2>5. Timely(day, row')
    BY <1>8, <1>n, <1>w, <2>3, <2>4 DEF AdminWrites, Timely
  <2> QED
    BY <1>w, <2>1, <2>5 DEF WindowInv
<1>9. CASE AdminInvalidates \/ RedisExpires
  <2>1. UNCHANGED <<day, row, held, flush>> /\ quotaKey' \in {quotaKey, None}
    BY <1>9 DEF AdminInvalidates, RedisExpires, request, quota, NoFault, Fault, env
  <2> QED
    BY <1>n, <1>w, <2>1 DEF WindowInv
<1>10. CASE DayPasses
  <2>1. UNCHANGED <<quotaKey, row, held, flush>> /\ day' = day + 1
    BY <1>10 DEF DayPasses, request, quota
  <2>2. \A e \in Entries : Timely(day, e) => Timely(day + 1, e)
    BY <1>t DEF Timely, Entries, Entry
  <2> QED
    BY <1>t, <1>w, <2>1, <2>2 DEF WindowInv
<1>11. CASE Crash
  <2>1. /\ UNCHANGED <<day, quotaKey, row>> /\ held' = [q \in Requests |-> None]
        /\ flush' = [f \in Flushers |-> IdleFlush]
    BY <1>11 DEF Crash, redis, Fault
  <2> QED
    BY <1>n, <1>w, <2>1 DEF WindowInv, IdleFlush
<1> QED
  BY <1>1, <1>2, <1>3, <1>4, <1>5, <1>6, <1>7, <1>8, <1>9, <1>10, <1>11, StepTouchesEntries
  DEF EntryStep

\* Usage stays accounted for in every step that touches an entry.
LEMMA EntryStepAccounts ==
  ASSUME CountInv, setup' = setup, Types, Types', WindowInv, DirtyInv, EntryStep
  PROVE  DirtyInv'
<1>t. /\ row \in Entries /\ quotaKey \in Entries /\ \A r \in Requests : held[r] \in Entries
      /\ \A f \in Flushers : flush[f].snap \in Entries
      /\ held \in [Requests -> Entries]
      /\ flush \in [Flushers -> [at : {"idle", "popped", "read", "done"}, snap : Entries]]
      /\ \A f \in Flushers : flush[f].at = "read" => flush[f].snap # None
      /\ day \in Nat /\ changes \in Nat
  BY DEF Types, EntryTypes, MarkTypes
<1>u. /\ row' \in Entries /\ quotaKey' \in Entries /\ \A r \in Requests : held'[r] \in Entries
  BY DEF Types, EntryTypes
<1>0. UsageOn(day, row) \in Nat /\ UsageOn(day, None) = 0 /\ UsageOn(day, quotaKey) \in Nat
  BY <1>t, UsageIsNatural
<1>d. setup.quota = "flusher" /\ changes = 0 /\ ~stale
        => (\A r \in Requests : UsageOn(day, held[r]) <= UsageOn(day, row)) /\ Accounted
  BY DEF DirtyInv
<1>1. ASSUME NEW r \in Requests, ReadQuota(r) PROVE DirtyInv'
  <2>1. UNCHANGED <<day, row, quotaKey, flush, dirty, lost, stale, changes>>
    BY <1>1 DEF ReadQuota, quota, redis, NoFault, Fault, env
  <2>2. held' = held \/ \E e : held' = [held EXCEPT ![r] = e] /\ UsageOn(day, e) = 0
    <3>1. quotaKey # None =>
            UsageOn(day, [quotaKey EXCEPT !.usage = 0, !.start = day]) = 0
      BY <1>t DEF Entries, Entry, UsageOn
    <3> QED
      BY <1>1, <3>1 DEF ReadQuota, Goto, GotoWith
  <2>3. setup.quota = "flusher" /\ changes = 0 /\ ~stale
          => \A q \in Requests : UsageOn(day, held'[q]) <= UsageOn(day, row)
    BY <1>0, <1>d, <1>t, <2>2
  <2> QED
    BY <1>d, <2>1, <2>3 DEF DirtyInv, Accounted
<1>2. ASSUME NEW r \in Requests, LoadQuota(r) PROVE DirtyInv'
  <2>1. UNCHANGED <<day, row, quotaKey, flush, dirty, lost, stale, changes>>
    BY <1>2 DEF LoadQuota, quota, redis, NoFault, Fault, env
  <2>2. row # None => UsageOn(day, Current(row)) = UsageOn(day, row)
    <3>1. row # None => row \in Entry
      BY <1>t DEF Entries
    <3> SUFFICES ASSUME row # None PROVE UsageOn(day, Current(row)) = UsageOn(day, row)
      OBVIOUS
    <3>2. /\ Current(row).usage = UsageInWindow(row) /\ Current(row).start = row.start
          /\ Current(row) \in Entry
      BY <3>1 DEF Current, Entry, UsageInWindow
    <3> QED
      BY <3>1, <3>2, NoneAssumption DEF UsageOn, UsageInWindow, WindowExpired
  <2>3. UsageOn(day, Sentinel) = 0
    BY DEF UsageOn, Sentinel
  <2>4. held' = held \/ \E e : held' = [held EXCEPT ![r] = e]
                               /\ UsageOn(day, e) \in {0, UsageOn(day, row)}
    BY <1>2, <2>2, <2>3 DEF LoadQuota, Goto, GotoWith
  <2>5. setup.quota = "flusher" /\ changes = 0 /\ ~stale
          => \A q \in Requests : UsageOn(day, held'[q]) <= UsageOn(day, row)
    BY <1>0, <1>d, <1>t, <2>4
  <2> QED
    BY <1>d, <2>1, <2>5 DEF DirtyInv, Accounted
<1>3. ASSUME NEW r \in Requests, FillQuota(r) PROVE DirtyInv'
  <2>1. UNCHANGED <<day, row, flush, dirty, lost, stale, changes>>
    BY <1>3 DEF FillQuota, quota, NoFault, Fault, env
  <2>2. quotaKey' \in {held[r], quotaKey} /\ held' = [held EXCEPT ![r] = None]
    BY <1>3 DEF FillQuota, GotoWith
  <2>3. setup.quota = "flusher" /\ changes = 0 /\ ~stale
          => \A q \in Requests : UsageOn(day, held'[q]) <= UsageOn(day, row)
    BY <1>0, <1>d, <1>t, <2>2
  <2>4. setup.quota = "flusher" /\ changes = 0 /\ ~stale =>
          quotaKey' = quotaKey \/ UsageOn(day, quotaKey') <= UsageOn(day, row)
    BY <1>d, <2>2
  <2> QED
    BY <1>d, <2>1, <2>3, <2>4 DEF DirtyInv, Accounted
<1>4. ASSUME NEW r \in Requests, IncrementQuota(r) PROVE DirtyInv'
  <2>1. UNCHANGED <<day, row, flush, stale, changes, held>>
    BY <1>4 DEF IncrementQuota, NoFault, Fault, env, Step, Goto
  <2>2. setup.quota = "flusher" => dirty' \/ UNCHANGED <<quotaKey, dirty, lost>>
    BY <1>4 DEF IncrementQuota
  <2> QED
    BY <1>d, <2>1, <2>2 DEF DirtyInv, Accounted
<1>5. ASSUME NEW r \in Requests, PersistUsage(r) PROVE DirtyInv'
  <2>1. setup.quota # "flusher"
    BY <1>5 DEF CountInv, PersistUsage
  <2> QED
    BY <2>1 DEF DirtyInv
<1>6. ASSUME NEW f \in Flushers, FlushPop(f) PROVE DirtyInv'
  <2>1. UNCHANGED <<day, row, held, quotaKey, stale, changes>> /\ flush[f].at = "idle"
    BY <1>6 DEF FlushPop, request, NoFault, Fault, env
  <2>2. (lost => lost') /\ (dirty => lost' \/ flush'[f].at = "popped")
    BY <1>6, <1>t DEF FlushPop, SetFlush
  <2>3. \A g \in Flushers : flush[g].at \in {"popped", "read"} => flush'[g] = flush[g]
    BY <1>6, <1>t, <2>1 DEF FlushPop, SetFlush
  <2> QED
    BY <1>d, <2>1, <2>2, <2>3 DEF DirtyInv, Accounted
<1>7. ASSUME NEW f \in Flushers, FlushRead(f) PROVE DirtyInv'
  <2>1. UNCHANGED <<day, row, held, quotaKey, stale, changes>>
    BY <1>7 DEF FlushRead, request, NoFault, Fault, env
  <2>2. \/ dirty' \/ lost' \/ quotaKey = None \/ quotaKey.start = None
        \/ flush'[f].at = "read" /\ flush'[f].snap = quotaKey
    BY <1>7, <1>t DEF FlushRead, Readd, SetFlush
  <2>3. quotaKey # None /\ quotaKey.start = None => UsageOn(day, quotaKey) = 0
    BY DEF UsageOn
  <2> HIDE DEF Flushers
  <2>4. Accounted'
    BY <1>0, <2>1, <2>2, <2>3 DEF Accounted
  <2> QED
    BY <1>d, <2>1, <2>4 DEF DirtyInv
<1>8. ASSUME NEW f \in Flushers, FlushWrite(f) PROVE DirtyInv'
  <2>1. UNCHANGED <<day, held, quotaKey, changes>> /\ flush[f].at = "read"
    BY <1>8 DEF FlushWrite, request, NoFault, Fault, env
  <2>2. \A g \in Flushers \ {f} : flush'[g] = flush[g]
    BY <1>8, <1>t DEF FlushWrite, SetFlush
  <2>3. CASE row' = Snapshot(row, flush[f].snap) /\ UNCHANGED <<dirty, lost>>
             /\ stale' = (stale \/ UsageNow(flush[f].snap) < UsageNow(row))
    <3> DEFINE n == UsageOn(day, flush[f].snap)
    <3>1. flush[f].snap \in Entry /\ flush[f].snap # None
      BY <1>t, <2>1 DEF Entries
    <3>2. row' # None
      <4>1. row' \in Entry
        BY <1>t, <2>3, <3>1 DEF Snapshot, Entries, Entry
      <4> QED
        BY <4>1, NoneAssumption
    <3>3. UsageOn(day, row') = n
      <4>1. row'.start = flush[f].snap.start /\ row'.usage = flush[f].snap.usage
        BY <1>t, <2>3, <3>1 DEF Snapshot, Entries, Entry
      <4> QED
        BY <3>1, <3>2, <4>1 DEF UsageOn
    <3>4. n \in Nat
      BY <1>t, UsageIsNatural
    <3>5. ~stale' => ~stale /\ UsageOn(day, row) <= n
      <4>1. UsageNow(flush[f].snap) = n /\ UsageNow(row) = UsageOn(day, row)
        BY UsageIsUsageNow
      <4>2. UsageNow(flush[f].snap) \in Nat /\ UsageNow(row) \in Nat
        BY <1>0, <3>4, <4>1
      <4>3. ~stale' => ~stale /\ ~(UsageNow(flush[f].snap) < UsageNow(row))
        BY <2>3
      <4>4. ~(UsageNow(flush[f].snap) < UsageNow(row)) => UsageOn(day, row) <= n
        BY <4>1, <4>2
      <4> QED
        BY <4>3, <4>4
    <3> HIDE DEF n
    <3>6. \A e \in Entries : UsageOn(day, e) \in Nat
      BY <1>t, UsageIsNatural
    <3>7. CASE setup.quota = "flusher" /\ changes = 0 /\ ~stale'
      <4>1. \A r \in Requests : UsageOn(day, held[r]) <= n
        BY <1>0, <1>d, <1>t, <3>4, <3>5, <3>6, <3>7
      <4>2. \/ lost \/ quotaKey = None \/ UsageOn(day, quotaKey) <= n \/ dirty
            \/ \E g \in Flushers \ {f} :
                 \/ flush[g].at = "popped"
                 \/ flush[g].at = "read" /\ UsageOn(day, quotaKey) <= UsageOn(day, flush[g].snap)
        BY <1>0, <1>d, <2>1, <3>4, <3>5, <3>7 DEF Accounted, n
      <4>3. Accounted'
        BY <2>1, <2>2, <2>3, <3>3, <4>2 DEF Accounted
      <4> QED
        BY <2>1, <3>3, <4>1, <4>3 DEF DirtyInv
    <3> QED
      BY <2>1, <3>7 DEF DirtyInv
  <2>4. CASE UNCHANGED <<row, stale>> /\ (dirty' \/ lost')
    BY <1>d, <2>1, <2>4 DEF DirtyInv, Accounted
  <2> QED
    BY <1>8, <2>3, <2>4 DEF FlushWrite, Readd
<1>9. CASE AdminWrites
  <2>1. changes' # 0
    BY <1>9, <1>t DEF AdminWrites
  <2> QED
    BY <2>1 DEF DirtyInv
<1>10. CASE AdminInvalidates \/ RedisExpires
  <2>1. UNCHANGED <<day, row, held, flush, dirty, lost, stale, changes>>
        /\ quotaKey' \in {quotaKey, None}
    BY <1>10 DEF AdminInvalidates, RedisExpires, request, quota, NoFault, Fault, env
  <2> QED
    BY <1>d, <2>1 DEF DirtyInv, Accounted
<1>11. CASE DayPasses
  <2>1. UNCHANGED <<quotaKey, row, held>> /\ day' = day + 1
    BY <1>11 DEF DayPasses, request, quota
  <2>2. \A e \in Entries : Timely(day, e) => UsageOn(day + 1, e) = 0
    BY <1>t DEF Timely, Entries, Entry, UsageOn
  <2>3. /\ UsageOn(day', quotaKey') = 0 /\ UsageOn(day', row') = 0
        /\ \A r \in Requests : UsageOn(day', held'[r]) = 0
    BY <1>t, <2>1, <2>2 DEF WindowInv
  <2> QED
    BY <2>3 DEF DirtyInv, Accounted
<1>12. CASE Crash
  <2>1. /\ UNCHANGED <<day, quotaKey, row, dirty, changes, stale>>
        /\ held' = [q \in Requests |-> None]
        /\ lost' = (lost \/ \E f \in Flushers : flush[f].at \in {"popped", "read"})
    BY <1>12 DEF Crash, redis, Fault
  <2>2. \A r \in Requests : UsageOn(day, held'[r]) <= UsageOn(day, row)
    BY <1>0, <2>1
  <2>3. Accounted => Accounted'
    BY <2>1 DEF Accounted
  <2> QED
    BY <1>d, <2>1, <2>2, <2>3 DEF DirtyInv
<1> QED
  BY <1>1, <1>2, <1>3, <1>4, <1>5, <1>6, <1>7, <1>8, <1>9, <1>10, <1>11, <1>12 DEF EntryStep, Flush

\* The invariant of the pipeline with its windows and what is accounted for.
FlushedInv == CountedInv /\ WindowInv /\ DirtyInv

LEMMA FlushedInit == Init => FlushedInv
<1> SUFFICES ASSUME Init PROVE FlushedInv
  OBVIOUS
<1>1. /\ quotaKey = None /\ (row = None \/ row.start = None)
      /\ \A r \in Requests : held[r] = None
      /\ \A f \in Flushers : flush[f].snap = None
  BY DEF Init, IdleFlush
<1>2. UsageOn(day, None) = 0 /\ UsageOn(day, row) = 0 /\ Timely(day, None) /\ Timely(day, row)
  BY <1>1 DEF UsageOn, Timely
<1>3. WindowInv /\ DirtyInv
  BY <1>1, <1>2 DEF WindowInv, DirtyInv, Accounted
<1>4. CountedInv
  BY UsageInit, TypesInit, CountInit DEF CountedInv
<1> QED
  BY <1>3, <1>4 DEF FlushedInv

LEMMA FlushedStep == FlushedInv /\ [Next]_vars => FlushedInv'
<1> SUFFICES ASSUME FlushedInv, [Next]_vars PROVE FlushedInv'
  OBVIOUS
<1>1. CountedInv' /\ Types /\ Types'
  BY CountedStep DEF FlushedInv, CountedInv
<1>2. WindowInv'
  BY <1>1, WindowStep DEF FlushedInv
<1>3. CountInv /\ setup' = setup
  BY StepCountGrows DEF FlushedInv, CountedInv, CountGrows
<1>4. DirtyInv'
  <2>1. CASE EntryStep
    BY <1>1, <1>3, <2>1, EntryStepAccounts DEF FlushedInv
  <2>2. CASE EntriesKept
    BY <1>3, <2>2 DEF EntriesKept, FlushedInv, DirtyInv, Accounted
  <2> QED
    BY <2>1, <2>2, StepTouchesEntries
<1> QED
  BY <1>1, <1>2, <1>4 DEF FlushedInv

\* The flusher loses no usage: while no fault takes a mark, no administrator changes
\* the row and no flush writes an older usage than the row has, what Redis shows and
\* the row does not is marked dirty or in a flusher's hands, also when the timer's
\* flush and Stop's overlap, windows end, and entries expire and are loaded again.
THEOREM UsageIsAccounted == Spec => []UnflushedIsDirty
<1>1. Spec => []FlushedInv
  BY FlushedInit, FlushedStep, PTL DEF Spec
<1>2. FlushedInv => UnflushedIsDirty
  <2> SUFFICES ASSUME FlushedInv PROVE UnflushedIsDirty
    OBVIOUS
  <2>1. UsageNow(quotaKey) = UsageOn(day, quotaKey) /\ UsageNow(row) = UsageOn(day, row)
    BY UsageIsUsageNow
  <2>2. setup.quota = "flusher" /\ changes = 0 /\ ~stale => Accounted
    BY DEF FlushedInv, DirtyInv
  <2> QED
    BY <2>1, <2>2 DEF Accounted, UnflushedIsDirty
<1> QED
  BY <1>1, <1>2, PTL

=============================================================================
