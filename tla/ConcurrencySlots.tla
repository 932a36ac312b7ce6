--------------------------- MODULE ConcurrencySlots ---------------------------
(***************************************************************************)
(* The concurrency cache and service: slots in sorted sets that Lua        *)
(* scripts expire and count, wait counters, release functions, and what    *)
(* cleans up after a process.  A call that ends in an error may or may not *)
(* have been executed by Redis.                                            *)
(***************************************************************************)
EXTENDS AdmissionState

Limit(k) == IF k = User THEN setup.userLimit ELSE setup.accountLimit

CalculateMaxWait(limit) == (IF limit <= 0 THEN 1 ELSE limit) + ExtraWaitSlots

MaxWait(k) == IF k = User THEN CalculateMaxWait(setup.userLimit) ELSE MaxWaiting

\* Mutant: the cut-off is a second late.
UnexpiredShort(k) == {m \in slots[k] : m.at > clock - SlotTTL + 1}

\* ZREMRANGEBYSCORE -inf now-ttl
Unexpired(k) == {m \in slots[k] : m.at > clock - SlotTTL}

NewMember(r) == [owner |-> r, nonce |-> req[r].nonce, at |-> clock]

\* Where a handler keeps the release function of a slot of k.
Slot(r, k) == IF k = User THEN req[r].user ELSE req[r].acct

Holding(h, k, m) ==
    IF k = User THEN [h EXCEPT !.user = m] ELSE [h EXCEPT !.acct = m]

\* acquireScript.  Every attempt draws a fresh request ID, so the script's
\* refresh branch is never taken.
Full(k) == Limit(k) > 0 /\ Cardinality(Unexpired(k)) >= Limit(k)

\* The slot is granted; without a limit Redis is not asked.
Grants(r, k, handler) ==
    /\ Limit(k) = 0 \/ (~Full(k) /\ ~req[r].canceled)
    /\ IF Limit(k) = 0
       THEN /\ req' = [req EXCEPT ![r] = handler]
            /\ UNCHANGED slots
       ELSE /\ slots' = [slots EXCEPT ![k] = Unexpired(k) \cup {NewMember(r)}]
            /\ req' = [req EXCEPT ![r] = Holding(handler, k, NewMember(r))]
    /\ UNCHANGED budget

Denies(r, k, handler) ==
    /\ Full(k) /\ ~req[r].canceled
    /\ slots' = [slots EXCEPT ![k] = Unexpired(k)]
    /\ req' = [req EXCEPT ![r] = handler]
    /\ UNCHANGED budget

\* The call fails: the caller gets no release function for a member that
\* may be in the set.
AcquireFails(r, k, handler) ==
    /\ Limit(k) > 0
    /\ \/ /\ req[r].canceled
          /\ req' = [req EXCEPT ![r] = handler]
          /\ UNCHANGED <<slots, budget>>
       \/ /\ Fault("acquire")
          /\ \/ UNCHANGED slots
             \/ /\ ~Full(k)
                /\ slots' = [slots EXCEPT ![k] = Unexpired(k) \cup {NewMember(r)}]
          /\ req' = [req EXCEPT ![r] = [handler EXCEPT !.nonce = @ + 1]]

\* ReleaseFunc under wrapReleaseOnDone: at most one ZREM, its error only logged.
ReleaseSlot(r, k, handler) ==
    \/ /\ slots' = [slots EXCEPT ![k] = @ \ {Slot(r, k)}]
       /\ req' = [req EXCEPT ![r] = Holding(handler, k, None)]
       /\ UNCHANGED budget
    \/ /\ Slot(r, k) # None
       /\ Fault("release")
       /\ req' = [req EXCEPT ![r] = [Holding(handler, k, None) EXCEPT !.nonce = @ + 1]]
       /\ UNCHANGED slots

\* IncrementWaitCount and IncrementAccountWaitCount.  The service swallows the
\* error and reports success, so that the handler will decrement either way.
IncrementWaitCount(r, k, counted, refused) ==
    LET room == waits[k] < MaxWait(k) IN
    \/ /\ ~req[r].canceled /\ room
       /\ waits' = [waits EXCEPT ![k] = @ + 1]
       /\ req' = [req EXCEPT ![r] = counted]
       /\ UNCHANGED budget
    \/ /\ ~req[r].canceled /\ ~room
       /\ req' = [req EXCEPT ![r] = refused]
       /\ UNCHANGED <<waits, budget>>
    \/ /\ \/ req[r].canceled /\ UNCHANGED <<waits, budget>>
          \/ /\ Fault("count")
             /\ \/ UNCHANGED waits
                \/ room /\ waits' = [waits EXCEPT ![k] = @ + 1]
       /\ req' = [req EXCEPT ![r] = counted]

\* decrementWaitScript never goes below zero; it runs on its own context.
DecrementWaitCount(k) ==
    \/ /\ waits' = [waits EXCEPT ![k] = IF @ > 0 THEN @ - 1 ELSE 0]
       /\ UNCHANGED budget
    \/ Fault("count") /\ UNCHANGED waits

\* StartSlotCleanupWorker: CleanupExpiredAccountSlots on one account.
CleanupExpiredAccountSlots(a) ==
    /\ running # {}
    /\ Unexpired(a) # slots[a]
    /\ slots' = [slots EXCEPT ![a] = Unexpired(a)]
    /\ UNCHANGED <<setup, clock, waits, lock, running, req, budget>>

\* Mutant: the prefix test is inverted.
CleanupStaleProcessSlotsOwn(p, stages) ==
    /\ slots' = [k \in Keys |-> {m \in slots[k] : ProcessOf(m.owner) # p}]
    /\ waits' = [k \in Keys |-> 0]

\* CleanupStaleProcessSlots: every member without the starting process's own
\* prefix goes, account slots first, then user slots, then the counters.  An
\* error stops it after some of the four patterns and is only logged.
CleanupStaleProcessSlots(p, stages) ==
    LET Cleaned(k) == {m \in slots[k] : ProcessOf(m.owner) = p}
        Reaches(k, account, user) == stages >= (IF k = User THEN user ELSE account)
    IN /\ slots' = [k \in Keys |-> IF Reaches(k, 1, 2) THEN Cleaned(k) ELSE slots[k]]
       /\ waits' = [k \in Keys |-> IF Reaches(k, 3, 4) THEN 0 ELSE waits[k]]

\* A process starts.  A single server starts after its predecessor is gone.
Start(p) ==
    /\ p \notin running
    /\ p # setup.first
    /\ running = {} \/ setup.replicas
    /\ running' = running \cup {p}
    /\ \/ /\ CleanupStaleProcessSlots(p, 4)
          /\ req' = [r \in Requests |-> IF At(r, {"dead"}) THEN [req[r] EXCEPT !.counted = None] ELSE req[r]]
          /\ UNCHANGED budget
       \/ /\ Fault("startup")
          /\ \E stages \in 0..3 : CleanupStaleProcessSlots(p, stages)
          /\ req' = [r \in Requests |-> IF At(r, {"dead"}) THEN [req[r] EXCEPT !.nonce = @ + 1] ELSE req[r]]
    /\ UNCHANGED <<setup, clock, lock>>

\* A process dies with its handlers; Redis keeps what they left.  Only the
\* first process does (a bound): a restarted server is a new process.
Crash(p) ==
    /\ setup.crash
    /\ p \in running /\ p = setup.first
    /\ running' = running \ {p}
    /\ req' = [r \in Requests |->
                 IF ProcessOf(r) = p /\ ~At(r, {"idle"})
                 THEN [req[r] EXCEPT !.pc = "dead"] ELSE req[r]]
    /\ UNCHANGED <<setup, clock, slots, waits, lock, budget>>

Tick ==
    /\ clock < setup.ticks
    /\ clock' = clock + 1
    /\ UNCHANGED <<setup, slots, waits, lock, running, req, budget>>

=============================================================================
