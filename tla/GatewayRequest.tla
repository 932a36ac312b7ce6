---------------------------- MODULE GatewayRequest ----------------------------
(***************************************************************************)
(* The life of one request in a gateway handler: wait counter, user slot,  *)
(* billing check, account selection with its slot, message queue, upstream *)
(* call, failover, release.  The Claude handler (Messages) counts every    *)
(* request as waiting before its first attempt; the OpenAI handler only    *)
(* after a first attempt was denied.  Each call to Redis is a step.        *)
(***************************************************************************)
EXTENDS ConcurrencySlots, UserMessageQueue

Openai == setup.handler = "openai"

\* Where a handler starts to look for a slot.
Seek == IF Openai THEN "fast" ELSE "count"

\* Where a granted slot leads: the user's to CheckBillingEligibility, which the
\* usage modules judge and which passes or refuses here, the account's to the
\* message queue if it serializes.
Entered(r) ==
    IF Key(r) = User THEN {"select", "release"}
    ELSE {IF setup.serialize THEN "queue" ELSE "forward"}

Arrive(r) ==
    /\ At(r, {"idle"}) /\ r \in setup.requests
    /\ ProcessOf(r) \in running
    /\ req' = [req EXCEPT ![r].pc = Seek]
    /\ UNCHANGED <<slots, waits, lock, budget>>

\* acquireResponsesUserSlot, acquireResponsesAccountSlot: an attempt before
\* the request is counted as waiting.
FastPath(r) ==
    /\ At(r, {"fast"})
    /\ \/ \E pc \in Entered(r) : Grants(r, Key(r), To(r, pc))
       \/ Denies(r, Key(r), To(r, "count"))
       \/ AcquireFails(r, Key(r), To(r, "release"))
    /\ UNCHANGED <<waits, lock>>

Count(r) ==
    /\ At(r, {"count"})
    /\ IncrementWaitCount(r, Key(r), [To(r, "try") EXCEPT !.counted = Key(r)], To(r, "release"))
    /\ UNCHANGED <<slots, lock>>

\* AcquireUserSlotWithWait and waitForSlotWithPingTimeout: an attempt at once,
\* then polls, until the wait times out, a ping fails or the client leaves.
\* Won or lost, the request then leaves the wait counter.
Attempt(r) ==
    /\ At(r, {"try", "wait"})
    /\ \/ Grants(r, Key(r), To(r, "uncount"))
       \/ Denies(r, Key(r), To(r, "wait"))
       \/ AcquireFails(r, Key(r), To(r, "uncount"))
    /\ UNCHANGED <<waits, lock>>

GiveUp(r) ==
    /\ At(r, {"wait"})
    /\ req' = [req EXCEPT ![r].pc = "uncount"]
    /\ UNCHANGED <<slots, waits, lock, budget>>

Won(r) == Limit(Key(r)) = 0 \/ Slot(r, Key(r)) # None

\* Mutant: no deferred decrement for a wait that failed.
UncountWon(r) ==
    /\ At(r, {"uncount"})
    /\ IF Won(r) THEN DecrementWaitCount(Key(r)) ELSE UNCHANGED <<waits, budget>>
    /\ \E pc \in IF Won(r) THEN Entered(r) ELSE {"release"} :
         req' = [req EXCEPT ![r].counted = None, ![r].pc = pc]
    /\ UNCHANGED <<slots, lock>>

Uncount(r) ==
    /\ At(r, {"uncount"})
    /\ DecrementWaitCount(Key(r))
    /\ \E pc \in IF Won(r) THEN Entered(r) ELSE {"release"} :
         req' = [req EXCEPT ![r].counted = None, ![r].pc = pc]
    /\ UNCHANGED <<slots, lock>>

\* Mutant: the backoff does not ask whether any account had failed.
NoAccountAgain(r) ==
    IF req[r].busy /\ req[r].switches <= setup.switches
    THEN {[To(r, "select") EXCEPT !.failed = {}, !.skip = {}]}
    ELSE {To(r, "release")}

\* No account is available.  HandleSelectionExhausted forgets the failed
\* accounts and selects again if the last upstream error was a 503; the handler
\* does not ask it when no account has failed, and the client may have left.
NoAccount(r) ==
    LET again == req[r].failed # {} /\ req[r].busy /\ req[r].switches <= setup.switches
    IN (IF again THEN {[To(r, "select") EXCEPT !.failed = {}, !.skip = {}]} ELSE {})
       \cup (IF ~again \/ req[r].canceled THEN {To(r, "release")} ELSE {})

\* The selection ends in a wait plan for a candidate, or without an account:
\* load figures may be stale and accounts may have become unschedulable.
Plans(r) ==
    {[To(r, Seek) EXCEPT !.account = a, !.skip = {}] : a \in setup.accounts \ req[r].failed}
    \cup NoAccount(r)

\* SelectAccountWithLoadAwareness picks a candidate to take a slot of.
Select(r) ==
    /\ At(r, {"select"})
    /\ \/ \E a \in setup.accounts \ (req[r].failed \cup req[r].skip) :
            req' = [req EXCEPT ![r].pc = "grab", ![r].account = a]
       \/ \E h \in Plans(r) : req' = [req EXCEPT ![r] = h]
    /\ UNCHANGED <<slots, waits, lock, budget>>

\* tryAcquireAccountSlot; an error is like a denial.
Grab(r) ==
    /\ At(r, {"grab"})
    /\ \/ Grants(r, Key(r), To(r, "session"))
       \/ \E h \in Plans(r) : Denies(r, Key(r), h) \/ AcquireFails(r, Key(r), h)
    /\ UNCHANGED <<waits, lock>>

\* Mutant: an account over its session limit is left out, its slot kept.
SelectedKeeps(r) ==
    /\ At(r, {"session"})
    /\ \/ \E pc \in Entered(r) : req' = [req EXCEPT ![r].pc = pc, ![r].skip = {}]
       \/ /\ setup.sessions
          /\ req' = [req EXCEPT ![r].pc = "select", ![r].acct = None,
                                ![r].skip = @ \cup {req[r].account}]
    /\ UNCHANGED <<slots, waits, lock, budget>>

\* checkAndRegisterSession: refused, the slot is given back and the account left
\* out of this selection.  Then newSelectionResult reads the account again if
\* there is a snapshot service; an error drops the release function with the
\* selection.
Selected(r) ==
    /\ At(r, {"session"})
    /\ \/ /\ ~(setup.snapshot /\ req[r].canceled)
          /\ \E pc \in Entered(r) : req' = [req EXCEPT ![r].pc = pc, ![r].skip = {}]
          /\ UNCHANGED <<slots, budget>>
       \/ /\ setup.sessions /\ ~req[r].canceled
          /\ ReleaseSlot(r, Key(r), [To(r, "select") EXCEPT !.skip = @ \cup {req[r].account}])
       \/ /\ setup.snapshot
          /\ \/ req[r].canceled /\ UNCHANGED budget
             \/ Fault("hydrate")
          /\ \E h \in NoAccount(r) : req' = [req EXCEPT ![r] = [h EXCEPT !.acct = None]]
          /\ UNCHANGED slots
    /\ UNCHANGED <<waits, lock>>

\* The user message queue, for an account that serializes.
Enqueue(r) ==
    \/ At(r, {"queue", "poll"}) /\ TryAcquire(r)
    \/ At(r, {"poll"}) /\ WaitTimesOut(r)
    \/ At(r, {"delay"}) /\ EnforceDelay(r)

\* OnUpstreamAccepted releases the serial lock before the response is read.
Accepted(r) ==
    /\ At(r, {"forward"})
    /\ ReleaseLock(r, To(r, "stream"))

\* Forward returns: a response, an error, or one that allows failover (a 503
\* or another).  A body that cannot be rewritten ends the handler before.
ForwardReturns(r) ==
    LET pc == IF req[r].queue = None THEN "free" ELSE "unlock" IN
    /\ At(r, {"forward", "stream"})
    /\ \/ req' = [req EXCEPT ![r].pc = pc]
       \/ \E b \in BOOLEAN :
            req' = [req EXCEPT ![r].pc = pc, ![r].retry = TRUE, ![r].busy = b]
       \/ At(r, {"forward"}) /\ req' = [req EXCEPT ![r].pc = "release"]
    /\ UNCHANGED <<slots, waits, lock, budget>>

\* HandleFailoverError: try the same account a few times, then another, until
\* the switches are used up; the client may leave during the delays.
Failover(r) ==
    LET h == [req[r] EXCEPT !.pc = "select", !.retry = FALSE]
        a == req[r].account
    IN (IF h.retries[a] < setup.retries THEN {[h EXCEPT !.retries[a] = @ + 1]} ELSE {})
       \cup (IF h.switches < setup.switches
             THEN {[h EXCEPT !.switches = @ + 1, !.failed = @ \cup {a}]} ELSE {})
       \cup (IF h.switches >= setup.switches \/ h.canceled THEN {To(r, "release")} ELSE {})

\* Mutant: a retry on the same account seeks a slot before giving one back.
AfterForwardKeeps(r) ==
    LET a == req[r].account IN
    \/ At(r, {"unlock"}) /\ ReleaseLock(r, To(r, "free"))
    \/ /\ At(r, {"free"})
       /\ IF req[r].retry /\ req[r].retries[a] < setup.retries
          THEN /\ req' = [req EXCEPT ![r].pc = Seek, ![r].retry = FALSE, ![r].retries[a] = @ + 1]
               /\ UNCHANGED <<slots, budget>>
          ELSE ReleaseSlot(r, Key(r), To(r, "release"))
       /\ UNCHANGED <<waits, lock>>

\* queueRelease, then accountReleaseFunc, whatever Forward returned; then the
\* request ends or fails over.
AfterForward(r) ==
    \/ At(r, {"unlock"}) /\ ReleaseLock(r, To(r, "free"))
    \/ /\ At(r, {"free"})
       /\ \E h \in IF req[r].retry THEN Failover(r) ELSE {To(r, "release")} :
            ReleaseSlot(r, Key(r), h)
       /\ UNCHANGED <<waits, lock>>

\* The handler returns: the user's slot is released, and the request's context
\* ends, which runs the release functions that were not called.
Return(r) ==
    LET h == req[r] IN
    /\ At(r, {"release"})
    /\ ReleaseSlot(r, User,
           [Idle EXCEPT !.pc = "done", !.canceled = TRUE, !.account = h.account,
                        !.acct = h.acct, !.queue = h.queue, !.nonce = h.nonce])
    /\ UNCHANGED <<waits, lock>>

\* The client disconnects.
Disconnect(r) ==
    /\ setup.disconnects /\ budget > 0
    /\ ~At(r, {"idle", "done", "dead"}) /\ ~req[r].canceled
    /\ budget' = budget - 1
    /\ req' = [req EXCEPT ![r].canceled = TRUE]
    /\ UNCHANGED <<slots, waits, lock>>

\* context.AfterFunc of wrapReleaseOnDone, in a goroutine of its own, for the
\* release functions that were registered.
ReleaseOnDone(r) ==
    /\ req[r].canceled /\ ~At(r, {"dead"})
    /\ \/ /\ req[r].user # None /\ (At(r, {"uncount"}) => req[r].account # None)
          /\ ReleaseSlot(r, User, req[r]) /\ UNCHANGED <<waits, lock>>
       \/ /\ req[r].acct # None /\ ~At(r, {"uncount", "session"})
          /\ ReleaseSlot(r, Key(r), req[r]) /\ UNCHANGED <<waits, lock>>
       \/ /\ req[r].queue # None /\ ~At(r, {"delay"})
          /\ ReleaseLock(r, req[r])

Handle(r) ==
    \/ FastPath(r) \/ Count(r) \/ Attempt(r) \/ GiveUp(r) \/ Uncount(r)
    \/ Select(r) \/ Grab(r) \/ Selected(r)
    \/ Enqueue(r) \/ Accepted(r) \/ ForwardReturns(r) \/ AfterForward(r)
    \/ Return(r)

=============================================================================
