-------------------------- MODULE UserMessageQueue --------------------------
(***************************************************************************)
(* The user message queue in serialize mode: one lock per account, held    *)
(* from before the upstream call until the upstream accepts it.  Every     *)
(* failure lets the request go on without the lock.  The length of the     *)
(* delay after the previous message is left out: it may end in any way.    *)
(***************************************************************************)
EXTENDS AdmissionState

\* The lock Redis has now; PX makes it vanish.
LockOf(a) == IF lock[a] # None /\ lock[a].until > clock THEN lock[a] ELSE None

NewLock(r) == [owner |-> r, nonce |-> req[r].nonce, until |-> clock + LockTTL]

\* TryAcquire, from AcquireWithWait and from the polls of waitForLockWithPing.
\* An error of AcquireLock counts as acquired, with no ID to release.
TryAcquire(r) ==
    LET a == req[r].account IN
    /\ \/ /\ LockOf(a) = None /\ ~req[r].canceled
          /\ lock' = [lock EXCEPT ![a] = NewLock(r)]
          /\ req' = [req EXCEPT ![r].pc = "delay", ![r].queue = NewLock(r)]
          /\ UNCHANGED budget
       \/ /\ LockOf(a) # None /\ ~req[r].canceled
          /\ req' = [req EXCEPT ![r].pc = "poll"]
          /\ UNCHANGED <<lock, budget>>
       \/ /\ req[r].canceled
          /\ req' = [req EXCEPT ![r].pc = "delay"]
          /\ UNCHANGED <<lock, budget>>
       \/ /\ Fault("lock")
          /\ \/ UNCHANGED lock
             \/ LockOf(a) = None /\ lock' = [lock EXCEPT ![a] = NewLock(r)]
          /\ req' = [req EXCEPT ![r].pc = "delay", ![r].nonce = @ + 1]
    /\ UNCHANGED <<slots, waits>>

\* The wait times out, the client leaves or a ping cannot be written: the
\* gateway goes on without the lock.
WaitTimesOut(r) ==
    /\ req' = [req EXCEPT ![r].pc = "forward"]
    /\ UNCHANGED <<slots, waits, lock, budget>>

\* Mutant: DEL whatever ID the lock has.
ReleaseLockBare(r, handler) ==
    /\ lock' = IF req[r].queue # None THEN [lock EXCEPT ![req[r].account] = None] ELSE lock
    /\ req' = [req EXCEPT ![r] = [handler EXCEPT !.queue = None]]
    /\ UNCHANGED <<slots, waits, budget>>

\* releaseLockScript deletes the lock only if it still has the caller's ID.
ReleaseLock(r, handler) ==
    LET a == req[r].account IN
    /\ \/ /\ lock' = IF LockOf(a) = req[r].queue THEN [lock EXCEPT ![a] = None] ELSE lock
          /\ req' = [req EXCEPT ![r] = [handler EXCEPT !.queue = None]]
          /\ UNCHANGED budget
       \/ /\ req[r].queue # None
          /\ Fault("release")
          /\ UNCHANGED lock
          /\ req' = [req EXCEPT ![r] = [handler EXCEPT !.queue = None, !.nonce = @ + 1]]
    /\ UNCHANGED <<slots, waits>>

\* EnforceDelay ends, or its context does and the lock is given back.
EnforceDelay(r) ==
    \/ /\ req' = [req EXCEPT ![r].pc = "forward"]
       /\ UNCHANGED <<slots, waits, lock, budget>>
    \/ ReleaseLock(r, To(r, "forward"))

=============================================================================
