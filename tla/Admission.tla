------------------------------- MODULE Admission -------------------------------
(***************************************************************************)
(* Admission control: every request's handler, the release callbacks of    *)
(* its context, the slot cleanup worker, processes that crash and start,   *)
(* and time, interleaved; and what must hold of them.                      *)
(***************************************************************************)
EXTENDS GatewayRequest

Request(r) == Arrive(r) \/ Handle(r) \/ Disconnect(r) \/ ReleaseOnDone(r)

Next ==
    \/ \E r \in Requests : Request(r) /\ UNCHANGED <<setup, clock, running>>
    \/ \E a \in Accounts : CleanupExpiredAccountSlots(a)
    \/ \E p \in Processes : Start(p) \/ Crash(p)
    \/ Tick

\* Handlers and callbacks run; upstream calls end (they have timeouts); nobody
\* owes the server a request, a tick, a disconnect, a crash or a start.
Fairness ==
    \A r \in Requests :
        WF_vars((Handle(r) \/ ReleaseOnDone(r)) /\ UNCHANGED <<setup, clock, running>>)

Spec == Init /\ [][Next]_vars /\ Fairness

\* The requests that hold a slot of k that Redis has not expired.
Holders(k) ==
    {r \in Requests :
        /\ ~At(r, {"dead"})
        /\ Slot(r, k) # None
        /\ k = User \/ req[r].account = k
        /\ Slot(r, k).at + SlotTTL > clock}

(* No user and no account has more slots out than its limit, whatever was   *)
(* lost, canceled, retried or restarted, as long as no slot has outlived    *)
(* its TTL: acquireScript counts every holder.                              *)
LimitRespected ==
    \A k \in Keys : Limit(k) > 0 => Cardinality(Holders(k)) <= Limit(k)

(* A slot in Redis belongs to a handler that will still release it, or to a *)
(* call that ended in an error, or to a process that has no successor yet:  *)
(* "ReleaseFunc must be called when done" (AcquireResult).                  *)
SlotsAreOwned ==
    \A k \in Keys : \A m \in slots[k] :
        \/ Slot(m.owner, k) = m
        \/ m.nonce # req[m.owner].nonce

(* A starting process clears what its dead predecessor held: a slot of a    *)
(* dead handler means no process has started since (or its cleanup failed). *)
DeadSlotsAreCleared ==
    running # {} =>
        \A k \in Keys : \A m \in slots[k] :
            At(m.owner, {"dead"}) => m.nonce # req[m.owner].nonce

(* A wait counter is never negative, and without errors or disconnects it   *)
(* is the number of requests counted as waiting, whichever way they leave   *)
(* the queue.                                                               *)
WaitCountExact ==
    \A k \in Keys :
        /\ waits[k] >= 0
        /\ setup.faults = {} /\ ~setup.disconnects =>
             waits[k] = Cardinality({r \in Requests : req[r].counted = k})

(* The serial lock excludes: of the requests about to call an account, at   *)
(* most one holds a lock that has not timed out.                            *)
Serialized ==
    \A a \in Accounts :
        Cardinality({r \in Requests : /\ ~At(r, {"dead"})
                                      /\ req[r].account = a
                                      /\ req[r].queue # None
                                      /\ req[r].queue.until > clock}) <= 1

\* r waits for a key all of whose slots are held by handlers in S.
BlockedBy(r, S) ==
    /\ At(r, {"wait"})
    /\ Full(Key(r))
    /\ \A m \in Unexpired(Key(r)) : m.owner \in S /\ Slot(m.owner, Key(r)) = m

(* Handlers never wait for each other in a circle: slots are taken in the   *)
(* order user, account, and an account is released before the next.         *)
NoCircularWait ==
    \A S \in (SUBSET Requests) \ {{}} : \E r \in S : ~BlockedBy(r, S)

Holds(r) == req[r].user # None \/ req[r].acct # None \/ req[r].queue # None

(* Every request that arrives ends, with all its slots and its lock given   *)
(* back: waits time out, and failover and its restarts use themselves up.   *)
RequestEnds ==
    \A r \in Requests :
        ~At(r, {"idle"}) ~> (At(r, {"dead"}) \/ (At(r, {"done"}) /\ ~Holds(r)))

=============================================================================
