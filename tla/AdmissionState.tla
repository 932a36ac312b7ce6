--------------------------- MODULE AdmissionState ---------------------------
(***************************************************************************)
(* The state that admission control works on: what Redis keeps for the     *)
(* gateways (the sorted sets of concurrency slots, the wait counters, the  *)
(* serial locks of the user message queue), the clock Redis reads, the     *)
(* server processes, and the local variables of every request's handler.   *)
(*                                                                         *)
(* All requests are of one user.  A member of a sorted set is the request  *)
(* ID a process generates (its prefix is the process of the owner, its     *)
(* counter the nonce) together with its score.  A fresh ID is drawn for    *)
(* every attempt; here the nonce advances whenever a member may have been  *)
(* left behind, which keeps IDs apart and the state small.                 *)
(***************************************************************************)
EXTENDS Integers, FiniteSets

CONSTANTS
    Requests,               \* requests that may arrive
    Accounts,               \* upstream accounts of the user's group
    User,                   \* the key of the user's slots and wait counter
    Processes,              \* successive (or concurrent) server processes
    None,                   \* no value
    Setups,                 \* the configurations to explore
    SlotTTL,                \* life of a slot, in ticks of Redis's clock
    LockTTL,                \* life of a serial lock
    ExtraWaitSlots,         \* defaultExtraWaitSlots
    MaxWaiting,             \* WaitPlan.MaxWaiting
    MaxClock                \* bound: ticks explored

ASSUME AdmissionConstants ==
    /\ {SlotTTL, LockTTL} \subseteq Nat \ {0}
    /\ {ExtraWaitSlots, MaxWaiting, MaxClock}
           \subseteq Nat
    /\ User \notin Accounts

Keys == {User} \cup Accounts

\* The errors a call to Redis, or to the account store, can end in.
FaultKinds == {"acquire", "release", "count", "lock", "startup", "hydrate"}

\* A configuration: which requests come to which process and accounts, the
\* gateway's settings, and the faults and times to explore.
Setup ==
    [ requests     : SUBSET Requests,
      accounts     : SUBSET Accounts,
      process      : [Requests -> Processes],
      first        : Processes,
      handler      : {"gateway", "openai"},
      userLimit    : Nat,
      accountLimit : Nat,
      serialize    : BOOLEAN,
      sessions     : BOOLEAN,
      snapshot     : BOOLEAN,
      disconnects  : BOOLEAN,
      crash        : BOOLEAN,
      replicas     : BOOLEAN,
      ticks        : 0..MaxClock,
      switches     : Nat,
      retries      : Nat,
      faults       : SUBSET FaultKinds,
      budget       : Nat ]

ASSUME SetupsAssumption == Setups \subseteq Setup

VARIABLES
    setup,      \* the configuration of this behaviour, never changed
    clock,      \* Redis TIME
    slots,      \* concurrency:user:{id}, concurrency:account:{id}
    waits,      \* concurrency:wait:{id}, wait:account:{id}
    lock,       \* umq:{id}:lock
    running,    \* the processes that are up
    req,        \* each request's handler
    budget      \* bound: faults and disconnects still allowed

vars == <<setup, clock, slots, waits, lock, running, req, budget>>

Member == [owner: Requests, nonce: Nat, at: 0..MaxClock]
Lock   == [owner: Requests, nonce: Nat, until: 0..(MaxClock + LockTTL)]

PCs == {"idle", "fast", "count", "try", "wait", "uncount", "select", "grab",
        "session", "queue", "poll", "delay", "forward", "stream", "unlock",
        "free", "release", "done", "dead"}

Handler ==
    [ pc       : PCs,
      retry    : BOOLEAN,                  \* Forward asked for failover
      account  : Accounts \cup {None},     \* the selected account
      counted  : Keys \cup {None},         \* waitCounted
      user     : Member \cup {None},       \* userReleaseFunc
      acct     : Member \cup {None},       \* accountReleaseFunc
      queue    : Lock \cup {None},         \* queueRelease
      failed   : SUBSET Accounts,          \* FailedAccountIDs
      skip     : SUBSET Accounts,          \* localExcluded
      switches : Nat,                      \* SwitchCount
      retries  : [Accounts -> Nat],        \* SameAccountRetryCount
      busy     : BOOLEAN,                  \* LastFailoverErr is a 503
      nonce    : Nat,                      \* the next request ID
      canceled : BOOLEAN ]                 \* the request's context is done

\* None is no key and nothing Redis keeps.
ASSUME NoneAssumption == None \notin Keys \cup Member \cup Lock

Idle ==
    [ pc |-> "idle", retry |-> FALSE, account |-> None, counted |-> None,
      user |-> None, acct |-> None, queue |-> None, failed |-> {}, skip |-> {},
      switches |-> 0, retries |-> [a \in Accounts |-> 0], busy |-> FALSE,
      nonce |-> 0, canceled |-> FALSE ]

Init ==
    /\ setup \in Setups
    /\ clock = 0
    /\ slots = [k \in Keys |-> {}]
    /\ waits = [k \in Keys |-> 0]
    /\ lock = [a \in Accounts |-> None]
    /\ running = {setup.first}
    /\ req = [r \in Requests |-> Idle]
    /\ budget = setup.budget

ProcessOf(r) == setup.process[r]

\* Whose slot a handler seeks: the user's, then the selected account's.
Key(r) == IF req[r].account = None THEN User ELSE req[r].account

At(r, labels) == req[r].pc \in labels

\* The handler of r, gone on to a label.
To(r, pc) == [req[r] EXCEPT !.pc = pc]

\* A fault of this kind happens, within the bound.
Fault(kind) ==
    /\ kind \in setup.faults
    /\ budget > 0
    /\ budget' = budget - 1

=============================================================================
