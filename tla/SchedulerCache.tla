---------------------------- MODULE SchedulerCache ----------------------------
(***************************************************************************)
(* What the account scheduler keeps in Redis: the versioned snapshot of a  *)
(* bucket (the accounts of one group and platform that may be scheduled),  *)
(* the cached account records, the bucket's rebuild lock and the outbox    *)
(* watermark; and the steps of a rebuild that write them.                  *)
(*                                                                         *)
(* An account row is its revision: even while the account is schedulable,  *)
(* odd while it is not, Gone once deleted.  Snapshot versions are numbers  *)
(* from INCR; only their order matters, so the writers that have drawn one *)
(* and not activated it yet are kept in that order.                        *)
(***************************************************************************)
EXTENDS Naturals, FiniteSets, SequencesExt

CONSTANTS
    Accounts,
    Workers,        \* goroutines of the service and of requests
    Writers,        \* callers that change accounts
    None,
    Setups,         \* the configurations to explore
    BatchLimit,     \* events a poll lists at most
    MaxChanges      \* bound: changes of accounts

ASSUME SchedulerConstants == {BatchLimit, MaxChanges} \subseteq Nat
ASSUME SetupsAssumption ==
    \A s \in Setups : /\ s.changes \in 0..MaxChanges /\ s.budget \in Nat
                      /\ s.accounts \subseteq Accounts /\ s.writers \subseteq Writers
                      /\ s.dedup \in BOOLEAN /\ s.late \in BOOLEAN

Gone == 2 * MaxChanges + 1
Revisions == 0..Gone
On(rows) == {a \in Accounts : rows[a] % 2 = 0}

VARIABLES
    setup,
    rows,       \* database: accounts
    outbox,     \* database: scheduler_outbox, the id is the index
    active,     \* the rows the active snapshot was loaded from
    drawn,      \* workers that hold a version newer than the active one, oldest first
    meta,       \* sched:acc, sched:meta
    lock,       \* sched:lock
    watermark,  \* sched:outbox:watermark
    work,       \* each worker
    change,     \* each writer
    changes, budget,
    gaps        \* history: how a change escaped the outbox

vars == <<setup, rows, outbox, active, drawn, meta, lock, watermark, work, change,
          changes, budget, gaps>>
database == <<rows, outbox>>
snapshot == <<active, drawn, meta, lock, watermark>>
writers == <<change, changes>>

PCs == {"idle", "stopped", "list", "event", "account", "used", "mark", "lag",
        "lock", "load", "incr", "store", "activate", "unlock"}

\* rebuildBucket between TryLockBucket and UnlockBucket.
Locked == {"load", "incr", "store", "activate", "unlock"}

Worker ==
    [ pc    : PCs,
      mark  : Nat,                      \* the watermark a poll read
      batch : SUBSET Nat,               \* ids of the listed events still to handle
      last  : Nat,                      \* the last id listed
      seen  : BOOLEAN,                  \* the bucket was rebuilt in this batch
      row   : Revisions \cup {None},    \* the account an event is about
      load  : [Accounts -> Revisions] \cup {None},
      ok    : BOOLEAN ]                 \* the rebuild has met no error

Idle == [ pc |-> "idle", mark |-> 0, batch |-> {}, last |-> 0, seen |-> FALSE,
          row |-> None, load |-> None, ok |-> TRUE ]

\* Start: the initial rebuild runs at once, the tickers wait.
Started(w) == IF setup.role[w] = "startup" THEN [Idle EXCEPT !.pc = "lock"] ELSE Idle

At(w, labels) == work[w].pc \in labels
To(w, pc) == work' = [work EXCEPT ![w].pc = pc]

\* A call of this kind fails, within the bound.
Fault(kind) ==
    /\ kind \in setup.faults /\ budget > 0
    /\ budget' = budget - 1
NoFault == UNCHANGED budget

\* rebuildBucket returns: a poll goes on to its next event, or gives the batch
\* up on an error; everybody else waits for the next tick or is done.
Rebuilt(w, ok) ==
    LET h == work[w] IN
    IF setup.role[w] = "startup" THEN [Idle EXCEPT !.pc = "stopped"]
    ELSE IF ok /\ h.batch # {}
         THEN [h EXCEPT !.pc = "event", !.batch = @ \ {Min(@)}, !.row = None, !.load = None]
         ELSE Idle

\* The snapshot is written, or is not: a rebuild gives its lock back, a
\* request's fallback had none.
Finish(w, ok) ==
    work' = [work EXCEPT ![w] =
               IF setup.role[w] = "request" THEN Idle
               ELSE [@ EXCEPT !.pc = "unlock", !.load = None, !.ok = ok]]

\* The place of a worker's version among those drawn; a worker draws one at a time.
Position(w) == CHOOSE i \in DOMAIN drawn : drawn[i] = w

-----------------------------------------------------------------------------
(* TryLockBucket, UnlockBucket *)

\* Mutant: a bucket that is locked is rebuilt all the same.
TryLockBucketIgnored(w) ==
    /\ At(w, {"lock"})
    /\ lock' = TRUE /\ To(w, "load") /\ UNCHANGED gaps /\ NoFault
    /\ UNCHANGED <<active, drawn, meta>>

\* SET NX.  A rebuild that does not get the lock returns as if it were done.
TryLockBucket(w) ==
    /\ At(w, {"lock"})
    /\ \/ /\ ~lock /\ lock' = TRUE /\ NoFault
          /\ To(w, "load") /\ UNCHANGED gaps
       \/ /\ lock /\ UNCHANGED lock /\ NoFault
          /\ work' = [work EXCEPT ![w] = Rebuilt(w, TRUE)]
          /\ gaps' = IF setup.role[w] = "poll" THEN gaps \cup {"locked"} ELSE gaps
       \/ /\ Fault("redis")
          /\ UNCHANGED lock \/ lock' = TRUE
          /\ work' = [work EXCEPT ![w] = Rebuilt(w, FALSE)]
          /\ UNCHANGED gaps
    /\ UNCHANGED <<active, drawn, meta>>

\* DEL, whoever holds the lock by now.
UnlockBucket(w) ==
    /\ At(w, {"unlock"})
    /\ \/ lock' = FALSE /\ NoFault
       \/ UNCHANGED lock /\ Fault("redis")
    /\ work' = [work EXCEPT ![w] = Rebuilt(w, work[w].ok)]
    /\ UNCHANGED <<active, drawn, meta, gaps>>

\* The TTL of the lock ends: of one nobody holds any more, or of a slow rebuild's.
LockExpires ==
    LET held == \E w \in Workers : At(w, Locked) /\ setup.role[w] # "request" IN
    /\ lock /\ lock' = FALSE
    /\ \/ ~held /\ UNCHANGED gaps /\ NoFault
       \/ held /\ gaps' = gaps \cup {"expired"} /\ Fault("slow")
    /\ UNCHANGED <<setup, rows, outbox, active, drawn, meta, watermark, work, change, changes>>

-----------------------------------------------------------------------------
(* loadAccountsFromDB and SetSnapshot *)

LoadAccounts(w) ==
    /\ At(w, {"load"})
    /\ \/ work' = [work EXCEPT ![w].load = rows, ![w].pc = "incr"] /\ NoFault
       \/ Finish(w, FALSE) /\ Fault("db")
    /\ UNCHANGED <<active, drawn, meta, lock, gaps>>

\* INCR of the version, after the accounts were read.
NewVersion(w) ==
    /\ At(w, {"incr"})
    /\ \/ drawn' = Append(drawn, w) /\ To(w, "store") /\ NoFault
       \/ UNCHANGED drawn /\ Finish(w, FALSE) /\ Fault("redis")
    /\ UNCHANGED <<active, meta, lock, gaps>>

\* writeAccounts stores the record of every account of the list.
Stored(load) == [a \in Accounts |-> IF a \in On(load) THEN load[a] ELSE meta[a]]

\* Mutant: a record that is cached already is not written again.
StoreNew(w) ==
    /\ At(w, {"store"})
    /\ meta' = [a \in Accounts |-> IF meta[a] = None THEN Stored(work[w].load)[a] ELSE meta[a]]
    /\ To(w, "activate") /\ UNCHANGED drawn /\ NoFault
    /\ UNCHANGED <<active, lock, gaps>>

\* The records and the list, under a key that no reader knows yet.
Store(w) ==
    /\ At(w, {"store"})
    /\ \/ meta' = Stored(work[w].load) /\ To(w, "activate") /\ UNCHANGED drawn /\ NoFault
       \/ /\ UNCHANGED meta \/ meta' = Stored(work[w].load)
          /\ drawn' = IF w \in ToSet(drawn) THEN RemoveAt(drawn, Position(w)) ELSE drawn
          /\ Finish(w, FALSE) /\ Fault("redis")
    /\ UNCHANGED <<active, lock, gaps>>

\* activateSnapshotScript: a version older than the active one is dropped.
Activate(w) ==
    /\ At(w, {"activate"})
    /\ \/ /\ w \in ToSet(drawn)
          /\ drawn' = SubSeq(drawn, Position(w) + 1, Len(drawn))
          /\ active' = work[w].load
       \/ w \notin ToSet(drawn) /\ UNCHANGED <<drawn, active>>
    /\ \/ Finish(w, TRUE) /\ NoFault
       \/ Finish(w, FALSE) /\ Fault("reply")
    /\ UNCHANGED <<meta, lock, gaps>>

RebuildBucket(w) ==
    \/ TryLockBucket(w) \/ UnlockBucket(w)
    \/ LoadAccounts(w) \/ NewVersion(w) \/ Store(w) \/ Activate(w)

=============================================================================
