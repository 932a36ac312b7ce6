--------------------------- MODULE SchedulerSnapshot ---------------------------
(***************************************************************************)
(* SchedulerSnapshotService: the outbox poll, the periodic and the initial *)
(* rebuild and the fallback of requests keep the snapshot of a bucket up   *)
(* to date with the accounts that accountRepository changes.  Every call   *)
(* to Redis or to the database is a step.                                  *)
(***************************************************************************)
EXTENDS SchedulerCache

\* A change in progress: its operation, its account, the revision it wrote or
\* read, the id of its event.
NoChange == [pc |-> "idle", op |-> None, account |-> None, row |-> None, id |-> 0]

Init ==
    /\ setup \in Setups
    /\ rows = [a \in Accounts |-> 0] /\ outbox = <<>>
    /\ active = None /\ drawn = <<>> /\ meta = [a \in Accounts |-> None]
    /\ lock = FALSE /\ watermark = 0
    /\ work = [w \in Workers |-> Started(w)]
    /\ change = [c \in Writers |-> NoChange]
    /\ changes = 0 /\ budget = setup.budget /\ gaps = {}

-----------------------------------------------------------------------------
(* accountRepository: a change, its event, its record in the cache *)

\* SetSchedulable, Delete, UpdateLastUsed (no new revision), and
\* AutoPauseExpiredAccounts for all accounts at once.
Changed(a, op) ==
    [b \in Accounts |->
       IF op = "toggle" /\ b = a THEN rows[b] + 1
       ELSE IF op = "delete" /\ b = a THEN Gone
       ELSE IF op = "pause" /\ b \in On(rows) THEN rows[b] + 1
       ELSE rows[b]]

Change(c, a, op) ==
    /\ change[c].pc = "idle" /\ changes < setup.changes
    /\ rows[a] # Gone
    /\ op = "pause" => On(rows) # {}
    /\ rows' = Changed(a, op)
    /\ changes' = changes + 1
    /\ change' = [change EXCEPT ![c] =
                    [NoChange EXCEPT !.pc = IF op = "delete" THEN "forget" ELSE "enqueue",
                                     !.op = op, !.account = IF op = "pause" THEN None ELSE a,
                                     !.row = IF op = "toggle" THEN rows'[a] ELSE None]]
    /\ UNCHANGED <<setup, outbox, snapshot, work, budget, gaps>>

\* deleteSchedulerAccountSnapshot; an error is only logged.
Forget(c) ==
    /\ change[c].pc = "forget"
    /\ \/ meta' = [meta EXCEPT ![change[c].account] = None] /\ NoFault
       \/ UNCHANGED meta /\ Fault("redis")
    /\ change' = [change EXCEPT ![c].pc = "enqueue"]
    /\ UNCHANGED <<setup, database, active, drawn, lock, watermark, work, changes, gaps>>

\* No poll, done or under way, has gone past the event: not even one that read the
\* watermark before another process set it back.
Unlisted(i) == i > watermark /\ \A w \in Workers : i > work[w].mark /\ i > work[w].last

Event(c) ==
    LET op == change[c].op
    IN  [ kind    |-> IF op = "touch" THEN "used" ELSE IF op = "pause" THEN "full" ELSE "changed",
          account |-> change[c].account,
          recent  |-> setup.dedup,
          visible |-> ~setup.late ]

\* Events of the last second that stand for this one.
Twins(e) ==
    {i \in DOMAIN outbox : /\ e.kind # "used"
                           /\ outbox[i].visible /\ outbox[i].recent
                           /\ outbox[i].kind = e.kind /\ outbox[i].account = e.account}

\* A change that takes its account out goes on to write it to the cache.
Enqueued(c) ==
    [change EXCEPT ![c] = IF @.op = "toggle" /\ @.row % 2 = 1
                          THEN [@ EXCEPT !.pc = "sync", !.id = 0] ELSE NoChange]

\* enqueueSchedulerOutbox; an error is only logged.
Enqueue(c) ==
    /\ change[c].pc = "enqueue"
    /\ \/ /\ Twins(Event(c)) = {} /\ NoFault /\ UNCHANGED gaps
          /\ outbox' = Append(outbox, Event(c))
          /\ change' = IF setup.late
                       THEN [change EXCEPT ![c].pc = "commit", ![c].id = Len(outbox) + 1]
                       ELSE Enqueued(c)
       \/ /\ Twins(Event(c)) # {} /\ NoFault /\ UNCHANGED outbox
          /\ gaps' = IF \E i \in Twins(Event(c)) : Unlisted(i) THEN gaps ELSE gaps \cup {"dedup"}
          /\ change' = Enqueued(c)
       \/ /\ Fault("db") /\ UNCHANGED outbox
          /\ gaps' = IF change[c].op = "touch" THEN gaps ELSE gaps \cup {"enqueue"}
          /\ change' = Enqueued(c)
    /\ UNCHANGED <<setup, rows, snapshot, work, changes>>

\* The insert commits, after its id was given.
Commit(c) ==
    /\ change[c].pc = "commit"
    /\ outbox' = [outbox EXCEPT ![change[c].id].visible = TRUE]
    /\ gaps' = IF Unlisted(change[c].id) THEN gaps ELSE gaps \cup {"late"}
    /\ change' = Enqueued(c)
    /\ UNCHANGED <<setup, rows, snapshot, work, changes, budget>>

\* syncSchedulerAccountSnapshot: GetByID, then SetAccount.
Sync(c) ==
    LET a == change[c].account IN
    /\ \/ /\ change[c].pc = "sync"
          /\ change' = [change EXCEPT ![c] = IF rows[a] = Gone THEN NoChange
                                             ELSE [@ EXCEPT !.pc = "write", !.row = rows[a]]]
          /\ UNCHANGED meta /\ NoFault
       \/ /\ change[c].pc = "write"
          /\ change' = [change EXCEPT ![c] = NoChange]
          /\ \/ meta' = [meta EXCEPT ![a] = change[c].row] /\ NoFault
             \/ UNCHANGED meta /\ Fault("redis")
    /\ UNCHANGED <<setup, database, active, drawn, lock, watermark, work, changes, gaps>>

\* The deduplication window moves on.
Age ==
    \E i \in DOMAIN outbox :
        /\ outbox[i].recent /\ \A j \in 1..(i - 1) : ~outbox[j].recent
        /\ outbox' = [outbox EXCEPT ![i].recent = FALSE]
        /\ UNCHANGED <<setup, rows, snapshot, work, writers, budget, gaps>>

Write(c) == Forget(c) \/ Enqueue(c) \/ Commit(c) \/ Sync(c)

-----------------------------------------------------------------------------
(* pollOutbox *)

GetOutboxWatermark(w) ==
    /\ At(w, {"idle"}) /\ setup.role[w] = "poll"
    /\ work' = [work EXCEPT ![w].pc = "list", ![w].mark = watermark]
    /\ NoFault /\ UNCHANGED <<meta, watermark>>

\* Mutant: id >= the watermark.
AfterInclusive(mark) == {i \in DOMAIN outbox : outbox[i].visible /\ i >= mark}

After(mark) == {i \in DOMAIN outbox : outbox[i].visible /\ i > mark}

ListAfter(w) ==
    LET found == After(work[w].mark)
        batch == {i \in found : Cardinality({j \in found : j < i}) < BatchLimit}
    IN
    /\ At(w, {"list"})
    /\ \/ /\ NoFault
          /\ work' = [work EXCEPT ![w] =
                        IF batch = {} THEN Idle
                        ELSE [@ EXCEPT !.pc = "event", !.batch = batch, !.last = Max(batch)]]
       \/ Fault("db") /\ work' = [work EXCEPT ![w] = Idle]
    /\ UNCHANGED <<meta, watermark>>

\* Mutant: an event that cannot be handled is skipped.
GiveUpEvent(w) == work' = [work EXCEPT ![w] = Rebuilt(w, TRUE)]

\* An event that cannot be handled ends the poll; the watermark stays.
GiveUp(w) == work' = [work EXCEPT ![w] = Idle]

\* The event is done with.
Handled(w) == work' = [work EXCEPT ![w] = Rebuilt(w, TRUE)]

\* handleOutboxEvent: GetByID for a changed account, MGET for a used one.
HandleOutboxEvent(w) ==
    LET e == outbox[Min(work[w].batch)] IN
    /\ At(w, {"event"})
    /\ IF work[w].batch = {} THEN To(w, "mark") /\ NoFault
       ELSE \/ /\ e.kind = "changed" /\ NoFault
               /\ work' = [work EXCEPT ![w].pc = "account", ![w].row = rows[e.account]]
            \/ e.kind = "changed" /\ Fault("db") /\ GiveUp(w)
            \/ e.kind = "used" /\ meta[e.account] = None /\ Handled(w) /\ NoFault
            \/ /\ e.kind = "used" /\ meta[e.account] # None /\ NoFault
               /\ work' = [work EXCEPT ![w].pc = "used", ![w].row = meta[e.account]]
            \/ e.kind = "full" /\ To(w, "lock") /\ NoFault
    /\ UNCHANGED <<meta, watermark>>

\* handleAccountEvent: SetAccount or DeleteAccount, then the rebuild, once in a
\* batch.  UpdateLastUsed writes the record back as it read it.
HandleAccountEvent(w) ==
    LET a == outbox[Min(work[w].batch)].account
        row == work[w].row
    IN
    /\ At(w, {"account", "used"})
    /\ \/ /\ meta' = [meta EXCEPT ![a] = IF row = Gone THEN None ELSE row] /\ NoFault
          /\ IF At(w, {"account"}) /\ ~work[w].seen
             THEN work' = [work EXCEPT ![w].pc = "lock", ![w].seen = TRUE]
             ELSE Handled(w)
       \/ UNCHANGED meta /\ Fault("redis") /\ GiveUp(w)
    /\ UNCHANGED watermark

\* Three attempts; a failure leaves the watermark.
SetOutboxWatermark(w) ==
    /\ At(w, {"mark"}) /\ To(w, "lag")
    /\ \/ watermark' = work[w].last /\ NoFault
       \/ UNCHANGED watermark /\ Fault("redis")
    /\ UNCHANGED meta

\* checkOutboxLag: old or many events may trigger a full rebuild.
CheckOutboxLag(w) ==
    /\ At(w, {"lag"})
    /\ GiveUp(w) \/ work' = [work EXCEPT ![w] = [Idle EXCEPT !.pc = "lock"]]
    /\ NoFault /\ UNCHANGED <<meta, watermark>>

PollOutbox(w) ==
    \/ GetOutboxWatermark(w) \/ ListAfter(w) \/ HandleOutboxEvent(w)
    \/ HandleAccountEvent(w) \/ SetOutboxWatermark(w) \/ CheckOutboxLag(w)

-----------------------------------------------------------------------------
(* The periodic rebuild, requests, the process *)

\* triggerFullRebuild.  A ListBuckets that fails is a tick that does not happen;
\* in a poll it ends the batch, as an error of TryLockBucket does.
TriggerFullRebuild(w) ==
    /\ At(w, {"idle"}) /\ setup.role[w] = "full"
    /\ To(w, "lock") /\ NoFault /\ UNCHANGED <<meta, watermark>>

\* GetSnapshot: a version is ready, its list is not empty, every record is there.
Hit ==
    /\ active # None
    /\ On(active) # {}
    /\ \A a \in On(active) : meta[a] # None

\* ListSchedulableAccounts without a usable snapshot, or when Redis fails, loads
\* the accounts and stores them as a rebuild does, without the bucket's lock.
Fallback(w) ==
    /\ At(w, {"idle"}) /\ setup.role[w] = "request"
    /\ (~Hit /\ NoFault) \/ Fault("redis")
    /\ To(w, "load") /\ UNCHANGED <<meta, watermark>>

\* The process dies and starts again: Redis and the database stay, a change is
\* left where it was.
Crash ==
    /\ Fault("crash")
    /\ work' = [w \in Workers |-> Started(w)]
    /\ drawn' = <<>>
    /\ gaps' = IF \E c \in Writers : change[c].op # "touch" /\ change[c].pc \in {"forget", "enqueue", "commit"}
               THEN gaps \cup {"enqueue"} ELSE gaps
    /\ change' = [c \in Writers |-> NoChange]
    /\ UNCHANGED <<setup, database, active, meta, lock, watermark, changes>>

Work(w) ==
    /\ \/ RebuildBucket(w) /\ UNCHANGED watermark
       \/ PollOutbox(w) /\ UNCHANGED <<active, drawn, lock, gaps>>
       \/ TriggerFullRebuild(w) /\ UNCHANGED <<active, drawn, lock, gaps>>
    /\ UNCHANGED <<setup, database, writers>>

Next ==
    \/ \E w \in Workers : Work(w)
    \/ \E w \in Workers : Fallback(w) /\ UNCHANGED <<setup, database, active, drawn, lock, writers, gaps>>
    \/ \E c \in Writers : Write(c)
    \/ \E c \in setup.writers, a \in setup.accounts, op \in setup.ops : Change(c, a, op)
    \/ LockExpires \/ Age \/ Crash

\* Goroutines run, tickers tick, a lock's TTL ends; nobody owes the service a
\* change, a request or a fault.
Fairness ==
    /\ \A w \in Workers : WF_vars(Work(w))
    /\ \A c \in Writers : WF_vars(Write(c))
    /\ WF_vars(LockExpires)

Spec == Init /\ [][Next]_vars /\ Fairness

-----------------------------------------------------------------------------
(* Properties *)

\* The records have their shapes; a poll never lists what its watermark covers.
TypeOK ==
    /\ setup \in Setups
    /\ rows \in [Accounts -> Revisions]
    /\ active \in [Accounts -> Revisions] \cup {None}
    /\ meta \in [Accounts -> Revisions \cup {None}]
    /\ ToSet(drawn) \subseteq Workers
    /\ lock \in BOOLEAN /\ watermark \in 0..Len(outbox)
    /\ \A w \in Workers : /\ work[w] \in Worker
                          /\ \A i \in work[w].batch : i \in DOMAIN outbox /\ i > work[w].mark
    /\ changes \in 0..MaxChanges /\ budget \in Nat
    /\ gaps \subseteq {"enqueue", "dedup", "late", "locked", "expired"}

Requests == {w \in Workers : setup.role[w] = "request"}

\* When every event is behind the watermark and nobody is at work, the snapshot
\* lists exactly the schedulable accounts: pollOutbox moves the watermark only
\* past what it has rebuilt, through errors, crashes, batches and repeated
\* rebuilds.  A change escapes in the five ways of gaps and no other: its event
\* is not written, is taken for a copy of one already read, becomes visible
\* behind the watermark, finds the bucket locked, or a lock times out.
CaughtUpMeansFresh ==
    /\ gaps = {} /\ Requests = {} /\ active # None
    /\ \A w \in Workers : At(w, {"idle", "stopped"})
    /\ \A c \in Writers : change[c].pc = "idle"
    /\ \A i \in DOMAIN outbox : outbox[i].visible => i <= watermark
    => On(active) = On(rows)

\* Rebuilds under the bucket's lock never replace a snapshot by one that was
\* read from the database before it (TryLockBucket, INCR after the read).
RebuildsInOrder ==
    [][ active # None /\ Requests = {} /\ "expired" \notin gaps'
        => \A a \in Accounts : active'[a] >= active[a] ]_vars

Fresh ==
    /\ active # None /\ On(active) = On(rows)
    /\ \A a \in On(rows) : meta[a] = rows[a]

\* Whatever escapes the outbox, is written late or is lost, the periodic rebuild
\* brings the list and the records of the listed accounts up to date for good
\* once the changes stop.
EventuallyFresh == (\E w \in Workers : setup.role[w] = "full") => <>[]Fresh

=============================================================================
