--------------------------- MODULE SchedulerProofs ---------------------------
(***************************************************************************)
(* Safety of the scheduler snapshot, for every number of processes,        *)
(* writers and accounts: rebuilds under the bucket's lock follow one       *)
(* another in the order in which they read the database, and a snapshot    *)
(* that has caught up with the outbox lists the schedulable accounts,      *)
(* unless a change escaped in one of the named ways or a request, which    *)
(* takes no lock, fell back to the database.                               *)
(***************************************************************************)
EXTENDS SchedulerSnapshot, FiniteSetTheorems, WellFoundedInduction, SequenceTheorems, TLAPS

-----------------------------------------------------------------------------
(* Numbers and sequences *)

LEMMA StrictSubsets ==
  ASSUME NEW S, NEW A \in SUBSET S, NEW B \in SUBSET S, A \subseteq B, NEW e \in B, e \notin A
  PROVE  <<A, B>> \in StrictSubsetOrdering(S)
BY DEF StrictSubsetOrdering

\* Of the sets below the elements of S one has no smaller one, and so has one above.
LEMMA ExtremesExist ==
  ASSUME NEW S \in SUBSET Nat, IsFiniteSet(S), S # {}
  PROVE  /\ Min(S) \in S /\ \A y \in S : Min(S) <= y
         /\ Max(S) \in S /\ \A y \in S : Max(S) >= y
<1> DEFINE Below(x) == {y \in S : y < x}
           Above(x) == {y \in S : y > x}
           R == StrictSubsetOrdering(S)
<1>1. IsWellFoundedOn(R, SUBSET S)
  BY FS_StrictSubsetOrderingWellFounded, FS_FiniteSubsetsOfFinite
<1> DEFINE LowSides == {Below(x) : x \in S}
           HighSides == {Above(x) : x \in S}
<1>2. LowSides \subseteq SUBSET S /\ LowSides # {} /\ HighSides \subseteq SUBSET S /\ HighSides # {}
  OBVIOUS
<1>3. (\E x \in LowSides : \A y \in LowSides : <<y, x>> \notin R)
      /\ (\E x \in HighSides : \A y \in HighSides : <<y, x>> \notin R)
  <2> HIDE DEF R, LowSides, HighSides
  <2> QED
    BY <1>1, <1>2, WFMin
<1>4. PICK x \in S : \A y \in S : <<Below(y), Below(x)>> \notin R
  BY <1>3
<1>5. \A y \in S : x <= y
  <2> SUFFICES ASSUME NEW y \in S, y < x PROVE FALSE
    OBVIOUS
  <2>0. x \in Nat /\ y \in Nat /\ \A u \in S : u \in Nat
    OBVIOUS
  <2>1. /\ Below(y) \in SUBSET S /\ Below(x) \in SUBSET S
        /\ Below(y) \subseteq Below(x)
        /\ y \in Below(x) /\ y \notin Below(y)
    <3>1. Below(y) \in SUBSET S /\ Below(x) \in SUBSET S
      OBVIOUS
    <3>2. Below(y) \subseteq Below(x)
      <4> SUFFICES ASSUME NEW u \in S, u < y PROVE u < x
        OBVIOUS
      <4> u \in Nat
        BY <2>0
      <4> QED
        BY <2>0
    <3>3. y \in Below(x) /\ y \notin Below(y)
      BY <2>0
    <3> QED
      BY <3>1, <3>2, <3>3
  <2> HIDE DEF Below
  <2>2. <<Below(y), Below(x)>> \in R
    BY <2>1, StrictSubsets
  <2> QED
    BY <1>4, <2>2
<1>6. PICK z \in S : \A y \in S : <<Above(y), Above(z)>> \notin R
  BY <1>3
<1>7. \A y \in S : z >= y
  <2> SUFFICES ASSUME NEW y \in S, y > z PROVE FALSE
    OBVIOUS
  <2>0. z \in Nat /\ y \in Nat /\ \A u \in S : u \in Nat
    OBVIOUS
  <2>1. /\ Above(y) \in SUBSET S /\ Above(z) \in SUBSET S
        /\ Above(y) \subseteq Above(z)
        /\ y \in Above(z) /\ y \notin Above(y)
    <3>1. Above(y) \in SUBSET S /\ Above(z) \in SUBSET S
      OBVIOUS
    <3>2. Above(y) \subseteq Above(z)
      <4> SUFFICES ASSUME NEW u \in S, u > y PROVE u > z
        OBVIOUS
      <4> u \in Nat
        BY <2>0
      <4> QED
        BY <2>0
    <3>3. y \in Above(z) /\ y \notin Above(y)
      BY <2>0
    <3> QED
      BY <3>1, <3>2, <3>3
  <2> HIDE DEF Above
  <2>2. <<Above(y), Above(z)>> \in R
    BY <2>1, StrictSubsets
  <2> QED
    BY <1>6, <2>2
<1> QED
  BY <1>5, <1>7 DEF Min, Max

-----------------------------------------------------------------------------
(* Types *)

Rows == [Accounts -> Revisions]
Events == {e \in [ kind : {"used", "full", "changed"}, account : Accounts \cup {None},
                   recent : BOOLEAN, visible : BOOLEAN ] :
             e.kind # "full" => e.account \in Accounts}

\* Rows count their changes up, until they are gone.
DataTypes ==
    /\ setup \in Setups /\ changes \in 0..setup.changes /\ budget \in Nat
    /\ rows \in Rows /\ \A a \in Accounts : rows[a] <= changes \/ rows[a] = Gone
    /\ gaps \subseteq {"enqueue", "dedup", "late", "locked", "expired"}

CacheTypes ==
    /\ active \in Rows \cup {None}
    /\ meta \in [Accounts -> Revisions \cup {None}]
    /\ drawn \in Seq(Workers) /\ lock \in BOOLEAN

\* A change is about an account, unless it is about all.
Changing ==
    [ pc : {"idle", "forget", "enqueue", "commit", "sync", "write"},
      op : setup.ops \cup {None}, account : Accounts \cup {None},
      row : Revisions \cup {None}, id : Nat ]

ChangeRecord(x, box) ==
    /\ x \in Changing
    /\ x.pc # "idle" /\ x.op # "pause" => x.account \in Accounts
    /\ x.pc \in {"forget", "sync", "write"} => x.op # "pause"
    /\ x.pc = "commit" => /\ x.id \in DOMAIN box
                          /\ x.op # "touch" => box[x.id].kind # "used"

ChangeTypes ==
    /\ outbox \in Seq(Events) /\ change \in [Writers -> Changing]
    /\ \A c \in Writers : ChangeRecord(change[c], outbox)

\* A poll is at an event of its batch, a rebuild that has read the rows has them.
HandTypes(h, box) ==
    /\ h \in Worker
    /\ h.mark \in 0..Len(box) /\ h.last \in 0..Len(box)
    /\ \A i \in h.batch : i \in DOMAIN box /\ i > h.mark
    /\ h.pc \in {"idle", "list"} => h.batch = {} /\ ~h.seen
    /\ h.pc \in {"account", "used"} =>
         h.batch # {} /\ box[Min(h.batch)].kind = IF h.pc = "used" THEN "used" ELSE "changed"
    /\ h.pc \in {"incr", "store", "activate"} => h.load \in Rows

WorkTypes ==
    /\ watermark \in 0..Len(outbox)
    /\ work \in [Workers -> Worker]
    /\ \A w \in Workers : HandTypes(work[w], outbox)

Types == DataTypes /\ CacheTypes /\ ChangeTypes /\ WorkTypes

-----------------------------------------------------------------------------
(* Rebuilds in order *)

NoRequests == Requests = {}
Loaded(w) == At(w, {"incr", "store", "activate"})

\* One worker rebuilds at a time, its version is in the list, and what it has read is
\* not older than the snapshot it will replace.
Order ==
    /\ \A w \in Workers : At(w, Locked) => lock
    /\ \A w, v \in Workers : At(w, Locked) /\ At(v, Locked) => w = v
    /\ \A w \in Workers : At(w, {"store", "activate"}) => w \in ToSet(drawn)
    /\ active # None => \A a \in Accounts : active[a] <= rows[a]
    /\ \A w \in Workers : Loaded(w) =>
         /\ \A a \in Accounts : work[w].load[a] <= rows[a]
         /\ active # None => \A a \in Accounts : active[a] <= work[w].load[a]

\* So it is while no lock times out.
OrderInv == NoRequests /\ "expired" \notin gaps => Order

-----------------------------------------------------------------------------
(* Caught up *)

\* A change was made and its event is not there yet.
Writing(x) == x.pc \in {"forget", "enqueue", "commit"} /\ x.op # "touch"

\* Something tells that the rows may have changed: a writer, or an event after n.
Told(n, box, writing) ==
    \/ \E c \in Writers : Writing(writing[c])
    \/ \E i \in DOMAIN box : i > n /\ box[i].visible /\ box[i].kind # "used"

\* A worker has nothing to do, or will rebuild the bucket in the rest of its batch.
Rests(h) == h.pc \in {"idle", "stopped", "lag"}

WillRebuild(h, box) ==
    \/ h.pc \in {"lock", "load"} \/ (h.pc = "unlock" /\ ~h.ok)
    \/ /\ h.pc \in {"event", "account", "used"}
       /\ \E i \in h.batch : box[i].kind = "full" \/ (box[i].kind = "changed" /\ ~h.seen)

Open(h, box) == ~Rests(h) /\ ~WillRebuild(h, box)

\* What a poll has gone past, or is about to.
Past(h) == IF h.pc = "list" THEN h.mark ELSE h.last

\* The rows are as f has them, or the next poll will be told.
Followed(f) == f = rows \/ Told(watermark, outbox, change)

\* Whoever is at work will not take a later watermark for f.
Learns(f, h) == Open(h, outbox) => f = rows \/ Told(Past(h), outbox, change)

\* What is active, and what a rebuild has read, is what the database has, or the
\* outbox tells of the change.
Following ==
    /\ active # None => /\ Followed(active)
                        /\ \A w \in Workers : Loaded(w) \/ Learns(active, work[w])
    /\ \A w \in Workers : Loaded(w) => /\ Followed(work[w].load)
                                        /\ \A v \in Workers : Learns(work[w].load, work[v])

\* So it is while no change escapes.
FreshInv == NoRequests /\ gaps = {} => Following

\* Only a poll lists events.
Lists(h) == h.pc = "list" \/ h.batch # {}
PollsList == \A w \in Workers : Lists(work[w]) => setup.role[w] = "poll"

-----------------------------------------------------------------------------
(* The types are kept *)

\* Redis and the database fail within the budget, so the budget stays a number.
LEMMA BudgetTypes ==
  ASSUME budget \in Nat, NoFault \/ \E kind \in {"slow", "db", "redis", "reply", "crash"} : Fault(kind)
  PROVE  budget' \in Nat
BY DEF NoFault, Fault

LEMMA NoHand ==
  ASSUME NEW box \in Seq(Events)
  PROVE  /\ HandTypes([Idle EXCEPT !.pc = "stopped"], box)
         /\ HandTypes([Idle EXCEPT !.pc = "lock"], box)
<1>1. Len(box) \in Nat
  OBVIOUS
<1>2. [Idle EXCEPT !.pc = "stopped"] \in Worker /\ [Idle EXCEPT !.pc = "lock"] \in Worker
  BY DEF Idle, Worker, PCs
<1>3. [Idle EXCEPT !.pc = "stopped"].pc = "stopped" /\ [Idle EXCEPT !.pc = "lock"].pc = "lock"
  BY DEF Idle
<1>4. ASSUME NEW pc PROVE LET h == [Idle EXCEPT !.pc = pc] IN h.mark = 0 /\ h.last = 0 /\ h.batch = {}
  BY DEF Idle
<1> QED
  BY <1>1, <1>2, <1>3, <1>4 DEF HandTypes

LEMMA IdleHand ==
  ASSUME NEW box \in Seq(Events)
  PROVE  HandTypes(Idle, box)
BY DEF HandTypes, Idle, Worker, PCs

\* The event that a poll is at is one of the outbox.
LEMMA FirstOfBatch ==
  ASSUME NEW h, NEW box \in Seq(Events), HandTypes(h, box), h.batch # {}
  PROVE  /\ Min(h.batch) \in h.batch /\ Min(h.batch) \in DOMAIN box
         /\ \A i \in h.batch : Min(h.batch) <= i
<1> DEFINE batch == h.batch
<1>1. batch \subseteq 1..Len(box) /\ Len(box) \in Nat
  BY DEF HandTypes
<1>2. IsFiniteSet(batch) /\ batch \in SUBSET Nat
  <2>1. IsFiniteSet(1..Len(box))
    BY <1>1, FS_Interval
  <2> QED
    BY <1>1, <2>1, FS_Subset
<1>3. /\ Min(batch) \in batch /\ \A i \in batch : Min(batch) <= i
  BY <1>2, ExtremesExist
<1> QED
  BY <1>1, <1>3

\* The outbox only grows: what a worker knows of it stays so.
LEMMA OutboxGrows ==
  ASSUME NEW h, NEW box \in Seq(Events), HandTypes(h, box), NEW next \in Seq(Events),
         Len(box) <= Len(next), \A i \in DOMAIN box : next[i].kind = box[i].kind
  PROVE  HandTypes(h, next)
<1>1. Len(box) \in Nat /\ Len(next) \in Nat /\ DOMAIN box = 1..Len(box) /\ DOMAIN next = 1..Len(next)
  OBVIOUS
<1>2. h.batch # {} => next[Min(h.batch)].kind = box[Min(h.batch)].kind
  BY FirstOfBatch
<1>3. /\ h.mark \in 0..Len(next) /\ h.last \in 0..Len(next)
      /\ \A i \in h.batch : i \in DOMAIN next /\ i > h.mark
  BY <1>1 DEF HandTypes
<1> QED
  BY <1>2, <1>3 DEF HandTypes

\* A worker that goes on keeps what it knows.
LEMMA HandGoesOn ==
  ASSUME NEW h, NEW box \in Seq(Events), HandTypes(h, box),
         NEW pc \in PCs \ {"idle", "list", "account", "used", "incr", "store", "activate"}
  PROVE  HandTypes([h EXCEPT !.pc = pc], box)
BY DEF HandTypes, Worker

LEMMA RebuiltHand ==
  ASSUME NEW w \in Workers, outbox \in Seq(Events), HandTypes(work[w], outbox), NEW ok \in BOOLEAN
  PROVE  HandTypes(Rebuilt(w, ok), outbox)
<1> DEFINE h == work[w]
           next == [h EXCEPT !.pc = "event", !.batch = @ \ {Min(@)}, !.row = None, !.load = None]
<1>1. HandTypes(next, outbox)
  BY DEF HandTypes, Worker, PCs
<1>2. HandTypes([Idle EXCEPT !.pc = "stopped"], outbox) /\ HandTypes(Idle, outbox)
  BY NoHand, IdleHand
<1>3. Rebuilt(w, ok) \in {[Idle EXCEPT !.pc = "stopped"], Idle, next}
  BY DEF Rebuilt
<1> HIDE DEF next
<1> QED
  BY <1>1, <1>2, <1>3

LEMMA FinishedHand ==
  ASSUME NEW w \in Workers, outbox \in Seq(Events), work \in [Workers -> Worker],
         HandTypes(work[w], outbox), NEW ok \in BOOLEAN, Finish(w, ok)
  PROVE  \E h : HandTypes(h, outbox) /\ work' = [work EXCEPT ![w] = h]
<1> DEFINE h == IF setup.role[w] = "request" THEN Idle
                ELSE [work[w] EXCEPT !.pc = "unlock", !.load = None, !.ok = ok]
<1>1. HandTypes([work[w] EXCEPT !.pc = "unlock", !.load = None, !.ok = ok], outbox)
  BY DEF HandTypes, Worker, PCs
<1>2. HandTypes(h, outbox)
  BY <1>1, IdleHand
<1>3. work' = [work EXCEPT ![w] = h]
  BY DEF Finish
<1> HIDE DEF h
<1> QED
  BY <1>2, <1>3

\* One worker's new record is all there is to check of its step.
LEMMA WorkReplaced ==
  ASSUME WorkTypes, NEW w \in Workers, NEW h, HandTypes(h, outbox), work' = [work EXCEPT ![w] = h],
         UNCHANGED outbox, watermark' \in 0..Len(outbox)
  PROVE  WorkTypes'
<1>1. h \in Worker
  BY DEF HandTypes
<1>2. work' \in [Workers -> Worker]
  BY <1>1 DEF WorkTypes
<1>3. ASSUME NEW v \in Workers PROVE HandTypes(work'[v], outbox)
  BY DEF WorkTypes
<1> QED
  BY <1>2, <1>3 DEF WorkTypes

LEMMA WorkGoesOn ==
  ASSUME WorkTypes, outbox \in Seq(Events), NEW w \in Workers,
         NEW pc \in PCs \ {"idle", "list", "account", "used", "incr", "store", "activate"}, To(w, pc),
         UNCHANGED outbox, watermark' \in 0..Len(outbox)
  PROVE  WorkTypes'
<1> DEFINE h == [work[w] EXCEPT !.pc = pc]
<1>1. work' = [work EXCEPT ![w] = h]
  BY DEF To, WorkTypes
<1>2. HandTypes(work[w], outbox)
  BY DEF WorkTypes
<1>3. HandTypes(h, outbox)
  BY <1>2, HandGoesOn
<1> HIDE DEF h
<1> QED
  BY <1>1, <1>3, WorkReplaced

LEMMA PositionFound ==
  ASSUME drawn \in Seq(Workers), NEW w, w \in ToSet(drawn)
  PROVE  Position(w) \in DOMAIN drawn /\ drawn[Position(w)] = w
BY DEF ToSet, Position

\* Versions are taken from the list, none is put in out of turn.
LEMMA DrawnTypes ==
  ASSUME CacheTypes, NEW w \in Workers,
         \/ UNCHANGED drawn
         \/ drawn' = Append(drawn, w)
         \/ drawn' = <<>>
         \/ w \in ToSet(drawn) /\ drawn' = RemoveAt(drawn, Position(w))
         \/ w \in ToSet(drawn) /\ drawn' = SubSeq(drawn, Position(w) + 1, Len(drawn))
  PROVE  drawn' \in Seq(Workers)
<1> drawn \in Seq(Workers)
  BY DEF CacheTypes
<1>1. CASE UNCHANGED drawn \/ drawn' = Append(drawn, w) \/ drawn' = <<>>
  <2>1. Append(drawn, w) \in Seq(Workers) /\ <<>> \in Seq(Workers)
    OBVIOUS
  <2> QED
    BY <1>1, <2>1
<1>2. CASE w \in ToSet(drawn) /\ ( \/ drawn' = RemoveAt(drawn, Position(w))
                                   \/ drawn' = SubSeq(drawn, Position(w) + 1, Len(drawn)) )
  <2> DEFINE i == Position(w)
  <2>1. i \in 1..Len(drawn)
    BY <1>2, PositionFound
  <2> HIDE DEF i
  <2>2. \A m, n \in Int : m >= 1 /\ n <= Len(drawn) => SubSeq(drawn, m, n) \in Seq(Workers)
    <3> SUFFICES ASSUME NEW m \in Int, NEW n \in Int, m >= 1, n <= Len(drawn)
                 PROVE  SubSeq(drawn, m, n) \in Seq(Workers)
      OBVIOUS
    <3>1. \A k \in m..n : drawn[k] \in Workers
      OBVIOUS
    <3>2. CASE m <= n
      BY <3>1, <3>2, SubSeqProperties
    <3>3. CASE m > n
      BY <3>3, SubSeqEmpty
    <3> QED
      BY <3>2, <3>3
  <2>3. SubSeq(drawn, 1, i - 1) \in Seq(Workers) /\ SubSeq(drawn, i + 1, Len(drawn)) \in Seq(Workers)
    <3> Len(drawn) \in Nat
      OBVIOUS
    <3> QED
      BY <2>1, <2>2
  <2>4. RemoveAt(drawn, i) \in Seq(Workers)
    BY <2>3, ConcatProperties DEF RemoveAt
  <2> QED
    BY <1>2, <2>3, <2>4 DEF i
<1> QED
  BY <1>1, <1>2

\* The records of the accounts that may be scheduled are written as they were read.
LEMMA StoredTypes ==
  ASSUME NEW load \in Rows, meta \in [Accounts -> Revisions \cup {None}]
  PROVE  Stored(load) \in [Accounts -> Revisions \cup {None}]
BY DEF Stored, Rows

\* The rows, the changes and the faults left, as a worker's step leaves them.
LEMMA DataKept ==
  ASSUME DataTypes, UNCHANGED <<setup, rows, changes>>,
         NoFault \/ \E kind \in {"slow", "db", "redis", "reply", "crash"} : Fault(kind),
         \/ UNCHANGED gaps
         \/ \E g \in {"enqueue", "dedup", "late", "locked", "expired"} : gaps' = gaps \cup {g}
  PROVE  DataTypes'
<1>1. budget' \in Nat
  BY BudgetTypes DEF DataTypes
<1>2. gaps' \subseteq {"enqueue", "dedup", "late", "locked", "expired"}
  BY DEF DataTypes
<1> QED
  BY <1>1, <1>2 DEF DataTypes

LEMMA ChangeKept ==
  ASSUME ChangeTypes, UNCHANGED <<setup, outbox, change>>
  PROVE  ChangeTypes'
BY DEF ChangeTypes, ChangeRecord, Changing

LEMMA TryLockTypes ==
  ASSUME Types, NEW w \in Workers, TryLockBucket(w), UNCHANGED <<setup, database, writers, watermark>>
  PROVE  Types'
<1> USE DEF Types, database, writers
<1> outbox \in Seq(Events) /\ watermark' \in 0..Len(outbox) /\ HandTypes(work[w], outbox)
  BY DEF ChangeTypes, WorkTypes
<1>1. DataTypes'
  <2>1. NoFault \/ Fault("redis")
    BY DEF TryLockBucket
  <2>2. UNCHANGED gaps \/ gaps' = gaps \cup {"locked"}
    BY DEF TryLockBucket
  <2> QED
    BY <2>1, <2>2, DataKept
<1>2. CacheTypes'
  BY DEF TryLockBucket, CacheTypes
<1>3. WorkTypes'
  <2>1. CASE To(w, "load")
    BY <2>1, WorkGoesOn DEF PCs
  <2>2. ASSUME NEW ok \in BOOLEAN, work' = [work EXCEPT ![w] = Rebuilt(w, ok)] PROVE WorkTypes'
    BY <2>2, RebuiltHand, WorkReplaced
  <2> QED
    BY <2>1, <2>2 DEF TryLockBucket
<1> QED
  BY <1>1, <1>2, <1>3, ChangeKept

LEMMA UnlockTypes ==
  ASSUME Types, NEW w \in Workers, UnlockBucket(w), UNCHANGED <<setup, database, writers, watermark>>
  PROVE  Types'
<1> USE DEF Types, database, writers
<1> outbox \in Seq(Events) /\ watermark' \in 0..Len(outbox) /\ HandTypes(work[w], outbox)
  BY DEF ChangeTypes, WorkTypes
<1>1. DataTypes'
  <2>1. NoFault \/ Fault("redis")
    BY DEF UnlockBucket
  <2>2. UNCHANGED gaps
    BY DEF UnlockBucket
  <2> QED
    BY <2>1, <2>2, DataKept
<1>2. CacheTypes'
  BY DEF UnlockBucket, CacheTypes
<1>3. WorkTypes'
  <2>1. work[w].ok \in BOOLEAN
    BY DEF HandTypes, Worker
  <2> QED
    BY <2>1, RebuiltHand, WorkReplaced DEF UnlockBucket
<1> QED
  BY <1>1, <1>2, <1>3, ChangeKept

LEMMA LoadTypes ==
  ASSUME Types, NEW w \in Workers, LoadAccounts(w), UNCHANGED <<setup, database, writers, watermark>>
  PROVE  Types'
<1> USE DEF Types, database, writers
<1> outbox \in Seq(Events) /\ watermark' \in 0..Len(outbox) /\ HandTypes(work[w], outbox)
  BY DEF ChangeTypes, WorkTypes
<1>1. DataTypes'
  <2>1. NoFault \/ Fault("db")
    BY DEF LoadAccounts
  <2>2. UNCHANGED gaps
    BY DEF LoadAccounts
  <2> QED
    BY <2>1, <2>2, DataKept
<1>2. CacheTypes'
  BY DEF LoadAccounts, CacheTypes
<1>3. WorkTypes'
  <2>1. CASE work' = [work EXCEPT ![w].load = rows, ![w].pc = "incr"]
    <3> DEFINE h == [work[w] EXCEPT !.load = rows, !.pc = "incr"]
    <3>1. HandTypes(h, outbox)
      BY DEF HandTypes, Worker, PCs, DataTypes, Rows
    <3>2. work' = [work EXCEPT ![w] = h]
      BY <2>1 DEF WorkTypes
    <3> HIDE DEF h
    <3> QED
      BY <3>1, <3>2, WorkReplaced
  <2>2. CASE Finish(w, FALSE)
    <3>1. PICK h : HandTypes(h, outbox) /\ work' = [work EXCEPT ![w] = h]
      BY <2>2, FinishedHand DEF WorkTypes
    <3> QED
      BY <3>1, WorkReplaced
  <2> QED
    BY <2>1, <2>2 DEF LoadAccounts
<1> QED
  BY <1>1, <1>2, <1>3, ChangeKept

LEMMA NewVersionTypes ==
  ASSUME Types, NEW w \in Workers, NewVersion(w), UNCHANGED <<setup, database, writers, watermark>>
  PROVE  Types'
<1> USE DEF Types, database, writers
<1> outbox \in Seq(Events) /\ watermark' \in 0..Len(outbox) /\ HandTypes(work[w], outbox)
  BY DEF ChangeTypes, WorkTypes
<1>1. DataTypes'
  <2>1. NoFault \/ Fault("redis")
    BY DEF NewVersion
  <2>2. UNCHANGED gaps
    BY DEF NewVersion
  <2> QED
    BY <2>1, <2>2, DataKept
<1>2. CacheTypes'
  <2>1. drawn' \in Seq(Workers)
    BY DrawnTypes DEF NewVersion
  <2> QED
    BY <2>1 DEF NewVersion, CacheTypes, Rows
<1>3. WorkTypes'
  <2>1. CASE To(w, "store") /\ At(w, {"incr"})
    <3> DEFINE h == [work[w] EXCEPT !.pc = "store"]
    <3>1. HandTypes(h, outbox)
      BY <2>1 DEF HandTypes, Worker, PCs, At
    <3>2. work' = [work EXCEPT ![w] = h]
      BY <2>1 DEF WorkTypes, To
    <3> HIDE DEF h
    <3> QED
      BY <3>1, <3>2, WorkReplaced
  <2>2. CASE Finish(w, FALSE)
    <3>1. PICK h : HandTypes(h, outbox) /\ work' = [work EXCEPT ![w] = h]
      BY <2>2, FinishedHand DEF WorkTypes
    <3> QED
      BY <3>1, WorkReplaced
  <2> QED
    BY <2>1, <2>2 DEF NewVersion
<1> QED
  BY <1>1, <1>2, <1>3, ChangeKept

LEMMA StoreTypes ==
  ASSUME Types, NEW w \in Workers, Store(w), UNCHANGED <<setup, database, writers, watermark>>
  PROVE  Types'
<1> USE DEF Types, database, writers
<1> outbox \in Seq(Events) /\ watermark' \in 0..Len(outbox) /\ HandTypes(work[w], outbox)
  BY DEF ChangeTypes, WorkTypes
<1>1. DataTypes'
  <2>1. NoFault \/ Fault("redis")
    BY DEF Store
  <2>2. UNCHANGED gaps
    BY DEF Store
  <2> QED
    BY <2>1, <2>2, DataKept
<1>2. CacheTypes'
  <2>1. drawn' \in Seq(Workers)
    BY DrawnTypes DEF Store
  <2>2. Stored(work[w].load) \in [Accounts -> Revisions \cup {None}]
    BY StoredTypes DEF CacheTypes, HandTypes, Store, At
  <2>3. meta' \in [Accounts -> Revisions \cup {None}]
    BY <2>2 DEF Store, CacheTypes
  <2> QED
    BY <2>1, <2>3 DEF Store, CacheTypes
<1>3. WorkTypes'
  <2>1. CASE To(w, "activate") /\ At(w, {"store"})
    <3> DEFINE h == [work[w] EXCEPT !.pc = "activate"]
    <3>1. HandTypes(h, outbox)
      BY <2>1 DEF HandTypes, Worker, PCs, At
    <3>2. work' = [work EXCEPT ![w] = h]
      BY <2>1 DEF WorkTypes, To
    <3> HIDE DEF h
    <3> QED
      BY <3>1, <3>2, WorkReplaced
  <2>2. CASE Finish(w, FALSE)
    <3>1. PICK h : HandTypes(h, outbox) /\ work' = [work EXCEPT ![w] = h]
      BY <2>2, FinishedHand DEF WorkTypes
    <3> QED
      BY <3>1, WorkReplaced
  <2> QED
    BY <2>1, <2>2 DEF Store
<1> QED
  BY <1>1, <1>2, <1>3, ChangeKept

LEMMA ActivateTypes ==
  ASSUME Types, NEW w \in Workers, Activate(w), UNCHANGED <<setup, database, writers, watermark>>
  PROVE  Types'
<1> USE DEF Types, database, writers
<1> outbox \in Seq(Events) /\ watermark' \in 0..Len(outbox) /\ HandTypes(work[w], outbox)
  BY DEF ChangeTypes, WorkTypes
<1>1. DataTypes'
  <2>1. NoFault \/ Fault("reply")
    BY DEF Activate
  <2>2. UNCHANGED gaps
    BY DEF Activate
  <2> QED
    BY <2>1, <2>2, DataKept
<1>2. CacheTypes'
  <2>1. drawn' \in Seq(Workers)
    BY DrawnTypes DEF Activate
  <2>2. work[w].load \in Rows
    BY DEF HandTypes, Activate, At
  <2>3. active' \in Rows \cup {None}
    BY <2>2 DEF Activate, CacheTypes
  <2> QED
    BY <2>1, <2>3 DEF Activate, CacheTypes
<1>3. WorkTypes'
  <2>1. PICK ok \in BOOLEAN : Finish(w, ok)
    BY DEF Activate
  <2>2. PICK h : HandTypes(h, outbox) /\ work' = [work EXCEPT ![w] = h]
    BY <2>1, FinishedHand DEF WorkTypes
  <2> QED
    BY <2>2, WorkReplaced
<1> QED
  BY <1>1, <1>2, <1>3, ChangeKept

\* The batch that a poll lists is within the outbox, and so is its last event.
LEMMA BatchTypes ==
  ASSUME outbox \in Seq(Events), NEW mark \in Nat, NEW batch \in SUBSET After(mark), batch # {}
  PROVE  /\ batch \in SUBSET Nat /\ \A i \in batch : i \in DOMAIN outbox /\ i > mark
         /\ Max(batch) \in batch /\ \A i \in batch : Max(batch) >= i
<1>1. \A i \in batch : i \in 1..Len(outbox) /\ i > mark
  BY DEF After
<1>2. IsFiniteSet(batch)
  <2>1. Len(outbox) \in Nat
    OBVIOUS
  <2>2. IsFiniteSet(1..Len(outbox))
    BY <2>1, FS_Interval
  <2> QED
    BY <1>1, <2>2, FS_Subset
<1>3. batch \in SUBSET Nat
  BY <1>1
<1> QED
  BY <1>1, <1>2, <1>3, ExtremesExist

LEMMA HandledTypes ==
  ASSUME Types, NEW w \in Workers, Handled(w) \/ GiveUp(w), UNCHANGED <<setup, database, watermark>>
  PROVE  WorkTypes'
<1> USE DEF Types, database
<1> outbox \in Seq(Events) /\ watermark' \in 0..Len(outbox) /\ HandTypes(work[w], outbox)
  BY DEF ChangeTypes, WorkTypes
<1>1. CASE Handled(w)
  <2>1. HandTypes(Rebuilt(w, TRUE), outbox)
    BY RebuiltHand
  <2> QED
    BY <1>1, <2>1, WorkReplaced DEF Handled
<1>2. CASE GiveUp(w)
  BY <1>2, IdleHand, WorkReplaced DEF GiveUp
<1> QED
  BY <1>1, <1>2

LEMMA PollTypes ==
  ASSUME Types, NEW w \in Workers, PollOutbox(w),
         UNCHANGED <<setup, database, writers, active, drawn, lock, gaps>>
  PROVE  Types'
<1> USE DEF Types, database, writers
<1> /\ outbox \in Seq(Events) /\ UNCHANGED outbox /\ HandTypes(work[w], outbox)
    /\ watermark \in 0..Len(outbox) /\ Len(outbox) \in Nat
  BY DEF ChangeTypes, WorkTypes
<1>1. DataTypes'
  <2>1. NoFault \/ Fault("db") \/ Fault("redis")
    BY DEF PollOutbox, GetOutboxWatermark, ListAfter, HandleOutboxEvent, HandleAccountEvent,
           SetOutboxWatermark, CheckOutboxLag
  <2>2. UNCHANGED gaps
    OBVIOUS
  <2> QED
    BY <2>1, <2>2, DataKept
<1>2. WorkTypes' /\ meta' \in [Accounts -> Revisions \cup {None}]
  <2> meta \in [Accounts -> Revisions \cup {None}]
    BY DEF CacheTypes
  <2>1. CASE GetOutboxWatermark(w)
    <3> DEFINE h == [work[w] EXCEPT !.pc = "list", !.mark = watermark]
    <3>1. work[w].batch = {} /\ ~work[w].seen
      BY <2>1 DEF GetOutboxWatermark, At, HandTypes
    <3>2. HandTypes(h, outbox)
      <4>1. /\ h.pc = "list" /\ h.mark = watermark /\ h.last = work[w].last /\ h.batch = {}
            /\ h \in Worker /\ h.seen = work[w].seen
        <5>1. work[w] \in Worker /\ watermark \in Nat
          BY DEF HandTypes
        <5> QED
          BY <3>1, <5>1 DEF Worker, PCs
      <4> HIDE DEF h
      <4> QED
        BY <3>1, <4>1 DEF HandTypes
    <3>3. work' = [work EXCEPT ![w] = h]
      BY <2>1 DEF GetOutboxWatermark, WorkTypes
    <3> HIDE DEF h
    <3> QED
      BY <2>1, <3>2, <3>3, WorkReplaced DEF GetOutboxWatermark
  <2>2. CASE ListAfter(w)
    <3> DEFINE mark == work[w].mark
               batch == {i \in After(mark) : Cardinality({j \in After(mark) : j < i}) < BatchLimit}
               h == [work[w] EXCEPT !.pc = "event", !.batch = batch, !.last = Max(batch)]
    <3>1. ASSUME batch # {} PROVE HandTypes(h, outbox)
      <4>1. /\ batch \in SUBSET Nat /\ \A i \in batch : i \in DOMAIN outbox /\ i > mark
            /\ Max(batch) \in batch
        <5> mark \in Nat /\ batch \in SUBSET After(mark)
          BY DEF HandTypes
        <5> HIDE DEF batch, mark
        <5> QED
          BY <3>1, BatchTypes
      <4> HIDE DEF batch
      <4>2. Max(batch) \in 0..Len(outbox)
        <5>1. Max(batch) \in DOMAIN outbox
          BY <4>1
        <5>2. DOMAIN outbox = 1..Len(outbox)
          OBVIOUS
        <5> QED
          BY <5>1, <5>2
      <4>3. /\ h.pc = "event" /\ h.mark = work[w].mark /\ h.last = Max(batch) /\ h.batch = batch
            /\ h \in Worker
        <5> DEFINE m == Max(batch)
        <5> m \in Nat
          BY <4>2
        <5> HIDE DEF m
        <5> QED
          BY <4>1 DEF HandTypes, Worker, PCs
      <4> HIDE DEF h
      <4> QED
        BY <4>1, <4>2, <4>3 DEF HandTypes
    <3> HIDE DEF h
    <3>2. \/ batch # {} /\ work' = [work EXCEPT ![w] = h]
          \/ work' = [work EXCEPT ![w] = Idle]
      BY <2>2 DEF ListAfter, WorkTypes, h
    <3>3. UNCHANGED watermark /\ UNCHANGED meta
      BY <2>2 DEF ListAfter
    <3> HIDE DEF batch
    <3>4. CASE batch # {} /\ work' = [work EXCEPT ![w] = h]
      BY <3>1, <3>3, <3>4, WorkReplaced
    <3>5. CASE work' = [work EXCEPT ![w] = Idle]
      BY <3>3, <3>5, IdleHand, WorkReplaced
    <3> QED
      BY <3>2, <3>3, <3>4, <3>5
  <2>3. CASE HandleOutboxEvent(w)
    <3> DEFINE e == outbox[Min(work[w].batch)]
    <3>1. UNCHANGED <<meta, watermark>> /\ At(w, {"event"})
      BY <2>3 DEF HandleOutboxEvent
    <3>2. CASE To(w, "mark") \/ To(w, "lock")
      BY <3>1, <3>2, WorkGoesOn DEF PCs
    <3>3. CASE Handled(w) \/ GiveUp(w)
      BY <3>1, <3>3, HandledTypes
    <3>4. ASSUME NEW pc \in {"account", "used"}, NEW row \in Revisions \cup {None},
                 work[w].batch # {}, e.kind = IF pc = "used" THEN "used" ELSE "changed",
                 work' = [work EXCEPT ![w].pc = pc, ![w].row = row]
          PROVE  WorkTypes'
      <4> DEFINE h == [work[w] EXCEPT !.pc = pc, !.row = row]
      <4>1. HandTypes(h, outbox)
        <5>1. h \in Worker /\ h.pc = pc /\ h.mark = work[w].mark /\ h.last = work[w].last
              /\ h.batch = work[w].batch
          BY DEF HandTypes, Worker, PCs
        <5> HIDE DEF h
        <5> QED
          BY <3>4, <5>1 DEF HandTypes
      <4>2. work' = [work EXCEPT ![w] = h]
        BY <3>4 DEF WorkTypes
      <4> HIDE DEF h
      <4> QED
        BY <3>1, <4>1, <4>2, WorkReplaced
    <3>5. ASSUME work[w].batch # {} PROVE e \in Events
      <4> Min(work[w].batch) \in DOMAIN outbox
        BY <3>5, FirstOfBatch
      <4> QED
        OBVIOUS
    <3>6. ASSUME work[w].batch # {}, e.kind # "full"
          PROVE  rows[e.account] \in Revisions /\ meta[e.account] \in Revisions \cup {None}
      BY <3>5, <3>6 DEF Events, DataTypes, Rows
    <3>7. \/ To(w, "mark") \/ To(w, "lock") \/ Handled(w) \/ GiveUp(w)
          \/ /\ work[w].batch # {} /\ e.kind = "changed"
             /\ work' = [work EXCEPT ![w].pc = "account", ![w].row = rows[e.account]]
          \/ /\ work[w].batch # {} /\ e.kind = "used"
             /\ work' = [work EXCEPT ![w].pc = "used", ![w].row = meta[e.account]]
      BY <2>3 DEF HandleOutboxEvent
    <3> HIDE DEF e
    <3>8. WorkTypes'
      BY <3>2, <3>3, <3>4, <3>6, <3>7
    <3> QED
      BY <3>1, <3>8
  <2>4. CASE HandleAccountEvent(w)
    <3> DEFINE a == outbox[Min(work[w].batch)].account
    <3>1. UNCHANGED watermark /\ At(w, {"account", "used"})
      BY <2>4 DEF HandleAccountEvent
    <3>2. work[w].row \in Revisions \cup {None}
      BY DEF HandTypes, Worker
    <3>3. meta' \in [Accounts -> Revisions \cup {None}]
      BY <2>4, <3>2 DEF HandleAccountEvent
    <3>4. CASE Handled(w) \/ GiveUp(w)
      BY <3>1, <3>3, <3>4, HandledTypes
    <3>5. CASE work' = [work EXCEPT ![w].pc = "lock", ![w].seen = TRUE]
      <4> DEFINE h == [work[w] EXCEPT !.pc = "lock", !.seen = TRUE]
      <4>1. HandTypes(h, outbox)
        BY DEF HandTypes, Worker, PCs
      <4>2. work' = [work EXCEPT ![w] = h]
        BY <3>5 DEF WorkTypes
      <4> HIDE DEF h
      <4> QED
        BY <3>1, <3>3, <4>1, <4>2, WorkReplaced
    <3> QED
      BY <2>4, <3>4, <3>5 DEF HandleAccountEvent
  <2>5. CASE SetOutboxWatermark(w)
    <3>1. watermark' \in 0..Len(outbox)
      BY <2>5 DEF SetOutboxWatermark, HandTypes
    <3> QED
      BY <2>5, <3>1, WorkGoesOn DEF SetOutboxWatermark, PCs
  <2>6. CASE CheckOutboxLag(w)
    <3>1. UNCHANGED <<meta, watermark>> /\ (GiveUp(w) \/ work' = [work EXCEPT ![w] = [Idle EXCEPT !.pc = "lock"]])
      BY <2>6 DEF CheckOutboxLag
    <3>2. HandTypes([Idle EXCEPT !.pc = "lock"], outbox)
      BY NoHand
    <3> QED
      BY <3>1, <3>2, HandledTypes, WorkReplaced
  <2> QED
    BY <2>1, <2>2, <2>3, <2>4, <2>5, <2>6 DEF PollOutbox
<1>3. CacheTypes'
  BY <1>2 DEF CacheTypes
<1> QED
  BY <1>1, <1>2, <1>3, ChangeKept

LEMMA TickTypes ==
  ASSUME Types, NEW w \in Workers, TriggerFullRebuild(w) \/ Fallback(w),
         UNCHANGED <<setup, database, writers, active, drawn, lock, gaps>>
  PROVE  Types'
<1> USE DEF Types, database, writers
<1> outbox \in Seq(Events) /\ watermark' \in 0..Len(outbox)
  BY DEF ChangeTypes, WorkTypes, TriggerFullRebuild, Fallback
<1>1. DataTypes'
  BY DataKept DEF TriggerFullRebuild, Fallback
<1>2. CacheTypes'
  BY DEF CacheTypes, TriggerFullRebuild, Fallback
<1>3. WorkTypes'
  BY WorkGoesOn DEF TriggerFullRebuild, Fallback, PCs
<1> QED
  BY <1>1, <1>2, <1>3, ChangeKept

LEMMA WorkerTypes ==
  ASSUME Types, NEW w \in Workers,
         \/ Work(w)
         \/ Fallback(w) /\ UNCHANGED <<setup, database, active, drawn, lock, writers, gaps>>
  PROVE  Types'
<1>1. CASE RebuildBucket(w) /\ UNCHANGED watermark /\ UNCHANGED <<setup, database, writers>>
  BY <1>1, TryLockTypes, UnlockTypes, LoadTypes, NewVersionTypes, StoreTypes, ActivateTypes
     DEF RebuildBucket
<1>2. CASE PollOutbox(w) /\ UNCHANGED <<setup, database, writers, active, drawn, lock, gaps>>
  BY <1>2, PollTypes
<1>3. CASE /\ TriggerFullRebuild(w) \/ Fallback(w)
           /\ UNCHANGED <<setup, database, writers, active, drawn, lock, gaps>>
  BY <1>3, TickTypes
<1> QED
  BY <1>1, <1>2, <1>3 DEF Work

\* Events are added and marked, none is taken away.
LEMMA WorkWhileOutboxGrows ==
  ASSUME WorkTypes, outbox \in Seq(Events), outbox' \in Seq(Events), UNCHANGED <<work, watermark>>,
         Len(outbox) <= Len(outbox'), \A i \in DOMAIN outbox : outbox'[i].kind = outbox[i].kind
  PROVE  WorkTypes'
<1>1. ASSUME NEW w \in Workers PROVE HandTypes(work[w], outbox')
  BY OutboxGrows DEF WorkTypes
<1>2. watermark \in 0..Len(outbox')
  <2> Len(outbox) \in Nat /\ Len(outbox') \in Nat
    OBVIOUS
  <2> QED
    BY DEF WorkTypes
<1> QED
  BY <1>1, <1>2 DEF WorkTypes

LEMMA ChangeReplaced ==
  ASSUME ChangeTypes, NEW c \in Writers, NEW x, outbox' \in Seq(Events), ChangeRecord(x, outbox'),
         change' = [change EXCEPT ![c] = x], UNCHANGED setup, Len(outbox) <= Len(outbox'),
         \A i \in DOMAIN outbox : outbox'[i].kind = outbox[i].kind
  PROVE  ChangeTypes'
<1>1. change \in [Writers -> Changing] /\ Changing' = Changing /\ x \in Changing
  BY DEF ChangeTypes, Changing, ChangeRecord
<1>2. DOMAIN outbox \subseteq DOMAIN outbox'
  <2> DOMAIN outbox = 1..Len(outbox) /\ DOMAIN outbox' = 1..Len(outbox')
      /\ Len(outbox) \in Nat /\ Len(outbox') \in Nat
    BY DEF ChangeTypes
  <2> QED
    OBVIOUS
<1>3. ASSUME NEW d \in Writers PROVE ChangeRecord(change'[d], outbox')
  <2>1. CASE d = c
    BY <1>1, <2>1
  <2>2. CASE d # c
    <3>1. change'[d] = change[d]
      BY <1>1, <2>2
    <3> QED
      BY <1>2, <3>1 DEF ChangeTypes, ChangeRecord
  <2> QED
    BY <2>1, <2>2
<1>4. ASSUME NEW d \in Writers PROVE ChangeRecord(change[d], outbox)'
  BY <1>1, <1>3 DEF ChangeRecord
<1> QED
  BY <1>1, <1>4 DEF ChangeTypes

LEMMA NoChangeRecord ==
  ASSUME NEW box
  PROVE  ChangeRecord(NoChange, box)
BY DEF ChangeRecord, Changing, NoChange

LEMMA EventTypes ==
  ASSUME DataTypes, ChangeTypes, NEW c \in Writers, change[c].pc = "enqueue"
  PROVE  Event(c) \in Events
<1>1. setup.dedup \in BOOLEAN /\ setup.late \in BOOLEAN
  BY SetupsAssumption DEF DataTypes
<1>2. change[c].op # "pause" => change[c].account \in Accounts
  BY DEF ChangeTypes, ChangeRecord
<1>3. change[c].account \in Accounts \cup {None}
  BY DEF ChangeTypes, Changing
<1> QED
  BY <1>1, <1>2, <1>3 DEF Event, Events

LEMMA EnqueuedTypes ==
  ASSUME ChangeTypes, NEW c \in Writers, change[c].pc # "idle",
         outbox' \in Seq(Events), Len(outbox) <= Len(outbox'),
         \A i \in DOMAIN outbox : outbox'[i].kind = outbox[i].kind,
         UNCHANGED setup, change' = Enqueued(c)
  PROVE  ChangeTypes'
<1> DEFINE next == [change[c] EXCEPT !.pc = "sync", !.id = 0]
<1>1. change' = [change EXCEPT ![c] = IF change[c].op = "toggle" /\ change[c].row % 2 = 1
                                      THEN next ELSE NoChange]
  BY DEF Enqueued, ChangeTypes
<1>2. CASE change[c].op = "toggle"
  <2>1. ChangeRecord(next, outbox')
    BY <1>2 DEF ChangeTypes, ChangeRecord, Changing
  <2>2. ChangeRecord(NoChange, outbox')
    BY NoChangeRecord
  <2> HIDE DEF next
  <2> QED
    BY <1>1, <2>1, <2>2, ChangeReplaced
<1>3. CASE change[c].op # "toggle"
  BY <1>1, <1>3, NoChangeRecord, ChangeReplaced
<1> QED
  BY <1>2, <1>3

LEMMA ForgetTypes ==
  ASSUME Types, NEW c \in Writers, Forget(c) \/ Sync(c)
  PROVE  Types'
<1> USE DEF Types
<1>0. /\ change[c].pc \in {"forget", "sync", "write"}
      /\ UNCHANGED <<setup, database, active, drawn, lock, watermark, work, changes, gaps>>
      /\ NoFault \/ Fault("redis")
  BY DEF Forget, Sync
<1>1. DataTypes'
  BY <1>0, DataKept DEF database
<1>2. change[c] \in Changing /\ change[c].account \in Accounts /\ change[c].op # "pause"
  BY <1>0 DEF ChangeTypes, ChangeRecord
<1>3. rows[change[c].account] \in Revisions
  BY <1>2 DEF DataTypes, Rows
<1>4. meta' \in [Accounts -> Revisions \cup {None}]
  <2> meta \in [Accounts -> Revisions \cup {None}] /\ change[c].row \in Revisions \cup {None}
    BY <1>2 DEF CacheTypes, Changing
  <2> QED
    BY <1>2 DEF Forget, Sync
<1>5. ChangeTypes'
  <2> /\ outbox' \in Seq(Events) /\ Len(outbox) <= Len(outbox')
      /\ \A i \in DOMAIN outbox : outbox'[i].kind = outbox[i].kind
    BY <1>0 DEF ChangeTypes, database
  <2> DEFINE forgotten == [change[c] EXCEPT !.pc = "enqueue"]
             synced == [change[c] EXCEPT !.pc = "write", !.row = rows[change[c].account]]
  <2>1. ChangeRecord(forgotten, outbox') /\ ChangeRecord(synced, outbox')
    BY <1>2, <1>3 DEF ChangeRecord, Changing
  <2>2. \/ change' = [change EXCEPT ![c] = forgotten] \/ change' = [change EXCEPT ![c] = synced]
        \/ change' = [change EXCEPT ![c] = NoChange]
    BY DEF Forget, Sync, ChangeTypes
  <2>3. ChangeRecord(NoChange, outbox')
    BY NoChangeRecord
  <2> HIDE DEF forgotten, synced
  <2> QED
    BY <1>0, <2>1, <2>2, <2>3, ChangeReplaced
<1>6. CacheTypes' /\ WorkTypes'
  BY <1>0, <1>4 DEF CacheTypes, WorkTypes, database
<1> QED
  BY <1>1, <1>5, <1>6

LEMMA EnqueueTypes ==
  ASSUME Types, NEW c \in Writers, Enqueue(c)
  PROVE  Types'
<1> USE DEF Types
<1>0. /\ change[c].pc = "enqueue" /\ UNCHANGED <<setup, rows, snapshot, work, changes>>
      /\ NoFault \/ Fault("db")
      /\ UNCHANGED gaps \/ gaps' = gaps \cup {"dedup"} \/ gaps' = gaps \cup {"enqueue"}
  BY DEF Enqueue
<1>1. DataTypes'
  BY <1>0, DataKept
<1>2. outbox' = outbox \/ outbox' = Append(outbox, Event(c))
  BY DEF Enqueue
<1>3. /\ outbox \in Seq(Events) /\ outbox' \in Seq(Events) /\ Len(outbox) <= Len(outbox')
      /\ \A i \in DOMAIN outbox : outbox'[i] = outbox[i]
  <2> outbox \in Seq(Events)
    BY DEF ChangeTypes
  <2>1. CASE outbox' = outbox
    BY <2>1
  <2>2. CASE outbox' = Append(outbox, Event(c))
    BY <1>0, <2>2, EventTypes
  <2> QED
    BY <1>2, <2>1, <2>2
<1>4. ChangeTypes'
  <2>1. CASE change' = Enqueued(c)
    BY <1>0, <1>3, <2>1, EnqueuedTypes
  <2>2. CASE /\ outbox' = Append(outbox, Event(c))
             /\ change' = [change EXCEPT ![c].pc = "commit", ![c].id = Len(outbox) + 1]
    <3> DEFINE x == [change[c] EXCEPT !.pc = "commit", !.id = Len(outbox) + 1]
    <3>1. change' = [change EXCEPT ![c] = x]
      BY <2>2 DEF ChangeTypes
    <3>2. change[c] \in Changing /\ (change[c].op # "pause" => change[c].account \in Accounts)
      BY <1>0 DEF ChangeTypes, ChangeRecord
    <3>3. /\ Len(outbox) + 1 \in DOMAIN outbox' /\ Len(outbox) + 1 \in Nat
          /\ outbox'[Len(outbox) + 1] = Event(c)
      BY <1>3, <2>2
    <3>4. change[c].op # "touch" => Event(c).kind # "used"
      BY DEF Event
    <3>5. x \in Changing /\ x.pc = "commit" /\ x.op = change[c].op /\ x.account = change[c].account
          /\ x.id = Len(outbox) + 1
      BY <3>2, <3>3 DEF Changing
    <3>6. ChangeRecord(x, outbox')
      <4> HIDE DEF x
      <4> QED
        BY <3>2, <3>3, <3>4, <3>5 DEF ChangeRecord
    <3> HIDE DEF x
    <3> QED
      BY <1>0, <1>3, <3>1, <3>6, ChangeReplaced
  <2> QED
    BY <2>1, <2>2 DEF Enqueue
<1>5. CacheTypes' /\ WorkTypes'
  BY <1>0, <1>3, WorkWhileOutboxGrows DEF CacheTypes, snapshot
<1> QED
  BY <1>1, <1>4, <1>5

\* A flag of an event is set or reset.
LEMMA EventMarked ==
  ASSUME outbox \in Seq(Events), NEW i \in DOMAIN outbox,
         \/ outbox' = [outbox EXCEPT ![i].visible = TRUE]
         \/ outbox' = [outbox EXCEPT ![i].recent = FALSE]
  PROVE  /\ outbox' \in Seq(Events) /\ Len(outbox) <= Len(outbox') /\ DOMAIN outbox' = DOMAIN outbox
         /\ \A j \in DOMAIN outbox : /\ outbox'[j].kind = outbox[j].kind
                                     /\ outbox'[j].account = outbox[j].account
                                     /\ outbox[j].visible => outbox'[j].visible
<1> DEFINE visible == [outbox[i] EXCEPT !.visible = TRUE]
           older == [outbox[i] EXCEPT !.recent = FALSE]
<1>1. /\ outbox[i] \in Events
      /\ visible \in Events /\ visible.kind = outbox[i].kind /\ visible.account = outbox[i].account
      /\ visible.visible
      /\ older \in Events /\ older.kind = outbox[i].kind /\ older.account = outbox[i].account
      /\ older.visible = outbox[i].visible
  <2>1. outbox[i] \in Events
    OBVIOUS
  <2>2. \A e \in Events :
          /\ [e EXCEPT !.visible = TRUE] \in Events /\ [e EXCEPT !.visible = TRUE].kind = e.kind
          /\ [e EXCEPT !.visible = TRUE].account = e.account /\ [e EXCEPT !.visible = TRUE].visible
          /\ [e EXCEPT !.recent = FALSE] \in Events /\ [e EXCEPT !.recent = FALSE].kind = e.kind
          /\ [e EXCEPT !.recent = FALSE].account = e.account
          /\ [e EXCEPT !.recent = FALSE].visible = e.visible
    BY DEF Events
  <2> QED
    BY <2>1, <2>2
<1>2. outbox' = [outbox EXCEPT ![i] = visible] \/ outbox' = [outbox EXCEPT ![i] = older]
  OBVIOUS
<1> HIDE DEF visible, older
<1>3. PICK e \in {visible, older} : outbox' = [outbox EXCEPT ![i] = e]
  BY <1>2
<1>4. /\ outbox' \in Seq(Events) /\ Len(outbox) <= Len(outbox') /\ DOMAIN outbox' = DOMAIN outbox
      /\ \A j \in DOMAIN outbox : outbox'[j] = IF j = i THEN e ELSE outbox[j]
  BY <1>1, <1>3
<1> QED
  BY <1>1, <1>3, <1>4

LEMMA CommitTypes ==
  ASSUME Types, NEW c \in Writers, Commit(c)
  PROVE  Types'
<1> USE DEF Types
<1>0. /\ change[c].pc = "commit" /\ UNCHANGED <<setup, rows, snapshot, work, changes, budget>>
      /\ UNCHANGED gaps \/ gaps' = gaps \cup {"late"}
      /\ outbox' = [outbox EXCEPT ![change[c].id].visible = TRUE]
      /\ change' = Enqueued(c)
  BY DEF Commit
<1>1. DataTypes'
  BY <1>0, DataKept DEF NoFault
<1>2. outbox \in Seq(Events) /\ change[c].id \in DOMAIN outbox
  BY <1>0 DEF ChangeTypes, ChangeRecord
<1> DEFINE i == change[c].id
<1> HIDE DEF i
<1>3. /\ outbox' \in Seq(Events) /\ Len(outbox) <= Len(outbox')
      /\ \A j \in DOMAIN outbox : outbox'[j].kind = outbox[j].kind
  <2>1. i \in DOMAIN outbox /\ outbox' = [outbox EXCEPT ![i].visible = TRUE]
    BY <1>0, <1>2 DEF i
  <2> QED
    BY <1>2, <2>1, EventMarked
<1>4. ChangeTypes'
  BY <1>0, <1>3, EnqueuedTypes
<1>5. CacheTypes' /\ WorkTypes'
  BY <1>0, <1>2, <1>3, WorkWhileOutboxGrows DEF CacheTypes, snapshot
<1> QED
  BY <1>1, <1>4, <1>5

LEMMA AgeTypes ==
  ASSUME Types, Age
  PROVE  Types'
<1> USE DEF Types
<1>0. PICK i \in DOMAIN outbox : /\ outbox' = [outbox EXCEPT ![i].recent = FALSE]
                                 /\ UNCHANGED <<setup, rows, snapshot, work, writers, budget, gaps>>
  BY DEF Age
<1>1. DataTypes'
  BY <1>0, DataKept DEF NoFault, writers
<1>2. outbox \in Seq(Events)
  BY DEF ChangeTypes
<1>3. /\ outbox' \in Seq(Events) /\ Len(outbox) <= Len(outbox') /\ DOMAIN outbox' = DOMAIN outbox
      /\ \A j \in DOMAIN outbox : outbox'[j].kind = outbox[j].kind
  BY <1>0, <1>2, EventMarked
<1>4. ChangeTypes'
  BY <1>0, <1>3 DEF ChangeTypes, ChangeRecord, Changing, writers
<1>5. CacheTypes' /\ WorkTypes'
  BY <1>0, <1>2, <1>3, WorkWhileOutboxGrows DEF CacheTypes, snapshot
<1> QED
  BY <1>1, <1>4, <1>5

\* No revision of a deleted account is even.
LEMMA GoneIsOdd == Gone \in Nat /\ MaxChanges < Gone /\ Gone % 2 = 1
<1>1. MaxChanges \in Nat
  BY SchedulerConstants
<1>2. \A m \in Nat : 2 * m + 1 \in Nat /\ m < 2 * m + 1 /\ (2 * m + 1) % 2 = 1
  OBVIOUS
<1> QED
  BY <1>1, <1>2 DEF Gone

\* A change counts one revision up, or deletes; what was deleted stays so.
LEMMA ChangedRows ==
  ASSUME DataTypes, NEW a \in Accounts, NEW op, changes < setup.changes, rows[a] # Gone
  PROVE  /\ Changed(a, op) \in Rows
         /\ \A b \in Accounts : /\ Changed(a, op)[b] <= changes + 1 \/ Changed(a, op)[b] = Gone
                                /\ rows[b] <= Changed(a, op)[b]
<1>1. /\ setup.changes \in 0..MaxChanges /\ changes \in 0..setup.changes /\ MaxChanges \in Nat
  BY SetupsAssumption, SchedulerConstants DEF DataTypes
<1>2. changes \in Nat /\ changes + 1 <= MaxChanges /\ Gone \in Nat /\ MaxChanges < Gone
  BY <1>1, GoneIsOdd
<1>3. ASSUME NEW b \in Accounts
      PROVE  LET r == Changed(a, op)[b]
             IN  r \in Revisions /\ (r <= changes + 1 \/ r = Gone) /\ rows[b] <= r
  <2>1. rows[b] \in Revisions /\ (rows[b] <= changes \/ rows[b] = Gone)
    BY DEF DataTypes, Rows
  <2>2. rows[b] \in Nat /\ rows[b] <= Gone
    BY <1>2, <2>1 DEF Revisions
  <2>3. b \in On(rows) => rows[b] # Gone
    BY GoneIsOdd DEF On
  <2>4. Changed(a, op)[b] \in {rows[b], Gone} \/ (rows[b] # Gone /\ Changed(a, op)[b] = rows[b] + 1)
    BY <2>3 DEF Changed
  <2> QED
    BY <1>2, <2>1, <2>2, <2>4 DEF Revisions
<1>4. Changed(a, op) \in Rows
  BY <1>3 DEF Changed, Rows
<1> QED
  BY <1>3, <1>4

LEMMA ChangeStepTypes ==
  ASSUME Types, NEW c \in setup.writers, NEW a \in setup.accounts, NEW op \in setup.ops, Change(c, a, op)
  PROVE  Types'
<1> USE DEF Types
<1>0. /\ change[c].pc = "idle" /\ changes < setup.changes /\ rows[a] # Gone
      /\ rows' = Changed(a, op) /\ changes' = changes + 1
      /\ UNCHANGED <<setup, outbox, snapshot, work, budget, gaps>>
  BY DEF Change
<1>1. c \in Writers /\ a \in Accounts
  BY SetupsAssumption DEF DataTypes
<1>2. /\ rows' \in Rows /\ \A b \in Accounts : rows'[b] <= changes' \/ rows'[b] = Gone
  BY <1>0, <1>1, ChangedRows
<1>3. DataTypes'
  <2>1. changes' \in 0..setup.changes
    <3> setup.changes \in Nat /\ changes \in Nat
      BY SetupsAssumption, SchedulerConstants DEF DataTypes
    <3> QED
      BY <1>0
  <2> QED
    BY <1>0, <1>2, <2>1 DEF DataTypes
<1>4. ChangeTypes'
  <2> DEFINE row == IF op = "toggle" THEN rows'[a] ELSE None
             pc == IF op = "delete" THEN "forget" ELSE "enqueue"
             account == IF op = "pause" THEN None ELSE a
             x == [NoChange EXCEPT !.pc = pc, !.op = op, !.account = account, !.row = row]
  <2>1. change' = [change EXCEPT ![c] = x]
    BY DEF Change
  <2>2. row \in Revisions \cup {None}
    BY <1>1, <1>2 DEF Rows
  <2>3. ChangeRecord(x, outbox)
    <3>1. /\ pc \in {"forget", "enqueue"} /\ (pc = "forget" => op # "pause")
          /\ account \in Accounts \cup {None} /\ (op # "pause" => account \in Accounts)
      BY <1>1
    <3> HIDE DEF row, pc, account
    <3>2. NoChange \in Changing
      BY NoChangeRecord DEF ChangeRecord
    <3>3. x \in Changing /\ x.pc = pc /\ x.op = op /\ x.account = account
      BY <2>2, <3>1, <3>2 DEF Changing
    <3> HIDE DEF x
    <3> QED
      BY <3>1, <3>3 DEF ChangeRecord
  <2>4. outbox' \in Seq(Events) /\ Len(outbox) <= Len(outbox') /\ ChangeRecord(x, outbox')
    BY <1>0, <2>3 DEF ChangeTypes
  <2> HIDE DEF x
  <2> QED
    BY <1>0, <1>1, <2>1, <2>4, ChangeReplaced
<1>5. CacheTypes' /\ WorkTypes'
  BY <1>0 DEF CacheTypes, WorkTypes, snapshot
<1> QED
  BY <1>3, <1>4, <1>5

LEMMA LockExpiresTypes ==
  ASSUME Types, LockExpires
  PROVE  Types'
<1> USE DEF Types
<1>0. /\ UNCHANGED <<setup, rows, outbox, active, drawn, meta, watermark, work, change, changes>>
      /\ lock' = FALSE /\ (NoFault \/ Fault("slow"))
      /\ UNCHANGED gaps \/ gaps' = gaps \cup {"expired"}
  BY DEF LockExpires
<1>1. DataTypes'
  BY <1>0, DataKept
<1> QED
  BY <1>0, <1>1, ChangeKept DEF CacheTypes, WorkTypes

LEMMA StartedTypes ==
  ASSUME NEW box \in Seq(Events), NEW w \in Workers
  PROVE  HandTypes(Started(w), box)
BY NoHand, IdleHand DEF Started

LEMMA CrashTypes ==
  ASSUME Types, Crash
  PROVE  Types'
<1> USE DEF Types
<1>0. /\ UNCHANGED <<setup, database, active, meta, lock, watermark, changes>>
      /\ work' = [w \in Workers |-> Started(w)] /\ drawn' = <<>>
      /\ change' = [c \in Writers |-> NoChange] /\ Fault("crash")
      /\ UNCHANGED gaps \/ gaps' = gaps \cup {"enqueue"}
  BY DEF Crash
<1>1. DataTypes'
  BY <1>0, DataKept DEF database
<1>2. CacheTypes'
  BY <1>0 DEF CacheTypes
<1>3. ChangeTypes'
  <2>1. ASSUME NEW c \in Writers PROVE ChangeRecord(NoChange, outbox)'
    BY DEF ChangeRecord, Changing, NoChange
  <2>2. NoChange \in Changing'
    BY DEF Changing, NoChange
  <2> QED
    BY <1>0, <2>1, <2>2 DEF ChangeTypes, database, ChangeRecord, Changing
<1>4. WorkTypes'
  <2>1. ASSUME NEW w \in Workers PROVE HandTypes(Started(w), outbox)
    BY StartedTypes DEF ChangeTypes
  <2>2. \A w \in Workers : Started(w) \in Worker
    BY <2>1 DEF HandTypes
  <2> QED
    BY <1>0, <2>1, <2>2 DEF WorkTypes, database
<1> QED
  BY <1>1, <1>2, <1>3, <1>4

LEMMA InitTypes == Init => Types
<1> SUFFICES ASSUME Init PROVE Types
  OBVIOUS
<1>1. DataTypes
  <2>1. setup.changes \in Nat /\ setup.budget \in Nat /\ setup \in Setups
    BY SetupsAssumption, SchedulerConstants DEF Init
  <2>2. 0 \in Revisions
    BY GoneIsOdd DEF Revisions
  <2> QED
    BY <2>1, <2>2 DEF Init, DataTypes, Rows
<1>2. CacheTypes
  <2>1. drawn \in Seq(Workers)
    BY DEF Init
  <2>2. meta \in [Accounts -> Revisions \cup {None}] /\ lock \in BOOLEAN /\ active \in Rows \cup {None}
    BY DEF Init
  <2> QED
    BY <2>1, <2>2 DEF CacheTypes
<1>3. ChangeTypes
  BY DEF Init, ChangeTypes, ChangeRecord, Changing, NoChange
<1>4. WorkTypes
  <2>1. outbox = <<>> /\ <<>> \in Seq(Events) /\ Len(<<>>) = 0
    BY DEF Init
  <2>2. \A w \in Workers : HandTypes(Started(w), <<>>)
    BY <2>1, StartedTypes
  <2>3. \A w \in Workers : Started(w) \in Worker
    BY <2>2 DEF HandTypes
  <2> QED
    BY <2>1, <2>2, <2>3 DEF Init, WorkTypes
<1> QED
  BY <1>1, <1>2, <1>3, <1>4 DEF Types

LEMMA TypesStep == Types /\ [Next]_vars => Types'
<1> SUFFICES ASSUME Types, [Next]_vars PROVE Types'
  OBVIOUS
<1>1. ASSUME NEW w \in Workers, Work(w) PROVE Types'
  BY <1>1, WorkerTypes
<1>2. ASSUME NEW w \in Workers,
             Fallback(w) /\ UNCHANGED <<setup, database, active, drawn, lock, writers, gaps>>
      PROVE  Types'
  BY <1>2, WorkerTypes
<1>3. ASSUME NEW c \in Writers, Write(c) PROVE Types'
  BY <1>3, ForgetTypes, EnqueueTypes, CommitTypes DEF Write
<1>4. ASSUME NEW c \in setup.writers, NEW a \in setup.accounts, NEW op \in setup.ops, Change(c, a, op)
      PROVE  Types'
  BY <1>4, ChangeStepTypes
<1>5. CASE LockExpires
  BY <1>5, LockExpiresTypes
<1>6. CASE Age
  BY <1>6, AgeTypes
<1>7. CASE Crash
  BY <1>7, CrashTypes
<1>8. CASE UNCHANGED vars
  BY <1>8 DEF vars, Types, DataTypes, CacheTypes, ChangeTypes, ChangeRecord, Changing, WorkTypes
<1> QED
  BY <1>1, <1>2, <1>3, <1>4, <1>5, <1>6, <1>7, <1>8 DEF Next

\* The types, and what the records of a poll and of a change always are.
THEOREM TypesInvariant == Spec => []Types
BY InitTypes, TypesStep, PTL DEF Spec

\* A poll never lists what its watermark covers, and every record has its shape.
THEOREM TypeCorrect == Spec => []TypeOK
<1>1. Types => TypeOK
  <2> SUFFICES ASSUME Types PROVE TypeOK
    OBVIOUS
  <2>1. changes \in 0..MaxChanges
    <3> setup.changes \in 0..MaxChanges /\ changes \in 0..setup.changes /\ MaxChanges \in Nat
      BY SetupsAssumption, SchedulerConstants DEF Types, DataTypes
    <3> QED
      OBVIOUS
  <2>2. ToSet(drawn) \subseteq Workers
    BY DEF Types, CacheTypes, ToSet
  <2>3. \A w \in Workers : /\ work[w] \in Worker
                           /\ \A i \in work[w].batch : i \in DOMAIN outbox /\ i > work[w].mark
    BY DEF Types, WorkTypes, HandTypes
  <2> QED
    BY <2>1, <2>2, <2>3 DEF Types, DataTypes, CacheTypes, WorkTypes, Rows, TypeOK
<1> QED
  BY <1>1, TypesInvariant, PTL

-----------------------------------------------------------------------------
(* Rebuilds follow one another *)

LEMMA RowsAreNumbers ==
  ASSUME NEW r \in Rows, NEW a \in Accounts
  PROVE  r[a] \in Nat
BY GoneIsOdd DEF Rows, Revisions

\* After a rebuild a worker rests, or a poll goes on to the rest of its batch.
LEMMA RebuiltPlace ==
  ASSUME NEW w \in Workers, work[w] \in Worker, NEW ok \in BOOLEAN
  PROVE  LET h == Rebuilt(w, ok)
         IN  \/ h.pc \in {"stopped", "idle"} /\ h.batch = {}
             \/ /\ ok /\ work[w].batch # {} /\ h.pc = "event"
                /\ h.batch = work[w].batch \ {Min(work[w].batch)}
                /\ h.last = work[w].last /\ h.seen = work[w].seen
<1>1. /\ Idle.pc = "idle" /\ [Idle EXCEPT !.pc = "stopped"].pc = "stopped"
      /\ Idle.batch = {} /\ [Idle EXCEPT !.pc = "stopped"].batch = {}
  BY DEF Idle
<1> DEFINE m == Min(work[w].batch)
           next == [work[w] EXCEPT !.pc = "event", !.batch = work[w].batch \ {m}, !.row = None, !.load = None]
<1>2. \/ Rebuilt(w, ok) \in {[Idle EXCEPT !.pc = "stopped"], Idle}
      \/ ok /\ work[w].batch # {} /\ Rebuilt(w, ok) = next
  BY DEF Rebuilt
<1>3. next.pc = "event" /\ next.batch = work[w].batch \ {m} /\ next.last = work[w].last
      /\ next.seen = work[w].seen
  <2> HIDE DEF m
  <2> QED
    BY DEF Worker
<1> HIDE DEF next
<1> QED
  BY <1>1, <1>2, <1>3

\* Where nobody comes to read or to write, and the rows only grow, the order is kept.
LEMMA OrderKept ==
  ASSUME Types, Types', Order, UNCHANGED active,
         \A a \in Accounts : rows[a] <= rows'[a],
         \A w \in Workers : \/ work'[w] = work[w]
                            \/ work'[w].pc \notin Locked
                            \/ work'[w].pc = "unlock" /\ work[w].pc \in Locked,
         lock' = lock \/ lock' \/ \A w \in Workers : work'[w].pc \notin Locked,
         drawn' = drawn \/ \A w \in Workers : work'[w].pc \notin {"store", "activate"}
  PROVE  Order'
<1>1. \A w \in Workers : At(w, Locked)' => At(w, Locked)
  BY DEF At, Locked
<1>2. \A w \in Workers : At(w, {"incr", "store", "activate"})' => work'[w] = work[w]
  BY DEF At, Locked
<1>3. \A w \in Workers : At(w, Locked)' => lock'
  BY <1>1 DEF At, Order
<1>4. \A w, v \in Workers : At(w, Locked)' /\ At(v, Locked)' => w = v
  BY <1>1 DEF Order
<1>5. \A w \in Workers : At(w, {"store", "activate"})' => w \in ToSet(drawn)'
  BY <1>2 DEF At, Order
<1>6. rows \in Rows /\ rows' \in Rows /\ (active # None => active \in Rows)
      /\ \A w \in Workers : Loaded(w) => work[w].load \in Rows
  BY DEF Types, DataTypes, CacheTypes, WorkTypes, HandTypes, Loaded, At
<1>7. ASSUME NEW r \in Rows, \A a \in Accounts : r[a] <= rows[a]
      PROVE  \A a \in Accounts : r[a] <= rows'[a]
  <2> SUFFICES ASSUME NEW a \in Accounts PROVE r[a] <= rows'[a]
    OBVIOUS
  <2>1. r[a] \in Nat /\ rows[a] \in Nat /\ rows'[a] \in Nat
    BY <1>6, RowsAreNumbers
  <2>2. r[a] <= rows[a] /\ rows[a] <= rows'[a]
    BY <1>7
  <2> QED
    BY <2>1, <2>2
<1>8. active' # None => \A a \in Accounts : active'[a] <= rows'[a]
  BY <1>6, <1>7 DEF Order
<1>9. ASSUME NEW w \in Workers, Loaded(w)'
      PROVE  /\ \A a \in Accounts : work'[w].load[a] <= rows'[a]
             /\ active' # None => \A a \in Accounts : active'[a] <= work'[w].load[a]
  <2>1. Loaded(w) /\ work'[w] = work[w]
    BY <1>2, <1>9 DEF Loaded, At
  <2> QED
    BY <1>6, <1>7, <2>1 DEF Order
<1> QED
  BY <1>3, <1>4, <1>5, <1>8, <1>9 DEF Order

\* The one that rebuilds goes on alone.
LEMMA OneRebuilds ==
  ASSUME NEW w \in Workers, lock',
         \A v \in Workers : v # w => work'[v] = work[v] /\ work[v].pc \notin Locked,
         At(w, {"store", "activate"})' => w \in ToSet(drawn)',
         active' # None => \A a \in Accounts : active'[a] <= rows'[a],
         Loaded(w)' => /\ \A a \in Accounts : work'[w].load[a] <= rows'[a]
                       /\ active' # None => \A a \in Accounts : active'[a] <= work'[w].load[a]
  PROVE  Order'
<1>1. ASSUME NEW v \in Workers, v # w
      PROVE  ~At(v, Locked)' /\ ~At(v, {"store", "activate"})' /\ ~Loaded(v)'
  <2>1. work'[v].pc \notin Locked
    BY <1>1
  <2> QED
    BY <2>1 DEF At, Loaded, Locked
<1> QED
  BY <1>1 DEF Order

LEMMA Alone ==
  ASSUME Order, NEW w \in Workers, At(w, Locked)
  PROVE  lock /\ \A v \in Workers : v # w => work[v].pc \notin Locked
BY DEF Order, At

\* Without requests, who has finished gives its lock back.
LEMMA FinishedUnlocks ==
  ASSUME NoRequests, NEW w \in Workers, work \in [Workers -> Worker], NEW ok \in BOOLEAN, Finish(w, ok)
  PROVE  /\ \A v \in Workers : v # w => work'[v] = work[v]
         /\ work'[w].pc = "unlock" /\ work'[w].ok = ok /\ work'[w].batch = work[w].batch
         /\ work'[w].last = work[w].last /\ work'[w].seen = work[w].seen
<1>1. setup.role[w] # "request"
  BY DEF NoRequests, Requests
<1> DEFINE h == [work[w] EXCEPT !.pc = "unlock", !.load = None, !.ok = ok]
<1>2. work' = [work EXCEPT ![w] = h]
  BY <1>1 DEF Finish
<1>3. /\ h.pc = "unlock" /\ h.ok = ok /\ h.batch = work[w].batch
      /\ h.last = work[w].last /\ h.seen = work[w].seen
  BY DEF Worker
<1> HIDE DEF h
<1> QED
  BY <1>2, <1>3

LEMMA RowsStay ==
  ASSUME Types, UNCHANGED rows
  PROVE  \A a \in Accounts : rows[a] <= rows'[a]
BY RowsAreNumbers DEF Types, DataTypes

LEMMA TryLockOrder ==
  ASSUME Types, Types', Order, NoRequests, NEW w \in Workers, TryLockBucket(w), UNCHANGED <<setup, database>>
  PROVE  Order'
<1> UNCHANGED rows /\ work \in [Workers -> Worker] /\ At(w, {"lock"}) /\ UNCHANGED <<active, drawn>>
  BY DEF database, Types, WorkTypes, TryLockBucket
<1>1. CASE ~lock /\ lock' = TRUE /\ To(w, "load")
  <2>1. \A v \in Workers : v # w => work'[v] = work[v]
    BY <1>1 DEF To
  <2>2. \A v \in Workers : work[v].pc \notin Locked
    BY <1>1 DEF Order, At
  <2>3. work'[w].pc = "load"
    BY <1>1 DEF To, Worker
  <2>4. active' # None => \A a \in Accounts : active'[a] <= rows'[a]
    BY DEF Order
  <2> QED
    BY <1>1, <2>1, <2>2, <2>3, <2>4, OneRebuilds DEF At, Loaded
<1>2. ASSUME NEW ok \in BOOLEAN, work' = [work EXCEPT ![w] = Rebuilt(w, ok)], lock' = lock \/ lock'
      PROVE  Order'
  <2>1. \A v \in Workers : v # w => work'[v] = work[v]
    BY <1>2
  <2>2. work'[w].pc \notin Locked
    <3>1. work'[w] = Rebuilt(w, ok) /\ work[w] \in Worker
      BY <1>2
    <3> QED
      BY <3>1, RebuiltPlace DEF Locked
  <2> QED
    BY <1>2, <2>1, <2>2, RowsStay, OrderKept
<1> QED
  BY <1>1, <1>2 DEF TryLockBucket

LEMMA UnlockOrder ==
  ASSUME Types, Types', Order, NoRequests, NEW w \in Workers, UnlockBucket(w), UNCHANGED <<setup, database>>
  PROVE  Order'
<1> /\ UNCHANGED rows /\ work \in [Workers -> Worker] /\ At(w, {"unlock"}) /\ UNCHANGED <<active, drawn>>
    /\ work' = [work EXCEPT ![w] = Rebuilt(w, work[w].ok)] /\ work[w] \in Worker
  BY DEF database, Types, WorkTypes, UnlockBucket
<1>1. \A v \in Workers : v # w => work'[v] = work[v] /\ work[v].pc \notin Locked
  BY Alone DEF At, Locked
<1>2. work'[w].pc \notin Locked
  <2>1. work'[w] = Rebuilt(w, work[w].ok) /\ work[w].ok \in BOOLEAN
    BY DEF Worker
  <2> QED
    BY <2>1, RebuiltPlace DEF Locked
<1>3. \A v \in Workers : work'[v].pc \notin Locked
  BY <1>1, <1>2
<1> QED
  BY <1>1, <1>2, <1>3, RowsStay, OrderKept

LEMMA LoadOrder ==
  ASSUME Types, Types', Order, NoRequests, NEW w \in Workers, LoadAccounts(w), UNCHANGED <<setup, database>>
  PROVE  Order'
<1> /\ UNCHANGED rows /\ work \in [Workers -> Worker] /\ At(w, {"load"})
    /\ UNCHANGED <<active, drawn, lock>> /\ rows \in Rows
  BY DEF database, Types, WorkTypes, LoadAccounts, DataTypes
<1>1. lock /\ \A v \in Workers : v # w => work[v].pc \notin Locked
  BY Alone DEF At, Locked
<1>2. active' # None => \A a \in Accounts : active'[a] <= rows'[a]
  BY DEF Order
<1>3. CASE work' = [work EXCEPT ![w].load = rows, ![w].pc = "incr"]
  <2>1. work'[w].pc = "incr" /\ work'[w].load = rows
    BY <1>3 DEF Worker
  <2>2. \A v \in Workers : v # w => work'[v] = work[v]
    BY <1>3
  <2>3. \A a \in Accounts : work'[w].load[a] <= rows'[a]
    BY <2>1, RowsAreNumbers
  <2> QED
    BY <1>1, <1>2, <2>1, <2>2, <2>3, OneRebuilds DEF At
<1>4. CASE Finish(w, FALSE)
  BY <1>1, <1>2, <1>4, FinishedUnlocks, OneRebuilds DEF At, Loaded
<1> QED
  BY <1>3, <1>4 DEF LoadAccounts

LEMMA NewVersionOrder ==
  ASSUME Types, Types', Order, NoRequests, NEW w \in Workers, NewVersion(w), UNCHANGED <<setup, database>>
  PROVE  Order'
<1> /\ UNCHANGED rows /\ work \in [Workers -> Worker] /\ At(w, {"incr"})
    /\ UNCHANGED <<active, lock>>
  BY DEF database, Types, WorkTypes, NewVersion
<1>1. lock /\ \A v \in Workers : v # w => work[v].pc \notin Locked
  BY Alone DEF At, Locked
<1>2. active' # None => \A a \in Accounts : active'[a] <= rows'[a]
  BY DEF Order
<1>3. CASE drawn' = Append(drawn, w) /\ To(w, "store")
  <2>1. work'[w].pc = "store" /\ work'[w].load = work[w].load
    BY <1>3 DEF To, Worker
  <2>2. \A v \in Workers : v # w => work'[v] = work[v]
    BY <1>3 DEF To
  <2>3. w \in ToSet(drawn)'
    <3>1. drawn \in Seq(Workers)
      BY DEF Types, CacheTypes
    <3>2. drawn'[Len(drawn) + 1] = w /\ Len(drawn) + 1 \in DOMAIN drawn'
      BY <1>3, <3>1
    <3> QED
      BY <3>2 DEF ToSet
  <2>4. Loaded(w)
    BY DEF Loaded, At
  <2> QED
    BY <1>1, <1>2, <2>1, <2>2, <2>3, <2>4, OneRebuilds DEF Order
<1>4. CASE Finish(w, FALSE)
  BY <1>1, <1>2, <1>4, FinishedUnlocks, OneRebuilds DEF At, Loaded
<1> QED
  BY <1>3, <1>4 DEF NewVersion

LEMMA StoreOrder ==
  ASSUME Types, Types', Order, NoRequests, NEW w \in Workers, Store(w), UNCHANGED <<setup, database>>
  PROVE  Order'
<1> /\ UNCHANGED rows /\ work \in [Workers -> Worker] /\ At(w, {"store"})
    /\ UNCHANGED <<active, lock>>
  BY DEF database, Types, WorkTypes, Store
<1>1. lock /\ \A v \in Workers : v # w => work[v].pc \notin Locked
  BY Alone DEF At, Locked
<1>2. active' # None => \A a \in Accounts : active'[a] <= rows'[a]
  BY DEF Order
<1>3. CASE UNCHANGED drawn /\ To(w, "activate")
  <2>1. work'[w].pc = "activate" /\ work'[w].load = work[w].load
    BY <1>3 DEF To, Worker
  <2>2. \A v \in Workers : v # w => work'[v] = work[v]
    BY <1>3 DEF To
  <2>3. w \in ToSet(drawn)'
    BY <1>3 DEF Order, At
  <2>4. Loaded(w)
    BY DEF Loaded, At
  <2> QED
    BY <1>1, <1>2, <2>1, <2>2, <2>3, <2>4, OneRebuilds DEF Order
<1>4. CASE Finish(w, FALSE)
  BY <1>1, <1>2, <1>4, FinishedUnlocks, OneRebuilds DEF At, Loaded
<1> QED
  BY <1>3, <1>4 DEF Store

\* What a rebuild activates is not older than what it replaces.
LEMMA ActivateOrder ==
  ASSUME Types, Types', Order, NoRequests, NEW w \in Workers, Activate(w), UNCHANGED <<setup, database>>
  PROVE  /\ Order'
         /\ active' = work[w].load
         /\ active # None => \A a \in Accounts : active'[a] >= active[a]
<1> /\ UNCHANGED rows /\ work \in [Workers -> Worker] /\ At(w, {"activate"})
    /\ UNCHANGED lock
  BY DEF database, Types, WorkTypes, Activate
<1>1. lock /\ \A v \in Workers : v # w => work[v].pc \notin Locked
  BY Alone DEF At, Locked
<1>2. w \in ToSet(drawn) /\ Loaded(w)
  BY DEF Order, Loaded, At
<1>3. active' = work[w].load
  BY <1>2 DEF Activate
<1>4. \A a \in Accounts : active'[a] <= rows'[a]
  BY <1>2, <1>3 DEF Order
<1>5. PICK ok \in BOOLEAN : Finish(w, ok)
  BY DEF Activate
<1>6. Order'
  BY <1>1, <1>4, <1>5, FinishedUnlocks, OneRebuilds DEF At, Loaded
<1>7. active # None => \A a \in Accounts : active'[a] >= active[a]
  <2> SUFFICES ASSUME active # None, NEW a \in Accounts PROVE active'[a] >= active[a]
    OBVIOUS
  <2>1. active[a] \in Nat /\ work[w].load[a] \in Nat
    BY <1>2, RowsAreNumbers DEF Types, CacheTypes, WorkTypes, HandTypes, Loaded, At
  <2>2. active[a] <= work[w].load[a]
    BY <1>2 DEF Order
  <2> QED
    BY <1>3, <2>1, <2>2
<1> QED
  BY <1>3, <1>6, <1>7

\* A poll or a tick never is in the middle of a rebuild.
LEMMA PollOrder ==
  ASSUME Types, Types', Order, NEW w \in Workers,
         PollOutbox(w) \/ TriggerFullRebuild(w),
         UNCHANGED <<setup, database, writers, active, drawn, lock, gaps>>
  PROVE  Order'
<1> UNCHANGED rows /\ work \in [Workers -> Worker]
  BY DEF database, Types, WorkTypes
<1>1. Idle.pc \notin Locked /\ [Idle EXCEPT !.pc = "lock"].pc \notin Locked
  BY DEF Idle, Locked
<1>2. Rebuilt(w, TRUE).pc \notin Locked
  BY RebuiltPlace DEF Locked
<1>3. work[w] \in Worker
  OBVIOUS
<1>4. PICK h : work' = [work EXCEPT ![w] = h] /\ h.pc \notin Locked
  <2>1. ASSUME NEW pc \in {"lock", "mark", "lag"}, To(w, pc)
        PROVE  \E h : work' = [work EXCEPT ![w] = h] /\ h.pc \notin Locked
    <3> DEFINE h == [work[w] EXCEPT !.pc = pc]
    <3>1. work' = [work EXCEPT ![w] = h]
      BY <2>1 DEF To
    <3>2. h.pc \notin Locked
      BY <1>3 DEF Worker, Locked
    <3> HIDE DEF h
    <3> QED
      BY <3>1, <3>2
  <2>2. ASSUME Handled(w) \/ GiveUp(w)
        PROVE  \E h : work' = [work EXCEPT ![w] = h] /\ h.pc \notin Locked
    BY <1>1, <1>2, <2>2 DEF Handled, GiveUp
  <2>3. CASE GetOutboxWatermark(w)
    <3> DEFINE h == [work[w] EXCEPT !.pc = "list", !.mark = watermark]
    <3>1. work' = [work EXCEPT ![w] = h]
      BY <2>3 DEF GetOutboxWatermark
    <3>2. h.pc \notin Locked
      BY <1>3 DEF Worker, Locked
    <3> HIDE DEF h
    <3> QED
      BY <3>1, <3>2
  <2>4. CASE ListAfter(w)
    <3> DEFINE found == After(work[w].mark)
               batch == {i \in found : Cardinality({j \in found : j < i}) < BatchLimit}
               m == Max(batch)
               h == [work[w] EXCEPT !.pc = "event", !.batch = batch, !.last = m]
    <3>1. work' = [work EXCEPT ![w] = h] \/ work' = [work EXCEPT ![w] = Idle]
      BY <2>4 DEF ListAfter
    <3>2. h.pc \notin Locked
      <4> HIDE DEF m, batch
      <4> QED
        BY <1>3 DEF Worker, Locked
    <3> HIDE DEF h
    <3> QED
      BY <1>1, <3>1, <3>2
  <2>5. CASE HandleOutboxEvent(w)
    <3> DEFINE e == outbox[Min(work[w].batch)]
    <3>1. ASSUME NEW pc \in {"account", "used"}, NEW row, work' = [work EXCEPT ![w].pc = pc, ![w].row = row]
          PROVE  \E h : work' = [work EXCEPT ![w] = h] /\ h.pc \notin Locked
      <4> DEFINE h == [work[w] EXCEPT !.pc = pc, !.row = row]
      <4>1. work' = [work EXCEPT ![w] = h]
        BY <3>1
      <4>2. h.pc \notin Locked
        BY <1>3 DEF Worker, Locked
      <4> HIDE DEF h
      <4> QED
        BY <4>1, <4>2
    <3>2. \/ To(w, "mark") \/ To(w, "lock") \/ Handled(w) \/ GiveUp(w)
          \/ work' = [work EXCEPT ![w].pc = "account", ![w].row = rows[e.account]]
          \/ work' = [work EXCEPT ![w].pc = "used", ![w].row = meta[e.account]]
      BY <2>5 DEF HandleOutboxEvent
    <3> HIDE DEF e
    <3> QED
      BY <2>1, <2>2, <3>1, <3>2
  <2>6. CASE HandleAccountEvent(w)
    <3> DEFINE h == [work[w] EXCEPT !.pc = "lock", !.seen = TRUE]
    <3>1. h.pc \notin Locked
      BY <1>3 DEF Worker, Locked
    <3>2. work' = [work EXCEPT ![w] = h] \/ Handled(w) \/ GiveUp(w)
      BY <2>6 DEF HandleAccountEvent
    <3> HIDE DEF h
    <3> QED
      BY <2>2, <3>1, <3>2
  <2>7. CASE SetOutboxWatermark(w) \/ TriggerFullRebuild(w)
    BY <2>1, <2>7 DEF SetOutboxWatermark, TriggerFullRebuild
  <2>8. CASE CheckOutboxLag(w)
    BY <1>1, <2>2, <2>8 DEF CheckOutboxLag
  <2> QED
    BY <2>3, <2>4, <2>5, <2>6, <2>7, <2>8 DEF PollOutbox
<1>5. \A v \in Workers : work'[v] = work[v] \/ work'[v].pc \notin Locked
  BY <1>4
<1> QED
  BY <1>5, RowsStay, OrderKept

LEMMA WriterOrder ==
  ASSUME Types, Types', Order, UNCHANGED <<active, drawn, lock, work>>,
         \/ UNCHANGED rows
         \/ \E c \in setup.writers, a \in setup.accounts, op \in setup.ops : Change(c, a, op)
  PROVE  Order'
<1>1. \A a \in Accounts : rows[a] <= rows'[a]
  <2>1. CASE UNCHANGED rows
    BY <2>1, RowsStay
  <2>2. ASSUME NEW c \in setup.writers, NEW a \in setup.accounts, NEW op \in setup.ops, Change(c, a, op)
        PROVE  \A b \in Accounts : rows[b] <= rows'[b]
    <3>1. a \in Accounts /\ changes < setup.changes /\ rows[a] # Gone /\ rows' = Changed(a, op)
      BY <2>2, SetupsAssumption DEF Types, DataTypes, Change
    <3> QED
      BY <3>1, ChangedRows DEF Types
  <2> QED
    BY <2>1, <2>2
<1> QED
  BY <1>1, OrderKept

LEMMA OrderInit == Init => OrderInv
<1> SUFFICES ASSUME Init PROVE Order
  BY DEF OrderInv
<1>1. Idle.pc \notin Locked \cup {"store", "activate", "incr"}
      /\ [Idle EXCEPT !.pc = "lock"].pc \notin Locked \cup {"store", "activate", "incr"}
  BY DEF Idle, Locked
<1>2. \A w \in Workers : work[w].pc \notin Locked \cup {"store", "activate", "incr"}
  BY <1>1 DEF Init, Started
<1> QED
  BY <1>2 DEF Init, Order, At, Loaded

\* What a step keeps, and what it leaves of the snapshot.
LEMMA OrderStep ==
  ASSUME Types, Types', Order, NoRequests, "expired" \notin gaps', [Next]_vars
  PROVE  /\ Order'
         /\ active # None => \A a \in Accounts : active'[a] >= active[a]
<1>0. UNCHANGED active => (active # None => \A a \in Accounts : active'[a] >= active[a])
  BY RowsAreNumbers DEF Types, CacheTypes
<1>1. ASSUME NEW w \in Workers, Work(w)
      PROVE  Order' /\ (active # None => \A a \in Accounts : active'[a] >= active[a])
  <2>1. CASE RebuildBucket(w) /\ UNCHANGED <<setup, database>>
    <3>1. CASE TryLockBucket(w)
      BY <1>0, <2>1, <3>1, TryLockOrder DEF TryLockBucket
    <3>2. CASE UnlockBucket(w)
      BY <1>0, <2>1, <3>2, UnlockOrder DEF UnlockBucket
    <3>3. CASE LoadAccounts(w)
      BY <1>0, <2>1, <3>3, LoadOrder DEF LoadAccounts
    <3>4. CASE NewVersion(w)
      BY <1>0, <2>1, <3>4, NewVersionOrder DEF NewVersion
    <3>5. CASE Store(w)
      BY <1>0, <2>1, <3>5, StoreOrder DEF Store
    <3>6. CASE Activate(w)
      BY <2>1, <3>6, ActivateOrder
    <3> QED
      BY <2>1, <3>1, <3>2, <3>3, <3>4, <3>5, <3>6 DEF RebuildBucket
  <2>2. CASE /\ PollOutbox(w) \/ TriggerFullRebuild(w)
             /\ UNCHANGED <<setup, database, writers, active, drawn, lock, gaps>>
    BY <1>0, <2>2, PollOrder
  <2> QED
    BY <1>1, <2>1, <2>2 DEF Work
<1>2. ASSUME NEW w \in Workers, Fallback(w) PROVE FALSE
  BY <1>2 DEF Fallback, NoRequests, Requests
<1>3. ASSUME UNCHANGED <<active, drawn, lock, work>>,
             \/ UNCHANGED rows
             \/ \E c \in setup.writers, a \in setup.accounts, op \in setup.ops : Change(c, a, op)
      PROVE  Order' /\ (active # None => \A a \in Accounts : active'[a] >= active[a])
  BY <1>0, <1>3, WriterOrder
<1>4. CASE \E c \in Writers : Write(c)
  <2> UNCHANGED <<active, drawn, lock, work, rows>>
    BY <1>4 DEF Write, Forget, Enqueue, Commit, Sync, snapshot, database
  <2> QED
    BY <1>3
<1>5. CASE \E c \in setup.writers, a \in setup.accounts, op \in setup.ops : Change(c, a, op)
  <2> UNCHANGED <<active, drawn, lock, work>>
    BY <1>5 DEF Change, snapshot
  <2> QED
    BY <1>3, <1>5
<1>6. CASE LockExpires
  <2>1. UNCHANGED <<rows, active, drawn, work>>
    BY <1>6 DEF LockExpires
  <2>2. \A w \in Workers : work[w].pc \notin Locked
    BY <1>6 DEF LockExpires, NoRequests, Requests, At
  <2>3. Order'
    BY <2>1, <2>2, RowsStay, OrderKept
  <2> QED
    BY <1>0, <2>1, <2>3
<1>7. CASE Age \/ UNCHANGED vars
  <2> UNCHANGED <<active, drawn, lock, work, rows>>
    BY <1>7 DEF Age, snapshot, vars
  <2> QED
    BY <1>3
<1>8. CASE Crash
  <2>1. UNCHANGED <<rows, active, lock>> /\ work' = [w \in Workers |-> Started(w)]
    BY <1>8 DEF Crash, database
  <2>2. \A w \in Workers : work'[w].pc \notin Locked \cup {"store", "activate"}
    <3>1. Idle.pc \notin Locked /\ [Idle EXCEPT !.pc = "lock"].pc \notin Locked
      BY DEF Idle, Locked
    <3> QED
      BY <2>1, <3>1 DEF Started, Locked
  <2>3. Order'
    BY <2>1, <2>2, RowsStay, OrderKept
  <2> QED
    BY <1>0, <2>1, <2>3
<1> QED
  BY <1>1, <1>2, <1>4, <1>5, <1>6, <1>7, <1>8 DEF Next

\* How a change escaped is never forgotten, and the configuration stays.
LEMMA GapsStay ==
  ASSUME [Next]_vars
  PROVE  setup' = setup /\ \A g \in gaps : g \in gaps'
<1>1. ASSUME NEW w \in Workers, Work(w) PROVE setup' = setup /\ \A g \in gaps : g \in gaps'
  <2>1. setup' = setup
    BY <1>1 DEF Work
  <2>2. CASE RebuildBucket(w)
    <3>1. CASE TryLockBucket(w)
      BY <2>1, <3>1 DEF TryLockBucket
    <3>2. CASE UnlockBucket(w) \/ LoadAccounts(w) \/ NewVersion(w) \/ Store(w) \/ Activate(w)
      <4>1. UNCHANGED gaps
        BY <3>2 DEF UnlockBucket, LoadAccounts, NewVersion, Store, Activate
      <4> QED
        BY <2>1, <4>1
    <3> QED
      BY <2>2, <3>1, <3>2 DEF RebuildBucket
  <2>3. CASE UNCHANGED gaps
    BY <2>1, <2>3
  <2> QED
    BY <1>1, <2>2, <2>3 DEF Work
<1>2. CASE \E w \in Workers : Fallback(w) /\ UNCHANGED <<setup, database, active, drawn, lock, writers, gaps>>
  BY <1>2
<1>3. ASSUME NEW c \in Writers, Write(c) PROVE setup' = setup /\ \A g \in gaps : g \in gaps'
  BY <1>3 DEF Write, Forget, Enqueue, Commit, Sync
<1>4. CASE \E c \in setup.writers, a \in setup.accounts, op \in setup.ops : Change(c, a, op)
  BY <1>4 DEF Change
<1>5. CASE LockExpires \/ Age \/ Crash \/ UNCHANGED vars
  BY <1>5 DEF LockExpires, Age, Crash, vars
<1> QED
  BY <1>1, <1>2, <1>3, <1>4, <1>5 DEF Next

LEMMA OrderInvStep == Types /\ Types' /\ OrderInv /\ [Next]_vars => OrderInv'
<1> SUFFICES ASSUME Types, Types', OrderInv, [Next]_vars, NoRequests', ("expired" \notin gaps)' PROVE Order'
  BY DEF OrderInv
<1>1. NoRequests /\ "expired" \notin gaps /\ "expired" \notin gaps'
  BY GapsStay DEF NoRequests, Requests
<1> QED
  BY <1>1, OrderStep DEF OrderInv

\* While no lock times out, one rebuild at a time reads the rows and replaces the
\* snapshot, in that order.
THEOREM RebuildsAreOrdered == Spec => []OrderInv
BY TypesInvariant, OrderInit, OrderInvStep, PTL DEF Spec

\* No rebuild replaces a snapshot by one that was read before it.
THEOREM SnapshotsFollowEachOther == Spec => RebuildsInOrder
<1>1. ASSUME Types, Types', OrderInv, [Next]_vars
      PROVE  [active # None /\ Requests = {} /\ "expired" \notin gaps'
              => \A a \in Accounts : active'[a] >= active[a]]_vars
  <2> SUFFICES ASSUME active # None, Requests = {}, "expired" \notin gaps', NEW a \in Accounts
               PROVE  active'[a] >= active[a]
    OBVIOUS
  <2>1. NoRequests /\ "expired" \notin gaps
    BY <1>1, GapsStay DEF NoRequests
  <2>2. Order
    BY <1>1, <2>1 DEF OrderInv
  <2>3. active # None => \A b \in Accounts : active'[b] >= active[b]
    BY <1>1, <2>1, <2>2, OrderStep
  <2> QED
    BY <2>3
<1> QED
  BY <1>1, TypesInvariant, RebuildsAreOrdered, PTL DEF Spec, RebuildsInOrder

-----------------------------------------------------------------------------
(* A worker's step and what it knows *)

\* What a worker knew when it was not going to rebuild, it knows after its step.
Advances(h, g) ==
    Open(g, outbox) =>
      \/ Told(watermark, outbox, change) => Told(Past(g), outbox, change)
      \/ /\ Open(h, outbox)
         /\ Told(Past(h), outbox, change) => Told(Past(g), outbox, change)

\* It is at rest, or has the same to do.
LEMMA AtRest ==
  ASSUME NEW h, NEW g, Rests(g) \/ WillRebuild(g, outbox)
  PROVE  Advances(h, g)
BY DEF Advances, Open

LEMMA SameToDo ==
  ASSUME NEW h, NEW g, Open(h, outbox), Past(g) = Past(h)
  PROVE  Advances(h, g)
BY DEF Advances

\* After a rebuild, or an event that asks for none, the rest of the batch is as it was.
LEMMA RebuiltAdvances ==
  ASSUME Types, PollsList, NEW w \in Workers, NEW ok \in BOOLEAN,
         \/ ~ok \/ setup.role[w] # "poll"
         \/ work[w].pc = "unlock" /\ work[w].ok
         \/ /\ work[w].pc \in {"event", "account", "used"}
            /\ LET kind == outbox[Min(work[w].batch)].kind
               IN  kind = "used" \/ (kind = "changed" /\ work[w].seen)
  PROVE  /\ Advances(work[w], Rebuilt(w, ok))
         /\ Lists(Rebuilt(w, ok)) => setup.role[w] = "poll"
<1> DEFINE h == work[w]
           g == Rebuilt(w, ok)
           m == Min(h.batch)
<1>1. h \in Worker
  BY DEF Types, WorkTypes
<1>2. \/ g.pc \in {"stopped", "idle"} /\ g.batch = {}
      \/ /\ ok /\ h.batch # {} /\ g.pc = "event"
         /\ g.batch = h.batch \ {m} /\ g.last = h.last /\ g.seen = h.seen
  BY <1>1, RebuiltPlace
<1> HIDE DEF g
<1>3. CASE g.pc \in {"stopped", "idle"} /\ g.batch = {}
  BY <1>3, AtRest DEF Rests, Lists, g
<1>4. CASE /\ ok /\ h.batch # {} /\ g.pc = "event"
           /\ g.batch = h.batch \ {m} /\ g.last = h.last /\ g.seen = h.seen
  <2>1. setup.role[w] = "poll"
    BY <1>4 DEF PollsList, Lists
  <2>2. Past(g) = h.last
    BY <1>4 DEF Past
  <2>3. CASE h.pc = "unlock" /\ h.ok
    <3>1. Open(h, outbox) /\ Past(h) = h.last
      BY <2>3 DEF Open, Rests, WillRebuild, Past
    <3> QED
      BY <2>1, <2>2, <3>1, SameToDo DEF g
  <2>4. CASE /\ h.pc \in {"event", "account", "used"}
             /\ outbox[m].kind = "used" \/ (outbox[m].kind = "changed" /\ h.seen)
    <3>1. WillRebuild(h, outbox) => WillRebuild(g, outbox)
      <4> SUFFICES ASSUME NEW i \in h.batch,
                          outbox[i].kind = "full" \/ (outbox[i].kind = "changed" /\ ~h.seen)
                   PROVE  WillRebuild(g, outbox)
        BY <2>4 DEF WillRebuild
      <4>1. i # m
        BY <2>4
      <4> QED
        BY <1>4, <4>1 DEF WillRebuild
    <3>2. ~WillRebuild(h, outbox) => Open(h, outbox)
      BY <2>4 DEF Open, Rests
    <3>3. Past(h) = h.last
      BY <2>4 DEF Past
    <3> QED
      BY <2>1, <2>2, <3>1, <3>2, <3>3, SameToDo, AtRest DEF g
  <2> QED
    BY <1>4, <2>1, <2>3, <2>4
<1> QED
  BY <1>2, <1>3, <1>4

\* The parts of a poll that change its place only, or end it.
LEMMA IdleAdvances ==
  ASSUME NEW h
  PROVE  /\ Advances(h, Idle) /\ Advances(h, [Idle EXCEPT !.pc = "lock"])
         /\ ~Lists(Idle) /\ ~Lists([Idle EXCEPT !.pc = "lock"])
<1>1. /\ Idle.pc = "idle" /\ Idle.batch = {}
      /\ [Idle EXCEPT !.pc = "lock"].pc = "lock" /\ [Idle EXCEPT !.pc = "lock"].batch = {}
  BY DEF Idle
<1>2. Rests(Idle) /\ WillRebuild([Idle EXCEPT !.pc = "lock"], outbox)
  BY <1>1 DEF Rests, WillRebuild
<1> QED
  BY <1>1, <1>2, AtRest DEF Lists

\* A poll that lists no more than BatchLimit events has the first of them: what it
\* does not list comes after what it lists.
LEMMA ListsFirst ==
  ASSUME NEW found, IsFiniteSet(found), found \in SUBSET Nat,
         NEW m \in found, Cardinality({j \in found : j < m}) < BatchLimit,
         NEW i \in found, ~(Cardinality({j \in found : j < i}) < BatchLimit)
  PROVE  i > m
<1> SUFFICES ASSUME i <= m PROVE FALSE
  OBVIOUS
<1>1. {j \in found : j < i} \subseteq {j \in found : j < m}
  <2> SUFFICES ASSUME NEW j \in found, j < i PROVE j < m
    OBVIOUS
  <2> i \in Nat /\ j \in Nat /\ m \in Nat
    OBVIOUS
  <2> QED
    OBVIOUS
<1> DEFINE A == {j \in found : j < i}
           B == {j \in found : j < m}
<1>2. IsFiniteSet(A) /\ IsFiniteSet(B)
  BY FS_Subset
<1> HIDE DEF A, B
<1>3. A \subseteq B
  BY <1>1 DEF A, B
<1>4. Cardinality(A) <= Cardinality(B)
  BY <1>2, <1>3, FS_Subset
<1>5. Cardinality(A) \in Nat /\ Cardinality(B) \in Nat /\ BatchLimit \in Nat
  BY <1>2, FS_CardinalityType, SchedulerConstants
<1>6. Cardinality(B) < BatchLimit /\ ~(Cardinality(A) < BatchLimit)
  BY DEF A, B
<1> QED
  BY <1>4, <1>5, <1>6

\* What a poll's step makes of its worker.
Moves(w, g) ==
    /\ Advances(work[w], g)
    /\ Lists(g) => setup.role[w] = "poll"
    /\ g.pc \notin {"incr", "store", "activate"}

LEMMA IdleMoves ==
  ASSUME NEW w \in Workers
  PROVE  Moves(w, Idle) /\ Moves(w, [Idle EXCEPT !.pc = "lock"])
<1>1. Idle.pc = "idle" /\ [Idle EXCEPT !.pc = "lock"].pc = "lock"
  BY DEF Idle
<1> QED
  BY <1>1, IdleAdvances DEF Moves

LEMMA HandledMoves ==
  ASSUME Types, PollsList, NEW w \in Workers, work[w].pc \in {"event", "account", "used"},
         LET kind == outbox[Min(work[w].batch)].kind
         IN  kind = "used" \/ (kind = "changed" /\ work[w].seen)
  PROVE  Moves(w, Rebuilt(w, TRUE))
<1>1. /\ Advances(work[w], Rebuilt(w, TRUE))
      /\ Lists(Rebuilt(w, TRUE)) => setup.role[w] = "poll"
  BY RebuiltAdvances
<1>2. Rebuilt(w, TRUE).pc \notin {"incr", "store", "activate"}
  <2> work[w] \in Worker
    BY DEF Types, WorkTypes
  <2> QED
    BY RebuiltPlace
<1> QED
  BY <1>1, <1>2 DEF Moves

LEMMA ListMoves ==
  ASSUME Types, PollsList, NEW w \in Workers, ListAfter(w)
  PROVE  \E g : work' = [work EXCEPT ![w] = g] /\ Moves(w, g)
<1> DEFINE mark == work[w].mark
           found == After(mark)
           batch == {i \in found : Cardinality({j \in found : j < i}) < BatchLimit}
           m == Max(batch)
           g == [work[w] EXCEPT !.pc = "event", !.batch = batch, !.last = m]
<1>0. /\ outbox \in Seq(Events) /\ work[w] \in Worker /\ HandTypes(work[w], outbox)
      /\ work[w].pc = "list" /\ mark \in Nat
  BY DEF Types, ChangeTypes, WorkTypes, ListAfter, At, Worker
<1>1. CASE work' = [work EXCEPT ![w] = Idle]
  BY <1>1, IdleMoves
<1>2. CASE batch # {} /\ work' = [work EXCEPT ![w] = g]
  <2>1. found \in SUBSET Nat /\ IsFiniteSet(found)
    <3>1. found \subseteq 1..Len(outbox) /\ Len(outbox) \in Nat
      BY <1>0 DEF After
    <3>2. IsFiniteSet(1..Len(outbox))
      BY <3>1, FS_Interval
    <3> QED
      BY <3>1, <3>2, FS_Subset
  <2>2. m \in batch
    <3> batch \in SUBSET After(mark)
      OBVIOUS
    <3> HIDE DEF batch, mark
    <3> QED
      BY <1>0, <1>2, BatchTypes
  <2>3. /\ g.pc = "event" /\ g.batch = batch /\ g.last = m /\ g.seen = work[w].seen
    <3> HIDE DEF m, batch
    <3> QED
      BY <1>0 DEF Worker
  <2> HIDE DEF g
  <2>4. Past(work[w]) = mark /\ Past(g) = m /\ Open(work[w], outbox) /\ ~g.seen
    BY <1>0, <2>3 DEF Past, Open, Rests, WillRebuild, HandTypes
  <2>5. ASSUME Open(g, outbox), Told(mark, outbox, change)
        PROVE  Told(m, outbox, change)
    <3>1. CASE \E c \in Writers : Writing(change[c])
      BY <3>1 DEF Told
    <3>2. ASSUME NEW i \in DOMAIN outbox, i > mark, outbox[i].visible, outbox[i].kind # "used"
          PROVE  Told(m, outbox, change)
      <4>1. i \in found
        BY <3>2 DEF After
      <4>2. i \notin batch
        <5>1. outbox[i].kind \in {"full", "changed"}
          BY <1>0, <3>2 DEF Events
        <5> SUFFICES ASSUME i \in batch PROVE WillRebuild(g, outbox)
          BY <2>5 DEF Open
        <5> QED
          BY <2>3, <2>4, <5>1 DEF WillRebuild
      <4>3. i > m
        <5>1. ~(Cardinality({j \in found : j < i}) < BatchLimit)
          BY <4>1, <4>2
        <5>2. m \in found /\ Cardinality({j \in found : j < m}) < BatchLimit
          BY <2>2
        <5> HIDE DEF m, found
        <5> QED
          BY <2>1, <4>1, <5>1, <5>2, ListsFirst
      <4> QED
        BY <3>2, <4>3 DEF Told
    <3> QED
      BY <2>5, <3>1, <3>2 DEF Told
  <2>6. Advances(work[w], g)
    BY <2>4, <2>5 DEF Advances
  <2>7. setup.role[w] = "poll"
    BY <1>0 DEF PollsList, Lists
  <2> QED
    BY <1>2, <2>3, <2>6, <2>7 DEF Moves
<1> QED
  BY <1>1, <1>2 DEF ListAfter

LEMMA EventMoves ==
  ASSUME Types, PollsList, NEW w \in Workers, HandleOutboxEvent(w)
  PROVE  \E g : work' = [work EXCEPT ![w] = g] /\ Moves(w, g)
<1> DEFINE e == outbox[Min(work[w].batch)]
<1>0. work[w] \in Worker /\ work \in [Workers -> Worker] /\ work[w].pc = "event"
  BY DEF Types, WorkTypes, HandleOutboxEvent, At
<1>1. CASE To(w, "mark") /\ work[w].batch = {}
  <2> DEFINE g == [work[w] EXCEPT !.pc = "mark"]
  <2>1. work' = [work EXCEPT ![w] = g]
    BY <1>1 DEF To
  <2>2. g.pc = "mark" /\ g.batch = {} /\ g.last = work[w].last
    BY <1>0, <1>1 DEF Worker
  <2> HIDE DEF g
  <2>3. Open(work[w], outbox) /\ Past(g) = Past(work[w])
    BY <1>0, <1>1, <2>2 DEF Open, Rests, WillRebuild, Past
  <2> QED
    BY <2>1, <2>2, <2>3, SameToDo DEF Moves, Lists
<1>2. CASE To(w, "lock") /\ work[w].batch # {}
  <2> DEFINE g == [work[w] EXCEPT !.pc = "lock"]
  <2>1. work' = [work EXCEPT ![w] = g]
    BY <1>2 DEF To
  <2>2. g.pc = "lock"
    BY <1>0 DEF Worker
  <2> HIDE DEF g
  <2>3. WillRebuild(g, outbox) /\ setup.role[w] = "poll"
    BY <1>2, <2>2 DEF WillRebuild, PollsList, Lists
  <2> QED
    BY <2>1, <2>2, <2>3, AtRest DEF Moves
<1>3. CASE work' = [work EXCEPT ![w] = Idle]
  BY <1>3, IdleMoves
<1>4. CASE e.kind = "used" /\ Handled(w)
  BY <1>0, <1>4, HandledMoves DEF Handled
<1>5. ASSUME NEW pc \in {"account", "used"}, NEW row, work[w].batch # {},
             work' = [work EXCEPT ![w].pc = pc, ![w].row = row]
      PROVE  \E g : work' = [work EXCEPT ![w] = g] /\ Moves(w, g)
  <2> DEFINE g == [work[w] EXCEPT !.pc = pc, !.row = row]
  <2>1. work' = [work EXCEPT ![w] = g]
    BY <1>5
  <2>2. g.pc = pc /\ g.batch = work[w].batch /\ g.last = work[w].last /\ g.seen = work[w].seen
    BY <1>0 DEF Worker
  <2> HIDE DEF g
  <2>3. WillRebuild(work[w], outbox) => WillRebuild(g, outbox)
    BY <1>0, <2>2 DEF WillRebuild
  <2>4. ~WillRebuild(work[w], outbox) => Open(work[w], outbox)
    BY <1>0 DEF Open, Rests
  <2>5. Past(g) = Past(work[w])
    BY <1>0, <2>2 DEF Past
  <2>6. Advances(work[w], g)
    BY <2>3, <2>4, <2>5, SameToDo, AtRest
  <2>7. setup.role[w] = "poll"
    BY <1>5 DEF PollsList, Lists
  <2> QED
    BY <2>1, <2>2, <2>6, <2>7 DEF Moves
<1>6. \/ To(w, "mark") /\ work[w].batch = {}
      \/ To(w, "lock") /\ work[w].batch # {}
      \/ work' = [work EXCEPT ![w] = Idle]
      \/ e.kind = "used" /\ Handled(w)
      \/ work[w].batch # {} /\ work' = [work EXCEPT ![w].pc = "account", ![w].row = rows[e.account]]
      \/ work[w].batch # {} /\ work' = [work EXCEPT ![w].pc = "used", ![w].row = meta[e.account]]
  BY DEF HandleOutboxEvent, GiveUp
<1> HIDE DEF e
<1> QED
  BY <1>1, <1>2, <1>3, <1>4, <1>5, <1>6

LEMMA AccountMoves ==
  ASSUME Types, PollsList, NEW w \in Workers, HandleAccountEvent(w)
  PROVE  \E g : work' = [work EXCEPT ![w] = g] /\ Moves(w, g)
<1>0. /\ work[w] \in Worker /\ work[w].pc \in {"account", "used"} /\ work[w].batch # {}
      /\ outbox[Min(work[w].batch)].kind = IF work[w].pc = "used" THEN "used" ELSE "changed"
  BY DEF Types, WorkTypes, HandTypes, HandleAccountEvent, At
<1>1. CASE work' = [work EXCEPT ![w].pc = "lock", ![w].seen = TRUE]
  <2> DEFINE g == [work[w] EXCEPT !.pc = "lock", !.seen = TRUE]
  <2>1. work' = [work EXCEPT ![w] = g]
    BY <1>1
  <2>2. g.pc = "lock"
    BY <1>0 DEF Worker
  <2> HIDE DEF g
  <2>3. WillRebuild(g, outbox) /\ setup.role[w] = "poll"
    BY <1>0, <2>2 DEF WillRebuild, PollsList, Lists
  <2> QED
    BY <2>1, <2>2, <2>3, AtRest DEF Moves
<1>2. CASE ~(work[w].pc = "account" /\ ~work[w].seen) /\ Handled(w)
  BY <1>0, <1>2, HandledMoves DEF Handled
<1>3. CASE work' = [work EXCEPT ![w] = Idle]
  BY <1>3, IdleMoves
<1> QED
  BY <1>1, <1>2, <1>3 DEF HandleAccountEvent, GiveUp, At

LEMMA PollMoves ==
  ASSUME Types, PollsList, NEW w \in Workers, PollOutbox(w) \/ TriggerFullRebuild(w)
  PROVE  \E g : work' = [work EXCEPT ![w] = g] /\ Moves(w, g)
<1>0. work[w] \in Worker
  BY DEF Types, WorkTypes
<1>1. CASE GetOutboxWatermark(w)
  <2> DEFINE g == [work[w] EXCEPT !.pc = "list", !.mark = watermark]
  <2>1. work' = [work EXCEPT ![w] = g]
    BY <1>1 DEF GetOutboxWatermark
  <2>2. g.pc = "list" /\ g.mark = watermark
    BY <1>0 DEF Worker
  <2> HIDE DEF g
  <2>3. Past(g) = watermark /\ setup.role[w] = "poll"
    BY <1>1, <2>2 DEF Past, GetOutboxWatermark
  <2> QED
    BY <2>1, <2>2, <2>3 DEF Moves, Advances
<1>2. CASE SetOutboxWatermark(w)
  <2> DEFINE g == [work[w] EXCEPT !.pc = "lag"]
  <2>1. work' = [work EXCEPT ![w] = g]
    BY <1>2 DEF SetOutboxWatermark, To
  <2>2. g.pc = "lag" /\ g.batch = work[w].batch
    BY <1>0 DEF Worker
  <2> HIDE DEF g
  <2>3. Rests(g) /\ (Lists(g) => setup.role[w] = "poll")
    BY <2>2 DEF Rests, Lists, PollsList
  <2> QED
    BY <2>1, <2>2, <2>3, AtRest DEF Moves
<1>3. CASE CheckOutboxLag(w)
  BY <1>3, IdleMoves DEF CheckOutboxLag, GiveUp
<1>4. CASE TriggerFullRebuild(w)
  <2> DEFINE g == [work[w] EXCEPT !.pc = "lock"]
  <2>1. work' = [work EXCEPT ![w] = g]
    BY <1>4 DEF TriggerFullRebuild, To
  <2>2. g.pc = "lock" /\ g.batch = work[w].batch
    BY <1>0 DEF Worker
  <2> HIDE DEF g
  <2>3. WillRebuild(g, outbox) /\ (Lists(g) => setup.role[w] = "poll")
    BY <2>2 DEF WillRebuild, Lists, PollsList
  <2> QED
    BY <2>1, <2>2, <2>3, AtRest DEF Moves
<1> QED
  BY <1>1, <1>2, <1>3, <1>4, ListMoves, EventMoves, AccountMoves DEF PollOutbox

\* Only a poll lists events, in every step.
LEMMA ListsKept ==
  ASSUME Types, PollsList, NEW w \in Workers, NEW g, work' = [work EXCEPT ![w] = g],
         Lists(g) => setup.role[w] = "poll", UNCHANGED setup
  PROVE  PollsList'
<1>1. ASSUME NEW v \in Workers PROVE Lists(work'[v]) => setup.role[v] = "poll"
  BY DEF PollsList, Types, WorkTypes
<1> QED
  BY <1>1 DEF PollsList, Lists

LEMMA RebuiltLists ==
  ASSUME Types, PollsList, NEW w \in Workers, NEW ok \in BOOLEAN, work' = [work EXCEPT ![w] = Rebuilt(w, ok)],
         UNCHANGED setup
  PROVE  PollsList'
<1>1. work[w] \in Worker
  BY DEF Types, WorkTypes
<1>2. Lists(Rebuilt(w, ok)) => setup.role[w] = "poll"
  BY <1>1, RebuiltPlace DEF Lists, PollsList
<1> QED
  BY <1>2, ListsKept

LEMMA FinishedLists ==
  ASSUME Types, PollsList, NEW w \in Workers, NEW ok \in BOOLEAN, Finish(w, ok), UNCHANGED setup
  PROVE  PollsList'
<1> DEFINE g == [work[w] EXCEPT !.pc = "unlock", !.load = None, !.ok = ok]
<1>1. work' = [work EXCEPT ![w] = Idle] \/ work' = [work EXCEPT ![w] = g]
  BY DEF Finish
<1>2. ~Lists(Idle)
  BY DEF Lists, Idle
<1>3. g.pc = "unlock" /\ g.batch = work[w].batch
  BY DEF Types, WorkTypes, Worker
<1> HIDE DEF g
<1>4. Lists(g) => setup.role[w] = "poll"
  BY <1>3 DEF Lists, PollsList
<1> QED
  BY <1>1, <1>2, <1>4, ListsKept

LEMMA PlaceLists ==
  ASSUME Types, PollsList, NEW w \in Workers, NEW pc \in {"load", "store", "activate"}, To(w, pc), UNCHANGED setup
  PROVE  PollsList'
<1> DEFINE g == [work[w] EXCEPT !.pc = pc]
<1>1. work' = [work EXCEPT ![w] = g]
  BY DEF To
<1>2. g.pc = pc /\ g.batch = work[w].batch
  BY DEF Types, WorkTypes, Worker
<1> HIDE DEF g
<1>3. Lists(g) => setup.role[w] = "poll"
  BY <1>2 DEF Lists, PollsList
<1> QED
  BY <1>1, <1>3, ListsKept

LEMMA RebuildLists ==
  ASSUME Types, PollsList, NEW w \in Workers, RebuildBucket(w), UNCHANGED setup
  PROVE  PollsList'
<1>1. CASE TryLockBucket(w)
  BY <1>1, PlaceLists, RebuiltLists DEF TryLockBucket
<1>2. CASE UnlockBucket(w)
  <2> work[w].ok \in BOOLEAN
    BY DEF Types, WorkTypes, Worker
  <2> QED
    BY <1>2, RebuiltLists DEF UnlockBucket
<1>3. CASE LoadAccounts(w)
  <2>1. CASE work' = [work EXCEPT ![w].load = rows, ![w].pc = "incr"]
    <3> DEFINE g == [work[w] EXCEPT !.load = rows, !.pc = "incr"]
    <3>1. work' = [work EXCEPT ![w] = g]
      BY <2>1
    <3>2. g.pc = "incr" /\ g.batch = work[w].batch
      BY DEF Types, WorkTypes, Worker
    <3> HIDE DEF g
    <3>3. Lists(g) => setup.role[w] = "poll"
      BY <3>2 DEF Lists, PollsList
    <3> QED
      BY <3>1, <3>3, ListsKept
  <2> QED
    BY <1>3, <2>1, FinishedLists DEF LoadAccounts
<1>4. CASE NewVersion(w)
  BY <1>4, PlaceLists, FinishedLists DEF NewVersion
<1>5. CASE Store(w)
  BY <1>5, PlaceLists, FinishedLists DEF Store
<1>6. CASE Activate(w)
  BY <1>6, FinishedLists DEF Activate
<1> QED
  BY <1>1, <1>2, <1>3, <1>4, <1>5, <1>6 DEF RebuildBucket

LEMMA StartedLists ==
  ASSUME NEW w \in Workers
  PROVE  ~Lists(Started(w)) /\ Started(w).pc \in {"idle", "lock"}
BY DEF Lists, Started, Idle

LEMMA PollsListStep == Types /\ PollsList /\ [Next]_vars => PollsList'
<1> SUFFICES ASSUME Types, PollsList, [Next]_vars PROVE PollsList'
  OBVIOUS
<1>1. ASSUME NEW w \in Workers, Work(w) PROVE PollsList'
  <2>1. CASE RebuildBucket(w)
    BY <1>1, <2>1, RebuildLists DEF Work
  <2>2. CASE PollOutbox(w) \/ TriggerFullRebuild(w)
    BY <1>1, <2>2, PollMoves, ListsKept DEF Work, Moves
  <2> QED
    BY <1>1, <2>1, <2>2 DEF Work
<1>2. ASSUME NEW w \in Workers, Fallback(w), UNCHANGED setup PROVE PollsList'
  BY <1>2, PlaceLists DEF Fallback
<1>3. CASE UNCHANGED <<work, setup>>
  BY <1>3 DEF PollsList, Lists
<1>4. CASE Crash
  <2>1. UNCHANGED setup /\ work' = [w \in Workers |-> Started(w)]
    BY <1>4 DEF Crash
  <2>2. \A w \in Workers : work'[w] = Started(w)
    BY <2>1
  <2>3. ASSUME NEW w \in Workers PROVE ~Lists(work'[w])
    BY <2>2, StartedLists
  <2> QED
    BY <2>1, <2>3 DEF PollsList, Lists
<1>5. (\E c \in Writers : Write(c)) => UNCHANGED <<work, setup>>
  BY DEF Write, Forget, Enqueue, Commit, Sync
<1>6. (\E c \in setup.writers, a \in setup.accounts, op \in setup.ops : Change(c, a, op)) => UNCHANGED <<work, setup>>
  BY DEF Change
<1>7. LockExpires \/ Age \/ UNCHANGED vars => UNCHANGED <<work, setup>>
  BY DEF LockExpires, Age, vars
<1> QED
  BY <1>1, <1>2, <1>3, <1>4, <1>5, <1>6, <1>7 DEF Next

\* A request, a periodic rebuild or the initial one never handles an event.
LEMMA PollsListInvariant == Spec => []PollsList
<1>1. Init => PollsList
  <2> SUFFICES ASSUME Init, NEW w \in Workers PROVE ~Lists(work[w])
    BY DEF PollsList
  <2> QED
    BY StartedLists DEF Init
<1> QED
  BY <1>1, TypesInvariant, PollsListStep, PTL DEF Spec

-----------------------------------------------------------------------------
(* What is told stays told *)

\* No event of the outbox is lost, changed in what it says, or hidden again.
Remembered ==
    \A i \in DOMAIN outbox : /\ i \in DOMAIN outbox' /\ outbox'[i].kind = outbox[i].kind
                             /\ outbox[i].visible => outbox'[i].visible

LEMMA ToldOtherwise ==
  ASSUME NEW n, Remembered, Told(n, outbox, change),
         \A c \in Writers : Writing(change[c]) => Told(n, outbox', change')
  PROVE  Told(n, outbox', change')
BY DEF Told, Remembered

LEMMA SameOutbox ==
  ASSUME UNCHANGED outbox
  PROVE  Remembered
BY DEF Remembered

\* A writer that goes on, and the others, tell as before.
LEMMA OthersWrite ==
  ASSUME NEW n, NEW c \in Writers, change \in [Writers -> Changing], NEW x, change' = [change EXCEPT ![c] = x],
         Writing(change[c]) => Writing(x) \/ Told(n, outbox', change')
  PROVE  \A d \in Writers : Writing(change[d]) => Told(n, outbox', change')
<1> SUFFICES ASSUME NEW d \in Writers, Writing(change[d]) PROVE Told(n, outbox', change')
  OBVIOUS
<1>1. CASE d # c
  <2> change'[d] = change[d]
    BY <1>1
  <2> QED
    BY DEF Told
<1>2. CASE d = c
  <2> change'[c] = x
    OBVIOUS
  <2> QED
    BY <1>2 DEF Told
<1> QED
  BY <1>1, <1>2

\* What an insert brings is not for n events only.
LEMMA EnqueueTells ==
  ASSUME Types, Types', NEW c \in Writers, Enqueue(c), gaps' = {}, NEW n \in 0..Len(outbox),
         \A i : Unlisted(i) => i > n, Told(n, outbox, change)
  PROVE  Told(n, outbox', change')
<1>0. /\ outbox \in Seq(Events) /\ Event(c) \in Events /\ change \in [Writers -> Changing]
      /\ Len(outbox) \in Nat /\ setup.late \in BOOLEAN
  BY EventTypes, SetupsAssumption DEF Types, ChangeTypes, Enqueue, DataTypes
<1>1. change[c].op # "touch" => Event(c).kind # "used"
  BY DEF Event
<1>2. CASE outbox' = Append(outbox, Event(c))
  <2>1. Remembered
    BY <1>0, <1>2 DEF Remembered
  <2>2. CASE setup.late
    <3> DEFINE x == [change[c] EXCEPT !.pc = "commit", !.id = Len(outbox) + 1]
    <3>1. change' = [change EXCEPT ![c] = x]
      <4> Append(outbox, Event(c)) # outbox
        BY <1>0
      <4> QED
        BY <1>0, <1>2, <2>2 DEF Enqueue
    <3>2. x.pc = "commit" /\ x.op = change[c].op
      BY <1>0 DEF Changing
    <3> HIDE DEF x
    <3>3. Writing(change[c]) => Writing(x)
      BY <3>2 DEF Writing
    <3> QED
      BY <1>0, <2>1, <3>1, <3>3, OthersWrite, ToldOtherwise
  <2>3. CASE ~setup.late
    <3>1. PICK x : change' = [change EXCEPT ![c] = x]
      BY <1>0, <1>2, <2>3 DEF Enqueue, Enqueued
    <3>2. Writing(change[c]) => Told(n, outbox', change')
      <4> SUFFICES ASSUME Writing(change[c]) PROVE Told(n, outbox', change')
        OBVIOUS
      <4>1. /\ Len(outbox) + 1 \in DOMAIN outbox' /\ outbox'[Len(outbox) + 1] = Event(c)
            /\ Len(outbox) + 1 > n
        BY <1>0, <1>2
      <4>2. Event(c).visible /\ Event(c).kind # "used"
        BY <1>1, <2>3 DEF Event, Writing
      <4> QED
        BY <4>1, <4>2 DEF Told
    <3> QED
      BY <1>0, <2>1, <3>1, <3>2, OthersWrite, ToldOtherwise
  <2> QED
    BY <1>0, <2>2, <2>3
<1>3. CASE /\ UNCHANGED outbox /\ change' = Enqueued(c)
           /\ (\E i \in Twins(Event(c)) : Unlisted(i)) \/ change[c].op = "touch"
  <2>1. PICK x : change' = [change EXCEPT ![c] = x]
    BY <1>0, <1>3 DEF Enqueued
  <2>2. Writing(change[c]) => Told(n, outbox', change')
    <3> SUFFICES ASSUME Writing(change[c]) PROVE Told(n, outbox', change')
      OBVIOUS
    <3>1. PICK i \in Twins(Event(c)) : Unlisted(i)
      BY <1>3 DEF Writing
    <3>2. i \in DOMAIN outbox /\ outbox[i].visible /\ outbox[i].kind # "used"
      BY DEF Twins
    <3>3. i > n
      BY <3>1
    <3> QED
      BY <1>3, <3>2, <3>3 DEF Told
  <2> QED
    BY <1>0, <1>3, <2>1, <2>2, SameOutbox, OthersWrite, ToldOtherwise
<1>4. \/ outbox' = Append(outbox, Event(c))
      \/ /\ UNCHANGED outbox /\ change' = Enqueued(c)
         /\ (\E i \in Twins(Event(c)) : Unlisted(i)) \/ change[c].op = "touch"
  <2>1. "dedup" \notin gaps' /\ "enqueue" \notin gaps'
    OBVIOUS
  <2> QED
    BY <2>1 DEF Enqueue
<1> QED
  BY <1>2, <1>3, <1>4

LEMMA CommitTells ==
  ASSUME Types, Types', NEW c \in Writers, Commit(c), gaps' = {}, NEW n \in 0..Len(outbox),
         \A i : Unlisted(i) => i > n, Told(n, outbox, change)
  PROVE  Told(n, outbox', change')
<1> DEFINE i == change[c].id
<1>0. /\ outbox \in Seq(Events) /\ change \in [Writers -> Changing] /\ change[c].pc = "commit"
      /\ i \in DOMAIN outbox
      /\ change[c].op # "touch" => outbox[i].kind # "used"
  BY DEF Types, ChangeTypes, ChangeRecord, Commit
<1>1. /\ outbox' = [outbox EXCEPT ![i].visible = TRUE] /\ Unlisted(i)
  <2> "late" \notin gaps'
    OBVIOUS
  <2> QED
    BY DEF Commit
<1>2. PICK x : change' = [change EXCEPT ![c] = x]
  BY <1>0 DEF Commit, Enqueued
<1> HIDE DEF i
<1>3. Remembered
  BY <1>0, <1>1, EventMarked DEF Remembered
<1>4. Writing(change[c]) => Told(n, outbox', change')
  <2> SUFFICES ASSUME Writing(change[c]) PROVE Told(n, outbox', change')
    OBVIOUS
  <2>1. outbox'[i].visible
    <3>1. outbox[i] \in Events /\ outbox'[i] = [outbox[i] EXCEPT !.visible = TRUE]
      BY <1>0, <1>1
    <3> QED
      BY <3>1 DEF Events
  <2>2. i \in DOMAIN outbox' /\ outbox'[i].kind # "used"
    BY <1>0, <1>3 DEF Remembered, Writing
  <2>3. i > n
    BY <1>1
  <2> QED
    BY <2>1, <2>2, <2>3 DEF Told
<1> QED
  BY <1>0, <1>2, <1>3, <1>4, OthersWrite, ToldOtherwise

\* Nothing that the outbox tells, or will, of a change is lost for who has gone no
\* further than n.
LEMMA ToldStays ==
  ASSUME Types, Types', [Next]_vars, gaps' = {}, NEW n \in 0..Len(outbox),
         \A i : Unlisted(i) => i > n, Told(n, outbox, change)
  PROVE  Told(n, outbox', change')
<1>0. change \in [Writers -> Changing] /\ outbox \in Seq(Events)
  BY DEF Types, ChangeTypes
<1>1. CASE UNCHANGED <<outbox, change>>
  BY <1>1
<1>2. ASSUME NEW w \in Workers, Work(w) \/ (Fallback(w) /\ UNCHANGED <<database, writers>>)
      PROVE  UNCHANGED <<outbox, change>>
  BY <1>2 DEF Work, database, writers
<1>3. ASSUME NEW c \in Writers, Forget(c) PROVE Told(n, outbox', change')
  <2> DEFINE x == [change[c] EXCEPT !.pc = "enqueue"]
  <2>1. change' = [change EXCEPT ![c] = x] /\ UNCHANGED outbox
    BY <1>3 DEF Forget, database
  <2>2. x.pc = "enqueue" /\ x.op = change[c].op
    BY <1>0 DEF Changing
  <2> HIDE DEF x
  <2>3. Writing(change[c]) => Writing(x)
    BY <2>2 DEF Writing
  <2> QED
    BY <1>0, <2>1, <2>3, SameOutbox, OthersWrite, ToldOtherwise
<1>4. ASSUME NEW c \in Writers, Sync(c) PROVE Told(n, outbox', change')
  <2>1. UNCHANGED outbox /\ ~Writing(change[c])
    BY <1>4 DEF Sync, database, Writing
  <2> DEFINE x == [change[c] EXCEPT !.pc = "write", !.row = rows[change[c].account]]
  <2>2. change' = [change EXCEPT ![c] = x] \/ change' = [change EXCEPT ![c] = NoChange]
    BY <1>4 DEF Sync
  <2> HIDE DEF x
  <2>3. PICK y : change' = [change EXCEPT ![c] = y]
    BY <2>2
  <2> QED
    BY <1>0, <2>1, <2>3, SameOutbox, OthersWrite, ToldOtherwise
<1>5. ASSUME NEW c \in setup.writers, NEW a \in setup.accounts, NEW op \in setup.ops, Change(c, a, op)
      PROVE  Told(n, outbox', change')
  <2>1. UNCHANGED outbox /\ ~Writing(change[c]) /\ c \in Writers
    BY <1>5, SetupsAssumption DEF Change, Writing, Types, DataTypes
  <2>2. PICK y : change' = [change EXCEPT ![c] = y]
    BY <1>5 DEF Change
  <2> QED
    BY <1>0, <2>1, <2>2, SameOutbox, OthersWrite, ToldOtherwise
<1>6. CASE Age
  <2>1. PICK i \in DOMAIN outbox : outbox' = [outbox EXCEPT ![i].recent = FALSE]
    BY <1>6 DEF Age
  <2>2. Remembered /\ UNCHANGED change
    BY <1>0, <1>6, <2>1, EventMarked DEF Remembered, Age, writers
  <2>3. \A c \in Writers : Writing(change[c]) => Told(n, outbox', change')
    BY <2>2 DEF Told
  <2> QED
    BY <2>2, <2>3, ToldOtherwise
<1>7. CASE Crash
  <2>1. UNCHANGED outbox /\ \A c \in Writers : ~Writing(change[c])
    <3> "enqueue" \notin gaps'
      OBVIOUS
    <3> QED
      BY <1>7 DEF Crash, database, Writing
  <2> QED
    BY <2>1, SameOutbox, ToldOtherwise
<1>8. LockExpires \/ UNCHANGED vars => UNCHANGED <<outbox, change>>
  BY DEF LockExpires, vars
<1> QED
  BY <1>1, <1>2, <1>3, <1>4, <1>5, <1>6, <1>7, <1>8, EnqueueTells, CommitTells DEF Next, Write

\* Whoever changes the rows tells so.
LEMMA ChangesAreTold ==
  ASSUME Types, [Next]_vars, rows' # rows, NEW n
  PROVE  Told(n, outbox', change')
<1>1. ASSUME NEW w \in Workers, Work(w) \/ (Fallback(w) /\ UNCHANGED database) PROVE UNCHANGED rows
  BY <1>1 DEF Work, database
<1>2. ASSUME NEW c \in Writers, Write(c) PROVE UNCHANGED rows
  BY <1>2 DEF Write, Forget, Enqueue, Commit, Sync, database
<1>3. LockExpires \/ Age \/ Crash \/ UNCHANGED vars => UNCHANGED rows
  BY DEF LockExpires, Age, Crash, vars, database
<1>4. PICK c \in setup.writers, a \in setup.accounts, op \in setup.ops : Change(c, a, op)
  BY <1>1, <1>2, <1>3 DEF Next
<1>5. c \in Writers
  BY SetupsAssumption DEF Types, DataTypes
<1>6. op # "touch"
  BY <1>4 DEF Change, Changed, Types, DataTypes, Rows
<1>7. Writing(change'[c])
  <2> DEFINE pc == IF op = "delete" THEN "forget" ELSE "enqueue"
             account == IF op = "pause" THEN None ELSE a
             row == IF op = "toggle" THEN rows'[a] ELSE None
             x == [NoChange EXCEPT !.pc = pc, !.op = op, !.account = account, !.row = row]
  <2>1. change'[c] = x
    BY <1>4, <1>5 DEF Change, Types, ChangeTypes
  <2>2. pc \in {"forget", "enqueue"}
    OBVIOUS
  <2> HIDE DEF pc, account, row
  <2>3. NoChange \in Changing
    BY NoChangeRecord DEF ChangeRecord
  <2>4. x.pc = pc /\ x.op = op
    BY <2>3 DEF Changing
  <2> HIDE DEF x
  <2> QED
    BY <1>6, <2>1, <2>2, <2>4 DEF Writing
<1> QED
  BY <1>5, <1>7 DEF Told

LEMMA OutboxRemembered ==
  ASSUME Types, [Next]_vars
  PROVE  Remembered
<1>0. outbox \in Seq(Events) /\ Len(outbox) \in Nat
  BY DEF Types, ChangeTypes
<1>1. ASSUME NEW w \in Workers, Work(w) \/ (Fallback(w) /\ UNCHANGED database) PROVE UNCHANGED outbox
  BY <1>1 DEF Work, database
<1>2. ASSUME NEW c \in Writers, Write(c) PROVE Remembered
  <2>1. CASE Forget(c) \/ Sync(c)
    BY <2>1, SameOutbox DEF Forget, Sync, database
  <2>2. CASE Enqueue(c)
    <3>1. UNCHANGED outbox \/ outbox' = Append(outbox, Event(c))
      BY <2>2 DEF Enqueue
    <3>2. CASE outbox' = Append(outbox, Event(c))
      BY <1>0, <2>2, <3>2, EventTypes DEF Remembered, Types, Enqueue
    <3> QED
      BY <3>1, <3>2, SameOutbox
  <2>3. CASE Commit(c)
    <3> DEFINE i == change[c].id
    <3>1. i \in DOMAIN outbox /\ outbox' = [outbox EXCEPT ![i].visible = TRUE]
      BY <2>3 DEF Commit, Types, ChangeTypes, ChangeRecord
    <3> HIDE DEF i
    <3> QED
      BY <1>0, <3>1, EventMarked DEF Remembered
  <2> QED
    BY <1>2, <2>1, <2>2, <2>3 DEF Write
<1>3. CASE Age
  BY <1>0, <1>3, EventMarked DEF Remembered, Age
<1>4. (\E c \in setup.writers, a \in setup.accounts, op \in setup.ops : Change(c, a, op)) => UNCHANGED outbox
  BY DEF Change
<1>5. LockExpires \/ Crash \/ UNCHANGED vars => UNCHANGED outbox
  BY DEF LockExpires, Crash, vars, database
<1> QED
  BY <1>1, <1>2, <1>3, <1>4, <1>5, SameOutbox DEF Next

LEMMA PastTypes ==
  ASSUME Types, NEW w \in Workers
  PROVE  /\ Past(work[w]) \in 0..Len(outbox) /\ \A i : Unlisted(i) => i > Past(work[w])
         /\ watermark \in 0..Len(outbox) /\ \A i : Unlisted(i) => i > watermark
BY DEF Types, WorkTypes, HandTypes, Past, Unlisted

-----------------------------------------------------------------------------
(* A snapshot that is caught up with *)

\* What a snapshot has, or is told of, it has or is told of after the step.
LEMMA FollowedStays ==
  ASSUME Types, Types', [Next]_vars, gaps' = {}, NEW n \in 0..Len(outbox),
         \A i : Unlisted(i) => i > n, NEW f, f = rows \/ Told(n, outbox, change)
  PROVE  f = rows' \/ Told(n, outbox', change')
BY ToldStays, ChangesAreTold

LEMMA OpenStays ==
  ASSUME Types, [Next]_vars, NEW w \in Workers, Open(work[w], outbox')
  PROVE  Open(work[w], outbox)
<1>1. Remembered /\ \A i \in work[w].batch : i \in DOMAIN outbox
  BY OutboxRemembered DEF Types, WorkTypes, HandTypes
<1>2. WillRebuild(work[w], outbox) => WillRebuild(work[w], outbox')
  BY <1>1 DEF WillRebuild, Remembered
<1> QED
  BY <1>2 DEF Open

\* Who does not move learns what it would have learned.
LEMMA LearnsStays ==
  ASSUME Types, Types', [Next]_vars, gaps' = {}, NEW w \in Workers, work'[w] = work[w],
         NEW f, Learns(f, work[w])
  PROVE  Open(work'[w], outbox') => f = rows' \/ Told(Past(work'[w]), outbox', change')
<1> SUFFICES ASSUME Open(work[w], outbox') PROVE f = rows' \/ Told(Past(work[w]), outbox', change')
  OBVIOUS
<1>1. f = rows \/ Told(Past(work[w]), outbox, change)
  BY OpenStays DEF Learns
<1> DEFINE n == Past(work[w])
<1>2. n \in 0..Len(outbox) /\ \A i : Unlisted(i) => i > n
  BY PastTypes
<1> HIDE DEF n
<1> QED
  BY <1>1, <1>2, FollowedStays DEF n

\* The service at rest, while others change accounts.
LEMMA OthersFollow ==
  ASSUME Types, Types', [Next]_vars, gaps' = {}, Following, UNCHANGED <<active, watermark, work>>
  PROVE  Following'
<1>1. ASSUME NEW f, Followed(f), NEW w \in Workers PROVE f = rows' \/ Told(watermark, outbox', change')
  <2>1. watermark \in 0..Len(outbox) /\ \A i : Unlisted(i) => i > watermark
    BY PastTypes
  <2> QED
    BY <1>1, <2>1, FollowedStays DEF Followed
<1>2. \A w \in Workers : Loaded(w)' = Loaded(w)
  BY DEF Loaded, At
<1>3. ASSUME active' # None
      PROVE  /\ Followed(active)'
             /\ \A w \in Workers : Loaded(w)' \/ Learns(active, work[w])'
  <2>1. Followed(active) /\ \A w \in Workers : Loaded(w) \/ Learns(active, work[w])
    BY <1>3 DEF Following
  <2>2. active = rows' \/ Told(watermark, outbox', change')
    <3>1. watermark \in 0..Len(outbox) /\ \A i : Unlisted(i) => i > watermark
      BY DEF Types, WorkTypes, Unlisted
    <3> QED
      BY <2>1, <3>1, FollowedStays DEF Followed
  <2>3. ASSUME NEW w \in Workers, ~Loaded(w)
        PROVE  Open(work'[w], outbox') => active = rows' \/ Told(Past(work'[w]), outbox', change')
    BY <2>1, <2>3, LearnsStays
  <2> QED
    BY <1>2, <2>2, <2>3 DEF Followed, Learns
<1>4. ASSUME NEW w \in Workers, Loaded(w)
      PROVE  Followed(work[w].load)' /\ \A v \in Workers : Learns(work[w].load, work[v])'
  <2> DEFINE f == work[w].load
  <2>1. Followed(f) /\ \A v \in Workers : Learns(f, work[v])
    BY <1>4 DEF Following
  <2>2. f = work'[w].load
    OBVIOUS
  <2> HIDE DEF f
  <2>3. f = rows' \/ Told(watermark, outbox', change')
    BY <1>1, <2>1
  <2>4. ASSUME NEW v \in Workers
        PROVE  Open(work'[v], outbox') => f = rows' \/ Told(Past(work'[v]), outbox', change')
    BY <2>1, LearnsStays
  <2> QED
    BY <2>2, <2>3, <2>4 DEF Followed, Learns
<1> QED
  BY <1>2, <1>3, <1>4 DEF Following

\* What a worker's step leaves of the rest.
Apart == UNCHANGED <<rows, outbox, change>>

LEMMA AdvancesLearns ==
  ASSUME NEW f, NEW h, NEW g, Advances(h, g), Followed(f), Learns(f, h)
  PROVE  Learns(f, g)
BY DEF Advances, Learns, Followed

\* A worker goes on; if it moves the watermark, it moves it to where it has been.
LEMMA WorkerFollows ==
  ASSUME Types, Following, Apart, UNCHANGED active, NEW w \in Workers, NEW g,
         work' = [work EXCEPT ![w] = g], Advances(work[w], g),
         watermark' = watermark \/ (watermark' = work[w].last /\ work[w].pc = "mark"),
         g.pc \in {"incr", "store", "activate"} => Loaded(w) /\ g.load = work[w].load,
         Loaded(w) /\ Open(g, outbox) => g.pc \in {"incr", "store", "activate"}
  PROVE  Following'
<1>0. /\ \A v \in Workers : work'[v] = IF v = w THEN g ELSE work[v]
      /\ rows' = rows /\ outbox' = outbox /\ change' = change
  BY DEF Types, WorkTypes, Apart
<1>1. ASSUME NEW f, Followed(f), Learns(f, work[w]) \/ watermark' = watermark
      PROVE  f = rows \/ Told(watermark', outbox, change)
  <2>1. CASE watermark' = watermark
    BY <1>1, <2>1 DEF Followed
  <2>2. CASE watermark' = work[w].last /\ work[w].pc = "mark" /\ Learns(f, work[w])
    BY <2>2 DEF Learns, Open, Rests, WillRebuild, Past
  <2> QED
    BY <1>1, <2>1, <2>2
<1>2. Loaded(w) => watermark' = watermark
  BY DEF Loaded, At
<1>3. ASSUME active # None
      PROVE  /\ active = rows \/ Told(watermark', outbox, change)
             /\ \A v \in Workers : Loaded(v)' \/ Learns(active, work'[v])
  <2>1. Followed(active) /\ \A v \in Workers : Loaded(v) \/ Learns(active, work[v])
    BY <1>3 DEF Following
  <2>2. active = rows \/ Told(watermark', outbox, change)
    BY <1>1, <1>2, <2>1
  <2>3. ASSUME NEW v \in Workers, v # w PROVE Loaded(v)' \/ Learns(active, work'[v])
    BY <1>0, <2>1, <2>3 DEF Loaded, At
  <2>4. CASE Loaded(w)
    <3>1. Loaded(w)' \/ ~Open(g, outbox)
      BY <1>0, <2>4 DEF Loaded, At
    <3>2. Loaded(w)' \/ Learns(active, work'[w])
      BY <1>0, <3>1 DEF Learns
    <3> QED
      BY <2>2, <2>3, <3>2
  <2>5. CASE ~Loaded(w)
    <3>1. Learns(active, g)
      BY <2>1, <2>5, AdvancesLearns
    <3> QED
      BY <1>0, <2>2, <2>3, <3>1
  <2> QED
    BY <2>4, <2>5
<1>4. ASSUME NEW u \in Workers, Loaded(u)'
      PROVE  LET f == work'[u].load
             IN  /\ f = rows \/ Told(watermark', outbox, change)
                 /\ \A v \in Workers : Learns(f, work'[v])
  <2> DEFINE f == work[u].load
  <2>1. Loaded(u) /\ work'[u].load = f
    BY <1>0, <1>4 DEF Loaded, At
  <2>2. Followed(f) /\ \A v \in Workers : Learns(f, work[v])
    BY <2>1 DEF Following
  <2> HIDE DEF f
  <2>3. f = rows \/ Told(watermark', outbox, change)
    BY <1>1, <2>2
  <2>4. ASSUME NEW v \in Workers PROVE Learns(f, work'[v])
    BY <1>0, <2>2, AdvancesLearns
  <2> QED
    BY <2>1, <2>3, <2>4
<1>5. active' = active
  OBVIOUS
<1>6. active' # None => Followed(active)' /\ \A v \in Workers : Loaded(v)' \/ Learns(active, work[v])'
  BY <1>0, <1>3, <1>5 DEF Followed, Learns
<1>7. \A u \in Workers : Loaded(u)' => Followed(work[u].load)' /\ \A v \in Workers : Learns(work[u].load, work[v])'
  BY <1>0, <1>4 DEF Followed, Learns
<1> QED
  BY <1>6, <1>7 DEF Following

\* Who reads the rows alone follows them.
LEMMA LoadFollows ==
  ASSUME Types, Order, Following, Apart, UNCHANGED <<active, watermark>>, NEW w \in Workers,
         At(w, {"load"}), work' = [work EXCEPT ![w].load = rows, ![w].pc = "incr"]
  PROVE  Following'
<1> DEFINE g == [work[w] EXCEPT !.load = rows, !.pc = "incr"]
<1>1. work' = [work EXCEPT ![w] = g]
  OBVIOUS
<1>2. g.pc = "incr" /\ g.load = rows
  BY DEF Types, WorkTypes, Worker
<1> HIDE DEF g
<1>3. /\ \A v \in Workers : work'[v] = IF v = w THEN g ELSE work[v]
      /\ rows' = rows /\ outbox' = outbox /\ change' = change /\ watermark' = watermark
  BY <1>1 DEF Types, WorkTypes, Apart
<1>4. \A v \in Workers : v # w => ~Loaded(v)
  BY Alone DEF At, Locked, Loaded
<1>5. Loaded(w)' /\ \A v \in Workers : v # w => ~Loaded(v)'
  BY <1>2, <1>3, <1>4 DEF Loaded, At
<1>6. active' # None => Followed(active)' /\ \A v \in Workers : Loaded(v)' \/ Learns(active, work[v])'
  BY <1>3, <1>4, <1>5 DEF Following, Followed, Learns
<1>7. Followed(work[w].load)' /\ \A v \in Workers : Learns(work[w].load, work[v])'
  BY <1>2, <1>3 DEF Followed, Learns
<1> QED
  BY <1>5, <1>6, <1>7 DEF Following

\* What is activated was followed.
LEMMA ActivateFollows ==
  ASSUME Types, Order, NoRequests, Following, Apart, UNCHANGED watermark, NEW w \in Workers, Activate(w)
  PROVE  Following'
<1>0. /\ At(w, {"activate"}) /\ Loaded(w) /\ active' = work[w].load
      /\ \A v \in Workers : v # w => ~Loaded(v)
      /\ work \in [Workers -> Worker]
  BY Alone DEF Activate, Order, At, Loaded, Locked, Types, WorkTypes
<1>1. PICK ok \in BOOLEAN : Finish(w, ok)
  BY DEF Activate
<1>2. /\ \A v \in Workers : v # w => work'[v] = work[v]
      /\ work'[w].pc = "unlock" /\ work'[w].ok = ok /\ work'[w].last = work[w].last
  BY <1>0, <1>1, FinishedUnlocks
<1>3. rows' = rows /\ outbox' = outbox /\ change' = change /\ watermark' = watermark
  BY DEF Apart
<1>4. \A v \in Workers : ~Loaded(v)'
  BY <1>0, <1>2 DEF Loaded, At
<1> DEFINE f == work[w].load
<1>5. Followed(f) /\ \A v \in Workers : Learns(f, work[v])
  BY <1>0 DEF Following
<1>6. ASSUME NEW v \in Workers PROVE Learns(f, work'[v])
  <2>1. CASE v = w
    <3>1. Past(work'[w]) = Past(work[w]) /\ Open(work[w], outbox)
      BY <1>0, <1>2 DEF Past, At, Open, Rests, WillRebuild
    <3> QED
      BY <1>5, <2>1, <3>1 DEF Learns
  <2>2. CASE v # w
    BY <1>2, <1>5, <2>2
  <2> QED
    BY <2>1, <2>2
<1> HIDE DEF f
<1>7. active' = f
  BY <1>0 DEF f
<1>8. Followed(active)' /\ \A v \in Workers : Learns(active, work[v])'
  BY <1>3, <1>5, <1>6, <1>7 DEF Followed, Learns
<1> QED
  BY <1>4, <1>8 DEF Following

\* A process that starts again has listed nothing.
LEMMA CrashFollows ==
  ASSUME Types, Types', [Next]_vars, gaps' = {}, Following, Crash
  PROVE  Following'
<1>1. UNCHANGED <<active, watermark, rows, outbox>> /\ \A w \in Workers : work'[w] = Started(w)
  BY DEF Crash, database
<1>2. \A w \in Workers : ~Loaded(w)' /\ ~Open(work'[w], outbox')
  BY <1>1, StartedLists DEF Loaded, At, Open, Rests, WillRebuild
<1>3. active # None => active = rows' \/ Told(watermark, outbox', change')
  <2>1. watermark \in 0..Len(outbox) /\ \A i : Unlisted(i) => i > watermark
    BY DEF Types, WorkTypes, Unlisted
  <2> QED
    BY <2>1, FollowedStays DEF Followed, Following
<1> QED
  BY <1>1, <1>2, <1>3 DEF Following, Followed, Learns

\* One step of a rebuild.
LEMMA RebuildFollows ==
  ASSUME Types, Order, PollsList, NoRequests, gaps' = {}, Following, Apart, UNCHANGED watermark,
         NEW w \in Workers, RebuildBucket(w)
  PROVE  Following'
<1>0. work \in [Workers -> Worker] /\ work[w] \in Worker
  BY DEF Types, WorkTypes
<1>1. ASSUME NEW ok \in BOOLEAN, work' = [work EXCEPT ![w] = Rebuilt(w, ok)], UNCHANGED active, ~Loaded(w),
             \/ ~ok \/ setup.role[w] # "poll"
             \/ work[w].pc = "unlock" /\ work[w].ok
      PROVE  Following'
  <2> DEFINE g == Rebuilt(w, ok)
  <2>1. Advances(work[w], g)
    BY <1>1, RebuiltAdvances
  <2>2. g.pc \in {"stopped", "idle", "event"}
    BY <1>0, RebuiltPlace
  <2>3. work' = [work EXCEPT ![w] = g]
    BY <1>1
  <2> HIDE DEF g
  <2> QED
    BY <1>1, <2>1, <2>2, <2>3, WorkerFollows
<1>2. ASSUME Finish(w, FALSE), UNCHANGED active PROVE Following'
  <2>1. setup.role[w] # "request"
    BY DEF NoRequests, Requests
  <2> DEFINE g == [work[w] EXCEPT !.pc = "unlock", !.load = None, !.ok = FALSE]
  <2>2. work' = [work EXCEPT ![w] = g]
    BY <1>2, <2>1 DEF Finish
  <2>3. g.pc = "unlock" /\ ~g.ok
    BY <1>0 DEF Worker
  <2> HIDE DEF g
  <2>4. WillRebuild(g, outbox)
    BY <2>3 DEF WillRebuild
  <2>5. Advances(work[w], g) /\ ~Open(g, outbox)
    BY <2>4, AtRest DEF Open
  <2> QED
    BY <1>2, <2>2, <2>3, <2>5, WorkerFollows
<1>3. ASSUME NEW pc \in {"store", "activate"}, To(w, pc), Loaded(w), UNCHANGED active PROVE Following'
  <2> DEFINE g == [work[w] EXCEPT !.pc = pc]
  <2>1. work' = [work EXCEPT ![w] = g]
    BY <1>3 DEF To
  <2>2. g.pc = pc /\ g.load = work[w].load /\ g.last = work[w].last
    BY <1>0 DEF Worker
  <2> HIDE DEF g
  <2>3. Open(work[w], outbox) /\ Past(g) = Past(work[w])
    BY <1>3, <2>2 DEF Loaded, At, Open, Rests, WillRebuild, Past
  <2>4. Advances(work[w], g)
    BY <2>3, SameToDo
  <2> QED
    BY <1>3, <2>1, <2>2, <2>4, WorkerFollows
<1>4. CASE TryLockBucket(w)
  <2>1. UNCHANGED active /\ At(w, {"lock"}) /\ ~Loaded(w)
    BY <1>4 DEF TryLockBucket, At, Loaded
  <2>2. CASE To(w, "load")
    <3> DEFINE g == [work[w] EXCEPT !.pc = "load"]
    <3>1. work' = [work EXCEPT ![w] = g]
      BY <2>2 DEF To
    <3>2. g.pc = "load"
      BY <1>0 DEF Worker
    <3> HIDE DEF g
    <3>3. WillRebuild(g, outbox)
      BY <3>2 DEF WillRebuild
    <3> QED
      BY <2>1, <3>1, <3>2, <3>3, AtRest, WorkerFollows
  <2>3. CASE setup.role[w] # "poll" /\ work' = [work EXCEPT ![w] = Rebuilt(w, TRUE)]
    BY <1>1, <2>1, <2>3
  <2>4. CASE work' = [work EXCEPT ![w] = Rebuilt(w, FALSE)]
    BY <1>1, <2>1, <2>4
  <2>5. "locked" \notin gaps'
    OBVIOUS
  <2> QED
    BY <1>4, <2>2, <2>3, <2>4, <2>5 DEF TryLockBucket
<1>5. CASE UnlockBucket(w)
  <2>1. /\ UNCHANGED active /\ work[w].pc = "unlock" /\ ~Loaded(w)
        /\ work' = [work EXCEPT ![w] = Rebuilt(w, work[w].ok)] /\ work[w].ok \in BOOLEAN
    BY <1>0, <1>5 DEF UnlockBucket, At, Loaded, Worker
  <2>2. CASE work[w].ok
    BY <1>1, <2>1, <2>2
  <2>3. CASE ~work[w].ok
    BY <1>1, <2>1, <2>3
  <2> QED
    BY <2>2, <2>3
<1>6. CASE LoadAccounts(w)
  BY <1>2, <1>6, LoadFollows DEF LoadAccounts
<1>7. CASE NewVersion(w)
  BY <1>2, <1>3, <1>7 DEF NewVersion, Loaded, At
<1>8. CASE Store(w)
  BY <1>2, <1>3, <1>8 DEF Store, Loaded, At
<1>9. CASE Activate(w)
  BY <1>9, ActivateFollows
<1> QED
  BY <1>4, <1>5, <1>6, <1>7, <1>8, <1>9 DEF RebuildBucket

\* One step of a poll or a tick.
LEMMA PollFollows ==
  ASSUME Types, PollsList, Following, Apart, UNCHANGED active, NEW w \in Workers,
         PollOutbox(w) \/ TriggerFullRebuild(w)
  PROVE  Following'
<1>1. PICK g : work' = [work EXCEPT ![w] = g] /\ Moves(w, g)
  BY PollMoves
<1>2. Advances(work[w], g) /\ g.pc \notin {"incr", "store", "activate"}
  BY <1>1 DEF Moves
<1>3. ~Loaded(w)
  BY DEF PollOutbox, TriggerFullRebuild, GetOutboxWatermark, ListAfter, HandleOutboxEvent,
         HandleAccountEvent, SetOutboxWatermark, CheckOutboxLag, Loaded, At
<1>4. watermark' = watermark \/ (watermark' = work[w].last /\ work[w].pc = "mark")
  BY DEF PollOutbox, TriggerFullRebuild, GetOutboxWatermark, ListAfter, HandleOutboxEvent,
         HandleAccountEvent, SetOutboxWatermark, CheckOutboxLag, At
<1> QED
  BY <1>1, <1>2, <1>3, <1>4, WorkerFollows

LEMMA FollowingStep ==
  ASSUME Types, Types', Order, PollsList, NoRequests, gaps' = {}, Following, [Next]_vars
  PROVE  Following'
<1>1. ASSUME NEW w \in Workers, Work(w) PROVE Following'
  <2>1. Apart
    BY <1>1 DEF Apart, Work, database, writers
  <2>2. CASE RebuildBucket(w) /\ UNCHANGED watermark
    BY <2>1, <2>2, RebuildFollows
  <2>3. CASE (PollOutbox(w) \/ TriggerFullRebuild(w)) /\ UNCHANGED active
    BY <2>1, <2>3, PollFollows
  <2> QED
    BY <1>1, <2>2, <2>3 DEF Work
<1>2. ASSUME NEW w \in Workers, Fallback(w) PROVE FALSE
  BY <1>2 DEF Fallback, NoRequests, Requests
<1>3. CASE UNCHANGED <<active, watermark, work>>
  BY <1>3, OthersFollow
<1>4. (\E c \in Writers : Write(c)) => UNCHANGED <<active, watermark, work>>
  BY DEF Write, Forget, Enqueue, Commit, Sync, snapshot
<1>5. (\E c \in setup.writers, a \in setup.accounts, op \in setup.ops : Change(c, a, op))
      => UNCHANGED <<active, watermark, work>>
  BY DEF Change, snapshot
<1>6. LockExpires \/ Age \/ UNCHANGED vars => UNCHANGED <<active, watermark, work>>
  BY DEF LockExpires, Age, vars, snapshot
<1>7. CASE Crash
  BY <1>7, CrashFollows
<1> QED
  BY <1>1, <1>2, <1>3, <1>4, <1>5, <1>6, <1>7 DEF Next

LEMMA FreshInvStep == Types /\ Types' /\ OrderInv /\ PollsList /\ FreshInv /\ [Next]_vars => FreshInv'
<1> SUFFICES ASSUME Types, Types', OrderInv, PollsList, FreshInv, [Next]_vars, NoRequests', gaps' = {}
             PROVE  Following'
  BY DEF FreshInv
<1>1. NoRequests /\ gaps = {}
  BY GapsStay DEF NoRequests, Requests
<1>2. Order /\ Following
  BY <1>1 DEF OrderInv, FreshInv
<1> QED
  BY <1>1, <1>2, FollowingStep

LEMMA FreshInit == Init => FreshInv
<1> SUFFICES ASSUME Init PROVE Following
  BY DEF FreshInv
<1>1. \A w \in Workers : ~Loaded(w)
  BY StartedLists DEF Init, Loaded, At
<1> QED
  BY <1>1 DEF Following, Init

\* While no change escapes the outbox, the snapshot and whatever a rebuild has read
\* are the rows of the database, or an event that no poll has gone past, or a writer,
\* tells of the change.
THEOREM SnapshotIsFollowed == Spec => []FreshInv
BY TypesInvariant, RebuildsAreOrdered, PollsListInvariant, FreshInit, FreshInvStep, PTL DEF Spec

\* A snapshot that has caught up with the outbox lists exactly the accounts that may
\* be scheduled.
THEOREM CaughtUpIsFresh == Spec => []CaughtUpMeansFresh
<1>1. Types /\ FreshInv => CaughtUpMeansFresh
  <2> SUFFICES ASSUME Types, FreshInv, gaps = {}, Requests = {}, active # None,
                      \A c \in Writers : change[c].pc = "idle",
                      \A i \in DOMAIN outbox : outbox[i].visible => i <= watermark
               PROVE  On(active) = On(rows)
    BY DEF CaughtUpMeansFresh
  <2>1. active = rows \/ Told(watermark, outbox, change)
    BY DEF FreshInv, NoRequests, Following, Followed
  <2>2. ~Told(watermark, outbox, change)
    <3>1. \A c \in Writers : ~Writing(change[c])
      BY DEF Writing
    <3>2. ASSUME NEW i \in DOMAIN outbox, i > watermark, outbox[i].visible PROVE FALSE
      <4> i \in Nat /\ watermark \in Nat /\ i <= watermark
        BY <3>2 DEF Types, ChangeTypes, WorkTypes
      <4> QED
        BY <3>2
    <3> QED
      BY <3>1, <3>2 DEF Told
  <2> QED
    BY <2>1, <2>2
<1> QED
  BY <1>1, TypesInvariant, SnapshotIsFollowed, PTL

=============================================================================
