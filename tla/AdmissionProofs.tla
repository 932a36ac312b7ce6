--------------------------- MODULE AdmissionProofs ---------------------------
(***************************************************************************)
(* Safety of admission control, for any number of requests, accounts and   *)
(* processes, any limits and any faults.                                   *)
(***************************************************************************)
EXTENDS Admission, FiniteSetTheorems, FunctionTheorems, TLAPS

\* One server at a time: a process starts after its predecessor is gone.
OneServer == \A s \in Setups : ~s.replicas

\* newSelectionResult never fails on an account whose slot was taken.
AccountsReadBack ==
  \A s \in Setups :
    s.snapshot => s.accountLimit = 0 \/ (~s.disconnects /\ "hydrate" \notin s.faults)

-----------------------------------------------------------------------------
(* The invariants *)

Types ==
  /\ setup \in Setups
  /\ clock \in 0..MaxClock
  /\ slots \in [Keys -> SUBSET Member]
  /\ waits \in [Keys -> Nat]
  /\ lock \in [Accounts -> Lock \cup {None}]
  /\ req \in [Requests -> Handler]

\* Labels where a handler has no serial lock, no account slot, no user slot
\* (while it seeks one), where it has chosen an account, and where it counts as
\* waiting.
Unlocked == {"idle", "fast", "count", "try", "wait", "uncount", "select", "grab", "session",
             "queue", "poll", "free"}
Slotless == {"idle", "fast", "count", "try", "wait", "select", "grab"}
Seeking  == {"idle", "fast", "count", "try", "wait"}
Chosen   == {"grab", "session", "queue", "poll", "delay", "forward", "stream", "unlock", "free"}
Counted  == {"try", "wait", "uncount"}

\* What a handler that is alive has at its label.
Labelled(h) ==
  /\ h.pc \in Unlocked => h.queue = None
  /\ h.pc \in Slotless => h.acct = None
  /\ h.pc \in Seeking /\ h.account = None => h.user = None
  /\ h.pc \in Chosen => h.account # None
  /\ h.account = None => h.acct = None /\ h.queue = None
  /\ h.counted = IF h.pc \notin Counted THEN None
                 ELSE IF h.account = None THEN User ELSE h.account

Labels == \A r \in Requests : ~At(r, {"dead"}) => Labelled(req[r])

\* A release function is for a slot or a lock of its own request.
Own ==
  \A r \in Requests :
    /\ req[r].user # None => req[r].user.owner = r
    /\ req[r].acct # None => req[r].acct.owner = r
    /\ req[r].queue # None => req[r].queue.owner = r

\* Nonces are handed out in order.
Nonces == \A k \in Keys : \A m \in slots[k] : m.nonce <= req[m.owner].nonce

\* acquireScript keeps a set within its limit, expired members included.
Bounded ==
  \A k \in Keys :
    /\ IsFiniteSet(slots[k])
    /\ Limit(k) > 0 => Cardinality(slots[k]) <= Limit(k)

\* The serial lock in hand is the one Redis has, until it expires.
LockIsKept ==
  \A r \in Requests :
    ~At(r, {"dead"}) /\ req[r].queue # None /\ req[r].queue.until > clock
      => lock[req[r].account] = req[r].queue

\* A request that has not arrived is not canceled and has no account.
Resting == \A r \in Requests : At(r, {"idle"}) => ~req[r].canceled /\ req[r].account = None

\* Without disconnects a context ends with its request.
Attended ==
  ~setup.disconnects => \A r \in Requests : req[r].canceled => At(r, {"done", "dead"})

\* What holds of any number of servers.
BaseInv == Types /\ Labels /\ Own /\ Nonces /\ Bounded /\ LockIsKept /\ Resting /\ Attended

\* The slot r holds, if any, is one of k.
HasKey(r, k) == k = User \/ req[r].account = k

Held(r, k) == Slot(r, k) # None /\ HasKey(r, k)

\* A slot in hand is in Redis until it expires.
HeldIsKept ==
  \A r \in Requests, k \in Keys :
    ~At(r, {"dead"}) /\ Held(r, k) /\ Slot(r, k).at + SlotTTL > clock => Slot(r, k) \in slots[k]

\* The first process dies with its handlers and does not come back.
Served ==
  /\ running = {setup.first} \/ setup.first \notin running
  /\ \A r \in Requests :
       /\ At(r, {"dead"}) => ProcessOf(r) = setup.first /\ setup.first \notin running
       /\ ~At(r, {"dead", "idle"}) => ProcessOf(r) \in running

\* What a dead handler left in Redis is gone or known to be left behind.
DeadIsBehind ==
  running # {} =>
    \A k \in Keys : \A m \in slots[k] :
      At(m.owner, {"dead"}) => m.nonce < req[m.owner].nonce

Waiting(k) == {r \in Requests : req[r].counted = k}

\* Without errors or disconnects the counters are exact.
Exact ==
  setup.faults = {} /\ ~setup.disconnects =>
    \A k \in Keys : IsFiniteSet(Waiting(k)) /\ waits[k] = Cardinality(Waiting(k))

\* What needs that one server runs at a time.
ServerInv == HeldIsKept /\ Served /\ DeadIsBehind /\ Exact

\* A member of a set is in hand, or was left behind before the current nonce.
KeptIsHeld ==
  \A k \in Keys : \A m \in slots[k] :
    \/ Slot(m.owner, k) = m /\ HasKey(m.owner, k)
    \/ m.nonce < req[m.owner].nonce

-----------------------------------------------------------------------------
(* Steps of a handler *)

\* What a step of r does to the slots: it removes expired members or its own,
\* adds one of its own that it then holds or disowns, and stays in the limit.
SlotStep(r) ==
  /\ slots' \in [Keys -> SUBSET Member]
  /\ \A k \in Keys : \A m \in slots[k] :
       \/ m \in slots'[k]
       \/ m.at + SlotTTL <= clock
       \/ m.owner = r /\ Slot(r, k)' # m
  /\ \A k \in Keys : \A m \in slots'[k] :
       \/ m \in slots[k]
       \/ /\ m = NewMember(r)
          /\ (Slot(r, k)' = m /\ HasKey(r, k)') \/ req'[r].nonce > req[r].nonce
  /\ \A k \in Keys : Held(r, k)' =>
       \/ Slot(r, k)' = Slot(r, k) /\ HasKey(r, k)
       \/ Slot(r, k)' = NewMember(r) /\ NewMember(r) \in slots'[k]
  /\ \A k \in Keys :
       \/ slots'[k] \subseteq slots[k]
       \/ /\ Limit(k) > 0 /\ ~Full(k)
          /\ slots'[k] \subseteq Unexpired(k) \cup {NewMember(r)}

\* It does not lose a release function of a slot that is still in Redis.
Remembers(r) ==
  \A k \in Keys : Held(r, k) =>
    \/ Slot(r, k)' = Slot(r, k) /\ HasKey(r, k)'
    \/ Slot(r, k) \notin slots'[k]
    \/ req'[r].nonce > req[r].nonce

\* It takes a serial lock that is free, or gives back its own.
LockStep(r) ==
  /\ lock' \in [Accounts -> Lock \cup {None}]
  /\ \A a \in Accounts :
       lock'[a] = lock[a] \/ LockOf(a) = None \/ LockOf(a) = req[r].queue
  /\ req'[r].queue # None =>
       \/ req'[r].queue = req[r].queue /\ req'[r].account = req[r].account /\ lock' = lock
       \/ req'[r].queue = NewLock(r) /\ lock'[req'[r].account] = NewLock(r)

\* It keeps count of itself, if no call fails.
WaitStep(r) ==
  /\ waits' \in [Keys -> Nat]
  /\ setup.faults = {} /\ (req[r].canceled => At(r, {"done"})) =>
       \/ waits' = waits /\ req'[r].counted = req[r].counted
       \/ \E k \in Keys : /\ req[r].counted = None /\ req'[r].counted = k
                          /\ waits' = [waits EXCEPT ![k] = @ + 1]
       \/ \E k \in Keys : /\ req[r].counted = k /\ req'[r].counted = None
                          /\ waits' = [waits EXCEPT ![k] = IF @ > 0 THEN @ - 1 ELSE 0]

\* The handler of r becomes another one, alive and consistent.
HandlerStep(r) ==
  /\ \A q \in Requests : q # r => req'[q] = req[q]
  /\ req' \in [Requests -> Handler]
  /\ ~At(r, {"dead"}) /\ ~At(r, {"dead", "idle"})' /\ (At(r, {"done"}) => At(r, {"done"})')
  /\ Labelled(req'[r])
  /\ req'[r].nonce >= req[r].nonce
  /\ req'[r].canceled => req[r].canceled \/ At(r, {"done"})' \/ setup.disconnects

\* What every step of a handler or of its callbacks does.
Step(r) == HandlerStep(r) /\ SlotStep(r) /\ LockStep(r) /\ WaitStep(r)

-----------------------------------------------------------------------------
(* The calls on slots *)

\* A handler with the slots of r, about to be modified by a call on k.
Carries(r, k, h) ==
  /\ h \in Handler
  /\ k # User => h.user = req[r].user
  /\ k = User => h.acct = req[r].acct
  /\ h.nonce = req[r].nonce

\* The slot of k in a handler.
SlotOf(h, k) == IF k = User THEN h.user ELSE h.acct

\* g is h but for its slot of k and its nonce.
SameBut(g, h, k) ==
  /\ g.pc = h.pc /\ g.account = h.account /\ g.queue = h.queue
  /\ g.counted = h.counted /\ g.canceled = h.canceled
  /\ k # User => g.user = h.user
  /\ k = User => g.acct = h.acct

\* The handler r becomes is h but for its slot of k and its nonce.
Becomes(r, k, h) ==
  /\ req' = [req EXCEPT ![r] = req'[r]]
  /\ req'[r] \in Handler
  /\ SameBut(req'[r], h, k)
  /\ req'[r].nonce >= req[r].nonce

\* The values of Types that the proofs use.
LEMMA Typed ==
  ASSUME Types, NEW r \in Requests
  PROVE  /\ req[r] \in Handler /\ req[r].nonce \in Nat
         /\ setup \in Setup /\ clock \in Nat /\ SlotTTL \in Nat \ {0} /\ LockTTL \in Nat \ {0}
         /\ User \notin Accounts /\ User \in Keys /\ Accounts \subseteq Keys
         /\ None \notin Keys /\ None \notin Member /\ None \notin Lock
         /\ NewMember(r) \in Member
BY AdmissionConstants, SetupsAssumption, NoneAssumption
   DEF Types, Handler, Keys, NewMember, Member

\* The limits are natural numbers.
LEMMA Limits ==
  ASSUME Types, NEW k \in Keys
  PROVE  Limit(k) \in Nat
BY SetupsAssumption DEF Types, Limit, Setup

\* Updating a field of a handler.
LEMMA Updates ==
  ASSUME NEW h \in Handler
  PROVE  /\ \A m \in Member \cup {None} : [h EXCEPT !.user = m] \in Handler
         /\ \A m \in Member \cup {None} : [h EXCEPT !.acct = m] \in Handler
         /\ \A m \in Lock \cup {None} : [h EXCEPT !.queue = m] \in Handler
         /\ \A l \in PCs : [h EXCEPT !.pc = l] \in Handler
         /\ [h EXCEPT !.nonce = @ + 1] \in Handler
<1>1. \A m \in Member \cup {None} : [h EXCEPT !.user = m] \in Handler
  BY DEF Handler
<1>2. \A m \in Member \cup {None} : [h EXCEPT !.acct = m] \in Handler
  BY DEF Handler
<1>3. \A m \in Lock \cup {None} : [h EXCEPT !.queue = m] \in Handler
  BY DEF Handler
<1>4. \A l \in PCs : [h EXCEPT !.pc = l] \in Handler
  BY DEF Handler
<1>5. [h EXCEPT !.nonce = @ + 1] \in Handler
  BY DEF Handler
<1> QED BY <1>1, <1>2, <1>3, <1>4, <1>5

\* Taking or dropping a slot changes that field only.
LEMMA HoldingFields ==
  ASSUME NEW h \in Handler, NEW k, NEW m \in Member \cup {None}
  PROVE  /\ Holding(h, k, m) \in Handler
         /\ SameBut(Holding(h, k, m), h, k)
         /\ SlotOf(Holding(h, k, m), k) = m
         /\ Holding(h, k, m).nonce = h.nonce
<1>1. Holding(h, k, m) \in Handler
  BY Updates DEF Holding
<1> QED BY <1>1 DEF Holding, Handler, SameBut, SlotOf

\* So does counting the nonce on.
LEMMA NonceFields ==
  ASSUME NEW h \in Handler
  PROVE  /\ [h EXCEPT !.nonce = @ + 1] \in Handler
         /\ \A k : SameBut([h EXCEPT !.nonce = @ + 1], h, k)
         /\ \A k : SlotOf([h EXCEPT !.nonce = @ + 1], k) = SlotOf(h, k)
         /\ [h EXCEPT !.nonce = @ + 1].nonce = h.nonce + 1
<1>1. [h EXCEPT !.nonce = @ + 1] \in Handler
  BY Updates
<1> QED BY <1>1 DEF Handler, SameBut, SlotOf

\* The handler of r is replaced by g.
Sets(r, g) == req' = [req EXCEPT ![r] = g]

LEMMA Replaced ==
  ASSUME Types, NEW r \in Requests, NEW g \in Handler, Sets(r, g)
  PROVE  /\ req' = [req EXCEPT ![r] = req'[r]]
         /\ req'[r] = g
         /\ \A k : Slot(r, k)' = SlotOf(g, k) /\ Slot(r, k) = SlotOf(req[r], k)
         /\ \A k : HasKey(r, k)' <=> (k = User \/ g.account = k)
BY DEF Types, Slot, SlotOf, HasKey, Sets

\* Members that acquireScript keeps.
LEMMA UnexpiredMembers ==
  ASSUME Types, NEW k \in Keys
  PROVE  /\ Unexpired(k) \subseteq slots[k]
         /\ Unexpired(k) \in SUBSET Member
         /\ \A m \in slots[k] : m \notin Unexpired(k) => m.at + SlotTTL <= clock
<1>1. \A m \in slots[k] : m \in Member /\ m.at \in Int
  BY DEF Types, Member
<1> QED BY <1>1, AdmissionConstants DEF Unexpired, Types

\* acquireScript grants the slot, or there is no limit.
LEMMA GrantsStep ==
  ASSUME BaseInv, NEW r \in Requests, NEW k \in Keys, NEW h, Carries(r, k, h),
         h.account = req[r].account, HasKey(r, k), Slot(r, k) = None, SlotOf(h, k) = None,
         Grants(r, k, h)
  PROVE  Becomes(r, k, h) /\ SlotStep(r) /\ Remembers(r) /\ budget' = budget
<1> USE DEF BaseInv
<1>1. /\ req[r] \in Handler /\ NewMember(r) \in Member /\ None \notin Member /\ h \in Handler
      /\ req[r].nonce \in Nat /\ h.nonce = req[r].nonce
  BY Typed DEF Carries
<1>2. Unexpired(k) \subseteq slots[k] /\ slots \in [Keys -> SUBSET Member]
  BY UnexpiredMembers DEF Types
<1>3. CASE Limit(k) = 0
  <2>1. Sets(r, h) /\ slots' = slots /\ budget' = budget
    BY <1>3 DEF Grants, Sets
  <2>2. Becomes(r, k, h)
    BY <2>1, <1>1, Replaced DEF Becomes, SameBut
  <2>3. \A x \in Keys : Slot(r, x)' = Slot(r, x) /\ HasKey(r, x)' = HasKey(r, x)
    BY <2>1, <1>1, Replaced DEF SlotOf, HasKey, Carries
  <2> QED BY <2>1, <2>2, <2>3, <1>2 DEF SlotStep, Remembers, Held
<1>4. CASE Limit(k) # 0
  <2> DEFINE g == Holding(h, k, NewMember(r))
  <2>1. /\ Sets(r, g) /\ budget' = budget
        /\ slots' = [slots EXCEPT ![k] = Unexpired(k) \cup {NewMember(r)}]
        /\ ~Full(k) /\ Limit(k) > 0
    BY <1>4, Limits DEF Grants, Sets
  <2>a. g \in Handler /\ SameBut(g, h, k) /\ SlotOf(g, k) = NewMember(r) /\ g.nonce = h.nonce
    BY <1>1, HoldingFields
  <2> HIDE DEF g
  <2>2. Becomes(r, k, h)
    BY <2>1, <2>a, <1>1, Replaced DEF Becomes
  <2>3. /\ Slot(r, k)' = NewMember(r)
        /\ \A x \in Keys : HasKey(r, x)' = HasKey(r, x)
        /\ \A x \in Keys : HasKey(r, x) /\ x # k => Slot(r, x)' = Slot(r, x)
    BY <2>1, <2>a, Replaced DEF SlotOf, SameBut, HasKey, Carries
  <2>4. slots' \in [Keys -> SUBSET Member]
    BY <2>1, <1>1, <1>2
  <2>5. /\ slots'[k] = Unexpired(k) \cup {NewMember(r)}
        /\ \A x \in Keys : x # k => slots'[x] = slots[x]
    BY <2>1, <1>2
  <2>6. \A m \in slots[k] : m \in slots'[k] \/ m.at + SlotTTL <= clock
    BY <2>5, UnexpiredMembers
  <2>7. SlotStep(r)
    BY <2>1, <2>3, <2>4, <2>5, <2>6, <1>2 DEF SlotStep, Held
  <2>8. Remembers(r)
    BY <2>3 DEF Remembers, Held
  <2> QED BY <2>1, <2>2, <2>7, <2>8
<1> QED BY <1>3, <1>4

\* A call that leaves the handler's slots as they are: what is common to a denied
\* and to a failed attempt.
LEMMA KeptSlots ==
  ASSUME BaseInv, NEW r \in Requests, NEW k \in Keys, NEW h, Carries(r, k, h),
         SlotOf(h, k) = Slot(r, k), h.account = req[r].account \/ req[r].acct = None,
         Sets(r, h) \/ Sets(r, [h EXCEPT !.nonce = @ + 1])
  PROVE  /\ Becomes(r, k, h) /\ SlotOf(req'[r], k) = SlotOf(h, k)
         /\ Remembers(r)
         /\ \A x \in Keys : Slot(r, x)' = Slot(r, x)
         /\ \A x \in Keys : Held(r, x)' => HasKey(r, x)
         /\ Sets(r, [h EXCEPT !.nonce = @ + 1]) => req'[r].nonce > req[r].nonce
<1> USE DEF BaseInv
<1>1. /\ req[r] \in Handler /\ None \notin Member /\ h \in Handler
      /\ req[r].nonce \in Nat /\ h.nonce = req[r].nonce
  BY Typed DEF Carries
<1> DEFINE n == [h EXCEPT !.nonce = @ + 1]
<1>2. n \in Handler /\ SameBut(n, h, k) /\ SlotOf(n, k) = SlotOf(h, k) /\ n.nonce = h.nonce + 1
  BY <1>1, NonceFields
<1>3. PICK g \in {h, n} : Sets(r, g)
  OBVIOUS
<1> HIDE DEF n
<1>4. /\ g \in Handler /\ SameBut(g, h, k) /\ SlotOf(g, k) = SlotOf(h, k) /\ g.nonce >= h.nonce
      /\ g = n => g.nonce > h.nonce
  BY <1>1, <1>2 DEF SameBut
<1>5. Sets(r, n) => req'[r] = n
  BY <1>2, Replaced
<1>6. req'[r] = g
  BY <1>3, <1>4, Replaced
<1>7. Becomes(r, k, h) /\ SlotOf(req'[r], k) = SlotOf(h, k)
  BY <1>1, <1>3, <1>4, <1>6, Replaced DEF Becomes
<1>8. \A x \in Keys : Slot(r, x)' = Slot(r, x)
  BY <1>3, <1>4, Replaced DEF SlotOf, SameBut, Carries
<1>9. \A x \in Keys : HasKey(r, x)' <=> (x = User \/ h.account = x)
  BY <1>3, <1>4, Replaced DEF SameBut
<1>10. /\ \A x \in Keys : Held(r, x) => HasKey(r, x)'
       /\ \A x \in Keys : Held(r, x)' => HasKey(r, x)
  BY <1>8, <1>9 DEF Held, HasKey, Slot
<1>11. Remembers(r)
  BY <1>8, <1>10 DEF Remembers
<1>12. Sets(r, n) => req'[r].nonce > req[r].nonce
  BY <1>1, <1>2, <1>5
<1> QED BY <1>7, <1>8, <1>10, <1>11, <1>12 DEF n

\* The set is full: expired members go.
LEMMA DeniesStep ==
  ASSUME BaseInv, NEW r \in Requests, NEW k \in Keys, NEW h, Carries(r, k, h),
         SlotOf(h, k) = Slot(r, k), h.account = req[r].account \/ req[r].acct = None,
         Denies(r, k, h)
  PROVE  /\ Becomes(r, k, h) /\ SlotOf(req'[r], k) = SlotOf(h, k)
         /\ SlotStep(r) /\ Remembers(r) /\ budget' = budget
<1> USE DEF BaseInv
<1>1. /\ Sets(r, h) /\ budget' = budget
      /\ slots' = [slots EXCEPT ![k] = Unexpired(k)]
  BY DEF Denies, Sets
<1>2. /\ Unexpired(k) \subseteq slots[k] /\ slots \in [Keys -> SUBSET Member]
      /\ slots' \in [Keys -> SUBSET Member]
  BY <1>1, UnexpiredMembers DEF Types
<1>3. /\ Becomes(r, k, h) /\ SlotOf(req'[r], k) = SlotOf(h, k) /\ Remembers(r)
      /\ \A x \in Keys : Slot(r, x)' = Slot(r, x)
      /\ \A x \in Keys : Held(r, x)' => HasKey(r, x)
  BY <1>1, KeptSlots
<1>4. /\ \A x \in Keys : slots'[x] \subseteq slots[x]
      /\ \A x \in Keys : \A m \in slots[x] : m \in slots'[x] \/ m.at + SlotTTL <= clock
  BY <1>1, <1>2, UnexpiredMembers
<1>5. SlotStep(r)
  BY <1>2, <1>3, <1>4 DEF SlotStep
<1> QED BY <1>1, <1>3, <1>5

\* The call ends in an error; the member it may have left is disowned.
LEMMA AcquireFailsStep ==
  ASSUME BaseInv, NEW r \in Requests, NEW k \in Keys, NEW h, Carries(r, k, h),
         SlotOf(h, k) = Slot(r, k), h.account = req[r].account \/ req[r].acct = None,
         AcquireFails(r, k, h)
  PROVE  /\ Becomes(r, k, h) /\ SlotOf(req'[r], k) = SlotOf(h, k)
         /\ SlotStep(r) /\ Remembers(r)
<1> USE DEF BaseInv
<1>1. /\ NewMember(r) \in Member /\ Limit(k) > 0
      /\ Unexpired(k) \subseteq slots[k] /\ slots \in [Keys -> SUBSET Member]
  BY Typed, UnexpiredMembers DEF Types, AcquireFails
<1> DEFINE n == [h EXCEPT !.nonce = @ + 1]
<1>2. \/ Sets(r, h) /\ slots' = slots
      \/ Sets(r, n) /\ slots' = slots
      \/ /\ Sets(r, n) /\ ~Full(k)
         /\ slots' = [slots EXCEPT ![k] = Unexpired(k) \cup {NewMember(r)}]
  BY DEF AcquireFails, Sets
<1>3. /\ Becomes(r, k, h) /\ SlotOf(req'[r], k) = SlotOf(h, k) /\ Remembers(r)
      /\ \A x \in Keys : Slot(r, x)' = Slot(r, x)
      /\ \A x \in Keys : Held(r, x)' => HasKey(r, x)
      /\ Sets(r, n) => req'[r].nonce > req[r].nonce
  BY <1>2, KeptSlots
<1> HIDE DEF n
<1>4. CASE slots' = slots
  BY <1>1, <1>3, <1>4 DEF SlotStep
<1>5. CASE /\ Sets(r, n) /\ ~Full(k)
           /\ slots' = [slots EXCEPT ![k] = Unexpired(k) \cup {NewMember(r)}]
  <2>1. /\ slots' \in [Keys -> SUBSET Member]
        /\ slots'[k] = Unexpired(k) \cup {NewMember(r)}
        /\ \A x \in Keys : x # k => slots'[x] = slots[x]
    BY <1>1, <1>5
  <2>2. \A m \in slots[k] : m \in slots'[k] \/ m.at + SlotTTL <= clock
    BY <2>1, UnexpiredMembers
  <2> QED BY <1>1, <1>3, <1>5, <2>1, <2>2 DEF SlotStep
<1> QED BY <1>2, <1>3, <1>4, <1>5

\* A release function is called: the member goes, or is disowned.
LEMMA ReleaseSlotStep ==
  ASSUME BaseInv, NEW r \in Requests, NEW k \in Keys, NEW h, Carries(r, k, h),
         h.account = req[r].account, HasKey(r, k), ReleaseSlot(r, k, h)
  PROVE  /\ Becomes(r, k, h) /\ SlotOf(req'[r], k) = None
         /\ SlotStep(r) /\ Remembers(r)
<1> USE DEF BaseInv
<1>1. /\ req[r] \in Handler /\ None \notin Member /\ h \in Handler /\ User \notin Accounts
      /\ req[r].nonce \in Nat /\ h.nonce = req[r].nonce /\ slots \in [Keys -> SUBSET Member]
  BY Typed DEF Carries, Types
<1> DEFINE e == Holding(h, k, None)
           n == [e EXCEPT !.nonce = @ + 1]
<1>2. e \in Handler /\ SameBut(e, h, k) /\ SlotOf(e, k) = None /\ e.nonce = h.nonce
  BY <1>1, HoldingFields
<1>3. n \in Handler /\ SameBut(n, e, k) /\ SlotOf(n, k) = None /\ n.nonce = h.nonce + 1
  BY <1>2, NonceFields
<1>4. \/ Sets(r, e) /\ slots' = [slots EXCEPT ![k] = @ \ {Slot(r, k)}]
      \/ Sets(r, n) /\ slots' = slots
  BY DEF ReleaseSlot, Sets
<1> HIDE DEF e, n
<1>5. PICK g \in {e, n} : /\ Sets(r, g)
                          /\ \/ g = e /\ slots' = [slots EXCEPT ![k] = @ \ {Slot(r, k)}]
                             \/ g = n /\ slots' = slots
  BY <1>4
<1>6. /\ g \in Handler /\ SameBut(g, h, k) /\ SlotOf(g, k) = None /\ g.nonce >= h.nonce
      /\ g = n => g.nonce > h.nonce
  BY <1>1, <1>2, <1>3 DEF SameBut
<1>7. req'[r] = g /\ Becomes(r, k, h)
  BY <1>1, <1>5, <1>6, Replaced DEF Becomes
<1>8. /\ Slot(r, k)' = None
      /\ \A x \in Keys : HasKey(r, x)' = HasKey(r, x)
      /\ \A x \in Keys : HasKey(r, x) /\ x # k => Slot(r, x)' = Slot(r, x)
  BY <1>5, <1>6, Replaced DEF SlotOf, SameBut, HasKey, Carries
<1>9. Remembers(r)
  <2>1. Slot(r, k) \notin slots'[k] \/ req'[r].nonce > req[r].nonce
    BY <1>1, <1>5, <1>6, <1>7
  <2> QED BY <1>8, <2>1 DEF Remembers, Held
<1>10. /\ slots' \in [Keys -> SUBSET Member]
       /\ \A x \in Keys : slots'[x] \subseteq slots[x]
       /\ \A x \in Keys : \A m \in slots[x] : m \in slots'[x] \/ (x = k /\ m = Slot(r, k))
  BY <1>1, <1>5
<1>11. Slot(r, k) # None => Slot(r, k).owner = r
  BY DEF Own, Slot
<1>12. \A x \in Keys : \A m \in slots[x] : m \in slots'[x] \/ (m.owner = r /\ Slot(r, x)' # m)
  BY <1>1, <1>8, <1>10, <1>11
<1>13. SlotStep(r)
  BY <1>8, <1>10, <1>12 DEF SlotStep, Held
<1> QED BY <1>6, <1>7, <1>9, <1>13

-----------------------------------------------------------------------------
(* Steps without a call on slots *)

\* g agrees with h on everything the invariants speak of but the label.
Alike(g, h) ==
  /\ g.user = h.user /\ g.acct = h.acct /\ g.nonce = h.nonce /\ g.account = h.account
  /\ g.queue = h.queue /\ g.counted = h.counted /\ g.canceled = h.canceled

\* Going on to a label changes nothing else.
LEMMA ToFields ==
  ASSUME Types, NEW r \in Requests, NEW l \in PCs
  PROVE  To(r, l) \in Handler /\ To(r, l).pc = l /\ Alike(To(r, l), req[r])
<1>1. req[r] \in Handler
  BY DEF Types
<1>2. To(r, l) \in Handler
  BY <1>1, Updates DEF To
<1> QED BY <1>1, <1>2 DEF To, Handler, Alike

\* A handler that goes on with the same slots and nonce.
LEMMA NoCall ==
  ASSUME BaseInv, NEW r \in Requests, NEW g \in Handler, Sets(r, g), slots' = slots,
         g.user = req[r].user, g.acct = req[r].acct, g.nonce = req[r].nonce,
         g.account = req[r].account \/ req[r].acct = None
  PROVE  /\ req'[r] = g /\ SlotStep(r) /\ Remembers(r)
         /\ \A q \in Requests : q # r => req'[q] = req[q]
         /\ req' \in [Requests -> Handler]
<1> USE DEF BaseInv
<1>1. Carries(r, User, g) /\ SlotOf(g, User) = Slot(r, User) /\ User \in Keys
  BY Typed DEF Carries, SlotOf, Slot
<1>2. /\ Remembers(r)
      /\ \A x \in Keys : Slot(r, x)' = Slot(r, x)
      /\ \A x \in Keys : Held(r, x)' => HasKey(r, x)
  BY <1>1, KeptSlots
<1>3. SlotStep(r)
  BY <1>2 DEF SlotStep, Types
<1> QED BY <1>2, <1>3, Replaced DEF Types, Sets

\* A call changes the handler of r only.
LEMMA OthersStay ==
  ASSUME Types, NEW r \in Requests, NEW k, NEW h, Becomes(r, k, h)
  PROVE  /\ \A q \in Requests : q # r => req'[q] = req[q]
         /\ req' \in [Requests -> Handler]
         /\ req'[r] \in Handler /\ SameBut(req'[r], h, k) /\ req'[r].nonce >= req[r].nonce
BY DEF Types, Becomes

\* Locks that are left alone.
LEMMA LockStays ==
  ASSUME BaseInv, NEW r \in Requests, lock' = lock,
         req'[r].queue = req[r].queue \/ req'[r].queue = None,
         req'[r].account = req[r].account \/ req'[r].queue = None
  PROVE  LockStep(r)
BY DEF LockStep, BaseInv, Types

\* Wait counters that are left alone.
LEMMA WaitsStay ==
  ASSUME BaseInv, waits' = waits, NEW r \in Requests, req'[r].counted = req[r].counted
  PROVE  WaitStep(r)
BY DEF WaitStep, BaseInv, Types

\* Without a call on a slot the step is the new handler's.
LEMMA MovesOn ==
  ASSUME BaseInv, NEW r \in Requests, NEW g \in Handler, Sets(r, g),
         slots' = slots, ~At(r, {"dead"}), g.pc \notin {"dead", "idle"},
         At(r, {"done"}) => g.pc = "done", Labelled(g),
         g.user = req[r].user, g.acct = req[r].acct, g.nonce = req[r].nonce,
         g.account = req[r].account \/ req[r].acct = None,
         g.canceled => req[r].canceled \/ setup.disconnects
  PROVE  req'[r] = g /\ HandlerStep(r) /\ SlotStep(r) /\ Remembers(r)
<1>1. /\ req'[r] = g /\ SlotStep(r) /\ Remembers(r)
      /\ \A q \in Requests : q # r => req'[q] = req[q]
      /\ req' \in [Requests -> Handler]
  BY NoCall
<1>2. req[r].nonce \in Nat
  BY Typed DEF BaseInv
<1>3. HandlerStep(r)
  BY <1>1, <1>2 DEF HandlerStep, At
<1> QED BY <1>1, <1>3

\* The same, if it touches neither a lock nor a counter.
LEMMA GoesOn ==
  ASSUME BaseInv, NEW r \in Requests, NEW g \in Handler, Sets(r, g),
         slots' = slots, lock' = lock, waits' = waits,
         ~At(r, {"dead"}), g.pc \notin {"dead", "idle"},
         At(r, {"done"}) => g.pc = "done", Labelled(g),
         g.user = req[r].user, g.acct = req[r].acct, g.nonce = req[r].nonce,
         g.account = req[r].account \/ (req[r].acct = None /\ g.queue = None),
         g.queue = req[r].queue \/ g.queue = None, g.counted = req[r].counted,
         g.canceled => req[r].canceled \/ setup.disconnects
  PROVE  Step(r) /\ Remembers(r)
<1>1. req'[r] = g /\ HandlerStep(r) /\ SlotStep(r) /\ Remembers(r)
  BY MovesOn
<1>2. LockStep(r) /\ WaitStep(r)
  BY <1>1, LockStays, WaitsStay
<1> QED BY <1>1, <1>2 DEF Step

\* After a call on a slot the step is the given handler's.
LEMMA CallGoesOn ==
  ASSUME BaseInv, NEW r \in Requests, NEW k \in Keys, NEW h, Becomes(r, k, h), SlotStep(r),
         lock' = lock, waits' = waits,
         ~At(r, {"dead"}), h.pc \notin {"dead", "idle"},
         At(r, {"done"}) => h.pc = "done", Labelled(req'[r]),
         h.account = req[r].account \/ h.queue = None,
         h.queue = req[r].queue \/ h.queue = None, h.counted = req[r].counted,
         h.canceled => req[r].canceled \/ h.pc = "done"
  PROVE  Step(r)
<1>1. /\ \A q \in Requests : q # r => req'[q] = req[q]
      /\ req' \in [Requests -> Handler]
      /\ SameBut(req'[r], h, k) /\ req'[r].nonce >= req[r].nonce
  BY OthersStay DEF BaseInv
<1>2. HandlerStep(r)
  BY <1>1 DEF HandlerStep, SameBut, At
<1>3. LockStep(r) /\ WaitStep(r)
  BY <1>1, LockStays, WaitsStay DEF SameBut
<1> QED BY <1>2, <1>3 DEF Step

\* A request arrives.
LEMMA ArriveStep ==
  ASSUME BaseInv, NEW r \in Requests, Arrive(r)
  PROVE  Step(r) /\ Remembers(r)
<1> DEFINE g == To(r, Seek)
<1>1. /\ Sets(r, g) /\ slots' = slots /\ lock' = lock /\ waits' = waits /\ At(r, {"idle"})
      /\ Labelled(req[r])
  BY DEF Arrive, Sets, To, BaseInv, Labels, At
<1>2. Seek \in {"fast", "count"}
  BY DEF Seek
<1>3. g \in Handler /\ g.pc = Seek /\ Alike(g, req[r])
  BY <1>2, ToFields DEF PCs, BaseInv
<1> HIDE DEF g
<1>4. Labelled(g)
  BY <1>1, <1>2, <1>3 DEF At, Alike, Labelled, Unlocked, Slotless, Seeking, Chosen, Counted
<1> QED BY <1>1, <1>2, <1>3, <1>4, GoesOn DEF At, Alike

\* A wait ends without a slot.
LEMMA GiveUpStep ==
  ASSUME BaseInv, NEW r \in Requests, GiveUp(r)
  PROVE  Step(r) /\ Remembers(r)
<1> DEFINE g == To(r, "uncount")
<1>1. /\ Sets(r, g) /\ slots' = slots /\ lock' = lock /\ waits' = waits /\ At(r, {"wait"})
      /\ Labelled(req[r])
  BY DEF GiveUp, Sets, To, BaseInv, Labels, At
<1>2. g \in Handler /\ g.pc = "uncount" /\ Alike(g, req[r])
  BY ToFields DEF PCs, BaseInv
<1> HIDE DEF g
<1>3. Labelled(g)
  BY <1>1, <1>2 DEF At, Alike, Labelled, Unlocked, Slotless, Seeking, Chosen, Counted
<1> QED BY <1>1, <1>2, <1>3, GoesOn DEF At, Alike

\* The handlers that a selection without a slot leads to have no account slot
\* and no lock to begin with.
LEMMA PlansFields ==
  ASSUME Types, NEW r \in Requests, NEW h \in Plans(r)
  PROVE  /\ h \in Handler /\ h.user = req[r].user /\ h.acct = req[r].acct
         /\ h.nonce = req[r].nonce /\ h.queue = req[r].queue /\ h.counted = req[r].counted
         /\ h.canceled = req[r].canceled
         /\ \/ h.account = req[r].account /\ h.pc \in {"select", "release"}
            \/ h.account # None /\ h.pc \in {"fast", "count"}
<1>1. /\ req[r] \in Handler /\ None \notin Keys /\ setup.accounts \subseteq Accounts
      /\ Accounts \subseteq Keys
  BY SetupsAssumption, NoneAssumption DEF Types, Setup, Keys
<1>2. \A l \in {"select", "release", "fast", "count"} :
        To(r, l) \in Handler /\ To(r, l).pc = l /\ Alike(To(r, l), req[r])
  BY ToFields DEF PCs
<1>3. CASE h \in NoAccount(r)
  <2>1. CASE h = To(r, "release")
    BY <1>2, <2>1 DEF Alike
  <2>2. CASE h = [To(r, "select") EXCEPT !.failed = {}, !.skip = {}]
    BY <1>2, <2>2 DEF Alike, Handler
  <2> QED BY <1>3, <2>1, <2>2 DEF NoAccount
<1>4. ASSUME NEW a \in setup.accounts, h = [To(r, Seek) EXCEPT !.account = a, !.skip = {}]
      PROVE  /\ h \in Handler /\ h.account = a /\ h.pc \in {"fast", "count"}
             /\ h.user = req[r].user /\ h.acct = req[r].acct
             /\ h.nonce = req[r].nonce /\ h.queue = req[r].queue
             /\ h.counted = req[r].counted /\ h.canceled = req[r].canceled
  <2> DEFINE t == To(r, Seek)
  <2>1. t \in Handler /\ t.pc \in {"fast", "count"} /\ Alike(t, req[r]) /\ a \in Accounts
    BY <1>1, <1>2 DEF Seek
  <2>2. h = [t EXCEPT !.account = a, !.skip = {}]
    BY <1>4
  <2> HIDE DEF t
  <2> QED BY <2>1, <2>2 DEF Alike, Handler
<1> QED BY <1>1, <1>3, <1>4 DEF Plans

\* A selection picks an account, plans a wait or ends.
LEMMA SelectStep ==
  ASSUME BaseInv, NEW r \in Requests, Select(r)
  PROVE  Step(r) /\ Remembers(r)
<1> USE DEF BaseInv
<1>1. /\ slots' = slots /\ lock' = lock /\ waits' = waits /\ At(r, {"select"})
      /\ Labelled(req[r]) /\ req[r] \in Handler
      /\ None \notin Keys /\ setup.accounts \subseteq Accounts /\ Accounts \subseteq Keys
  BY SetupsAssumption, NoneAssumption DEF Select, Labels, At, Types, Setup, Keys
<1>2. CASE \E h \in Plans(r) : Sets(r, h)
  <2>1. PICK h \in Plans(r) : Sets(r, h)
    BY <1>2
  <2>2. Labelled(h)
    BY <1>1, <2>1, PlansFields
       DEF At, Labelled, Unlocked, Slotless, Seeking, Chosen, Counted
  <2>3. req[r].acct = None /\ req[r].queue = None
    BY <1>1 DEF At, Labelled, Unlocked, Slotless
  <2> QED BY <1>1, <2>1, <2>2, <2>3, PlansFields, GoesOn DEF At
<1>3. ASSUME NEW a \in setup.accounts, req' = [req EXCEPT ![r].pc = "grab", ![r].account = a]
      PROVE  Step(r) /\ Remembers(r)
  <2> DEFINE g == [req[r] EXCEPT !.pc = "grab", !.account = a]
  <2>1. Sets(r, g)
    BY <1>3 DEF Sets
  <2>2. /\ g \in Handler /\ g.pc = "grab" /\ g.account = a
        /\ g.user = req[r].user /\ g.acct = req[r].acct
        /\ g.nonce = req[r].nonce /\ g.queue = req[r].queue
        /\ g.counted = req[r].counted /\ g.canceled = req[r].canceled
    BY <1>1 DEF Handler, PCs
  <2> HIDE DEF g
  <2>3. Labelled(g)
    BY <1>1, <2>2 DEF At, Labelled, Unlocked, Slotless, Seeking, Chosen, Counted
  <2>4. req[r].acct = None /\ req[r].queue = None
    BY <1>1 DEF At, Labelled, Unlocked, Slotless
  <2> QED BY <1>1, <2>1, <2>2, <2>3, <2>4, GoesOn DEF At
<1> QED BY <1>2, <1>3 DEF Select, Sets

-----------------------------------------------------------------------------
(* Looking for a slot *)

\* The slot a handler seeks is one of its own keys.
LEMMA KeyFields ==
  ASSUME Types, NEW r \in Requests
  PROVE  /\ Key(r) \in Keys /\ HasKey(r, Key(r))
         /\ Key(r) = IF req[r].account = None THEN User ELSE req[r].account
         /\ Key(r) = User <=> req[r].account = None
         /\ req[r].account # None => req[r].account \in Accounts
<1>1. req[r] \in Handler /\ User \notin Accounts
  BY Typed
<1> QED BY <1>1 DEF Handler, Key, Keys, HasKey

\* Going on to a label, a handler carries its slots.
LEMMA ToCarries ==
  ASSUME Types, NEW r \in Requests, NEW k, NEW l \in PCs
  PROVE  /\ Carries(r, k, To(r, l)) /\ SlotOf(To(r, l), k) = Slot(r, k)
         /\ To(r, l) \in Handler /\ To(r, l).pc = l /\ Alike(To(r, l), req[r])
BY ToFields DEF Carries, SlotOf, Slot, Alike

\* Where a granted slot leads.
LEMMA EnteredLabels ==
  ASSUME Types, NEW r \in Requests, NEW l \in Entered(r)
  PROVE  /\ l \in PCs
         /\ IF req[r].account = None THEN l \in {"select", "release"}
            ELSE l \in {"queue", "forward"}
BY KeyFields DEF Entered, PCs

\* The attempt before the request is counted.
LEMMA FastPathStep ==
  ASSUME BaseInv, NEW r \in Requests, FastPath(r)
  PROVE  Step(r) /\ Remembers(r)
<1> USE DEF BaseInv
<1> DEFINE k == Key(r)
<1>1. /\ lock' = lock /\ waits' = waits /\ At(r, {"fast"}) /\ Labelled(req[r])
      /\ k \in Keys /\ HasKey(r, k)
      /\ k = User <=> req[r].account = None
  BY KeyFields DEF FastPath, Labels, At
<1>2. Slot(r, k) = None
  BY <1>1 DEF At, Labelled, Slotless, Seeking, Slot
<1>3. ASSUME NEW l \in Entered(r), Grants(r, k, To(r, l))
      PROVE  Step(r) /\ Remembers(r)
  <2>1. /\ Carries(r, k, To(r, l)) /\ SlotOf(To(r, l), k) = None
        /\ To(r, l).pc = l /\ Alike(To(r, l), req[r])
    BY <1>2, ToCarries, EnteredLabels
  <2>2. Becomes(r, k, To(r, l)) /\ SlotStep(r) /\ Remembers(r)
    BY <1>1, <1>2, <1>3, <2>1, GrantsStep DEF Alike
  <2>3. SameBut(req'[r], To(r, l), k)
    BY <2>2 DEF Becomes
  <2>4. Labelled(req'[r])
    BY <1>1, <2>1, <2>3, EnteredLabels
       DEF At, Alike, SameBut, Labelled, Unlocked, Slotless, Seeking, Chosen, Counted
  <2> QED BY <1>1, <2>1, <2>2, <2>4, EnteredLabels, CallGoesOn DEF At, Alike
<1>4. ASSUME NEW l \in {"count", "release"},
             Denies(r, k, To(r, l)) \/ AcquireFails(r, k, To(r, l))
      PROVE  Step(r) /\ Remembers(r)
  <2>1. /\ Carries(r, k, To(r, l)) /\ SlotOf(To(r, l), k) = Slot(r, k)
        /\ To(r, l).pc = l /\ Alike(To(r, l), req[r])
    BY ToCarries DEF PCs
  <2>2. /\ Becomes(r, k, To(r, l)) /\ SlotStep(r) /\ Remembers(r)
        /\ SlotOf(req'[r], k) = None
    BY <1>1, <1>2, <1>4, <2>1, DeniesStep, AcquireFailsStep DEF Alike
  <2>3. SameBut(req'[r], To(r, l), k)
    BY <2>2 DEF Becomes
  <2>4. Labelled(req'[r])
    BY <1>1, <2>1, <2>2, <2>3
       DEF At, Alike, SameBut, SlotOf, Labelled, Unlocked, Slotless, Seeking, Chosen, Counted
  <2> QED BY <1>1, <2>1, <2>2, <2>4, CallGoesOn DEF At, Alike
<1> QED BY <1>3, <1>4 DEF FastPath

\* An attempt while waiting.
LEMMA AttemptStep ==
  ASSUME BaseInv, NEW r \in Requests, Attempt(r)
  PROVE  Step(r) /\ Remembers(r)
<1> USE DEF BaseInv
<1> DEFINE k == Key(r)
<1>1. /\ lock' = lock /\ waits' = waits /\ At(r, {"try", "wait"}) /\ Labelled(req[r])
      /\ k \in Keys /\ HasKey(r, k)
      /\ k = User <=> req[r].account = None
  BY KeyFields DEF Attempt, Labels, At
<1>2. Slot(r, k) = None
  BY <1>1 DEF At, Labelled, Slotless, Seeking, Slot
<1>3. ASSUME NEW l \in {"uncount", "wait"},
             \/ l = "uncount" /\ Grants(r, k, To(r, l))
             \/ Denies(r, k, To(r, l))
             \/ l = "uncount" /\ AcquireFails(r, k, To(r, l))
      PROVE  Step(r) /\ Remembers(r)
  <2>1. /\ Carries(r, k, To(r, l)) /\ SlotOf(To(r, l), k) = None
        /\ To(r, l).pc = l /\ Alike(To(r, l), req[r])
    BY <1>2, ToCarries DEF PCs
  <2>2. /\ Becomes(r, k, To(r, l)) /\ SlotStep(r) /\ Remembers(r)
        /\ l # "uncount" => SlotOf(req'[r], k) = None
    BY <1>1, <1>2, <1>3, <2>1, GrantsStep, DeniesStep, AcquireFailsStep DEF Alike
  <2>3. SameBut(req'[r], To(r, l), k)
    BY <2>2 DEF Becomes
  <2>4. Labelled(req'[r])
    BY <1>1, <2>1, <2>2, <2>3
       DEF At, Alike, SameBut, SlotOf, Labelled, Unlocked, Slotless, Seeking, Chosen, Counted
  <2> QED BY <1>1, <2>1, <2>2, <2>4, CallGoesOn DEF At, Alike
<1> QED BY <1>1, <1>3 DEF Attempt

\* tryAcquireAccountSlot during the selection.
LEMMA GrabStep ==
  ASSUME BaseInv, NEW r \in Requests, Grab(r)
  PROVE  Step(r) /\ Remembers(r)
<1> USE DEF BaseInv
<1> DEFINE k == Key(r)
<1>1. /\ lock' = lock /\ waits' = waits /\ At(r, {"grab"}) /\ Labelled(req[r])
      /\ k \in Keys /\ HasKey(r, k)
      /\ k = User <=> req[r].account = None
  BY KeyFields DEF Grab, Labels, At
<1>2. Slot(r, k) = None /\ k # User /\ req[r].acct = None /\ req[r].queue = None
  BY <1>1 DEF At, Labelled, Slotless, Chosen, Unlocked, Slot
<1>3. CASE Grants(r, k, To(r, "session"))
  <2>1. /\ Carries(r, k, To(r, "session")) /\ SlotOf(To(r, "session"), k) = None
        /\ To(r, "session").pc = "session" /\ Alike(To(r, "session"), req[r])
    BY <1>2, ToCarries DEF PCs
  <2>2. Becomes(r, k, To(r, "session")) /\ SlotStep(r) /\ Remembers(r)
    BY <1>1, <1>2, <1>3, <2>1, GrantsStep DEF Alike
  <2>3. SameBut(req'[r], To(r, "session"), k)
    BY <2>2 DEF Becomes
  <2>4. Labelled(req'[r])
    BY <1>1, <2>1, <2>3
       DEF At, Alike, SameBut, SlotOf, Labelled, Unlocked, Slotless, Seeking, Chosen, Counted
  <2> QED BY <1>1, <2>1, <2>2, <2>4, CallGoesOn DEF At, Alike
<1>4. ASSUME NEW h \in Plans(r), Denies(r, k, h) \/ AcquireFails(r, k, h)
      PROVE  Step(r) /\ Remembers(r)
  <2>1. /\ h \in Handler /\ h.user = req[r].user /\ h.acct = req[r].acct
        /\ h.nonce = req[r].nonce /\ h.queue = req[r].queue /\ h.counted = req[r].counted
        /\ h.canceled = req[r].canceled
        /\ \/ h.account = req[r].account /\ h.pc \in {"select", "release"}
           \/ h.account # None /\ h.pc \in {"fast", "count"}
    BY PlansFields
  <2>2. Carries(r, k, h) /\ SlotOf(h, k) = Slot(r, k)
    BY <2>1 DEF Carries, SlotOf, Slot
  <2>3. /\ Becomes(r, k, h) /\ SlotStep(r) /\ Remembers(r)
        /\ SlotOf(req'[r], k) = None
    BY <1>1, <1>2, <1>4, <2>1, <2>2, DeniesStep, AcquireFailsStep
  <2>4. SameBut(req'[r], h, k)
    BY <2>3 DEF Becomes
  <2>5. Labelled(req'[r])
    BY <1>1, <1>2, <2>1, <2>3, <2>4
       DEF At, SameBut, SlotOf, Labelled, Unlocked, Slotless, Seeking, Chosen, Counted
  <2> QED BY <1>1, <1>2, <2>1, <2>3, <2>5, CallGoesOn DEF At
<1> QED BY <1>3, <1>4 DEF Grab

\* A request counts itself as waiting, or is refused.
LEMMA CountStep ==
  ASSUME BaseInv, NEW r \in Requests, Count(r)
  PROVE  Step(r) /\ Remembers(r)
<1> USE DEF BaseInv
<1> DEFINE k == Key(r)
           t == [To(r, "try") EXCEPT !.counted = k]
<1>1. /\ slots' = slots /\ lock' = lock /\ At(r, {"count"}) /\ Labelled(req[r])
      /\ k \in Keys /\ (k = IF req[r].account = None THEN User ELSE req[r].account)
      /\ waits \in [Keys -> Nat]
  BY KeyFields DEF Count, Labels, At, Types
<1>2. /\ t \in Handler /\ t.pc = "try" /\ t.counted = k /\ t.canceled = req[r].canceled
      /\ t.user = req[r].user /\ t.acct = req[r].acct /\ t.nonce = req[r].nonce
      /\ t.account = req[r].account /\ t.queue = req[r].queue
  <2> DEFINE u == To(r, "try")
  <2>1. u \in Handler /\ u.pc = "try" /\ Alike(u, req[r])
    BY ToFields DEF PCs
  <2>2. t = [u EXCEPT !.counted = k]
    OBVIOUS
  <2> HIDE DEF u, t
  <2> QED BY <1>1, <2>1, <2>2 DEF Alike, Handler
<1>3. /\ To(r, "release") \in Handler /\ To(r, "release").pc = "release"
      /\ Alike(To(r, "release"), req[r])
  BY ToFields DEF PCs
<1>4. req[r].counted = None
  BY <1>1 DEF At, Labelled, Counted
<1>5. \/ /\ Sets(r, t)
         /\ waits' = waits \/ waits' = [waits EXCEPT ![k] = @ + 1]
         /\ setup.faults = {} /\ ~req[r].canceled => waits' = [waits EXCEPT ![k] = @ + 1]
      \/ Sets(r, To(r, "release")) /\ waits' = waits
  BY DEF Count, IncrementWaitCount, Sets, Fault
<1> HIDE DEF t
<1>6. waits' \in [Keys -> Nat]
  BY <1>1, <1>5
<1>7. CASE Sets(r, t) /\ (setup.faults = {} /\ ~req[r].canceled => waits' = [waits EXCEPT ![k] = @ + 1])
  <2>1. Labelled(t)
    BY <1>1, <1>2 DEF At, Labelled, Unlocked, Slotless, Seeking, Chosen, Counted
  <2>2. req'[r] = t /\ HandlerStep(r) /\ SlotStep(r) /\ Remembers(r)
    BY <1>1, <1>2, <1>7, <2>1, MovesOn DEF At
  <2>3. LockStep(r)
    BY <1>1, <1>2, <2>2, LockStays
  <2>4. WaitStep(r)
    BY <1>1, <1>2, <1>4, <1>6, <1>7, <2>2 DEF WaitStep, At
  <2> QED BY <2>2, <2>3, <2>4 DEF Step
<1>8. CASE Sets(r, To(r, "release")) /\ waits' = waits
  <2>1. Labelled(To(r, "release"))
    BY <1>1, <1>3 DEF At, Alike, Labelled, Unlocked, Slotless, Seeking, Chosen, Counted
  <2> QED BY <1>1, <1>3, <1>8, <2>1, GoesOn DEF At, Alike
<1> QED BY <1>5, <1>7, <1>8

\* A request leaves the wait counter, with or without a slot.
LEMMA UncountStep ==
  ASSUME BaseInv, NEW r \in Requests, Uncount(r)
  PROVE  Step(r) /\ Remembers(r)
<1> USE DEF BaseInv
<1> DEFINE k == Key(r)
<1>1. /\ slots' = slots /\ lock' = lock /\ At(r, {"uncount"}) /\ Labelled(req[r])
      /\ k \in Keys /\ (k = IF req[r].account = None THEN User ELSE req[r].account)
      /\ waits \in [Keys -> Nat] /\ req[r] \in Handler
  BY KeyFields DEF Uncount, Labels, At, Types
<1>2. req[r].counted = k
  BY <1>1 DEF At, Labelled, Counted
<1>3. PICK l \in Entered(r) \cup {"release"} :
        req' = [req EXCEPT ![r].counted = None, ![r].pc = l]
  BY DEF Uncount
<1> DEFINE g == [req[r] EXCEPT !.counted = None, !.pc = l]
<1>4. Sets(r, g)
  BY <1>3 DEF Sets
<1>5. l \in PCs /\ (l = "release" \/ IF req[r].account = None THEN l \in {"select", "release"}
                                  ELSE l \in {"queue", "forward"})
  BY EnteredLabels DEF PCs
<1>6. /\ g \in Handler /\ g.pc = l /\ g.counted = None /\ g.canceled = req[r].canceled
      /\ g.user = req[r].user /\ g.acct = req[r].acct /\ g.nonce = req[r].nonce
      /\ g.account = req[r].account /\ g.queue = req[r].queue
  BY <1>1, <1>5 DEF Handler
<1> HIDE DEF g
<1>7. Labelled(g)
  BY <1>1, <1>5, <1>6 DEF At, Labelled, Unlocked, Slotless, Seeking, Chosen, Counted
<1>8. req'[r] = g /\ HandlerStep(r) /\ SlotStep(r) /\ Remembers(r)
  BY <1>1, <1>4, <1>5, <1>6, <1>7, MovesOn DEF At
<1>9. LockStep(r)
  BY <1>1, <1>6, <1>8, LockStays
<1>10. /\ waits' = [waits EXCEPT ![k] = IF @ > 0 THEN @ - 1 ELSE 0] \/ waits' = waits
       /\ setup.faults = {} => waits' = [waits EXCEPT ![k] = IF @ > 0 THEN @ - 1 ELSE 0]
  BY DEF Uncount, DecrementWaitCount, Fault
<1>11. waits' \in [Keys -> Nat]
  BY <1>1, <1>10
<1>12. WaitStep(r)
  BY <1>1, <1>2, <1>6, <1>8, <1>10, <1>11 DEF WaitStep
<1> QED BY <1>8, <1>9, <1>12 DEF Step

\* The three ends of a selection that holds a slot: it is used, given back, or
\* forgotten because the account cannot be read again.
Used(r) ==
  /\ \E l \in Entered(r) : req' = [req EXCEPT ![r].pc = l, ![r].skip = {}]
  /\ slots' = slots
GivenBack(r) ==
  ReleaseSlot(r, Key(r), [To(r, "select") EXCEPT !.skip = @ \cup {req[r].account}])
Forgotten(r) ==
  /\ setup.snapshot /\ (req[r].canceled \/ "hydrate" \in setup.faults)
  /\ \E h \in NoAccount(r) : Sets(r, [h EXCEPT !.acct = None])
  /\ slots' = slots

\* A selection that uses its slot or gives it back.
LEMMA SelectedKeepsStep ==
  ASSUME BaseInv, NEW r \in Requests, Selected(r), Used(r) \/ GivenBack(r)
  PROVE  Step(r) /\ Remembers(r)
<1> USE DEF BaseInv
<1> DEFINE k == Key(r)
<1>1. /\ lock' = lock /\ waits' = waits /\ At(r, {"session"}) /\ Labelled(req[r])
      /\ k \in Keys /\ HasKey(r, k) /\ req[r] \in Handler
      /\ k = User <=> req[r].account = None
      /\ req[r].account # None => req[r].account \in Accounts
  BY KeyFields DEF Selected, Labels, At, Types
<1>2. k # User /\ req[r].queue = None /\ req[r].account # None
  BY <1>1 DEF At, Labelled, Chosen, Unlocked
<1>3. CASE Used(r)
  <2>1. PICK l \in Entered(r) : req' = [req EXCEPT ![r].pc = l, ![r].skip = {}]
    BY <1>3 DEF Used
  <2> DEFINE g == [req[r] EXCEPT !.pc = l, !.skip = {}]
  <2>2. Sets(r, g) /\ slots' = slots
    BY <1>3, <2>1 DEF Sets, Used
  <2>3. l \in PCs /\ l \in {"queue", "forward"}
    BY <1>2, EnteredLabels
  <2>4. g \in Handler /\ g.pc = l /\ Alike(g, req[r])
    BY <1>1, <2>3 DEF Handler, Alike
  <2> HIDE DEF g
  <2>5. Labelled(g)
    BY <1>1, <2>3, <2>4 DEF At, Alike, Labelled, Unlocked, Slotless, Seeking, Chosen, Counted
  <2> QED BY <1>1, <2>2, <2>3, <2>4, <2>5, GoesOn DEF At, Alike
<1>4. CASE GivenBack(r)
  <2> DEFINE u == To(r, "select")
             h == [u EXCEPT !.skip = @ \cup {req[r].account}]
  <2>1. u \in Handler /\ u.pc = "select" /\ Alike(u, req[r])
    BY ToFields DEF PCs
  <2>2. ReleaseSlot(r, k, h)
    BY <1>4 DEF GivenBack
  <2> HIDE DEF u
  <2>3. h \in Handler /\ h.pc = "select" /\ Alike(h, req[r])
    BY <1>1, <1>2, <2>1 DEF Alike, Handler
  <2> HIDE DEF h
  <2>4. Carries(r, k, h)
    BY <2>3 DEF Carries, Alike
  <2>5. Becomes(r, k, h) /\ SlotOf(req'[r], k) = None /\ SlotStep(r) /\ Remembers(r)
    BY <1>1, <2>2, <2>3, <2>4, ReleaseSlotStep DEF Alike
  <2>6. SameBut(req'[r], h, k)
    BY <2>5 DEF Becomes
  <2>7. Labelled(req'[r])
    BY <1>1, <1>2, <2>3, <2>5, <2>6
       DEF At, Alike, SameBut, SlotOf, Labelled, Unlocked, Slotless, Seeking, Chosen, Counted
  <2> QED BY <1>1, <2>3, <2>5, <2>7, CallGoesOn DEF At, Alike
<1> QED BY <1>3, <1>4

\* A selection that forgets its slot.
LEMMA SelectedForgetsStep ==
  ASSUME BaseInv, NEW r \in Requests, Selected(r), Forgotten(r)
  PROVE  Step(r) /\ \A k \in Keys : Slot(r, k)' = IF k = User THEN Slot(r, k) ELSE None
<1> USE DEF BaseInv
<1>1. /\ lock' = lock /\ waits' = waits /\ At(r, {"session"}) /\ Labelled(req[r])
      /\ req[r].nonce \in Nat /\ slots' = slots
  BY Typed DEF Selected, Labels, At, Forgotten
<1>2. req[r].queue = None /\ req[r].account # None
  BY <1>1 DEF At, Labelled, Chosen, Unlocked
<1>3. PICK h \in NoAccount(r) : Sets(r, [h EXCEPT !.acct = None])
  BY DEF Forgotten
<1> DEFINE g == [h EXCEPT !.acct = None]
<1>4. /\ h \in Handler /\ h.user = req[r].user
      /\ h.nonce = req[r].nonce /\ h.queue = req[r].queue /\ h.counted = req[r].counted
      /\ h.canceled = req[r].canceled
      /\ \/ h.pc \in {"select", "release"}
         \/ h.account # None /\ h.pc \in {"fast", "count"}
  BY PlansFields DEF Plans
<1>5. /\ g \in Handler /\ g.user = req[r].user /\ g.acct = None /\ g.pc = h.pc
      /\ g.nonce = req[r].nonce /\ g.queue = req[r].queue /\ g.counted = req[r].counted
      /\ g.canceled = req[r].canceled /\ g.account = h.account
  BY <1>4 DEF Handler
<1> HIDE DEF g
<1>6. Labelled(g)
  BY <1>1, <1>2, <1>4, <1>5 DEF At, Labelled, Unlocked, Slotless, Seeking, Chosen, Counted
<1>7. /\ req'[r] = g
      /\ \A q \in Requests : q # r => req'[q] = req[q]
      /\ req' \in [Requests -> Handler]
  BY <1>3, <1>5 DEF Types, Sets, g
<1>8. HandlerStep(r)
  BY <1>1, <1>4, <1>5, <1>6, <1>7 DEF HandlerStep, At
<1>9. \A k \in Keys : Slot(r, k)' = IF k = User THEN Slot(r, k) ELSE None
  BY <1>5, <1>7 DEF Slot
<1>10. SlotStep(r)
  BY <1>1, <1>9 DEF SlotStep, Held, HasKey, Types
<1>11. LockStep(r) /\ WaitStep(r)
  BY <1>1, <1>2, <1>5, <1>7, LockStays, WaitsStay
<1> QED BY <1>8, <1>9, <1>10, <1>11 DEF Step

\* A selection ends in one of the three ways.
LEMMA SelectedCases ==
  ASSUME NEW r \in Requests, Selected(r)
  PROVE  Used(r) \/ GivenBack(r) \/ Forgotten(r)
BY DEF Selected, Used, GivenBack, Forgotten, Sets, Fault

-----------------------------------------------------------------------------
(* The serial lock *)

\* A handler that goes on without a call on a slot, and may count its nonce on.
LEMMA MovesOrDisowns ==
  ASSUME BaseInv, NEW r \in Requests, NEW g \in Handler,
         Sets(r, g) \/ Sets(r, [g EXCEPT !.nonce = @ + 1]),
         slots' = slots, waits' = waits, ~At(r, {"dead"}), g.pc \notin {"dead", "idle"},
         At(r, {"done"}) => g.pc = "done", Labelled(g),
         g.user = req[r].user, g.acct = req[r].acct, g.nonce = req[r].nonce,
         g.account = req[r].account, g.counted = req[r].counted, g.canceled = req[r].canceled
  PROVE  /\ HandlerStep(r) /\ SlotStep(r) /\ Remembers(r) /\ WaitStep(r)
         /\ req'[r].queue = g.queue /\ req'[r].account = g.account
<1> USE DEF BaseInv
<1>1. Carries(r, User, g) /\ SlotOf(g, User) = Slot(r, User) /\ User \in Keys
  BY Typed DEF Carries, SlotOf, Slot
<1>2. /\ Becomes(r, User, g) /\ SlotOf(req'[r], User) = SlotOf(g, User)
      /\ Remembers(r)
      /\ \A x \in Keys : Slot(r, x)' = Slot(r, x)
      /\ \A x \in Keys : Held(r, x)' => HasKey(r, x)
  BY <1>1, KeptSlots
<1>3. SlotStep(r)
  BY <1>2 DEF SlotStep, Types
<1>4. /\ \A q \in Requests : q # r => req'[q] = req[q]
      /\ req' \in [Requests -> Handler]
      /\ SameBut(req'[r], g, User) /\ req'[r].nonce >= req[r].nonce
  BY <1>2, OthersStay
<1>5. Labelled(req'[r])
  BY <1>2, <1>4 DEF Labelled, SameBut, SlotOf
<1>6. HandlerStep(r)
  BY <1>4, <1>5 DEF HandlerStep, SameBut, At
<1>7. WaitStep(r)
  BY <1>4, WaitsStay DEF SameBut
<1> QED BY <1>2, <1>3, <1>4, <1>6, <1>7 DEF SameBut

\* releaseLockScript, or its call fails.
LEMMA ReleaseLockStep ==
  ASSUME BaseInv, NEW r \in Requests, NEW h \in Handler, ReleaseLock(r, h),
         ~At(r, {"dead"}), h.pc \notin {"dead", "idle"}, At(r, {"done"}) => h.pc = "done",
         req[r].account # None, Labelled(req[r]),
         \/ h.pc = req[r].pc
         \/ h.pc \in {"forward", "stream", "free"} /\ h.counted = None,
         h.user = req[r].user, h.acct = req[r].acct, h.nonce = req[r].nonce,
         h.account = req[r].account, h.counted = req[r].counted, h.canceled = req[r].canceled
  PROVE  Step(r) /\ Remembers(r)
<1> USE DEF BaseInv
<1> DEFINE g == [h EXCEPT !.queue = None]
           a == req[r].account
<1>1. /\ Sets(r, g) \/ Sets(r, [g EXCEPT !.nonce = @ + 1])
      /\ slots' = slots /\ waits' = waits
      /\ lock' = lock \/ (LockOf(a) = req[r].queue /\ lock' = [lock EXCEPT ![a] = None])
  BY DEF ReleaseLock, Sets
<1>2. /\ g \in Handler /\ g.queue = None /\ g.pc = h.pc
      /\ g.user = h.user /\ g.acct = h.acct /\ g.nonce = h.nonce
      /\ g.account = h.account /\ g.counted = h.counted /\ g.canceled = h.canceled
  BY DEF Handler
<1> HIDE DEF g
<1>3. Labelled(g)
  BY <1>2 DEF Labelled, Unlocked, Slotless, Seeking, Chosen, Counted
<1>4. /\ HandlerStep(r) /\ SlotStep(r) /\ Remembers(r) /\ WaitStep(r)
      /\ req'[r].queue = None
  BY <1>1, <1>2, <1>3, MovesOrDisowns
<1>5. LockStep(r)
  BY <1>1, <1>4 DEF LockStep, Types
<1> QED BY <1>4, <1>5 DEF Step

\* A lock that is taken now.
LEMMA NewLockTyped ==
  ASSUME Types, NEW r \in Requests
  PROVE  NewLock(r) \in Lock
<1>1. clock \in 0..MaxClock /\ LockTTL \in Nat /\ MaxClock \in Nat /\ req[r].nonce \in Nat
  BY Typed, AdmissionConstants DEF Types
<1>2. clock + LockTTL \in 0..(MaxClock + LockTTL)
  BY <1>1
<1> QED BY <1>1, <1>2 DEF NewLock, Lock

\* An attempt to take the lock.
LEMMA TryAcquireStep ==
  ASSUME BaseInv, NEW r \in Requests, At(r, {"queue", "poll"}), TryAcquire(r)
  PROVE  Step(r) /\ Remembers(r)
<1> USE DEF BaseInv
<1> DEFINE a == req[r].account
<1>1. /\ slots' = slots /\ waits' = waits /\ Labelled(req[r]) /\ req[r] \in Handler
      /\ a # None => a \in Accounts
  BY KeyFields DEF TryAcquire, Labels, At, Types
<1>2. req[r].queue = None /\ a \in Accounts /\ a # None
  BY <1>1 DEF At, Labelled, Chosen, Unlocked
<1>3. ASSUME lock' = [lock EXCEPT ![a] = NewLock(r)], LockOf(a) = None,
             req' = [req EXCEPT ![r].pc = "delay", ![r].queue = NewLock(r)]
      PROVE  Step(r) /\ Remembers(r)
  <2> DEFINE g == [req[r] EXCEPT !.pc = "delay", !.queue = NewLock(r)]
  <2>1. Sets(r, g)
    BY <1>3 DEF Sets
  <2>2. /\ g \in Handler /\ g.pc = "delay" /\ g.queue = NewLock(r)
        /\ g.user = req[r].user /\ g.acct = req[r].acct /\ g.nonce = req[r].nonce
        /\ g.account = a /\ g.counted = req[r].counted /\ g.canceled = req[r].canceled
    BY <1>1, NewLockTyped DEF Handler, PCs
  <2> HIDE DEF g
  <2>3. Labelled(g)
    BY <1>1, <1>2, <2>2 DEF At, Labelled, Unlocked, Slotless, Seeking, Chosen, Counted
  <2>4. /\ HandlerStep(r) /\ SlotStep(r) /\ Remembers(r) /\ WaitStep(r)
        /\ req'[r].queue = NewLock(r) /\ req'[r].account = a
    BY <1>1, <2>1, <2>2, <2>3, MovesOrDisowns DEF At
  <2>5. LockStep(r)
    BY <1>2, <1>3, <2>4, NewLockTyped DEF LockStep, Types
  <2> QED BY <2>4, <2>5 DEF Step
<1>4. ASSUME NEW l \in {"poll", "delay"},
             \/ req' = [req EXCEPT ![r].pc = l]
             \/ req' = [req EXCEPT ![r].pc = l, ![r].nonce = @ + 1],
             \/ lock' = lock
             \/ LockOf(a) = None /\ lock' = [lock EXCEPT ![a] = NewLock(r)]
      PROVE  Step(r) /\ Remembers(r)
  <2> DEFINE g == To(r, l)
  <2>1. Sets(r, g) \/ Sets(r, [g EXCEPT !.nonce = @ + 1])
    BY <1>4 DEF Sets, To
  <2>2. g \in Handler /\ g.pc = l /\ Alike(g, req[r])
    BY ToFields DEF PCs
  <2> HIDE DEF g
  <2>3. Labelled(g)
    BY <1>1, <1>2, <2>2 DEF At, Alike, Labelled, Unlocked, Slotless, Seeking, Chosen, Counted
  <2>4. /\ HandlerStep(r) /\ SlotStep(r) /\ Remembers(r) /\ WaitStep(r)
        /\ req'[r].queue = None
    BY <1>1, <1>2, <2>1, <2>2, <2>3, MovesOrDisowns DEF At, Alike
  <2>5. LockStep(r)
    BY <1>2, <1>4, <2>4, NewLockTyped DEF LockStep, Types
  <2> QED BY <2>4, <2>5 DEF Step
<1> QED BY <1>3, <1>4 DEF TryAcquire

\* Giving the lock back on the way to a label.
LEMMA ReleaseToStep ==
  ASSUME BaseInv, NEW r \in Requests, NEW l \in {"forward", "stream", "free"},
         At(r, {"delay", "forward", "unlock"}), ReleaseLock(r, To(r, l))
  PROVE  Step(r) /\ Remembers(r)
<1>1. Labelled(req[r]) /\ To(r, l) \in Handler /\ To(r, l).pc = l /\ Alike(To(r, l), req[r])
  BY ToFields DEF BaseInv, Labels, At, PCs
<1>2. req[r].account # None /\ req[r].counted = None
  BY <1>1 DEF At, Labelled, Chosen, Counted
<1> QED BY <1>1, <1>2, ReleaseLockStep DEF At, Alike

\* The handler goes on to the upstream call without a lock.
LEMMA ToForwardStep ==
  ASSUME BaseInv, NEW r \in Requests, At(r, {"poll", "delay"}),
         req' = [req EXCEPT ![r].pc = "forward"],
         slots' = slots, lock' = lock, waits' = waits
  PROVE  Step(r) /\ Remembers(r)
<1> DEFINE g == To(r, "forward")
<1>1. Sets(r, g) /\ Labelled(req[r])
  BY DEF Sets, To, BaseInv, Labels, At
<1>2. g \in Handler /\ g.pc = "forward" /\ Alike(g, req[r])
  BY ToFields DEF PCs, BaseInv
<1> HIDE DEF g
<1>3. Labelled(g)
  BY <1>1, <1>2 DEF At, Alike, Labelled, Unlocked, Slotless, Seeking, Chosen, Counted
<1> QED BY <1>1, <1>2, <1>3, GoesOn DEF At, Alike

\* The user message queue.
LEMMA EnqueueStep ==
  ASSUME BaseInv, NEW r \in Requests, Enqueue(r)
  PROVE  Step(r) /\ Remembers(r)
<1>1. CASE At(r, {"queue", "poll"}) /\ TryAcquire(r)
  BY <1>1, TryAcquireStep
<1>2. CASE At(r, {"poll"}) /\ WaitTimesOut(r)
  BY <1>2, ToForwardStep DEF WaitTimesOut, At
<1>3. CASE At(r, {"delay"}) /\ EnforceDelay(r)
  BY <1>3, ToForwardStep, ReleaseToStep DEF EnforceDelay, At
<1> QED BY <1>1, <1>2, <1>3 DEF Enqueue

-----------------------------------------------------------------------------
(* The upstream call and after it *)

\* The upstream call returns.
LEMMA ForwardReturnsStep ==
  ASSUME BaseInv, NEW r \in Requests, ForwardReturns(r)
  PROVE  Step(r) /\ Remembers(r)
<1> USE DEF BaseInv
<1>1. /\ slots' = slots /\ lock' = lock /\ waits' = waits
      /\ At(r, {"forward", "stream"}) /\ Labelled(req[r]) /\ req[r] \in Handler
  BY DEF ForwardReturns, Labels, At, Types
<1>2. PICK g \in Handler :
        /\ Sets(r, g) /\ Alike(g, req[r])
        /\ g.pc = "release" \/ g.pc = IF req[r].queue = None THEN "free" ELSE "unlock"
  <2> DEFINE l == IF req[r].queue = None THEN "free" ELSE "unlock"
  <2>0. l \in PCs
    BY DEF PCs
  <2> HIDE DEF l
  <2>1. CASE req' = [req EXCEPT ![r].pc = l]
    <3> DEFINE g == To(r, l)
    <3>1. Sets(r, g)
      BY <2>1 DEF Sets, To
    <3>2. g \in Handler /\ g.pc = l /\ Alike(g, req[r])
      BY <2>0, ToFields
    <3> QED BY <3>1, <3>2 DEF l
  <2>2. ASSUME NEW b \in BOOLEAN,
               req' = [req EXCEPT ![r].pc = l, ![r].retry = TRUE, ![r].busy = b]
        PROVE  \E g \in Handler : Sets(r, g) /\ Alike(g, req[r]) /\ g.pc = l
    <3> DEFINE g == [req[r] EXCEPT !.pc = l, !.retry = TRUE, !.busy = b]
    <3>1. Sets(r, g)
      BY <2>2 DEF Sets
    <3>2. g \in Handler /\ g.pc = l /\ Alike(g, req[r])
      BY <1>1, <2>0 DEF Handler, Alike
    <3> QED BY <3>1, <3>2
  <2>3. CASE req' = [req EXCEPT ![r].pc = "release"]
    <3> DEFINE g == To(r, "release")
    <3>1. Sets(r, g)
      BY <2>3 DEF Sets, To
    <3>2. g \in Handler /\ g.pc = "release" /\ Alike(g, req[r])
      BY ToFields DEF PCs
    <3> QED BY <3>1, <3>2
  <2> QED BY <2>1, <2>2, <2>3 DEF ForwardReturns, l
<1>3. Labelled(g)
  BY <1>1, <1>2 DEF At, Alike, Labelled, Unlocked, Slotless, Seeking, Chosen, Counted
<1> QED BY <1>1, <1>2, <1>3, GoesOn DEF At, Alike

\* Whether the request ends or fails over, the handler that goes on is the same
\* but for its label.
LEMMA FailoverFields ==
  ASSUME Types, NEW r \in Requests, req[r].account \in Accounts,
         NEW h \in Failover(r) \cup {To(r, "release")}
  PROVE  h \in Handler /\ h.pc \in {"select", "release"} /\ Alike(h, req[r])
<1>1. req[r] \in Handler
  BY DEF Types
<1> DEFINE a == req[r].account
           u == [req[r] EXCEPT !.pc = "select", !.retry = FALSE]
<1>2. u \in Handler /\ u.pc = "select" /\ Alike(u, req[r])
  BY <1>1 DEF Handler, Alike, PCs
<1>3. \/ h = To(r, "release")
      \/ h = [u EXCEPT !.retries[a] = @ + 1]
      \/ h = [u EXCEPT !.switches = @ + 1, !.failed = @ \cup {a}]
  BY DEF Failover
<1> HIDE DEF u
<1>4. CASE h = To(r, "release")
  BY <1>4, ToFields DEF PCs
<1>5. CASE h = [u EXCEPT !.retries[a] = @ + 1]
  BY <1>2, <1>5 DEF Handler, Alike
<1>6. CASE h = [u EXCEPT !.switches = @ + 1, !.failed = @ \cup {a}]
  <2> DEFINE v == [u EXCEPT !.switches = @ + 1]
  <2>1. v \in Handler /\ v.pc = "select" /\ Alike(v, req[r])
    BY <1>2 DEF Handler, Alike
  <2>2. h = [v EXCEPT !.failed = @ \cup {a}]
    BY <1>2, <1>6 DEF Handler
  <2> HIDE DEF v
  <2> QED BY <2>1, <2>2 DEF Handler, Alike
<1> QED BY <1>3, <1>4, <1>5, <1>6

\* queueRelease and accountReleaseFunc.
LEMMA AfterForwardStep ==
  ASSUME BaseInv, NEW r \in Requests, AfterForward(r)
  PROVE  Step(r) /\ Remembers(r)
<1> USE DEF BaseInv
<1>1. CASE At(r, {"unlock"}) /\ ReleaseLock(r, To(r, "free"))
  BY <1>1, ReleaseToStep DEF At
<1>2. CASE At(r, {"free"}) /\ ~At(r, {"unlock"})
  <2> DEFINE k == Key(r)
  <2>1. /\ lock' = lock /\ waits' = waits /\ Labelled(req[r]) /\ req[r] \in Handler
        /\ k \in Keys /\ HasKey(r, k)
        /\ k = User <=> req[r].account = None
        /\ req[r].account # None => req[r].account \in Accounts
    BY <1>2, KeyFields DEF AfterForward, Labels, At, Types
  <2>2. k # User /\ req[r].account \in Accounts /\ req[r].queue = None
    BY <1>2, <2>1 DEF At, Labelled, Chosen, Unlocked
  <2>3. PICK h \in Failover(r) \cup {To(r, "release")} : ReleaseSlot(r, k, h)
    BY <1>2 DEF AfterForward
  <2>4. h \in Handler /\ h.pc \in {"select", "release"} /\ Alike(h, req[r])
    BY <2>2, FailoverFields
  <2>5. Carries(r, k, h)
    BY <2>4 DEF Carries, Alike
  <2>6. Becomes(r, k, h) /\ SlotOf(req'[r], k) = None /\ SlotStep(r) /\ Remembers(r)
    BY <2>1, <2>3, <2>4, <2>5, ReleaseSlotStep DEF Alike
  <2>7. SameBut(req'[r], h, k)
    BY <2>6 DEF Becomes
  <2>8. Labelled(req'[r])
    BY <1>2, <2>1, <2>2, <2>4, <2>6, <2>7
       DEF At, Alike, SameBut, SlotOf, Labelled, Unlocked, Slotless, Seeking, Chosen, Counted
  <2> QED BY <1>2, <2>1, <2>4, <2>6, <2>8, CallGoesOn DEF At, Alike
<1> QED BY <1>1, <1>2 DEF AfterForward, At

\* The handler returns.
LEMMA ReturnStep ==
  ASSUME BaseInv, NEW r \in Requests, Return(r)
  PROVE  Step(r) /\ Remembers(r)
<1> USE DEF BaseInv
<1> DEFINE q == req[r]
           h == [Idle EXCEPT !.pc = "done", !.canceled = TRUE, !.account = q.account,
                             !.acct = q.acct, !.queue = q.queue, !.nonce = q.nonce]
<1>1. /\ lock' = lock /\ waits' = waits /\ At(r, {"release"}) /\ Labelled(req[r])
      /\ req[r] \in Handler /\ User \in Keys /\ ReleaseSlot(r, User, h)
  BY Typed DEF Return, Labels, At, Types
<1>2. /\ h \in Handler /\ h.pc = "done" /\ h.account = q.account /\ h.acct = q.acct
      /\ h.queue = q.queue /\ h.nonce = q.nonce /\ h.counted = None
  BY <1>1 DEF Handler, Idle, PCs, Keys
<1> HIDE DEF h
<1>3. Carries(r, User, h) /\ HasKey(r, User)
  BY <1>2 DEF Carries, HasKey
<1>4. Becomes(r, User, h) /\ SlotOf(req'[r], User) = None /\ SlotStep(r) /\ Remembers(r)
  BY <1>1, <1>2, <1>3, ReleaseSlotStep
<1>5. SameBut(req'[r], h, User) /\ q.counted = None
  BY <1>1, <1>4 DEF Becomes, At, Labelled, Counted
<1>6. Labelled(req'[r])
  BY <1>1, <1>2, <1>4, <1>5
     DEF At, SameBut, SlotOf, Labelled, Unlocked, Slotless, Seeking, Chosen, Counted
<1> QED BY <1>1, <1>2, <1>4, <1>5, <1>6, CallGoesOn DEF At

\* The client disconnects.
LEMMA DisconnectStep ==
  ASSUME BaseInv, NEW r \in Requests, Disconnect(r)
  PROVE  Step(r) /\ Remembers(r)
<1> USE DEF BaseInv
<1> DEFINE g == [req[r] EXCEPT !.canceled = TRUE]
<1>1. /\ slots' = slots /\ lock' = lock /\ waits' = waits /\ ~At(r, {"idle", "dead"})
      /\ Labelled(req[r]) /\ req[r] \in Handler /\ setup.disconnects /\ Sets(r, g)
  BY DEF Disconnect, Labels, At, Types, Sets
<1>2. /\ g \in Handler /\ g.pc = req[r].pc
      /\ g.user = req[r].user /\ g.acct = req[r].acct /\ g.nonce = req[r].nonce
      /\ g.account = req[r].account /\ g.counted = req[r].counted /\ g.queue = req[r].queue
  BY <1>1 DEF Handler
<1> HIDE DEF g
<1>3. Labelled(g)
  BY <1>1, <1>2 DEF Labelled
<1> QED BY <1>1, <1>2, <1>3, GoesOn DEF At

\* A release function is called because the context is done.
LEMMA ReleaseOnDoneStep ==
  ASSUME BaseInv, NEW r \in Requests, ReleaseOnDone(r), ~At(r, {"idle"})
  PROVE  Step(r) /\ Remembers(r)
<1> USE DEF BaseInv
<1>1. ~At(r, {"idle", "dead"}) /\ Labelled(req[r]) /\ req[r] \in Handler
  BY DEF ReleaseOnDone, Labels, At, Types
<1>2. ASSUME NEW k \in Keys, HasKey(r, k), ReleaseSlot(r, k, req[r]), lock' = lock, waits' = waits
      PROVE  Step(r) /\ Remembers(r)
  <2>1. Carries(r, k, req[r])
    BY <1>1 DEF Carries
  <2>2. Becomes(r, k, req[r]) /\ SlotOf(req'[r], k) = None /\ SlotStep(r) /\ Remembers(r)
    BY <1>1, <1>2, <2>1, ReleaseSlotStep
  <2>3. SameBut(req'[r], req[r], k)
    BY <2>2 DEF Becomes
  <2>4. Labelled(req'[r])
    BY <1>1, <2>2, <2>3 DEF SameBut, SlotOf, Labelled
  <2> QED BY <1>1, <1>2, <2>2, <2>4, CallGoesOn DEF At
<1>3. CASE req[r].queue # None /\ ReleaseLock(r, req[r])
  <2>1. req[r].account # None
    BY <1>1, <1>3 DEF Labelled
  <2> QED BY <1>1, <1>3, <2>1, ReleaseLockStep DEF At
<1>4. User \in Keys /\ HasKey(r, User) /\ Key(r) \in Keys /\ HasKey(r, Key(r))
  BY Typed, KeyFields DEF HasKey
<1> QED BY <1>2, <1>3, <1>4 DEF ReleaseOnDone

-----------------------------------------------------------------------------
(* The invariant of any number of servers *)

\* A request that has not arrived can only arrive.
LEMMA IdleArrives ==
  ASSUME BaseInv, NEW r \in Requests, Request(r), At(r, {"idle"})
  PROVE  Arrive(r)
<1>1. req[r].pc = "idle" /\ ~req[r].canceled
  BY DEF BaseInv, Resting, At
<1>2. ~(Disconnect(r) \/ ReleaseOnDone(r))
  BY <1>1 DEF Disconnect, ReleaseOnDone, At
<1>3. ~Handle(r)
  BY <1>1 DEF Handle, FastPath, Count, Attempt, GiveUp, Uncount, Select, Grab, Selected, Enqueue,
              Accepted, ForwardReturns, AfterForward, Return, At
<1> QED BY <1>2, <1>3 DEF Request

\* Whatever r or its callbacks do is such a step.
LEMMA RequestStep ==
  ASSUME BaseInv, NEW r \in Requests, Request(r)
  PROVE  Step(r) /\ (Remembers(r) \/ (Selected(r) /\ Forgotten(r)))
<1>1. CASE Arrive(r)
  BY <1>1, ArriveStep
<1>2. CASE Disconnect(r)
  BY <1>2, DisconnectStep
<1>3. CASE ReleaseOnDone(r)
  BY <1>3, ReleaseOnDoneStep DEF ReleaseOnDone, BaseInv, Resting
<1>4. CASE Handle(r)
  <2>1. CASE FastPath(r) \/ Count(r) \/ Attempt(r) \/ GiveUp(r) \/ Uncount(r)
    BY <2>1, FastPathStep, CountStep, AttemptStep, GiveUpStep, UncountStep
  <2>2. CASE Select(r) \/ Grab(r)
    BY <2>2, SelectStep, GrabStep
  <2>3. CASE Selected(r)
    BY <2>3, SelectedCases, SelectedKeepsStep, SelectedForgetsStep
  <2>4. CASE Enqueue(r) \/ Accepted(r)
    BY <2>4, EnqueueStep, ReleaseToStep DEF Accepted, At
  <2>5. CASE ForwardReturns(r) \/ AfterForward(r) \/ Return(r)
    BY <2>5, ForwardReturnsStep, AfterForwardStep, ReturnStep
  <2> QED BY <1>4, <2>1, <2>2, <2>3, <2>4, <2>5 DEF Handle
<1> QED BY <1>1, <1>2, <1>3, <1>4 DEF Request

\* Slots and limits relate to the setup, which no step changes.
LEMMA SameLimits ==
  ASSUME setup' = setup
  PROVE  /\ \A k : Limit(k)' = Limit(k)
         /\ \A r : ProcessOf(r)' = ProcessOf(r)
BY DEF Limit, ProcessOf

\* A handler's step keeps the sets within their limits.
LEMMA StepBounded ==
  ASSUME BaseInv, NEW r \in Requests, Step(r), setup' = setup
  PROVE  Bounded'
<1> SUFFICES ASSUME NEW k \in Keys
             PROVE  /\ IsFiniteSet(slots'[k])
                    /\ Limit(k) > 0 => Cardinality(slots'[k]) <= Limit(k)
  BY SameLimits DEF Bounded
<1>1. /\ IsFiniteSet(slots[k]) /\ Limit(k) \in Nat
      /\ Limit(k) > 0 => Cardinality(slots[k]) <= Limit(k)
      /\ Unexpired(k) \subseteq slots[k]
  BY Limits, UnexpiredMembers DEF BaseInv, Bounded
<1>2. CASE slots'[k] \subseteq slots[k]
  <2>1. /\ IsFiniteSet(slots'[k]) /\ Cardinality(slots'[k]) <= Cardinality(slots[k])
        /\ Cardinality(slots'[k]) \in Nat /\ Cardinality(slots[k]) \in Nat
    BY <1>1, <1>2, FS_Subset, FS_CardinalityType
  <2> QED BY <1>1, <2>1
<1>3. CASE /\ Limit(k) > 0 /\ ~Full(k)
           /\ slots'[k] \subseteq Unexpired(k) \cup {NewMember(r)}
  <2> DEFINE S == Unexpired(k) \cup {NewMember(r)}
  <2>1. IsFiniteSet(Unexpired(k)) /\ Cardinality(Unexpired(k)) \in Nat
    BY <1>1, FS_Subset, FS_CardinalityType
  <2>2. Cardinality(Unexpired(k)) < Limit(k)
    BY <1>1, <1>3, <2>1 DEF Full
  <2>3. /\ IsFiniteSet(S)
        /\ Cardinality(S) = IF NewMember(r) \in Unexpired(k) THEN Cardinality(Unexpired(k))
                            ELSE Cardinality(Unexpired(k)) + 1
    BY <2>1, FS_AddElement
  <2>4. Cardinality(S) \in Nat
    BY <2>3, FS_CardinalityType
  <2>5. /\ IsFiniteSet(slots'[k]) /\ Cardinality(slots'[k]) <= Cardinality(S)
        /\ Cardinality(slots'[k]) \in Nat
    BY <1>3, <2>3, FS_Subset, FS_CardinalityType
  <2> HIDE DEF S
  <2> QED BY <1>1, <2>1, <2>2, <2>3, <2>4, <2>5
<1> QED BY <1>2, <1>3 DEF Step, SlotStep

\* A handler's step keeps the locks in hand.
LEMMA StepLocked ==
  ASSUME BaseInv, NEW r \in Requests, Step(r), clock' = clock
  PROVE  LockIsKept'
<1> SUFFICES ASSUME NEW q \in Requests, ~At(q, {"dead"})', req'[q].queue # None,
                    req'[q].queue.until > clock
             PROVE  lock'[req'[q].account] = req'[q].queue
  BY DEF LockIsKept
<1>1. LockStep(r) /\ ~At(r, {"dead"}) /\ req' \in [Requests -> Handler]
  BY DEF Step, HandlerStep
<1>2. CASE q = r
  BY <1>1, <1>2 DEF LockStep, BaseInv, LockIsKept
<1>3. CASE q # r
  <2>1. req'[q] = req[q] /\ ~At(q, {"dead"})
    BY <1>3 DEF Step, HandlerStep, At
  <2>2. /\ req[q].queue # None /\ lock[req[q].account] = req[q].queue
        /\ req[q].account \in Accounts
    BY <2>1, KeyFields DEF BaseInv, LockIsKept, Labels, Labelled
  <2>3. LockOf(req[q].account) = req[q].queue
    BY <2>1, <2>2 DEF LockOf
  <2>4. req[q].queue # req[r].queue
    BY <1>3, <2>2 DEF BaseInv, Own
  <2> QED BY <1>1, <2>1, <2>2, <2>3, <2>4 DEF LockStep
<1> QED BY <1>2, <1>3

\* A handler's step keeps the invariant.
LEMMA StepKeeps ==
  ASSUME BaseInv, NEW r \in Requests, Step(r), setup' = setup, clock' = clock
  PROVE  BaseInv'
<1>1. /\ \A q \in Requests : q # r => req'[q] = req[q]
      /\ req' \in [Requests -> Handler] /\ Labelled(req'[r]) /\ req'[r].nonce >= req[r].nonce
      /\ ~At(r, {"idle"})' /\ ~At(r, {"dead"}) /\ (At(r, {"done"}) => At(r, {"done"})')
      /\ req'[r].canceled => req[r].canceled \/ At(r, {"done"})' \/ setup.disconnects
      /\ SlotStep(r) /\ LockStep(r)
  BY DEF Step, HandlerStep, At
<1>2. Types'
  BY <1>1 DEF BaseInv, Types, Step, SlotStep, LockStep, WaitStep
<1>3. Labels'
  BY <1>1 DEF BaseInv, Labels, At
<1>4. Own'
  <2> SUFFICES /\ req'[r].user # None => req'[r].user.owner = r
               /\ req'[r].acct # None => req'[r].acct.owner = r
               /\ req'[r].queue # None => req'[r].queue.owner = r
    BY <1>1 DEF BaseInv, Own
  <2>1. req'[r].user # None => req'[r].user.owner = r
    <3>1. User \in Keys
      BY Typed DEF BaseInv
    <3> QED BY <1>1, <3>1 DEF SlotStep, Held, HasKey, Slot, NewMember, BaseInv, Own
  <2>2. ASSUME req'[r].acct # None PROVE req'[r].acct.owner = r
    <3>1. req'[r] \in Handler /\ req'[r].account # None
      BY <1>1, <2>2 DEF Labelled
    <3>2. PICK k \in Accounts : k = req'[r].account
      BY <3>1 DEF Handler
    <3>3. k \in Keys /\ k # User
      BY Typed DEF BaseInv
    <3>4. Slot(r, k)' = req'[r].acct /\ Held(r, k)' /\ Slot(r, k) = req[r].acct
      BY <2>2, <3>2, <3>3 DEF Slot, Held, HasKey
    <3>5. req'[r].acct = req[r].acct \/ req'[r].acct = NewMember(r)
      BY <1>1, <3>3, <3>4 DEF SlotStep
    <3> QED BY <2>2, <3>5 DEF NewMember, BaseInv, Own
  <2>3. req'[r].queue # None => req'[r].queue.owner = r
    BY <1>1 DEF LockStep, NewLock, BaseInv, Own
  <2> QED BY <2>1, <2>2, <2>3
<1>5. Nonces'
  <2> SUFFICES ASSUME NEW k \in Keys, NEW m \in slots'[k] PROVE m.nonce <= req'[m.owner].nonce
    BY DEF Nonces
  <2>1. m \in Member /\ m.owner \in Requests /\ m.nonce \in Nat
    BY <1>2 DEF Types, Member
  <2>2. \A q \in Requests : /\ req[q].nonce \in Nat /\ req'[q].nonce \in Nat
                            /\ req'[q].nonce >= req[q].nonce
    BY <1>1, <1>2 DEF BaseInv, Types, Handler
  <2>3. CASE m \in slots[k]
    <3>1. m.nonce <= req[m.owner].nonce
      BY <2>3 DEF BaseInv, Nonces
    <3> QED BY <2>1, <2>2, <3>1
  <2>4. CASE m = NewMember(r)
    BY <2>2, <2>4 DEF NewMember
  <2> QED BY <1>1, <2>3, <2>4 DEF SlotStep
<1>6. Bounded' /\ LockIsKept'
  BY StepBounded, StepLocked
<1>7. Resting'
  BY <1>1 DEF BaseInv, Resting, At
<1>8. Attended'
  BY <1>1 DEF BaseInv, Attended, At
<1> QED BY <1>2, <1>3, <1>4, <1>5, <1>6, <1>7, <1>8 DEF BaseInv

\* What time, the cleanup worker and processes that come and go do: slots
\* disappear, and handlers that are dead or die may be disowned of theirs.
Housekeeping ==
  /\ setup' = setup /\ lock' = lock
  /\ clock' \in 0..MaxClock /\ clock' >= clock
  /\ slots' \in [Keys -> SUBSET Member] /\ \A k \in Keys : slots'[k] \subseteq slots[k]
  /\ waits' \in [Keys -> Nat]
  /\ req' \in [Requests -> Handler]
  /\ \A r \in Requests :
       \/ req'[r] = req[r]
       \/ /\ At(r, {"dead"})' /\ ~At(r, {"idle"})
          /\ req'[r].user = req[r].user /\ req'[r].acct = req[r].acct
          /\ req'[r].queue = req[r].queue /\ req'[r].account = req[r].account
          /\ req'[r].nonce >= req[r].nonce

\* Slots that a starting process leaves.
LEMMA CleanupShrinks ==
  ASSUME Types, NEW p, NEW stages, CleanupStaleProcessSlots(p, stages)
  PROVE  /\ slots' \in [Keys -> SUBSET Member] /\ \A k \in Keys : slots'[k] \subseteq slots[k]
         /\ waits' \in [Keys -> Nat]
BY DEF Types, CleanupStaleProcessSlots

\* The processes' own steps are housekeeping.
LEMMA SystemStep ==
  ASSUME BaseInv,
         \/ \E a \in Accounts : CleanupExpiredAccountSlots(a)
         \/ \E p \in Processes : Start(p) \/ Crash(p)
         \/ Tick
         \/ UNCHANGED vars
  PROVE  Housekeeping
<1> USE DEF BaseInv
<1>1. ASSUME NEW a \in Accounts, CleanupExpiredAccountSlots(a) PROVE Housekeeping
  <2>1. a \in Keys /\ Unexpired(a) \subseteq slots[a]
    BY UnexpiredMembers DEF Keys
  <2> QED BY <1>1, <2>1 DEF CleanupExpiredAccountSlots, Housekeeping, Types
<1>2. ASSUME NEW p \in Processes, Start(p) PROVE Housekeeping
  <2>1. /\ setup' = setup /\ lock' = lock /\ clock' = clock
        /\ \E stages \in 0..4 : CleanupStaleProcessSlots(p, stages)
        /\ \/ req' = [r \in Requests |-> IF At(r, {"dead"}) THEN [req[r] EXCEPT !.counted = None] ELSE req[r]]
           \/ req' = [r \in Requests |-> IF At(r, {"dead"}) THEN [req[r] EXCEPT !.nonce = @ + 1] ELSE req[r]]
    BY <1>2 DEF Start
  <2>2. /\ slots' \in [Keys -> SUBSET Member] /\ \A k \in Keys : slots'[k] \subseteq slots[k]
        /\ waits' \in [Keys -> Nat]
    BY <2>1, CleanupShrinks
  <2>3. \A r \in Requests :
          /\ req[r] \in Handler /\ req'[r] \in Handler
          /\ \/ req'[r] = req[r]
             \/ /\ At(r, {"dead"})' /\ ~At(r, {"idle"})
                /\ req'[r].user = req[r].user /\ req'[r].acct = req[r].acct
                /\ req'[r].queue = req[r].queue /\ req'[r].account = req[r].account
                /\ req'[r].nonce >= req[r].nonce
    <3> SUFFICES ASSUME NEW r \in Requests
                 PROVE  /\ req[r] \in Handler /\ req'[r] \in Handler
                        /\ \/ req'[r] = req[r]
                           \/ /\ req'[r].pc = "dead" /\ req[r].pc # "idle"
                              /\ req'[r].user = req[r].user /\ req'[r].acct = req[r].acct
                              /\ req'[r].queue = req[r].queue /\ req'[r].account = req[r].account
                              /\ req'[r].nonce >= req[r].nonce
      BY DEF At
    <3>1. req[r] \in Handler /\ req[r].nonce \in Nat
      BY Typed
    <3> DEFINE c == [req[r] EXCEPT !.counted = None]
               n == [req[r] EXCEPT !.nonce = @ + 1]
    <3>2. /\ c \in Handler /\ c.pc = req[r].pc /\ c.user = req[r].user /\ c.acct = req[r].acct
          /\ c.queue = req[r].queue /\ c.account = req[r].account /\ c.nonce = req[r].nonce
      BY <3>1 DEF Handler
    <3>3. /\ n \in Handler /\ n.pc = req[r].pc /\ n.user = req[r].user /\ n.acct = req[r].acct
          /\ n.queue = req[r].queue /\ n.account = req[r].account /\ n.nonce = req[r].nonce + 1
      BY <3>1 DEF Handler
    <3>4. req'[r] = req[r] \/ (At(r, {"dead"}) /\ req'[r] \in {c, n})
      BY <2>1
    <3> HIDE DEF c, n
    <3> QED BY <3>1, <3>2, <3>3, <3>4 DEF At
  <2>4. req' \in [Requests -> Handler]
    BY <2>1, <2>3
  <2> QED BY <2>1, <2>2, <2>3, <2>4 DEF Housekeeping, Types
<1>3. ASSUME NEW p \in Processes, Crash(p) PROVE Housekeeping
  <2>1. /\ setup' = setup /\ lock' = lock /\ clock' = clock /\ slots' = slots /\ waits' = waits
        /\ req' = [r \in Requests |-> IF ProcessOf(r) = p /\ ~At(r, {"idle"})
                                      THEN To(r, "dead") ELSE req[r]]
    BY <1>3 DEF Crash, To
  <2>2. \A r \in Requests : To(r, "dead") \in Handler /\ To(r, "dead").pc = "dead"
                            /\ Alike(To(r, "dead"), req[r])
    BY ToFields DEF PCs
  <2>3. req' \in [Requests -> Handler]
    BY <2>1, <2>2 DEF Types
  <2>4. \A r \in Requests : req[r].nonce \in Nat
    BY Typed
  <2> QED BY <2>1, <2>2, <2>3, <2>4 DEF Housekeeping, Types, At, Alike
<1>4. CASE Tick
  <2>1. setup.ticks \in 0..MaxClock
    BY SetupsAssumption DEF Types, Setup
  <2> QED BY <1>4, <2>1, AdmissionConstants DEF Tick, Housekeeping, Types
<1>5. CASE UNCHANGED vars
  BY <1>5 DEF vars, Housekeeping, Types
<1> QED BY <1>1, <1>2, <1>3, <1>4, <1>5

\* Housekeeping keeps the invariant.
LEMMA HousekeepingKeeps ==
  ASSUME BaseInv, Housekeeping
  PROVE  BaseInv'
<1>1. /\ setup' = setup /\ lock' = lock /\ clock' >= clock /\ \A k \in Keys : slots'[k] \subseteq slots[k]
      /\ clock' \in Int /\ clock \in Int
  BY DEF Housekeeping, BaseInv, Types
<1>2. \A r \in Requests :
        /\ req'[r].user = req[r].user /\ req'[r].acct = req[r].acct
        /\ req'[r].queue = req[r].queue /\ req'[r].account = req[r].account
        /\ req'[r] = req[r] \/ At(r, {"dead"})'
        /\ req'[r] = req[r] \/ ~At(r, {"idle"})
        /\ req'[r].nonce >= req[r].nonce /\ req'[r].nonce \in Nat /\ req[r].nonce \in Nat
  BY DEF Housekeeping, BaseInv, Types, Handler
<1>3. Types'
  BY DEF Housekeeping, BaseInv, Types
<1>4. Labels'
  BY <1>2 DEF BaseInv, Labels, At
<1>5. Own'
  BY <1>2 DEF BaseInv, Own
<1>6. Nonces'
  <2> SUFFICES ASSUME NEW k \in Keys, NEW m \in slots'[k] PROVE m.nonce <= req'[m.owner].nonce
    BY DEF Nonces
  <2>1. m \in slots[k] /\ m.owner \in Requests /\ m.nonce \in Nat
    BY <1>1, <1>3 DEF Types, Member
  <2>2. m.nonce <= req[m.owner].nonce
    BY <2>1 DEF BaseInv, Nonces
  <2> QED BY <1>2, <2>1, <2>2
<1>7. Bounded'
  <2> SUFFICES ASSUME NEW k \in Keys
               PROVE  /\ IsFiniteSet(slots'[k])
                      /\ Limit(k) > 0 => Cardinality(slots'[k]) <= Limit(k)
    BY <1>1, SameLimits DEF Bounded
  <2>1. /\ IsFiniteSet(slots[k]) /\ Limit(k) \in Nat
        /\ Limit(k) > 0 => Cardinality(slots[k]) <= Limit(k)
    BY Limits DEF BaseInv, Bounded
  <2>2. /\ IsFiniteSet(slots'[k]) /\ Cardinality(slots'[k]) <= Cardinality(slots[k])
        /\ Cardinality(slots'[k]) \in Nat /\ Cardinality(slots[k]) \in Nat
    BY <1>1, <2>1, FS_Subset, FS_CardinalityType
  <2> QED BY <2>1, <2>2
<1>8. LockIsKept'
  <2> SUFFICES ASSUME NEW r \in Requests, ~At(r, {"dead"})', req'[r].queue # None,
                      req'[r].queue.until > clock'
               PROVE  lock'[req'[r].account] = req'[r].queue
    BY DEF LockIsKept
  <2>1. req'[r] = req[r] /\ ~At(r, {"dead"})
    BY <1>2 DEF At
  <2>2. req[r].queue \in Lock /\ req[r].queue.until \in Int
    BY <2>1, AdmissionConstants DEF BaseInv, Types, Handler, Lock
  <2>3. req[r].queue.until > clock
    BY <1>1, <2>1, <2>2
  <2> QED BY <1>1, <2>1, <2>3 DEF BaseInv, LockIsKept
<1>9. Resting' /\ Attended'
  BY <1>1, <1>2 DEF BaseInv, Resting, Attended, At
<1> QED BY <1>3, <1>4, <1>5, <1>6, <1>7, <1>8, <1>9 DEF BaseInv

\* Initially Redis is empty and nobody has anything.
LEMMA BaseInit == Init => BaseInv
<1> SUFFICES ASSUME Init PROVE BaseInv
  OBVIOUS
<1> USE DEF Init
<1>1. Idle \in Handler /\ Idle.pc = "idle" /\ Idle.user = None /\ Idle.acct = None /\ Idle.account = None
      /\ Idle.queue = None /\ Idle.counted = None /\ Idle.canceled = FALSE
  BY DEF Idle, Handler, PCs
<1> HIDE DEF Idle
<1>2. Types
  BY <1>1, AdmissionConstants DEF Types
<1>3. Labels /\ Own /\ LockIsKept /\ Resting /\ Attended
  BY <1>1 DEF Labels, Labelled, Counted, Chosen, Own, LockIsKept, Resting, Attended, At
<1>4. Nonces
  BY DEF Nonces
<1>5. Bounded
  BY <1>2, FS_EmptySet, Limits DEF Bounded
<1> QED BY <1>2, <1>3, <1>4, <1>5 DEF BaseInv

\* Every step is a handler's or housekeeping.
LEMMA StepCases ==
  ASSUME BaseInv, [Next]_vars
  PROVE  \/ Housekeeping
         \/ \E r \in Requests : Step(r) /\ UNCHANGED <<setup, clock, running>>
BY RequestStep, SystemStep DEF Next

\* Types, labels, ownership, limits and locks, for any number of servers.
LEMMA BaseInvariant == Spec => []BaseInv
<1>1. BaseInv /\ [Next]_vars => BaseInv'
  BY StepCases, StepKeeps, HousekeepingKeeps
<1> QED BY <1>1, BaseInit, PTL DEF Spec

-----------------------------------------------------------------------------
(* What the invariant says *)

\* Of the requests about to call an account at most one has a lock in time: a
\* lock that Redis kept has one owner.
THEOREM LockExcludes == Spec => []Serialized
<1>1. BaseInv => Serialized
  <2> SUFFICES ASSUME BaseInv, NEW a \in Accounts
               PROVE  Cardinality({r \in Requests : /\ ~At(r, {"dead"})
                                                    /\ req[r].account = a
                                                    /\ req[r].queue # None
                                                    /\ req[r].queue.until > clock}) <= 1
    BY DEF Serialized
  <2> DEFINE S == {r \in Requests : /\ ~At(r, {"dead"})
                                    /\ req[r].account = a
                                    /\ req[r].queue # None
                                    /\ req[r].queue.until > clock}
  <2>1. \A r \in S : r = lock[a].owner
    BY DEF BaseInv, LockIsKept, Own
  <2>2. S = {} \/ S = {lock[a].owner}
    BY <2>1
  <2>3. Cardinality(S) \in {0, 1}
    BY <2>2, FS_EmptySet, FS_Singleton
  <2> QED BY <2>3
<1> QED BY <1>1, BaseInvariant, PTL

\* Handlers never wait in a circle: a handler that waits has no account slot, so
\* nobody waits for a handler that waits for an account, and who waits for the
\* user's slot waits for one of those.
THEOREM WaitsAreNotCircular == Spec => []NoCircularWait
<1>1. BaseInv => NoCircularWait
  <2> SUFFICES ASSUME BaseInv, NEW S \in SUBSET Requests, S # {},
                      \A r \in S : BlockedBy(r, S)
               PROVE  FALSE
    BY DEF NoCircularWait
  <2>1. \A r \in S : /\ req[r].acct = None
                     /\ req[r].account = None => req[r].user = None
    BY DEF BlockedBy, At, BaseInv, Labels, Labelled, Slotless, Seeking
  <2>2. ASSUME NEW r \in S
        PROVE  \E q \in S : Slot(q, Key(r)) # None
    <3> DEFINE k == Key(r)
    <3>1. k \in Keys /\ BlockedBy(r, S) /\ Limit(k) \in Nat
      BY <2>2, KeyFields, Limits DEF BaseInv
    <3>2. Unexpired(k) # {}
      <4>1. Full(k)
        BY <3>1 DEF BlockedBy
      <4> HIDE DEF k
      <4>2. Cardinality(Unexpired(k)) # 0
        BY <3>1, <4>1 DEF Full
      <4> QED BY <4>2, FS_EmptySet
    <3>3. PICK m \in Unexpired(k) : TRUE
      BY <3>2
    <3>4. m \in Member /\ None \notin Member
      BY <3>1, <3>3, UnexpiredMembers, Typed DEF BaseInv
    <3> QED BY <3>1, <3>3, <3>4 DEF BlockedBy
  <2>3. PICK r \in S : TRUE
    OBVIOUS
  <2>4. PICK q \in S : Slot(q, Key(r)) # None
    BY <2>2
  <2>5. q \in Requests /\ req[q].account # None
    BY <2>1, <2>4 DEF Slot
  <2>6. Key(q) # User
    BY <2>5, KeyFields DEF BaseInv
  <2>7. PICK p \in S : Slot(p, Key(q)) # None
    BY <2>2
  <2> QED BY <2>1, <2>6, <2>7 DEF Slot
<1> QED BY <1>1, BaseInvariant, PTL

-----------------------------------------------------------------------------
(* Slots in Redis are owned *)

\* Without a limit Redis has no slots and nobody holds one.
Unlimited ==
  \A a \in Accounts :
    setup.accountLimit = 0 =>
      slots[a] = {} /\ \A r \in Requests : req[r].account = a => req[r].acct = None

OwnedInv == BaseInv /\ KeptIsHeld /\ Unlimited

\* A selection forgets no slot of an account that has a limit.
LEMMA NothingForgotten ==
  ASSUME OwnedInv, AccountsReadBack, NEW r \in Requests, Selected(r), Forgotten(r)
  PROVE  Remembers(r)
<1> USE DEF OwnedInv
<1>1. /\ setup \in Setups /\ At(r, {"session"})
      /\ setup.snapshot /\ (req[r].canceled \/ "hydrate" \in setup.faults)
  BY DEF BaseInv, Types, Selected, Forgotten
<1>2. ~(req[r].canceled /\ ~setup.disconnects)
  BY <1>1 DEF BaseInv, Attended, At
<1>3. setup.accountLimit = 0
  BY <1>1, <1>2 DEF AccountsReadBack
<1>4. \A k \in Keys : Slot(r, k)' = IF k = User THEN Slot(r, k) ELSE None
  BY SelectedForgetsStep
<1>5. \A k \in Keys : k # User => k \in Accounts
  BY DEF Keys
<1>6. \A k \in Keys : Held(r, k) => k = User
  BY <1>3, <1>5 DEF Unlimited, Held, HasKey, Slot
<1> QED BY <1>4, <1>6 DEF Remembers, HasKey

\* A handler that remembers its slots keeps them owned.
LEMMA StepOwned ==
  ASSUME OwnedInv, NEW r \in Requests, Step(r), Remembers(r), setup' = setup
  PROVE  KeptIsHeld' /\ Unlimited'
<1> USE DEF OwnedInv
<1>1. /\ \A q \in Requests : q # r => req'[q] = req[q]
      /\ req' \in [Requests -> Handler] /\ req'[r].nonce >= req[r].nonce
      /\ SlotStep(r)
  BY DEF Step, HandlerStep
<1>2. \A q \in Requests : req[q].nonce \in Nat /\ req'[q].nonce \in Nat
  BY <1>1 DEF BaseInv, Types, Handler
<1>3. KeptIsHeld'
  <2> SUFFICES ASSUME NEW k \in Keys, NEW m \in slots'[k],
                      ~(m.nonce < req'[m.owner].nonce)
               PROVE  Slot(m.owner, k)' = m /\ HasKey(m.owner, k)'
    BY DEF KeptIsHeld
  <2>1. m \in Member /\ m.owner \in Requests /\ m.nonce \in Nat
    BY <1>1 DEF SlotStep, Member
  <2>2. CASE m \in slots[k]
    <3>1. m.nonce <= req[m.owner].nonce
      BY <2>2 DEF BaseInv, Nonces
    <3>2. Slot(m.owner, k) = m /\ HasKey(m.owner, k) /\ req'[m.owner].nonce = req[m.owner].nonce
      BY <1>1, <1>2, <2>1, <2>2, <3>1 DEF KeptIsHeld
    <3>3. CASE m.owner # r
      BY <1>1, <2>1, <3>2, <3>3 DEF Slot, HasKey
    <3>4. CASE m.owner = r
      <4>1. Held(r, k)
        BY <2>1, <3>2, <3>4, Typed DEF Held, BaseInv
      <4> QED BY <1>2, <3>2, <3>4, <4>1 DEF Remembers
    <3> QED BY <3>3, <3>4
  <2>3. CASE m \notin slots[k]
    BY <1>1, <1>2, <2>1, <2>3 DEF SlotStep, NewMember
  <2> QED BY <2>2, <2>3
<1>4. Unlimited'
  <2> SUFFICES ASSUME NEW a \in Accounts, setup.accountLimit = 0
               PROVE  /\ slots'[a] = {}
                      /\ \A q \in Requests : req'[q].account = a => req'[q].acct = None
    BY DEF Unlimited
  <2>1. a \in Keys /\ a # User /\ Limit(a) = 0
    BY Typed DEF BaseInv, Limit
  <2>2. slots'[a] = {}
    BY <1>1, <2>1 DEF SlotStep, Unlimited
  <2>3. ASSUME req'[r].account = a PROVE req'[r].acct = None
    <3>1. Held(r, a)' => Slot(r, a) = Slot(r, a)' /\ HasKey(r, a)
      BY <1>1, <2>1, <2>2 DEF SlotStep
    <3> QED BY <2>1, <2>3, <3>1 DEF Held, HasKey, Slot, Unlimited
  <2> QED BY <1>1, <2>2, <2>3 DEF Unlimited
<1> QED BY <1>3, <1>4

\* Housekeeping keeps the slots owned.
LEMMA HousekeepingOwned ==
  ASSUME OwnedInv, Housekeeping
  PROVE  KeptIsHeld' /\ Unlimited'
<1> USE DEF OwnedInv
<1>1. /\ setup' = setup /\ \A k \in Keys : slots'[k] \subseteq slots[k] /\ slots[k] \subseteq Member
      /\ Accounts \subseteq Keys
  BY DEF Housekeeping, BaseInv, Types, Keys
<1>2. \A r \in Requests :
        /\ req'[r].user = req[r].user /\ req'[r].acct = req[r].acct
        /\ req'[r].account = req[r].account
        /\ req'[r].nonce >= req[r].nonce /\ req'[r].nonce \in Nat /\ req[r].nonce \in Nat
  BY DEF Housekeeping, BaseInv, Types, Handler
<1>3. KeptIsHeld'
  <2> SUFFICES ASSUME NEW k \in Keys, NEW m \in slots'[k]
               PROVE  \/ Slot(m.owner, k)' = m /\ HasKey(m.owner, k)'
                      \/ m.nonce < req'[m.owner].nonce
    BY DEF KeptIsHeld
  <2>1. m \in slots[k] /\ m.owner \in Requests /\ m.nonce \in Nat
    BY <1>1 DEF Member
  <2>2. (Slot(m.owner, k) = m /\ HasKey(m.owner, k)) \/ m.nonce < req[m.owner].nonce
    BY <2>1 DEF KeptIsHeld
  <2> QED BY <1>2, <2>1, <2>2 DEF Slot, HasKey
<1>4. Unlimited'
  BY <1>1, <1>2 DEF Unlimited
<1> QED BY <1>3, <1>4

\* If newSelectionResult does not drop a slot that was taken, every slot in Redis
\* has a handler that will release it or was left behind by a call that failed.
THEOREM SlotsHaveOwners ==
  ASSUME AccountsReadBack
  PROVE  Spec => []SlotsAreOwned
<1>1. Init => OwnedInv
  <2> SUFFICES ASSUME Init PROVE KeptIsHeld /\ Unlimited
    BY BaseInit DEF OwnedInv
  <2> QED BY DEF Init, Idle, KeptIsHeld, Unlimited, Keys
<1>2. OwnedInv /\ [Next]_vars => OwnedInv'
  <2> SUFFICES ASSUME OwnedInv, [Next]_vars PROVE OwnedInv'
    OBVIOUS
  <2>1. BaseInv'
    BY StepCases, StepKeeps, HousekeepingKeeps DEF OwnedInv
  <2>2. ASSUME NEW r \in Requests, Request(r), setup' = setup
        PROVE  KeptIsHeld' /\ Unlimited'
    BY <2>2, RequestStep, NothingForgotten, StepOwned DEF OwnedInv
  <2>3. CASE \E r \in Requests : Request(r) /\ UNCHANGED <<setup, clock, running>>
    <3>1. KeptIsHeld' /\ Unlimited'
      BY <2>2, <2>3
    <3> QED BY <2>1, <3>1 DEF OwnedInv
  <2>4. CASE ~\E r \in Requests : Request(r) /\ UNCHANGED <<setup, clock, running>>
    <3>1. Housekeeping
      BY <2>4, SystemStep DEF Next, OwnedInv
    <3>2. KeptIsHeld' /\ Unlimited'
      BY <3>1, HousekeepingOwned
    <3> QED BY <2>1, <3>2 DEF OwnedInv
  <2> QED BY <2>3, <2>4
<1>3. OwnedInv => SlotsAreOwned
  <2> SUFFICES ASSUME OwnedInv, NEW k \in Keys, NEW m \in slots[k]
               PROVE  Slot(m.owner, k) = m \/ m.nonce # req[m.owner].nonce
    BY DEF SlotsAreOwned
  <2>1. m.owner \in Requests /\ m.nonce \in Nat /\ req[m.owner].nonce \in Nat
    BY DEF OwnedInv, BaseInv, Types, Member, Handler
  <2> QED BY <2>1 DEF OwnedInv, KeptIsHeld
<1> QED BY <1>1, <1>2, <1>3, PTL DEF Spec

-----------------------------------------------------------------------------
(* One server at a time *)

\* A handler's step keeps the slots in hand in Redis: nobody else removes them.
LEMMA StepHeld ==
  ASSUME BaseInv, HeldIsKept, NEW r \in Requests, Step(r), clock' = clock
  PROVE  HeldIsKept'
<1> SUFFICES ASSUME NEW q \in Requests, NEW k \in Keys,
                    ~At(q, {"dead"})', Held(q, k)', Slot(q, k)'.at + SlotTTL > clock
             PROVE  Slot(q, k)' \in slots'[k]
  BY DEF HeldIsKept
<1>1. /\ \A p \in Requests : p # r => req'[p] = req[p]
      /\ ~At(r, {"dead"}) /\ SlotStep(r)
      /\ slots[k] \subseteq Member /\ clock \in Int /\ SlotTTL \in Int
  BY Typed DEF Step, HandlerStep, BaseInv, Types
<1>2. ASSUME ~At(q, {"dead"}), Held(q, k), Slot(q, k)' = Slot(q, k)
      PROVE  Slot(q, k)' \in slots'[k]
  <2>1. Slot(q, k) \in slots[k] /\ Slot(q, k).owner = q /\ Slot(q, k).at \in Int
    BY <1>1, <1>2 DEF HeldIsKept, Held, BaseInv, Own, Slot, Member
  <2>2. CASE Slot(q, k) \in slots'[k]
    BY <1>2, <2>2
  <2>3. CASE Slot(q, k).at + SlotTTL <= clock
    BY <1>1, <1>2, <2>1, <2>3
  <2>4. CASE q = r /\ Slot(r, k)' # Slot(q, k)
    BY <1>2, <2>4
  <2> QED BY <1>1, <2>1, <2>2, <2>3, <2>4 DEF SlotStep
<1>3. CASE q # r
  <2>1. ~At(q, {"dead"}) /\ Held(q, k) /\ Slot(q, k)' = Slot(q, k)
    BY <1>1, <1>3 DEF At, Held, HasKey, Slot
  <2> QED BY <1>2, <2>1
<1>4. CASE q = r
  <2>1. CASE Slot(r, k)' = Slot(r, k) /\ HasKey(r, k)
    <3>1. Held(r, k)
      BY <1>4, <2>1 DEF Held
    <3> QED BY <1>1, <1>2, <1>4, <2>1, <3>1
  <2>2. CASE Slot(r, k)' = NewMember(r) /\ NewMember(r) \in slots'[k]
    BY <1>4, <2>2
  <2> QED BY <1>1, <1>4, <2>1, <2>2 DEF SlotStep
<1> QED BY <1>3, <1>4

\* It counts itself in and out exactly once.
LEMMA StepExact ==
  ASSUME BaseInv, Exact, NEW r \in Requests, Step(r), setup' = setup
  PROVE  Exact'
<1> SUFFICES ASSUME setup.faults = {}, ~setup.disconnects, NEW k \in Keys
             PROVE  IsFiniteSet(Waiting(k)') /\ waits'[k] = Cardinality(Waiting(k)')
  BY DEF Exact
<1>1. /\ \A p \in Requests : p # r => req'[p] = req[p]
      /\ IsFiniteSet(Waiting(k)) /\ waits[k] = Cardinality(Waiting(k)) /\ waits[k] \in Nat
      /\ waits \in [Keys -> Nat] /\ None \notin Keys
  BY Typed DEF Step, HandlerStep, Exact, BaseInv, Types
<1>2. req[r].canceled => At(r, {"done"})
  BY DEF Step, HandlerStep, BaseInv, Attended, At
<1>3. CASE waits' = waits /\ req'[r].counted = req[r].counted
  <2>1. Waiting(k)' = Waiting(k)
    BY <1>1, <1>3 DEF Waiting
  <2> QED BY <1>1, <1>3, <2>1
<1>4. ASSUME NEW x \in Keys, req[r].counted = None, req'[r].counted = x,
             waits' = [waits EXCEPT ![x] = @ + 1]
      PROVE  IsFiniteSet(Waiting(k)') /\ waits'[k] = Cardinality(Waiting(k)')
  <2>1. CASE k = x
    <3>1. r \notin Waiting(k) /\ Waiting(k)' = Waiting(k) \cup {r}
      BY <1>1, <1>4, <2>1 DEF Waiting
    <3>2. IsFiniteSet(Waiting(k)') /\ Cardinality(Waiting(k)') = Cardinality(Waiting(k)) + 1
      BY <1>1, <3>1, FS_AddElement
    <3> QED BY <1>1, <1>4, <2>1, <3>2
  <2>2. CASE k # x
    <3>1. Waiting(k)' = Waiting(k)
      BY <1>1, <1>4, <2>2 DEF Waiting
    <3> QED BY <1>1, <1>4, <2>2, <3>1
  <2> QED BY <2>1, <2>2
<1>5. ASSUME NEW x \in Keys, req[r].counted = x, req'[r].counted = None,
             waits' = [waits EXCEPT ![x] = IF @ > 0 THEN @ - 1 ELSE 0]
      PROVE  IsFiniteSet(Waiting(k)') /\ waits'[k] = Cardinality(Waiting(k)')
  <2>1. CASE k = x
    <3>1. r \in Waiting(k) /\ Waiting(k)' = Waiting(k) \ {r}
      BY <1>1, <1>5, <2>1 DEF Waiting
    <3>2. IsFiniteSet(Waiting(k)') /\ Cardinality(Waiting(k)') = Cardinality(Waiting(k)) - 1
      BY <1>1, <3>1, FS_RemoveElement
    <3>3. Cardinality(Waiting(k)') \in Nat
      BY <3>2, FS_CardinalityType
    <3>4. waits[k] > 0
      BY <1>1, <3>2, <3>3
    <3> QED BY <1>1, <1>5, <2>1, <3>2, <3>4
  <2>2. CASE k # x
    <3>1. Waiting(k)' = Waiting(k)
      BY <1>1, <1>5, <2>2 DEF Waiting
    <3> QED BY <1>1, <1>5, <2>2, <3>1
  <2> QED BY <2>1, <2>2
<1> QED BY <1>2, <1>3, <1>4, <1>5 DEF Step, WaitStep

\* What a handler does keeps the server's invariant.
LEMMA StepServed ==
  ASSUME BaseInv, ServerInv, NEW r \in Requests, Request(r), UNCHANGED <<setup, clock, running>>
  PROVE  ServerInv'
<1>1. Step(r)
  BY RequestStep
<1>2. /\ \A q \in Requests : q # r => req'[q] = req[q]
      /\ ~At(r, {"dead"}) /\ ~At(r, {"dead", "idle"})' /\ SlotStep(r)
      /\ slots' \in [Keys -> SUBSET Member]
  BY <1>1 DEF Step, HandlerStep, SlotStep
<1>3. HeldIsKept' /\ Exact'
  BY <1>1, StepHeld, StepExact DEF ServerInv
<1>4. Served'
  <2>1. ProcessOf(r) \in running
    BY <1>2, IdleArrives DEF Arrive, ServerInv, Served, At
  <2> QED BY <1>2, <2>1, SameLimits DEF ServerInv, Served, At
<1>5. DeadIsBehind'
  <2> SUFFICES ASSUME running # {}, NEW k \in Keys, NEW m \in slots'[k], At(m.owner, {"dead"})'
               PROVE  m.nonce < req'[m.owner].nonce
    BY DEF DeadIsBehind
  <2>1. m.owner \in Requests /\ m.owner # r
    BY <1>2 DEF Member, At
  <2>2. req'[m.owner] = req[m.owner] /\ m \in slots[k]
    BY <1>2, <2>1 DEF SlotStep, NewMember
  <2> QED BY <2>2 DEF At, ServerInv, DeadIsBehind
<1> QED BY <1>3, <1>4, <1>5 DEF ServerInv

\* The cleanup worker removes expired slots only.
LEMMA CleanupServed ==
  ASSUME BaseInv, ServerInv, NEW a \in Accounts, CleanupExpiredAccountSlots(a)
  PROVE  ServerInv'
<1>1. /\ slots' = [slots EXCEPT ![a] = Unexpired(a)] /\ slots \in [Keys -> SUBSET Member]
      /\ UNCHANGED <<setup, clock, waits, lock, running, req>>
      /\ a \in Keys /\ clock \in Int /\ SlotTTL \in Int
  BY AdmissionConstants DEF CleanupExpiredAccountSlots, BaseInv, Types, Keys
<1>2. HeldIsKept'
  <2> SUFFICES ASSUME NEW r \in Requests, NEW k \in Keys,
                      ~At(r, {"dead"}), Held(r, k), Slot(r, k).at + SlotTTL > clock
               PROVE  Slot(r, k) \in slots'[k]
    BY <1>1 DEF HeldIsKept, Held, Slot, HasKey, At
  <2>1. Slot(r, k) \in slots[k] /\ Slot(r, k).at \in Int
    BY <1>1 DEF ServerInv, HeldIsKept, Member
  <2> QED BY <1>1, <2>1 DEF Unexpired
<1>3. \A k \in Keys : slots'[k] \subseteq slots[k]
  BY <1>1 DEF Unexpired
<1>4. Served' /\ DeadIsBehind' /\ Exact'
  BY <1>1, <1>3 DEF ServerInv, Served, DeadIsBehind, Exact, Waiting, At, ProcessOf
<1> QED BY <1>2, <1>4 DEF ServerInv

\* A process that starts finds its predecessor's handlers dead, and clears what
\* they left or knows that it could not.
LEMMA StartServed ==
  ASSUME OneServer, BaseInv, ServerInv, NEW p \in Processes, Start(p)
  PROVE  ServerInv'
<1>1. /\ UNCHANGED <<setup, clock, lock>> /\ p # setup.first
      /\ running = {} /\ running' = {p}
      /\ slots \in [Keys -> SUBSET Member] /\ None \notin Keys
  BY NoneAssumption DEF Start, OneServer, BaseInv, Types
<1>2. \A r \in Requests : ~At(r, {"dead"}) =>
        At(r, {"idle"}) /\ req[r].user = None /\ req[r].acct = None /\ req[r].counted = None
  BY <1>1 DEF ServerInv, Served, BaseInv, Labels, Labelled, Resting, At, Slotless, Seeking, Counted
<1>3. /\ slots' \in [Keys -> SUBSET Member]
      /\ \A k \in Keys : slots'[k] \subseteq slots[k]
  BY CleanupShrinks DEF Start, BaseInv
<1>4. \/ /\ CleanupStaleProcessSlots(p, 4)
         /\ req' = [r \in Requests |-> IF At(r, {"dead"}) THEN [req[r] EXCEPT !.counted = None] ELSE req[r]]
      \/ /\ setup.faults # {}
         /\ req' = [r \in Requests |-> IF At(r, {"dead"}) THEN [req[r] EXCEPT !.nonce = @ + 1] ELSE req[r]]
  BY DEF Start, Fault
<1>5. \A r \in Requests :
        /\ At(r, {"dead"})' <=> At(r, {"dead"})
        /\ ~At(r, {"dead"}) => req'[r] = req[r]
  BY <1>4 DEF At, BaseInv, Types, Handler
<1>6. HeldIsKept'
  BY <1>2, <1>5 DEF HeldIsKept, Held, Slot
<1>7. Served'
  BY <1>1, <1>2, <1>5, SameLimits DEF ServerInv, Served, At
<1>8. DeadIsBehind'
  <2> SUFFICES ASSUME NEW k \in Keys, NEW m \in slots'[k], At(m.owner, {"dead"})'
               PROVE  m.nonce < req'[m.owner].nonce
    BY DEF DeadIsBehind
  <2>1. m \in slots[k] /\ m.owner \in Requests /\ m.nonce \in Nat
    BY <1>3 DEF Member
  <2>2. At(m.owner, {"dead"}) /\ ProcessOf(m.owner) # p
    BY <1>1, <1>5, <2>1 DEF ServerInv, Served
  <2>3. CASE CleanupStaleProcessSlots(p, 4)
    BY <2>2, <2>3 DEF CleanupStaleProcessSlots
  <2>4. CASE req' = [r \in Requests |-> IF At(r, {"dead"}) THEN [req[r] EXCEPT !.nonce = @ + 1] ELSE req[r]]
    <3>1. req[m.owner] \in Handler /\ req[m.owner].nonce \in Nat /\ m.nonce <= req[m.owner].nonce
      BY <2>1, Typed DEF BaseInv, Nonces
    <3>2. req'[m.owner].nonce = req[m.owner].nonce + 1
      BY <2>1, <2>2, <2>4, <3>1 DEF Handler
    <3> QED BY <2>1, <3>1, <3>2
  <2> QED BY <1>4, <2>3, <2>4
<1>9. Exact'
  <2> SUFFICES ASSUME setup.faults = {}, NEW k \in Keys
               PROVE  IsFiniteSet(Waiting(k)') /\ waits'[k] = Cardinality(Waiting(k)')
    BY <1>1 DEF Exact
  <2>1. /\ CleanupStaleProcessSlots(p, 4)
        /\ req' = [r \in Requests |-> IF At(r, {"dead"}) THEN [req[r] EXCEPT !.counted = None] ELSE req[r]]
    BY <1>4
  <2>2. waits'[k] = 0
    BY <2>1 DEF CleanupStaleProcessSlots
  <2>3. \A r \in Requests : req'[r].counted = None
    BY <1>2, <2>1 DEF BaseInv, Types, Handler
  <2>4. Waiting(k)' = {}
    BY <1>1, <2>3 DEF Waiting
  <2> QED BY <2>2, <2>4, FS_EmptySet
<1> QED BY <1>6, <1>7, <1>8, <1>9 DEF ServerInv

\* A process that dies takes all handlers that have begun with it.
LEMMA CrashServed ==
  ASSUME BaseInv, ServerInv, NEW p \in Processes, Crash(p)
  PROVE  ServerInv'
<1>1. /\ UNCHANGED <<setup, clock, slots, waits, lock>> /\ p = setup.first
      /\ running = {p} /\ running' = {}
  BY DEF Crash, ServerInv, Served
<1>2. \A r \in Requests :
        /\ req'[r].counted = req[r].counted
        /\ At(r, {"dead"})' <=> At(r, {"dead"}) \/ (ProcessOf(r) = p /\ ~At(r, {"idle"}))
        /\ ~At(r, {"dead"})' => req'[r] = req[r]
  BY DEF Crash, At, BaseInv, Types, Handler
<1>3. HeldIsKept'
  BY <1>1, <1>2 DEF HeldIsKept, ServerInv, Held, Slot, HasKey
<1>4. Served'
  BY <1>1, <1>2, SameLimits DEF ServerInv, Served, At
<1>5. DeadIsBehind' /\ Exact'
  BY <1>1, <1>2 DEF DeadIsBehind, Exact, Waiting, ServerInv
<1> QED BY <1>3, <1>4, <1>5 DEF ServerInv

\* Time only expires slots.
LEMMA TickServed ==
  ASSUME BaseInv, ServerInv, Tick
  PROVE  ServerInv'
<1>1. clock' = clock + 1 /\ clock \in Int /\ SlotTTL \in Int
      /\ UNCHANGED <<setup, slots, waits, lock, running, req>>
  BY AdmissionConstants DEF Tick, BaseInv, Types
<1>2. HeldIsKept'
  <2> SUFFICES ASSUME NEW r \in Requests, NEW k \in Keys,
                      ~At(r, {"dead"}), Held(r, k), Slot(r, k).at + SlotTTL > clock + 1
               PROVE  Slot(r, k) \in slots[k]
    BY <1>1 DEF HeldIsKept, Held, Slot, HasKey, At
  <2>1. Slot(r, k) \in Member /\ Slot(r, k).at \in Int
    BY DEF BaseInv, Types, Handler, Held, Slot, Member
  <2>2. Slot(r, k).at + SlotTTL > clock
    BY <1>1, <2>1
  <2> QED BY <2>2 DEF ServerInv, HeldIsKept
<1>3. Served' /\ DeadIsBehind' /\ Exact'
  BY <1>1 DEF ServerInv, Served, DeadIsBehind, Exact, Waiting, At, ProcessOf
<1> QED BY <1>2, <1>3 DEF ServerInv

\* With one server at a time no step breaks its invariant.
LEMMA ServerInvariant ==
  ASSUME OneServer
  PROVE  Spec => [](BaseInv /\ ServerInv)
<1>1. Init => ServerInv
  <2> SUFFICES ASSUME Init PROVE ServerInv
    OBVIOUS
  <2>1. \A r \in Requests : /\ req[r].pc = "idle" /\ req[r].user = None /\ req[r].acct = None
                            /\ req[r].counted = None
    BY DEF Init, Idle
  <2>2. HeldIsKept
    BY <2>1 DEF HeldIsKept, Held, Slot
  <2>3. Served
    BY <2>1 DEF Served, Init, At
  <2>4. DeadIsBehind
    BY DEF DeadIsBehind, Init
  <2>5. \A k \in Keys : Waiting(k) = {} /\ waits[k] = 0
    BY <2>1, NoneAssumption DEF Waiting, Init
  <2>6. Exact
    BY <2>5, FS_EmptySet DEF Exact
  <2> QED BY <2>2, <2>3, <2>4, <2>6 DEF ServerInv
<1>2. BaseInv /\ ServerInv /\ [Next]_vars => (BaseInv /\ ServerInv)'
  <2> SUFFICES ASSUME BaseInv, ServerInv, [Next]_vars PROVE BaseInv' /\ ServerInv'
    OBVIOUS
  <2>1. BaseInv'
    BY StepCases, StepKeeps, HousekeepingKeeps
  <2>2. UNCHANGED vars => ServerInv'
    BY DEF vars, ServerInv, HeldIsKept, Held, Slot, HasKey, At, Served, ProcessOf, DeadIsBehind,
           Exact, Waiting
  <2>3. Next => ServerInv'
    BY StepServed, CleanupServed, StartServed, CrashServed, TickServed DEF Next
  <2> QED BY <2>1, <2>2, <2>3
<1> QED BY <1>1, <1>2, BaseInit, PTL DEF Spec

\* Every holder of a slot in time has a member of its own in the sorted set, and
\* acquireScript keeps the set within the limit.
THEOREM LimitsAreRespected ==
  ASSUME OneServer
  PROVE  Spec => []LimitRespected
<1>1. BaseInv /\ ServerInv => LimitRespected
  <2> SUFFICES ASSUME BaseInv, ServerInv, NEW k \in Keys, Limit(k) > 0
               PROVE  Cardinality(Holders(k)) <= Limit(k)
    BY DEF LimitRespected
  <2> DEFINE f == [r \in Holders(k) |-> Slot(r, k)]
  <2>1. \A r \in Holders(k) : Slot(r, k) \in slots[k] /\ Slot(r, k).owner = r
    BY DEF Holders, ServerInv, HeldIsKept, Held, HasKey, BaseInv, Own, Slot
  <2>2. f \in Injection(Holders(k), slots[k])
    BY <2>1, Fun_IsInj
  <2>3. IsFiniteSet(slots[k]) /\ Cardinality(slots[k]) <= Limit(k) /\ Limit(k) \in Nat
    BY Limits DEF BaseInv, Bounded
  <2>4. IsFiniteSet(Holders(k)) /\ Cardinality(Holders(k)) <= Cardinality(slots[k])
    BY <2>2, <2>3, FS_Injection
  <2>5. Cardinality(Holders(k)) \in Nat /\ Cardinality(slots[k]) \in Nat
    BY <2>3, <2>4, FS_CardinalityType
  <2> QED BY <2>3, <2>4, <2>5
<1> QED BY <1>1, ServerInvariant, PTL

\* While a process runs, a slot of a handler that died with its predecessor is
\* one that a failed call left behind.
THEOREM DeadSlotsAreLeftBehind ==
  ASSUME OneServer
  PROVE  Spec => []DeadSlotsAreCleared
<1>1. BaseInv /\ ServerInv => DeadSlotsAreCleared
  <2> SUFFICES ASSUME BaseInv, ServerInv, running # {}, NEW k \in Keys, NEW m \in slots[k],
                      At(m.owner, {"dead"})
               PROVE  m.nonce # req[m.owner].nonce
    BY DEF DeadSlotsAreCleared
  <2>1. m.nonce \in Nat /\ req[m.owner].nonce \in Nat
    BY DEF BaseInv, Types, Member, Handler
  <2> QED BY <2>1 DEF ServerInv, DeadIsBehind
<1> QED BY <1>1, ServerInvariant, PTL

\* Wait counters are never negative, and exact as long as no call fails and no
\* client leaves.
THEOREM WaitCountsAreExact ==
  ASSUME OneServer
  PROVE  Spec => []WaitCountExact
<1>1. BaseInv /\ ServerInv => WaitCountExact
  BY DEF BaseInv, Types, ServerInv, Exact, Waiting, WaitCountExact
<1> QED BY <1>1, ServerInvariant, PTL

=============================================================================
