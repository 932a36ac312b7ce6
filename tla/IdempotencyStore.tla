---------------------------- MODULE IdempotencyStore ----------------------------
(***************************************************************************)
(* The table idempotency_records and its clock. Two rows are of interest:  *)
(* the record of a client's Idempotency-Key ("request") and the global     *)
(* lock of system operations ("lock"). Every operator below is one SQL     *)
(* statement; who issues it, and with which times, is in the modules that  *)
(* extend this one.                                                        *)
(***************************************************************************)
EXTENDS Naturals

CONSTANTS
  Payloads,    \* fingerprints of requests that carry the key, and their operation ids
  Anon,        \* operation ids of requests without a key
  NoOp,        \* no fingerprint
  Lease,       \* ProcessingTimeout
  TTL,         \* SystemOperationTTL
  Backoff,     \* FailedRetryBackoff
  MaxTime      \* bound on the clock

ASSUME OpsAssumption == Payloads \cap Anon = {} /\ NoOp \notin Payloads \cup Anon
ASSUME TimesAssumption ==
  /\ Lease \in Nat \ {0} /\ TTL \in Nat \ {0} /\ Backoff \in Nat /\ MaxTime \in Nat
  /\ Lease < TTL

VARIABLES
  clock,   \* the time, the same for every instance
  rows,    \* the two rows
  lastId   \* the id sequence of the table

Ops == Payloads \cup Anon
RowStatuses == {"none", "processing", "succeeded", "failed_retryable"}

\* until is locked_until, 0 for NULL; "none" is a row that does not exist.
Row == [id: Nat, status: RowStatuses, fp: Ops \cup {NoOp}, until: Nat, expires: Nat]
NoRow == [id |-> 0, status |-> "none", fp |-> NoOp, until |-> 0, expires |-> 0]

StoreInit ==
  /\ clock = 1
  /\ rows = [k \in {"request", "lock"} |-> NoRow]
  /\ lastId = 0

\* INSERT ... ON CONFLICT DO NOTHING: the row is free.
IsFree(k) == rows[k].status = "none"

CreateProcessing(k, fp, now) ==
  /\ lastId' = lastId + 1
  /\ rows' = [rows EXCEPT ![k] =
       [id |-> lastId + 1, status |-> "processing", fp |-> fp,
        until |-> now + Lease, expires |-> now + TTL]]

\* Mutant: a row that is still locked can be taken over.
CanReclaimLocked(k, id, from, now) ==
  rows[k].id = id /\ rows[k].status = from /\ from # "none"

\* UPDATE ... WHERE id AND status AND (locked_until IS NULL OR locked_until <= now).
CanReclaim(k, id, from, now) ==
  /\ rows[k].id = id /\ rows[k].status = from /\ from # "none"
  /\ rows[k].until <= now

\* The fingerprint of the row stays that of its first owner.
Reclaim(k, now) ==
  rows' = [rows EXCEPT ![k].status = "processing", ![k].until = now + Lease,
                       ![k].expires = now + TTL]

\* ExtendProcessingLock's WHERE clause.
CanExtend(k, id, fp) ==
  rows[k].id = id /\ rows[k].status = "processing" /\ rows[k].fp = fp

ExtendProcessingLock(k) ==
  rows' = [rows EXCEPT ![k].until = clock + Lease, ![k].expires = clock + TTL]

\* Unconditional but for the id.
MarkSucceeded(k, id, expires) ==
  rows' = IF rows[k].id = id /\ id # 0
            THEN [rows EXCEPT ![k].status = "succeeded", ![k].until = 0, ![k].expires = expires]
            ELSE rows

\* Mutant: the status is one that no reader of the table knows.
MarkFailed(k, id, until, expires) ==
  rows' = IF rows[k].id = id /\ id # 0
            THEN [rows EXCEPT ![k].status = "failed", ![k].until = until,
                              ![k].expires = expires]
            ELSE rows

MarkFailedRetryable(k, id, until, expires) ==
  rows' = IF rows[k].id = id /\ id # 0
            THEN [rows EXCEPT ![k].status = "failed_retryable", ![k].until = until,
                              ![k].expires = expires]
            ELSE rows

\* DeleteExpired of the cleanup service, one row of its batch.
CanDelete(k) == rows[k].status # "none" /\ rows[k].expires <= clock
DeleteExpired(k) == rows' = [rows EXCEPT ![k] = NoRow]

=============================================================================
