-------------------------- MODULE MCSchedulerSnapshot --------------------------
(* Instances of SchedulerSnapshot for TLC. *)
EXTENDS SchedulerSnapshot

CONSTANTS a1, a2, k1, k2, c1, c2

TwoAccounts == {a1, a2}
TwoWorkers == {k1, k2}
TwoWriters == {c1, c2}

Roles(first, second) == [w \in Workers |-> IF w = k1 THEN first ELSE second]

\* A poll beside the initial rebuild; the writers, the accounts they change, how
\* and how often; what may fail, and how often.
Plain ==
    [ role |-> Roles("poll", "startup"), writers |-> {c1}, accounts |-> {a1},
      ops |-> {"toggle"}, changes |-> 2, dedup |-> FALSE, late |-> FALSE,
      faults |-> {}, budget |-> 0 ]

\* The outbox alone: every kind of change, every error, a crash; two processes.
OutboxSetups ==
    {[Plain EXCEPT !.ops = {"toggle", "delete", "touch", "pause"}, !.accounts = Accounts,
                   !.faults = {"db", "redis", "reply", "crash"}, !.budget = 1],
     [Plain EXCEPT !.role = Roles("poll", "poll"), !.accounts = Accounts]}

\* Events suppressed or committed late, locks that time out, beside the
\* periodic rebuild.
FullSetups ==
    LET full == [Plain EXCEPT !.role = Roles("poll", "full")] IN
    {[full EXCEPT !.dedup = TRUE, !.writers = Writers],
     [full EXCEPT !.late = TRUE, !.writers = Writers],
     [full EXCEPT !.ops = {"toggle", "touch"},
                  !.faults = {"slow", "db", "redis", "crash"}, !.budget = 1]}

\* Requests that fall back to the database.
RequestSetups ==
    {[Plain EXCEPT !.role = Roles("request", "full"), !.ops = {"toggle", "delete"},
                   !.faults = {"redis", "reply"}, !.budget = 1]}

AllSetups == OutboxSetups \cup FullSetups \cup RequestSetups
=============================================================================
