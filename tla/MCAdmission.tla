------------------------------ MODULE MCAdmission ------------------------------
(* Instances of Admission for TLC. *)
EXTENDS Admission

CONSTANTS r1, r2, r3, a1, a2, p1, p2

ThreeRequests == {r1, r2, r3}
TwoAccounts == {a1, a2}
TwoProcesses == {p1, p2}

Plain ==
    [ requests |-> {r1, r2}, accounts |-> Accounts, process |-> [r \in Requests |-> p1], first |-> p1,
      handler |-> "gateway", userLimit |-> 2, accountLimit |-> 1,
      serialize |-> FALSE, sessions |-> FALSE, snapshot |-> FALSE,
      disconnects |-> FALSE, crash |-> FALSE, replicas |-> FALSE, ticks |-> 0,
      switches |-> 0, retries |-> 0,
      faults |-> {}, budget |-> 0 ]

Handlers == {"gateway", "openai"}

\* Failover of one request through all its branches; and one whose account
\* cannot be read again, where it holds no slot of it.
AloneSetups ==
    {[Plain EXCEPT !.handler = h, !.requests = {r1}, !.sessions = TRUE, !.snapshot = TRUE,
                   !.switches = 2, !.retries = 1, !.ticks = 2,
                   !.faults = {"release"}, !.budget = 1] : h \in Handlers}
    \cup {[Plain EXCEPT !.requests = {r1}, !.accountLimit = 0, !.snapshot = TRUE, !.switches = 1,
                        !.disconnects = TRUE, !.faults = {"hydrate"}, !.budget = 2]}

\* Two requests that fail over between two accounts of one slot each.
FailoverSetups ==
    {[Plain EXCEPT !.handler = h, !.sessions = TRUE, !.switches = 1] : h \in Handlers}

\* Three requests for one slot of the user, some longer than its TTL.
UserSetups ==
    {[Plain EXCEPT !.handler = h, !.requests = Requests, !.accounts = {a1}, !.userLimit = 1,
                   !.accountLimit = 0, !.ticks = 2] : h \in Handlers}

\* Three requests for one serial lock, some longer than its TTL.
SerialSetups ==
    {[Plain EXCEPT !.requests = Requests, !.accounts = {a1}, !.userLimit = 0, !.accountLimit = 0,
                   !.serialize = TRUE, !.ticks = 1]}

\* Lost calls and clients that leave.
FaultSetups ==
    {[Plain EXCEPT !.handler = h, !.accounts = {a1}, !.userLimit = 1, !.serialize = TRUE, !.disconnects = TRUE,
                   !.faults = FaultKinds \ {"hydrate", "startup"}, !.budget = 2] : h \in Handlers}

\* The server dies, and its successor starts and serves.
CrashSetups ==
    {[Plain EXCEPT !.handler = h, !.requests = Requests, !.accounts = {a1},
                   !.process = [@ EXCEPT ![r3] = p2], !.crash = TRUE,
                   !.faults = {"startup"}, !.budget = 1] : h \in Handlers}

\* A client that leaves while its account is read again.
HydrateSetups == {[Plain EXCEPT !.snapshot = TRUE, !.disconnects = TRUE, !.budget = 1]}

AllSetups ==
    AloneSetups \cup FailoverSetups \cup UserSetups \cup SerialSetups \cup FaultSetups
        \cup CrashSetups
=============================================================================
