--------------------------- MODULE MCSystemOperations ---------------------------
(* Instances of SystemOperations for TLC. *)
EXTENDS SystemOperations, TLC

CONSTANTS p1, p2, a1, a2, w1, w2

OnePayload == {p1}
TwoPayloads == {p1, p2}
TwoIds == {a1, a2}
TwoWorkers == {w1, w2}

\* Requests, payloads and anonymous operation ids are interchangeable.
Symmetry == Permutations(Workers) \cup Permutations(Payloads) \cup Permutations(Anon)

=============================================================================
