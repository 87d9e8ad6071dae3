--------------------------- MODULE MCAggregation ---------------------------
(* Instances of Aggregation for TLC. *)
EXTENDS Aggregation, TLC

Symmetry ==
  Permutations(Worker) \cup Permutations(Client) \cup Permutations(Slot) \cup Permutations(Candidate)

\* What any action or property still reads of an exposure: of one that is over, that it
\* is; of one that is over and of an earlier revision, whether a call is about it.
Over(k) == exposure[k] \in {"DISMISSED", "EVALUATED"}
Seen == {k \in DOMAIN exposure : ~Over(k) \/ k[1] = rev \/ \E c \in Client : call[c].of = k}

View ==
  <<stateVars, [k \in Seen |-> IF Over(k) THEN "over" ELSE exposure[k]], revived \cap Pending,
    call, calls, events, jobs, failed, worker, faults>>

=============================================================================
