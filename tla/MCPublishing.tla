---------------------------- MODULE MCPublishing ----------------------------
(* Instances of Publishing for TLC. *)
EXTENDS Publishing, TLC

CONSTANTS p1, p2, t1, x

\* p2 reschedules the draft of p1.
OneDraft == [p \in Post |-> t1]

OneText == [p \in Post |-> x]

\* What any action or property still reads of a row: of a final one, nothing that
\* only drives its own execution (its jobs, dispatch, age, counters and lease).
Over(p) == row[p].status \in Final

RowView(p) ==
  IF Over(p)
  THEN <<row[p].status, row[p].container, row[p].requested, row[p].ambiguous>>
  ELSE <<row[p], age[p], dispatch[p], jobs[p], p \in doomed, p \in toEnqueue,
         p \in resolving>>

View == <<[p \in Post |-> RowView(p)], adopted, events, attested, wk, api,
          platformVars, faults>>

WorkerSymmetry == Permutations(Worker)

\* Sound where all rows have one target and one text.
PostSymmetry == Permutations(Post)

=============================================================================
