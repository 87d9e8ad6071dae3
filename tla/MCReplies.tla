----------------------------- MODULE MCReplies -----------------------------
(* Instances of Replies for TLC. *)
EXTENDS Replies, TLC

ExecSymmetry == Permutations(Exec)
WorkerSymmetry == Permutations(Worker)

\* A row that neither a worker nor a scan nor an operator still holds.
Free(e) == /\ e \notin Running
           /\ \A l \in Leader : e \notin leader[l].todo
           /\ \A r \in resolving : r[1] # e

\* What any action or property still reads of a row.  Nothing reads attempt_count;
\* of a final row only its text and who said that it was sent, and of a row out of
\* recovery no ambiguity.
RowView(e) ==
  IF Free(e) /\ ex[e].status \in {"PUBLISHED", "FAILED_PERMANENT", "CANCELLED_BY_POLICY",
                                  "AUTH_REQUIRED"}
  THEN <<ex[e].status, ex[e].version,
         IF ex[e].status = "PUBLISHED" THEN ex[e].resolution ELSE "NONE">>
  ELSE <<IF ex[e].status = "RECOVERY_REQUIRED" \/ ~Free(e)
         THEN [ex[e] EXCEPT !.attempts = 0]
         ELSE [ex[e] EXCEPT !.attempts = 0, !.unsure = "NONE", !.deadline = FALSE],
         e \in jobs, e \in failed, e \in outbox>>

View == <<draftVars, [e \in Exec |-> RowView(e)], wk, leader, resolving, platformVars,
          faults>>

=============================================================================
