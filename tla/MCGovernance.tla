---------------------------- MODULE MCGovernance ----------------------------
(***************************************************************************)
(* Instances of Operator and Rules for TLC, in one run.  The two share no  *)
(* variable and neither reads the other's, so a behaviour of both together *)
(* is a behaviour of each: here only one of them, part, takes steps.       *)
(***************************************************************************)
EXTENDS Operator, Rules, TLC

CONSTANTS s1, w1, w2

VARIABLE part

OneWeekEach == [s \in Slot \cup {Later} |-> IF s = s1 THEN w1 ELSE w2]
AdaptAndSchedule == <<"ADAPT_STYLE_WEIGHT", "AUTO_SCHEDULE">>

governanceVars == <<operatorVars, rulesVars, part>>

Init ==
  /\ OperatorInit /\ RulesInit /\ part \in {"operator", "rules"}
  /\ part = "rules" => level = "NONE"
  /\ part = "operator" => version = 0

Next ==
  \/ part = "operator" /\ OperatorNext /\ UNCHANGED <<rulesVars, part>>
  \/ part = "rules" /\ RulesNext /\ UNCHANGED <<operatorVars, part>>

Spec == Init /\ [][Next]_governanceVars

\* Both parts keep to their types.
TypeOK == OperatorTypeOK /\ RulesTypeOK

Symmetry == Permutations(Cycle) \cup Permutations(Runner) \cup Permutations(Review)

-----------------------------------------------------------------------------
(* What any action or property still reads of a state.                     *)

CycleSeen(c) ==
  IF cycle[c].at = "read" THEN cycle[c]
  ELSE IF cycle[c].at = "selected"
  THEN [cycle[c] EXCEPT !.saw = IF @ = "MANUAL" THEN @ ELSE "NONE"]
  ELSE IF cycle[c].at \in {"cleared", "fenced"} THEN [cycle[c] EXCEPT !.saw = "NONE"]
  ELSE [AtRest EXCEPT !.at = cycle[c].at]

PostSeen(p) ==
  IF post[p].status = "ENDED" THEN [post[p] EXCEPT !.draft = 0] ELSE post[p]

OperatorSeen ==
  <<level, pausing, switches, IF leaseLive THEN lease ELSE NoCycle,
    LeaseHeld /\ run[lease] = "NONE", recent, queued, [c \in Cycle |-> CycleSeen(c)],
    candidate, [p \in Poster |-> PostSeen(p)], quota, generating, errors>>

RunnerSeen(w) ==
  IF runner[w].at = "over" THEN [Unstarted EXCEPT !.at = "over"] ELSE runner[w]

View == <<part, OperatorSeen, today, log, budget, done, passed \ done,
          [w \in Runner |-> RunnerSeen(w)],
          mishaps, proposalVars>>

=============================================================================
