------------------------------- MODULE Rules -------------------------------
(***************************************************************************)
(* One automation rule of a social account, the executions its triggers    *)
(* start (RulesEngineService), and the profile adaptation proposals they   *)
(* file for review (GovernanceService).                                    *)
(*                                                                         *)
(* An execution is a trigger within a day: the unique key of its log row   *)
(* is (rule, execution_window, execution_key).  A runner is one attempt at *)
(* a job of the automation-rules queue and stands for the lease token it   *)
(* draws.                                                                  *)
(***************************************************************************)
EXTENDS Integers, FiniteSets

CONSTANTS
  Trigger,       \* execution keys
  WithDraft,     \* those whose context names a draft: POST_PUBLISHED
  Actions,       \* the types of the rule's actions, in order
  Runner,        \* bound: attempts at jobs
  Review,        \* bound: requests to apply or reject a proposal
  Days,          \* bound: execution windows
  MaxDaily,      \* automation_rules.max_daily_executions
  MaxMishaps,    \* bound: crashes and database errors
  NoRunner

Count == Cardinality(DOMAIN Actions)

ASSUME RulesAssumption ==
  /\ IsFiniteSet(Trigger) /\ WithDraft \subseteq Trigger
  /\ Count \in Nat /\ Actions \in [1..Count -> {"ADAPT_STYLE_WEIGHT", "AUTO_SCHEDULE", "OTHER"}]
  /\ IsFiniteSet(Runner) /\ NoRunner \notin Runner
  /\ Days \in Nat \ {0} /\ MaxDaily \in Nat /\ MaxMishaps \in Nat

VARIABLES
  today,     \* the execution window of now
  log,       \* rule_execution_logs
  budget,    \* rule_execution_budgets.claimed_executions, 0 where there is no row
  done,      \* rule_action_executions, by action_execution_key
  passed,    \* history: the actions an attempt gave up for an error that mentions unique
  proposal,  \* profile_adaptation_proposals, by their unique action_execution_key
  version,   \* learned_performance_profiles.profile_version; 0: no profile
  runner,    \* the attempts' progress
  review,    \* the requests' progress
  mishaps

ruleVars == <<log, budget, done, passed, runner, mishaps>>
proposalVars == <<proposal, version, review>>
rulesVars == <<today, ruleVars, proposalVars>>

-----------------------------------------------------------------------------
(* Types *)

Execution == (1..Days) \X Trigger
Action == Execution \X (1..Count)

LogStatus == {"NONE", "CLAIMED", "EXECUTED", "FAILED", "SKIPPED_BUDGET"}
Log == [status : LogStatus, token : Runner \cup {NoRunner}, live : BOOLEAN]
LogEnded(s) == [status |-> s, token |-> NoRunner, live |-> FALSE]

\* applied: applied_at is set; source: source_profile_version.
Proposal == [status : {"NONE", "PENDING_REVIEW", "APPLIED", "REJECTED"}, source : Nat,
             applied : BOOLEAN]
NoProposal == [status |-> "NONE", source |-> 0, applied |-> FALSE]

\* exec: the execution worked on; next: the action whose turn it is.
Attempt == [at : {"idle", "matched", "acting", "failing", "over"},
            exec : Execution \cup {<<>>}, next : Nat \ {0}]
Unstarted == [at |-> "idle", exec |-> <<>>, next |-> 1]

RulesTypeOK ==
  /\ today \in 1..Days
  /\ log \in [Execution -> Log]
  /\ budget \in [1..Days -> Nat]
  /\ done \subseteq Action /\ passed \subseteq Action
  /\ proposal \in [Action -> Proposal]
  /\ version \in Nat
  /\ runner \in [Runner -> Attempt]
  /\ \A w \in Runner : runner[w].at \in {"matched", "acting", "failing"}
                       => runner[w].exec \in Execution
  /\ review \in [Review -> {<<"idle">>, <<"over">>} \cup ({"read"} \X Action)]
  /\ mishaps \in 0..MaxMishaps

RulesInit ==
  /\ today = 1
  /\ log = [e \in Execution |-> LogEnded("NONE")] /\ budget = [d \in 1..Days |-> 0]
  /\ done = {} /\ passed = {} /\ proposal = [a \in Action |-> NoProposal] /\ version \in {0, 1}
  /\ runner = [w \in Runner |-> Unstarted] /\ review = [q \in Review |-> <<"idle">>]
  /\ mishaps = 0

Move(w, at) == runner' = [runner EXCEPT ![w].at = at]

-----------------------------------------------------------------------------
(* RulesEngineService *)

\* processTrigger: the rule matches; the window is that of now, also on a re-run.
StartTrigger(w, k) ==
  /\ runner[w].at = "idle"
  /\ runner' = [runner EXCEPT ![w] = [at |-> "matched", exec |-> <<today, k>>, next |-> 1]]
  /\ UNCHANGED <<today, log, budget, done, passed, mishaps, proposalVars>>

Claim(w) == [status |-> "CLAIMED", token |-> w, live |-> TRUE]

\* claimExecutionAndBudget: a new log is charged.
ClaimNew(w) ==
  /\ runner[w].at = "matched" /\ log[runner[w].exec].status = "NONE"
  /\ IF budget[runner[w].exec[1]] < MaxDaily
     THEN /\ log' = [log EXCEPT ![runner[w].exec] = Claim(w)]
          /\ budget' = [budget EXCEPT ![runner[w].exec[1]] = @ + 1]
          /\ Move(w, "acting")
     ELSE /\ log' = [log EXCEPT ![runner[w].exec] = LogEnded("SKIPPED_BUDGET")]
          /\ Move(w, "over") /\ UNCHANGED budget
  /\ UNCHANGED <<today, done, passed, mishaps, proposalVars>>

CanReclaim(e) == log[e].status = "CLAIMED" /\ ~log[e].live

\* Mutant: an execution whose lease is over is charged once more.
ReclaimCharged(w) ==
  /\ runner[w].at = "matched" /\ CanReclaim(runner[w].exec)
  /\ log' = [log EXCEPT ![runner[w].exec] = Claim(w)]
  /\ budget' = [budget EXCEPT ![runner[w].exec[1]] = @ + 1]
  /\ Move(w, "acting")
  /\ UNCHANGED <<today, done, passed, mishaps, proposalVars>>

\* A claimed log whose lease is over is taken over with the charge it has.
Reclaim(w) ==
  /\ runner[w].at = "matched" /\ CanReclaim(runner[w].exec)
  /\ log' = [log EXCEPT ![runner[w].exec] = Claim(w)]
  /\ Move(w, "acting")
  /\ UNCHANGED <<today, budget, done, passed, mishaps, proposalVars>>

\* Completed, or leased by another runner.
NotClaimed(w) ==
  /\ runner[w].at = "matched"
  /\ log[runner[w].exec].status # "NONE" /\ ~CanReclaim(runner[w].exec)
  /\ Move(w, "over")
  /\ UNCHANGED <<today, log, budget, done, passed, mishaps, proposalVars>>

Key(w) == <<runner[w].exec, runner[w].next>>
Acting(w) == runner[w].at = "acting" /\ runner[w].next <= Count
Advance(w) == runner' = [runner EXCEPT ![w].next = @ + 1]

\* The row's unique key says the action is done: it is passed over.
SkipDone(w) ==
  /\ Acting(w) /\ Key(w) \in done /\ Advance(w)
  /\ UNCHANGED <<today, log, budget, done, passed, mishaps, proposalVars>>

\* One action and its row, in one transaction.  ADAPT_STYLE_WEIGHT files a proposal if
\* there is a profile; an AUTO_SCHEDULE without a draft does nothing, nor do the others.
Act(w) ==
  /\ Acting(w) /\ Key(w) \notin done
  /\ Actions[runner[w].next] # "AUTO_SCHEDULE" \/ runner[w].exec[2] \notin WithDraft
  /\ done' = done \cup {Key(w)} /\ Advance(w)
  /\ proposal' = IF Actions[runner[w].next] = "ADAPT_STYLE_WEIGHT" /\ version > 0
                 THEN [proposal EXCEPT ![Key(w)] =
                         [status |-> "PENDING_REVIEW", source |-> version, applied |-> FALSE]]
                 ELSE proposal
  /\ UNCHANGED <<today, log, budget, passed, mishaps, version, review>>

\* An AUTO_SCHEDULE with a draft is undone: the week has no quota left, or none at all,
\* or the insert lacks content_hash, which content_versions does not have.
AutoScheduleFails(w) ==
  /\ Acting(w) /\ Key(w) \notin done
  /\ Actions[runner[w].next] = "AUTO_SCHEDULE" /\ runner[w].exec[2] \in WithDraft
  /\ Move(w, "failing")
  /\ UNCHANGED <<today, log, budget, done, passed, mishaps, proposalVars>>

\* An error whose message has the word unique is taken for that of the row's key, and the
\* next action is tried: also an error of findUnique, which names the call, and one that
\* shows the arguments of a create, a text of the user's among them.
ErrorPassedOver(w) ==
  /\ Acting(w) /\ Key(w) \notin done
  /\ passed' = passed \cup {Key(w)} /\ Advance(w)
  /\ UNCHANGED <<today, log, budget, done, mishaps, proposalVars>>

\* Mutant: the catch block writes FAILED and goes on with the next action.
MarkFailedGoOn(w) ==
  /\ runner[w].at = "failing"
  /\ log' = [log EXCEPT ![runner[w].exec] = LogEnded("FAILED")]
  /\ runner' = [runner EXCEPT ![w].at = "acting", ![w].next = @ + 1]
  /\ UNCHANGED <<today, budget, done, passed, mishaps, proposalVars>>

\* Any other error ends the log; the catch block writes by id alone.
MarkFailed(w) ==
  /\ runner[w].at = "failing"
  /\ log' = [log EXCEPT ![runner[w].exec] = LogEnded("FAILED")]
  /\ Move(w, "over")
  /\ UNCHANGED <<today, budget, done, passed, mishaps, proposalVars>>

\* The last write is fenced by the token.
MarkExecuted(w) ==
  /\ runner[w].at = "acting" /\ runner[w].next > Count
  /\ log' = IF log[runner[w].exec].token = w
            THEN [log EXCEPT ![runner[w].exec] = LogEnded("EXECUTED")]
            ELSE log
  /\ Move(w, "over")
  /\ UNCHANGED <<today, budget, done, passed, mishaps, proposalVars>>

-----------------------------------------------------------------------------
(* Proposals *)

\* Both requests look at the status first, outside their write.
ReadProposal(q, a) ==
  /\ review[q] = <<"idle">> /\ proposal[a].status = "PENDING_REVIEW"
  /\ review' = [review EXCEPT ![q] = <<"read", a>>]
  /\ UNCHANGED <<today, ruleVars, proposal, version>>

Filed(q) == review[q][2]

\* Mutant: the profile is updated by id, whatever its version.
ApplyBlindly(q) ==
  /\ review[q][1] = "read"
  /\ review' = [review EXCEPT ![q] = <<"over">>]
  /\ version' = version + 1
  /\ proposal' = [proposal EXCEPT ![Filed(q)].status = "APPLIED", ![Filed(q)].applied = TRUE]
  /\ UNCHANGED <<today, ruleVars>>

\* applyAdaptationProposal: the profile must have the version the proposal was made
\* from; the proposal is written by id.
Apply(q) ==
  /\ review[q][1] = "read"
  /\ review' = [review EXCEPT ![q] = <<"over">>]
  /\ IF proposal[Filed(q)].source = version
     THEN /\ version' = version + 1
          /\ proposal' = [proposal EXCEPT ![Filed(q)].status = "APPLIED",
                                          ![Filed(q)].applied = TRUE]
     ELSE UNCHANGED <<version, proposal>>
  /\ UNCHANGED <<today, ruleVars>>

\* rejectAdaptationProposal: by id as well.
Reject(q) ==
  /\ review[q][1] = "read"
  /\ review' = [review EXCEPT ![q] = <<"over">>]
  /\ proposal' = [proposal EXCEPT ![Filed(q)].status = "REJECTED"]
  /\ UNCHANGED <<today, ruleVars, version>>

\* The learning job creates the profile; later it rewrites its weights and not its version.
CreateProfile ==
  /\ version = 0 /\ version' = 1
  /\ UNCHANGED <<today, ruleVars, proposal, review>>

-----------------------------------------------------------------------------
(* Errors and time *)

SpendMishap == mishaps < MaxMishaps /\ mishaps' = mishaps + 1

ActionError(w) ==
  /\ Acting(w) /\ SpendMishap /\ Move(w, "failing")
  /\ UNCHANGED <<today, log, budget, done, passed, proposalVars>>

RunnerCrash(w) ==
  /\ runner[w].at \in {"matched", "acting", "failing"} /\ SpendMishap /\ Move(w, "over")
  /\ UNCHANGED <<today, log, budget, done, passed, proposalVars>>

RuleLeaseEnds(e) ==
  /\ log[e].live /\ log' = [log EXCEPT ![e].live = FALSE]
  /\ UNCHANGED <<today, budget, done, passed, runner, mishaps, proposalVars>>

NextDay ==
  /\ today < Days /\ today' = today + 1
  /\ UNCHANGED <<ruleVars, proposalVars>>

RunnerStep(w) ==
  \/ \E k \in Trigger : StartTrigger(w, k)
  \/ ClaimNew(w) \/ Reclaim(w) \/ NotClaimed(w)
  \/ SkipDone(w) \/ Act(w) \/ AutoScheduleFails(w) \/ ErrorPassedOver(w)
  \/ MarkFailed(w) \/ MarkExecuted(w) \/ ActionError(w) \/ RunnerCrash(w)

RulesNext ==
  \/ \E w \in Runner : RunnerStep(w)
  \/ \E q \in Review : Apply(q) \/ Reject(q) \/ \E a \in Action : ReadProposal(q, a)
  \/ CreateProfile \/ NextDay \/ \E e \in Execution : RuleLeaseEnds(e)

RulesSpec == RulesInit /\ [][RulesNext]_rulesVars

-----------------------------------------------------------------------------
(* Properties *)

\* A day's budget is charged once for every execution that was let through, however often
\* it was taken over, and never beyond the limit.
ChargedPerExecution ==
  \A d \in 1..Days :
    LET charged == {k \in Trigger : log[<<d, k>>].status \notin {"NONE", "SKIPPED_BUDGET"}}
    IN budget[d] = Cardinality(charged) /\ budget[d] <= MaxDaily

\* However many runners took an execution over, and wherever they failed: its actions took
\* place in their order, all of them if the log says EXECUTED, with no gap but those the
\* code itself jumps, for an error that mentions unique; and only an action that took place
\* has filed a proposal.
ActionsInOrder ==
  /\ \A e \in Execution : \A i \in 1..Count :
       <<e, i>> \in done => \A j \in 1..(i - 1) : <<e, j>> \in done \cup passed
  /\ \A e \in Execution :
       log[e].status = "EXECUTED" => \A i \in 1..Count : <<e, i>> \in done \cup passed
  /\ \A a \in Action : proposal[a].status # "NONE" => a \in done

\* Of the proposals made from one version of the profile at most one is ever applied, and
\* the version counts them.
AppliedFromItsVersion ==
  LET applied == {a \in Action : proposal[a].applied}
  IN /\ \A a, b \in applied : proposal[a].source = proposal[b].source => a = b
     /\ \A a \in applied : proposal[a].source < version
     /\ version > 0 => version = 1 + Cardinality(applied)

=============================================================================
