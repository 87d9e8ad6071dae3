------------------------------ MODULE Replies ------------------------------
(***************************************************************************)
(* The reply to one interaction: its drafting and approval (ReplyDraft-    *)
(* Processor, EngagementService), the reply_executions created by each     *)
(* approval, the ReplyPublishProcessor that publishes them under a lease,  *)
(* EngagementReconciliationService's scans 2 to 4 and the Threads platform.*)
(*                                                                         *)
(* attempt_id is a fresh UUID for every claim and a worker slot runs one   *)
(* claim at a time, so `holder' (the slot) stands for it; `live' says that *)
(* lease_until is later than NOW().  Versions are draft version numbers.   *)
(***************************************************************************)
EXTENDS Naturals

CONSTANTS
  Exec,         \* ids of reply_executions, all of one interaction
  OtherPost,    \* bound: other posts of the account, ordinary ones or replies elsewhere
  Worker,       \* job slots of the reply publish queue's processors
  Leader,       \* processes that run the reconciliation loop
  Drafter,      \* draft requests and their jobs
  MaxVersions,  \* bound: draft versions
  MaxPublishes, \* publish attempts after which a rejection is final (5)
  MaxFaults,    \* bound: crashes, stalls, lost jobs, errors of a service
  NoWorker, NoExec

ASSUME BoundAssumption ==
  MaxVersions \in Nat \ {0} /\ MaxPublishes \in Nat \ {0} /\ MaxFaults \in Nat
ASSUME NullAssumption == NoWorker \notin Worker /\ NoExec \notin Exec
ASSUME PostAssumption == \A e \in Exec : e \notin OtherPost \X Nat

VARIABLES
  inter,     \* interactions.status
  latest,    \* the highest version_number of the draft, its current version
  approved,  \* reply_drafts.approved_version_id; 0 is null
  draft,     \* draft requests and jobs
  ex,        \* reply_executions
  outbox,    \* executions whose dispatch event is pending
  jobs,      \* executions with a waiting job in the reply publish queue
  failed,    \* executions whose job id belongs to a failed job
  wk,        \* the running job of each worker slot
  leader,    \* the reconciliation round each process is in
  resolving, \* operator answers whose status check has passed
  inflight,  \* platform: publish requests received and not processed
  posts,     \* platform: executions whose container was published
  others,    \* platform: other posts with the text of a version, and that version
  faults     \* faults spent so far

draftVars    == <<inter, latest, approved, draft>>
queueVars    == <<outbox, jobs, failed>>
platformVars == <<inflight, posts, others>>
vars == <<draftVars, ex, queueVars, wk, leader, resolving, platformVars, faults>>

-----------------------------------------------------------------------------
(* Types *)

\* The statuses of idx_unique_active_reply_execution.
Active == {"CREATED", "QUEUED", "CLAIMED", "QUOTA_BLOCKED", "CREATING_CONTAINER",
           "CONTAINER_CREATED", "PUBLISHING", "RECOVERY_REQUIRED"}
Status == Active \cup {"NONE", "PUBLISHED", "RETRYABLE_FAILURE", "FAILED_PERMANENT",
                       "CANCELLED_BY_POLICY", "AUTH_REQUIRED"}

Terminal == {"DISMISSED", "BLOCKED", "NOT_REQUIRED", "REPLIED"}
InteractionStatus ==
  Terminal \cup {"DRAFTING", "OUTPUT_SAFETY_EVALUATING", "REVIEW_REQUIRED",
                 "APPROVED", "PUBLISHING", "RECOVERY_REQUIRED"}

Resolution == {"NONE", "MATCHED", "NOT_LANDED", "OPERATOR_REQUIRED",
               "CONFIRMED_PUBLISHED", "CONFIRMED_NOT_PUBLISHED"}

\* attempts, publishes: attempt_count, publish_attempt_count; unsure: ambiguity_type;
\* deadline: recovery_deadline_at has passed.
Execution == [status : Status, version : 0..MaxVersions, container : BOOLEAN,
              attempts : Nat, publishes : Nat, holder : Worker \cup {NoWorker},
              live : BOOLEAN, unsure : {"NONE", "CONTAINER_CREATE", "PUBLISH"},
              deadline : BOOLEAN, resolution : Resolution]

NewExecution(v) ==
  [status |-> "CREATED", version |-> v, container |-> FALSE, attempts |-> 0,
   publishes |-> 0, holder |-> NoWorker, live |-> FALSE, unsure |-> "NONE",
   deadline |-> FALSE, resolution |-> "NONE"]

NoExecution == [NewExecution(0) EXCEPT !.status = "NONE"]

\* Where a running process() stands.
Step == {"idle", "cancel", "gate", "container", "creating", "poll", "refused", "advance",
         "mark", "send", "commit", "replied", "feedback", "reject", "ambiguous", "review",
         "recovery"}
WorkerState == [pc : Step, exec : Exec \cup {NoExec}]
Idle == [pc |-> "idle", exec |-> NoExec]

DraftState == [pc : {"none", "triggering", "queued", "generating", "safety"},
               regenerate : BOOLEAN, version : 0..MaxVersions]
NoDraft == [pc |-> "none", regenerate |-> FALSE, version |-> 0]

\* todo: rows the scan has read and not yet written.
Scan == {"claimed", "creating", "publishing", "lost", "retry", "recovery"}
Round == [scan : Scan \cup {"none"}, todo : SUBSET Exec]
NoRound == [scan |-> "none", todo |-> {}]

TypeOK ==
  /\ inter \in InteractionStatus
  /\ latest \in 0..MaxVersions /\ approved \in 0..MaxVersions
  /\ draft \in [Drafter -> DraftState]
  /\ ex \in [Exec -> Execution]
  /\ outbox \subseteq Exec /\ jobs \subseteq Exec /\ failed \subseteq Exec
  /\ wk \in [Worker -> WorkerState]
  /\ \A w \in Worker : wk[w].pc # "idle" => wk[w].exec \in Exec
  /\ leader \in [Leader -> Round]
  /\ resolving \subseteq Exec \X {"CONFIRMED_PUBLISHED", "CONFIRMED_NOT_PUBLISHED"}
  /\ inflight \subseteq Exec /\ posts \subseteq Exec
  /\ others \subseteq OtherPost \X (1..MaxVersions)
  /\ faults \in 0..MaxFaults

\* Classification has just made the interaction eligible and enqueued its draft.
Init ==
  /\ inter = "DRAFTING" /\ latest = 0 /\ approved = 0
  /\ draft \in {[d \in Drafter |-> IF d = first THEN [NoDraft EXCEPT !.pc = "queued"]
                                   ELSE NoDraft] : first \in Drafter}
  /\ ex = [e \in Exec |-> NoExecution]
  /\ outbox = {} /\ jobs = {} /\ failed = {}
  /\ wk = [w \in Worker |-> Idle]
  /\ leader = [l \in Leader |-> NoRound]
  /\ resolving = {} /\ inflight = {} /\ posts = {} /\ others = {}
  /\ faults = 0

-----------------------------------------------------------------------------
(* Rows, leases and the queue *)

Spend == faults < MaxFaults /\ faults' = faults + 1

\* Giving e an active status would violate idx_unique_active_reply_execution.
Clash(e) == \E f \in Exec \ {e} : ex[f].status \in Active

Running == {wk[w].exec : w \in {v \in Worker : wk[v].pc # "idle"}}

\* queue.add with the job id of e does nothing while a job has that id.
Enqueued(e) == IF e \in failed \cup Running THEN jobs ELSE jobs \cup {e}

Working(w, pc) == wk[w].pc = pc
GoTo(w, pc) == wk' = [wk EXCEPT ![w].pc = pc]
Finish(w) == wk' = [wk EXCEPT ![w] = Idle]

\* WHERE attempt_id = mine AND claimed_by = me AND lease_until > NOW().
Holds(w) == LET x == ex[wk[w].exec] IN x.holder = w /\ x.live

\* A fenced write; an operator may have taken the row out of the active statuses.
MayActivate(w) == Holds(w) /\ ~Clash(wk[w].exec)

\* fencedUpdate: every write renews the lease.
FencedUpdate(w, s) ==
  /\ Holds(w) /\ (s \in Active => MayActivate(w))
  /\ ex' = [ex EXCEPT ![wk[w].exec].status = s]

\* A fenced write that finds the lease lost throws FencingLeaseExpiredException;
\* whatever catches it, the next write is fenced too and the job completes.
Fences == {"cancel", "gate", "container", "creating", "poll", "advance", "commit",
           "reject", "ambiguous"}
LeaseLost(w) ==
  /\ wk[w].pc \in Fences /\ ~Holds(w)
  /\ Finish(w)
  /\ UNCHANGED <<draftVars, ex, queueVars, leader, resolving, platformVars, faults>>

-----------------------------------------------------------------------------
(* Drafting, editing and approving *)

\* triggerDraft has read the interaction in a status that allows a draft.
TriggerDraft(d, regenerate) ==
  /\ draft[d].pc = "none" /\ inter \notin Terminal /\ latest < MaxVersions
  /\ draft' = [draft EXCEPT ![d] = [NoDraft EXCEPT !.pc = "triggering",
                                                   !.regenerate = regenerate]]
  /\ UNCHANGED <<inter, latest, approved, ex, queueVars, wk, leader, resolving,
                 platformVars, faults>>

\* It then writes DRAFTING by id and adds the job.
EnqueueDraft(d) ==
  /\ draft[d].pc = "triggering"
  /\ inter' = "DRAFTING"
  /\ draft' = [draft EXCEPT ![d].pc = "queued"]
  /\ UNCHANGED <<latest, approved, ex, queueVars, wk, leader, resolving,
                 platformVars, faults>>

\* ReplyDraftProcessor skips a terminal interaction and otherwise calls the model.
StartDraft(d) ==
  /\ draft[d].pc = "queued"
  /\ draft' = [draft EXCEPT ![d] = IF inter \in Terminal THEN NoDraft
                                   ELSE [@ EXCEPT !.pc = "generating"]]
  /\ UNCHANGED <<inter, latest, approved, ex, queueVars, wk, leader, resolving,
                 platformVars, faults>>

\* First transaction: the new version; a regeneration withdraws the approval.
PersistDraft(d) ==
  /\ draft[d].pc = "generating" /\ latest < MaxVersions
  /\ latest' = latest + 1
  /\ approved' = IF draft[d].regenerate THEN 0 ELSE approved
  /\ inter' = "OUTPUT_SAFETY_EVALUATING"
  /\ draft' = [draft EXCEPT ![d].pc = "safety", ![d].version = latest + 1]
  /\ UNCHANGED <<ex, queueVars, wk, leader, resolving, platformVars, faults>>

\* An approval creates one execution of version v and its dispatch event, and
\* then, unless the process stops there, the job.
CreateExecution(e, v) ==
  /\ ex[e].status = "NONE" /\ ~Clash(e)
  /\ approved' = v
  /\ ex' = [ex EXCEPT ![e] = NewExecution(v)]
  /\ outbox' = outbox \cup {e}
  /\ jobs' \in {jobs, Enqueued(e)}

\* Second transaction, AUTO_REPLY: the reply is approved without a person.
AutoApprove(d, e) ==
  /\ draft[d].pc = "safety"
  /\ CreateExecution(e, draft[d].version)
  /\ inter' = "APPROVED"
  /\ draft' = [draft EXCEPT ![d] = NoDraft]
  /\ UNCHANGED <<latest, failed, wk, leader, resolving, platformVars, faults>>

\* Second transaction, any other decision of the safety gate.
RouteDraft(d, s) ==
  /\ draft[d].pc = "safety"
  /\ inter' = s
  /\ draft' = [draft EXCEPT ![d] = NoDraft]
  /\ UNCHANGED <<latest, approved, ex, queueVars, wk, leader, resolving,
                 platformVars, faults>>

\* A step of the draft job throws; the AUTO_REPLY transaction always does while
\* another execution is active.
DraftFails(d) ==
  /\ draft[d].pc \in {"generating", "safety"}
  /\ \/ Spend
     \/ draft[d].pc = "safety" /\ (\E e \in Exec : Clash(e)) /\ UNCHANGED faults
  /\ draft' = [draft EXCEPT ![d] = NoDraft]
  /\ UNCHANGED <<inter, latest, approved, ex, queueVars, wk, leader, resolving,
                 platformVars>>

\* updateDraft with the current If-Match: REVIEW_REQUIRED whatever the status was.
UpdateDraft ==
  /\ latest \in 1..(MaxVersions - 1)
  /\ latest' = latest + 1
  /\ inter' = "REVIEW_REQUIRED"
  /\ UNCHANGED <<approved, draft, ex, queueVars, wk, leader, resolving, platformVars,
                 faults>>

ApproveDraft(e, v) ==
  /\ inter = "REVIEW_REQUIRED" /\ v \in 1..latest
  /\ CreateExecution(e, v)
  /\ inter' = "APPROVED"
  /\ UNCHANGED <<latest, draft, failed, wk, leader, resolving, platformVars, faults>>

DismissInteraction ==
  /\ inter = "REVIEW_REQUIRED"
  /\ inter' = "DISMISSED"
  /\ UNCHANGED <<latest, approved, draft, ex, queueVars, wk, leader, resolving,
                 platformVars, faults>>

\* The dispatch event adds the job if it is missing (EventOutbox, Scan 0).
Dispatch(e) ==
  /\ e \in outbox
  /\ jobs' = Enqueued(e)
  /\ outbox' = outbox \ {e}
  /\ UNCHANGED <<draftVars, ex, failed, wk, leader, resolving, platformVars, faults>>

\* resolveExecution has read e in RECOVERY_REQUIRED; the operator tells the truth.
BeginResolve(e, answer) ==
  /\ ex[e].status = "RECOVERY_REQUIRED" /\ \A r \in resolving : r[1] # e
  /\ \/ answer = "CONFIRMED_PUBLISHED" /\ e \in posts
     \/ /\ answer = "CONFIRMED_NOT_PUBLISHED" /\ e \notin posts
        /\ ex[e].resolution # answer
  /\ resolving' = resolving \cup {<<e, answer>>}
  /\ UNCHANGED <<draftVars, ex, queueVars, wk, leader, platformVars, faults>>

\* The answer is then written by id: a reply that was not published is retried
\* when there is a container and otherwise given up.
ResolveExecution(e, answer) ==
  LET status == CASE answer = "CONFIRMED_PUBLISHED" -> "PUBLISHED"
                  [] ex[e].container -> "RETRYABLE_FAILURE"
                  [] OTHER -> "FAILED_PERMANENT"
  IN /\ <<e, answer>> \in resolving
     /\ resolving' = resolving \ {<<e, answer>>}
     /\ ex' = [ex EXCEPT ![e].status = status, ![e].resolution = answer]
     /\ inter' = CASE status = "PUBLISHED" -> "REPLIED"
                   [] status = "FAILED_PERMANENT" -> "REVIEW_REQUIRED"
                   [] OTHER -> inter
     /\ UNCHANGED <<latest, approved, draft, queueVars, wk, leader, platformVars,
                    faults>>

-----------------------------------------------------------------------------
(* ReplyPublishProcessor: claim, pre-flight checks and the container *)

Claimable(e) ==
  \/ ex[e].status \in {"CREATED", "QUEUED", "RETRYABLE_FAILURE", "QUOTA_BLOCKED"}
  \/ ex[e].status = "CLAIMED" /\ ~ex[e].live

\* Checks 2.1 and 2.2, on the rows loaded with the claim.
Authorized(e) == approved = ex[e].version /\ inter \in {"APPROVED", "PUBLISHING"}

Claim(w, e) ==
  /\ Working(w, "idle") /\ e \in jobs
  /\ Claimable(e) /\ ~Clash(e)
  /\ jobs' = jobs \ {e}
  /\ ex' = [ex EXCEPT ![e].status = "CLAIMED", ![e].holder = w, ![e].live = TRUE]
  /\ wk' = [wk EXCEPT ![w] = [pc |-> IF Authorized(e) THEN "gate" ELSE "cancel",
                              exec |-> e]]
  /\ UNCHANGED <<draftVars, outbox, failed, leader, resolving, platformVars, faults>>

\* The job of a row that cannot be claimed, or is not due yet, completes; the
\* claim of one that would be a second active execution throws.
SkipJob(e) ==
  /\ e \in jobs /\ jobs' = jobs \ {e}
  /\ \/ ~Claimable(e) /\ UNCHANGED failed
     \/ ex[e].status \in {"RETRYABLE_FAILURE", "QUOTA_BLOCKED"} /\ UNCHANGED failed
     \/ Claimable(e) /\ Clash(e) /\ failed' = failed \cup {e}
  /\ UNCHANGED <<draftVars, ex, outbox, wk, leader, resolving, platformVars, faults>>

\* Mutant: the status name of scheduled posts.
CancelAsPost(w) ==
  /\ Working(w, "cancel") /\ FencedUpdate(w, "CANCELLED")
  /\ Finish(w)
  /\ UNCHANGED <<draftVars, queueVars, leader, resolving, platformVars, faults>>

\* Stale approval or interaction no longer approved: the interaction is left as it is.
Cancel(w) ==
  /\ Working(w, "cancel") /\ FencedUpdate(w, "CANCELLED_BY_POLICY")
  /\ Finish(w)
  /\ UNCHANGED <<draftVars, queueVars, leader, resolving, platformVars, faults>>

\* Disconnected account (AUTH_REQUIRED) or replies paused.
Refuse(w, s) ==
  /\ Working(w, "gate") /\ FencedUpdate(w, s)
  /\ GoTo(w, "review")
  /\ UNCHANGED <<draftVars, queueVars, leader, resolving, platformVars, faults>>

\* getValidToken throws for a missing or revoked token: the job fails.
TokenUnavailable(w) ==
  /\ Working(w, "gate")
  /\ failed' = failed \cup {wk[w].exec}
  /\ Finish(w)
  /\ UNCHANGED <<draftVars, ex, outbox, jobs, leader, resolving, platformVars, faults>>

QuotaExhausted(w) ==
  /\ Working(w, "gate") /\ FencedUpdate(w, "QUOTA_BLOCKED")
  /\ Finish(w)
  /\ UNCHANGED <<draftVars, queueVars, leader, resolving, platformVars, faults>>

\* Mutant: every claim creates its own container.
PassGateFresh(w) ==
  /\ Working(w, "gate")
  /\ GoTo(w, "container")
  /\ UNCHANGED <<draftVars, ex, queueVars, leader, resolving, platformVars, faults>>

\* All checks passed; an existing container is used again.
PassGate(w) ==
  /\ Working(w, "gate")
  /\ GoTo(w, IF ex[wk[w].exec].container THEN "poll" ELSE "container")
  /\ UNCHANGED <<draftVars, ex, queueVars, leader, resolving, platformVars, faults>>

\* CREATING_CONTAINER is written and the container requested.
CreateContainer(w) ==
  /\ Working(w, "container") /\ MayActivate(w)
  /\ ex' = [ex EXCEPT ![wk[w].exec].status = "CREATING_CONTAINER",
                      ![wk[w].exec].attempts = @ + 1]
  /\ GoTo(w, "creating")
  /\ UNCHANGED <<draftVars, queueVars, leader, resolving, platformVars, faults>>

ContainerAnswered(w) ==
  /\ Working(w, "creating") /\ MayActivate(w)
  /\ ex' = [ex EXCEPT ![wk[w].exec].status = "CONTAINER_CREATED",
                      ![wk[w].exec].container = TRUE]
  /\ GoTo(w, "poll")
  /\ UNCHANGED <<draftVars, queueVars, leader, resolving, platformVars, faults>>

\* RECOVERY_REQUIRED with a deadline of 45 seconds.
Recover(x, kind) ==
  [x EXCEPT !.status = "RECOVERY_REQUIRED", !.unsure = kind, !.deadline = FALSE]

\* A timeout or 5xx, of the request or of the write that records its container.
ContainerAmbiguous(w) ==
  /\ Working(w, "creating") /\ MayActivate(w)
  /\ ex' = [ex EXCEPT ![wk[w].exec] = Recover(@, "CONTAINER_CREATE")]
  /\ GoTo(w, "recovery")
  /\ UNCHANGED <<draftVars, queueVars, leader, resolving, platformVars, faults>>

\* A text refused before the request, a definitive answer, or a container in
\* status ERROR or EXPIRED.
ContainerRefused(w) ==
  /\ wk[w].pc \in {"creating", "poll"} /\ FencedUpdate(w, "FAILED_PERMANENT")
  /\ GoTo(w, IF wk[w].pc = "poll" THEN "refused" ELSE "review")
  /\ UNCHANGED <<draftVars, queueVars, leader, resolving, platformVars, faults>>

\* Any other container status, and any error of the check.
PollContainer(w) ==
  /\ Working(w, "poll")
  /\ GoTo(w, "advance")
  /\ UNCHANGED <<draftVars, ex, queueVars, leader, resolving, platformVars, faults>>

\* The check's catch also covers the interaction's update after FAILED_PERMANENT: if
\* that fails, the reply is published all the same.
RefusalIgnored(w) ==
  /\ Working(w, "refused") /\ Spend
  /\ GoTo(w, "advance")
  /\ UNCHANGED <<draftVars, ex, queueVars, leader, resolving, platformVars>>

-----------------------------------------------------------------------------
(* ReplyPublishProcessor: the publish request and what follows its answer *)

AdvancePublishing(w) ==
  /\ Working(w, "advance") /\ MayActivate(w)
  /\ ex' = [ex EXCEPT ![wk[w].exec].status = "PUBLISHING",
                      ![wk[w].exec].publishes = @ + 1]
  /\ GoTo(w, "mark")
  /\ UNCHANGED <<draftVars, queueVars, leader, resolving, platformVars, faults>>

\* The interaction becomes PUBLISHING, without a fence, and the request is sent.
SendPublish(w) ==
  /\ Working(w, "mark")
  /\ inter' = "PUBLISHING"
  /\ inflight' = inflight \cup {wk[w].exec}
  /\ GoTo(w, "send")
  /\ UNCHANGED <<latest, approved, draft, ex, queueVars, leader, resolving, posts,
                 others, faults>>

PublishAnswered(w) ==
  /\ Working(w, "send") /\ wk[w].exec \in posts
  /\ GoTo(w, "commit")
  /\ UNCHANGED <<draftVars, ex, queueVars, leader, resolving, platformVars, faults>>

\* The platform refuses the request: no post comes of it.
PublishRefused(w) ==
  /\ Working(w, "send")
  /\ inflight' = inflight \ {wk[w].exec}
  /\ GoTo(w, "reject")
  /\ UNCHANGED <<draftVars, ex, queueVars, leader, resolving, posts, others, faults>>

\* A reset connection surfaces as "fetch failed", which counts as a refusal although
\* the request may still be processed.
ConnectionDrops(w) ==
  /\ Working(w, "send") /\ Spend
  /\ GoTo(w, "reject")
  /\ UNCHANGED <<draftVars, ex, queueVars, leader, resolving, platformVars>>

\* The request times out or answers 5xx; it may still be processed.
PublishAmbiguous(w) ==
  /\ Working(w, "send")
  /\ GoTo(w, "ambiguous")
  /\ UNCHANGED <<draftVars, ex, queueVars, leader, resolving, platformVars, faults>>

CommitPublished(w) ==
  /\ Working(w, "commit") /\ FencedUpdate(w, "PUBLISHED")
  /\ GoTo(w, "replied")
  /\ UNCHANGED <<draftVars, queueVars, leader, resolving, platformVars, faults>>

\* The interaction becomes REPLIED; an edited draft leaves an editorial feedback.
MarkReplied(w) ==
  /\ Working(w, "replied")
  /\ inter' = "REPLIED"
  /\ IF ex[wk[w].exec].version > 1 THEN GoTo(w, "feedback") ELSE Finish(w)
  /\ UNCHANGED <<latest, approved, draft, ex, queueVars, leader, resolving,
                 platformVars, faults>>

RecordFeedback(w) ==
  /\ Working(w, "feedback")
  /\ Finish(w)
  /\ UNCHANGED <<draftVars, ex, queueVars, leader, resolving, platformVars, faults>>

\* The catch around publishContainer also covers the three writes after it.
CommitFails(w) ==
  /\ wk[w].pc \in {"commit", "replied", "feedback"} /\ Spend
  /\ \E pc \in {"reject", "ambiguous"} : GoTo(w, pc)
  /\ UNCHANGED <<draftVars, ex, queueVars, leader, resolving, platformVars>>

RecoverPublish(w) ==
  /\ Working(w, "ambiguous") /\ MayActivate(w)
  /\ ex' = [ex EXCEPT ![wk[w].exec] = Recover(@, "PUBLISH")]
  /\ GoTo(w, "recovery")
  /\ UNCHANGED <<draftVars, queueVars, leader, resolving, platformVars, faults>>

\* Backoff while attempts are left.
RetryPublish(w) ==
  /\ Working(w, "reject") /\ ex[wk[w].exec].publishes < MaxPublishes
  /\ FencedUpdate(w, "RETRYABLE_FAILURE")
  /\ Finish(w)
  /\ UNCHANGED <<draftVars, queueVars, leader, resolving, platformVars, faults>>

GiveUp(w) ==
  /\ Working(w, "reject") /\ ex[wk[w].exec].publishes >= MaxPublishes
  /\ FencedUpdate(w, "FAILED_PERMANENT")
  /\ GoTo(w, "review")
  /\ UNCHANGED <<draftVars, queueVars, leader, resolving, platformVars, faults>>

\* The second write of an outcome, by id and unfenced.
UpdateInteraction(w) ==
  /\ \/ wk[w].pc \in {"review", "refused"} /\ inter' = "REVIEW_REQUIRED"
     \/ Working(w, "recovery") /\ inter' = "RECOVERY_REQUIRED"
  /\ Finish(w)
  /\ UNCHANGED <<latest, approved, draft, ex, queueVars, leader, resolving,
                 platformVars, faults>>

\* Any other error rethrows and the job fails; so does a fenced write that would
\* make a second execution active.
Throw(w) ==
  /\ wk[w].pc \notin {"idle", "poll", "refused", "send", "commit", "replied", "feedback"}
  /\ \/ Spend
     \/ /\ wk[w].pc \in {"container", "creating", "advance", "ambiguous"}
        /\ Holds(w) /\ Clash(wk[w].exec) /\ UNCHANGED faults
  /\ failed' = failed \cup {wk[w].exec}
  /\ Finish(w)
  /\ UNCHANGED <<draftVars, ex, outbox, jobs, leader, resolving, platformVars>>

-----------------------------------------------------------------------------
(* The reconciliation round *)

\* Mutant: Scan 2.2 forgets executions that stopped in CREATING_CONTAINER.
FoundButCreating(s) ==
  {e \in Exec :
     CASE s = "claimed"    -> ex[e].status = "CLAIMED" /\ ~ex[e].live
       [] s = "creating"   -> FALSE
       [] s = "publishing" -> ex[e].status = "PUBLISHING" /\ ~ex[e].live
       [] s = "lost"       -> /\ ex[e].status \in {"CREATED", "QUEUED"}
                              /\ e \notin jobs \cup failed \cup Running
       [] s = "retry"      -> ex[e].status = "RETRYABLE_FAILURE"
       [] OTHER            -> ex[e].status = "RECOVERY_REQUIRED"
                              /\ ex[e].resolution = "NONE"}

\* The rows each scan reads: 2.1 to 2.4 (getJob included), 3 and 4.
Found(s) ==
  {e \in Exec :
     CASE s = "claimed"    -> ex[e].status = "CLAIMED" /\ ~ex[e].live
       [] s = "creating"   -> ex[e].status = "CREATING_CONTAINER" /\ ~ex[e].live
       [] s = "publishing" -> ex[e].status = "PUBLISHING" /\ ~ex[e].live
       [] s = "lost"       -> /\ ex[e].status \in {"CREATED", "QUEUED"}
                              /\ e \notin jobs \cup failed \cup Running
       [] s = "retry"      -> ex[e].status = "RETRYABLE_FAILURE"
       [] OTHER            -> ex[e].status = "RECOVERY_REQUIRED"
                              /\ ex[e].resolution = "NONE"}

\* A scan that finds rows; rounds follow each other every 30 s, so that the order of
\* the scans matters only where Scan 3 fails: it ends the round before Scan 4.  A
\* second process scans only when the leader's Redis lease of 60 s is over.
BeginScan(l, s) ==
  /\ leader[l].scan = "none" /\ Found(s) # {}
  /\ s = "recovery" => \A e \in Found("retry") : ~Clash(e)
  /\ IF \A m \in Leader : leader[m].scan = "none" THEN UNCHANGED faults ELSE Spend
  /\ leader' = [leader EXCEPT ![l] = [scan |-> s, todo |-> Found(s)]]
  /\ UNCHANGED <<draftVars, ex, queueVars, wk, resolving, platformVars>>

Reached(l, s, e) == leader[l].scan = s /\ e \in leader[l].todo
Done(l, e) ==
  leader' = [leader EXCEPT ![l] = IF @.todo = {e} THEN NoRound
                                  ELSE [@ EXCEPT !.todo = leader[l].todo \ {e}]]

\* Scans 2.1 and 3: QUEUED by id, with the claim cleared, and a job.
Requeue(l, e) ==
  /\ Reached(l, "claimed", e) \/ Reached(l, "retry", e)
  /\ ~Clash(e)
  /\ ex' = [ex EXCEPT ![e].status = "QUEUED", ![e].holder = NoWorker, ![e].live = FALSE]
  /\ jobs' = Enqueued(e)
  /\ Done(l, e)
  /\ UNCHANGED <<draftVars, outbox, failed, wk, resolving, platformVars, faults>>

\* The update violates the unique index: the whole round ends.
RequeueClashes(l, e) ==
  /\ Reached(l, "claimed", e) \/ Reached(l, "retry", e)
  /\ Clash(e)
  /\ leader' = [leader EXCEPT ![l] = NoRound]
  /\ UNCHANGED <<draftVars, ex, queueVars, wk, resolving, platformVars, faults>>

\* A scan's second write, to the interaction, unless the process stops before it.
ThenInteraction(l, e, s) ==
  \/ inter' = s /\ Done(l, e) /\ UNCHANGED faults
  \/ UNCHANGED inter /\ leader' = [leader EXCEPT ![l] = NoRound] /\ Spend

\* Scans 2.2 and 2.3: the outcome of the interrupted request is unknown.
ReclaimExpired(l, e) ==
  /\ Reached(l, "creating", e) \/ Reached(l, "publishing", e)
  /\ ~Clash(e)
  /\ ex' = [ex EXCEPT ![e] =
              Recover(@, IF leader[l].scan = "creating" THEN "CONTAINER_CREATE"
                                                        ELSE "PUBLISH")]
  /\ ThenInteraction(l, e, "RECOVERY_REQUIRED")
  /\ UNCHANGED <<latest, approved, draft, queueVars, wk, resolving, platformVars>>

\* Scan 2.4.
RestoreJob(l, e) ==
  /\ Reached(l, "lost", e)
  /\ jobs' = Enqueued(e)
  /\ Done(l, e)
  /\ UNCHANGED <<draftVars, ex, outbox, failed, wk, resolving, platformVars, faults>>

\* Scan 4.  The account's posts with the text of e, whatever they reply to and whether
\* or not they are recorded for another execution; versions stand for texts.
Matches(e) == {f \in posts : ex[f].version = ex[e].version}
              \cup {o \in others : o[2] = ex[e].version}

\* Of these the last ten posts show some: one may be older, or not listed yet.
Feed(e) == SUBSET Matches(e)

\* Mutant: at most one match is taken as a match.
ResolveUnmatched(l, e, feed) ==
  /\ Reached(l, "recovery", e) /\ ex[e].unsure = "PUBLISH"
  /\ \A p, q \in feed : p = q
  /\ ex' = [ex EXCEPT ![e].status = "PUBLISHED", ![e].resolution = "MATCHED"]
  /\ ThenInteraction(l, e, "REPLIED")
  /\ UNCHANGED <<latest, approved, draft, queueVars, wk, resolving, platformVars>>

ResolveMatched(l, e, feed) ==
  /\ Reached(l, "recovery", e) /\ ex[e].unsure = "PUBLISH"
  /\ \E p \in feed : feed = {p}
  /\ ex' = [ex EXCEPT ![e].status = "PUBLISHED", ![e].resolution = "MATCHED"]
  /\ ThenInteraction(l, e, "REPLIED")
  /\ UNCHANGED <<latest, approved, draft, queueVars, wk, resolving, platformVars>>

ResolveNotLanded(l, e, feed) ==
  /\ Reached(l, "recovery", e) /\ ex[e].unsure = "PUBLISH"
  /\ ex[e].deadline /\ ex[e].container /\ feed = {}
  /\ ex' = [ex EXCEPT ![e].status = "RETRYABLE_FAILURE", ![e].resolution = "NOT_LANDED"]
  /\ Done(l, e)
  /\ UNCHANGED <<draftVars, queueVars, wk, resolving, platformVars, faults>>

\* Several matches, no container, no token or a failing feed, and always when a
\* container's creation is in doubt: an operator decides.
RequireOperator(l, e, feed) ==
  /\ Reached(l, "recovery", e) /\ ex[e].deadline
  /\ IF ex[e].unsure = "CONTAINER_CREATE" \/ ~ex[e].container
        \/ \E p, q \in feed : p # q
     THEN UNCHANGED faults ELSE Spend
  /\ ex' = [ex EXCEPT ![e].resolution = "OPERATOR_REQUIRED"]
  /\ Done(l, e)
  /\ UNCHANGED <<draftVars, queueVars, wk, resolving, platformVars>>

AwaitDeadline(l, e) ==
  /\ Reached(l, "recovery", e) /\ ~ex[e].deadline
  /\ Done(l, e)
  /\ UNCHANGED <<draftVars, ex, queueVars, wk, resolving, platformVars, faults>>

-----------------------------------------------------------------------------
(* The platform, time and faults *)

Land(e) ==
  /\ e \in inflight
  /\ inflight' = inflight \ {e} /\ posts' = posts \cup {e}
  /\ UNCHANGED <<draftVars, ex, queueVars, wk, leader, resolving, others, faults>>

LoseRequest(e) ==
  /\ e \in inflight
  /\ inflight' = inflight \ {e}
  /\ UNCHANGED <<draftVars, ex, queueVars, wk, leader, resolving, posts, others, faults>>

\* Another reply or post of the account may have the text of a version.
PostElsewhere(p, v) ==
  /\ \A o \in others : o[1] # p
  /\ others' = others \cup {<<p, v>>}
  /\ UNCHANGED <<draftVars, ex, queueVars, wk, leader, resolving, inflight, posts, faults>>

DeadlinePasses(e) ==
  /\ ex[e].status = "RECOVERY_REQUIRED" /\ ex[e].resolution = "NONE" /\ ~ex[e].deadline
  /\ ex' = [ex EXCEPT ![e].deadline = TRUE]
  /\ UNCHANGED <<draftVars, queueVars, wk, leader, resolving, platformVars, faults>>

\* The lease of a claim whose worker is gone, in a status where anybody looks at it.
LeaseRunsOut(e) ==
  /\ ex[e].status \in {"CLAIMED", "CREATING_CONTAINER", "CONTAINER_CREATED", "PUBLISHING"}
  /\ ex[e].live /\ \A w \in Worker : ~(wk[w].exec = e /\ ex[e].holder = w)
  /\ ex' = [ex EXCEPT ![e].live = FALSE]
  /\ UNCHANGED <<draftVars, queueVars, wk, leader, resolving, platformVars, faults>>

\* A worker is held up for longer than its lease; its job's lock may be lost too,
\* and the job handed to another worker.
Stall(w) ==
  LET e == wk[w].exec
  IN /\ ~Working(w, "idle") /\ Holds(w) /\ Spend
     /\ ex' = [ex EXCEPT ![e].live = FALSE]
     /\ jobs' \in {jobs, jobs \cup {e}}
     /\ UNCHANGED <<draftVars, outbox, failed, wk, leader, resolving, platformVars>>

\* A worker process dies; BullMQ hands a stalled job out again, or fails it.
Crash(w) ==
  /\ ~Working(w, "idle") /\ Spend
  /\ \/ jobs' = jobs \cup {wk[w].exec} /\ UNCHANGED failed
     \/ failed' = failed \cup {wk[w].exec} /\ UNCHANGED jobs
  /\ Finish(w)
  /\ UNCHANGED <<draftVars, ex, outbox, leader, resolving, platformVars>>

LoseJob(e) ==
  /\ e \in jobs /\ Spend
  /\ jobs' = jobs \ {e}
  /\ UNCHANGED <<draftVars, ex, outbox, failed, wk, leader, resolving, platformVars>>

-----------------------------------------------------------------------------
(* The specification *)

DraftStep(d) ==
  \/ EnqueueDraft(d) \/ StartDraft(d) \/ PersistDraft(d) \/ DraftFails(d)
  \/ \E e \in Exec : AutoApprove(d, e)
  \/ \E s \in {"REVIEW_REQUIRED", "BLOCKED"} : RouteDraft(d, s)

OperatorStep ==
  \/ \E d \in Drafter, r \in BOOLEAN : TriggerDraft(d, r)
  \/ UpdateDraft \/ DismissInteraction
  \/ \E e \in Exec, v \in 1..MaxVersions : ApproveDraft(e, v)
  \/ \E e \in Exec, a \in {"CONFIRMED_PUBLISHED", "CONFIRMED_NOT_PUBLISHED"} :
       BeginResolve(e, a)

\* What a claimed execution's process() does without a fault.
WorkerStep(w) ==
  \/ LeaseLost(w) \/ Cancel(w) \/ TokenUnavailable(w) \/ QuotaExhausted(w) \/ PassGate(w)
  \/ \E s \in {"AUTH_REQUIRED", "CANCELLED_BY_POLICY"} : Refuse(w, s)
  \/ CreateContainer(w) \/ ContainerAnswered(w) \/ ContainerAmbiguous(w)
  \/ ContainerRefused(w) \/ PollContainer(w)
  \/ AdvancePublishing(w) \/ SendPublish(w) \/ PublishAnswered(w)
  \/ PublishRefused(w) \/ PublishAmbiguous(w)
  \/ CommitPublished(w) \/ MarkReplied(w) \/ RecordFeedback(w)
  \/ RecoverPublish(w) \/ RetryPublish(w) \/ GiveUp(w) \/ UpdateInteraction(w)

ScanStep(l) ==
  \/ \E s \in Scan : BeginScan(l, s)
  \/ \E e \in Exec :
       \/ Requeue(l, e) \/ RequeueClashes(l, e) \/ ReclaimExpired(l, e)
       \/ RestoreJob(l, e) \/ AwaitDeadline(l, e)
       \/ \E feed \in Feed(e) : ResolveMatched(l, e, feed) \/ ResolveNotLanded(l, e, feed)
                                \/ RequireOperator(l, e, feed)

Time == \E e \in Exec : DeadlinePasses(e) \/ LeaseRunsOut(e)

Faults ==
  \/ \E w \in Worker : ConnectionDrops(w) \/ CommitFails(w) \/ RefusalIgnored(w)
                       \/ Throw(w) \/ Stall(w) \/ Crash(w)
  \/ \E e \in Exec : LoseJob(e)

Next ==
  \/ \E d \in Drafter : DraftStep(d)
  \/ OperatorStep
  \/ \E e \in Exec, a \in {"CONFIRMED_PUBLISHED", "CONFIRMED_NOT_PUBLISHED"} :
       ResolveExecution(e, a)
  \/ \E e \in Exec : Dispatch(e) \/ SkipJob(e) \/ Land(e) \/ LoseRequest(e)
  \/ \E w \in Worker : WorkerStep(w) \/ \E e \in Exec : Claim(w, e)
  \/ \E l \in Leader : ScanStep(l)
  \/ \E p \in OtherPost, v \in 1..MaxVersions : PostElsewhere(p, v)
  \/ Time \/ Faults

Spec == Init /\ [][Next]_vars

\* What runs by itself: claims and the steps of a job, events, the reconciliation
\* loop and time.  Operators, drafts and the platform owe nothing.
Fairness ==
  /\ \A w \in Worker : WF_vars(WorkerStep(w)) /\ WF_vars(\E e \in Exec : Claim(w, e))
  /\ \A e \in Exec : WF_vars(Dispatch(e)) /\ WF_vars(DeadlinePasses(e))
                     /\ WF_vars(LeaseRunsOut(e))
  /\ \A l \in Leader : WF_vars(ScanStep(l))

FairSpec == Spec /\ Fairness

-----------------------------------------------------------------------------
(* Properties *)

\* Nobody says wrongly that a reply was sent, but Scan 4.  An execution is PUBLISHED only
\* if its own reply is on the platform, however late the commit or the operator's answer
\* came; or Scan 4 took the account's one listed post with its text for it (a process
\* whose leader lease ran out may since have asked for an operator).  The interaction is
\* REPLIED only if the account has a post with the text of some execution.
NoFalseSuccess ==
  /\ \A e \in Exec :
       ex[e].status = "PUBLISHED" =>
         \/ e \in posts
         \/ ex[e].resolution \in {"MATCHED", "OPERATOR_REQUIRED"} /\ Matches(e) # {}
  /\ inter = "REPLIED" => \E e \in Exec : ex[e].status # "NONE" /\ Matches(e) # {}

\* A container on record is used again: no execution that has one requests another,
\* whichever worker, scan or operator brought it back.
ContainerReused ==
  [][\A e \in Exec : ex'[e].attempts > ex[e].attempts => ~ex[e].container]_vars

\* An execution created by an approval does not stay under way: it settles, or waits
\* for an operator, or in a status no scan looks at, or its failed job keeps its id.
Resting(e) ==
  \/ ex[e].status \in {"PUBLISHED", "FAILED_PERMANENT", "CANCELLED_BY_POLICY",
                       "AUTH_REQUIRED", "QUOTA_BLOCKED"}
  \/ ex[e].status = "CONTAINER_CREATED" /\ ~ex[e].live
  \/ ex[e].status = "RECOVERY_REQUIRED" /\ ex[e].resolution # "NONE"
  \/ e \in failed
Settles == \A e \in Exec : ex[e].status = "CREATED" ~> Resting(e)

=============================================================================
