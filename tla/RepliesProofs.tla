---------------------------- MODULE RepliesProofs ----------------------------
(***************************************************************************)
(* Replies: types, no reply that counts as sent without a post, and no     *)
(* second container, for every number of executions, job slots, processes  *)
(* and drafts, and every bound on versions, publishes and faults.          *)
(***************************************************************************)
EXTENDS Replies, TLAPS

-----------------------------------------------------------------------------
(* Types: single writes *)

SlotsTyped ==
  /\ wk \in [Worker -> WorkerState]
  /\ \A w \in Worker : wk[w].pc # "idle" => wk[w].exec \in Exec

LEMMA GoToType ==
  ASSUME TypeOK, NEW w \in Worker, wk[w].pc # "idle",
         NEW pc \in Step, GoTo(w, pc)
  PROVE  SlotsTyped'
<1>1. wk[w] \in WorkerState
  BY DEF TypeOK
<1>2. /\ [wk[w] EXCEPT !.pc = pc] \in WorkerState
      /\ [wk[w] EXCEPT !.pc = pc].exec = wk[w].exec
  BY <1>1 DEF WorkerState
<1>3. wk' = [wk EXCEPT ![w] = [wk[w] EXCEPT !.pc = pc]]
  BY DEF GoTo
<1> QED
  BY <1>2, <1>3 DEF TypeOK, SlotsTyped

LEMMA FinishType ==
  ASSUME TypeOK, NEW w \in Worker, Finish(w)
  PROVE  SlotsTyped'
BY DEF TypeOK, SlotsTyped, Finish, Idle, WorkerState, Step

LEMMA SlotsSame == TypeOK /\ wk' = wk => SlotsTyped'
BY DEF TypeOK, SlotsTyped

LEMMA RecoverType ==
  ASSUME NEW x \in Execution, NEW kind \in {"CONTAINER_CREATE", "PUBLISH"}
  PROVE  Recover(x, kind) \in Execution
BY DEF Recover, Execution, Status, Active

LEMMA NewType == \A v \in 0..MaxVersions : NewExecution(v) \in Execution
BY DEF NewExecution, Execution, Status, Active, Resolution

LEMMA StatusType ==
  ASSUME TypeOK, NEW e \in Exec, NEW s \in Status, ex' = [ex EXCEPT ![e].status = s]
  PROVE  ex' \in [Exec -> Execution]
<1>1. ex[e] \in Execution
  BY DEF TypeOK
<1>2. [ex[e] EXCEPT !.status = s] \in Execution
  BY <1>1 DEF Execution
<1> QED
  BY <1>2 DEF TypeOK

LEMMA FencedType ==
  ASSUME TypeOK, NEW w \in Worker, wk[w].pc # "idle", NEW s \in Status, FencedUpdate(w, s)
  PROVE  ex' \in [Exec -> Execution]
<1>1. wk[w].exec \in Exec
  BY DEF TypeOK
<1> QED
  BY <1>1, StatusType DEF FencedUpdate

LEMMA EnqueuedType == TypeOK => \A e \in Exec : Enqueued(e) \subseteq Exec
BY DEF TypeOK, Enqueued

LEMMA SpendType == TypeOK /\ Spend => faults' \in 0..MaxFaults
BY BoundAssumption DEF TypeOK, Spend

LEMMA Names ==
  /\ {"PUBLISHED", "RETRYABLE_FAILURE", "FAILED_PERMANENT", "CANCELLED_BY_POLICY",
      "AUTH_REQUIRED", "CREATED", "QUEUED", "CLAIMED", "QUOTA_BLOCKED",
      "CREATING_CONTAINER", "CONTAINER_CREATED", "PUBLISHING", "RECOVERY_REQUIRED"}
       \subseteq Status
  /\ {"REVIEW_REQUIRED", "REPLIED", "APPROVED", "PUBLISHING", "RECOVERY_REQUIRED",
      "DRAFTING", "OUTPUT_SAFETY_EVALUATING", "DISMISSED", "BLOCKED"}
       \subseteq InteractionStatus
BY DEF Status, Active, InteractionStatus, Terminal

LEMMA StepNames ==
  {"idle", "cancel", "gate", "container", "creating", "poll", "refused", "advance", "mark",
   "send", "commit", "replied", "feedback", "reject", "ambiguous", "review", "recovery"} = Step
BY DEF Step

LEMMA DoneType ==
  ASSUME TypeOK, NEW l \in Leader, NEW e \in Exec,
         Done(l, e) \/ leader' = [leader EXCEPT ![l] = NoRound]
  PROVE  leader' \in [Leader -> Round]
<1>1. leader[l] \in Round
  BY DEF TypeOK
<1>2. NoRound \in Round /\ [leader[l] EXCEPT !.todo = @ \ {e}] \in Round
  BY <1>1 DEF Round, NoRound
<1>3. PICK r \in Round : leader' = [leader EXCEPT ![l] = r]
  <2>1. CASE leader' = [leader EXCEPT ![l] = NoRound]
    BY <1>2, <2>1
  <2>2. CASE Done(l, e)
    BY <1>2, <2>2 DEF Done
  <2> QED
    BY <2>1, <2>2
<1> QED
  BY <1>3 DEF TypeOK

-----------------------------------------------------------------------------
(* Types: drafting and operators *)

LEMMA CreateType ==
  ASSUME TypeOK, NEW e \in Exec, NEW v \in 0..MaxVersions, CreateExecution(e, v)
  PROVE  /\ ex' \in [Exec -> Execution] /\ approved' \in 0..MaxVersions
         /\ outbox' \subseteq Exec /\ jobs' \subseteq Exec
<1>1. ex' \in [Exec -> Execution]
  BY NewType DEF CreateExecution, TypeOK
<1>2. approved' \in 0..MaxVersions /\ outbox' \subseteq Exec
  BY DEF CreateExecution, TypeOK
<1>3. jobs' \subseteq Exec
  BY EnqueuedType DEF CreateExecution, TypeOK
<1> QED
  BY <1>1, <1>2, <1>3

LEMMA TypesOfDraft ==
  ASSUME TypeOK, NEW d \in Drafter, DraftStep(d)
  PROVE  TypeOK'
<1> USE DEF draftVars, queueVars, platformVars
<1>1. draft[d] \in DraftState /\ NoDraft \in DraftState
  BY BoundAssumption DEF TypeOK, DraftState, NoDraft
<1>2. \A pc \in {"triggering", "queued", "generating", "safety"} :
        [draft[d] EXCEPT !.pc = pc] \in DraftState
  BY <1>1 DEF DraftState
<1>3. CASE EnqueueDraft(d)
  BY <1>2, <1>3, Names DEF EnqueueDraft, TypeOK
<1>4. CASE StartDraft(d)
  BY <1>1, <1>2, <1>4 DEF StartDraft, TypeOK
<1>5. CASE PersistDraft(d)
  <2>1. latest + 1 \in 0..MaxVersions
    BY <1>5, BoundAssumption DEF PersistDraft, TypeOK
  <2>2. draft' \in [Drafter -> DraftState]
    <3>1. [draft[d] EXCEPT !.pc = "safety", !.version = latest + 1] \in DraftState
      BY <1>1, <2>1 DEF DraftState
    <3> QED
      BY <1>5, <3>1 DEF PersistDraft, TypeOK
  <2>3. approved' \in 0..MaxVersions
    BY <1>5, BoundAssumption DEF PersistDraft, TypeOK
  <2> QED
    BY <1>5, <2>1, <2>2, <2>3, Names DEF PersistDraft, TypeOK
<1>6. CASE DraftFails(d)
  BY <1>1, <1>6, SpendType DEF DraftFails, TypeOK
<1>7. ASSUME NEW e \in Exec, AutoApprove(d, e) PROVE TypeOK'
  <2>1. draft[d].version \in 0..MaxVersions
    BY <1>1 DEF DraftState
  <2> QED
    BY <1>1, <1>7, <2>1, CreateType, Names DEF AutoApprove, TypeOK
<1>8. ASSUME NEW s \in {"REVIEW_REQUIRED", "BLOCKED"}, RouteDraft(d, s) PROVE TypeOK'
  BY <1>1, <1>8, Names DEF RouteDraft, TypeOK
<1> QED
  BY <1>3, <1>4, <1>5, <1>6, <1>7, <1>8 DEF DraftStep

LEMMA TypesOfOperator ==
  ASSUME TypeOK, OperatorStep
  PROVE  TypeOK'
<1> USE DEF draftVars, queueVars, platformVars
<1>1. ASSUME NEW d \in Drafter, NEW r \in BOOLEAN, TriggerDraft(d, r) PROVE TypeOK'
  <2>1. NoDraft \in DraftState
    BY BoundAssumption DEF NoDraft, DraftState
  <2>2. [NoDraft EXCEPT !.pc = "triggering", !.regenerate = r] \in DraftState
    BY <2>1 DEF DraftState
  <2> QED
    BY <1>1, <2>2 DEF TriggerDraft, TypeOK
<1>2. CASE UpdateDraft
  <2>1. latest + 1 \in 0..MaxVersions
    BY <1>2, BoundAssumption DEF UpdateDraft, TypeOK
  <2> QED
    BY <1>2, <2>1, Names DEF UpdateDraft, TypeOK
<1>3. CASE DismissInteraction
  BY <1>3, Names DEF DismissInteraction, TypeOK
<1>4. ASSUME NEW e \in Exec, NEW v \in 1..MaxVersions, ApproveDraft(e, v) PROVE TypeOK'
  BY <1>4, CreateType, Names DEF ApproveDraft, TypeOK
<1>5. ASSUME NEW e \in Exec, NEW a \in {"CONFIRMED_PUBLISHED", "CONFIRMED_NOT_PUBLISHED"},
             BeginResolve(e, a)
      PROVE  TypeOK'
  BY <1>5 DEF BeginResolve, TypeOK
<1> QED
  BY <1>1, <1>2, <1>3, <1>4, <1>5 DEF OperatorStep

LEMMA TypesOfResolve ==
  ASSUME TypeOK, NEW e \in Exec,
         NEW a \in {"CONFIRMED_PUBLISHED", "CONFIRMED_NOT_PUBLISHED"}, ResolveExecution(e, a)
  PROVE  TypeOK'
<1> USE DEF draftVars, queueVars, platformVars
<1>1. ex[e] \in Execution
  BY DEF TypeOK
<1>2. PICK s \in {"PUBLISHED", "RETRYABLE_FAILURE", "FAILED_PERMANENT"} :
        /\ ex' = [ex EXCEPT ![e].status = s, ![e].resolution = a]
        /\ inter' = CASE s = "PUBLISHED" -> "REPLIED"
                      [] s = "FAILED_PERMANENT" -> "REVIEW_REQUIRED"
                      [] OTHER -> inter
  <2>1. PICK s : s = CASE a = "CONFIRMED_PUBLISHED" -> "PUBLISHED"
                       [] ex[e].container -> "RETRYABLE_FAILURE"
                       [] OTHER -> "FAILED_PERMANENT"
    OBVIOUS
  <2>2. s \in {"PUBLISHED", "RETRYABLE_FAILURE", "FAILED_PERMANENT"}
    BY <2>1
  <2> QED
    BY <2>1, <2>2 DEF ResolveExecution
<1>3. s \in Status
  BY Names
<1>4. [ex[e] EXCEPT !.status = s, !.resolution = a] \in Execution
  BY <1>1, <1>3 DEF Execution, Resolution
<1>5. ex' \in [Exec -> Execution]
  BY <1>2, <1>4 DEF TypeOK
<1>6. inter' \in InteractionStatus
  BY <1>2, Names DEF TypeOK
<1>7. resolving' \subseteq Exec \X {"CONFIRMED_PUBLISHED", "CONFIRMED_NOT_PUBLISHED"}
  BY DEF ResolveExecution, TypeOK
<1> QED
  BY <1>5, <1>6, <1>7 DEF ResolveExecution, TypeOK

-----------------------------------------------------------------------------
(* Types: the processor *)

LEMMA TypesOfClaim ==
  ASSUME TypeOK, NEW w \in Worker, NEW e \in Exec, Claim(w, e)
  PROVE  TypeOK'
<1> USE DEF draftVars, queueVars, platformVars
<1>1. ex[e] \in Execution
  BY DEF TypeOK
<1>2. [ex[e] EXCEPT !.status = "CLAIMED", !.holder = w, !.live = TRUE] \in Execution
  BY <1>1, Names DEF Execution
<1>3. ex' \in [Exec -> Execution]
  BY <1>2 DEF Claim, TypeOK
<1>4. PICK s \in {"gate", "cancel"} : wk' = [wk EXCEPT ![w] = [pc |-> s, exec |-> e]]
  BY DEF Claim
<1>5. [pc |-> s, exec |-> e] \in WorkerState
  BY StepNames DEF WorkerState
<1>6. SlotsTyped'
  BY <1>4, <1>5 DEF SlotsTyped, TypeOK
<1> QED
  BY <1>3, <1>6 DEF Claim, TypeOK, SlotsTyped

\* A step that leaves everything else alone.
LEMMA OfRow ==
  ASSUME TypeOK, ex' \in [Exec -> Execution], SlotsTyped', failed' \subseteq Exec,
         inter' \in InteractionStatus, inflight' \subseteq Exec, faults' \in 0..MaxFaults,
         UNCHANGED <<latest, approved, draft, outbox, jobs, leader, resolving, posts, others>>
  PROVE  TypeOK'
BY DEF TypeOK, SlotsTyped

LEMMA TypesOfWorker ==
  ASSUME TypeOK, NEW w \in Worker, WorkerStep(w)
  PROVE  TypeOK'
<1> USE DEF draftVars, queueVars, platformVars
<1>2. ASSUME wk[w].pc # "idle" PROVE wk[w].exec \in Exec /\ ex[wk[w].exec] \in Execution
  BY <1>2 DEF TypeOK
<1> USE DEF Working
<1>3. CASE LeaseLost(w) \/ TokenUnavailable(w) \/ RecordFeedback(w)
  <2>1. wk[w].pc # "idle" /\ Finish(w)
    BY <1>3 DEF LeaseLost, Fences, TokenUnavailable, RecordFeedback
  <2>2. SlotsTyped' /\ failed' \subseteq Exec
    BY <1>2, <1>3, <2>1, FinishType
       DEF LeaseLost, TokenUnavailable, RecordFeedback, TypeOK
  <2> QED
    BY <1>3, <2>2, OfRow DEF LeaseLost, TokenUnavailable, RecordFeedback, TypeOK
<1>4. CASE Cancel(w) \/ QuotaExhausted(w) \/ RetryPublish(w)
  <2>1. /\ wk[w].pc # "idle" /\ Finish(w)
        /\ \E t \in {"CANCELLED_BY_POLICY", "QUOTA_BLOCKED", "RETRYABLE_FAILURE"} :
             FencedUpdate(w, t)
    BY <1>4 DEF Cancel, QuotaExhausted, RetryPublish
  <2>2. SlotsTyped' /\ ex' \in [Exec -> Execution]
    BY <2>1, FinishType, FencedType, Names
  <2> QED
    BY <1>4, <2>2, OfRow DEF Cancel, QuotaExhausted, RetryPublish, TypeOK
<1>5. CASE \/ \E t \in {"AUTH_REQUIRED", "CANCELLED_BY_POLICY"} : Refuse(w, t)
           \/ ContainerRefused(w) \/ CommitPublished(w) \/ GiveUp(w)
  <2>1. /\ wk[w].pc # "idle"
        /\ GoTo(w, "review") \/ GoTo(w, "replied") \/ GoTo(w, "refused")
        /\ \E t \in {"AUTH_REQUIRED", "CANCELLED_BY_POLICY", "FAILED_PERMANENT", "PUBLISHED"} :
             FencedUpdate(w, t)
    BY <1>5 DEF Refuse, ContainerRefused, CommitPublished, GiveUp
  <2>2. SlotsTyped' /\ ex' \in [Exec -> Execution]
    BY <2>1, GoToType, FencedType, Names, StepNames
  <2> QED
    BY <1>5, <2>2, OfRow DEF Refuse, ContainerRefused, CommitPublished, GiveUp, TypeOK
<1>6. CASE \/ PassGate(w) \/ PollContainer(w) \/ PublishAnswered(w) \/ PublishRefused(w)
           \/ PublishAmbiguous(w)
  <2>1. /\ wk[w].pc # "idle"
        /\ \E pc \in {"poll", "container", "advance", "commit", "reject", "ambiguous"} :
             GoTo(w, pc)
    BY <1>6
       DEF PassGate, PollContainer, PublishAnswered, PublishRefused, PublishAmbiguous
  <2>2. SlotsTyped'
    BY <2>1, GoToType, StepNames
  <2>3. inflight' \subseteq Exec
    BY <1>6 DEF PassGate, PollContainer, PublishAnswered, PublishRefused, PublishAmbiguous,
                TypeOK
  <2> QED
    BY <1>6, <2>2, <2>3, OfRow
       DEF PassGate, PollContainer, PublishAnswered, PublishRefused, PublishAmbiguous, TypeOK
<1>7. CASE CreateContainer(w) \/ ContainerAnswered(w) \/ AdvancePublishing(w)
  <2>1. /\ wk[w].pc # "idle"
        /\ \E pc \in {"creating", "poll", "mark"} : GoTo(w, pc)
    BY <1>7 DEF CreateContainer, ContainerAnswered, AdvancePublishing
  <2>2. PICK e \in Exec : e = wk[w].exec /\ ex[e] \in Execution
    BY <1>2, <2>1
  <2>3. /\ [ex[e] EXCEPT !.status = "CREATING_CONTAINER", !.attempts = @ + 1] \in Execution
        /\ [ex[e] EXCEPT !.status = "CONTAINER_CREATED", !.container = TRUE] \in Execution
        /\ [ex[e] EXCEPT !.status = "PUBLISHING", !.publishes = @ + 1] \in Execution
    <3>1. [ex[e] EXCEPT !.status = "CREATING_CONTAINER", !.attempts = @ + 1] \in Execution
      <4>1. ex[e].attempts + 1 \in Nat
        BY <2>2 DEF Execution
      <4> QED
        BY <2>2, <4>1, Names DEF Execution
    <3>2. [ex[e] EXCEPT !.status = "CONTAINER_CREATED", !.container = TRUE] \in Execution
      BY <2>2, Names DEF Execution
    <3>3. [ex[e] EXCEPT !.status = "PUBLISHING", !.publishes = @ + 1] \in Execution
      <4>1. ex[e].publishes + 1 \in Nat
        BY <2>2 DEF Execution
      <4> QED
        BY <2>2, <4>1, Names DEF Execution
    <3> QED
      BY <3>1, <3>2, <3>3
  <2>4. SlotsTyped'
    BY <2>1, GoToType, StepNames
  <2>5. ex' \in [Exec -> Execution]
    BY <1>7, <2>2, <2>3
       DEF CreateContainer, ContainerAnswered, AdvancePublishing, TypeOK
  <2> QED
    BY <1>7, <2>4, <2>5, OfRow
       DEF CreateContainer, ContainerAnswered, AdvancePublishing, TypeOK
<1>8. CASE ContainerAmbiguous(w) \/ RecoverPublish(w)
  <2>1. wk[w].pc # "idle" /\ GoTo(w, "recovery")
    BY <1>8 DEF ContainerAmbiguous, RecoverPublish
  <2>2. PICK e \in Exec : e = wk[w].exec /\ ex[e] \in Execution
    BY <1>2, <2>1
  <2>3. SlotsTyped'
    BY <2>1, GoToType, StepNames
  <2>4. ex' \in [Exec -> Execution]
    BY <1>8, <2>2, RecoverType DEF ContainerAmbiguous, RecoverPublish, TypeOK
  <2> QED
    BY <1>8, <2>3, <2>4, OfRow DEF ContainerAmbiguous, RecoverPublish, TypeOK
<1>9. CASE SendPublish(w)
  <2>1. SlotsTyped' /\ inflight' \subseteq Exec
    BY <1>2, <1>9, GoToType, StepNames DEF SendPublish, TypeOK
  <2> QED
    BY <1>9, <2>1, OfRow, Names DEF SendPublish, TypeOK
<1>10. CASE MarkReplied(w)
  <2>1. SlotsTyped'
    BY <1>10, GoToType, FinishType, StepNames DEF MarkReplied
  <2> QED
    BY <1>10, <2>1, OfRow, Names DEF MarkReplied, TypeOK
<1>11. CASE UpdateInteraction(w)
  <2>1. SlotsTyped'
    BY <1>11, FinishType DEF UpdateInteraction
  <2> QED
    BY <1>11, <2>1, OfRow, Names DEF UpdateInteraction, TypeOK
<1> QED
  BY <1>3, <1>4, <1>5, <1>6, <1>7, <1>8, <1>9, <1>10, <1>11 DEF WorkerStep

-----------------------------------------------------------------------------
(* Types: the reconciliation round, time and faults *)

LEMMA TypesOfScan ==
  ASSUME TypeOK, NEW l \in Leader, ScanStep(l)
  PROVE  TypeOK'
<1> USE DEF draftVars, queueVars, platformVars
<1>1. ASSUME NEW s \in Scan, BeginScan(l, s) PROVE TypeOK'
  <2>1. [scan |-> s, todo |-> Found(s)] \in Round
    BY DEF Round, Found
  <2>2. leader' \in [Leader -> Round] /\ faults' \in 0..MaxFaults
    BY <1>1, <2>1, SpendType DEF BeginScan, TypeOK
  <2> QED
    BY <1>1, <2>2 DEF BeginScan, TypeOK
<1>2. ASSUME NEW e \in Exec PROVE ex[e] \in Execution
  BY DEF TypeOK
<1>3. ASSUME NEW e \in Exec, NEW s, ThenInteraction(l, e, s), s \in InteractionStatus
      PROVE  /\ inter' \in InteractionStatus /\ leader' \in [Leader -> Round]
             /\ faults' \in 0..MaxFaults
  BY <1>3, DoneType, SpendType DEF ThenInteraction, TypeOK
<1>4. ASSUME NEW e \in Exec, Requeue(l, e) PROVE TypeOK'
  <2>1. [ex[e] EXCEPT !.status = "QUEUED", !.holder = NoWorker, !.live = FALSE] \in Execution
    BY <1>2, Names DEF Execution
  <2>2. ex' \in [Exec -> Execution] /\ jobs' \subseteq Exec
    BY <1>4, <2>1, EnqueuedType DEF Requeue, TypeOK
  <2>3. leader' \in [Leader -> Round]
    BY <1>4, DoneType DEF Requeue
  <2> QED
    BY <1>4, <2>2, <2>3 DEF Requeue, TypeOK
<1>5. ASSUME NEW e \in Exec, RequeueClashes(l, e) \/ AwaitDeadline(l, e) PROVE TypeOK'
  <2>1. leader' \in [Leader -> Round]
    BY <1>5, DoneType DEF RequeueClashes, AwaitDeadline
  <2> QED
    BY <1>5, <2>1 DEF RequeueClashes, AwaitDeadline, TypeOK
<1>6. ASSUME NEW e \in Exec, ReclaimExpired(l, e) PROVE TypeOK'
  <2>1. ex' \in [Exec -> Execution]
    BY <1>2, <1>6, RecoverType DEF ReclaimExpired, TypeOK
  <2> QED
    BY <1>3, <1>6, <2>1, Names DEF ReclaimExpired, TypeOK
<1>7. ASSUME NEW e \in Exec, RestoreJob(l, e) PROVE TypeOK'
  BY <1>7, DoneType, EnqueuedType DEF RestoreJob, TypeOK
<1>8. ASSUME NEW e \in Exec, NEW feed \in Feed(e), ResolveMatched(l, e, feed) PROVE TypeOK'
  <2>1. [ex[e] EXCEPT !.status = "PUBLISHED", !.resolution = "MATCHED"] \in Execution
    BY <1>2, Names DEF Execution, Resolution
  <2>2. ex' \in [Exec -> Execution]
    BY <1>8, <2>1 DEF ResolveMatched, TypeOK
  <2> QED
    BY <1>3, <1>8, <2>2, Names DEF ResolveMatched, TypeOK
<1>9. ASSUME NEW e \in Exec, NEW feed \in Feed(e), ResolveNotLanded(l, e, feed) PROVE TypeOK'
  <2>1. [ex[e] EXCEPT !.status = "RETRYABLE_FAILURE", !.resolution = "NOT_LANDED"]
          \in Execution
    BY <1>2, Names DEF Execution, Resolution
  <2>2. ex' \in [Exec -> Execution]
    BY <1>9, <2>1 DEF ResolveNotLanded, TypeOK
  <2> QED
    BY <1>9, <2>2, DoneType DEF ResolveNotLanded, TypeOK
<1>10. ASSUME NEW e \in Exec, NEW feed \in Feed(e), RequireOperator(l, e, feed) PROVE TypeOK'
  <2>1. [ex[e] EXCEPT !.resolution = "OPERATOR_REQUIRED"] \in Execution
    BY <1>2 DEF Execution, Resolution
  <2>2. ex' \in [Exec -> Execution] /\ faults' \in 0..MaxFaults
    BY <1>10, <2>1, SpendType DEF RequireOperator, TypeOK
  <2> QED
    BY <1>10, <2>2, DoneType DEF RequireOperator, TypeOK
<1> QED
  BY <1>1, <1>4, <1>5, <1>6, <1>7, <1>8, <1>9, <1>10 DEF ScanStep

LEMMA TypesOfRest ==
  ASSUME TypeOK,
         \/ Time \/ Faults
         \/ \E e \in Exec : Dispatch(e) \/ SkipJob(e) \/ Land(e) \/ LoseRequest(e)
         \/ \E p \in OtherPost, v \in 1..MaxVersions : PostElsewhere(p, v)
  PROVE  TypeOK'
<1> USE DEF draftVars, queueVars, platformVars
<1>1. ASSUME NEW e \in Exec, Dispatch(e) \/ SkipJob(e) \/ Land(e) \/ LoseRequest(e)
      PROVE  TypeOK'
  BY <1>1, EnqueuedType DEF Dispatch, SkipJob, Land, LoseRequest, TypeOK
<1>2. ASSUME NEW e \in Exec
      PROVE  /\ [ex[e] EXCEPT !.deadline = TRUE] \in Execution
             /\ [ex[e] EXCEPT !.live = FALSE] \in Execution
  <2>1. ex[e] \in Execution
    BY DEF TypeOK
  <2>2. [ex[e] EXCEPT !.deadline = TRUE] \in Execution
    BY <2>1 DEF Execution
  <2>3. [ex[e] EXCEPT !.live = FALSE] \in Execution
    BY <2>1 DEF Execution
  <2> QED
    BY <2>2, <2>3
<1>3. CASE Time
  BY <1>2, <1>3 DEF Time, DeadlinePasses, LeaseRunsOut, TypeOK
<1>4. ASSUME NEW e \in Exec, LoseJob(e) PROVE TypeOK'
  BY <1>4, SpendType DEF LoseJob, TypeOK
<1>5. ASSUME NEW w \in Worker, ConnectionDrops(w) \/ CommitFails(w) \/ RefusalIgnored(w)
      PROVE  TypeOK'
  <2>1. /\ wk[w].pc # "idle" /\ faults' \in 0..MaxFaults
        /\ \E pc \in {"reject", "ambiguous", "advance"} : GoTo(w, pc)
    BY <1>5, SpendType DEF ConnectionDrops, CommitFails, RefusalIgnored, Working
  <2>2. SlotsTyped'
    BY <2>1, GoToType, StepNames
  <2> QED
    BY <1>5, <2>1, <2>2, OfRow DEF ConnectionDrops, CommitFails, RefusalIgnored, TypeOK
<1>6. ASSUME NEW w \in Worker, Throw(w) PROVE TypeOK'
  <2>1. wk[w].exec \in Exec /\ faults' \in 0..MaxFaults /\ SlotsTyped'
    BY <1>6, SpendType, FinishType DEF Throw, TypeOK
  <2> QED
    BY <1>6, <2>1, OfRow DEF Throw, TypeOK
<1>7. ASSUME NEW w \in Worker, Stall(w) PROVE TypeOK'
  <2>1. wk[w].exec \in Exec /\ faults' \in 0..MaxFaults
    BY <1>7, SpendType DEF Stall, Working, TypeOK
  <2>2. ex' \in [Exec -> Execution] /\ jobs' \subseteq Exec
    BY <1>2, <1>7, <2>1 DEF Stall, TypeOK
  <2> QED
    BY <1>7, <2>1, <2>2 DEF Stall, TypeOK
<1>8. ASSUME NEW w \in Worker, Crash(w) PROVE TypeOK'
  <2>1. wk[w].exec \in Exec /\ faults' \in 0..MaxFaults /\ SlotsTyped'
    BY <1>8, SpendType, FinishType DEF Crash, Working, TypeOK
  <2> QED
    BY <1>8, <2>1 DEF Crash, TypeOK, SlotsTyped
<1>9. ASSUME NEW p \in OtherPost, NEW v \in 1..MaxVersions, PostElsewhere(p, v) PROVE TypeOK'
  BY <1>9 DEF PostElsewhere, TypeOK
<1> QED
  BY <1>1, <1>3, <1>4, <1>5, <1>6, <1>7, <1>8, <1>9 DEF Faults

LEMMA TypesInitially == Init => TypeOK
<1> SUFFICES ASSUME Init PROVE TypeOK
  OBVIOUS
<1>1. 0 \in 0..MaxVersions /\ 0 \in 0..MaxFaults
  BY BoundAssumption
<1>2. NoExecution \in Execution
  BY <1>1 DEF NoExecution, NewExecution, Execution, Status, Resolution
<1>3. NoDraft \in DraftState /\ [NoDraft EXCEPT !.pc = "queued"] \in DraftState
  BY <1>1 DEF NoDraft, DraftState
<1>4. Idle \in WorkerState /\ Idle.pc = "idle" /\ NoRound \in Round
  BY DEF Idle, WorkerState, Step, NoRound, Round
<1> QED
  BY <1>1, <1>2, <1>3, <1>4 DEF Init, TypeOK, InteractionStatus

LEMMA TypesStep == TypeOK /\ [Next]_vars => TypeOK'
<1> SUFFICES ASSUME TypeOK, [Next]_vars PROVE TypeOK'
  OBVIOUS
<1>1. CASE UNCHANGED vars
  BY <1>1 DEF vars, draftVars, queueVars, platformVars, TypeOK
<1>2. CASE Next
  BY <1>2, TypesOfDraft, TypesOfOperator, TypesOfResolve, TypesOfClaim, TypesOfWorker,
     TypesOfScan, TypesOfRest DEF Next
<1> QED
  BY <1>1, <1>2

\* Drafts, approvals, claims, scans, operators and the platform keep to their types:
\* no worker runs a job of nothing, and every id in the queue is an execution's.
THEOREM RepliesTypes == Spec => []TypeOK
BY TypesInitially, TypesStep, PTL DEF Spec

-----------------------------------------------------------------------------
(* What counts as sent, and the container on record *)

Answered == {"commit", "replied", "feedback"}

\* A worker runs a job of an execution that was created; after an answer its post
\* exists, and before it requests a container there is none, while it holds the lease.
SlotOK(w) ==
  /\ wk[w].pc # "idle" => ex[wk[w].exec].status # "NONE"
  /\ wk[w].pc \in Answered => wk[w].exec \in posts
  /\ wk[w].pc = "container" /\ Holds(w) => ~ex[wk[w].exec].container

\* An execution that reached the platform, or that a scan has read, was created, so its
\* version is final, and an operator's confirmation that is on its way is true.
SentInv ==
  /\ NoFalseSuccess
  /\ \A e \in inflight \cup posts : ex[e].status # "NONE"
  /\ \A l \in Leader : \A e \in leader[l].todo : ex[e].status # "NONE"
  /\ \A r \in resolving : r[2] = "CONFIRMED_PUBLISHED" => r[1] \in posts
  /\ \A w \in Worker : SlotOK(w)

\* Who may be wrong about a reply that counts as sent.
Excused == {"MATCHED", "OPERATOR_REQUIRED"}

\* A row written for e: that its reply was sent is true, or Scan 4's, or was there before.
SaysTruly(e, r) ==
  r.status = "PUBLISHED" =>
    /\ ex[e].status # "NONE"
    /\ \/ e \in posts
       \/ r.resolution \in Excused /\ Matches(e) # {}
       \/ ex[e].status = "PUBLISHED" /\ r.resolution \in Excused \cup {ex[e].resolution}

\* What every step may do to an execution...
RowSteady(e) ==
  /\ ex[e].status # "NONE" => ex'[e].status # "NONE"
  /\ ex'[e].version = ex[e].version \/ (ex[e].status = "NONE" /\ ex'[e].status = "CREATED")
  /\ SaysTruly(e, ex'[e])
  /\ \/ /\ ex'[e].container => ex[e].container
        /\ ex'[e].live => ex[e].live /\ ex'[e].holder = ex[e].holder
     \/ wk'[ex'[e].holder].pc # "container"
  /\ ex'[e].attempts > ex[e].attempts => ~ex[e].container

\* ... to a job slot...
SlotSteady(w) ==
  \/ wk'[w] = wk[w]
  \/ wk'[w].pc = "idle"
  \/ /\ ex'[wk'[w].exec].status # "NONE"
     /\ wk'[w].pc \in Answered => wk'[w].exec \in posts
     /\ wk'[w].pc = "container" => ~ex'[wk'[w].exec].container

\* ... and to the rest.
RestSteady ==
  /\ posts \subseteq posts'
  /\ \A e \in inflight' \cup posts' : e \in inflight \cup posts \/ ex[e].status # "NONE"
  /\ \A r \in resolving' : r \in resolving \/ r[2] # "CONFIRMED_PUBLISHED" \/ r[1] \in posts
  /\ others \subseteq others'
  /\ \A l \in Leader : \A e \in leader'[l].todo : e \in leader[l].todo \/ ex[e].status # "NONE"
  /\ inter' = "REPLIED" =>
       inter = "REPLIED" \/ \E e \in Exec : ex[e].status # "NONE" /\ Matches(e) # {}

Steady == /\ \A e \in Exec : RowSteady(e)
          /\ \A w \in Worker : SlotSteady(w)
          /\ RestSteady

LEMMA SteadyKeeps ==
  ASSUME TypeOK, TypeOK', SentInv, Steady
  PROVE  SentInv'
<1>1. \A e \in Exec : ex[e].status # "NONE" => ex'[e].status # "NONE"
  BY DEF Steady, RowSteady
<1>2. ASSUME NEW e \in Exec, ex[e].status # "NONE", Matches(e) # {} PROVE Matches(e)' # {}
  <2>1. ex'[e].version = ex[e].version
    BY <1>2 DEF Steady, RowSteady
  <2>2. CASE \E f \in posts : ex[f].version = ex[e].version
    <3>1. PICK f \in posts : ex[f].version = ex[e].version
      BY <2>2
    <3>2. f \in Exec /\ ex[f].status # "NONE"
      BY DEF TypeOK, SentInv
    <3>3. f \in posts' /\ ex'[f].version = ex[f].version
      BY <3>2 DEF Steady, RestSteady, RowSteady
    <3> QED
      BY <2>1, <3>1, <3>3 DEF Matches
  <2>3. CASE \E o \in others : o[2] = ex[e].version
    BY <2>1, <2>3 DEF Matches, Steady, RestSteady
  <2> QED
    BY <1>2, <2>2, <2>3 DEF Matches
<1>3. NoFalseSuccess'
  <2>1. ASSUME NEW e \in Exec, ex'[e].status = "PUBLISHED"
        PROVE  e \in posts' \/ (ex'[e].resolution \in Excused /\ Matches(e)' # {})
    <3>1. ex[e].status # "NONE"
      BY <2>1 DEF Steady, RowSteady, SaysTruly
    <3>2. e \in posts \/ (ex'[e].resolution \in Excused /\ Matches(e) # {})
      BY <2>1 DEF Steady, RowSteady, SaysTruly, SentInv, NoFalseSuccess, Excused
    <3> QED
      BY <1>2, <3>1, <3>2 DEF Steady, RestSteady
  <2>2. ASSUME inter' = "REPLIED"
        PROVE  \E e \in Exec : ex'[e].status # "NONE" /\ Matches(e)' # {}
    <3>1. PICK e \in Exec : ex[e].status # "NONE" /\ Matches(e) # {}
      BY <2>2 DEF Steady, RestSteady, SentInv, NoFalseSuccess
    <3> QED
      BY <1>1, <1>2, <3>1
  <2> QED
    BY <2>1, <2>2 DEF NoFalseSuccess, Excused
<1>4. \A e \in inflight' \cup posts' : ex'[e].status # "NONE"
  BY <1>1 DEF Steady, RestSteady, SentInv, TypeOK
<1>5. \A r \in resolving' : r[2] = "CONFIRMED_PUBLISHED" => r[1] \in posts'
  BY DEF Steady, RestSteady, SentInv
<1>7. \A l \in Leader : \A e \in leader'[l].todo : ex'[e].status # "NONE"
  <2>1. \A l \in Leader : leader'[l].todo \subseteq Exec
    BY DEF TypeOK, Round
  <2> QED
    BY <1>1, <2>1 DEF Steady, RestSteady, SentInv
<1>6. ASSUME NEW w \in Worker PROVE SlotOK(w)'
  <2>1. SlotOK(w) /\ SlotSteady(w)
    BY DEF SentInv, Steady
  <2>2. CASE wk'[w].pc = "idle"
    BY <2>2 DEF SlotOK, Answered
  <2>3. CASE wk'[w] = wk[w] /\ wk'[w].pc # "idle"
    <3>1. PICK e \in Exec : e = wk[w].exec
      BY <2>3 DEF TypeOK
    <3>2. RowSteady(e) /\ ex'[e].status # "NONE"
      BY <1>1, <2>1, <2>3, <3>1 DEF Steady, SlotOK
    <3>3. wk'[w].pc \in Answered => e \in posts'
      BY <2>1, <2>3, <3>1 DEF SlotOK, Steady, RestSteady
    <3>4. ASSUME wk'[w].pc = "container", ex'[e].holder = w, ex'[e].live
          PROVE  ~ex'[e].container
      BY <2>1, <2>3, <3>1, <3>2, <3>4 DEF RowSteady, SlotOK, Holds
    <3> QED
      BY <2>3, <3>1, <3>2, <3>3, <3>4 DEF SlotOK, Holds
  <2>4. CASE wk'[w] # wk[w] /\ wk'[w].pc # "idle"
    BY <2>1, <2>4 DEF SlotSteady, SlotOK, Steady, RestSteady
  <2> QED
    BY <2>2, <2>3, <2>4
<1> QED
  BY <1>3, <1>4, <1>5, <1>6, <1>7 DEF SentInv

-----------------------------------------------------------------------------
(* Steady: single writes *)

LEMMA RowsSame ==
  ASSUME TypeOK, ex' = ex
  PROVE  \A e \in Exec : RowSteady(e)
BY DEF RowSteady, SaysTruly, TypeOK, Execution

LEMMA RowWrite ==
  ASSUME TypeOK, NEW e \in Exec, NEW r, ex' = [ex EXCEPT ![e] = r],
         r.status = ex[e].status \/ r.status # "NONE",
         SaysTruly(e, r),
         r.version = ex[e].version, r.attempts = ex[e].attempts,
         r.container => ex[e].container,
         r.live => ex[e].live /\ r.holder = ex[e].holder
  PROVE  \A f \in Exec : RowSteady(f)
<1>1. ex'[e] = r /\ \A f \in Exec : f # e => ex'[f] = ex[f]
  BY DEF TypeOK
<1>2. \A f \in Exec : ex[f].attempts \in Nat
  BY DEF TypeOK, Execution
<1>3. \A f \in Exec : f # e => SaysTruly(f, ex'[f])
  BY <1>1 DEF SaysTruly
<1> QED
  BY <1>1, <1>2, <1>3 DEF RowSteady

LEMMA CreateSteady ==
  ASSUME TypeOK, NEW e \in Exec, NEW v, CreateExecution(e, v)
  PROVE  \A f \in Exec : RowSteady(f)
<1>1. ex'[e] = NewExecution(v) /\ \A f \in Exec : f # e => ex'[f] = ex[f]
  BY DEF CreateExecution, TypeOK
<1>2. \A f \in Exec : ex[f].attempts \in Nat
  BY DEF TypeOK, Execution
<1>3. /\ ex'[e].status = "CREATED" /\ ~ex'[e].container /\ ~ex'[e].live
      /\ ex'[e].attempts = 0 /\ ex[e].status = "NONE"
  BY <1>1 DEF CreateExecution, NewExecution
<1>4. RowSteady(e)
  BY <1>2, <1>3 DEF RowSteady, SaysTruly
<1>5. ASSUME NEW f \in Exec, f # e PROVE RowSteady(f)
  BY <1>1, <1>2, <1>5 DEF RowSteady, SaysTruly
<1> QED
  BY <1>4, <1>5

LEMMA StatusWrite ==
  ASSUME TypeOK, NEW e \in Exec, NEW s, s # "NONE",
         s = "PUBLISHED" => e \in posts /\ ex[e].status # "NONE",
         ex' = [ex EXCEPT ![e].status = s]
  PROVE  \A f \in Exec : RowSteady(f)
<1>1. PICK r : r = [ex[e] EXCEPT !.status = s]
  OBVIOUS
<1>2. ex[e] \in Execution
  BY DEF TypeOK
<1>3. /\ r.status = s /\ r.version = ex[e].version /\ r.attempts = ex[e].attempts
      /\ r.container = ex[e].container /\ r.live = ex[e].live /\ r.holder = ex[e].holder
  BY <1>1, <1>2 DEF Execution
<1>4. ex' = [ex EXCEPT ![e] = r]
  BY <1>1
<1>5. /\ r.status = ex[e].status \/ r.status # "NONE"
      /\ SaysTruly(e, r)
      /\ r.container => ex[e].container
      /\ r.live => ex[e].live /\ r.holder = ex[e].holder
  BY <1>3 DEF SaysTruly
<1> QED
  BY <1>3, <1>4, <1>5, RowWrite, Zenon

LEMMA RecoverWrite ==
  ASSUME TypeOK, NEW e \in Exec, NEW kind, ex' = [ex EXCEPT ![e] = Recover(@, kind)]
  PROVE  \A f \in Exec : RowSteady(f)
<1>1. PICK r : r = Recover(ex[e], kind)
  OBVIOUS
<1>2. ex[e] \in Execution
  BY DEF TypeOK
<1>3. /\ r.status = "RECOVERY_REQUIRED" /\ r.version = ex[e].version
      /\ r.attempts = ex[e].attempts /\ r.container = ex[e].container
      /\ r.live = ex[e].live /\ r.holder = ex[e].holder
  BY <1>1, <1>2 DEF Execution, Recover
<1>4. ex' = [ex EXCEPT ![e] = r]
  BY <1>1
<1>5. SaysTruly(e, r)
  BY <1>3 DEF SaysTruly
<1> QED
  BY <1>3, <1>4, <1>5, RowWrite

LEMMA SlotGoes ==
  ASSUME TypeOK, SentInv, \A e \in Exec : RowSteady(e),
         NEW w \in Worker, wk[w].pc # "idle", NEW pc, pc # "container",
         pc \in Answered => wk[w].exec \in posts, GoTo(w, pc)
  PROVE  \A v \in Worker : SlotSteady(v)
<1>1. wk[w] \in WorkerState /\ wk[w].exec \in Exec /\ SlotOK(w)
  BY DEF TypeOK, SentInv
<1>2. /\ wk'[w].pc = pc /\ wk'[w].exec = wk[w].exec
      /\ \A v \in Worker : v # w => wk'[v] = wk[v]
  BY <1>1 DEF GoTo, TypeOK, WorkerState
<1>3. ex'[wk[w].exec].status # "NONE"
  BY <1>1 DEF SlotOK, RowSteady
<1> QED
  BY <1>2, <1>3 DEF SlotSteady

LEMMA SlotEnds ==
  ASSUME TypeOK, NEW w \in Worker, Finish(w)
  PROVE  \A v \in Worker : SlotSteady(v)
<1>1. wk'[w].pc = "idle" /\ \A v \in Worker : v # w => wk'[v] = wk[v]
  BY DEF TypeOK, Finish, Idle
<1> QED
  BY <1>1 DEF SlotSteady

LEMMA SlotsStay ==
  ASSUME wk' = wk
  PROVE  \A v \in Worker : SlotSteady(v)
BY DEF SlotSteady

LEMMA RestSame ==
  ASSUME posts' = posts, others' = others, resolving' = resolving, leader' = leader,
         inflight' \subseteq inflight, inter' = inter \/ inter' # "REPLIED"
  PROVE  RestSteady
BY DEF RestSteady

\* A scan forgets rows; what it says of the interaction it has found in the feed.
LEMMA RestScan ==
  ASSUME TypeOK, SentInv, NEW l \in Leader, NEW e \in Exec, e \in leader[l].todo,
         UNCHANGED <<posts, others, resolving, inflight>>,
         Done(l, e) \/ leader' = [leader EXCEPT ![l] = NoRound],
         inter' = inter \/ inter' # "REPLIED" \/ Matches(e) # {}
  PROVE  RestSteady
<1>1. leader[l] \in Round
  BY DEF TypeOK
<1>2. /\ [leader[l] EXCEPT !.todo = leader[l].todo \ {e}].todo \subseteq leader[l].todo
      /\ NoRound.todo \subseteq leader[l].todo
  BY <1>1 DEF Round, NoRound
<1>3. \A m \in Leader : leader'[m].todo \subseteq leader[m].todo
  BY <1>2 DEF Done, TypeOK
<1>4. ex[e].status # "NONE"
  BY DEF SentInv
<1> QED
  BY <1>3, <1>4 DEF RestSteady

-----------------------------------------------------------------------------
(* Steady: every step *)

LEMMA SteadyDraft ==
  ASSUME TypeOK, NEW d \in Drafter, DraftStep(d)
  PROVE  Steady
<1> USE DEF draftVars, queueVars, platformVars
<1>1. ASSUME NEW e \in Exec, AutoApprove(d, e) PROVE Steady
  <2>1. \A f \in Exec : RowSteady(f)
    BY <1>1, CreateSteady DEF AutoApprove
  <2> QED
    BY <1>1, <2>1, SlotsStay, RestSame DEF AutoApprove, Steady
<1>2. CASE \/ EnqueueDraft(d) \/ StartDraft(d) \/ PersistDraft(d) \/ DraftFails(d)
           \/ \E s \in {"REVIEW_REQUIRED", "BLOCKED"} : RouteDraft(d, s)
  <2>1. /\ UNCHANGED <<ex, wk, leader, posts, others, resolving, inflight>>
        /\ inter' = inter \/ inter' # "REPLIED"
    BY <1>2 DEF EnqueueDraft, StartDraft, PersistDraft, DraftFails, RouteDraft
  <2> QED
    BY <2>1, RowsSame, SlotsStay, RestSame DEF Steady
<1> QED
  BY <1>1, <1>2 DEF DraftStep

LEMMA SteadyOperator ==
  ASSUME TypeOK, OperatorStep
  PROVE  Steady
<1> USE DEF draftVars, queueVars, platformVars
<1>1. ASSUME NEW e \in Exec, NEW v \in 1..MaxVersions, ApproveDraft(e, v) PROVE Steady
  <2>1. \A f \in Exec : RowSteady(f)
    BY <1>1, CreateSteady DEF ApproveDraft
  <2> QED
    BY <1>1, <2>1, SlotsStay, RestSame DEF ApproveDraft, Steady
<1>2. ASSUME NEW e \in Exec, NEW a \in {"CONFIRMED_PUBLISHED", "CONFIRMED_NOT_PUBLISHED"},
             BeginResolve(e, a)
      PROVE  Steady
  <2>1. UNCHANGED <<ex, wk, leader, posts, others, inflight, inter>>
    BY <1>2 DEF BeginResolve
  <2>2. RestSteady
    BY <1>2, <2>1 DEF BeginResolve, RestSteady
  <2> QED
    BY <2>1, <2>2, RowsSame, SlotsStay DEF Steady
<1>3. CASE \/ \E d \in Drafter, r \in BOOLEAN : TriggerDraft(d, r)
           \/ UpdateDraft \/ DismissInteraction
  <2>1. /\ UNCHANGED <<ex, wk, leader, posts, others, resolving, inflight>>
        /\ inter' = inter \/ inter' # "REPLIED"
    BY <1>3 DEF TriggerDraft, UpdateDraft, DismissInteraction
  <2> QED
    BY <2>1, RowsSame, SlotsStay, RestSame DEF Steady
<1> QED
  BY <1>1, <1>2, <1>3 DEF OperatorStep

LEMMA SteadyResolve ==
  ASSUME TypeOK, SentInv, NEW e \in Exec,
         NEW a \in {"CONFIRMED_PUBLISHED", "CONFIRMED_NOT_PUBLISHED"}, ResolveExecution(e, a)
  PROVE  Steady
<1> USE DEF draftVars, queueVars, platformVars
<1>1. PICK s : s = CASE a = "CONFIRMED_PUBLISHED" -> "PUBLISHED"
                     [] ex[e].container -> "RETRYABLE_FAILURE"
                     [] OTHER -> "FAILED_PERMANENT"
  OBVIOUS
<1>2. a = "CONFIRMED_PUBLISHED" => e \in posts
  BY DEF ResolveExecution, SentInv
<1>3. /\ s \in {"PUBLISHED", "RETRYABLE_FAILURE", "FAILED_PERMANENT"}
      /\ s = "PUBLISHED" => e \in posts /\ ex[e].status # "NONE"
  BY <1>1, <1>2 DEF SentInv
<1>4. PICK r : r = [ex[e] EXCEPT !.status = s, !.resolution = a]
  OBVIOUS
<1>5. ex[e] \in Execution
  BY DEF TypeOK
<1>6. /\ r.status = s /\ r.version = ex[e].version /\ r.attempts = ex[e].attempts
      /\ r.container = ex[e].container /\ r.live = ex[e].live /\ r.holder = ex[e].holder
  BY <1>4, <1>5 DEF Execution
<1>7. ex' = [ex EXCEPT ![e] = r]
  <2>1. ex' = [ex EXCEPT ![e].status = s, ![e].resolution = a]
    BY <1>1 DEF ResolveExecution
  <2>2. ex'[e] = [ex[e] EXCEPT !.status = s, !.resolution = a]
    BY <2>1 DEF TypeOK
  <2> QED
    BY <1>4, <2>1, <2>2 DEF TypeOK
<1>8. \A f \in Exec : RowSteady(f)
  <2>1. SaysTruly(e, r)
    BY <1>3, <1>6 DEF SaysTruly
  <2> QED
    BY <1>3, <1>6, <1>7, <2>1, RowWrite
<1>9. RestSteady
  <2>1. inter' = "REPLIED" => inter = "REPLIED" \/ (e \in posts /\ ex[e].status # "NONE")
    BY <1>1, <1>3 DEF ResolveExecution
  <2> QED
    BY <2>1 DEF ResolveExecution, RestSteady, Matches
<1> QED
  BY <1>8, <1>9, SlotsStay DEF ResolveExecution, Steady

LEMMA SteadyClaim ==
  ASSUME TypeOK, NEW w \in Worker, NEW e \in Exec, Claim(w, e)
  PROVE  Steady
<1> USE DEF draftVars, queueVars, platformVars
<1>1. ex[e] \in Execution
  BY DEF TypeOK
<1>2. PICK s \in {"gate", "cancel"} : wk' = [wk EXCEPT ![w] = [pc |-> s, exec |-> e]]
  BY DEF Claim
<1>3. /\ wk'[w].pc = s /\ wk'[w].exec = e
      /\ \A v \in Worker : v # w => wk'[v] = wk[v]
  BY <1>2 DEF TypeOK
<1>4. PICK r : r = [ex[e] EXCEPT !.status = "CLAIMED", !.holder = w, !.live = TRUE]
  OBVIOUS
<1>5. /\ r.status = "CLAIMED" /\ r.version = ex[e].version /\ r.holder = w
      /\ r.attempts = ex[e].attempts
  BY <1>1, <1>4 DEF Execution
<1>6. ex'[e] = r /\ \A f \in Exec : f # e => ex'[f] = ex[f]
  BY <1>4 DEF Claim, TypeOK
<1>7. \A f \in Exec : ex[f].attempts \in Nat
  BY DEF TypeOK, Execution
<1>8. \A f \in Exec : RowSteady(f)
  BY <1>3, <1>5, <1>6, <1>7 DEF RowSteady, SaysTruly
<1>9. \A v \in Worker : SlotSteady(v)
  BY <1>3, <1>5, <1>6 DEF SlotSteady, Answered
<1> QED
  BY <1>8, <1>9, RestSame DEF Claim, Steady

\* The writes that count a request or record its container: only a worker that found
\* none requests one.
LEMMA SteadyContainer ==
  ASSUME TypeOK, SentInv, NEW w \in Worker,
         CreateContainer(w) \/ ContainerAnswered(w) \/ AdvancePublishing(w)
  PROVE  Steady
<1> USE DEF draftVars, queueVars, platformVars, Working
<1>1. wk[w].pc # "idle" /\ Holds(w)
  BY DEF CreateContainer, ContainerAnswered, AdvancePublishing, FencedUpdate, MayActivate
<1>2. PICK e \in Exec : e = wk[w].exec
  BY <1>1 DEF TypeOK
<1>3. ex[e] \in Execution /\ SlotOK(w) /\ ex[e].holder = w
  BY <1>1, <1>2 DEF TypeOK, SentInv, Holds
<1>4. PICK pc \in {"creating", "poll", "mark"} : GoTo(w, pc)
  BY DEF CreateContainer, ContainerAnswered, AdvancePublishing
<1>5. wk'[w].pc # "container"
  <2>1. wk[w] \in WorkerState
    BY DEF TypeOK
  <2> QED
    BY <1>4, <2>1 DEF GoTo, TypeOK, WorkerState
<1>6. \A f \in Exec : f # e => ex'[f] = ex[f]
  BY <1>2 DEF CreateContainer, ContainerAnswered, AdvancePublishing, TypeOK
<1>7. /\ ex'[e].status \notin {"NONE", "PUBLISHED"} /\ ex'[e].version = ex[e].version
      /\ ex'[e].holder = w
  <2>1. CASE CreateContainer(w)
    BY <1>2, <1>3, <2>1 DEF CreateContainer, TypeOK, Execution
  <2>2. CASE ContainerAnswered(w)
    BY <1>2, <1>3, <2>2 DEF ContainerAnswered, TypeOK, Execution
  <2>3. CASE AdvancePublishing(w)
    BY <1>2, <1>3, <2>3 DEF AdvancePublishing, TypeOK, Execution
  <2> QED
    BY <2>1, <2>2, <2>3
<1>8. ex'[e].attempts > ex[e].attempts => ~ex[e].container
  <2>1. CASE CreateContainer(w)
    BY <1>1, <1>2, <1>3, <2>1 DEF CreateContainer, SlotOK
  <2>2. CASE ContainerAnswered(w) \/ AdvancePublishing(w)
    BY <1>2, <1>3, <2>2 DEF ContainerAnswered, AdvancePublishing, TypeOK, Execution
  <2> QED
    BY <2>1, <2>2
<1>9. \A f \in Exec : RowSteady(f)
  <2>1. \A f \in Exec : ex[f].attempts \in Nat
    BY DEF TypeOK, Execution
  <2> QED
    BY <1>5, <1>6, <1>7, <1>8, <2>1 DEF RowSteady, SaysTruly
<1>10. \A v \in Worker : SlotSteady(v)
  BY <1>1, <1>4, <1>9, SlotGoes DEF Answered
<1> QED
  BY <1>9, <1>10, RestSame DEF CreateContainer, ContainerAnswered, AdvancePublishing, Steady

LEMMA SteadyWorker ==
  ASSUME TypeOK, SentInv, NEW w \in Worker, WorkerStep(w)
  PROVE  Steady
<1> USE DEF draftVars, queueVars, platformVars, Working
<1>1. ASSUME wk[w].pc # "idle" PROVE wk[w].exec \in Exec /\ SlotOK(w)
  BY <1>1 DEF TypeOK, SentInv
<1>2. CASE LeaseLost(w) \/ TokenUnavailable(w) \/ RecordFeedback(w)
  BY <1>2, RowsSame, SlotEnds, RestSame DEF LeaseLost, TokenUnavailable, RecordFeedback, Steady
<1>3. CASE Cancel(w) \/ QuotaExhausted(w) \/ RetryPublish(w)
  <2>1. PICK s \in {"CANCELLED_BY_POLICY", "QUOTA_BLOCKED", "RETRYABLE_FAILURE"} :
          wk[w].pc # "idle" /\ Finish(w) /\ ex' = [ex EXCEPT ![wk[w].exec].status = s]
    BY <1>3 DEF Cancel, QuotaExhausted, RetryPublish, FencedUpdate
  <2>2. \A f \in Exec : RowSteady(f)
    BY <1>1, <2>1, StatusWrite
  <2> QED
    BY <1>3, <2>1, <2>2, SlotEnds, RestSame DEF Cancel, QuotaExhausted, RetryPublish, Steady
<1>4. CASE \/ \E s \in {"AUTH_REQUIRED", "CANCELLED_BY_POLICY"} : Refuse(w, s)
           \/ ContainerRefused(w) \/ GiveUp(w)
  <2>1. PICK s \in {"AUTH_REQUIRED", "CANCELLED_BY_POLICY", "FAILED_PERMANENT"} :
          /\ wk[w].pc # "idle" /\ \E pc \in {"review", "refused"} : GoTo(w, pc)
          /\ ex' = [ex EXCEPT ![wk[w].exec].status = s]
    BY <1>4 DEF Refuse, ContainerRefused, GiveUp, FencedUpdate
  <2>2. \A f \in Exec : RowSteady(f)
    BY <1>1, <2>1, StatusWrite
  <2>3. \A v \in Worker : SlotSteady(v)
    BY <2>1, <2>2, SlotGoes DEF Answered
  <2> QED
    BY <1>4, <2>2, <2>3, RestSame DEF Refuse, ContainerRefused, GiveUp, Steady
<1>5. CASE CommitPublished(w)
  <2>1. PICK e \in Exec : e = wk[w].exec /\ e \in posts /\ ex[e].status # "NONE"
    BY <1>1, <1>5 DEF CommitPublished, SlotOK, Answered
  <2>2. ex' = [ex EXCEPT ![e].status = "PUBLISHED"]
    BY <1>5, <2>1 DEF CommitPublished, FencedUpdate
  <2>3. \A f \in Exec : RowSteady(f)
    BY <2>1, <2>2, StatusWrite
  <2>4. \A v \in Worker : SlotSteady(v)
    BY <1>5, <2>1, <2>3, SlotGoes DEF CommitPublished
  <2> QED
    BY <1>5, <2>3, <2>4, RestSame DEF CommitPublished, Steady
<1>6. CASE PollContainer(w) \/ PublishAnswered(w) \/ PublishRefused(w) \/ PublishAmbiguous(w)
  <2>1. PICK pc \in {"advance", "commit", "reject", "ambiguous"} :
          wk[w].pc # "idle" /\ GoTo(w, pc) /\ (pc = "commit" => wk[w].exec \in posts)
    BY <1>6 DEF PollContainer, PublishAnswered, PublishRefused, PublishAmbiguous
  <2>2. ex' = ex
    BY <1>6 DEF PollContainer, PublishAnswered, PublishRefused, PublishAmbiguous
  <2>3. \A v \in Worker : SlotSteady(v)
    BY <2>1, <2>2, RowsSame, SlotGoes DEF Answered
  <2> QED
    BY <1>6, <2>2, <2>3, RowsSame, RestSame
       DEF PollContainer, PublishAnswered, PublishRefused, PublishAmbiguous, Steady
<1>7. CASE PassGate(w)
  <2>1. PICK e \in Exec : e = wk[w].exec /\ ex[e].status # "NONE"
    BY <1>1, <1>7 DEF PassGate, SlotOK
  <2>2. wk[w] \in WorkerState
    BY DEF TypeOK
  <2>3. /\ wk'[w].pc = (IF ex[e].container THEN "poll" ELSE "container")
        /\ wk'[w].exec = e /\ ex' = ex
        /\ \A v \in Worker : v # w => wk'[v] = wk[v]
    BY <1>7, <2>1, <2>2 DEF PassGate, GoTo, TypeOK, WorkerState
  <2>4. \A v \in Worker : SlotSteady(v)
    BY <2>1, <2>3 DEF SlotSteady, Answered
  <2> QED
    BY <1>7, <2>3, <2>4, RowsSame, RestSame DEF PassGate, Steady
<1>8. CASE CreateContainer(w) \/ ContainerAnswered(w) \/ AdvancePublishing(w)
  BY <1>8, SteadyContainer
<1>9. CASE ContainerAmbiguous(w) \/ RecoverPublish(w)
  <2>1. PICK kind \in {"CONTAINER_CREATE", "PUBLISH"} :
          /\ wk[w].pc # "idle" /\ GoTo(w, "recovery")
          /\ ex' = [ex EXCEPT ![wk[w].exec] = Recover(@, kind)]
    BY <1>9 DEF ContainerAmbiguous, RecoverPublish
  <2>2. \A f \in Exec : RowSteady(f)
    BY <1>1, <2>1, RecoverWrite
  <2>3. \A v \in Worker : SlotSteady(v)
    BY <2>1, <2>2, SlotGoes DEF Answered
  <2> QED
    BY <1>9, <2>2, <2>3, RestSame DEF ContainerAmbiguous, RecoverPublish, Steady
<1>10. CASE SendPublish(w)
  <2>1. wk[w].exec \in Exec /\ ex[wk[w].exec].status # "NONE"
    BY <1>1, <1>10 DEF SendPublish, SlotOK
  <2>2. \A v \in Worker : SlotSteady(v)
    BY <1>10, RowsSame, SlotGoes DEF SendPublish, Answered
  <2>3. RestSteady
    BY <1>10, <2>1 DEF SendPublish, RestSteady
  <2> QED
    BY <1>10, <2>2, <2>3, RowsSame DEF SendPublish, Steady
<1>11. CASE MarkReplied(w)
  <2>1. wk[w].exec \in Exec /\ wk[w].exec \in posts /\ ex[wk[w].exec].status # "NONE"
    BY <1>1, <1>11 DEF MarkReplied, SlotOK, Answered
  <2>2. \A v \in Worker : SlotSteady(v)
    BY <1>11, <2>1, RowsSame, SlotGoes, SlotEnds DEF MarkReplied
  <2>3. RestSteady
    BY <1>11, <2>1 DEF MarkReplied, RestSteady, Matches
  <2> QED
    BY <1>11, <2>2, <2>3, RowsSame DEF MarkReplied, Steady
<1>12. CASE UpdateInteraction(w)
  BY <1>12, RowsSame, SlotEnds, RestSame DEF UpdateInteraction, Steady
<1> QED
  BY <1>2, <1>3, <1>4, <1>5, <1>6, <1>7, <1>8, <1>9, <1>10, <1>11, <1>12 DEF WorkerStep

LEMMA SteadyScan ==
  ASSUME TypeOK, SentInv, NEW l \in Leader, ScanStep(l)
  PROVE  Steady
<1> USE DEF draftVars, queueVars, platformVars
<1>1. ASSUME NEW e \in Exec PROVE ex[e] \in Execution
  BY DEF TypeOK
<1>2. ASSUME NEW s \in Scan, BeginScan(l, s) PROVE Steady
  <2>1. UNCHANGED <<ex, wk, inter, posts, others, resolving, inflight>>
    BY <1>2 DEF BeginScan
  <2>2. \A m \in Leader : \A e \in leader'[m].todo :
          e \in leader[m].todo \/ ex[e].status # "NONE"
    BY <1>2 DEF BeginScan, Found, TypeOK
  <2>3. RestSteady
    BY <2>1, <2>2 DEF RestSteady
  <2> QED
    BY <2>1, <2>3, RowsSame, SlotsStay DEF Steady
<1>8. ASSUME NEW e \in Exec, RequeueClashes(l, e) \/ RestoreJob(l, e) \/ AwaitDeadline(l, e)
      PROVE  Steady
  <2>1. UNCHANGED <<ex, wk, inter, posts, others, resolving, inflight>>
    BY <1>8 DEF RequeueClashes, RestoreJob, AwaitDeadline
  <2>2. e \in leader[l].todo /\ (Done(l, e) \/ leader' = [leader EXCEPT ![l] = NoRound])
    BY <1>8 DEF RequeueClashes, RestoreJob, AwaitDeadline, Reached
  <2> QED
    BY <2>1, <2>2, RowsSame, SlotsStay, RestScan DEF Steady
<1>3. ASSUME NEW e \in Exec, Requeue(l, e) PROVE Steady
  <2>1. PICK r : r = [ex[e] EXCEPT !.status = "QUEUED", !.holder = NoWorker, !.live = FALSE]
    OBVIOUS
  <2>2. /\ r.status = "QUEUED" /\ r.version = ex[e].version /\ r.attempts = ex[e].attempts
        /\ r.container = ex[e].container /\ ~r.live
    BY <1>1, <2>1 DEF Execution
  <2>3. ex' = [ex EXCEPT ![e] = r]
    BY <1>3, <2>1 DEF Requeue, TypeOK
  <2>4. \A f \in Exec : RowSteady(f)
    BY <2>2, <2>3, RowWrite DEF SaysTruly
  <2> QED
    BY <1>3, <2>4, SlotsStay, RestScan DEF Requeue, Reached, Steady
<1>4. ASSUME NEW e \in Exec, ReclaimExpired(l, e) PROVE Steady
  <2>1. PICK kind : ex' = [ex EXCEPT ![e] = Recover(@, kind)]
    BY <1>4 DEF ReclaimExpired
  <2>2. \A f \in Exec : RowSteady(f)
    BY <2>1, RecoverWrite
  <2> QED
    BY <1>4, <2>2, SlotsStay, RestScan DEF ReclaimExpired, ThenInteraction, Reached, Steady
<1>5. ASSUME NEW e \in Exec, NEW feed \in Feed(e), ResolveMatched(l, e, feed) PROVE Steady
  <2>1. PICK r : r = [ex[e] EXCEPT !.status = "PUBLISHED", !.resolution = "MATCHED"]
    OBVIOUS
  <2>2. /\ r.status = "PUBLISHED" /\ r.resolution = "MATCHED" /\ r.version = ex[e].version
        /\ r.attempts = ex[e].attempts
        /\ r.container = ex[e].container /\ r.live = ex[e].live /\ r.holder = ex[e].holder
    BY <1>1, <2>1 DEF Execution
  <2>3. ex' = [ex EXCEPT ![e] = r]
    BY <1>5, <2>1 DEF ResolveMatched, TypeOK
  <2>4. Matches(e) # {} /\ e \in leader[l].todo
    BY <1>5 DEF ResolveMatched, Feed, Reached
  <2>5. SaysTruly(e, r)
    BY <2>2, <2>4 DEF SaysTruly, SentInv, Excused
  <2>6. \A f \in Exec : RowSteady(f)
    BY <2>2, <2>3, <2>5, RowWrite
  <2> QED
    BY <1>5, <2>4, <2>6, SlotsStay, RestScan DEF ResolveMatched, ThenInteraction, Steady
<1>6. ASSUME NEW e \in Exec, NEW feed \in Feed(e), ResolveNotLanded(l, e, feed) PROVE Steady
  <2>1. PICK r : r = [ex[e] EXCEPT !.status = "RETRYABLE_FAILURE", !.resolution = "NOT_LANDED"]
    OBVIOUS
  <2>2. /\ r.status = "RETRYABLE_FAILURE" /\ r.version = ex[e].version
        /\ r.attempts = ex[e].attempts /\ r.container = ex[e].container
        /\ r.live = ex[e].live /\ r.holder = ex[e].holder
    BY <1>1, <2>1 DEF Execution
  <2>3. ex' = [ex EXCEPT ![e] = r]
    BY <1>6, <2>1 DEF ResolveNotLanded, TypeOK
  <2>4. \A f \in Exec : RowSteady(f)
    BY <2>2, <2>3, RowWrite DEF SaysTruly
  <2> QED
    BY <1>6, <2>4, SlotsStay, RestScan DEF ResolveNotLanded, Reached, Steady
<1>7. ASSUME NEW e \in Exec, NEW feed \in Feed(e), RequireOperator(l, e, feed) PROVE Steady
  <2>1. PICK r : r = [ex[e] EXCEPT !.resolution = "OPERATOR_REQUIRED"]
    OBVIOUS
  <2>2. /\ r.status = ex[e].status /\ r.resolution = "OPERATOR_REQUIRED"
        /\ r.version = ex[e].version
        /\ r.attempts = ex[e].attempts /\ r.container = ex[e].container
        /\ r.live = ex[e].live /\ r.holder = ex[e].holder
    BY <1>1, <2>1 DEF Execution
  <2>3. ex' = [ex EXCEPT ![e] = r]
    BY <1>7, <2>1 DEF RequireOperator, TypeOK
  <2>4. \A f \in Exec : RowSteady(f)
    BY <2>2, <2>3, RowWrite DEF SaysTruly, Excused
  <2> QED
    BY <1>7, <2>4, SlotsStay, RestScan DEF RequireOperator, Reached, Steady
<1> QED
  BY <1>2, <1>3, <1>4, <1>5, <1>6, <1>7, <1>8 DEF ScanStep

LEMMA SteadyRest ==
  ASSUME TypeOK, SentInv,
         \/ Time \/ Faults
         \/ \E e \in Exec : Dispatch(e) \/ SkipJob(e) \/ Land(e) \/ LoseRequest(e)
         \/ \E p \in OtherPost, v \in 1..MaxVersions : PostElsewhere(p, v)
  PROVE  Steady
<1> USE DEF draftVars, queueVars, platformVars
<1>1. ASSUME NEW e \in Exec, Dispatch(e) \/ SkipJob(e) \/ LoseRequest(e) \/ LoseJob(e)
      PROVE  Steady
  <2>1. /\ UNCHANGED <<ex, wk, inter, leader, posts, others, resolving>>
        /\ inflight' \subseteq inflight
    BY <1>1 DEF Dispatch, SkipJob, LoseRequest, LoseJob
  <2> QED
    BY <2>1, RowsSame, SlotsStay, RestSame DEF Steady
<1>2. ASSUME NEW e \in Exec, Land(e) PROVE Steady
  <2>1. RestSteady
    BY <1>2 DEF Land, RestSteady
  <2> QED
    BY <1>2, <2>1, RowsSame, SlotsStay DEF Land, Steady
<1>3. ASSUME NEW e \in Exec, NEW r,
             r = [ex[e] EXCEPT !.deadline = TRUE] \/ r = [ex[e] EXCEPT !.live = FALSE],
             ex' = [ex EXCEPT ![e] = r]
      PROVE  \A f \in Exec : RowSteady(f)
  <2>1. ex[e] \in Execution
    BY DEF TypeOK
  <2>2. /\ r.status = ex[e].status /\ r.version = ex[e].version
        /\ r.resolution = ex[e].resolution
        /\ r.attempts = ex[e].attempts /\ r.container = ex[e].container
        /\ r.live => ex[e].live /\ r.holder = ex[e].holder
    BY <1>3, <2>1 DEF Execution
  <2>3. SaysTruly(e, r)
    BY <2>2 DEF SaysTruly
  <2> QED
    BY <1>3, <2>2, <2>3, RowWrite
<1>4. ASSUME NEW e \in Exec, DeadlinePasses(e) \/ LeaseRunsOut(e) PROVE Steady
  <2>1. \A f \in Exec : RowSteady(f)
    BY <1>3, <1>4 DEF DeadlinePasses, LeaseRunsOut, TypeOK
  <2> QED
    BY <1>4, <2>1, SlotsStay, RestSame DEF DeadlinePasses, LeaseRunsOut, Steady
<1>5. ASSUME NEW w \in Worker, ConnectionDrops(w) \/ CommitFails(w) \/ RefusalIgnored(w)
      PROVE  Steady
  <2>1. PICK pc \in {"reject", "ambiguous", "advance"} : wk[w].pc # "idle" /\ GoTo(w, pc)
    BY <1>5 DEF ConnectionDrops, CommitFails, RefusalIgnored, Working
  <2>2. UNCHANGED <<ex, inter, leader, posts, others, resolving, inflight>>
    BY <1>5 DEF ConnectionDrops, CommitFails, RefusalIgnored
  <2>3. \A v \in Worker : SlotSteady(v)
    BY <2>1, <2>2, RowsSame, SlotGoes DEF Answered
  <2> QED
    BY <2>2, <2>3, RowsSame, RestSame DEF Steady
<1>6. ASSUME NEW w \in Worker, Throw(w) \/ Crash(w) PROVE Steady
  <2>1. UNCHANGED <<ex, inter, leader, posts, others, resolving, inflight>> /\ Finish(w)
    BY <1>6 DEF Throw, Crash
  <2> QED
    BY <2>1, RowsSame, SlotEnds, RestSame DEF Steady
<1>7. ASSUME NEW w \in Worker, Stall(w) PROVE Steady
  <2>1. PICK e \in Exec : e = wk[w].exec
    BY <1>7 DEF Stall, Working, TypeOK
  <2>2. \A f \in Exec : RowSteady(f)
    BY <1>3, <1>7, <2>1 DEF Stall, TypeOK
  <2> QED
    BY <1>7, <2>2, SlotsStay, RestSame DEF Stall, Steady
<1>8. ASSUME NEW p \in OtherPost, NEW v \in 1..MaxVersions, PostElsewhere(p, v) PROVE Steady
  <2>1. RestSteady
    BY <1>8 DEF PostElsewhere, RestSteady
  <2> QED
    BY <1>8, <2>1, RowsSame, SlotsStay DEF PostElsewhere, Steady
<1> QED
  BY <1>1, <1>2, <1>4, <1>5, <1>6, <1>7, <1>8 DEF Time, Faults

LEMMA SentInitially == Init => SentInv
<1> SUFFICES ASSUME Init PROVE SentInv
  OBVIOUS
<1>1. \A e \in Exec : ex[e].status = "NONE"
  BY DEF Init, NoExecution, NewExecution
<1>2. \A w \in Worker : wk[w].pc = "idle"
  BY DEF Init, Idle
<1> QED
  BY <1>1, <1>2 DEF Init, SentInv, NoFalseSuccess, SlotOK, Answered, NoRound

LEMMA EveryStep ==
  ASSUME TypeOK, SentInv, [Next]_vars
  PROVE  Steady
<1>1. CASE UNCHANGED vars
  BY <1>1, RowsSame, SlotsStay, RestSame
     DEF vars, draftVars, queueVars, platformVars, Steady
<1>2. CASE Next
  BY <1>2, SteadyDraft, SteadyOperator, SteadyResolve, SteadyClaim, SteadyWorker,
     SteadyScan, SteadyRest DEF Next
<1> QED
  BY <1>1, <1>2

LEMMA SentInvariant == Spec => [](TypeOK /\ SentInv)
<1>1. TypeOK /\ SentInv /\ [Next]_vars => TypeOK' /\ SentInv'
  BY TypesStep, EveryStep, SteadyKeeps
<1> QED
  BY TypesInitially, SentInitially, <1>1, PTL DEF Spec

\* Whoever says that a reply is out, it is - the commit after an answer, however late, and
\* an operator - except Scan 4, which only knows that some post has its text.
THEOREM SentTruthfully == Spec => []NoFalseSuccess
<1>1. SentInv => NoFalseSuccess
  BY DEF SentInv
<1> QED
  BY <1>1, SentInvariant, PTL

\* A container on record is used again by every later claim: among any number of
\* workers, stalls, crashes and reclaims, only a row without one gets a request.
THEOREM ReuseContainer == Spec => ContainerReused
<1>1. TypeOK /\ SentInv /\ [Next]_vars =>
        [\A e \in Exec : ex'[e].attempts > ex[e].attempts => ~ex[e].container]_vars
  BY EveryStep DEF Steady, RowSteady
<1> QED
  BY <1>1, SentInvariant, PTL DEF Spec, ContainerReused

=============================================================================
