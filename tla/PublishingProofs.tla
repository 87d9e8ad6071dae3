-------------------------- MODULE PublishingProofs --------------------------
(* Theorems about Publishing, for any rows, workers, limits and faults. *)
EXTENDS Publishing, TLAPS

-----------------------------------------------------------------------------
(* Type correctness *)

LEMMA ReleasedType ==
  ASSUME TypeOK, NEW p \in Post, NEW s \in Status
  PROVE  Released(p, s) \in Row /\ RetryLater(p, s) \in Row
<1>1. row[p] \in Row
  BY DEF TypeOK
<1>2. Released(p, s) \in Row
  BY <1>1 DEF Row, Released
<1> QED
  BY <1>2 DEF Row, RetryLater

LEMMA UpdateType ==
  ASSUME TypeOK, NEW p \in Post, NEW r \in Row, Update(p, r)
  PROVE  row' \in [Post -> Row]
BY DEF TypeOK, Update

LEMMA IdleType == Idle \in WorkerState
BY LimitAssumption DEF Idle, WorkerState, Step

LEMMA WorkerType ==
  ASSUME TypeOK, NEW w \in Worker, NEW s \in WorkerState,
         WellFormed(s), wk' = [wk EXCEPT ![w] = s]
  PROVE  /\ wk' \in [Worker -> WorkerState]
         /\ \A v \in Worker : WellFormed(wk'[v])
BY DEF TypeOK

LEMMA EndType ==
  ASSUME TypeOK, NEW w \in Worker, End(w)
  PROVE  /\ wk' \in [Worker -> WorkerState]
         /\ \A v \in Worker : WellFormed(wk'[v])
<1>1. WellFormed(Idle)
  BY DEF Idle, WellFormed
<1> QED
  BY <1>1, IdleType, WorkerType DEF End

LEMMA EndWithType ==
  ASSUME TypeOK, NEW w \in Worker, wk[w].pc # "idle", NEW r \in Row, EndWith(w, r)
  PROVE  /\ row' \in [Post -> Row]
         /\ wk' \in [Worker -> WorkerState]
         /\ \A v \in Worker : WellFormed(wk'[v])
<1>1. wk[w].post \in Post
  BY DEF TypeOK, WellFormed
<1>2. row' \in [Post -> Row]
  BY <1>1, UpdateType DEF EndWith, TypeOK
<1> QED
  BY <1>2, EndType DEF EndWith

LEMMA FencedStepType ==
  ASSUME TypeOK, NEW w \in Worker, wk[w].pc # "idle", NEW r \in Row,
         NEW s \in WorkerState, WellFormed(s), FencedStep(w, r, s)
  PROVE  /\ row' \in [Post -> Row]
         /\ wk' \in [Worker -> WorkerState]
         /\ \A v \in Worker : WellFormed(wk'[v])
<1>1. wk[w].post \in Post
  BY DEF TypeOK, WellFormed
<1>2. CASE Fenced(w)
  BY <1>1, <1>2, UpdateType, WorkerType DEF FencedStep
<1>3. CASE ~Fenced(w)
  BY <1>3, EndType DEF FencedStep, TypeOK
<1> QED
  BY <1>2, <1>3

LEMMA GotoType ==
  ASSUME TypeOK, NEW w \in Worker, wk[w].pc # "idle",
         NEW step \in Step \ {"commit"}, Goto(w, step)
  PROVE  /\ wk' \in [Worker -> WorkerState]
         /\ \A v \in Worker : WellFormed(wk'[v])
BY DEF TypeOK, Goto, WorkerState, WellFormed

LEMMA EnqueueType ==
  ASSUME TypeOK, NEW p \in Post, NEW j \in JobId, Enqueue(p, j)
  PROVE  jobs' \in [Post -> SUBSET JobId]
BY DEF TypeOK, Enqueue

LEMMA AfterErrorType ==
  ASSUME TypeOK, NEW w \in Worker, wk[w].pc # "idle", NEW c \in ErrorClass
  PROVE  AfterError(w, c) \in Row
<1>1. wk[w].post \in Post
  BY DEF TypeOK, WellFormed
<1>2. {"RECOVERY_REQUIRED", "FAILED_PERMANENT", "AUTH_REQUIRED", "FAILED_RETRYABLE"}
        \subseteq Status
  BY DEF Status, Active, Final
<1>3. wk[w].ambiguous \in BOOLEAN
  BY DEF TypeOK, WorkerState
<1>4. \A s \in Status : Released(wk[w].post, s) \in Row /\ RetryLater(wk[w].post, s) \in Row
  BY <1>1, ReleasedType
<1> HIDE DEF Row
<1> QED
  BY <1>2, <1>3, <1>4 DEF AfterError, ErrorClass

\* The statuses the code assigns are statuses.
LEMMA StatusNames ==
  /\ Active \subseteq Status /\ Final \subseteq Status
  /\ {"CLAIMED", "CREATING_CONTAINER", "CONTAINER_CREATED", "PUBLISHING", "SCHEDULED",
      "QUOTA_BLOCKED", "FAILED_RETRYABLE", "RECOVERY_REQUIRED", "AUTH_REQUIRED",
      "PUBLISHED", "FAILED_PERMANENT", "EXPIRED", "CANCELLED"} \subseteq Status
BY DEF Status, Active, Final

LEMMA StepNames ==
  {"idle", "read", "gate", "container", "creating", "poll", "publish", "send", "await",
   "recover", "commit"} \subseteq Step
BY DEF Step

LEMMA NextAttemptType ==
  ASSUME NEW n \in 0..MaxAttempts
  PROVE  NextAttempt(n) \in 0..MaxAttempts
BY LimitAssumption DEF NextAttempt

LEMMA SpendType ==
  ASSUME TypeOK, Spend
  PROVE  faults' \in 0..MaxFaults
BY LimitAssumption DEF TypeOK, Spend

\* What TypeOK says of a worker at work.
LEMMA AtWork ==
  ASSUME TypeOK, NEW w \in Worker, wk[w].pc # "idle"
  PROVE  /\ wk[w].post \in Post /\ row[wk[w].post] \in Row
         /\ wk[w] \in WorkerState /\ WellFormed(wk[w])
BY DEF TypeOK, WellFormed

LEMMA CatchType ==
  ASSUME TypeOK, NEW w \in Worker, wk[w].pc # "idle", NEW c \in ErrorClass, Catch(w, c),
         faults' \in 0..MaxFaults
  PROVE  TypeOK'
<1>1. AfterError(w, c) \in Row
  BY AfterErrorType
<1> QED
  BY <1>1, EndWithType DEF Catch, TypeOK, queueVars, apiVars, platformVars

\* Claim to PassGate.
LEMMA ClaimSteps ==
  ASSUME TypeOK, NEW w \in Worker
  PROVE  /\ \A p \in Post, j \in JobId : Claim(w, p, j) \/ ClaimMisses(w, p, j) => TypeOK'
         /\ GiveUp(w) \/ Begin(w) \/ QuotaBlocked(w) \/ PassGate(w) => TypeOK'
<1> USE DEF queueVars, rowVars, apiVars, platformVars
<1>1. ASSUME NEW p \in Post, NEW j \in JobId, Claim(w, p, j) PROVE TypeOK'
  <2>1. row[p] \in Row
    BY DEF TypeOK
  <2>2. [row[p] EXCEPT !.status = "CLAIMED", !.holder = w, !.live = TRUE] \in Row
    BY <2>1, StatusNames DEF Row
  <2>3. row' \in [Post -> Row]
    BY <1>1, <2>2, UpdateType DEF Claim
  <2>4. [Idle EXCEPT !.pc = "read", !.post = p, !.job = j,
              !.first = row[p].status = "SCHEDULED" /\ row[p].attempts = 0]
          \in WorkerState
    BY IdleType, StepNames DEF WorkerState
  <2>5. wk' \in [Worker -> WorkerState]
        /\ \A v \in Worker : WellFormed(wk'[v])
    BY <1>1, <2>4, WorkerType DEF Claim, Idle, WellFormed
  <2> QED
    BY <1>1, <2>3, <2>5 DEF Claim, TypeOK
<1>2. ASSUME NEW p \in Post, NEW j \in JobId, ClaimMisses(w, p, j) PROVE TypeOK'
  BY <1>2 DEF ClaimMisses, TypeOK
<1>3. ASSUME GiveUp(w) PROVE TypeOK'
  <2>1. wk[w].pc # "idle" /\ wk[w].post \in Post
    BY <1>3 DEF GiveUp, Working, TypeOK, WellFormed
  <2>2. \E s \in Status : EndWith(w, Released(wk[w].post, s))
    BY <1>3, StatusNames DEF GiveUp
  <2> QED
    BY <1>3, <2>1, <2>2, ReleasedType, EndWithType DEF GiveUp, TypeOK
<1>4. ASSUME Begin(w) PROVE TypeOK'
  <2>1. wk[w].pc # "idle" /\ wk[w].post \in Post
    BY <1>4 DEF Begin, Working, TypeOK, WellFormed
  <2>2. row[wk[w].post] \in Row
    BY <2>1 DEF TypeOK
  <2>3. LooksAmbiguous(wk[w].post) \in BOOLEAN
    BY <2>2 DEF LooksAmbiguous, Ambiguous, Row
  <2> DEFINE p == wk[w].post
             s == [wk[w] EXCEPT !.pc = "gate", !.attempts = row[p].attempts,
                     !.creates = row[p].creates, !.container = row[p].container,
                     !.ambiguous = LooksAmbiguous(p)]
  <2>4. wk[w] \in WorkerState
    BY DEF TypeOK
  <2>5. s \in WorkerState /\ WellFormed(s)
    BY <2>1, AtWork, <2>2, <2>3, <2>4, StepNames DEF WorkerState, Row, WellFormed
  <2>6. wk' = [wk EXCEPT ![w] = s]
    BY <1>4 DEF Begin
  <2> HIDE DEF s
  <2>7. /\ wk' \in [Worker -> WorkerState]
        /\ \A v \in Worker : WellFormed(wk'[v])
    BY <2>5, <2>6, WorkerType
  <2> QED
    BY <1>4, <2>7 DEF Begin, TypeOK
<1>5. ASSUME QuotaBlocked(w) PROVE TypeOK'
  <2>1. wk[w].pc # "idle" /\ wk[w].post \in Post
    BY <1>5 DEF QuotaBlocked, Working, TypeOK, WellFormed
  <2> QED
    BY <1>5, <2>1, ReleasedType, StatusNames, EndWithType DEF QuotaBlocked, TypeOK
<1>6. ASSUME PassGate(w) PROVE TypeOK'
  <2>1. wk[w].pc # "idle" /\ wk[w].post \in Post
    BY <1>6 DEF PassGate, Working, TypeOK, WellFormed
  <2>2. [row[wk[w].post] EXCEPT !.attempts = NextAttempt(@)] \in Row
    <3>1. row[wk[w].post] \in Row
      BY <2>1 DEF TypeOK
    <3> QED
      BY <3>1, NextAttemptType DEF Row
  <2>3. PICK step \in Step \ {"commit"} :
          FencedStep(w, [row[wk[w].post] EXCEPT !.attempts = NextAttempt(@)],
                     [wk[w] EXCEPT !.attempts = NextAttempt(@), !.pc = step])
    BY <1>6, StepNames DEF PassGate
  <2> DEFINE s == [wk[w] EXCEPT !.attempts = NextAttempt(@), !.pc = step]
  <2>4. s \in WorkerState /\ WellFormed(s)
    BY <2>1, AtWork, NextAttemptType DEF WorkerState, WellFormed
  <2> HIDE DEF s
  <2> QED
    BY <1>6, <2>1, <2>2, <2>3, <2>4, FencedStepType DEF PassGate, TypeOK, s
<1> QED
  BY <1>1, <1>2, <1>3, <1>4, <1>5, <1>6

\* Container creation and polling.
LEMMA ContainerSteps ==
  ASSUME TypeOK, NEW w \in Worker
  PROVE  /\ CreatesExhausted(w) \/ StartCreate(w) \/ ContainerCreated(w) => TypeOK'
         /\ PollFinished(w) \/ PollPublished(w) \/ PollBypassed(w) => TypeOK'
         /\ ContainerError(w) \/ ContainerExpired(w) => TypeOK'
<1> USE DEF queueVars, rowVars, apiVars, platformVars
<1> DEFINE p == wk[w].post
<1>1. ASSUME CreatesExhausted(w) PROVE TypeOK'
  <2>1. wk[w].pc # "idle"
    BY <1>1 DEF CreatesExhausted, Working
  <2> QED
    BY <1>1, <2>1, AtWork, ReleasedType, StatusNames, EndWithType
    DEF CreatesExhausted, TypeOK
<1>2. ASSUME StartCreate(w) PROVE TypeOK'
  <2> DEFINE r == [row[p] EXCEPT !.status = "CREATING_CONTAINER", !.creates = @ + 1]
             s == [wk[w] EXCEPT !.pc = "creating"]
  <2>1. wk[w].pc # "idle" /\ FencedStep(w, r, s)
    BY <1>2 DEF StartCreate, Working
  <2>2. s \in WorkerState /\ WellFormed(s)
    BY <2>1, AtWork, StepNames DEF WorkerState, WellFormed
  <2>3. row[p] \in Row
    BY <2>1, AtWork
  <2>4. row[p].creates + 1 \in Nat
    BY <2>3 DEF Row
  <2>5. \A n \in Nat :
          [row[p] EXCEPT !.status = "CREATING_CONTAINER", !.creates = n] \in Row
    BY <2>3, StatusNames DEF Row
  <2>6. r \in Row
    BY <2>4, <2>5
  <2> HIDE DEF r, s
  <2> QED
    BY <1>2, <2>1, <2>2, <2>6, FencedStepType DEF StartCreate, TypeOK
<1>3. ASSUME ContainerCreated(w) PROVE TypeOK'
  <2> DEFINE r == [row[p] EXCEPT !.status = "CONTAINER_CREATED", !.container = TRUE]
             s == [wk[w] EXCEPT !.pc = "poll", !.container = TRUE]
  <2>1. wk[w].pc # "idle" /\ FencedStep(w, r, s)
    BY <1>3 DEF ContainerCreated, Working
  <2>2. s \in WorkerState /\ WellFormed(s) /\ r \in Row
    BY <2>1, AtWork, StepNames, StatusNames DEF WorkerState, WellFormed, Row
  <2>3. cstat' \in [Post -> ContainerStatus]
    BY <1>3 DEF ContainerCreated, TypeOK, ContainerStatus
  <2> HIDE DEF r, s
  <2> QED
    BY <1>3, <2>1, <2>2, <2>3, FencedStepType DEF ContainerCreated, TypeOK
<1>4. ASSUME PollFinished(w) PROVE TypeOK'
  <2>1. wk[w].pc # "idle"
    BY <1>4 DEF PollFinished, Working
  <2>2. \E s \in Step \ {"commit"} : Goto(w, s)
    BY <1>4, StepNames DEF PollFinished
  <2> QED
    BY <1>4, <2>1, <2>2, GotoType DEF PollFinished, TypeOK
<1>5. ASSUME PollPublished(w) PROVE TypeOK'
  <2> DEFINE r == [row[p] EXCEPT !.ambiguous = TRUE]
             s == [wk[w] EXCEPT !.pc = "recover", !.ambiguous = TRUE]
  <2>1. wk[w].pc # "idle"
    BY <1>5 DEF PollPublished, Working
  <2>2. s \in WorkerState /\ WellFormed(s) /\ r \in Row /\ p \in Post
    BY <2>1, AtWork, StepNames DEF WorkerState, WellFormed, Row
  <2>3. wk' = [wk EXCEPT ![w] = s] /\ (Update(p, r) \/ row' = row)
    BY <1>5 DEF PollPublished
  <2> HIDE DEF r, s
  <2>4. row' \in [Post -> Row]
    BY <2>2, <2>3, UpdateType DEF TypeOK
  <2> QED
    BY <1>5, <2>2, <2>3, <2>4, WorkerType DEF PollPublished, TypeOK
<1>6. ASSUME PollBypassed(w) PROVE TypeOK'
  BY <1>6, GotoType, StepNames DEF PollBypassed, Working, TypeOK, WellFormed
<1>7. ASSUME ContainerError(w) PROVE TypeOK'
  <2>1. wk[w].pc # "idle"
    BY <1>7 DEF ContainerError, Working
  <2> QED
    BY <1>7, <2>1, AtWork, ReleasedType, StatusNames, EndWithType
    DEF ContainerError, TypeOK
<1>8. ASSUME ContainerExpired(w) PROVE TypeOK'
  <2> DEFINE r == IF wk[w].attempts >= MaxAttempts
                  THEN Released(p, "FAILED_PERMANENT")
                  ELSE RetryLater(p, "FAILED_RETRYABLE")
  <2>1. wk[w].pc # "idle" /\ EndWith(w, [r EXCEPT !.container = FALSE])
    BY <1>8 DEF ContainerExpired, Working
  <2>2. r \in Row
    BY <2>1, AtWork, ReleasedType, StatusNames
  <2> HIDE DEF r
  <2>3. [r EXCEPT !.container = FALSE] \in Row
    BY <2>2 DEF Row
  <2> QED
    BY <1>8, <2>1, <2>3, EndWithType DEF ContainerExpired, TypeOK
<1> QED
  BY <1>1, <1>2, <1>3, <1>4, <1>5, <1>6, <1>7, <1>8

\* Publishing, recovery, the commit and failing calls.
LEMMA PublishSteps ==
  ASSUME TypeOK, NEW w \in Worker
  PROVE  /\ StartPublish(w) \/ Send(w) \/ PublishAnswers(w) \/ PublishFails(w) => TypeOK'
         /\ (\E q \in Post : FoundInFeed(w, q)) => TypeOK'
         /\ Quarantine(w) \/ Commit(w) \/ CommitRefused(w) => TypeOK'
         /\ \A c \in ErrorClass : CallFails(w, c) \/ PollFails(w, c) => TypeOK'
<1> USE DEF queueVars, rowVars, apiVars, platformVars
<1> DEFINE p == wk[w].post
<1>1. ASSUME StartPublish(w) PROVE TypeOK'
  <2> DEFINE r == [row[p] EXCEPT !.status = "PUBLISHING", !.requested = TRUE]
             s == [wk[w] EXCEPT !.pc = "send", !.ambiguous = TRUE]
  <2>1. wk[w].pc # "idle" /\ FencedStep(w, r, s)
    BY <1>1 DEF StartPublish, Working
  <2>2. s \in WorkerState /\ WellFormed(s) /\ r \in Row
    BY <2>1, AtWork, StepNames, StatusNames DEF WorkerState, WellFormed, Row
  <2> HIDE DEF r, s
  <2> QED
    BY <1>1, <2>1, <2>2, FencedStepType DEF StartPublish, TypeOK
<1>2. ASSUME Send(w) PROVE TypeOK'
  <2>1. wk[w].pc # "idle" /\ Goto(w, "await")
    BY <1>2 DEF Send, Working
  <2>2. /\ wk' \in [Worker -> WorkerState]
        /\ \A v \in Worker : WellFormed(wk'[v])
    BY <2>1, GotoType, StepNames
  <2> QED
    BY <1>2, <2>1, <2>2, AtWork DEF Send, TypeOK
<1>3. ASSUME NEW q \in Post, (PublishAnswers(w) /\ q = p) \/ FoundInFeed(w, q) PROVE TypeOK'
  <2> DEFINE s == [wk[w] EXCEPT !.pc = "commit", !.found = q]
  <2>1. wk[w].pc # "idle" /\ wk' = [wk EXCEPT ![w] = s]
    BY <1>3 DEF PublishAnswers, FoundInFeed, Working
  <2>2. s \in WorkerState /\ WellFormed(s)
    BY <2>1, AtWork, StepNames DEF WorkerState, WellFormed
  <2> HIDE DEF s
  <2>3. /\ wk' \in [Worker -> WorkerState]
        /\ \A v \in Worker : WellFormed(wk'[v])
    BY <2>1, <2>2, WorkerType
  <2> QED
    BY <1>3, <2>3 DEF PublishAnswers, FoundInFeed, TypeOK
<1>4. ASSUME PublishAnswers(w) PROVE TypeOK'
  BY <1>3, <1>4, AtWork DEF PublishAnswers, Working
<1>5. ASSUME PublishFails(w) PROVE TypeOK'
  <2> DEFINE r == [row[p] EXCEPT !.ambiguous = TRUE]
  <2>1. wk[w].pc # "idle" /\ (Update(p, r) \/ row' = row) /\ Goto(w, "recover")
    BY <1>5 DEF PublishFails, Working
  <2>2. r \in Row /\ p \in Post
    BY <2>1, AtWork DEF Row
  <2> HIDE DEF r
  <2>3. row' \in [Post -> Row]
    BY <2>1, <2>2, UpdateType DEF TypeOK
  <2> QED
    BY <1>5, <2>1, <2>3, GotoType, StepNames DEF PublishFails, TypeOK
<1>6. ASSUME Quarantine(w) PROVE TypeOK'
  <2>1. wk[w].pc # "idle"
    BY <1>6 DEF Quarantine, Working
  <2> QED
    BY <1>6, <2>1, AtWork, ReleasedType, StatusNames, EndWithType DEF Quarantine, TypeOK
<1>7. ASSUME Commit(w) PROVE TypeOK'
  <2>1. wk[w].pc = "commit" /\ End(w)
    BY <1>7 DEF Commit, Working
  <2>2. p \in Post /\ wk[w].found \in Post
    BY <2>1 DEF TypeOK, WellFormed
  <2>3. Record(p, wk[w].found) \/ UNCHANGED <<row, adopted, events>>
    BY <1>7 DEF Commit
  <2>4. row' \in [Post -> Row]
    BY <2>2, <2>3, ReleasedType, StatusNames, UpdateType DEF Record, TypeOK
  <2>5. adopted' \in [Post -> Post \cup {NoPost}] /\ events' \in [Post -> Nat]
    BY <2>2, <2>3 DEF Record, TypeOK
  <2> QED
    BY <1>7, <2>1, <2>4, <2>5, EndType DEF Commit, TypeOK
<1>8. ASSUME CommitRefused(w) PROVE TypeOK'
  <2>1. wk[w].pc # "idle" /\ Catch(w, "RETRYABLE") /\ faults' = faults
    BY <1>8 DEF CommitRefused, Working
  <2> QED
    BY <2>1, CatchType DEF ErrorClass, TypeOK
<1>9. ASSUME NEW c \in ErrorClass, CallFails(w, c) \/ PollFails(w, c) PROVE TypeOK'
  <2>1. wk[w].pc # "idle" /\ Catch(w, c) /\ faults' = faults
    BY <1>9 DEF CallFails, PollFails, Working
  <2> QED
    BY <2>1, CatchType DEF TypeOK
<1> QED
  BY <1>1, <1>2, <1>3, <1>4, <1>5, <1>6, <1>7, <1>8, <1>9

\* Crashes, lost jobs and failing statements.
LEMMA FaultSteps ==
  ASSUME TypeOK, Fault
  PROVE  TypeOK'
<1> USE DEF queueVars, rowVars, apiVars, platformVars
<1>1. ASSUME NEW w \in Worker, Crash(w) PROVE TypeOK'
  <2>1. wk[w].pc # "idle" /\ End(w) /\ Spend
    BY <1>1 DEF Crash, Working
  <2>2. CASE UNCHANGED jobs
    BY <1>1, <2>1, <2>2, EndType, SpendType DEF Crash, TypeOK
  <2>3. CASE jobs' = [jobs EXCEPT ![wk[w].post] = @ \cup {wk[w].job}]
    <3>1. wk[w].job \in JobId
      BY <2>1 DEF TypeOK, WellFormed
    <3>2. jobs' \in [Post -> SUBSET JobId]
      BY <2>3, <3>1 DEF TypeOK
    <3> QED
      BY <1>1, <2>1, <3>2, EndType, SpendType DEF Crash, TypeOK
  <2> QED
    BY <1>1, <2>2, <2>3 DEF Crash
<1>2. ASSUME NEW w \in Worker, DatabaseFails(w) PROVE TypeOK'
  <2>1. wk[w].pc # "idle" /\ Catch(w, "RETRYABLE") /\ Spend
    BY <1>2 DEF DatabaseFails
  <2> QED
    BY <2>1, CatchType, SpendType DEF ErrorClass
<1>3. ASSUME NEW p \in Post, NEW j \in JobId, LoseJob(p, j) PROVE TypeOK'
  BY <1>3, SpendType DEF LoseJob, TypeOK
<1> QED
  BY <1>1, <1>2, <1>3 DEF Fault

\* Time, the platform and the reconciler's scans.
LEMMA BackgroundSteps ==
  ASSUME TypeOK, NEW p \in Post, Clock(p) \/ Platform(p) \/ Reconcile(p)
  PROVE  TypeOK'
<1> USE DEF queueVars, rowVars, apiVars, platformVars
<1>1. row[p] \in Row
  BY DEF TypeOK
<1>2. ASSUME LeaseRunsOut(p) PROVE TypeOK'
  <2>1. [row[p] EXCEPT !.live = FALSE] \in Row
    BY <1>1 DEF Row
  <2>2. row' \in [Post -> Row]
    BY <1>2, <2>1, UpdateType DEF LeaseRunsOut
  <2>3. faults' \in 0..MaxFaults
    BY <1>2, SpendType DEF LeaseRunsOut, TypeOK
  <2> QED
    BY <1>2, <2>2, <2>3 DEF LeaseRunsOut, TypeOK
<1>3. ASSUME RetryDue(p) PROVE TypeOK'
  <2>1. [row[p] EXCEPT !.due = TRUE] \in Row
    BY <1>1 DEF Row
  <2> QED
    BY <1>3, <2>1, UpdateType DEF RetryDue, TypeOK
<1>4. ASSUME Age(p) PROVE TypeOK'
  BY <1>4 DEF Age, TypeOK
<1>5. ASSUME Platform(p) PROVE TypeOK'
  BY <1>5 DEF Platform, ContainerMoves, Land, Refuse, TypeOK, ContainerStatus
<1>6. ASSUME ScanDispatch(p) PROVE TypeOK'
  <2>1. <<"base", 0>> \in JobId
    BY DEF JobId
  <2>2. jobs' \in [Post -> SUBSET JobId]
    BY <1>6, <2>1, EnqueueType DEF ScanDispatch
  <2>3. faults' \in 0..MaxFaults
    BY <1>6, SpendType DEF ScanDispatch, TypeOK
  <2>4. dispatch' \in [Post -> {"NONE", "PENDING", "DISPATCHED"}]
    BY <1>6 DEF ScanDispatch, TypeOK
  <2> QED
    BY <1>6, <2>2, <2>3, <2>4 DEF ScanDispatch, TypeOK
<1>7. ASSUME NEW j \in JobId, ScanJob(p, j) PROVE TypeOK'
  BY <1>7, EnqueueType DEF ScanJob, TypeOK
<1>8. ASSUME ScanScheduled(p) \/ ScanRetry(p) \/ ScanStale(p) PROVE TypeOK'
  <2>1. <<"base", 0>> \in JobId
    BY DEF JobId
  <2>2. row[p].attempts \in 0..MaxAttempts
    BY <1>1 DEF Row
  <2>3. <<"retry", row[p].attempts>> \in JobId /\ <<"reclaim", row[p].attempts>> \in JobId
    BY <2>2 DEF JobId
  <2> QED
    BY <1>7, <1>8, <2>1, <2>3 DEF ScanScheduled, ScanRetry, ScanStale
<1>9. ASSUME ScanExhausted(p) PROVE TypeOK'
  BY <1>9 DEF ScanExhausted, TypeOK
<1>10. ASSUME FailStale(p) PROVE TypeOK'
  BY <1>10, ReleasedType, StatusNames, UpdateType DEF FailStale, TypeOK
<1> QED
  BY <1>2, <1>3, <1>4, <1>5, <1>6, <1>8, <1>9, <1>10 DEF Clock, Reconcile

\* Scheduling, cancelling and resolving.
LEMMA RequestSteps ==
  ASSUME TypeOK, Request
  PROVE  TypeOK'
<1> USE DEF queueVars, rowVars, apiVars, platformVars
<1>1. PICK p \in Post :
        \/ CheckPublished(p) \/ CheckActive(p) \/ Schedule(p) \/ ScheduleRefused(p)
        \/ DispatchNow(p) \/ Cancel(p) \/ CheckUnpublished(p) \/ ConfirmNotPublished(p)
        \/ \E q \in Post : ConfirmPublished(p, q)
  BY DEF Request
<1>2. row[p] \in Row
  BY DEF TypeOK
<1>3. [row[p] EXCEPT !.status = "CANCELLED"] \in Row
  BY <1>2, StatusNames DEF Row
<1>4. [NewRow EXCEPT !.status = "SCHEDULED"] \in Row
  <2>1. NewRow \in Row
    BY LimitAssumption DEF NewRow, Row, Status
  <2> QED
    BY <2>1, StatusNames DEF Row
<1>5. ASSUME CheckPublished(p) \/ CheckActive(p) \/ ScheduleRefused(p) PROVE TypeOK'
  BY <1>5 DEF CheckPublished, CheckActive, ScheduleRefused, TypeOK
<1>6. ASSUME Schedule(p) PROVE TypeOK'
  <2>1. row' \in [Post -> Row]
    BY <1>4, <1>6, UpdateType DEF Schedule
  <2> QED
    BY <1>6, <2>1 DEF Schedule, TypeOK
<1>7. ASSUME DispatchNow(p) PROVE TypeOK'
  <2>1. <<"base", 0>> \in JobId
    BY DEF JobId
  <2>2. jobs' \in [Post -> SUBSET JobId]
    BY <1>7, <2>1, EnqueueType DEF DispatchNow, TypeOK
  <2> QED
    BY <1>7, <2>2 DEF DispatchNow, TypeOK
<1>8. ASSUME Cancel(p) PROVE TypeOK'
  BY <1>3, <1>8, UpdateType DEF Cancel, TypeOK
<1>9. ASSUME CheckUnpublished(p) PROVE TypeOK'
  BY <1>9 DEF CheckUnpublished, TypeOK
<1>10. ASSUME ConfirmNotPublished(p) PROVE TypeOK'
  BY <1>3, <1>10, UpdateType DEF ConfirmNotPublished, TypeOK
<1>11. ASSUME NEW q \in Post, ConfirmPublished(p, q) PROVE TypeOK'
  <2>1. row' \in [Post -> Row]
    BY <1>11, ReleasedType, StatusNames, UpdateType DEF ConfirmPublished, Record
  <2>2. adopted' \in [Post -> Post \cup {NoPost}] /\ events' \in [Post -> Nat]
    BY <1>11 DEF ConfirmPublished, Record, TypeOK
  <2> QED
    BY <1>11, <2>1, <2>2 DEF ConfirmPublished, TypeOK
<1> QED
  BY <1>1, <1>5, <1>6, <1>7, <1>8, <1>9, <1>10, <1>11

LEMMA TypeInit == Init => TypeOK
<1>1. NewRow \in Row
  BY LimitAssumption DEF NewRow, Row, Status
<1>2. WellFormed(Idle)
  BY DEF Idle, WellFormed
<1> QED
  BY <1>1, <1>2, IdleType, LimitAssumption DEF Init, TypeOK, ContainerStatus

LEMMA TypeStep == TypeOK /\ [Next]_vars => TypeOK'
<1> SUFFICES ASSUME TypeOK, [Next]_vars PROVE TypeOK'
  OBVIOUS
<1>1. CASE UNCHANGED vars
  BY <1>1 DEF vars, rowVars, queueVars, apiVars, platformVars, TypeOK
<1>2. ASSUME NEW w \in Worker, WorkerStep(w) PROVE TypeOK'
  BY <1>2, ClaimSteps, ContainerSteps, PublishSteps DEF WorkerStep
<1> QED
  BY <1>1, <1>2, FaultSteps, BackgroundSteps, RequestSteps DEF Next

\* Every row, job slot, queue and platform record is of its type, and a worker only
\* reaches the terminal commit with the id of a platform post, never without one.
THEOREM TypeCorrect == Spec => []TypeOK
BY TypeInit, TypeStep, PTL DEF Spec

-----------------------------------------------------------------------------
(* At most one publish request.  The inductive invariant: the holder of a live  *)
(* lease knows of any ambiguity, so it starts to publish only a row that never   *)
(* asked, and the row remembers the request before the request can leave.        *)

Sending(w, p) == wk[w].pc = "send" /\ wk[w].post = p

SlotsKnow ==
  \A w \in Worker : /\ wk[w].pc \in {"send", "await"} => wk[w].ambiguous
                    /\ wk[w].pc = "publish" => ~wk[w].ambiguous

Unasked ==
  \A p \in Post :
    /\ row[p].status = "NONE" => ~row[p].requested
    /\ ~row[p].requested => sent[p] = 0 /\ \A w \in Worker : ~Sending(w, p)

OneSender ==
  \A p \in Post, w \in Worker : Sending(w, p) =>
    sent[p] = 0 /\ \A v \in Worker : Sending(v, p) => v = w

SendInv == SnapshotCurrent /\ SlotsKnow /\ Unasked /\ OneSender /\ PublishAtMostOnce

\* Most steps leave a row's request alone, and its lease too unless they end it or
\* give it to a worker that has yet to read the row...
RowKept(p) ==
  /\ row'[p].requested = row[p].requested
  /\ row'[p].status = "NONE" => row[p].status = "NONE"
  /\ \/ row'[p].holder = NoWorker \/ ~row'[p].live
     \/ row'[p].holder \in Worker /\ wk'[row'[p].holder].pc = "read"
     \/ /\ row'[p].holder = row[p].holder /\ row[p].live
        /\ row'[p].container = row[p].container
        /\ row'[p].ambiguous = row[p].ambiguous

\* ... and leave alone what a worker knows, unless it ends or claims.
SlotKept(w) ==
  \/ wk'[w].pc \in {"idle", "read"}
  \/ /\ wk[w].pc \notin {"idle", "read"}
     /\ wk'[w].post = wk[w].post
     /\ wk'[w].container = wk[w].container
     /\ wk'[w].ambiguous = wk[w].ambiguous
     /\ wk'[w].pc = "send" => wk[w].pc = "send"
     /\ wk'[w].pc = "await" => wk[w].pc = "await"
     /\ wk'[w].pc = "publish" => wk[w].pc = "publish" \/ ~wk[w].ambiguous

LEMMA KeptStep ==
  ASSUME TypeOK, TypeOK', SendInv, sent' = sent,
         \A p \in Post : RowKept(p), \A w \in Worker : SlotKept(w)
  PROVE  SendInv'
<1>1. \A w \in Worker, p \in Post : Sending(w, p)' => Sending(w, p)
  BY DEF Sending, SlotKept
<1>2. OneSender' /\ PublishAtMostOnce' /\ Unasked'
  BY <1>1 DEF SendInv, OneSender, PublishAtMostOnce, Unasked, RowKept
<1>3. SlotsKnow'
  BY DEF SendInv, SlotsKnow, SlotKept
<1>4. SnapshotCurrent'
  <2> SUFFICES ASSUME NEW w \in Worker, wk'[w].pc \notin {"idle", "read"}, Fenced(w)'
               PROVE  /\ row'[wk'[w].post].container = wk'[w].container
                      /\ Ambiguous(wk[w].post)' => wk'[w].ambiguous
    BY DEF SnapshotCurrent
  <2> DEFINE p == wk[w].post
  <2>1. wk[w].pc \notin {"idle", "read"} /\ wk'[w].post = p /\ p \in Post
        /\ wk'[w].container = wk[w].container /\ wk'[w].ambiguous = wk[w].ambiguous
    BY DEF SlotKept, TypeOK, WellFormed
  <2>2. row'[p].holder = w /\ row'[p].live
    BY <2>1 DEF Fenced
  <2>3. w # NoWorker
    BY NullAssumption
  <2>4. /\ row[p].holder = w /\ row[p].live
        /\ row'[p].container = row[p].container /\ row'[p].ambiguous = row[p].ambiguous
        /\ row'[p].requested = row[p].requested
    BY <2>1, <2>2, <2>3 DEF RowKept
  <2>5. row[p].container = wk[w].container /\ (Ambiguous(p) => wk[w].ambiguous)
    BY <2>1, <2>4 DEF SendInv, SnapshotCurrent, Fenced
  <2> QED
    BY <2>1, <2>4, <2>5 DEF Ambiguous
<1> QED
  BY <1>2, <1>3, <1>4 DEF SendInv

\* A record that row p may become when its worker lets it go.
Leaves(r, p) ==
  r.requested = row[p].requested /\ r.status # "NONE" /\ r.holder = NoWorker

LEMMA ReleasedKept ==
  ASSUME TypeOK, NEW p \in Post, NEW s \in Status \ {"NONE"}
  PROVE  Leaves(Released(p, s), p) /\ Leaves(RetryLater(p, s), p)
<1>1. row[p] \in Row
  BY DEF TypeOK
<1>2. /\ Released(p, s).requested = row[p].requested
      /\ Released(p, s).status = s /\ Released(p, s).holder = NoWorker
      /\ Released(p, s).live = FALSE
  BY <1>1 DEF Row, Released
<1>3. /\ RetryLater(p, s).requested = row[p].requested
      /\ RetryLater(p, s).status = s /\ RetryLater(p, s).holder = NoWorker
  BY <1>1, ReleasedType DEF Row, Released, RetryLater
<1> QED
  BY <1>2, <1>3 DEF Leaves

LEMMA EndKept ==
  ASSUME TypeOK, NEW w \in Worker, End(w)
  PROVE  \A v \in Worker : SlotKept(v)
BY DEF TypeOK, End, Idle, SlotKept

LEMMA RowsSame ==
  ASSUME TypeOK, row' = row
  PROVE  \A p \in Post : RowKept(p)
BY DEF RowKept, TypeOK, Row

LEMMA RowLeaves ==
  ASSUME TypeOK, NEW p \in Post, NEW r, Leaves(r, p), Update(p, r)
  PROVE  \A q \in Post : RowKept(q)
<1> TAKE q \in Post
<1>1. CASE q = p
  BY <1>1 DEF RowKept, Leaves, Update, TypeOK
<1>2. CASE q # p
  BY <1>2 DEF RowKept, Update, TypeOK
<1> QED
  BY <1>1, <1>2

LEMMA SlotsSame ==
  ASSUME TypeOK, wk' = wk
  PROVE  \A w \in Worker : SlotKept(w)
BY DEF SlotKept, TypeOK

LEMMA EndWithKept ==
  ASSUME TypeOK, NEW w \in Worker, wk[w].pc # "idle", NEW r, Leaves(r, wk[w].post),
         EndWith(w, r)
  PROVE  (\A p \in Post : RowKept(p)) /\ (\A v \in Worker : SlotKept(v))
BY AtWork, RowsSame, RowLeaves, EndKept DEF EndWith

LEMMA AfterErrorLeaves ==
  ASSUME TypeOK, NEW w \in Worker, wk[w].pc # "idle", NEW c \in ErrorClass
  PROVE  Leaves(AfterError(w, c), wk[w].post)
<1>1. wk[w].ambiguous \in BOOLEAN /\ wk[w].post \in Post
  BY AtWork DEF WorkerState
<1>2. {"RECOVERY_REQUIRED", "FAILED_PERMANENT", "AUTH_REQUIRED", "FAILED_RETRYABLE"}
        \subseteq Status \ {"NONE"}
  BY StatusNames
<1>3. \A s \in Status \ {"NONE"} :
        Leaves(Released(wk[w].post, s), wk[w].post)
        /\ Leaves(RetryLater(wk[w].post, s), wk[w].post)
  BY <1>1, ReleasedKept
<1> QED
  BY <1>1, <1>2, <1>3 DEF AfterError, ErrorClass

LEMMA CatchKept ==
  ASSUME TypeOK, TypeOK', SendInv, NEW w \in Worker, wk[w].pc # "idle",
         NEW c \in ErrorClass, Catch(w, c)
  PROVE  SendInv'
BY AfterErrorLeaves, EndWithKept, KeptStep DEF Catch, platformVars

\* A step of w that moves its slot to step and nothing else.
LEMMA GotoKept ==
  ASSUME TypeOK, TypeOK', SendInv, NEW w \in Worker, wk[w].pc \notin {"idle", "read"},
         NEW step \in Step, Goto(w, step), row' = row, sent' = sent,
         step \notin {"send", "await"}, step = "publish" => ~wk[w].ambiguous
  PROVE  SendInv'
<1>1. \A v \in Worker : SlotKept(v)
  BY DEF SlotKept, Goto, TypeOK, WorkerState
<1> QED
  BY <1>1, RowsSame, KeptStep

LEMMA SendClaim ==
  ASSUME TypeOK, TypeOK', SendInv, NEW w \in Worker
  PROVE  /\ \A p \in Post, j \in JobId : Claim(w, p, j) \/ ClaimMisses(w, p, j) => SendInv'
         /\ GiveUp(w) \/ Begin(w) \/ QuotaBlocked(w) \/ PassGate(w) => SendInv'
<1> USE DEF rowVars, platformVars
<1>1. ASSUME NEW p \in Post, NEW j \in JobId, Claim(w, p, j) PROVE SendInv'
  <2>1. row[p] \in Row
    BY DEF TypeOK
  <2>2. /\ row'[p].requested = row[p].requested /\ row'[p].status = "CLAIMED"
        /\ row'[p].holder = w
        /\ \A q \in Post : q # p => row'[q] = row[q]
    BY <1>1, <2>1 DEF Claim, Update, TypeOK, Row
  <2>3. wk'[w].pc = "read" /\ \A v \in Worker : v # w => wk'[v] = wk[v]
    BY <1>1 DEF Claim, TypeOK, Idle
  <2>4. \A q \in Post : RowKept(q)
    BY <2>2, <2>3 DEF RowKept, TypeOK, Row
  <2>5. \A v \in Worker : SlotKept(v)
    BY <2>3 DEF SlotKept
  <2> QED
    BY <1>1, <2>4, <2>5, KeptStep DEF Claim
<1>2. ASSUME NEW p \in Post, NEW j \in JobId, ClaimMisses(w, p, j) PROVE SendInv'
  BY <1>2, RowsSame, SlotsSame, KeptStep DEF ClaimMisses
<1>3. ASSUME GiveUp(w) PROVE SendInv'
  <2>1. wk[w].pc # "idle" /\ sent' = sent
    BY <1>3 DEF GiveUp, Working
  <2>2. PICK s \in Status \ {"NONE"} : EndWith(w, Released(wk[w].post, s))
    BY <1>3, StatusNames DEF GiveUp
  <2> QED
    BY <2>1, <2>2, AtWork, ReleasedKept, EndWithKept, KeptStep
<1>4. ASSUME Begin(w) PROVE SendInv'
  <2> DEFINE p == wk[w].post
  <2>1. wk[w].pc = "read" /\ p \in Post /\ row' = row /\ sent' = sent
    BY <1>4, AtWork DEF Begin, Working
  <2>2. /\ wk'[w].pc = "gate" /\ wk'[w].post = p
        /\ wk'[w].container = row[p].container /\ wk'[w].ambiguous = LooksAmbiguous(p)
        /\ \A v \in Worker : v # w => wk'[v] = wk[v]
    BY <1>4 DEF Begin, TypeOK, WorkerState
  <2>3. SnapshotCurrent'
    <3>1. \A v \in Worker : v # w =>
            (wk'[v].pc \notin {"idle", "read"} /\ Fenced(v)' =>
               /\ row'[wk'[v].post].container = wk'[v].container
               /\ Ambiguous(wk[v].post)' => wk'[v].ambiguous)
      BY <2>1, <2>2 DEF SendInv, SnapshotCurrent, Fenced, Ambiguous
    <3>2. /\ row'[wk'[w].post].container = wk'[w].container
          /\ Ambiguous(wk[w].post)' => wk'[w].ambiguous
      BY <2>1, <2>2 DEF Ambiguous, LooksAmbiguous
    <3> QED
      BY <2>2, <3>1, <3>2 DEF SnapshotCurrent, Ambiguous
  <2>4. \A v \in Worker, q \in Post : Sending(v, q)' => Sending(v, q)
    BY <2>2 DEF Sending
  <2> QED
    BY <2>1, <2>2, <2>3, <2>4
    DEF SendInv, SlotsKnow, Unasked, OneSender, PublishAtMostOnce
<1>5. ASSUME QuotaBlocked(w) PROVE SendInv'
  <2>1. wk[w].pc # "idle" /\ sent' = sent
        /\ EndWith(w, RetryLater(wk[w].post, "QUOTA_BLOCKED"))
    BY <1>5 DEF QuotaBlocked, Working
  <2> QED
    BY <2>1, AtWork, StatusNames, ReleasedKept, EndWithKept, KeptStep
<1>6. ASSUME PassGate(w) PROVE SendInv'
  <2> DEFINE p == wk[w].post
  <2>1. wk[w].pc = "gate" /\ p \in Post /\ sent' = sent
    BY <1>6, AtWork DEF PassGate, Working
  <2>2. CASE Fenced(w)
    <3>1. row' = [row EXCEPT ![p] = [row[p] EXCEPT !.attempts = NextAttempt(@)]]
      BY <1>6, <2>2 DEF PassGate, FencedStep, Update
    <3>2. \A q \in Post : RowKept(q)
      BY <2>1, <3>1 DEF RowKept, TypeOK, Row
    <3>3. PICK step \in {"poll", "container"} :
            wk' = [wk EXCEPT ![w] = [wk[w] EXCEPT !.attempts = NextAttempt(@), !.pc = step]]
      BY <1>6, <2>2 DEF PassGate, FencedStep
    <3>4. \A v \in Worker : SlotKept(v)
      BY <2>1, <3>3 DEF SlotKept, TypeOK, WorkerState
    <3> QED
      BY <2>1, <3>2, <3>4, KeptStep
  <2>3. CASE ~Fenced(w)
    BY <1>6, <2>1, <2>3, EndKept, RowsSame, KeptStep DEF PassGate, FencedStep
  <2> QED
    BY <2>2, <2>3
<1> QED
  BY <1>1, <1>2, <1>3, <1>4, <1>5, <1>6

LEMMA SendContainer ==
  ASSUME TypeOK, TypeOK', SendInv, NEW w \in Worker
  PROVE  /\ CreatesExhausted(w) \/ StartCreate(w) \/ ContainerCreated(w) => SendInv'
         /\ PollFinished(w) \/ PollPublished(w) \/ PollBypassed(w) => SendInv'
         /\ ContainerError(w) \/ ContainerExpired(w) => SendInv'
<1> USE DEF rowVars, platformVars
<1> DEFINE p == wk[w].post
<1>1. ASSUME CreatesExhausted(w) \/ ContainerError(w) PROVE SendInv'
  <2>1. wk[w].pc # "idle" /\ sent' = sent /\ EndWith(w, Released(p, "FAILED_PERMANENT"))
    BY <1>1 DEF CreatesExhausted, ContainerError, Working
  <2> QED
    BY <2>1, AtWork, StatusNames, ReleasedKept, EndWithKept, KeptStep
<1>2. ASSUME StartCreate(w) PROVE SendInv'
  <2>1. wk[w].pc = "container" /\ p \in Post /\ sent' = sent
    BY <1>2, AtWork DEF StartCreate, Working
  <2>2. CASE Fenced(w)
    <3>1. row' = [row EXCEPT ![p] = [row[p] EXCEPT !.status = "CREATING_CONTAINER",
                                                   !.creates = @ + 1]]
          /\ wk' = [wk EXCEPT ![w] = [wk[w] EXCEPT !.pc = "creating"]]
      BY <1>2, <2>2 DEF StartCreate, FencedStep, Update
    <3>2. \A q \in Post : RowKept(q)
      BY <2>1, <3>1 DEF RowKept, TypeOK, Row
    <3>3. \A v \in Worker : SlotKept(v)
      BY <2>1, <3>1 DEF SlotKept, TypeOK, WorkerState
    <3> QED
      BY <2>1, <3>2, <3>3, KeptStep
  <2>3. CASE ~Fenced(w)
    BY <1>2, <2>1, <2>3, EndKept, RowsSame, KeptStep DEF StartCreate, FencedStep
  <2> QED
    BY <2>2, <2>3
<1>3. ASSUME ContainerCreated(w) PROVE SendInv'
  <2>1. wk[w].pc = "creating" /\ p \in Post /\ sent' = sent
    BY <1>3, AtWork DEF ContainerCreated, Working
  <2>2. CASE Fenced(w)
    <3>1. row' = [row EXCEPT ![p] = [row[p] EXCEPT !.status = "CONTAINER_CREATED",
                                                   !.container = TRUE]]
          /\ wk' = [wk EXCEPT ![w] = [wk[w] EXCEPT !.pc = "poll", !.container = TRUE]]
      BY <1>3, <2>2 DEF ContainerCreated, FencedStep, Update
    <3>2. wk'[w].pc = "poll" /\ wk'[w].post = p /\ wk'[w].container = TRUE
          /\ wk'[w].ambiguous = wk[w].ambiguous
          /\ \A v \in Worker : v # w => wk'[v] = wk[v]
      BY <2>1, <3>1 DEF TypeOK, WorkerState
    <3>3. row'[p].container = TRUE /\ row'[p].status = "CONTAINER_CREATED"
          /\ row'[p].requested = row[p].requested /\ row'[p].ambiguous = row[p].ambiguous
          /\ row'[p].holder = w /\ \A q \in Post : q # p => row'[q] = row[q]
      BY <2>1, <2>2, <3>1 DEF TypeOK, Row, Fenced
    <3>4. SnapshotCurrent'
      <4>1. \A v \in Worker : v # w =>
              (wk'[v].pc \notin {"idle", "read"} /\ Fenced(v)' =>
                 /\ row'[wk'[v].post].container = wk'[v].container
                 /\ Ambiguous(wk[v].post)' => wk'[v].ambiguous)
        BY <3>2, <3>3 DEF SendInv, SnapshotCurrent, Fenced, Ambiguous, TypeOK, WellFormed
      <4>2. /\ row'[wk'[w].post].container = wk'[w].container
            /\ Ambiguous(wk[w].post)' => wk'[w].ambiguous
        BY <2>1, <2>2, <3>2, <3>3 DEF SendInv, SnapshotCurrent, Ambiguous
      <4> QED
        BY <3>2, <4>1, <4>2 DEF SnapshotCurrent, Ambiguous
    <3>5. \A v \in Worker, q \in Post : Sending(v, q)' => Sending(v, q)
      BY <3>2 DEF Sending
    <3> QED
      BY <2>1, <3>2, <3>3, <3>4, <3>5
      DEF SendInv, SlotsKnow, Unasked, OneSender, PublishAtMostOnce
  <2>3. CASE ~Fenced(w)
    BY <1>3, <2>1, <2>3, EndKept, RowsSame, KeptStep DEF ContainerCreated, FencedStep
  <2> QED
    BY <2>2, <2>3
<1>4. ASSUME PollFinished(w) PROVE SendInv'
  <2>1. PICK step \in Step :
          /\ Goto(w, step) /\ step \notin {"send", "await"}
          /\ step = "publish" => ~wk[w].ambiguous
    BY <1>4, StepNames DEF PollFinished
  <2> QED
    BY <1>4, <2>1, GotoKept DEF PollFinished, Working
<1>5. ASSUME PollBypassed(w) PROVE SendInv'
  BY <1>5, StepNames, GotoKept DEF PollBypassed, Working
<1>6. ASSUME PollPublished(w) PROVE SendInv'
  <2>1. wk[w].pc = "poll" /\ p \in Post /\ sent' = sent
    BY <1>6, AtWork DEF PollPublished, Working
  <2>2. wk'[w].pc = "recover" /\ wk'[w].post = p /\ wk'[w].ambiguous = TRUE
        /\ wk'[w].container = wk[w].container
        /\ \A v \in Worker : v # w => wk'[v] = wk[v]
    BY <1>6, <2>1 DEF PollPublished, TypeOK, WorkerState
  <2>3. /\ row'[p].container = row[p].container /\ row'[p].status = row[p].status
        /\ row'[p].requested = row[p].requested /\ row'[p].holder = row[p].holder
        /\ row'[p].live = row[p].live
        /\ row'[p].ambiguous # row[p].ambiguous => Fenced(w)
        /\ \A q \in Post : q # p => row'[q] = row[q]
    BY <1>6, <2>1 DEF PollPublished, Update, TypeOK, Row
  <2>4. SnapshotCurrent'
    <3>1. \A v \in Worker : v # w =>
            (wk'[v].pc \notin {"idle", "read"} /\ Fenced(v)' =>
               /\ row'[wk'[v].post].container = wk'[v].container
               /\ Ambiguous(wk[v].post)' => wk'[v].ambiguous)
      BY <2>2, <2>3 DEF SendInv, SnapshotCurrent, Fenced, Ambiguous, TypeOK, WellFormed
    <3>2. Fenced(w)' => row'[wk'[w].post].container = wk'[w].container
      BY <2>1, <2>2, <2>3 DEF SendInv, SnapshotCurrent, Fenced
    <3> QED
      BY <2>2, <3>1, <3>2 DEF SnapshotCurrent, Ambiguous
  <2>5. \A v \in Worker, q \in Post : Sending(v, q)' => Sending(v, q)
    BY <2>2 DEF Sending
  <2> QED
    BY <2>1, <2>2, <2>3, <2>4, <2>5
    DEF SendInv, SlotsKnow, Unasked, OneSender, PublishAtMostOnce
<1>7. ASSUME ContainerExpired(w) PROVE SendInv'
  <2> DEFINE r == IF wk[w].attempts >= MaxAttempts
                  THEN Released(p, "FAILED_PERMANENT")
                  ELSE RetryLater(p, "FAILED_RETRYABLE")
  <2>1. wk[w].pc # "idle" /\ sent' = sent /\ EndWith(w, [r EXCEPT !.container = FALSE])
    BY <1>7 DEF ContainerExpired, Working
  <2>2. p \in Post /\ r \in Row /\ Leaves(r, p)
    BY <2>1, AtWork, StatusNames, ReleasedType, ReleasedKept
  <2>3. Leaves([r EXCEPT !.container = FALSE], p)
    <3> HIDE DEF r
    <3> QED
      BY <2>2 DEF Leaves, Row
  <2> QED
    BY <2>1, <2>3, EndWithKept, KeptStep
<1> QED
  BY <1>1, <1>2, <1>3, <1>4, <1>5, <1>6, <1>7

LEMMA SendPublish ==
  ASSUME TypeOK, TypeOK', SendInv, NEW w \in Worker
  PROVE  /\ StartPublish(w) \/ Send(w) \/ PublishAnswers(w) \/ PublishFails(w) => SendInv'
         /\ (\E q \in Post : FoundInFeed(w, q)) => SendInv'
         /\ Quarantine(w) \/ Commit(w) \/ CommitRefused(w) => SendInv'
         /\ \A c \in ErrorClass : CallFails(w, c) \/ PollFails(w, c) => SendInv'
<1> USE DEF rowVars, platformVars
<1> DEFINE p == wk[w].post
<1>1. ASSUME StartPublish(w) PROVE SendInv'
  <2>1. wk[w].pc = "publish" /\ p \in Post /\ sent' = sent
    BY <1>1, AtWork DEF StartPublish, Working
  <2>2. CASE Fenced(w)
    <3>1. row' = [row EXCEPT ![p] = [row[p] EXCEPT !.status = "PUBLISHING",
                                                   !.requested = TRUE]]
          /\ wk' = [wk EXCEPT ![w] = [wk[w] EXCEPT !.pc = "send", !.ambiguous = TRUE]]
      BY <1>1, <2>2 DEF StartPublish, FencedStep, Update
    <3>2. wk'[w].pc = "send" /\ wk'[w].post = p /\ wk'[w].container = wk[w].container
          /\ wk'[w].ambiguous = TRUE /\ \A v \in Worker : v # w => wk'[v] = wk[v]
      BY <2>1, <3>1 DEF TypeOK, WorkerState
    <3>3. row'[p].container = row[p].container /\ row'[p].status = "PUBLISHING"
          /\ row'[p].requested = TRUE /\ row'[p].holder = w
          /\ \A q \in Post : q # p => row'[q] = row[q]
      BY <2>1, <2>2, <3>1 DEF TypeOK, Row, Fenced
    <3>4. ~wk[w].ambiguous /\ ~row[p].requested
      BY <2>1, <2>2 DEF SendInv, SlotsKnow, SnapshotCurrent, Ambiguous
    <3>5. sent[p] = 0 /\ \A v \in Worker : ~Sending(v, p)
      BY <2>1, <3>4 DEF SendInv, Unasked
    <3>6. SnapshotCurrent'
      <4>1. \A v \in Worker : v # w =>
              (wk'[v].pc \notin {"idle", "read"} /\ Fenced(v)' =>
                 /\ row'[wk'[v].post].container = wk'[v].container
                 /\ Ambiguous(wk[v].post)' => wk'[v].ambiguous)
        BY <3>2, <3>3 DEF SendInv, SnapshotCurrent, Fenced, Ambiguous, TypeOK, WellFormed
      <4>2. row'[wk'[w].post].container = wk'[w].container
        BY <2>1, <2>2, <3>2, <3>3 DEF SendInv, SnapshotCurrent
      <4> QED
        BY <3>2, <4>1, <4>2 DEF SnapshotCurrent, Ambiguous
    <3>7. SlotsKnow'
      BY <3>2 DEF SendInv, SlotsKnow
    <3>8. Unasked'
      BY <2>1, <3>2, <3>3 DEF SendInv, Unasked, Sending
    <3>9. OneSender' /\ PublishAtMostOnce'
      BY <2>1, <3>2, <3>5 DEF SendInv, OneSender, Sending, PublishAtMostOnce
    <3> QED
      BY <3>6, <3>7, <3>8, <3>9 DEF SendInv
  <2>3. CASE ~Fenced(w)
    BY <1>1, <2>1, <2>3, EndKept, RowsSame, KeptStep DEF StartPublish, FencedStep
  <2> QED
    BY <2>2, <2>3
<1>2. ASSUME Send(w) PROVE SendInv'
  <2>1. wk[w].pc = "send" /\ p \in Post /\ row' = row
    BY <1>2, AtWork DEF Send, Working
  <2>2. Sending(w, p) /\ sent[p] = 0 /\ \A v \in Worker : Sending(v, p) => v = w
    BY <2>1 DEF Sending, SendInv, OneSender
  <2>3. row[p].requested
    BY <2>1, <2>2 DEF SendInv, Unasked
  <2>4. sent'[p] = 1 /\ \A q \in Post : q # p => sent'[q] = sent[q]
    BY <1>2, <2>1, <2>2 DEF Send, TypeOK
  <2>5. wk'[w].pc = "await" /\ wk'[w].post = p /\ wk'[w].container = wk[w].container
        /\ wk'[w].ambiguous = wk[w].ambiguous
        /\ \A v \in Worker : v # w => wk'[v] = wk[v]
    BY <1>2, <2>1 DEF Send, Goto, TypeOK, WorkerState
  <2>6. SnapshotCurrent' /\ SlotsKnow'
    BY <2>1, <2>5 DEF SendInv, SnapshotCurrent, SlotsKnow, Fenced, Ambiguous
  <2>7. Unasked'
    BY <2>1, <2>3, <2>4, <2>5 DEF SendInv, Unasked, Sending
  <2>8. OneSender' /\ PublishAtMostOnce'
    BY <2>2, <2>4, <2>5 DEF SendInv, OneSender, Sending, PublishAtMostOnce
  <2> QED
    BY <2>6, <2>7, <2>8 DEF SendInv
<1>3. ASSUME NEW q \in Post, (PublishAnswers(w) /\ q = p) \/ FoundInFeed(w, q) PROVE SendInv'
  <2>1. wk[w].pc \in {"await", "recover"} /\ row' = row /\ sent' = sent
        /\ wk' = [wk EXCEPT ![w] = [wk[w] EXCEPT !.pc = "commit", !.found = q]]
    BY <1>3 DEF PublishAnswers, FoundInFeed, Working
  <2>2. \A v \in Worker : SlotKept(v)
    BY <2>1 DEF SlotKept, TypeOK, WorkerState
  <2> QED
    BY <2>1, <2>2, RowsSame, KeptStep
<1>4. ASSUME PublishAnswers(w) PROVE SendInv'
  BY <1>3, <1>4, AtWork DEF PublishAnswers, Working
<1>5. ASSUME PublishFails(w) PROVE SendInv'
  <2>1. wk[w].pc = "await" /\ p \in Post /\ sent' = sent /\ wk[w].ambiguous
        /\ row[p] \in Row /\ wk[w] \in WorkerState
    BY <1>5, AtWork DEF PublishFails, Working, SendInv, SlotsKnow
  <2> DEFINE r == [row[p] EXCEPT !.ambiguous = TRUE]
  <2>2. wk'[w].pc = "recover" /\ wk'[w].post = p /\ wk'[w].ambiguous = wk[w].ambiguous
        /\ wk'[w].container = wk[w].container
        /\ \A v \in Worker : v # w => wk'[v] = wk[v]
    <3>1. wk' = [wk EXCEPT ![w].pc = "recover"]
      BY <1>5 DEF PublishFails, Goto
    <3>2. wk \in [Worker -> WorkerState]
      BY DEF TypeOK
    <3>3. wk'[w] = [wk[w] EXCEPT !.pc = "recover"]
          /\ \A v \in Worker : v # w => wk'[v] = wk[v]
      BY <3>1, <3>2
    <3> QED
      BY <2>1, <3>3 DEF WorkerState
  <2>3. /\ row'[p].container = row[p].container /\ row'[p].status = row[p].status
        /\ row'[p].requested = row[p].requested /\ row'[p].holder = row[p].holder
        /\ row'[p].live = row[p].live
        /\ row'[p].ambiguous # row[p].ambiguous => Fenced(w)
        /\ \A q \in Post : q # p => row'[q] = row[q]
    <3>1. (Fenced(w) /\ row' = [row EXCEPT ![p] = r]) \/ row' = row
      BY <1>5 DEF PublishFails, Update
    <3> QED
      BY <2>1, <3>1 DEF TypeOK, Row
  <2>4. SnapshotCurrent'
    <3>1. \A v \in Worker : v # w =>
            (wk'[v].pc \notin {"idle", "read"} /\ Fenced(v)' =>
               /\ row'[wk'[v].post].container = wk'[v].container
               /\ Ambiguous(wk[v].post)' => wk'[v].ambiguous)
      BY <2>2, <2>3 DEF SendInv, SnapshotCurrent, Fenced, Ambiguous, TypeOK, WellFormed
    <3>2. Fenced(w)' => row'[wk'[w].post].container = wk'[w].container
      BY <2>1, <2>2, <2>3 DEF SendInv, SnapshotCurrent, Fenced
    <3> QED
      BY <2>1, <2>2, <3>1, <3>2 DEF SnapshotCurrent, Ambiguous
  <2>5. \A v \in Worker, q \in Post : Sending(v, q)' => Sending(v, q)
    BY <2>2 DEF Sending
  <2> QED
    BY <2>1, <2>2, <2>3, <2>4, <2>5
    DEF SendInv, SlotsKnow, Unasked, OneSender, PublishAtMostOnce
<1>6. ASSUME Quarantine(w) PROVE SendInv'
  <2>1. wk[w].pc # "idle" /\ sent' = sent /\ EndWith(w, Released(p, "RECOVERY_REQUIRED"))
    BY <1>6 DEF Quarantine, Working
  <2> QED
    BY <2>1, AtWork, StatusNames, ReleasedKept, EndWithKept, KeptStep
<1>7. ASSUME Commit(w) PROVE SendInv'
  <2>1. wk[w].pc # "idle" /\ sent' = sent /\ End(w)
        /\ (Update(p, Released(p, "PUBLISHED")) \/ row' = row)
    BY <1>7 DEF Commit, Record, Working
  <2> QED
    BY <2>1, AtWork, StatusNames, ReleasedKept, RowLeaves, RowsSame, EndKept, KeptStep
<1>8. ASSUME CommitRefused(w) PROVE SendInv'
  BY <1>8, CatchKept DEF CommitRefused, Working, ErrorClass
<1>9. ASSUME NEW c \in ErrorClass, CallFails(w, c) \/ PollFails(w, c) PROVE SendInv'
  BY <1>9, CatchKept DEF CallFails, PollFails, Working
<1> QED
  BY <1>1, <1>2, <1>3, <1>4, <1>5, <1>6, <1>7, <1>8, <1>9

LEMMA SendFault ==
  ASSUME TypeOK, TypeOK', SendInv, Fault
  PROVE  SendInv'
<1> USE DEF rowVars, platformVars
<1>1. ASSUME NEW w \in Worker, Crash(w) PROVE SendInv'
  BY <1>1, EndKept, RowsSame, KeptStep DEF Crash
<1>2. ASSUME NEW w \in Worker, DatabaseFails(w) PROVE SendInv'
  BY <1>2, CatchKept DEF DatabaseFails, ErrorClass
<1>3. ASSUME NEW p \in Post, NEW j \in JobId, LoseJob(p, j) PROVE SendInv'
  BY <1>3, RowsSame, SlotsSame, KeptStep DEF LoseJob
<1> QED
  BY <1>1, <1>2, <1>3 DEF Fault

LEMMA SendBackground ==
  ASSUME TypeOK, TypeOK', SendInv, NEW p \in Post, Clock(p) \/ Platform(p) \/ Reconcile(p)
  PROVE  SendInv'
<1> USE DEF rowVars, platformVars
<1>1. wk' = wk /\ sent' = sent
  BY DEF Clock, LeaseRunsOut, RetryDue, Age, Platform, ContainerMoves, Land, Refuse,
         Reconcile, ScanDispatch, ScanScheduled, ScanRetry, ScanStale, ScanJob,
         ScanExhausted, FailStale
<1>2. CASE row' = row
  BY <1>1, <1>2, RowsSame, SlotsSame, KeptStep
<1>3. CASE LeaseRunsOut(p)
  <2>1. \A q \in Post : RowKept(q)
    BY <1>3 DEF LeaseRunsOut, Update, RowKept, TypeOK, Row
  <2> QED
    BY <1>1, <2>1, SlotsSame, KeptStep
<1>4. CASE RetryDue(p)
  <2>1. \A q \in Post : RowKept(q)
    BY <1>4 DEF RetryDue, Update, RowKept, TypeOK, Row
  <2> QED
    BY <1>1, <2>1, SlotsSame, KeptStep
<1>5. CASE Update(p, Released(p, "FAILED_PERMANENT"))
  BY <1>1, <1>5, StatusNames, ReleasedKept, RowLeaves, SlotsSame, KeptStep
<1> QED
  BY <1>2, <1>3, <1>4, <1>5
  DEF Clock, Age, Platform, ContainerMoves, Land, Refuse, Reconcile, ScanDispatch,
      ScanScheduled, ScanRetry, ScanStale, ScanJob, ScanExhausted, FailStale

LEMMA SendRequest ==
  ASSUME TypeOK, TypeOK', SendInv, Request
  PROVE  SendInv'
<1> USE DEF rowVars, platformVars
<1>1. PICK p \in Post :
        \/ CheckPublished(p) \/ CheckActive(p) \/ Schedule(p) \/ ScheduleRefused(p)
        \/ DispatchNow(p) \/ Cancel(p) \/ CheckUnpublished(p) \/ ConfirmNotPublished(p)
        \/ \E q \in Post : ConfirmPublished(p, q)
  BY DEF Request
<1>2. wk' = wk /\ sent' = sent
  BY <1>1 DEF CheckPublished, CheckActive, Schedule, ScheduleRefused, DispatchNow, Cancel,
              CheckUnpublished, ConfirmNotPublished, ConfirmPublished
<1>3. CASE row' = row
  BY <1>2, <1>3, RowsSame, SlotsSame, KeptStep
<1>4. CASE Schedule(p)
  <2>1. row[p].status = "NONE" /\ Update(p, [NewRow EXCEPT !.status = "SCHEDULED"])
    BY <1>4 DEF Schedule, HasActive, Active
  <2>2. ~row[p].requested /\ row[p].requested \in BOOLEAN
    BY <2>1 DEF SendInv, Unasked, TypeOK, Row
  <2>3. Leaves([NewRow EXCEPT !.status = "SCHEDULED"], p)
    BY <2>2 DEF Leaves, NewRow
  <2> QED
    BY <1>2, <2>1, <2>3, RowLeaves, SlotsSame, KeptStep
<1>5. CASE Update(p, [row[p] EXCEPT !.status = "CANCELLED"])
  <2>1. \A q \in Post : RowKept(q)
    BY <1>5 DEF Update, RowKept, TypeOK, Row
  <2> QED
    BY <1>2, <2>1, SlotsSame, KeptStep
<1>6. CASE Update(p, Released(p, "PUBLISHED"))
  BY <1>2, <1>6, StatusNames, ReleasedKept, RowLeaves, SlotsSame, KeptStep
<1> QED
  BY <1>1, <1>3, <1>4, <1>5, <1>6
  DEF CheckPublished, CheckActive, ScheduleRefused, DispatchNow, Cancel,
      CheckUnpublished, ConfirmNotPublished, ConfirmPublished, Record

LEMMA SendInit == Init => SendInv
<1> SUFFICES ASSUME Init PROVE SendInv
  OBVIOUS
<1>1. /\ \A w \in Worker : wk[w].pc = "idle"
      /\ \A p \in Post : ~row[p].requested /\ sent[p] = 0
  BY DEF Init, Idle, NewRow
<1> QED
  BY <1>1 DEF SendInv, SnapshotCurrent, SlotsKnow, Unasked, OneSender, Sending,
              PublishAtMostOnce

LEMMA SendStep == TypeOK /\ TypeOK' /\ SendInv /\ [Next]_vars => SendInv'
<1> SUFFICES ASSUME TypeOK, TypeOK', SendInv, [Next]_vars PROVE SendInv'
  OBVIOUS
<1>1. CASE UNCHANGED vars
  BY <1>1, RowsSame, SlotsSame, KeptStep DEF vars, rowVars, platformVars
<1>2. ASSUME NEW w \in Worker, WorkerStep(w) PROVE SendInv'
  BY <1>2, SendClaim, SendContainer, SendPublish DEF WorkerStep
<1> QED
  BY <1>1, <1>2, SendFault, SendBackground, SendRequest DEF Next

LEMMA SendInvariant == Spec => []SendInv
<1>1. TypeOK /\ SendInv /\ [Next]_vars => SendInv'
  BY TypeStep, SendStep
<1> QED
  BY TypeCorrect, TypeInit, TypeStep, SendInit, <1>1, PTL DEF Spec

\* However many workers, rows, crashes, overrun leases, retries and lost jobs there are,
\* at most one publish request is ever sent for a scheduled post.
THEOREM AtMostOnePublish == Spec => []PublishAtMostOnce
<1>1. SendInv => PublishAtMostOnce
  BY DEF SendInv
<1> QED
  BY <1>1, SendInvariant, PTL

\* The worker that holds a live lease sees its row as it is: what it decided on the
\* snapshot it took after the claim (container, ambiguity) still holds.
THEOREM LeaseHolderIsCurrent == Spec => []SnapshotCurrent
<1>1. SendInv => SnapshotCurrent
  BY DEF SendInv
<1> QED
  BY <1>1, SendInvariant, PTL

=============================================================================
