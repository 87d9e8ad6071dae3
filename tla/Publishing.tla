----------------------------- MODULE Publishing -----------------------------
(***************************************************************************)
(* Two-phase publishing of scheduled posts: rows of scheduled_posts, the   *)
(* workers that run PublishingProcessor.process, the BullMQ publish queue, *)
(* PublishingReconciliationService's scans, the scheduling endpoints of    *)
(* ContentService and the Threads platform.                                *)
(*                                                                         *)
(* A worker's database writes carry WHERE attempt_id = mine AND            *)
(* lease_until > NOW().  attempt_id is a fresh UUID for every claim and a  *)
(* worker slot runs one claim at a time, so `holder' (the slot) stands for *)
(* it; `live' says that the lease has not run out.                         *)
(***************************************************************************)
EXTENDS Naturals

CONSTANTS
  Post,         \* ids of scheduled_posts rows
  Worker,       \* job slots of the publish queue's worker processes
  Target,       \* (draft, social account) pairs; all of one account
  Text,         \* canonical outbound texts (their hashes)
  TargetOf,     \* the pair a row publishes
  TextOf,       \* the text a row publishes
  MaxAttempts,  \* MAX_EXECUTION_ATTEMPTS (5 in the code)
  MaxCreates,   \* cap on container_create_attempts (3 in the code)
  MaxFaults,    \* bound: crashes, lost jobs, overrun leases, database errors
  NoPost, NoWorker, NoJob

ASSUME TargetAssumption == TargetOf \in [Post -> Target]
ASSUME TextAssumption == TextOf \in [Post -> Text]
ASSUME LimitAssumption ==
  MaxAttempts \in Nat \ {0} /\ MaxCreates \in Nat \ {0} /\ MaxFaults \in Nat
ASSUME NullAssumption == NoPost \notin Post /\ NoWorker \notin Worker

VARIABLES
  row,        \* scheduled_posts
  age,        \* how far past scheduled_at a row is
  dispatch,   \* scheduled_post_dispatches
  adopted,    \* published_posts: the platform post recorded for a row
  events,     \* event_outbox: POST_PUBLISHED events written for a row
  attested,   \* audit_log: rows an operator attested NOT_PUBLISHED
  jobs,       \* waiting jobs of the publish queue, per row
  wk,         \* the running job of each worker slot
  doomed,     \* rows Scan 4 has read as exhausted and is about to fail
  api,        \* progress of the scheduleDraft request that creates a row
  toEnqueue,  \* rows committed by scheduleDraft and not yet enqueued
  resolving,  \* rows whose CONFIRM_NOT_PUBLISHED pre-check has passed
  cstat,      \* platform: state of the container of a row
  inflight,   \* platform: publish requests received and not processed
  feed,       \* platform: rows whose publish request became a post
  sent,       \* platform: publish requests ever sent for a row
  faults      \* faults spent so far

rowVars      == <<row, age, adopted, events, attested>>
queueVars    == <<jobs, dispatch>>
apiVars      == <<api, toEnqueue, resolving>>
platformVars == <<cstat, inflight, feed, sent>>
vars == <<rowVars, queueVars, wk, doomed, apiVars, platformVars, faults>>

-----------------------------------------------------------------------------
(* Types *)

Active == {"SCHEDULED", "CLAIMED", "CREATING_CONTAINER", "CONTAINER_CREATED",
           "PUBLISHING", "QUOTA_BLOCKED", "FAILED_RETRYABLE", "RECOVERY_REQUIRED"}
Leased == {"CLAIMED", "CREATING_CONTAINER", "CONTAINER_CREATED", "PUBLISHING"}
Final  == {"PUBLISHED", "FAILED_PERMANENT", "EXPIRED", "CANCELLED"}
Status == Active \cup Final \cup {"NONE", "AUTH_REQUIRED"}

Row == [status : Status, attempts : 0..MaxAttempts, creates : Nat,
        container : BOOLEAN, requested : BOOLEAN, ambiguous : BOOLEAN,
        holder : Worker \cup {NoWorker}, live : BOOLEAN, due : BOOLEAN]

NewRow == [status |-> "NONE", attempts |-> 0, creates |-> 0, container |-> FALSE,
           requested |-> FALSE, ambiguous |-> FALSE, holder |-> NoWorker,
           live |-> FALSE, due |-> FALSE]

JobId == {<<"base", 0>>} \cup ({"retry", "reclaim"} \X (0..MaxAttempts))

\* Where a running process() stands; "read" is just after the claim.
Step == {"idle", "read", "gate", "container", "creating", "poll", "publish",
         "send", "await", "recover", "commit"}

\* first: the claim came from SCHEDULED with no attempt spent;
\* ambiguous: hasPublishAmbiguity; found: finalThreadsPostId.
WorkerState == [pc : Step, post : Post \cup {NoPost}, job : JobId \cup {NoJob},
                first : BOOLEAN, attempts : 0..MaxAttempts, creates : Nat,
                container : BOOLEAN, ambiguous : BOOLEAN, found : Post \cup {NoPost}]

Idle == [pc |-> "idle", post |-> NoPost, job |-> NoJob, first |-> FALSE,
         attempts |-> 0, creates |-> 0, container |-> FALSE, ambiguous |-> FALSE,
         found |-> NoPost]

\* A busy slot has its job and row, and at the commit the id of a platform post.
WellFormed(s) ==
  s.pc # "idle" =>
    s.job \in JobId /\ s.post \in Post /\ (s.pc = "commit" => s.found \in Post)

ContainerStatus == {"NONE", "IN_PROGRESS", "FINISHED", "ERROR", "EXPIRED", "PUBLISHED"}
ErrorClass == {"PERMANENT", "AUTH_REQUIRED", "RETRYABLE"}

TypeOK ==
  /\ row \in [Post -> Row]
  /\ age \in [Post -> {"due", "late", "old"}]
  /\ dispatch \in [Post -> {"NONE", "PENDING", "DISPATCHED"}]
  /\ adopted \in [Post -> Post \cup {NoPost}]
  /\ events \in [Post -> Nat]
  /\ attested \subseteq Post
  /\ jobs \in [Post -> SUBSET JobId]
  /\ wk \in [Worker -> WorkerState]
  /\ \A w \in Worker : WellFormed(wk[w])
  /\ doomed \subseteq Post
  /\ api \in [Post -> {"idle", "unpublished", "clear"}]
  /\ toEnqueue \subseteq Post /\ resolving \subseteq Post
  /\ cstat \in [Post -> ContainerStatus]
  /\ inflight \subseteq Post /\ feed \subseteq Post
  /\ sent \in [Post -> Nat]
  /\ faults \in 0..MaxFaults

Init ==
  /\ row = [p \in Post |-> NewRow]
  /\ age = [p \in Post |-> "due"]
  /\ dispatch = [p \in Post |-> "NONE"]
  /\ adopted = [p \in Post |-> NoPost]
  /\ events = [p \in Post |-> 0]
  /\ attested = {}
  /\ jobs = [p \in Post |-> {}]
  /\ wk = [w \in Worker |-> Idle]
  /\ doomed = {}
  /\ api = [p \in Post |-> "idle"]
  /\ toEnqueue = {} /\ resolving = {}
  /\ cstat = [p \in Post |-> "NONE"]
  /\ inflight = {} /\ feed = {}
  /\ sent = [p \in Post |-> 0]
  /\ faults = 0

-----------------------------------------------------------------------------
(* Rows, leases and the queue *)

Spend == faults < MaxFaults /\ faults' = faults + 1

Ambiguous(p) == row[p].requested \/ row[p].ambiguous

\* Mutant: attempt_count < 5 alone.
CountsOnly(p) == row[p].attempts < MaxAttempts

CanRetry(p) == row[p].attempts < MaxAttempts \/ Ambiguous(p)

\* WHERE attempt_id = mine AND lease_until > NOW()
Fenced(w) == row[wk[w].post].holder = w /\ row[wk[w].post].live

\* The row once a worker lets it go in status s (attempt_id, lease_until := NULL).
Released(p, s) == [row[p] EXCEPT !.status = s, !.holder = NoWorker, !.live = FALSE]

RetryLater(p, s) == [Released(p, s) EXCEPT !.due = FALSE]

Update(p, r) == row' = [row EXCEPT ![p] = r]

\* The job ends: process() returns, or throws and nothing retries it.
End(w) == wk' = [wk EXCEPT ![w] = Idle]

Goto(w, step) == wk' = [wk EXCEPT ![w].pc = step]

\* Mutant: WHERE id = ... alone.
EndUnfenced(w, r) == Update(wk[w].post, r) /\ End(w)

\* One fenced write, after which process() returns whether or not it matched.
EndWith(w, r) ==
  /\ IF Fenced(w) THEN Update(wk[w].post, r) ELSE UNCHANGED row
  /\ End(w)

\* safeEnqueue: a job id that is waiting or running is left alone.
InFlight(p, j) ==
  j \in jobs[p] \/ \E w \in Worker : wk[w].post = p /\ wk[w].job = j

Enqueue(p, j) ==
  jobs' = IF InFlight(p, j) THEN jobs ELSE [jobs EXCEPT ![p] = @ \cup {j}]

Working(w, step) == wk[w].pc = step

-----------------------------------------------------------------------------
(* PublishingProcessor.process: claim, lateness guard, quota gate *)

Claimable(p) ==
  \/ row[p].status = "SCHEDULED" /\ row[p].attempts < MaxAttempts
  \/ row[p].status = "FAILED_RETRYABLE" /\ row[p].due /\ CanRetry(p)
  \/ row[p].status = "QUOTA_BLOCKED" /\ row[p].due
  \/ row[p].status \in Leased /\ ~row[p].live /\ CanRetry(p)

Claim(w, p, j) ==
  /\ Working(w, "idle") /\ j \in jobs[p] /\ Claimable(p)
  /\ Update(p, [row[p] EXCEPT !.status = "CLAIMED", !.holder = w, !.live = TRUE])
  /\ wk' = [wk EXCEPT ![w] = [Idle EXCEPT !.pc = "read", !.post = p, !.job = j,
              !.first = row[p].status = "SCHEDULED" /\ row[p].attempts = 0]]
  /\ jobs' = [jobs EXCEPT ![p] = @ \ {j}]
  /\ UNCHANGED <<age, adopted, events, attested, dispatch, doomed, apiVars,
                 platformVars, faults>>

\* The claim matches no row: the job completes without effect.
ClaimMisses(w, p, j) ==
  /\ Working(w, "idle") /\ j \in jobs[p] /\ ~Claimable(p)
  /\ jobs' = [jobs EXCEPT ![p] = @ \ {j}]
  /\ UNCHANGED <<rowVars, dispatch, wk, doomed, apiVars, platformVars, faults>>

\* Mutant: publish_requested_at is not consulted.
IgnoresRequested(p) == row[p].ambiguous \/ row[p].status = "PUBLISHING"

\* hasPublishAmbiguity as the snapshot read after the claim shows it.
LooksAmbiguous(p) == Ambiguous(p) \/ row[p].status = "PUBLISHING"

TooLate(w) ==
  LET p == wk[w].post IN
  /\ ~LooksAmbiguous(p)
  /\ age[p] = "old" \/ (age[p] = "late" /\ wk[w].first)

OutOfAttempts(p) == ~LooksAmbiguous(p) /\ row[p].attempts >= MaxAttempts

GiveUp(w) ==
  /\ Working(w, "read") /\ (TooLate(w) \/ OutOfAttempts(wk[w].post))
  /\ EndWith(w, Released(wk[w].post, IF TooLate(w) THEN "EXPIRED" ELSE "FAILED_PERMANENT"))
  /\ UNCHANGED <<age, adopted, events, attested, queueVars, doomed, apiVars,
                 platformVars, faults>>

Begin(w) ==
  LET p == wk[w].post IN
  /\ Working(w, "read") /\ ~TooLate(w) /\ ~OutOfAttempts(p)
  /\ wk' = [wk EXCEPT ![w] = [@ EXCEPT !.pc = "gate", !.attempts = row[p].attempts,
              !.creates = row[p].creates, !.container = row[p].container,
              !.ambiguous = LooksAmbiguous(p)]]
  /\ UNCHANGED <<rowVars, queueVars, doomed, apiVars, platformVars, faults>>

QuotaBlocked(w) ==
  /\ Working(w, "gate")
  /\ EndWith(w, RetryLater(wk[w].post, "QUOTA_BLOCKED"))
  /\ UNCHANGED <<age, adopted, events, attested, queueVars, doomed, apiVars,
                 platformVars, faults>>

\* attempt_count + 1.  No guard tells counts above MaxAttempts apart (only rows
\* with publish ambiguity get there), so the count stops at MaxAttempts.
NextAttempt(n) == IF n < MaxAttempts THEN n + 1 ELSE n

\* A write that must match its row, else FencingTokenExpiredException ends the job.
FencedStep(w, r, next) ==
  IF Fenced(w)
  THEN Update(wk[w].post, r) /\ wk' = [wk EXCEPT ![w] = next]
  ELSE End(w) /\ UNCHANGED row

PassGate(w) ==
  LET p == wk[w].post IN
  /\ Working(w, "gate")
  /\ FencedStep(w, [row[p] EXCEPT !.attempts = NextAttempt(@)],
       [wk[w] EXCEPT !.attempts = NextAttempt(@),
                     !.pc = IF wk[w].container THEN "poll" ELSE "container"])
  /\ UNCHANGED <<age, adopted, events, attested, queueVars, doomed, apiVars,
                 platformVars, faults>>

-----------------------------------------------------------------------------
(* The catch block *)

\* Mutant: a permanent error is permanent, ambiguous or not.
FailsOutright(w, c) ==
  LET p == wk[w].post IN
  CASE c = "PERMANENT" -> Released(p, "FAILED_PERMANENT")
    [] c = "AUTH_REQUIRED" -> Released(p, "AUTH_REQUIRED")
    [] c = "RETRYABLE" -> RetryLater(p, "FAILED_RETRYABLE")

\* The row after an error of class c.
AfterError(w, c) ==
  LET p == wk[w].post IN
  CASE c = "PERMANENT" /\ wk[w].ambiguous -> Released(p, "RECOVERY_REQUIRED")
    [] c = "PERMANENT" /\ ~wk[w].ambiguous -> Released(p, "FAILED_PERMANENT")
    [] c = "AUTH_REQUIRED" -> Released(p, "AUTH_REQUIRED")
    [] c = "RETRYABLE" ->
         IF wk[w].attempts >= MaxAttempts /\ ~wk[w].ambiguous
         THEN Released(p, "FAILED_PERMANENT")
         ELSE RetryLater(p, "FAILED_RETRYABLE")

Catch(w, c) ==
  /\ EndWith(w, AfterError(w, c))
  /\ UNCHANGED <<age, adopted, events, attested, queueVars, doomed, apiVars, platformVars>>

\* getValidToken, getPublishingLimit or createTextContainer throws.
CallFails(w, c) ==
  /\ Working(w, "gate") \/ Working(w, "creating")
  /\ Catch(w, c) /\ UNCHANGED faults

\* getContainerStatus throws, or the container never got FINISHED in five polls
\* (a RETRYABLE error): only without ambiguity does that reach the catch block.
PollFails(w, c) ==
  /\ Working(w, "poll") /\ ~wk[w].ambiguous
  /\ Catch(w, c) /\ UNCHANGED faults

\* A database statement throws and rolls back.
DatabaseFails(w) ==
  /\ wk[w].pc \in {"container", "poll", "publish", "recover", "commit"}
  /\ Catch(w, "RETRYABLE") /\ Spend

-----------------------------------------------------------------------------
(* Container creation and polling.  Heartbeats renew a lease that is still    *)
(* live, which changes nothing here; the five polls are one nondeterministic  *)
(* step, and so are the rounds of a recovery loop.                            *)

CreatesExhausted(w) ==
  /\ Working(w, "container") /\ wk[w].creates >= MaxCreates
  /\ EndWith(w, Released(wk[w].post, "FAILED_PERMANENT"))
  /\ UNCHANGED <<age, adopted, events, attested, queueVars, doomed, apiVars,
                 platformVars, faults>>

\* Mutant: creates > 3 instead of creates >= 3.
CreatesOnceMore(w) ==
  LET p == wk[w].post IN
  /\ Working(w, "container") /\ wk[w].creates <= MaxCreates
  /\ FencedStep(w, [row[p] EXCEPT !.status = "CREATING_CONTAINER", !.creates = @ + 1],
                [wk[w] EXCEPT !.pc = "creating"])
  /\ UNCHANGED <<age, adopted, events, attested, queueVars, doomed, apiVars,
                 platformVars, faults>>

StartCreate(w) ==
  LET p == wk[w].post IN
  /\ Working(w, "container") /\ wk[w].creates < MaxCreates
  /\ FencedStep(w, [row[p] EXCEPT !.status = "CREATING_CONTAINER", !.creates = @ + 1],
                [wk[w] EXCEPT !.pc = "creating"])
  /\ UNCHANGED <<age, adopted, events, attested, queueVars, doomed, apiVars,
                 platformVars, faults>>

\* createTextContainer answers.  A container whose id is not stored is never used.
ContainerCreated(w) ==
  LET p == wk[w].post IN
  /\ Working(w, "creating")
  /\ FencedStep(w, [row[p] EXCEPT !.status = "CONTAINER_CREATED", !.container = TRUE],
                [wk[w] EXCEPT !.pc = "poll", !.container = TRUE])
  /\ cstat' = IF Fenced(w) THEN [cstat EXCEPT ![p] = "IN_PROGRESS"] ELSE cstat
  /\ UNCHANGED <<age, adopted, events, attested, queueVars, doomed, apiVars,
                 inflight, feed, sent, faults>>

PollFinished(w) ==
  /\ Working(w, "poll") /\ cstat[wk[w].post] = "FINISHED"
  /\ Goto(w, IF wk[w].ambiguous THEN "recover" ELSE "publish")
  /\ UNCHANGED <<rowVars, queueVars, doomed, apiVars, platformVars, faults>>

\* Mutant: a PUBLISHED container goes straight to the commit.
CommitsWithoutId(w) ==
  LET p == wk[w].post IN
  /\ Working(w, "poll") /\ cstat[p] = "PUBLISHED"
  /\ IF Fenced(w) THEN Update(p, [row[p] EXCEPT !.ambiguous = TRUE]) ELSE UNCHANGED row
  /\ wk' = [wk EXCEPT ![w] = [@ EXCEPT !.pc = "commit", !.ambiguous = TRUE]]
  /\ UNCHANGED <<age, adopted, events, attested, queueVars, doomed, apiVars,
                 platformVars, faults>>

\* The container is PUBLISHED already: remember the ambiguity, search the feed.
PollPublished(w) ==
  LET p == wk[w].post IN
  /\ Working(w, "poll") /\ cstat[p] = "PUBLISHED"
  /\ IF Fenced(w) THEN Update(p, [row[p] EXCEPT !.ambiguous = TRUE]) ELSE UNCHANGED row
  /\ wk' = [wk EXCEPT ![w] = [@ EXCEPT !.pc = "recover", !.ambiguous = TRUE]]
  /\ UNCHANGED <<age, adopted, events, attested, queueVars, doomed, apiVars,
                 platformVars, faults>>

\* With ambiguity, a bad, missing or late answer leads to the feed as well.
PollBypassed(w) ==
  /\ Working(w, "poll") /\ wk[w].ambiguous
  /\ Goto(w, "recover")
  /\ UNCHANGED <<rowVars, queueVars, doomed, apiVars, platformVars, faults>>

ContainerError(w) ==
  /\ Working(w, "poll") /\ ~wk[w].ambiguous /\ cstat[wk[w].post] = "ERROR"
  /\ EndWith(w, Released(wk[w].post, "FAILED_PERMANENT"))
  /\ UNCHANGED <<age, adopted, events, attested, queueVars, doomed, apiVars,
                 platformVars, faults>>

ContainerExpired(w) ==
  LET p == wk[w].post IN
  /\ Working(w, "poll") /\ ~wk[w].ambiguous /\ cstat[p] = "EXPIRED"
  /\ EndWith(w, [IF wk[w].attempts >= MaxAttempts
                 THEN Released(p, "FAILED_PERMANENT")
                 ELSE RetryLater(p, "FAILED_RETRYABLE") EXCEPT !.container = FALSE])
  /\ UNCHANGED <<age, adopted, events, attested, queueVars, doomed, apiVars,
                 platformVars, faults>>

-----------------------------------------------------------------------------
(* Publishing, recovery from the feed and the terminal commit *)

\* Mutant: hasPublishAmbiguity is not set before the call.
ForgetsAmbiguity(w) ==
  LET p == wk[w].post IN
  /\ Working(w, "publish")
  /\ FencedStep(w, [row[p] EXCEPT !.status = "PUBLISHING", !.requested = TRUE],
                [wk[w] EXCEPT !.pc = "send"])
  /\ UNCHANGED <<age, adopted, events, attested, queueVars, doomed, apiVars,
                 platformVars, faults>>

\* publish_requested_at is stored before the request is sent.
StartPublish(w) ==
  LET p == wk[w].post IN
  /\ Working(w, "publish")
  /\ FencedStep(w, [row[p] EXCEPT !.status = "PUBLISHING", !.requested = TRUE],
                [wk[w] EXCEPT !.pc = "send", !.ambiguous = TRUE])
  /\ UNCHANGED <<age, adopted, events, attested, queueVars, doomed, apiVars,
                 platformVars, faults>>

Send(w) ==
  LET p == wk[w].post IN
  /\ Working(w, "send")
  /\ sent' = [sent EXCEPT ![p] = @ + 1]
  /\ inflight' = inflight \cup {p}
  /\ Goto(w, "await")
  /\ UNCHANGED <<rowVars, queueVars, doomed, apiVars, cstat, feed, faults>>

PublishAnswers(w) ==
  LET p == wk[w].post IN
  /\ Working(w, "await") /\ p \in feed
  /\ wk' = [wk EXCEPT ![w] = [@ EXCEPT !.pc = "commit", !.found = p]]
  /\ UNCHANGED <<rowVars, queueVars, doomed, apiVars, platformVars, faults>>

\* publishContainer throws: refused, or timed out before or after it took effect.
PublishFails(w) ==
  LET p == wk[w].post IN
  /\ Working(w, "await")
  /\ IF Fenced(w) THEN Update(p, [row[p] EXCEPT !.ambiguous = TRUE]) ELSE UNCHANGED row
  /\ Goto(w, "recover")
  /\ UNCHANGED <<age, adopted, events, attested, queueVars, doomed, apiVars,
                 platformVars, faults>>

SameText(p, q) == TextOf[p] = TextOf[q]

\* recoverFromFeed sees exactly one post with the row's hash within the window.
\* Which of the matching posts it sees (lag, paging, window) is open.
FoundInFeed(w, q) ==
  /\ Working(w, "recover") /\ q \in feed /\ SameText(wk[w].post, q)
  /\ wk' = [wk EXCEPT ![w] = [@ EXCEPT !.pc = "commit", !.found = q]]
  /\ UNCHANGED <<rowVars, queueVars, doomed, apiVars, platformVars, faults>>

\* No match before the deadline, or several (AMBIGUOUS_FEED_MATCH).
Quarantine(w) ==
  /\ Working(w, "recover")
  /\ EndWith(w, Released(wk[w].post, "RECOVERY_REQUIRED"))
  /\ UNCHANGED <<age, adopted, events, attested, queueVars, doomed, apiVars,
                 platformVars, faults>>

\* published_posts is unique per (account, threads_post_id) and (draft, account).
Recordable(p, q) ==
  \A r \in Post : adopted[r] # NoPost =>
    adopted[r] # q /\ TargetOf[r] # TargetOf[p]

Record(p, q) ==
  /\ Update(p, Released(p, "PUBLISHED"))
  /\ adopted' = [adopted EXCEPT ![p] = q]
  /\ events' = [events EXCEPT ![p] = @ + 1]

\* Mutant: published_posts is upserted.
CommitUpserts(w) ==
  LET p == wk[w].post IN
  /\ Working(w, "commit")
  /\ IF Fenced(w) THEN Record(p, wk[w].found) ELSE UNCHANGED <<row, adopted, events>>
  /\ End(w)
  /\ UNCHANGED <<age, attested, queueVars, doomed, apiVars, platformVars, faults>>

\* Mutant: the terminal update is not fenced.
CommitUnfenced(w) ==
  LET p == wk[w].post IN
  /\ Working(w, "commit") /\ Recordable(p, wk[w].found)
  /\ Record(p, wk[w].found)
  /\ End(w)
  /\ UNCHANGED <<age, attested, queueVars, doomed, apiVars, platformVars, faults>>

Commit(w) ==
  LET p == wk[w].post IN
  /\ Working(w, "commit")
  /\ IF Fenced(w)
     THEN Recordable(p, wk[w].found) /\ Record(p, wk[w].found)
     ELSE UNCHANGED <<row, adopted, events>>
  /\ End(w)
  /\ UNCHANGED <<age, attested, queueVars, doomed, apiVars, platformVars, faults>>

\* The unique index refuses published_posts' row: the transaction rolls back.
CommitRefused(w) ==
  /\ Working(w, "commit") /\ Fenced(w) /\ ~Recordable(wk[w].post, wk[w].found)
  /\ Catch(w, "RETRYABLE") /\ UNCHANGED faults

-----------------------------------------------------------------------------
(* Crashes, time and the platform *)

\* The worker's process dies, or process() throws past its catch block.  BullMQ
\* hands a stalled job out again, or fails it.
Crash(w) ==
  LET p == wk[w].post IN
  /\ ~Working(w, "idle") /\ Spend /\ End(w)
  /\ \/ jobs' = [jobs EXCEPT ![p] = @ \cup {wk[w].job}]
     \/ UNCHANGED jobs
  /\ UNCHANGED <<rowVars, dispatch, doomed, apiVars, platformVars>>

\* Redis loses a waiting job.
LoseJob(p, j) ==
  /\ j \in jobs[p] /\ Spend
  /\ jobs' = [jobs EXCEPT ![p] = @ \ {j}]
  /\ UNCHANGED <<rowVars, dispatch, wk, doomed, apiVars, platformVars>>

\* lease_until passes.  For a worker still at work on the row that is a fault.
LeaseRunsOut(p) ==
  /\ row[p].live
  /\ IF \E w \in Worker : row[p].holder = w /\ wk[w].post = p
     THEN Spend ELSE UNCHANGED faults
  /\ Update(p, [row[p] EXCEPT !.live = FALSE])
  /\ UNCHANGED <<age, adopted, events, attested, queueVars, wk, doomed, apiVars,
                 platformVars>>

\* next_retry_at passes.
RetryDue(p) ==
  /\ row[p].status \in {"FAILED_RETRYABLE", "QUOTA_BLOCKED"} /\ ~row[p].due
  /\ Update(p, [row[p] EXCEPT !.due = TRUE])
  /\ UNCHANGED <<age, adopted, events, attested, queueVars, wk, doomed, apiVars,
                 platformVars, faults>>

\* Fifteen minutes, then 24 hours past scheduled_at.
Age(p) ==
  /\ row[p].status \in Active /\ age[p] # "old"
  /\ age' = [age EXCEPT ![p] = IF @ = "due" THEN "late" ELSE "old"]
  /\ UNCHANGED <<row, adopted, events, attested, queueVars, wk, doomed, apiVars,
                 platformVars, faults>>

ContainerMoves(p, s) ==
  /\ \/ cstat[p] = "IN_PROGRESS" /\ s \in {"FINISHED", "ERROR", "EXPIRED"}
     \/ cstat[p] = "FINISHED" /\ s = "EXPIRED"
  /\ cstat' = [cstat EXCEPT ![p] = s]
  /\ UNCHANGED <<rowVars, queueVars, wk, doomed, apiVars, inflight, feed, sent, faults>>

\* The platform carries out a publish request, at any time after it was sent.
Land(p) ==
  /\ p \in inflight /\ cstat[p] \in {"FINISHED", "PUBLISHED"}
  /\ inflight' = inflight \ {p} /\ feed' = feed \cup {p}
  /\ cstat' = [cstat EXCEPT ![p] = "PUBLISHED"]
  /\ UNCHANGED <<rowVars, queueVars, wk, doomed, apiVars, sent, faults>>

Refuse(p) ==
  /\ p \in inflight
  /\ inflight' = inflight \ {p}
  /\ UNCHANGED <<rowVars, queueVars, wk, doomed, apiVars, cstat, feed, sent, faults>>

-----------------------------------------------------------------------------
(* PublishingReconciliationService, scans 1 to 4 *)

\* Scan 1: a dispatch still PENDING.  Its second write may be lost to a crash.
ScanDispatch(p) ==
  /\ dispatch[p] = "PENDING"
  /\ Enqueue(p, <<"base", 0>>)
  /\ \/ dispatch' = [dispatch EXCEPT ![p] = "DISPATCHED"] /\ UNCHANGED faults
     \/ Spend /\ UNCHANGED dispatch
  /\ UNCHANGED <<rowVars, wk, doomed, apiVars, platformVars>>

ScanJob(p, j) ==
  /\ Enqueue(p, j)
  /\ UNCHANGED <<rowVars, dispatch, wk, doomed, apiVars, platformVars, faults>>

\* Scan 2: a SCHEDULED row that is due.
ScanScheduled(p) == row[p].status = "SCHEDULED" /\ ScanJob(p, <<"base", 0>>)

\* Scan 3: a retry or quota check that is due.
ScanRetry(p) ==
  /\ row[p].due
  /\ row[p].status = "QUOTA_BLOCKED" \/ (row[p].status = "FAILED_RETRYABLE" /\ CanRetry(p))
  /\ ScanJob(p, <<"retry", row[p].attempts>>)

\* Scan 4 reads a stale lease: enqueue a recovery job, or fail the row by a
\* write of its own that checks the lease and the status again.
Stale(p) == row[p].status \in Leased /\ ~row[p].live

StaleExhausted(p) == row[p].attempts >= MaxAttempts /\ ~LooksAmbiguous(p)

ScanStale(p) ==
  /\ Stale(p) /\ ~StaleExhausted(p)
  /\ ScanJob(p, <<"reclaim", row[p].attempts>>)

ScanExhausted(p) ==
  /\ Stale(p) /\ StaleExhausted(p)
  /\ doomed' = doomed \cup {p}
  /\ UNCHANGED <<rowVars, queueVars, wk, apiVars, platformVars, faults>>

FailStale(p) ==
  /\ p \in doomed
  /\ doomed' = doomed \ {p}
  /\ IF Stale(p) THEN Update(p, Released(p, "FAILED_PERMANENT")) ELSE UNCHANGED row
  /\ UNCHANGED <<age, adopted, events, attested, queueVars, wk, apiVars,
                 platformVars, faults>>

-----------------------------------------------------------------------------
(* ContentService: scheduleDraft, cancelSchedule, resolveSchedule *)

RowsOf(t) == {p \in Post : TargetOf[p] = t}

\* Mutant: a row under recovery does not hold its draft.
RecoveryIsFree(t) ==
  \E p \in RowsOf(t) : row[p].status \in Active \ {"RECOVERY_REQUIRED"}

HasActive(t) == \E p \in RowsOf(t) : row[p].status \in Active

\* The request that would insert row p looks for a published_posts row, then for an
\* active schedule, then inserts under the partial unique index
\* idx_scheduled_posts_active_draft.
CheckPublished(p) ==
  /\ api[p] = "idle" /\ row[p].status = "NONE"
  /\ \A q \in RowsOf(TargetOf[p]) : adopted[q] = NoPost
  /\ api' = [api EXCEPT ![p] = "unpublished"]
  /\ UNCHANGED <<rowVars, queueVars, wk, doomed, toEnqueue, resolving, platformVars,
                 faults>>

CheckActive(p) ==
  /\ api[p] = "unpublished"
  /\ api' = [api EXCEPT ![p] = IF HasActive(TargetOf[p]) THEN "idle" ELSE "clear"]
  /\ UNCHANGED <<rowVars, queueVars, wk, doomed, toEnqueue, resolving, platformVars,
                 faults>>

Schedule(p) ==
  /\ api[p] = "clear" /\ row[p].status = "NONE" /\ ~HasActive(TargetOf[p])
  /\ Update(p, [NewRow EXCEPT !.status = "SCHEDULED"])
  /\ dispatch' = [dispatch EXCEPT ![p] = "PENDING"]
  /\ toEnqueue' = toEnqueue \cup {p}
  /\ api' = [api EXCEPT ![p] = "idle"]
  /\ UNCHANGED <<age, adopted, events, attested, jobs, wk, doomed, resolving,
                 platformVars, faults>>

\* P2002: another request's row came first.
ScheduleRefused(p) ==
  /\ api[p] = "clear" /\ HasActive(TargetOf[p])
  /\ api' = [api EXCEPT ![p] = "idle"]
  /\ UNCHANGED <<rowVars, queueVars, wk, doomed, toEnqueue, resolving, platformVars,
                 faults>>

\* After the commit: add the job, mark the dispatch; either call may fail.
DispatchNow(p) ==
  /\ p \in toEnqueue
  /\ toEnqueue' = toEnqueue \ {p}
  /\ \/ Enqueue(p, <<"base", 0>>) /\ dispatch' = [dispatch EXCEPT ![p] = "DISPATCHED"]
     \/ Enqueue(p, <<"base", 0>>) /\ UNCHANGED dispatch
     \/ UNCHANGED <<jobs, dispatch>>
  /\ UNCHANGED <<rowVars, wk, doomed, api, resolving, platformVars, faults>>

\* The row's jobs are removed one by one; a removal that fails is skipped.
Cancel(p) ==
  /\ row[p].status \in {"SCHEDULED", "QUOTA_BLOCKED", "FAILED_RETRYABLE", "AUTH_REQUIRED"}
  /\ ~Ambiguous(p)
  /\ Update(p, [row[p] EXCEPT !.status = "CANCELLED"])
  /\ \E kept \in SUBSET jobs[p] : jobs' = [jobs EXCEPT ![p] = kept]
  /\ UNCHANGED <<age, adopted, events, attested, dispatch, wk, doomed, apiVars,
                 platformVars, faults>>

\* CONFIRM_NOT_PUBLISHED asks the platform first, then cancels by compare-and-set.
CheckUnpublished(p) ==
  /\ row[p].status = "RECOVERY_REQUIRED"
  /\ row[p].container => cstat[p] \in {"FINISHED", "ERROR", "EXPIRED"}
  /\ resolving' = resolving \cup {p}
  /\ UNCHANGED <<rowVars, queueVars, wk, doomed, api, toEnqueue, platformVars, faults>>

ConfirmNotPublished(p) ==
  /\ p \in resolving
  /\ resolving' = resolving \ {p}
  /\ IF row[p].status = "RECOVERY_REQUIRED"
     THEN /\ Update(p, [row[p] EXCEPT !.status = "CANCELLED"])
          /\ attested' = attested \cup {p}
     ELSE UNCHANGED <<row, attested>>
  /\ UNCHANGED <<age, adopted, events, queueVars, wk, doomed, api, toEnqueue,
                 platformVars, faults>>

\* CONFIRM_PUBLISHED names a post the platform shows with the row's text.
ConfirmPublished(p, q) ==
  /\ row[p].status = "RECOVERY_REQUIRED"
  /\ q \in feed /\ SameText(p, q) /\ Recordable(p, q)
  /\ Record(p, q)
  /\ UNCHANGED <<age, attested, queueVars, wk, doomed, apiVars, platformVars, faults>>

-----------------------------------------------------------------------------
(* The system *)

WorkerStep(w) ==
  \/ \E p \in Post, j \in JobId : Claim(w, p, j) \/ ClaimMisses(w, p, j)
  \/ GiveUp(w) \/ Begin(w) \/ QuotaBlocked(w) \/ PassGate(w)
  \/ CreatesExhausted(w) \/ StartCreate(w) \/ ContainerCreated(w)
  \/ PollFinished(w) \/ PollPublished(w) \/ PollBypassed(w)
  \/ ContainerError(w) \/ ContainerExpired(w)
  \/ StartPublish(w) \/ Send(w) \/ PublishAnswers(w) \/ PublishFails(w)
  \/ \E q \in Post : FoundInFeed(w, q)
  \/ Quarantine(w) \/ Commit(w) \/ CommitRefused(w)
  \/ \E c \in ErrorClass : CallFails(w, c) \/ PollFails(w, c)

Fault ==
  \/ \E w \in Worker : Crash(w) \/ DatabaseFails(w)
  \/ \E p \in Post, j \in JobId : LoseJob(p, j)

Clock(p) == LeaseRunsOut(p) \/ RetryDue(p) \/ Age(p)

Platform(p) ==
  (\E s \in ContainerStatus : ContainerMoves(p, s)) \/ Land(p) \/ Refuse(p)

Reconcile(p) ==
  \/ ScanDispatch(p) \/ ScanScheduled(p) \/ ScanRetry(p)
  \/ ScanStale(p) \/ ScanExhausted(p) \/ FailStale(p)

Request ==
  \E p \in Post :
    \/ CheckPublished(p) \/ CheckActive(p) \/ Schedule(p) \/ ScheduleRefused(p)
    \/ DispatchNow(p) \/ Cancel(p) \/ CheckUnpublished(p) \/ ConfirmNotPublished(p)
    \/ \E q \in Post : ConfirmPublished(p, q)

Next ==
  \/ \E w \in Worker : WorkerStep(w)
  \/ Fault
  \/ \E p \in Post : Clock(p) \/ Platform(p) \/ Reconcile(p)
  \/ Request

Spec == Init /\ [][Next]_vars

\* Nobody works for the row's holder any more: it crashed, or gave up elsewhere.
Orphaned(p) == ~ \E w \in Worker : row[p].holder = w /\ wk[w].post = p

\* Workers run, clocks advance and the leader scans once a minute; the token and
\* quota calls do not fail for ever.  Requests, faults and the platform owe nothing.
Fairness ==
  /\ \A w \in Worker : WF_vars(WorkerStep(w)) /\ SF_vars(PassGate(w))
  /\ \A p \in Post :
       /\ WF_vars(Orphaned(p) /\ LeaseRunsOut(p)) /\ WF_vars(RetryDue(p))
       /\ WF_vars(ScanScheduled(p)) /\ WF_vars(ScanRetry(p)) /\ WF_vars(ScanStale(p))
       /\ WF_vars(ScanExhausted(p)) /\ WF_vars(FailStale(p))

FairSpec == Spec /\ Fairness

-----------------------------------------------------------------------------
(* Safety properties *)

\* A publish request is sent at most once for a scheduled post, whatever crashes,
\* overrun leases, retries and duplicate jobs occur between the two phases
\* (README: two-phase publishing; FRD NFR-002: zero duplicate posts).
PublishAtMostOnce == \A p \in Post : sent[p] <= 1

\* Once a row may have reached the platform, its container is kept (a retry never
\* creates a second one) and it is never expired, failed or cancelled behind the
\* operator's back: only CONFIRM_NOT_PUBLISHED cancels it.
AmbiguityKept ==
  \A p \in Post : Ambiguous(p) =>
    /\ row[p].container
    /\ row[p].status \notin {"NONE", "SCHEDULED", "CREATING_CONTAINER", "EXPIRED",
                             "FAILED_PERMANENT"}
    /\ row[p].status = "CANCELLED" => p \in attested

\* A row is PUBLISHED exactly when one platform post is recorded for it and one
\* POST_PUBLISHED event is written, that post exists, carries the row's text, and
\* is recorded for no other row.
PublishedIsRecorded ==
  \A p \in Post :
    /\ (row[p].status = "PUBLISHED") <=> (adopted[p] # NoPost)
    /\ events[p] = IF row[p].status = "PUBLISHED" THEN 1 ELSE 0
    /\ adopted[p] # NoPost =>
         /\ adopted[p] \in feed /\ SameText(p, adopted[p])
         /\ \A r \in Post : adopted[r] = adopted[p] => r = p

\* Two rows of one draft and account both reach the platform only where the
\* active-schedule rule lets go of the first: it is PUBLISHED (the checks of
\* scheduleDraft raced with its commit), AUTH_REQUIRED, or attested unpublished.
RepublishOnlyIfReleased ==
  \A p, q \in Post :
    p # q /\ TargetOf[p] = TargetOf[q] /\ sent[p] > 0 /\ sent[q] > 0 =>
      \E r \in {p, q} : row[r].status \in {"PUBLISHED", "AUTH_REQUIRED"} \/ r \in attested

\* The lease decides: of the workers on a row, only the holder of a live lease
\* sees the row as it is, so what it decided on its snapshot is still right.
SnapshotCurrent ==
  \A w \in Worker : wk[w].pc \notin {"idle", "read"} /\ Fenced(w) =>
    LET p == wk[w].post IN
    /\ row[p].container = wk[w].container
    /\ Ambiguous(p) => wk[w].ambiguous

\* At most three containers are ever requested for a row, although every attempt
\* checks the count on the snapshot it took after its claim.
CreatesCapped == \A p \in Post : row[p].creates <= MaxCreates

\* PUBLISHED, FAILED_PERMANENT, EXPIRED and CANCELLED are left by no step.
FinalIsFinal ==
  [][\A p \in Post : row[p].status \in Final => row'[p].status = row[p].status]_vars

\* What a row looks like without workers, leases and retries.
Phase(p) ==
  CASE row[p].status = "NONE" -> "none"
    [] row[p].status = "PUBLISHED" -> "published"
    [] row[p].status \in Final \ {"PUBLISHED"} ->
         IF p \in attested THEN "attested" ELSE "closed"
    [] OTHER -> "open"

Once == INSTANCE PublishOnce WITH
  phase <- [p \in Post |-> Phase(p)],
  asked <- {p \in Post : row[p].requested},
  requests <- sent, posts <- feed, record <- adopted

\* The pipeline implements PublishOnce: one request per row, which is remembered
\* before it is sent, and a row that asked is closed only with its post's record or
\* an operator's attestation (README: two-phase publishing; FRD FR-019).
RefinesPublishOnce == Once!Spec

\* A scheduled post that is not waiting for the operator does not stay open for
\* ever: whatever crashed or was lost, the reconciler's scans bring it to a final
\* status, to a reconnect request or to the operator.
Settles ==
  \A p \in Post :
    row[p].status \in Active \ {"RECOVERY_REQUIRED"} ~>
      row[p].status \in Final \cup {"AUTH_REQUIRED", "RECOVERY_REQUIRED"}

-----------------------------------------------------------------------------
(* What the documentation says of the system and the code does not do *)

Duplicated(p, q) == p # q /\ TargetOf[p] = TargetOf[q] /\ {p, q} \subseteq feed

\* Zero duplicate Threads posts (README: two-phase publishing; FRD NFR-002): no draft
\* appears twice on an account unless an operator attested that it did not appear.
ZeroDuplicates == \A p, q \in Post : Duplicated(p, q) => attested \cap {p, q} # {}

=============================================================================
