# ThreadPilot in TLA+

ThreadPilot drafts, schedules, publishes and analyses posts on Threads for a
user, partly on its own.  It is a NestJS API, a NestJS worker process with BullMQ
queues on Redis, a PostgreSQL database reached through Prisma, and a Next.js
front end.  This directory holds TLA+ models of its concurrent core, the TLC
configurations that check them and TLAPS proofs of what matters most.

## The system

| component | state | operations | talks to |
|---|---|---|---|
| scheduling API (`apps/api/src/content/content.service.ts`) | `scheduled_posts`, `scheduled_post_dispatches`, `audit_log` | `scheduleDraft`, `cancelSchedule`, `resolveSchedule` | publish queue, Threads (pre-checks) |
| publishing worker (`apps/worker/src/processors/publishing.processor.ts`) | `scheduled_posts` under a lease, `published_posts`, `event_outbox` | `process` | Threads: container, status, publish, feed |
| publishing reconciler (`publishing-reconciliation.service.ts`) | Redis leader lease | six scans a minute | publish queue, `scheduled_posts`, `event_outbox` |
| event outbox (`event-outbox.processor.ts`) | `event_outbox` leases | `processBatch` | notifications, rules queue, reply queue |
| reply publishing (`reply-publish.processor.ts`, `engagement-reconciliation.service.ts`) | `reply_executions`, `interactions` | `process`, scans 0 to 6 | reply queue, Threads |
| engagement API and drafting (`engagement.service.ts`, `engagement-ingest`, `-classify`, `reply-draft.processor.ts`) | `interactions`, `engagement_sync_states`, `reply_drafts` | sync, classify, draft, edit, approve, dismiss, resolve | reply publishing through the outbox |
| observations (`analytics-sync.processor.ts`, `expired-observation-sweeper.service.ts`, `analytics-outbox*.ts`) | `analytics_observations` under a lease, `post_metrics`, `analytics_outbox_events` | schedule, claim, capture, retry, sweep, dispatch | Threads insights, aggregation |
| aggregation, learning, recommendations (`analytics-aggregate`, `-insights`, `-learning.processor.ts`, `recommendation-engine.service.ts`, `analytics.service.ts`) | `analytics_sync_states`, `performance_aggregates`, learned profile, `recommendation_exposures` | aggregate a slot, learn, generate, accept, dismiss, publish, evaluate | the analytics outbox |
| autonomous operator (`autonomous-operator.service.ts`, `governance-reconciliation.service.ts`) | account lease, run, candidate, weekly quota | planning cycle, kill switch | `scheduled_posts`, safety gate |
| rules and proposals (`rules-engine.service.ts`, `governance.service.ts`) | `rule_execution_logs`, budgets, `rule_action_executions`, proposals | trigger, act, apply, reject | event outbox, learned profile |
| authentication | `refresh_tokens` | login, rotate, revoke | front end |
| Threads client and tokens | `oauth_tokens`, Redis refresh lock | `getValidToken`, `refresh` | every component that calls Threads |
| experiments | experiment tables | statistics over metrics | analytics |
| ingestion, style, embeddings; AI agents; web | imported posts, vectors, prompts, pages | pipelines | external models |

What is hard in it: the platform publishes at some moment the caller cannot see
(requests time out and are carried out afterwards, the feed lags); workers die or
stall while they hold a row; Redis loses jobs and BullMQ runs some twice; the
reconciler, the worker, the API and the operator write the same rows.  What makes
the components correct:

- publishing: at most one publish request per scheduled post; a row that may be
  on the platform is never silently closed or started over; a published row is
  recorded once, with its own post; a final status is final; no row is stuck;
- scheduling: one active schedule per draft and account, no draft twice on one
  account;
- event outbox: every event handled at least once, effects idempotent;
- reply publishing: nobody but Scan 4 records a reply as sent that is not; a container on
  record is used, not requested anew; an execution does not stay under way for ever;
- inbox: no comment is passed over, the account never answers itself, a comment with a
  job is classified unless a failed job or Scan 1 strands it;
- observations: metrics are stored once and exactly for a capture; a retry is on its way
  while the window is open, but for two ways to lose it; every observation ends;
- aggregation: no capture and no revision is forgotten, nothing derived comes from an
  outdated profile, the budget of pending recommendations holds;
- operator and rules: quotas and budgets are charged for what happened, a pause disarms, an
  execution's actions happen in order and once, without a gap but at an error taken for a
  repetition; a proposal is applied only while the profile has the version it was made from;
- authentication: a refresh token has one successor; reuse revokes the family.

## Modules

| module | what it is |
|---|---|
| `Publishing` | scheduled posts from `scheduleDraft` to their final status: worker, reconciler scans 1 to 4, scheduling requests, queue, platform, crashes and clocks |
| `PublishOnce` | what publishing promises for one row: ask once, remember that before asking, close an asked row only with its post's record or the operator's attestation |
| `MCPublishing` | drafts and texts of the instances, symmetry, a view |
| `PublishingProofs` | theorems about `Publishing`: types, snapshots, at most one request |
| `PublishingRowProofs` | theorems about what a row keeps (ambiguity, the container cap, a final status) and what it says of the platform (recorded posts, drafts scheduled again, the refinement of `PublishOnce`) |
| `EventOutbox` | rows of `event_outbox`, the polling processors, the publishing reconciler's Scan 6 and the engagement reconciler's Scan 0 |
| `EventDelivery` | what the outbox promises for one event: done only after its effect and for good, given up only after the last attempt |
| `MCEventOutbox` | symmetry of the instances |
| `EventOutboxProofs` | theorems about `EventOutbox`: types, leases, the refinement of `EventDelivery` |
| `Replies`, `MCReplies` | the reply to one interaction: drafts, approvals, executions, the publisher, scans 2 to 4, the platform; symmetry and a view |
| `RepliesProofs` | theorems about `Replies`: types, no false success, the container used again |
| `Inbox`, `MCInbox` | the comments under one post: syncs with their lease and watermark, classification, scans 1 and 5 |
| `InboxProofs` | theorems about `Inbox`: types, the watermark, no answer to oneself |
| `Observations`, `MCObservations` | a post's observations: outbox, attempts with leases and heartbeats, the sweeper |
| `ObservationsProofs` | theorems about `Observations`: types, one capture, the table of transitions, the retry on its way |
| `Aggregation`, `MCAggregation` | what follows a capture: aggregates, revisions, the learned profile, recommendations and what people do with them; symmetry and a view |
| `AggregationProofs` | theorems about `Aggregation`: all of the run's properties |
| `Operator` | planning cycles, their lease, the kill switch, the quota, people's schedules beside them |
| `Rules` | one rule's executions, budgets and actions, and the proposals it files |
| `MCGovernance` | instances of `Operator` and `Rules` for one run; symmetry and a view |
| `GovernanceProofs` | theorems about `Operator`, `Rules` and both together: all of the run's properties |

### How `Publishing` corresponds to the code

- `row` is `scheduled_posts`.  `container` and `requested`, `ambiguous` say that
  `container_id`, `publish_requested_at`, `ambiguity_detected_at` are not null;
  `due` is `next_retry_at <= NOW()`; `live` is `lease_until > NOW()`; `holder` is
  `attempt_id`, a fresh UUID per claim for which the job slot that drew it stands.
- `wk` holds, for each job slot, where its `process()` stands and the locals it
  decides on (`attemptCount`, `containerCreateAttempts`, `containerId`,
  `hasPublishAmbiguity`, `finalThreadsPostId`): the snapshot it read after the
  claim, not the row.
- One action is the code between two points where other actors can act: a claim, a
  fenced write, the answer of a platform call.  `EndWith` is a fenced write after
  which the job ends whether it matched or not, `FencedStep` one that throws
  `FencingTokenExpiredException` when it does not match.  `Catch` is the catch block.
- `jobs` are BullMQ's waiting jobs under their deterministic ids
  (`publish-<id>`, `-retry-<n>`, `-reclaim-<n>`); `Enqueue` is `safeEnqueue`.
- `cstat`, `inflight`, `feed`, `sent` are the platform: the container's state,
  requests sent but not carried out, posts that exist, and how often a request was
  sent.  A request may be carried out or refused at any time after it was sent, the
  worker may get the answer or an error independently, and a feed search may or may
  not see a post that exists.
- `api`, `toEnqueue` and `resolving` keep a request's place between its database
  statements: `scheduleDraft`'s two checks, its commit and its enqueue, and
  `resolveSchedule`'s pre-check and its compare-and-set.

Abstractions.  The container's identity is dropped: only a stored container is ever
used.  Heartbeats renew a live lease and change nothing here; five polls are one
nondeterministic step, and so are the rounds of a recovery loop.  `attempt_count`
stops at `MaxAttempts`, above which no guard tells counts apart.  Reading the row
after the claim and the lateness guard are one step.  The second test of the attempt
cap (processor, lines 268 to 284) cannot fire after the first and is left out, like a
failing database write of the lateness guard.  The delay until `scheduled_at` is not
modelled: a row's age starts at "due".  There is one social account.  Texts are
opaque; two rows may share one.  Notifications, audit rows other than the operator's
attestation, observation scheduling and the draft's ARCHIVED status are written by
the modelled transactions but are not state of the model.

Bounds of `Publishing`.  `MaxFaults` caps crashes, lost jobs, database errors and leases that run out
under a live worker; a lease whose worker is gone runs out for free.  `MaxAttempts`
and `MaxCreates` are 5 and 3 in the code.

### How `EventOutbox` corresponds to the code

- `status`, `attempts` and `live` are the columns `status`, `attempt_count` and
  `lease_until > NOW()`.  Every claim draws a fresh `lease_token` and adds one to
  `attempt_count`, so the count at the claim stands for the token, and `Claimed(c)` for
  `status = 'PROCESSING' AND lease_token = mine`.
- `proc` is the `processBatch()` a worker process runs (one at a time, `isRunning`): the
  claimed events the loop has not reached, the one in hand, and whether it is about to be
  marked PROCESSED or is in the catch block.  PostgreSQL returns the claimed rows in any
  order, so the loop takes any of them.
- `ClaimBatch` is the claiming statement.  `FOR UPDATE SKIP LOCKED` passes over rows a scan
  is just writing (`MaybeLocked`); two claims at once are as good as one after the other.
- `Handle` and `HandlerThrows` are the two handlers.  `delivered` says that the notification
  exists or the reply job was added; both are idempotent by their key while it exists.
  `triggered` says that the rule job was added, whose failure the handler swallows.
- `MarkThrows`, `Catch` and `Abandon` are the error paths: a failing write is carried out or
  not, and one in the catch block ends the whole batch.
- `stale` are rows Scan 6 has read and not yet written, `pending` and `queued` those of
  Scan 0; `Scan6Stops`, `Scan0Stops` are errors, crashes and lost leader leases.

Abstractions.  Event types other than the two that the code emits are left out, and with them
the branch that gives such an event up at once.  Scan 0 reads only events older than 15
seconds, and an event may have any age.  What becomes of an added job belongs to reply publishing.
Nothing bounds crashes and errors here: every claim spends one of `MaxAttempts` attempts.

### How `Replies` corresponds to the code

One interaction, with every draft version, approval and execution it gets.

- `inter`, `latest`, `approved` are the interaction's status and the draft's versions;
  `draft` is a draft request with its job, from the API's trigger to the safety verdict.
- `ex` is `reply_executions`: `attempts` and `publishes` are its two counters, `unsure` is
  `ambiguity_type`, `deadline` says that `recovery_deadline_at` has passed, `resolution` is
  what a scan or the operator found out.  `holder` and `live` are the lease, as in
  `Publishing`.
- `wk` is where a worker's `process()` stands; its writes are fenced by the lease token where
  the code's are, and by id alone where they are not.
- `jobs` and `failed` are BullMQ's job `reply-publish-<id>`, waiting or failed: a failed job
  keeps its id, so that adding it again does nothing.
- `leader` is a reconciliation round: the rows a scan has read and not yet written.
- `resolving` is an operator's answer between the API's status check and its write.
- `inflight` and `posts` are the platform's side of a publish request; `others` are the
  account's other posts that happen to have the text of a version: older ones, ordinary ones,
  replies to other interactions.  Scan 4 compares texts only (`Matches`), and sees of the
  matching posts whichever are among the last ten listed (`Feed`).

### How `Inbox` corresponds to the code

- A comment is its timestamp, and the platform lists comments in that order.  `row` is the
  post's `engagement_sync_states`: `seen` the watermark, `cursor` the page cursor.
- `syncer` is one `syncRootPost`: it reads the row *before* it takes the lease, works through
  pages, and writes watermark and cursor with what it read then.
- `classifier` is a classify job: start, model call, the status, the draft job, and then, as a
  step of BullMQ's own, the completion that frees its id.
- `stale` and `clearing` are rows scans 1 and 5 have read and not yet written; `resetting` is
  the comment to which Scan 1 has given back NEW and for which it has not yet added a job.
- `Draft` is a draft job from its start to the verdict, `DraftFails` one that throws; its failed
  id (`draftFailed`) blocks the next.
- `stranded` is a history variable: comments Scan 1 has left in NEW with no job, because it found
  the id of the job that had just decided (`EnqueueStale`) or died before the add (`ScanThrows`).
- `Overlap` is how far a sync reads back behind the watermark: 120 seconds in the code.

### How `Observations` corresponds to the code

- `obs` is `analytics_observations`; `open` says that the window has not closed.  `metrics`
  counts `post_metrics` rows as if they were not unique, `generation` is the sync state's.
- `due`, `sending`, `given`, `sent` are the four statuses of an outbox event, which is its
  dedupe key: the slot's first event, or a retry's with the attempt it was made for.
- `worker` is an attempt from its claim over the platform's answer to its outcome; `found` is
  what a sweep has read as abandoned and not yet recovered.
- The FSM of `observation-fsm.service.ts` is not called by any of this SQL.  It is the property
  `TransitionsValid`.
- `lost` is a history variable: observations that go on waiting with nothing on the way, because
  of one of two steps, until the next claim.
  `ClaimFails`: the claiming UPDATE (`analytics-sync.processor.ts:122`) is outside the try block and
  the job has one attempt (`analytics-outbox.service.ts:70`), so that an error there leaves the
  event COMPLETED, the job failed and the row as it was.
  `Recover` under a key that is taken: two sweepers read a row abandoned after attempt k, the
  first recovers it, the retry is claimed and abandoned, and the second's update, which asks only
  whether the row is abandoned now, takes it while the event `recovered_<k+1>` exists.
  In both cases the row waits until its window closes.

### How `Aggregation` corresponds to the code

- `gen`, `rev` are `ingestion_generation` and `analytics_revision`; `captured[s]` is the
  generation of slot s's last capture, `aggregated[s]` the one its aggregates have seen, and
  `stamped` which revision was made for which slot.
- `Acquire` is the try-lock on the account: a run that does not get it fails.  `Query` and
  `CommitAggregates` are the transaction's reads and its end, which makes the next revision.
- `profile` is the revision the learned profile was computed at.  `Generate`, `Count` and
  `Store` are the recommendation job up to its transaction, the count under the row lock
  (`RowLocked`) and the insert.
- `call` is an API call, or a transaction of the publisher or the learner, between reading an
  exposure's status and writing it by id.
- `events` and `jobs`: an event is written with its job.  How one becomes the other is in
  `Observations`; here a job may wait as long as that takes.  `failed` are jobs that failed:
  the queue gives each one attempt, and its event is not written again.

### How `Operator` and `Rules` correspond to the code

- A cycle of `Operator` is one job: its lease token, its run row and its candidate row.
  `cycle` is where `runPlanningCycle` stands and the level, draft and slot it has read.
  `ReserveQuota` and `CommitSchedule` are the two halves of the scheduling transaction, between
  which it holds the lock on the week's quota row; either unique index undoes it.
- `pausing` is a pause request between its two statements: the lease is deleted, the level not
  yet PAUSED.
- `post` is `scheduled_posts` by who made it.  `PostMoves` is whatever publishing does with
  it (`Publishing` has the steps), `HumanSchedules` is `scheduleDraft` in one step.
- `QuarterPasses`: a run's start blocks the next for 15 minutes, more than its lease lasts.
- An execution of `Rules` is a trigger within a day, the unique key of its log row.  A runner is
  one attempt at a job and stands for its lease token.  `done` is `rule_action_executions`; an
  action and its row are one transaction.
- `ErrorPassedOver` is the catch block for an error whose message has the word "unique" though
  the action is not done: its transaction is undone and the next action tried.  The client's
  message names the call that failed (`findUnique`) and, where arguments do not validate, shows
  them, among them texts people wrote; so it needs no fault of the model's.  The history variable
  `passed` keeps the actions given up so.
- `AutoScheduleFails`: an AUTO_SCHEDULE with a draft never succeeds; it fails the log here or is
  passed over.  Only POST_PUBLISHED
  triggers carry a draft (`event-outbox.processor.ts:207`), and the content hash the insert
  needs is in neither their context nor `content_versions`.
- `review` is a request to apply or reject a proposal, between its status check and its write.

## Runs

| run | instance | states | shows |
|---|---|---|---|
| `row` | 1 row, 2 workers, 2 attempts, 1 container, 1 fault | 427 000 | types, at most one request, ambiguity kept, current snapshots, capped containers, final statuses, `PublishOnce` implemented |
| `reschedule` | 2 rows of one draft, 1 worker, 1 attempt, no fault | 748 000 | when a second row of a draft may reach the platform; published rows and records agree |
| `settles` | 1 row, 1 worker, 2 attempts, 1 fault, fairness | 155 000 | no row is stuck |
| `duplicates` | 2 rows of one draft | violated | the documentation's claim below |
| `outbox` | 2 events (one of each kind), 1 processor, batches of 2, 2 attempts, fairness | 29 000 | types, leases respected, `EventDelivery` implemented, every event is processed or given up |
| `replies` | 2 executions of one text, 1 other post, 1 worker, 1 leader, 1 publish attempt, 1 fault | 997 000 | a reply recorded as sent is on the platform, or Scan 4 took a post with its text for it |
| `replies_workers` | 1 execution, 2 workers, 2 draft versions, 1 fault | 2 119 000 | a container on record is never requested anew |
| `replies_settle` | 1 execution, 1 worker, 2 publish attempts, 1 fault, fairness | 52 000 | an execution settles or comes to one of the named resting places |
| `inbox` | 3 comments, 2 of the account's own, 2 syncs, 1 classifier, pages of 2, 1 fault, fairness | 880 000 | the watermark passes nothing; no answer to oneself; a job leads to a decision or the comment is stranded in a named way |
| `observations` | 1 observation, 2 workers, 2 sweepers, 2 attempts, 2 faults, fairness | 381 000 | one capture with its metrics, valid transitions, a retry on the way or lost in a named way, an end |
| `aggregation` | 2 slots, 2 captures, 2 job slots, 2 callers and calls, budget 1, 1 fault | 1 130 000 | revisions, profile and recommendations stay in step; nothing is forgotten; the budget holds |
| `governance` | operator: 2 cycles, 1 person, 2 drafts, quota 1, 1 switch, 1 error; rule: 2 triggers, 2 runners, 2 actions, 2 days, 2 reviews, 1 fault | 859 000 | charges agree with what happened, a pause disarms, actions in order, proposals applied from their version |

Why the bounds are enough for what the runs ask: two workers and one fault give the
reclaim of a row whose first worker is still running (its lease ran out), or died at
any step, and a second attempt that finds what the first left; two attempts reach the
attempt cap with and without ambiguity; one container creation reaches the creation
cap on the second attempt.  Two rows of one draft are the least that can publish it
twice, and two requests can race for the active-schedule index.  Two attempts give the
outbox Scan 6 with a claim that was taken over since it was read, and the attempt cap; a batch
of two leaves an event behind an abandoned one.  Two processors are in the proofs.

Two executions of one text are what makes a feed match ambiguous, two versions of a draft
and one execution what makes a container outdated.  Three comments in pages of two
make a second page, a cursor and an overlap of one; two syncs are a stale one beside the one
that took its lease over.  Two faults let an observation be abandoned, recovered and abandoned
again, and with two sweepers recovered under a taken key.  Two captures in two slots, with a budget of one for two candidates, are two runs
that compete for a revision and two generations that compete for the budget.  Two calls reach
every status but EVALUATED from EXPOSED: `evaluate` is the third step and has no property of
its own.  Two cycles with a weekly limit of one compete for a slot, a draft and the quota;
two triggers with a daily limit of one for the budget; two days make a re-run after midnight.
All safety properties of the passing runs are proved, so for them the bounds do not matter; for
liveness they do.

Views.  A VIEW drops what neither an action nor a property reads any more, so that two states
with one view have the same futures.  `MCReplies`: the create counter is only compared across
one step, a finished row is read for its text only, ambiguity and deadline only in recovery.
`MCAggregation`: DISMISSED and EVALUATED exposures allow the same steps; one that is over, of an
earlier revision and without a call is never read again; `revived` counts only while the
exposure is pending.  `MCGovernance`: a lease token that is not live and
the run's last status are not read, nor, once a draft is picked, which autonomous level was
read; the draft of an ENDED post is in no index.  `Operator` and
`Rules` share no variable, so a run in which either one or the other takes steps shows what
both together would.

Deadlock is not checked: a final row with no job left, or an outbox with every event closed,
is where the system may stop.

Fairness (`Settles` of `Publishing`): a worker that can take a step takes one; the token and quota
calls at the gate do not fail for ever (strong fairness of `PassGate`); an orphaned
lease runs out and retry times arrive (time passes); scans 2 to 4 run every minute.
Nothing is assumed of the platform (every call times out after at most 15 seconds, and
the loops are bounded), of users, or of the operator, which is why RECOVERY_REQUIRED
and AUTH_REQUIRED count as settled.  `Closes`: processors poll every five seconds and finish
what they can, leases run out, Scan 6 runs every minute and is not for ever cut off between
reading a row and writing it (strong fairness of `Scan6Write`).  Scan 0 is not needed.

`Settles` of `Replies`: workers take their jobs and finish them, the outbox dispatches (`EventOutbox`
has the case of an event given up), deadlines and leases pass, every leader goes on scanning.  Nothing is
assumed of drafting, people or the platform's answers.  The resting places are named in the
property because the code has no way out of them: QUOTA_BLOCKED, CONTAINER_CREATED without a
lease, a failed job that keeps its id, an answered recovery.  `Classified`: the classify
and draft queues work and the reconciler scans; syncs owe nothing, so a comment that no sync
enqueues has no claim.  The completion of a classify job is a step of its own, which the
fairness of `ClassifyStep` brings about; a comment that Scan 1 resets before it and enqueues
after it goes on, one enqueued before it is stranded, and the property says so.
`Ends`: attempts go on, the sweep for closed windows runs once a minute, windows close and
leases run out.  The outbox and the recovery need no fairness for it.

## Proofs

`PublishingProofs` proves, for all values of the constants under the assumptions of
`Publishing` (`TargetAssumption`, `TextAssumption`, `LimitAssumption`,
`NullAssumption`):

- `TypeCorrect`: `Spec => []TypeOK`, one lemma per group of actions.
- `LeaseHolderIsCurrent`: `Spec => []SnapshotCurrent`.
- `AtMostOnePublish`: `Spec => []PublishAtMostOnce`.

The last two need one inductive invariant, `SendInv`.  `PublishAtMostOnce` alone is not
inductive: that a second worker does not send depends on what it read.  `SendInv` adds
that a worker about to send has stored `requested` (`SlotsKnow`), that nothing has been
sent for a row that is not `requested` (`Unasked`), that at most one slot is at the send
and that one only while nothing was sent (`OneSender`), and that the holder of a live lease
has a current snapshot (`SnapshotCurrent`).  A step that does not touch a row or a slot
keeps all of that for it (`KeptStep`); the lemmas per action group deal with the rest.

`PublishingRowProofs` proves, from the same assumptions and `SendInv`:

- `AmbiguityIsKept`: `Spec => []AmbiguityKept`;
- `ContainersAreCapped`: `Spec => []CreatesCapped`;
- `FinalStays`: `Spec => FinalIsFinal`.

They share the inductive invariant `RowInv`.  A held row is in a leased status, so a
worker's fenced write never meets a final one (`RowOK`).  A worker is on the way to a new
container only if its snapshot has none and past it only if it has one (`SlotOK`); the
snapshot being current, the first means the row is not ambiguous and the second that an
ambiguous row has its container.  The count of containers in the snapshot is the row's until
the worker itself adds to it, and only then is the row in CREATING_CONTAINER (`LinkOK`).  A
row Scan 4 has read as exhausted stays stale, exhausted and unambiguous until the scan's
second write (`DoomOK`): no claim can match it.

The second half of the module relates the rows to the platform, from all of the above:

- `PublishedRecorded`: `Spec => []PublishedIsRecorded`;
- `Republished`: `Spec => []RepublishOnlyIfReleased`;
- `ImplementsPublishOnce`: `Spec => RefinesPublishOnce`.

They share `RecordInv`.  `PublishedIsRecorded` is not inductive because three parties write it
on what they saw earlier: the worker after its call, feed recovery and an operator.  So it needs
that a request on its way, a container that is published and a post in the feed stem from one
request (`FeedOK`); that every doubt about a row, its ambiguity or a status past the request, goes
back to a request the row remembers (`AskOK`), and a worker's doubt too (`SureOK`); and that the
post a worker or a request is about to record exists and has the row's text.  `Republished`
needs the partial index (`OneActive`): of the rows of one draft and account one at most is
active, and a row that has asked stays active until it is published, attested or waits for a new
token.  For the refinement, a step either leaves what `PublishOnce` sees of a row alone or is one
of its actions; a row that is neither new nor published goes on, or is closed, and forgets no
request (`Proceeds`), which covers all of the worker's steps but the request, the answer and the
commit.

`EventOutboxProofs` proves, under `EventAssumption`, `BoundAssumption` and `NoClaimAssumption`:

- `OutboxTypeCorrect`: `Spec => []TypeOK`;
- `LeasesAreRespected`: `Spec => LeaseRespected`;
- `OutboxImplementsDelivery`: `Spec => RefinesEventDelivery`.

`TypeOK` needs that a row in PROCESSING has been claimed (`Counted`), without which Scan 6
would note an attempt 0.  The refinement needs `DeliveryInv`: an event about to be marked, by
its claim or by Scan 0, has had its effect, and nobody holds a claim of an event that was not
written.  A claim is then `Try`, a handler `Deliver`, a fenced write `Finish`, `GiveUp` or no
step, and Scan 0's unfenced write `Finish`, also of an event already given up.

`InboxProofs` (under `InboxAssumption`):

- `TypeCorrect`: `Spec => []TypeOK`;
- `WatermarkSafe`: `Spec => []NothingSkipped`;
- `OwnSafe`: `Spec => []OwnNeverAnswered`.

`NothingSkipped` is strengthened by what a running sync has in hand: the watermark and the
cursor it read and the ones it is going to write pass only comments that are in the inbox, but
for those of the page still to be ingested.  That the row is read before the lease is taken does no
harm because comments never leave the inbox.  `OwnNeverAnswered` needs that no classify job in
progress and no row Scan 1 holds is about an own comment.

`RepliesProofs` (under the assumptions of `Replies`):

- `RepliesTypes`: `Spec => []TypeOK`;
- `SentTruthfully`: `Spec => []NoFalseSuccess`;
- `ReuseContainer`: `Spec => ContainerReused`.

`NoFalseSuccess` is strengthened to `SentInv`: whoever is about to call a reply sent has a post
for it.  A worker past the platform's answer or a match in the feed has one, whether or not it
still holds its lease, and so has a confirmation an operator has sent and the API not yet stored;
what has reached the platform belongs to an execution that was created, whose draft version, and
so its text, does not change any more.  Scan 4 is the exception, and its extent is part of the
theorem: the row says MATCHED (or OPERATOR_REQUIRED, which a scan whose leader lease ran out may
write over it), and a post with the text exists.  `ReuseContainer` follows from the last part of `SentInv`:
a worker that is about to request a container and still holds its lease works on a row that has
none, because the row is its own until the lease is gone.

`ObservationsProofs` (under `ObservationsAssumption`): `TypeCorrect`, `CapturesCount`
(`[]CapturedOnce`), `TableKept` (`TransitionsValid`), `RetriesComplete` (`[]RetryOnTheWay`) and
`OwnRetriesComplete`.  The types need that a held row is in PROCESSING, the captures that
metrics and generation count exactly the captured rows, which are finitely many (`CaptureInv`); a
write of an attempt whose lease was taken over does not match.

`RetriesComplete` holds for any number of observations, workers, sweepers, attempts and faults;
its two exceptions are those of `lost` above.  `OwnRetriesComplete` confines them: an attempt that
puts its row back writes an event that did not exist (`AttemptsRetried`), and a row that goes on
waiting keeps its job or event unless a job of it fails at its claim (`PendingKept`).  So the
taken key is a recovery's alone.

A row is lost when it goes back under the key of an event that exists and is done with, so
`RetryInv` says why an attempt's key is new.  An event's number is at most its row's attempts, and
less while the row is PROCESSING (`KeyOld`); a worker that holds its row has read the row's
attempts (`SnapshotOK`); what a sweeper has read of a row is not ahead of it (`FoundOld`); Redis
knows only ids of events that exist, so that what is `Pending` will still be added.

`AggregationProofs` (under `AggregationAssumption`): `TypeCorrect`, `Stamped`, `Captures`,
`Revisions`, `Forward`, `BudgetKept`, `Latest`, the whole list of the run.  The common invariant
says that no event is ahead of the generation or revision it names, and that at most one
aggregating run is between its lock and its commit, with the next revision as its target.
`Captures` and `Revisions` follow an event from its writing to its effect: a learning job ever
asked for stays underway until the profile is there.  `BudgetKept`: at most one job is between
the count and the insert, under the row lock; the revision it stores for is then the current
one and the profile's; and what it counted plus what it may add does not exceed the limit.

`GovernanceProofs` (under `OperatorAssumption`): `OperatorTypes`, `Charged` (`[]ChargedAsScheduled`)
and `Pause` (`PauseDisarms`).  The quota's type is part of the result, a week never being
charged beyond its limit.  The invariant says that a transaction past its checks has room in
its week and the week's row for itself (`FenceInv`), that a cycle which has not committed has no
post and one that waits has not begun (`BeforeInv`).  `Pause` needs only the types: only the
kill switch check, which reads the level, lets a cycle be armed, and only the cycle
that takes the lease over comes to hold it.

And for rules (under `RulesAssumption`): `RulesTypes`, `Budgets` (`[]ChargedPerExecution`),
`InOrder` (`[]ActionsInOrder`), `Versions` (`[]AppliedFromItsVersion`).  A runner that acts, or
failed to, works on an execution that was let through (`ChargeInv`); the actions a runner
has behind it have their rows or were passed over (`OrderInv`), so it does not matter which of
several runners goes on;
only what was filed is reviewed and applied, and it is filed from an existing profile
(`VersionInv`).

`Operator` and `Rules` share no variable, so a behaviour of `MCGovernance` is one of each
(`BothParts`), and `GovernanceTypes` and `GovernanceSafe` state the run's properties for its own
specification.

Only model-checked: liveness (`Settles` of both modules, `Closes`, `Classified`, `Ends`), which is
out of the prover's reach: ENABLED and fairness.  Every invariant, every action property and both
refinements that the passing runs check are proved.

## Where the documentation and the code differ

Shown by a run: `duplicates` (`ZeroDuplicates`).  `scheduleDraft` checks `published_posts` and
then the active schedules; the first row's terminal commit between the two reads hides it from
both.

Met while modelling; the models take these steps and the properties make room for them:

- Publishing.  The AUTH_REQUIRED branch of the catch block (`publishing.processor.ts:904`) ignores
  ambiguity.  Send, crash, reclaim, revoked token: the row is AUTH_REQUIRED, which frees the
  draft for a second row, and neither cancel nor resolve takes the first one, while `FRD.md:294`
  says "Never re-publishes blindly".  Feed recovery does not ask whether the matching post is
  recorded for another row; with two drafts of one text the commit is refused and retried.
- Outbox.  Retries have no backoff: five failures, some 25 seconds of outage, set an event to
  FAILED with nothing dispatched, for good.
- Replies (RP: `reply-publish.processor.ts`, ER: `engagement-reconciliation.service.ts`).  Scan 2.1
  (ER:234) and Scan 3 (ER:358) put a row back in the queue by id: a worker that claimed it
  meanwhile may have a container or a publish request outstanding, so that a second one follows
  (`FRD.md:423` and the comment at RP:345 say otherwise).  `updateDraft` reopens a DISMISSED interaction
  (`engagement.service.ts:357`; FRD:653).  A reply found not to have landed is cancelled
  instead of retried (RP:142; FRD:651).  The catch at RP:413 turns PUBLISHED into a failure when a
  later write fails (FRD:680).  A failed job blocks its own re-adding (ER:325; comment at
  ER:316).  QUOTA_BLOCKED and CONTAINER_CREATED rows are looked at by no scan (RP:211, RP:273;
  FRD:667, FRD:430).
  Scan 4 takes any of the account's last ten posts with the reply's text for the reply (ER:420):
  not whom the post answers, nor when it was made, nor whether it is recorded elsewhere is
  compared.  A reply that never landed can so become PUBLISHED and its interaction REPLIED, which
  `FRD.md:651` has happen when the scan "Matches Published Reply" and the log calls "confirmed
  published externally" (ER:429).  Nor does the scan's "not landed" say that the reply is not
  there: it may be older than ten posts, or not listed yet, and is then published twice.
  A container the platform refuses ends the execution FAILED_PERMANENT, but if the interaction's
  update after it fails (RP:336), the catch meant for the status check swallows that and the row
  is published (`RefusalIgnored`), against the comment at RP:329.
- Inbox.  A sync reads back 120 seconds, `FRD.md:357` says five minutes.  A NEW interaction whose
  enqueue crashed is seen by no scan.  No schedule enqueues ingest jobs, for which
  `src/README.md:504` promises a cadence of minutes: only a person's request does
  (`triggerSync`, `engagement.service.ts:166`).  The account's own comments are stored as REPLIED
  (`engagement-ingest.processor.ts:416`), while `FRD.md:356` and `src/README.md:505` say
  NOT_REQUIRED, which the code writes into `response_decision` alone; `OwnNeverAnswered` asks for
  a terminal status, and both are.  Scan 1 (ER:197 to 213) strands a comment if the
  job that has just decided on it is not yet removed when the scan adds its successor, or if
  the scan fails between its write and its add: the row stays NEW, which no scan reads.  A draft job
  that throws (`reply-draft.processor.ts:332`) keeps its id and blocks the next of that id.
- Observations.  A claim that throws and a second sweeper, as above: a waiting row with nothing on
  the way until its window closes.  The comment "Sweeper runs on all workers (idempotent SQL
  UPDATE)" (`analytics-outbox-dispatch.service.ts:130`) holds for the row and not for the retry.
- Aggregation.  A run that does not get the lock fails for good: the queue's
  `defaultAggregateJobOptions` with attempts and backoff are defined and not used, though
  `AUDIT_REPORT.md:199` relies on them.  A late `accept`, which checks the status and then writes
  by id, takes back an exposure that was DISMISSED or PUBLISHED meanwhile, and the budget may be
  exceeded by it: `recommendation-engine.service.ts:67` calls DISMISSED a terminal state
  (`FRD.md:718` too) and line 480 speaks of preventing "concurrent budget overruns".
- Operator.  The comment at `governance.service.ts:712` has a pause halt in-flight cycles from
  committing; one past its lease check commits, and one that claims the lease between the pause's
  two statements and checks the level before the second does too (the properties' "armed").
  Rules ignore PAUSED.  The draft filter leaves out the statuses here called BUSY: while
  the newest draft's post is in one of them, the operator picks that draft again and every
  insert is refused.  A draft that is published between the selection and the insert is
  scheduled again.  A run may end FAILED though its post is scheduled.  Lease heartbeats exist and
  are not called.  What people schedule is not charged to the quota.
- Rules.  A stalled job is run again after some 30 seconds, finds the five-minute lease live and
  completes: the log then stays CLAIMED.  A re-run after midnight is a new execution and does
  every action again.  FAILED is written by id and may replace EXECUTED.  Any error whose
  message has the word "unique" passes the action over (`rules-engine.service.ts:346`), and the log
  may end EXECUTED without it; the comment above that line says "If unique constraint violation on
  actionExecutionKey, it means already executed".  A proposal's status is checked before
  the transaction and written by id, so one that was applied may end REJECTED and the reverse.
  It is applied to the version of the profile it was made from, and not to its weights: the
  learning job rewrites those and leaves `profile_version` as it is.

## Not modelled

- Authentication: rotating a refresh token is a read and an unconditional write
  (`refresh-token.service.ts:69`); what it promises fails under two concurrent requests, and a
  model would restate those two lines.
- The token service's Redis lock: its state is read by nothing else here, and what it guards is
  one call of the platform.
- The safety gate: its walls are text classification, and its overrides
  (`consumeOverrideToken`, `isPublishPermitted`) have no caller.
- Of the operator: two requests that pause at once (`pausing` is one request), and a newest draft
  without versions, which the code treats as no draft though an older one has some.  A draft of
  the model has a version.
- Rules' settings: `createRule`, `updateRule` and `deleteRule` (`governance.service.ts`) are plain
  writes.  The rule of the model keeps its actions and its limit; the budget row of a day takes its
  limit at the first claim in any case.
- Of the inbox: a person's approval and a person's request for a draft (`triggerDraft`), with which
  `Replies` begins.  `Inbox` ends at the verdict on the first draft.
- Experiments: `assignDraftToExperiment`, `linkPostMetric`, `proposeAdaptation` and the worker's
  `applyProposal` and `rejectProposal` have no caller, so no experiment gets a sample.
- Backfills of observations by ingestion and by the analytics API (`analytics.service.ts`, 600 to
  820), which write rows outside the leases; the leader leases of the analytics dispatcher
  and the reconciler; what aggregates, evidence and weights contain, among them that a
  bucket's counts are accumulated anew with each revision.
- Content drafts' editing and deletion, listings, notifications, Scan 5 of the publishing
  reconciler (display timestamps) and Scan 6 of the engagement one (embedding metadata).
- Ingestion, style, embeddings, prompts and model providers, the web application, DTO
  validation and the verification scripts.  These, with the statistics, are most of the
  repository's lines, which is why the models' share of it stays small.
