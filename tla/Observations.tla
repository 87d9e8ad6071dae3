--------------------------- MODULE Observations ---------------------------
(***************************************************************************)
(* The observations of a published post: AnalyticsSyncProcessor captures   *)
(* the metrics of each slot once, within its window,                       *)
(* ExpiredObservationSweeperService closes windows and recovers what dead  *)
(* workers left, and AnalyticsOutboxService turns the events both write    *)
(* into jobs of the sync queue.                                            *)
(*                                                                         *)
(* lease_token is a fresh UUID for every attempt and a worker slot runs    *)
(* one attempt at a time, so `holder' (the slot) stands for it.            *)
(***************************************************************************)
EXTENDS Integers, FiniteSets

CONSTANTS
  Observation,  \* rows of analytics_observations
  Worker,       \* job slots of the sync queue
  Sweeper,      \* processes that run the sweeper
  MaxAttempts,  \* max_attempts of a row (3)
  MaxFaults,    \* bound: failing requests, crashes, overrun leases, failing writes
  NoWorker, NoKey

ASSUME ObservationsAssumption ==
  /\ MaxAttempts \in Nat /\ MaxFaults \in Nat
  /\ NoWorker \notin Worker /\ NoKey \notin [o : Observation, kind : STRING, n : Nat]

VARIABLES
  obs,         \* the rows
  metrics,     \* rows of post_metrics for each observation, were they not unique
  generation,  \* analytics_sync_states.ingestion_generation
  due, sending, given, sent,  \* outbox events PENDING, PROCESSING, FAILED, COMPLETED
  jobs,        \* waiting jobs of the sync queue, by the key of their event
  ids,         \* job ids Redis knows
  worker,      \* the attempt each slot runs
  found,       \* what each sweeper has read and not yet recovered
  lost,        \* history: rows whose retry failed at its claim or had its key taken
  faults       \* faults spent so far

outboxVars == <<due, sending, given, sent>>
queueVars == <<jobs, ids>>
vars == <<obs, metrics, generation, outboxVars, queueVars, worker, found, lost, faults>>

-----------------------------------------------------------------------------
(* Types *)

Terminal == {"CAPTURED", "MISSED", "DELETED", "UNAVAILABLE"}
Waiting == {"SCHEDULED", "FAILED", "RATE_LIMITED"}

\* open: window_closes_at is later than NOW(); live: lease_until is.
Row == [status : Terminal \cup Waiting \cup {"PROCESSING"}, holder : Worker \cup {NoWorker},
        live : BOOLEAN, open : BOOLEAN, attempts : Nat]

\* dedupe_key of an event: obs:<id> or retry-observation:<id>:<kind>_<n>.
Key == [o : Observation, kind : {"obs", "fail", "rl", "recovered"}, n : Nat]

\* attempts: attempt_count as read after the claim.
Attempt == [at : {"idle", "read", "late", "fetch", "commit", "gone", "denied", "limited", "failed"},
            key : Key \cup {NoKey}, attempts : Nat]
Idle == [at |-> "idle", key |-> NoKey, attempts |-> 0]

TypeOK ==
  /\ obs \in [Observation -> Row]
  /\ metrics \in [Observation -> Nat] /\ generation \in Nat
  /\ due \subseteq Key /\ sending \subseteq Key /\ given \subseteq Key /\ sent \subseteq Key
  /\ jobs \subseteq Key /\ ids \subseteq Key
  /\ worker \in [Worker -> Attempt]
  /\ \A w \in Worker : worker[w].at # "idle" => worker[w].key \in Key
  /\ found \in [Sweeper -> SUBSET (Observation \X Nat)]
  /\ lost \subseteq Observation /\ faults \in 0..MaxFaults
  /\ \A o \in Observation : (obs[o].status = "PROCESSING" <=> obs[o].holder # NoWorker)
                            /\ (obs[o].live => obs[o].status = "PROCESSING")

FirstEvent(o) == [o |-> o, kind |-> "obs", n |-> 0]

\* scheduleObservations has run for a post: its slots with their events.
Init ==
  /\ obs = [o \in Observation |-> [status |-> "SCHEDULED", holder |-> NoWorker, live |-> FALSE,
                                   open |-> TRUE, attempts |-> 0]]
  /\ metrics = [o \in Observation |-> 0] /\ generation = 0
  /\ due = {FirstEvent(o) : o \in Observation}
  /\ sending = {} /\ given = {} /\ sent = {} /\ jobs = {} /\ ids = {}
  /\ worker = [w \in Worker |-> Idle]
  /\ found = [s \in Sweeper |-> {}]
  /\ lost = {} /\ faults = 0

Spend == faults < MaxFaults /\ faults' = faults + 1

\* An event that exists is left as it is.
Exists(k) == k \in due \cup sending \cup given \cup sent
Upsert(k) == due' = IF Exists(k) THEN due ELSE due \cup {k}

-----------------------------------------------------------------------------
(* dispatchOutboxEvents: the claim, queue.add and the update that follows it.  Its   *)
(* lease and token only decide which dispatcher repeats an idempotent add.           *)

ClaimEvent(k) ==
  /\ k \in due /\ due' = due \ {k} /\ sending' = sending \cup {k}
  /\ UNCHANGED <<obs, metrics, generation, given, sent, queueVars, worker, found, lost, faults>>

AddJob(k) ==
  /\ k \in sending \ ids
  /\ jobs' = jobs \cup {k} /\ ids' = ids \cup {k}
  /\ UNCHANGED <<obs, metrics, generation, outboxVars, worker, found, lost, faults>>

CompleteEvent(k) ==
  /\ k \in sending \cap ids
  /\ sending' = sending \ {k} /\ sent' = sent \cup {k}
  /\ UNCHANGED <<obs, metrics, generation, due, given, queueVars, worker, found, lost, faults>>

\* queue.add or the update fails; the fifth time gives the event up.
SendFails(k) ==
  /\ k \in sending /\ Spend /\ sending' = sending \ {k}
  /\ \/ due' = due \cup {k} /\ UNCHANGED given
     \/ given' = given \cup {k} /\ UNCHANGED due
  /\ UNCHANGED <<obs, metrics, generation, sent, queueVars, worker, found, lost>>

\* replayFailedOutboxEvents: a new delivery generation is a new job id.
Replay(k) ==
  /\ k \in given /\ given' = given \ {k} /\ due' = due \cup {k} /\ ids' = ids \ {k}
  /\ UNCHANGED <<obs, metrics, generation, sending, sent, jobs, worker, found, lost, faults>>

-----------------------------------------------------------------------------
(* processObservationAttempt *)

Claimable(o) == obs[o].status \in Waiting \/ (obs[o].status = "PROCESSING" /\ ~obs[o].live)

Claimed(o, w) == [status |-> "PROCESSING", holder |-> w, live |-> TRUE, open |-> obs[o].open,
                  attempts |-> obs[o].attempts + 1]
Claim(w, k) ==
  /\ worker[w].at = "idle" /\ k \in jobs /\ Claimable(k.o)
  /\ jobs' = jobs \ {k}
  /\ obs' = [obs EXCEPT ![k.o] = Claimed(k.o, w)]
  /\ worker' = [worker EXCEPT ![w] = [at |-> "read", key |-> k, attempts |-> 0]]
  /\ lost' = lost \ {k.o}
  /\ UNCHANGED <<metrics, generation, outboxVars, ids, found, faults>>

\* The claiming update is outside the try block and the job has one attempt: an error
\* fails it for good, and its event is already COMPLETED.
ClaimFails(k) ==
  /\ k \in jobs /\ Spend
  /\ jobs' = jobs \ {k}
  /\ lost' = IF obs[k.o].status \in Waiting THEN lost \cup {k.o} ELSE lost
  /\ UNCHANGED <<obs, metrics, generation, outboxVars, ids, worker, found>>

SkipJob(k) ==
  /\ k \in jobs /\ ~Claimable(k.o)
  /\ jobs' = jobs \ {k}
  /\ UNCHANGED <<obs, metrics, generation, outboxVars, ids, worker, found, lost, faults>>

Mine(w) == worker[w].key.o
Holds(w) == obs[Mine(w)].status = "PROCESSING" /\ obs[Mine(w)].holder = w
Finish(w) == worker' = [worker EXCEPT ![w] = Idle]

\* Mutant: the lease stays on the row.
ClosedLeased(o, s) == [obs[o] EXCEPT !.status = s]

\* The row of an observation that leaves PROCESSING.
Closed(o, s) == [obs[o] EXCEPT !.status = s, !.holder = NoWorker, !.live = FALSE]
FencedUpdate(w, s) ==
  obs' = IF Holds(w) THEN [obs EXCEPT ![Mine(w)] = Closed(Mine(w), s)] ELSE obs

\* The row is read after the claim; the window may be over by then.
ReadRow(w) ==
  /\ worker[w].at = "read"
  /\ worker' = [worker EXCEPT ![w].at = IF obs[Mine(w)].open THEN "fetch" ELSE "late",
                              ![w].attempts = obs[Mine(w)].attempts]
  /\ UNCHANGED <<obs, metrics, generation, outboxVars, queueVars, found, lost, faults>>

\* Every 10 s while the attempt lasts: the lease is renewed, over or not; a lost one
\* aborts the request.
Heartbeat(w) ==
  /\ worker[w].at \notin {"idle", "read", "late"}
  /\ \/ /\ Holds(w) /\ ~obs[Mine(w)].live
        /\ obs' = [obs EXCEPT ![Mine(w)].live = TRUE]
        /\ UNCHANGED worker
     \/ /\ ~Holds(w) /\ worker[w].at = "fetch"
        /\ worker' = [worker EXCEPT ![w].at = "failed"]
        /\ UNCHANGED obs
  /\ UNCHANGED <<metrics, generation, outboxVars, queueVars, found, lost, faults>>

\* The platform's answer: metrics, 404, 401 or 403, 429, anything else.
Fetch(w, answer) ==
  /\ worker[w].at = "fetch"
  /\ IF answer = "commit" THEN UNCHANGED faults ELSE Spend
  /\ worker' = [worker EXCEPT ![w].at = answer]
  /\ UNCHANGED <<obs, metrics, generation, outboxVars, queueVars, found, lost>>

\* Mutant: the capture is guarded by the window alone.
CommitUnfenced(w) ==
  /\ worker[w].at = "commit" /\ Finish(w)
  /\ LET o == Mine(w)
         captures == obs[o].open
     IN /\ obs' = IF captures THEN [obs EXCEPT ![o] = Closed(o, "CAPTURED")]
                  ELSE IF Holds(w) /\ ~obs[o].open
                  THEN [obs EXCEPT ![o] = Closed(o, "MISSED")]
                  ELSE obs
        /\ metrics' = IF captures THEN [metrics EXCEPT ![o] = @ + 1] ELSE metrics
        /\ generation' = IF captures THEN generation + 1 ELSE generation
  /\ UNCHANGED <<outboxVars, queueVars, found, lost, faults>>

\* One transaction: the row, the metrics, the generation (and its TRIGGER_AGGREGATION,
\* see Aggregation).  Without the lease nothing is written.
Commit(w) ==
  /\ worker[w].at = "commit" /\ Finish(w)
  /\ LET o == Mine(w)
         captures == Holds(w) /\ obs[o].open
     IN /\ obs' = IF captures THEN [obs EXCEPT ![o] = Closed(o, "CAPTURED")]
                  ELSE IF Holds(w) /\ ~obs[o].open
                  THEN [obs EXCEPT ![o] = Closed(o, "MISSED")]
                  ELSE obs
        /\ metrics' = IF captures THEN [metrics EXCEPT ![o] = @ + 1] ELSE metrics
        /\ generation' = IF captures THEN generation + 1 ELSE generation
  /\ UNCHANGED <<outboxVars, queueVars, found, lost, faults>>

CommitFails(w) ==
  /\ worker[w].at = "commit" /\ Spend
  /\ worker' = [worker EXCEPT ![w].at = "failed"]
  /\ UNCHANGED <<obs, metrics, generation, outboxVars, queueVars, found, lost>>

\* The outcomes that need no retry: a window that closed, a post or a permission gone.
Conclude(w) ==
  /\ worker[w].at \in {"late", "gone", "denied"} /\ Finish(w)
  /\ FencedUpdate(w, CASE worker[w].at = "late" -> "MISSED"
                       [] worker[w].at = "gone" -> "DELETED"
                       [] OTHER -> "UNAVAILABLE")
  /\ UNCHANGED <<metrics, generation, outboxVars, queueVars, found, lost, faults>>

\* Mutant: the key of a retry does not tell its attempt.
RetryOnce(w, s, kind) ==
  /\ FencedUpdate(w, s)
  /\ IF Holds(w) THEN Upsert([o |-> Mine(w), kind |-> kind, n |-> 0]) ELSE UNCHANGED due

\* A retry and its event, in one transaction.
RetryLater(w, s, kind) ==
  /\ FencedUpdate(w, s)
  /\ IF Holds(w) THEN Upsert([o |-> Mine(w), kind |-> kind, n |-> worker[w].attempts])
     ELSE UNCHANGED due

\* handleRateLimit; fits: the cool-off ends before the window.
RateLimited(w, fits) ==
  /\ worker[w].at = "limited" /\ Finish(w)
  /\ IF fits THEN RetryLater(w, "RATE_LIMITED", "rl")
     ELSE FencedUpdate(w, "MISSED") /\ UNCHANGED due
  /\ UNCHANGED <<metrics, generation, sending, given, sent, queueVars, found, lost, faults>>

\* handleGeneralFailure; fits: the backoff ends before the window.
GeneralFailure(w, fits) ==
  /\ worker[w].at = "failed" /\ Finish(w)
  /\ IF fits /\ worker[w].attempts < MaxAttempts THEN RetryLater(w, "FAILED", "fail")
     ELSE FencedUpdate(w, "MISSED") /\ UNCHANGED due
  /\ UNCHANGED <<metrics, generation, sending, given, sent, queueVars, found, lost, faults>>

\* A write outside the try block or in its catch fails: the job fails with it.
Throw(w) ==
  /\ worker[w].at \in {"read", "late", "gone", "denied", "limited", "failed"} /\ Spend
  /\ Finish(w)
  /\ UNCHANGED <<obs, metrics, generation, outboxVars, queueVars, found, lost>>

-----------------------------------------------------------------------------
(* reconcileExpiredObservations *)

Abandoned(o) == obs[o].status = "PROCESSING" /\ ~obs[o].live

\* Mutant: the sweep forgets rows a dead worker holds.
SweepClosedWaiting ==
  LET over == {o \in Observation : ~obs[o].open /\ obs[o].status \in Waiting}
  IN /\ over # {}
     /\ obs' = [o \in Observation |-> IF o \in over THEN Closed(o, "MISSED") ELSE obs[o]]
     /\ UNCHANGED <<metrics, generation, outboxVars, queueVars, worker, found, lost, faults>>

\* One statement for all rows whose window is over.
SweepClosed ==
  LET over == {o \in Observation : ~obs[o].open /\ (obs[o].status \in Waiting \/ Abandoned(o))}
  IN /\ over # {}
     /\ obs' = [o \in Observation |-> IF o \in over THEN Closed(o, "MISSED") ELSE obs[o]]
     /\ UNCHANGED <<metrics, generation, outboxVars, queueVars, worker, found, lost, faults>>

ReadAbandoned(s) ==
  LET rows == {o \in Observation : Abandoned(o) /\ obs[o].open}
  IN /\ found[s] = {} /\ rows # {}
     /\ found' = [found EXCEPT ![s] = {<<o, obs[o].attempts>> : o \in rows}]
     /\ UNCHANGED <<obs, metrics, generation, outboxVars, queueVars, worker, lost, faults>>

\* Mutant: the row is recovered by its id alone.
RecoverById(s, o, n) ==
  /\ <<o, n>> \in found[s] /\ found' = [found EXCEPT ![s] = @ \ {<<o, n>>}]
  /\ obs' = [obs EXCEPT ![o] = [Closed(o, "FAILED") EXCEPT !.attempts = obs[o].attempts + 1]]
  /\ Upsert([o |-> o, kind |-> "recovered", n |-> n + 1])
  /\ UNCHANGED <<metrics, generation, sending, given, sent, queueVars, worker, lost, faults>>

\* The row is tested again; the key of the retry is made of the attempts read before,
\* and may be that of an earlier recovery.
Recovery(o, n) == [o |-> o, kind |-> "recovered", n |-> n + 1]
Recover(s, o, n) ==
  /\ <<o, n>> \in found[s] /\ found' = [found EXCEPT ![s] = @ \ {<<o, n>>}]
  /\ IF Abandoned(o) /\ obs[o].open
     THEN /\ obs' = [obs EXCEPT ![o] = [Closed(o, "FAILED") EXCEPT !.attempts = obs[o].attempts + 1]]
          /\ Upsert(Recovery(o, n))
          /\ lost' = IF Exists(Recovery(o, n)) THEN lost \cup {o} ELSE lost
     ELSE UNCHANGED <<obs, due, lost>>
  /\ UNCHANGED <<metrics, generation, sending, given, sent, queueVars, worker, faults>>

\* A failing transaction ends the sweep.
SweepFails(s) ==
  /\ found[s] # {} /\ Spend /\ found' = [found EXCEPT ![s] = {}]
  /\ UNCHANGED <<obs, metrics, generation, outboxVars, queueVars, worker, lost>>

-----------------------------------------------------------------------------
(* Time and faults *)

WindowCloses(o) ==
  /\ obs[o].open /\ obs' = [obs EXCEPT ![o].open = FALSE]
  /\ UNCHANGED <<metrics, generation, outboxVars, queueVars, worker, found, lost, faults>>

Working(o) == \E w \in Worker : worker[w].at # "idle" /\ Mine(w) = o /\ Holds(w)

LeaseRunsOut(o) ==
  /\ obs[o].live /\ ~Working(o)
  /\ obs' = [obs EXCEPT ![o].live = FALSE]
  /\ UNCHANGED <<metrics, generation, outboxVars, queueVars, worker, found, lost, faults>>

\* A worker that is held up misses its heartbeats.
Stall(o) ==
  /\ obs[o].live /\ Working(o) /\ Spend
  /\ obs' = [obs EXCEPT ![o].live = FALSE]
  /\ UNCHANGED <<metrics, generation, outboxVars, queueVars, worker, found, lost>>

\* BullMQ hands a stalled job out again, or fails it.
Crash(w) ==
  /\ worker[w].at # "idle" /\ Spend /\ Finish(w)
  /\ jobs' \in {jobs, jobs \cup {worker[w].key}}
  /\ UNCHANGED <<obs, metrics, generation, outboxVars, ids, found, lost>>

-----------------------------------------------------------------------------
(* The specification *)

Event == due \cup sending \cup given

OutboxStep == \E k \in Event : ClaimEvent(k) \/ AddJob(k) \/ CompleteEvent(k)

AttemptStep(w) ==
  \/ \E k \in jobs : Claim(w, k)
  \/ ReadRow(w) \/ Heartbeat(w) \/ Commit(w) \/ Conclude(w)
  \/ \E a \in {"commit", "gone", "denied", "limited", "failed"} : Fetch(w, a)
  \/ \E fits \in BOOLEAN : RateLimited(w, fits) \/ GeneralFailure(w, fits)

RecoverStep(s) == ReadAbandoned(s) \/ \E r \in found[s] : Recover(s, r[1], r[2])

Next ==
  \/ OutboxStep \/ \E k \in Event : SendFails(k) \/ Replay(k)
  \/ \E k \in jobs : SkipJob(k) \/ ClaimFails(k)
  \/ \E w \in Worker : AttemptStep(w) \/ CommitFails(w) \/ Throw(w) \/ Crash(w)
  \/ SweepClosed \/ \E s \in Sweeper : RecoverStep(s) \/ SweepFails(s)
  \/ \E o \in Observation : WindowCloses(o) \/ LeaseRunsOut(o) \/ Stall(o)

Spec == Init /\ [][Next]_vars

\* Every worker process sweeps once a minute and works off its queue; windows close and
\* leases run out by the clock.
Fairness ==
  /\ \A w \in Worker : WF_vars(AttemptStep(w))
  /\ WF_vars(SweepClosed)
  /\ \A o \in Observation : WF_vars(WindowCloses(o)) /\ WF_vars(LeaseRunsOut(o))
FairSpec == Spec /\ Fairness

-----------------------------------------------------------------------------
(* Properties *)

\* However attempts, retries and sweeps overlap, an observation has metrics exactly when
\* it is CAPTURED, once, and each capture has raised the generation by one.
CapturedOnce ==
  /\ \A o \in Observation : metrics[o] = (IF obs[o].status = "CAPTURED" THEN 1 ELSE 0)
  /\ generation = Cardinality({o \in Observation : obs[o].status = "CAPTURED"})

\* The table of observation-fsm.service.ts; no SQL of the processor or the sweeper
\* consults it.  A claim that takes over a lease stays in PROCESSING.
Valid(s) ==
  CASE s = "SCHEDULED" -> {"PROCESSING", "MISSED"}
    [] s = "PROCESSING" -> Terminal \cup {"FAILED", "RATE_LIMITED"}
    [] s \in {"FAILED", "RATE_LIMITED"} -> {"PROCESSING", "MISSED"}
    [] OTHER -> {}
TransitionsValid ==
  [][\A o \in Observation :
       obs'[o].status # obs[o].status => obs'[o].status \in Valid(obs[o].status)]_vars

\* An observation that waits in an open window has a job or an event that will become
\* one, whatever attempts, retries, replays, late heartbeats and recoveries overlap.  Two
\* steps of the code may leave it with nothing but the window's end, and only they: a job
\* that fails at its claim, and a second sweeper's recovery under the key of the first's.
RetryOnTheWay ==
  \A o \in Observation :
    obs[o].status \in Waiting /\ obs[o].open =>
      \/ \E k \in due \cup sending \cup given \cup jobs : k.o = o
      \/ o \in lost

\* Every observation ends: captured, missed, deleted or unavailable.
Ends == \A o \in Observation : <>(obs[o].status \in Terminal)

=============================================================================
