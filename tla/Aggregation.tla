--------------------------- MODULE Aggregation ---------------------------
(***************************************************************************)
(* What follows a capture: one account's metrics are aggregated slot by    *)
(* slot (AnalyticsAggregateProcessor), each run making a revision, and a   *)
(* revision's insights, learned profile and recommendations are derived by *)
(* jobs that stop when a newer revision has taken its place.  People       *)
(* accept and dismiss the recommendations while the worker records what    *)
(* became of them.                                                         *)
(*                                                                         *)
(* Observations has the capture itself and the outbox that turns an event  *)
(* into a job, late perhaps: here an event is written with its job, which  *)
(* may wait as long.                                                       *)
(***************************************************************************)
EXTENDS Integers, FiniteSets

CONSTANTS
  Slot,         \* observation slots of the account's posts
  Candidate,    \* dimension values a recommendation may be about
  Worker,       \* job slots of the aggregate, insights and recommendations queues
  Client,       \* API calls and transactions that touch exposures
  MaxPending,   \* maxPendingRecommendations (10)
  MaxCaptures,  \* bound: captures
  MaxCalls,     \* bound: API calls
  MaxFaults,    \* bound: failing transactions and crashes
  NoSlot, NoKey

ASSUME AggregationAssumption ==
  /\ IsFiniteSet(Candidate) /\ NoSlot \notin Slot
  /\ MaxPending \in Nat /\ MaxCaptures \in Nat /\ MaxCalls \in Nat /\ MaxFaults \in Nat

VARIABLES
  gen,         \* analytics_sync_states.ingestion_generation
  rev,         \* analytics_sync_states.analytics_revision
  captured,    \* the generation of each slot's last capture
  aggregated,  \* the last capture each slot's aggregates have seen
  stamped,     \* revisions and slots in performance_aggregates
  profile,     \* analytics_revision_at_computation of the learned profile
  exposure,    \* recommendation_exposures by cycle_idempotency_key
  events,      \* outbox events, by dedupe_key
  jobs,        \* the events whose jobs wait
  failed,      \* jobs that failed: no queue retries them, no event adds them again
  worker,      \* the job each slot runs
  call,        \* the exposure each call has read and not yet written
  revived,     \* history: exposures that a late acceptance made pending again
  calls,       \* API calls so far
  faults       \* faults spent so far

stateVars == <<gen, rev, captured, aggregated, stamped, profile>>
exposureVars == <<exposure, call, calls, revived>>
vars == <<stateVars, exposureVars, events, jobs, failed, worker, faults>>

-----------------------------------------------------------------------------
(* Types *)

\* dedupe_key of an event: its kind, a generation or revision, and for some a slot.
Key == [kind : {"aggregate", "insights"}, n : Nat, slot : Slot]
       \cup [kind : {"learning", "recommendations"}, n : Nat, slot : {NoSlot}]

\* snap: the generation and target the revision read at the start; seen: the capture the
\* queries saw; chosen: the candidates generated; room: the budget counted to store them.
Run == [at : {"idle", "query", "commit", "generate", "write", "store"},
        key : Key \cup {NoKey}, snap : Nat, target : Nat, seen : Nat,
        chosen : SUBSET Candidate, room : Nat]
Started(at, k, snap, target) ==
  [at |-> at, key |-> k, snap |-> snap, target |-> target, seen |-> 0,
   chosen |-> {}, room |-> 0]
Idle == Started("idle", NoKey, 0, 0)

Op == {"accept", "dismiss", "publish", "evaluate"}
Exposure == {"EXPOSED", "ACCEPTED", "DISMISSED", "PUBLISHED", "EVALUATED"}
NoCall == [op |-> "none", of |-> <<0, NoSlot>>]

TypeOK ==
  /\ gen \in 0..MaxCaptures /\ rev \in Nat /\ profile \in 0..rev
  /\ captured \in [Slot -> 0..gen]
  /\ aggregated \in [Slot -> Nat] /\ \A s \in Slot : aggregated[s] =< captured[s]
  /\ stamped \subseteq Nat \X Slot
  /\ exposure \in [DOMAIN exposure -> Exposure] /\ DOMAIN exposure \subseteq Nat \X Candidate
  /\ events \subseteq Key /\ jobs \subseteq events /\ failed \subseteq events
  /\ worker \in [Worker -> Run]
  /\ \A w \in Worker : worker[w].at # "idle" => worker[w].key \in events
  /\ call \in [Client -> {NoCall} \cup [op : Op, of : DOMAIN exposure]]
  /\ revived \subseteq DOMAIN exposure /\ calls \in 0..MaxCalls /\ faults \in 0..MaxFaults

Init ==
  /\ gen = 0 /\ rev = 0 /\ profile = 0
  /\ captured = [s \in Slot |-> 0] /\ aggregated = [s \in Slot |-> 0]
  /\ stamped = {} /\ exposure = [k \in {} |-> "EXPOSED"]
  /\ events = {} /\ jobs = {} /\ failed = {}
  /\ worker = [w \in Worker |-> Idle] /\ call = [c \in Client |-> NoCall]
  /\ revived = {} /\ calls = 0 /\ faults = 0

Spend == faults < MaxFaults /\ faults' = faults + 1

Event(kind, n, s) == [kind |-> kind, n |-> n, slot |-> s]

\* Mutant: the job is added and its event is not written.
AddJobs(K) == jobs' = jobs \cup (K \ events) /\ UNCHANGED events

\* Upserts with an empty update: an event that exists is left as it is.
Upsert(K) == events' = events \cup K /\ jobs' = jobs \cup (K \ events)

\* The row of the sync state is locked from the count of pending recommendations to the
\* commit that stores the new ones; no other transaction holds it across a step here.
RowLocked == \E w \in Worker : worker[w].at = "store"

-----------------------------------------------------------------------------
(* Captures *)

\* Mutant: a capture relies on an aggregation that waits already.
CaptureCoalesced(s) ==
  /\ gen < MaxCaptures /\ ~RowLocked
  /\ gen' = gen + 1 /\ captured' = [captured EXCEPT ![s] = gen + 1]
  /\ IF \E k \in jobs : k.kind = "aggregate" THEN UNCHANGED <<events, jobs>>
     ELSE Upsert({Event("aggregate", gen + 1, s)})
  /\ UNCHANGED <<rev, aggregated, stamped, profile, exposureVars, failed, worker, faults>>

Capture(s) ==
  /\ gen < MaxCaptures /\ ~RowLocked
  /\ gen' = gen + 1 /\ captured' = [captured EXCEPT ![s] = gen + 1]
  /\ Upsert({Event("aggregate", gen + 1, s)})
  /\ UNCHANGED <<rev, aggregated, stamped, profile, exposureVars, failed, worker, faults>>

-----------------------------------------------------------------------------
(* aggregateAccountPerformance: one transaction, ReadCommitted *)

Mine(w) == worker[w].key
Finish(w) == worker' = [worker EXCEPT ![w] = Idle]
Start(w, k, at) == worker' = [worker EXCEPT ![w] = Started(at, k, 0, 0)]
StartRun(w, k) == worker' = [worker EXCEPT ![w] = Started("query", k, gen, rev + 1)]

Locked == \E w \in Worker : worker[w].at \in {"query", "commit"}

\* Mutant: nobody asks for the advisory lock.
AcquireAnyway(w, k) ==
  /\ worker[w].at = "idle" /\ k \in jobs /\ k.kind = "aggregate"
  /\ jobs' = jobs \ {k}
  /\ StartRun(w, k) /\ UNCHANGED failed
  /\ UNCHANGED <<stateVars, exposureVars, events, faults>>

\* pg_try_advisory_xact_lock and, with it, the snapshot of generation and revision; without
\* it AggregationLockContentionError fails the job.
Acquire(w, k) ==
  /\ worker[w].at = "idle" /\ k \in jobs /\ k.kind = "aggregate"
  /\ jobs' = jobs \ {k}
  /\ IF Locked THEN failed' = failed \cup {k} /\ UNCHANGED worker
     ELSE StartRun(w, k) /\ UNCHANGED failed
  /\ UNCHANGED <<stateVars, exposureVars, events, faults>>

\* Every statement sees what was committed before it: at least this.
Query(w) ==
  /\ worker[w].at = "query"
  /\ worker' = [worker EXCEPT ![w].at = "commit", ![w].seen = captured[Mine(w).slot]]
  /\ UNCHANGED <<stateVars, exposureVars, events, jobs, failed, faults>>

\* The update of the sync state locks its row until the end, so no capture slips in
\* between it, the follow-up and the commit.
CommitAggregates(w) ==
  /\ worker[w].at = "commit" /\ ~RowLocked /\ Finish(w)
  /\ LET s == Mine(w).slot
         followUp == IF gen > worker[w].snap THEN {Event("aggregate", gen, s)} ELSE {}
     IN /\ aggregated' = [aggregated EXCEPT ![s] = worker[w].seen]
        /\ stamped' = stamped \cup {<<worker[w].target, s>>}
        /\ rev' = rev + 1
        /\ Upsert(followUp \cup {Event("insights", rev + 1, s)})
  /\ UNCHANGED <<gen, captured, profile, exposureVars, failed, faults>>

-----------------------------------------------------------------------------
(* processInsightGeneration, processProfileLearningJob and                   *)
(* processRecommendationGenerationJob                                        *)

Current(k) == k.n = rev /\ (k.kind = "recommendations" => profile = k.n)

\* The first revision check, before the expensive reads.
Take(w, k) ==
  /\ worker[w].at = "idle" /\ k \in jobs /\ k.kind # "aggregate"
  /\ jobs' = jobs \ {k}
  /\ IF Current(k) THEN Start(w, k, IF k.kind = "recommendations" THEN "generate" ELSE "write")
     ELSE UNCHANGED worker
  /\ UNCHANGED <<stateVars, exposureVars, events, failed, faults>>

\* Mutant: the event does not tell the revision.
WriteInsightsOnce(w) ==
  /\ worker[w].at = "write" /\ Mine(w).kind = "insights" /\ ~RowLocked /\ Finish(w)
  /\ IF Mine(w).n = rev THEN Upsert({Event("learning", 1, NoSlot)}) ELSE UNCHANGED <<events, jobs>>
  /\ UNCHANGED <<stateVars, exposureVars, failed, faults>>

\* The row of the sync state is locked and its revision compared once more.
WriteInsights(w) ==
  /\ worker[w].at = "write" /\ Mine(w).kind = "insights" /\ ~RowLocked /\ Finish(w)
  /\ IF Mine(w).n = rev THEN Upsert({Event("learning", rev, NoSlot)}) ELSE UNCHANGED <<events, jobs>>
  /\ UNCHANGED <<stateVars, exposureVars, failed, faults>>

\* Mutant: the revision is not compared again.
LearnUnchecked(w) ==
  /\ worker[w].at = "write" /\ Mine(w).kind = "learning" /\ ~RowLocked /\ Finish(w)
  /\ profile' = Mine(w).n /\ Upsert({Event("recommendations", Mine(w).n, NoSlot)})
  /\ UNCHANGED <<gen, rev, captured, aggregated, stamped, exposureVars, failed, faults>>

\* recomputeLearnedProfile: weights and profile become those of this revision.
Recompute(n) == profile' = n /\ Upsert({Event("recommendations", n, NoSlot)})

Learn(w) ==
  /\ worker[w].at = "write" /\ Mine(w).kind = "learning" /\ ~RowLocked /\ Finish(w)
  /\ IF Mine(w).n = rev THEN Recompute(rev) ELSE UNCHANGED <<profile, events, jobs>>
  /\ UNCHANGED <<gen, rev, captured, aggregated, stamped, exposureVars, failed, faults>>

Pending == {k \in DOMAIN exposure : exposure[k] \in {"EXPOSED", "ACCEPTED"}}
Room == IF Cardinality(Pending) < MaxPending THEN MaxPending - Cardinality(Pending) ELSE 0

\* generateContentRecommendations, outside any transaction.
Generate(w, C) ==
  /\ worker[w].at = "generate" /\ Cardinality(C) =< Room
  /\ worker' = [worker EXCEPT ![w].at = "write", ![w].chosen = C]
  /\ UNCHANGED <<stateVars, exposureVars, events, jobs, failed, faults>>

Keys(n, C) == {<<n, c>> : c \in C} \ DOMAIN exposure

\* Mutant: the revision is not compared again.
CountUnchecked(w) ==
  /\ worker[w].at = "write" /\ Mine(w).kind = "recommendations" /\ ~RowLocked
  /\ worker' = [worker EXCEPT ![w].at = "store", ![w].room = Room]
  /\ UNCHANGED <<stateVars, exposureVars, events, jobs, failed, faults>>

\* persistContentRecommendations: the budget is counted once more under the lock.
Count(w) ==
  /\ worker[w].at = "write" /\ Mine(w).kind = "recommendations" /\ ~RowLocked
  /\ IF Mine(w).n = rev THEN worker' = [worker EXCEPT ![w].at = "store", ![w].room = Room]
     ELSE Finish(w)
  /\ UNCHANGED <<stateVars, exposureVars, events, jobs, failed, faults>>

\* Mutant: the budget of the generation stands.
FittingUncounted(n, C, room) == {Keys(n, C)}

\* Candidates of this revision that exist are skipped, the rest stops at the budget.
Fitting(n, C, room) ==
  {K \in SUBSET Keys(n, C) :
     Cardinality(K) = IF Cardinality(Keys(n, C)) < room THEN Cardinality(Keys(n, C)) ELSE room}

Store(w) ==
  /\ worker[w].at = "store" /\ Finish(w)
  /\ \E K \in Fitting(Mine(w).n, worker[w].chosen, worker[w].room) :
       exposure' = [k \in DOMAIN exposure \cup K |-> IF k \in K THEN "EXPOSED" ELSE exposure[k]]
  /\ UNCHANGED <<stateVars, call, calls, revived, events, jobs, failed, faults>>

-----------------------------------------------------------------------------
(* What becomes of a recommendation: each call reads the exposure, checks it *)
(* and later writes it by id.                                                *)

From(op) == CASE op = "accept" -> {"EXPOSED"} [] op = "dismiss" -> {"EXPOSED", "ACCEPTED"}
              [] op = "publish" -> {"ACCEPTED"} [] op = "evaluate" -> {"PUBLISHED"}
To(op) == CASE op = "accept" -> "ACCEPTED" [] op = "dismiss" -> "DISMISSED"
            [] op = "publish" -> "PUBLISHED" [] op = "evaluate" -> "EVALUATED"

ReadExposure(c, op, k) ==
  /\ calls < MaxCalls /\ calls' = calls + 1
  /\ call[c] = NoCall /\ k \in DOMAIN exposure /\ exposure[k] \in From(op)
  /\ call' = [call EXCEPT ![c] = [op |-> op, of |-> k]]
  /\ UNCHANGED <<stateVars, exposure, revived, events, jobs, failed, worker, faults>>

WriteExposure(c) ==
  /\ call[c] # NoCall
  /\ exposure' = [exposure EXCEPT ![call[c].of] = To(call[c].op)]
  /\ revived' = IF call[c].op = "accept" THEN revived \cup ({call[c].of} \ Pending) ELSE revived
  /\ call' = [call EXCEPT ![c] = NoCall]
  /\ UNCHANGED <<stateVars, calls, events, jobs, failed, worker, faults>>

DropCall(c) ==
  /\ call[c] # NoCall /\ Spend /\ call' = [call EXCEPT ![c] = NoCall]
  /\ UNCHANGED <<stateVars, exposure, calls, revived, events, jobs, failed, worker>>

-----------------------------------------------------------------------------
(* Faults *)

\* A statement or transaction fails: the job has one attempt.
JobFails(w) ==
  /\ worker[w].at # "idle" /\ Spend /\ Finish(w) /\ failed' = failed \cup {Mine(w)}
  /\ UNCHANGED <<stateVars, exposureVars, events, jobs>>

\* A dead worker's job is run again.
Crash(w) ==
  /\ worker[w].at # "idle" /\ Spend /\ Finish(w) /\ jobs' = jobs \cup {Mine(w)}
  /\ UNCHANGED <<stateVars, exposureVars, events, failed>>

\* So is one whose worker was only held up, or was done before the queue heard of it.
Redeliver(k) ==
  /\ k \in events \ (jobs \cup failed) /\ Spend
  /\ jobs' = jobs \cup {k}
  /\ UNCHANGED <<stateVars, exposureVars, events, failed, worker>>

-----------------------------------------------------------------------------
(* The specification *)

AggregateStep(w) ==
  (\E k \in jobs : Acquire(w, k)) \/ Query(w) \/ CommitAggregates(w)

DerivedStep(w) ==
  \/ \E k \in jobs : Take(w, k)
  \/ WriteInsights(w) \/ Learn(w)
  \/ \E C \in SUBSET Candidate : Generate(w, C)
  \/ Count(w) \/ Store(w)

Next ==
  \/ \E s \in Slot : Capture(s)
  \/ \E k \in events : Redeliver(k)
  \/ \E w \in Worker : AggregateStep(w) \/ DerivedStep(w) \/ JobFails(w) \/ Crash(w)
  \/ \E c \in Client : WriteExposure(c) \/ DropCall(c)
       \/ \E op \in Op, k \in DOMAIN exposure : ReadExposure(c, op, k)

Spec == Init /\ [][Next]_vars

-----------------------------------------------------------------------------
(* Properties *)

\* The aggregates of a revision are those of one run, and the insights of a revision
\* find them: however runs of two slots overlap, none stamps another's revision.
StampedAsCounted ==
  /\ \A x \in stamped : x[1] =< rev
  /\ \A x, y \in stamped : x[1] = y[1] => x = y
  /\ \A k \in events : k.kind = "insights" => <<k.n, k.slot>> \in stamped

Underway(k) == k \in jobs \cup failed \/ \E w \in Worker : worker[w].at # "idle" /\ Mine(w) = k

\* A capture that the aggregates have not seen is never forgotten: a job or a run will
\* bring it in, unless that job failed, as it does when it meets the lock.
CaptureRemembered ==
  \A s \in Slot :
    captured[s] > aggregated[s] => Underway(Event("aggregate", captured[s], s))

\* The last revision is learned or will be: its insights or its learning job waits, runs
\* or has failed, and the revisions skipped on the way never matter.
RevisionRemembered ==
  profile < rev =>
    Underway(Event("learning", rev, NoSlot)) \/ \E s \in Slot : Underway(Event("insights", rev, s))

\* The learned profile never goes back to an earlier revision, whatever learning jobs
\* are late.
ProfileForward == [][profile' >= profile]_vars

\* New recommendations come from the profile of the latest revision.
FromLatestProfile ==
  [][\A k \in DOMAIN exposure' \ DOMAIN exposure : k[1] = profile /\ profile = rev]_vars

\* However generations, acceptances and dismissals overlap, no more recommendations are
\* pending than the budget allows, but for those that a late acceptance took back
\* after they were dismissed or published: the lock does not cover what people do.
PendingInBudget == Cardinality(Pending \ revived) =< MaxPending

=============================================================================
