------------------------- MODULE AggregationProofs -------------------------
(***************************************************************************)
(* Revisions are stamped by one run each, captures and revisions are       *)
(* remembered, the profile goes forward, and the budget of pending         *)
(* recommendations holds, for every number of slots, candidates, workers,  *)
(* clients, captures and faults.                                           *)
(***************************************************************************)
EXTENDS Aggregation, FiniteSetTheorems, TLAPS

\* TypeOK in parts.
StateOK ==
  /\ gen \in 0..MaxCaptures /\ rev \in Nat /\ profile \in 0..rev
  /\ captured \in [Slot -> 0..gen]
  /\ aggregated \in [Slot -> Nat] /\ \A s \in Slot : aggregated[s] =< captured[s]
  /\ stamped \subseteq Nat \X Slot
ExposureOK ==
  /\ exposure \in [DOMAIN exposure -> Exposure] /\ DOMAIN exposure \subseteq Nat \X Candidate
  /\ call \in [Client -> {NoCall} \cup [op : Op, of : DOMAIN exposure]]
  /\ revived \subseteq DOMAIN exposure /\ calls \in 0..MaxCalls
  /\ IsFiniteSet(DOMAIN exposure)
QueueOK == events \subseteq Key /\ jobs \subseteq events /\ failed \subseteq events
WorkerOK ==
  /\ worker \in [Worker -> Run]
  /\ \A w \in Worker : worker[w].at # "idle" => worker[w].key \in events

\* No event is ahead of its generation or revision.
EventsOK ==
  \A k \in events : /\ k.kind = "aggregate" => k.n =< gen
                    /\ k.kind \in {"insights", "learning"} => k.n =< rev
                    /\ k.kind = "recommendations" => k.n =< profile

Aggregating(w) == worker[w].at \in {"query", "commit"}

\* A run does the work of its job, one aggregates at a time, for the next revision, and
\* its queries have seen all that its job was for.
RunsOK ==
  /\ \A w \in Worker :
       /\ Aggregating(w) => Mine(w).kind = "aggregate" /\ worker[w].target = rev + 1
       /\ worker[w].at \in {"generate", "store"} => Mine(w).kind = "recommendations"
       /\ worker[w].at = "write" => Mine(w).kind # "aggregate"
  /\ \A v, w \in Worker : Aggregating(v) /\ Aggregating(w) => v = w
SeenOK ==
  \A w \in Worker : worker[w].at = "commit" =>
    LET s == Mine(w).slot
    IN /\ aggregated[s] =< worker[w].seen /\ worker[w].seen =< captured[s]
       /\ Mine(w).n = captured[s] => worker[w].seen = captured[s]

Base ==
  /\ StateOK /\ ExposureOK /\ QueueOK /\ WorkerOK /\ faults \in 0..MaxFaults
  /\ EventsOK /\ RunsOK /\ SeenOK

LEMMA BaseTypes == Base => TypeOK
  BY DEF Base, TypeOK, StateOK, ExposureOK, QueueOK, WorkerOK

-----------------------------------------------------------------------------
(* Helpers *)

LEMMA IdleTyped == Idle \in Run /\ Idle.at = "idle"
  BY DEF Idle, Started, Run

LEMMA StartedTyped ==
  ASSUME NEW k \in Key, NEW snap \in Nat, NEW target \in Nat,
         NEW at \in {"query", "generate", "write"}
  PROVE  LET r == Started(at, k, snap, target)
         IN r \in Run /\ r.at = at /\ r.key = k /\ r.target = target
  BY DEF Started, Run

LEMMA MineTyped ==
  ASSUME Base, NEW w \in Worker, worker[w].at # "idle"
  PROVE  /\ Mine(w) \in events /\ Mine(w) \in Key /\ worker[w] \in Run
         /\ Mine(w).n \in Nat
  BY DEF Base, WorkerOK, QueueOK, Mine, Key

\* The job of an aggregation or of insights has a slot.
LEMMA SlotTyped ==
  ASSUME NEW k \in Key, k.kind \in {"aggregate", "insights"}
  PROVE  k.slot \in Slot /\ k.n \in Nat /\ k = Event(k.kind, k.n, k.slot)
  BY DEF Key, Event

LEMMA UpsertTyped ==
  ASSUME QueueOK, NEW K \in SUBSET Key, Upsert(K), UNCHANGED failed
  PROVE  QueueOK' /\ events' = events \cup K /\ jobs \subseteq jobs' /\ events \subseteq events'
         /\ \A k \in K : k \notin events => k \in jobs'
  BY DEF QueueOK, Upsert

\* A run that changes in its own place.
LEMMA OneRun ==
  ASSUME WorkerOK, events \subseteq events', NEW w \in Worker, NEW r \in Run,
         r.at # "idle" => r.key \in events, worker' = [worker EXCEPT ![w] = r]
  PROVE  /\ WorkerOK' /\ worker'[w] = r
         /\ \A v \in Worker : v # w => worker'[v] = worker[v]
  BY DEF WorkerOK

LEMMA FinishTyped ==
  ASSUME WorkerOK, events \subseteq events', NEW w \in Worker, Finish(w)
  PROVE  /\ WorkerOK' /\ worker'[w].at = "idle"
         /\ \A v \in Worker : v # w => worker'[v] = worker[v]
  BY IdleTyped, OneRun DEF Finish

\* The state of the account stays: only runs and events need a look.
LEMMA SameRuns ==
  ASSUME Base, UNCHANGED <<stateVars, worker, events>>
  PROVE  StateOK' /\ WorkerOK' /\ EventsOK' /\ RunsOK' /\ SeenOK'
  BY DEF Base, stateVars, StateOK, WorkerOK, EventsOK, RunsOK, SeenOK, Aggregating, Mine

\* A run that ends or begins one of the derived jobs disturbs no aggregation.
LEMMA DerivedRun ==
  ASSUME Base, NEW w \in Worker, UNCHANGED <<gen, rev, captured, aggregated>>,
         \A v \in Worker : v # w => worker'[v] = worker[v],
         /\ worker'[w].at \notin {"query", "commit"}
         /\ worker'[w].at \in {"generate", "store"} => worker'[w].key.kind = "recommendations"
         /\ worker'[w].at = "write" => worker'[w].key.kind # "aggregate"
  PROVE  RunsOK' /\ SeenOK'
  BY DEF Base, RunsOK, SeenOK, Aggregating, Mine

-----------------------------------------------------------------------------
(* Initially, and the steps that only touch a few parts *)

LEMMA BaseInitially == Init => Base
<1> SUFFICES ASSUME Init PROVE Base
  OBVIOUS
<1> USE AggregationAssumption
<1>1. StateOK
  BY DEF Init, StateOK
<1>2. ExposureOK
  BY FS_EmptySet DEF Init, ExposureOK, Exposure
<1>3. QueueOK /\ faults \in 0..MaxFaults /\ EventsOK
  BY DEF Init, QueueOK, EventsOK
<1>4. worker \in [Worker -> Run] /\ \A w \in Worker : worker[w].at = "idle"
  BY IdleTyped DEF Init
<1>5. WorkerOK /\ RunsOK /\ SeenOK
  BY <1>4 DEF WorkerOK, RunsOK, SeenOK, Aggregating
<1>6. QED
  BY <1>1, <1>2, <1>3, <1>5 DEF Base

LEMMA CaptureBase ==
  ASSUME Base, NEW s \in Slot, Capture(s)
  PROVE  Base'
<1>1. gen' = gen + 1 /\ captured' = [captured EXCEPT ![s] = gen + 1]
      /\ UNCHANGED <<rev, aggregated, stamped, profile, exposureVars, failed, worker, faults>>
  BY DEF Capture
<1>2. Event("aggregate", gen + 1, s) \in Key
  BY DEF Event, Key, Base, StateOK
<1>3. QueueOK' /\ events' = events \cup {Event("aggregate", gen + 1, s)}
  BY <1>1, <1>2, UpsertTyped DEF Base, Capture
<1>4. StateOK'
  <2>1. gen \in 0..MaxCaptures /\ gen' \in 0..MaxCaptures
    BY <1>1, AggregationAssumption DEF Base, StateOK, Capture
  <2>2. captured \in [Slot -> 0..gen] /\ 0..gen \subseteq 0..gen' /\ gen' \in 0..gen'
    BY <1>1, <2>1 DEF Base, StateOK
  <2>3. captured' \in [Slot -> 0..gen']
    BY <1>1, <2>2
  <2>4. ASSUME NEW t \in Slot PROVE aggregated[t] =< captured'[t]
    BY <1>1, <2>1, <2>2 DEF Base, StateOK
  <2>5. QED
    BY <1>1, <2>1, <2>3, <2>4 DEF Base, StateOK
<1>5. WorkerOK' /\ ExposureOK' /\ faults' \in 0..MaxFaults
  BY <1>1, <1>3 DEF Base, WorkerOK, ExposureOK, exposureVars
<1>6. EventsOK'
  BY <1>1, <1>3 DEF Base, EventsOK, QueueOK, Key, Event, StateOK
<1>7. RunsOK'
  BY <1>1 DEF Base, RunsOK, Aggregating, Mine
<1>8. SeenOK'
  <2> SUFFICES ASSUME NEW w \in Worker, worker[w].at = "commit"
               PROVE  LET t == Mine(w).slot
                      IN /\ aggregated[t] =< worker[w].seen /\ worker[w].seen =< captured'[t]
                         /\ Mine(w).n = captured'[t] => worker[w].seen = captured'[t]
    BY <1>1 DEF SeenOK, Mine
  <2>1. Mine(w) \in events /\ Mine(w) \in Key /\ Mine(w).kind = "aggregate" /\ worker[w] \in Run
    BY MineTyped DEF Base, RunsOK, Aggregating
  <2>2. Mine(w).slot \in Slot /\ Mine(w).n \in Nat /\ Mine(w).n =< gen
    BY <2>1, SlotTyped DEF Base, EventsOK
  <2>3. worker[w].seen \in Nat
    BY <2>1 DEF Run
  <2>4. captured'[Mine(w).slot] = IF Mine(w).slot = s THEN gen + 1 ELSE captured[Mine(w).slot]
    BY <1>1, <2>2 DEF Base, StateOK
  <2>5. captured[Mine(w).slot] \in 0..gen
    BY <2>2 DEF Base, StateOK
  <2>6. QED
    BY <2>2, <2>3, <2>4, <2>5 DEF Base, SeenOK, StateOK
<1>9. QED
  BY <1>3, <1>4, <1>5, <1>6, <1>7, <1>8 DEF Base

\* A step of the queue that ends a run or none, or hands a job out again.
LEMMA QueueBase ==
  ASSUME Base,
         (\E w \in Worker : JobFails(w) \/ Crash(w)) \/ \E k \in events : Redeliver(k)
  PROVE  Base'
<1>1. UNCHANGED <<stateVars, exposureVars, events>> /\ Spend
  BY DEF JobFails, Crash, Redeliver
<1>2. StateOK' /\ ExposureOK' /\ EventsOK' /\ faults' \in 0..MaxFaults
  BY <1>1, AggregationAssumption DEF Base, stateVars, StateOK, exposureVars, ExposureOK, EventsOK, Spend
<1>3. ASSUME NEW w \in Worker, JobFails(w) \/ Crash(w)
      PROVE  QueueOK' /\ WorkerOK' /\ RunsOK' /\ SeenOK'
  <2>1. worker[w].at # "idle" /\ Finish(w)
    BY <1>3 DEF JobFails, Crash
  <2>2. Mine(w) \in events
    BY <2>1, MineTyped
  <2>3. QueueOK'
    BY <1>1, <1>3, <2>2 DEF JobFails, Crash, Base, QueueOK
  <2>4. WorkerOK' /\ worker'[w].at = "idle" /\ \A v \in Worker : v # w => worker'[v] = worker[v]
    BY <1>1, <2>1, FinishTyped DEF Base
  <2>5. QED
    BY <1>1, <2>3, <2>4, DerivedRun DEF stateVars
<1>4. ASSUME NEW k \in events, Redeliver(k)
      PROVE  QueueOK' /\ WorkerOK' /\ RunsOK' /\ SeenOK'
  <2>1. QueueOK'
    BY <1>4 DEF Redeliver, Base, QueueOK
  <2>2. QED
    BY <1>1, <1>4, <2>1, SameRuns DEF Redeliver
<1>5. QED
  BY <1>2, <1>3, <1>4 DEF Base

-----------------------------------------------------------------------------
(* Aggregations *)

LEMMA AcquireBase ==
  ASSUME Base, NEW w \in Worker, NEW k \in jobs, Acquire(w, k)
  PROVE  Base'
<1>1. UNCHANGED <<stateVars, exposureVars, events, faults>>
  BY DEF Acquire
<1>2. k \in events /\ k \in Key /\ k.kind = "aggregate" /\ k.n \in Nat
  BY DEF Acquire, Base, QueueOK, Key
<1>3. StateOK' /\ ExposureOK' /\ EventsOK' /\ faults' \in 0..MaxFaults
  BY <1>1 DEF Base, stateVars, StateOK, exposureVars, ExposureOK, EventsOK
<1>4. QueueOK'
  BY <1>1, <1>2 DEF Acquire, Base, QueueOK
<1>5. CASE Locked
  BY <1>1, <1>3, <1>4, <1>5, SameRuns DEF Acquire, Base
<1>6. CASE ~Locked
  <2> DEFINE r == Started("query", k, gen, rev + 1)
  <2>1. gen \in Nat /\ rev + 1 \in Nat
    BY AggregationAssumption DEF Base, StateOK
  <2>2. r \in Run /\ r.at = "query" /\ r.key = k /\ r.target = rev + 1
    BY <1>2, <2>1, StartedTyped
  <2>3. worker' = [worker EXCEPT ![w] = r]
    BY <1>6 DEF Acquire, StartRun
  <2>4. k \in events /\ (r.at # "idle" => r.key \in events)
    BY <1>2, <2>2
  <2> HIDE DEF r
  <2>5. /\ WorkerOK' /\ worker'[w] = r
        /\ \A v \in Worker : v # w => worker'[v] = worker[v]
    BY <1>1, <2>2, <2>3, <2>4, OneRun DEF Base
  <2>6. RunsOK' /\ SeenOK'
    BY <1>1, <1>2, <1>6, <2>2, <2>5
    DEF Base, RunsOK, SeenOK, Aggregating, Locked, Mine, stateVars
  <2>7. QED
    BY <1>3, <1>4, <2>5, <2>6 DEF Base
<1>7. QED
  BY <1>5, <1>6

LEMMA QueryBase ==
  ASSUME Base, NEW w \in Worker, Query(w)
  PROVE  Base'
<1>1. UNCHANGED <<stateVars, exposureVars, events, jobs, failed, faults>>
  BY DEF Query
<1>2. StateOK' /\ ExposureOK' /\ EventsOK' /\ QueueOK' /\ faults' \in 0..MaxFaults
  BY <1>1 DEF Base, stateVars, StateOK, exposureVars, ExposureOK, EventsOK, QueueOK
<1>3. /\ Mine(w) \in events /\ Mine(w) \in Key /\ Mine(w).kind = "aggregate" /\ worker[w] \in Run
      /\ worker[w].target = rev + 1
  BY MineTyped DEF Query, Base, RunsOK, Aggregating
<1>4. Mine(w).slot \in Slot
  BY <1>3, SlotTyped
<1>5. captured[Mine(w).slot] \in Nat /\ aggregated[Mine(w).slot] =< captured[Mine(w).slot]
  BY <1>4 DEF Base, StateOK
<1> DEFINE r == [worker[w] EXCEPT !.at = "commit", !.seen = captured[Mine(w).slot]]
<1>6. /\ r \in Run /\ r.at = "commit" /\ r.key = Mine(w) /\ r.seen = captured[Mine(w).slot]
      /\ r.target = rev + 1
  BY <1>3, <1>5 DEF Run, Mine
<1>7. worker' = [worker EXCEPT ![w] = r]
  BY DEF Query, Base, WorkerOK
<1> HIDE DEF r
<1>8. /\ WorkerOK' /\ worker'[w] = r
      /\ \A v \in Worker : v # w => worker'[v] = worker[v]
  BY <1>1, <1>3, <1>6, <1>7, OneRun DEF Base
<1>9. Mine(w)' = Mine(w) /\ \A v \in Worker : Aggregating(v)' <=> Aggregating(v)
  BY <1>6, <1>8 DEF Aggregating, Mine, Query
<1>10. RunsOK'
  BY <1>1, <1>3, <1>6, <1>8, <1>9 DEF Base, RunsOK, Aggregating, Mine, stateVars
<1>11. SeenOK'
  BY <1>1, <1>5, <1>6, <1>8 DEF Base, SeenOK, Mine, stateVars
<1>12. QED
  BY <1>2, <1>8, <1>10, <1>11 DEF Base

LEMMA CommitBase ==
  ASSUME Base, NEW w \in Worker, CommitAggregates(w)
  PROVE  Base'
<1> DEFINE s == Mine(w).slot
           followUp == IF gen > worker[w].snap THEN {Event("aggregate", gen, s)} ELSE {}
           K == followUp \cup {Event("insights", rev + 1, s)}
<1>1. /\ worker[w].at = "commit" /\ Finish(w)
      /\ aggregated' = [aggregated EXCEPT ![s] = worker[w].seen]
      /\ stamped' = stamped \cup {<<worker[w].target, s>>}
      /\ rev' = rev + 1 /\ Upsert(K)
      /\ UNCHANGED <<gen, captured, profile, exposureVars, failed, faults>>
  BY DEF CommitAggregates
<1>2. /\ Mine(w) \in events /\ Mine(w) \in Key /\ Mine(w).kind = "aggregate"
      /\ worker[w] \in Run /\ worker[w].target = rev + 1
  BY <1>1, MineTyped DEF Base, RunsOK, Aggregating
<1>3. s \in Slot /\ gen \in Nat /\ rev \in Nat
  BY <1>2, SlotTyped, AggregationAssumption DEF Base, StateOK
<1>4. worker[w].seen \in Nat /\ worker[w].seen =< captured[s]
  BY <1>1, <1>2 DEF Base, SeenOK, Run
<1> HIDE DEF s
<1>5. K \subseteq Key
  BY <1>3 DEF Event, Key
<1>6. /\ QueueOK' /\ events' = events \cup K /\ events \subseteq events'
  BY <1>1, <1>5, UpsertTyped DEF Base
<1>7. StateOK'
  <2>1. aggregated' \in [Slot -> Nat]
    BY <1>1, <1>3, <1>4 DEF Base, StateOK
  <2>2. ASSUME NEW t \in Slot PROVE aggregated'[t] =< captured'[t]
    BY <1>1, <1>3, <1>4 DEF Base, StateOK
  <2>3. stamped' \subseteq Nat \X Slot
    BY <1>1, <1>2, <1>3 DEF Base, StateOK
  <2>4. rev' \in Nat /\ profile' \in 0..rev'
    BY <1>1, <1>3 DEF Base, StateOK
  <2>5. QED
    BY <1>1, <2>1, <2>2, <2>3, <2>4 DEF Base, StateOK
<1>8. ExposureOK' /\ faults' \in 0..MaxFaults
  BY <1>1 DEF Base, ExposureOK, exposureVars
<1>9. WorkerOK' /\ worker'[w].at = "idle" /\ \A v \in Worker : v # w => worker'[v] = worker[v]
  BY <1>1, <1>6, FinishTyped DEF Base
<1>10. \A k \in K : /\ k.kind \in {"aggregate", "insights"}
                    /\ k.kind = "aggregate" => k.n = gen
                    /\ k.kind = "insights" => k.n = rev + 1
  BY DEF Event
<1>11. EventsOK'
  <2> SUFFICES ASSUME NEW k \in events'
               PROVE  /\ k.kind = "aggregate" => k.n =< gen
                      /\ k.kind \in {"insights", "learning"} => k.n =< rev + 1
                      /\ k.kind = "recommendations" => k.n =< profile
    BY <1>1 DEF EventsOK
  <2>1. CASE k \in events
    BY <1>3, <2>1 DEF Base, EventsOK, QueueOK, Key
  <2>2. CASE k \in K
    BY <1>3, <1>10, <2>2
  <2>3. QED
    BY <1>6, <2>1, <2>2
<1>12. \A v \in Worker : ~Aggregating(v)'
  BY <1>1, <1>9 DEF Base, RunsOK, Aggregating
<1>13. RunsOK' /\ SeenOK'
  BY <1>9, <1>12 DEF Base, RunsOK, SeenOK, Aggregating, Mine
<1>14. QED
  BY <1>6, <1>7, <1>8, <1>9, <1>11, <1>13 DEF Base

-----------------------------------------------------------------------------
(* The derived jobs *)

LEMMA TakeBase ==
  ASSUME Base, NEW w \in Worker, NEW k \in jobs, Take(w, k)
  PROVE  Base'
<1>1. UNCHANGED <<stateVars, exposureVars, events, failed, faults>> /\ jobs' = jobs \ {k}
  BY DEF Take
<1>2. k \in events /\ k \in Key /\ k.kind # "aggregate"
  BY DEF Take, Base, QueueOK
<1>3. StateOK' /\ ExposureOK' /\ EventsOK' /\ QueueOK' /\ faults' \in 0..MaxFaults
  BY <1>1 DEF Base, stateVars, StateOK, exposureVars, ExposureOK, EventsOK, QueueOK
<1>4. CASE Current(k)
  <2> DEFINE at == IF k.kind = "recommendations" THEN "generate" ELSE "write"
             r == Started(at, k, 0, 0)
  <2>1. at \in {"query", "generate", "write"}
    OBVIOUS
  <2>2. r \in Run /\ r.at = at /\ r.key = k
    BY <1>2, <2>1, StartedTyped
  <2>3. worker' = [worker EXCEPT ![w] = r]
    BY <1>4 DEF Take, Start
  <2>4. k \in events /\ (r.at # "idle" => r.key \in events)
    BY <1>2, <2>2
  <2> HIDE DEF r
  <2>5. /\ WorkerOK' /\ worker'[w] = r
        /\ \A v \in Worker : v # w => worker'[v] = worker[v]
    BY <1>1, <2>2, <2>3, <2>4, OneRun DEF Base
  <2>6. RunsOK' /\ SeenOK'
    <3>1. UNCHANGED <<gen, rev, captured, aggregated>>
      BY <1>1 DEF stateVars
    <3>2. /\ worker'[w].at \notin {"query", "commit"}
          /\ worker'[w].at \in {"generate", "store"} => worker'[w].key.kind = "recommendations"
          /\ worker'[w].at = "write" => worker'[w].key.kind # "aggregate"
      BY <1>2, <2>2, <2>5
    <3>3. QED
      BY <2>5, <3>1, <3>2, DerivedRun
  <2>7. QED
    BY <1>3, <2>5, <2>6 DEF Base
<1>5. CASE ~Current(k)
  BY <1>1, <1>3, <1>5, SameRuns DEF Take, Base
<1>6. QED
  BY <1>4, <1>5

\* A derived job that ends with what it wrote, an event at most.
LEMMA DerivedEnds ==
  ASSUME Base, NEW w \in Worker, Finish(w), UNCHANGED <<gen, rev, captured, aggregated>>,
         events \subseteq events'
  PROVE  WorkerOK' /\ RunsOK' /\ SeenOK'
<1>1. WorkerOK' /\ worker'[w].at = "idle" /\ \A v \in Worker : v # w => worker'[v] = worker[v]
  BY FinishTyped DEF Base
<1>2. QED
  BY <1>1, DerivedRun

LEMMA InsightsBase ==
  ASSUME Base, NEW w \in Worker, WriteInsights(w)
  PROVE  Base'
<1>1. UNCHANGED <<stateVars, exposureVars, failed, faults>> /\ Finish(w)
  BY DEF WriteInsights
<1>2. StateOK' /\ ExposureOK' /\ faults' \in 0..MaxFaults /\ rev \in Nat
  BY <1>1 DEF Base, stateVars, StateOK, exposureVars, ExposureOK
<1>3. QueueOK' /\ events' \subseteq events \cup {Event("learning", rev, NoSlot)} /\ events \subseteq events'
  <2>1. CASE Mine(w).n = rev
    <3>1. Event("learning", rev, NoSlot) \in Key
      BY <1>2 DEF Event, Key
    <3>2. QED
      BY <1>1, <2>1, <3>1, UpsertTyped DEF WriteInsights, Base
  <2>2. CASE Mine(w).n # rev
    BY <1>1, <2>2 DEF WriteInsights, Base, QueueOK
  <2>3. QED
    BY <2>1, <2>2
<1>4. EventsOK'
  BY <1>1, <1>2, <1>3 DEF Base, EventsOK, Event, stateVars
<1>5. WorkerOK' /\ RunsOK' /\ SeenOK'
  BY <1>1, <1>3, DerivedEnds DEF stateVars
<1>6. QED
  BY <1>2, <1>3, <1>4, <1>5 DEF Base

LEMMA LearnBase ==
  ASSUME Base, NEW w \in Worker, Learn(w)
  PROVE  Base'
<1>1. /\ UNCHANGED <<gen, rev, captured, aggregated, stamped, exposureVars, failed, faults>>
      /\ Finish(w) /\ rev \in Nat /\ profile \in 0..rev
  BY DEF Learn, Base, StateOK
<1>2. profile' \in 0..rev /\ profile' >= profile
  BY <1>1 DEF Learn, Recompute
<1>3. StateOK' /\ ExposureOK' /\ faults' \in 0..MaxFaults
  BY <1>1, <1>2 DEF Base, StateOK, exposureVars, ExposureOK
<1>4. CASE Mine(w).n = rev
  <2>1. profile' = rev /\ Upsert({Event("recommendations", rev, NoSlot)})
    BY <1>4 DEF Learn, Recompute
  <2>2. Event("recommendations", rev, NoSlot) \in Key
    BY <1>1 DEF Event, Key
  <2>3. /\ QueueOK' /\ events \subseteq events'
        /\ events' = events \cup {Event("recommendations", rev, NoSlot)}
    BY <1>1, <2>1, <2>2, UpsertTyped DEF Base
  <2>4. EventsOK'
    BY <1>1, <2>1, <2>3 DEF Base, EventsOK, Event, QueueOK, Key
  <2>5. QED
    BY <1>1, <1>3, <2>3, <2>4, DerivedEnds DEF Base
<1>5. CASE Mine(w).n # rev
  <2>1. UNCHANGED <<profile, events, jobs>>
    BY <1>5 DEF Learn
  <2>2. QueueOK' /\ EventsOK'
    BY <1>1, <2>1 DEF Base, QueueOK, EventsOK
  <2>3. QED
    BY <1>1, <1>3, <2>1, <2>2, DerivedEnds DEF Base
<1>6. QED
  BY <1>4, <1>5

LEMMA GenerateBase ==
  ASSUME Base, NEW w \in Worker, NEW C \in SUBSET Candidate, Generate(w, C)
  PROVE  Base'
<1>1. UNCHANGED <<stateVars, exposureVars, events, jobs, failed, faults>>
  BY DEF Generate
<1>2. StateOK' /\ ExposureOK' /\ EventsOK' /\ QueueOK' /\ faults' \in 0..MaxFaults
  BY <1>1 DEF Base, stateVars, StateOK, exposureVars, ExposureOK, EventsOK, QueueOK
<1>3. /\ Mine(w) \in events /\ Mine(w) \in Key /\ Mine(w).kind = "recommendations"
      /\ worker[w] \in Run
  BY MineTyped DEF Generate, Base, RunsOK
<1> DEFINE r == [worker[w] EXCEPT !.at = "write", !.chosen = C]
<1>4. r \in Run /\ r.at = "write" /\ r.key = Mine(w)
  BY <1>3 DEF Run, Mine
<1>5. worker' = [worker EXCEPT ![w] = r]
  BY DEF Generate, Base, WorkerOK
<1> HIDE DEF r
<1>6. WorkerOK' /\ worker'[w] = r /\ \A v \in Worker : v # w => worker'[v] = worker[v]
  BY <1>1, <1>3, <1>4, <1>5, OneRun DEF Base
<1>7. RunsOK' /\ SeenOK'
  <2>1. UNCHANGED <<gen, rev, captured, aggregated>>
    BY <1>1 DEF stateVars
  <2>2. /\ worker'[w].at \notin {"query", "commit"}
        /\ worker'[w].at \in {"generate", "store"} => worker'[w].key.kind = "recommendations"
        /\ worker'[w].at = "write" => worker'[w].key.kind # "aggregate"
    BY <1>3, <1>4, <1>6
  <2>3. QED
    BY <1>6, <2>1, <2>2, DerivedRun
<1>8. QED
  BY <1>2, <1>6, <1>7 DEF Base

LEMMA PendingFinite == Base => IsFiniteSet(Pending) /\ IsFiniteSet(Pending \ revived)
  BY FS_Subset DEF Base, ExposureOK, Pending

LEMMA KeysFinite ==
  ASSUME NEW n, NEW C \in SUBSET Candidate
  PROVE  IsFiniteSet(Keys(n, C))
<1>1. IsFiniteSet({n}) /\ IsFiniteSet(C)
  BY FS_Singleton, FS_Subset, AggregationAssumption
<1>2. IsFiniteSet({n} \X C)
  BY <1>1, FS_Product
<1>3. Keys(n, C) \subseteq {n} \X C
  BY DEF Keys
<1>4. QED
  BY <1>2, <1>3, FS_Subset

LEMMA RoomTyped ==
  ASSUME IsFiniteSet(Pending)
  PROVE  Room \in Nat /\ Room =< MaxPending /\ (Room > 0 => Cardinality(Pending) + Room = MaxPending)
<1>1. Cardinality(Pending) \in Nat /\ MaxPending \in Nat
  BY FS_CardinalityType, AggregationAssumption
<1>2. QED
  BY <1>1 DEF Room

LEMMA CountBase ==
  ASSUME Base, NEW w \in Worker, Count(w)
  PROVE  /\ Base' /\ UNCHANGED <<stateVars, exposureVars, events, jobs, failed, faults>>
         /\ \A v \in Worker : v # w => worker'[v] = worker[v] /\ worker[v].at # "store"
         /\ \/ worker'[w].at = "idle"
            \/ /\ worker'[w].at = "store" /\ worker'[w].room = Room
               /\ Mine(w)' = Mine(w) /\ Mine(w).n = rev
<1>1. UNCHANGED <<stateVars, exposureVars, events, jobs, failed, faults>>
  BY DEF Count
<1>2. StateOK' /\ ExposureOK' /\ EventsOK' /\ QueueOK' /\ faults' \in 0..MaxFaults
  BY <1>1 DEF Base, stateVars, StateOK, exposureVars, ExposureOK, EventsOK, QueueOK
<1>3. \A v \in Worker : worker[v].at # "store"
  BY DEF Count, RowLocked
<1>4. /\ Mine(w) \in events /\ Mine(w) \in Key /\ Mine(w).kind = "recommendations"
      /\ worker[w] \in Run
  BY MineTyped DEF Count
<1>5. CASE Mine(w).n = rev
  <2> DEFINE r == [worker[w] EXCEPT !.at = "store", !.room = Room]
  <2>1. r \in Run /\ r.at = "store" /\ r.room = Room /\ r.key = Mine(w)
    BY <1>4, RoomTyped, PendingFinite DEF Run, Mine
  <2>2. worker' = [worker EXCEPT ![w] = r]
    BY <1>5 DEF Count, Base, WorkerOK
  <2> HIDE DEF r
  <2>3. WorkerOK' /\ worker'[w] = r /\ \A v \in Worker : v # w => worker'[v] = worker[v]
    BY <1>1, <1>4, <2>1, <2>2, OneRun DEF Base
  <2>4. RunsOK' /\ SeenOK'
    <3>1. UNCHANGED <<gen, rev, captured, aggregated>>
      BY <1>1 DEF stateVars
    <3>2. /\ worker'[w].at \notin {"query", "commit"}
          /\ worker'[w].at \in {"generate", "store"} => worker'[w].key.kind = "recommendations"
          /\ worker'[w].at = "write" => worker'[w].key.kind # "aggregate"
      BY <1>4, <2>1, <2>3
    <3>3. QED
      BY <2>3, <3>1, <3>2, DerivedRun
  <2>5. Mine(w)' = Mine(w)
    BY <2>1, <2>3 DEF Mine
  <2>6. QED
    BY <1>1, <1>2, <1>3, <1>5, <2>1, <2>3, <2>4, <2>5 DEF Base
<1>6. CASE Mine(w).n # rev
  <2>1. Finish(w)
    BY <1>6 DEF Count
  <2>2. WorkerOK' /\ worker'[w].at = "idle" /\ \A v \in Worker : v # w => worker'[v] = worker[v]
    BY <1>1, <2>1, FinishTyped DEF Base
  <2>3. RunsOK' /\ SeenOK'
    BY <1>1, <2>1, DerivedEnds DEF stateVars
  <2>4. QED
    BY <1>1, <1>2, <1>3, <2>2, <2>3 DEF Base
<1>7. QED
  BY <1>5, <1>6

LEMMA StoreBase ==
  ASSUME Base, NEW w \in Worker, Store(w)
  PROVE  Base'
<1>1. UNCHANGED <<stateVars, call, calls, revived, events, jobs, failed, faults>> /\ Finish(w)
  BY DEF Store
<1>2. StateOK' /\ EventsOK' /\ QueueOK' /\ faults' \in 0..MaxFaults
  BY <1>1 DEF Base, stateVars, StateOK, EventsOK, QueueOK
<1>3. worker[w].at = "store" /\ worker[w].chosen \subseteq Candidate /\ Mine(w).n \in Nat
  BY MineTyped DEF Store, Run
<1>4. PICK K \in Fitting(Mine(w).n, worker[w].chosen, worker[w].room) :
        exposure' = [k \in DOMAIN exposure \cup K |-> IF k \in K THEN "EXPOSED" ELSE exposure[k]]
  BY DEF Store
<1>5. K \subseteq Nat \X Candidate
  BY <1>3 DEF Fitting, Keys
<1>6. DOMAIN exposure' = DOMAIN exposure \cup K
  BY <1>4
<1>7. exposure' \in [DOMAIN exposure' -> Exposure]
  <2>1. ASSUME NEW k \in DOMAIN exposure \cup K
        PROVE  (IF k \in K THEN "EXPOSED" ELSE exposure[k]) \in Exposure
    BY DEF Base, ExposureOK, Exposure
  <2>2. QED
    BY <1>4, <1>6, <2>1
<1>8. call' \in [Client -> {NoCall} \cup [op : Op, of : DOMAIN exposure']]
  BY <1>1, <1>6 DEF Base, ExposureOK
<1>9. ExposureOK'
  <2>1. IsFiniteSet(K)
    BY <1>3, KeysFinite, FS_Subset DEF Fitting
  <2>2. IsFiniteSet(DOMAIN exposure')
    <3>1. IsFiniteSet(DOMAIN exposure \cup K)
      BY <2>1, FS_Union DEF Base, ExposureOK
    <3>2. QED
      BY <1>6, <3>1, Zenon
  <2>3. QED
    BY <1>1, <1>5, <1>6, <1>7, <1>8, <2>2 DEF Base, ExposureOK
<1>10. WorkerOK' /\ RunsOK' /\ SeenOK'
  BY <1>1, DerivedEnds DEF stateVars
<1>11. QED
  BY <1>2, <1>9, <1>10 DEF Base

-----------------------------------------------------------------------------
(* Calls *)

LEMMA CallBase ==
  ASSUME Base, NEW c \in Client,
         \/ WriteExposure(c) \/ DropCall(c)
         \/ \E op \in Op, k \in DOMAIN exposure : ReadExposure(c, op, k)
  PROVE  Base'
<1>1. UNCHANGED <<stateVars, worker, events, jobs, failed>>
  BY DEF WriteExposure, DropCall, ReadExposure
<1>2. StateOK' /\ WorkerOK' /\ EventsOK' /\ RunsOK' /\ SeenOK' /\ QueueOK'
  BY <1>1, SameRuns DEF Base, QueueOK
<1>3. CASE WriteExposure(c)
  <2>1. call[c] \in [op : Op, of : DOMAIN exposure]
    BY <1>3 DEF WriteExposure, Base, ExposureOK
  <2>2. call[c].of \in DOMAIN exposure /\ To(call[c].op) \in Exposure
    BY <2>1 DEF To, Op, Exposure
  <2>3. DOMAIN exposure' = DOMAIN exposure /\ exposure' \in [DOMAIN exposure' -> Exposure]
    BY <1>3, <2>2 DEF WriteExposure, Base, ExposureOK
  <2>4. call' \in [Client -> {NoCall} \cup [op : Op, of : DOMAIN exposure']]
    BY <1>3, <2>3 DEF WriteExposure, Base, ExposureOK
  <2>5. revived' \subseteq DOMAIN exposure' /\ UNCHANGED <<calls, faults>>
    BY <1>3, <2>2, <2>3 DEF WriteExposure, Base, ExposureOK
  <2>6. IsFiniteSet(DOMAIN exposure')
    BY <2>3 DEF Base, ExposureOK
  <2>7. QED
    BY <1>2, <2>3, <2>4, <2>5, <2>6 DEF Base, ExposureOK
<1>4. CASE DropCall(c)
  <2>1. ExposureOK'
    BY <1>4 DEF DropCall, Base, ExposureOK
  <2>2. faults' \in 0..MaxFaults
    BY <1>4, AggregationAssumption DEF DropCall, Spend, Base
  <2>3. QED
    BY <1>2, <2>1, <2>2 DEF Base
<1>5. ASSUME NEW op \in Op, NEW k \in DOMAIN exposure, ReadExposure(c, op, k)
      PROVE  Base'
  <2>1. [op |-> op, of |-> k] \in [op : Op, of : DOMAIN exposure]
    OBVIOUS
  <2>2. call' \in [Client -> {NoCall} \cup [op : Op, of : DOMAIN exposure]]
    BY <1>5, <2>1 DEF ReadExposure, Base, ExposureOK
  <2>3. calls' \in 0..MaxCalls
    BY <1>5, AggregationAssumption DEF ReadExposure, Base, ExposureOK
  <2>4. ExposureOK' /\ faults' \in 0..MaxFaults
    BY <1>5, <2>2, <2>3 DEF ReadExposure, Base, ExposureOK
  <2>5. QED
    BY <1>2, <2>4 DEF Base
<1>6. QED
  BY <1>3, <1>4, <1>5

-----------------------------------------------------------------------------
(* Types *)

LEMMA BaseStep == Base /\ [Next]_vars => Base'
<1> SUFFICES ASSUME Base, [Next]_vars PROVE Base'
  OBVIOUS
<1>1. ASSUME NEW s \in Slot, Capture(s) PROVE Base'
  BY <1>1, CaptureBase
<1>2. CASE \E k \in events : Redeliver(k)
  BY <1>2, QueueBase
<1>3. ASSUME NEW w \in Worker, AggregateStep(w) PROVE Base'
  BY <1>3, AcquireBase, QueryBase, CommitBase DEF AggregateStep
<1>4. ASSUME NEW w \in Worker, DerivedStep(w) PROVE Base'
  BY <1>4, TakeBase, InsightsBase, LearnBase, GenerateBase, CountBase, StoreBase DEF DerivedStep
<1>5. ASSUME NEW w \in Worker, JobFails(w) \/ Crash(w) PROVE Base'
  BY <1>5, QueueBase
<1>6. ASSUME NEW c \in Client, 
             \/ WriteExposure(c) \/ DropCall(c)
             \/ \E op \in Op, k \in DOMAIN exposure : ReadExposure(c, op, k)
      PROVE  Base'
  BY <1>6, CallBase
<1>7. CASE UNCHANGED vars
  BY <1>7 DEF vars, stateVars, exposureVars, Base, StateOK, ExposureOK, QueueOK, WorkerOK,
              EventsOK, RunsOK, SeenOK, Aggregating, Mine
<1>8. QED
  BY <1>1, <1>2, <1>3, <1>4, <1>5, <1>6, <1>7 DEF Next

LEMMA BaseHolds == Spec => []Base
  BY BaseInitially, BaseStep, PTL DEF Spec

\* Every step keeps the types, and with them that no event is ahead of its generation or
\* revision and that the runs of aggregateAccountPerformance exclude each other.
THEOREM TypeCorrect == Spec => []TypeOK
  BY BaseHolds, BaseTypes, PTL

-----------------------------------------------------------------------------
(* The profile *)

LEMMA ProfileStep == Base /\ [Next]_vars => (profile' >= profile)
<1> SUFFICES ASSUME Base, [Next]_vars PROVE profile' >= profile
  OBVIOUS
<1>1. profile \in Nat /\ rev \in Nat /\ profile =< rev
  BY DEF Base, StateOK
<1>2. ASSUME NEW w \in Worker, Learn(w) PROVE profile' >= profile
  BY <1>1, <1>2 DEF Learn, Recompute
<1>3. CASE UNCHANGED vars
  BY <1>1, <1>3 DEF vars, stateVars
<1>4. ASSUME NEW w \in Worker, AggregateStep(w) PROVE UNCHANGED profile
  BY <1>4 DEF AggregateStep, Acquire, Query, CommitAggregates, stateVars
<1>5. ASSUME NEW w \in Worker, DerivedStep(w), ~Learn(w) PROVE UNCHANGED profile
  BY <1>5 DEF DerivedStep, Take, WriteInsights, Generate, Count, Store, stateVars
<1>6. CASE Next
  <2>1. (\E w \in Worker : Learn(w)) \/ UNCHANGED profile
    BY <1>4, <1>5, <1>6
    DEF Next, stateVars, Capture, Redeliver, JobFails, Crash, WriteExposure, DropCall, ReadExposure
  <2>2. QED
    BY <1>1, <1>2, <2>1
<1>7. QED
  BY <1>3, <1>6

\* processProfileLearningJob compares the revision again under the row's lock: the
\* learned profile never goes back to an earlier revision.
THEOREM Forward == Spec => ProfileForward
<1>1. Base /\ [Next]_vars => [profile' >= profile]_vars
  BY ProfileStep
<1>2. QED
  BY <1>1, BaseHolds, PTL DEF Spec, ProfileForward

-----------------------------------------------------------------------------
(* Stamps *)

LEMMA StampedInitially == Init => StampedAsCounted
  BY DEF Init, StampedAsCounted

\* The steps that add neither a stamp nor an insights event.
LEMMA StampedKept ==
  ASSUME StampedAsCounted, UNCHANGED <<stamped, rev>>,
         \A k \in events' : k.kind = "insights" => k \in events
  PROVE  StampedAsCounted'
  BY DEF StampedAsCounted

LEMMA StampedStep == Base /\ StampedAsCounted /\ [Next]_vars => StampedAsCounted'
<1> SUFFICES ASSUME Base, StampedAsCounted, [Next]_vars PROVE StampedAsCounted'
  OBVIOUS
<1>1. ASSUME NEW s \in Slot, Capture(s) PROVE StampedAsCounted'
  BY <1>1, StampedKept DEF Capture, Upsert, Event
<1>2. ASSUME NEW w \in Worker, CommitAggregates(w) PROVE StampedAsCounted'
  <2> DEFINE s == Mine(w).slot
  <2>1. worker[w].target = rev + 1 /\ rev \in Nat /\ stamped \subseteq Nat \X Slot
    BY <1>2 DEF CommitAggregates, Base, RunsOK, Aggregating, StateOK
  <2>2. rev' = rev + 1 /\ stamped' = stamped \cup {<<rev + 1, s>>}
    BY <1>2, <2>1 DEF CommitAggregates
  <2>3. \A k \in events' : k.kind = "insights" => k \in events \/ (k.n = rev + 1 /\ k.slot = s)
    BY <1>2 DEF CommitAggregates, Upsert, Event
  <2> HIDE DEF s
  <2>4. \A x \in stamped : x[1] \in Nat /\ x[1] =< rev
    BY <2>1 DEF StampedAsCounted
  <2>5. \A x \in stamped' : x[1] =< rev'
    BY <2>1, <2>2, <2>4
  <2>6. \A x, y \in stamped' : x[1] = y[1] => x = y
    BY <2>1, <2>2, <2>4 DEF StampedAsCounted
  <2>7. \A k \in events' : k.kind = "insights" => <<k.n, k.slot>> \in stamped'
    BY <2>2, <2>3 DEF StampedAsCounted
  <2>8. QED
    BY <2>5, <2>6, <2>7 DEF StampedAsCounted
<1>3. ASSUME NEW w \in Worker, WriteInsights(w) \/ Learn(w) PROVE StampedAsCounted'
  BY <1>3, StampedKept DEF WriteInsights, Learn, Recompute, Upsert, Event, stateVars
<1>4. CASE UNCHANGED <<stateVars, events>>
  BY <1>4, StampedKept DEF stateVars
<1>5. CASE UNCHANGED vars
  BY <1>4, <1>5 DEF vars
<1>6. CASE Next
  BY <1>1, <1>2, <1>3, <1>4, <1>6
  DEF Next, AggregateStep, DerivedStep, Redeliver, JobFails, Crash,
      WriteExposure, DropCall, ReadExposure, Acquire, Query, Take, Generate, Count, Store
<1>7. QED
  BY <1>5, <1>6

\* The advisory lock is held from the snapshot of the revision to the commit: every
\* revision is one run's, and the insights of a revision find its aggregates.
THEOREM Stamped == Spec => []StampedAsCounted
  BY BaseHolds, StampedInitially, StampedStep, PTL DEF Spec

-----------------------------------------------------------------------------
(* Captures and revisions are remembered *)

\* A step that changes one run keeps an event underway, unless the run was for it and
\* the step lets it drop.
LEMMA UnderwayKept ==
  ASSUME NEW k, Underway(k), NEW w \in Worker,
         \A v \in Worker : v # w => worker'[v] = worker[v],
         k \in jobs \cup failed => Underway(k)',
         worker[w].at # "idle" /\ Mine(w) = k => Underway(k)'
  PROVE  Underway(k)'
  BY DEF Underway, Mine

\* So does one that changes no run and takes nothing from the queue.
LEMMA UnderwayQueued ==
  ASSUME NEW k, Underway(k), UNCHANGED worker, jobs \subseteq jobs', failed \subseteq failed'
  PROVE  Underway(k)'
  BY DEF Underway, Mine

\* The steps of a run, but for those that finish its work, keep every current event
\* underway: a job taken is run, or failed where it meets the lock; a run that fails or
\* dies puts its job on record.
LEMMA RunKeeps ==
  ASSUME Base, NEW w \in Worker, NEW k \in Key, Underway(k),
         k.kind \in {"insights", "learning"} => k.n = rev,
         k.kind # "recommendations",
         \/ \E j \in jobs : Acquire(w, j) \/ Take(w, j)
         \/ Query(w) \/ JobFails(w) \/ Crash(w)
         \/ \E C \in SUBSET Candidate : Generate(w, C)
         \/ Count(w) \/ Store(w)
  PROVE  Underway(k)'
<1> USE DEF Mine
<1>0. worker \in [Worker -> Run]
  BY DEF Base, WorkerOK
<1>1. ASSUME NEW j \in jobs, Acquire(w, j) PROVE Underway(k)'
  <2>1. worker[w].at = "idle" /\ jobs' = jobs \ {j}
    BY <1>1 DEF Acquire
  <2>2. CASE Locked
    BY <1>1, <2>1, <2>2 DEF Acquire, Underway
  <2>3. CASE ~Locked
    <3>1. worker'[w].at = "query" /\ worker'[w].key = j /\ UNCHANGED failed
      BY <1>0, <1>1, <2>3 DEF Acquire, StartRun, Started
    <3>2. \A v \in Worker : v # w => worker'[v] = worker[v]
      BY <1>0, <1>1, <2>3 DEF Acquire, StartRun
    <3>3. k \in jobs \cup failed => Underway(k)'
      BY <2>1, <3>1 DEF Underway
    <3>4. QED
      BY <2>1, <3>2, <3>3, UnderwayKept
  <2>4. QED
    BY <2>2, <2>3
<1>2. ASSUME NEW j \in jobs, Take(w, j) PROVE Underway(k)'
  <2>1. worker[w].at = "idle" /\ jobs' = jobs \ {j} /\ UNCHANGED failed /\ j.kind # "aggregate"
    BY <1>2 DEF Take
  <2>2. CASE Current(j)
    <3>1. worker'[w].at # "idle" /\ worker'[w].key = j
      BY <1>0, <1>2, <2>2 DEF Take, Start, Started
    <3>2. \A v \in Worker : v # w => worker'[v] = worker[v]
      BY <1>0, <1>2, <2>2 DEF Take, Start
    <3>3. k \in jobs \cup failed => Underway(k)'
      BY <2>1, <3>1 DEF Underway
    <3>4. QED
      BY <2>1, <3>2, <3>3, UnderwayKept
  <2>3. CASE ~Current(j)
    <3>1. k # j
      BY <2>1, <2>3 DEF Current, Key
    <3>2. UNCHANGED worker
      BY <1>2, <2>3 DEF Take
    <3>3. QED
      BY <2>1, <3>1, <3>2 DEF Underway
  <2>4. QED
    BY <2>2, <2>3
<1>3. CASE Query(w)
  <2>1. /\ worker'[w].at = "commit" /\ worker'[w].key = worker[w].key /\ UNCHANGED <<jobs, failed>>
        /\ \A v \in Worker : v # w => worker'[v] = worker[v]
    BY <1>0, <1>3 DEF Query, Run
  <2>2. QED
    BY <2>1, UnderwayKept DEF Underway
<1>4. ASSUME NEW C \in SUBSET Candidate, Generate(w, C) PROVE Underway(k)'
  <2>1. /\ worker'[w].at = "write" /\ worker'[w].key = worker[w].key /\ UNCHANGED <<jobs, failed>>
        /\ \A v \in Worker : v # w => worker'[v] = worker[v]
    BY <1>0, <1>4 DEF Generate, Run
  <2>2. QED
    BY <2>1, UnderwayKept DEF Underway
<1>5. CASE Count(w) \/ Store(w)
  <2>1. UNCHANGED <<jobs, failed>> /\ \A v \in Worker : v # w => worker'[v] = worker[v]
    BY <1>0, <1>5 DEF Count, Store, Finish
  <2>2. worker[w].at # "idle" /\ Mine(w).kind = "recommendations"
    BY <1>5 DEF Count, Store, Base, RunsOK
  <2>3. Mine(w) # k
    BY <2>2
  <2>4. k \in jobs \cup failed => Underway(k)'
    BY <2>1 DEF Underway
  <2>5. QED
    BY <2>1, <2>3, <2>4, UnderwayKept
<1>6. CASE JobFails(w) \/ Crash(w)
  <2>1. /\ \A v \in Worker : v # w => worker'[v] = worker[v]
        /\ jobs \subseteq jobs' /\ failed \subseteq failed'
        /\ Mine(w) \in jobs' \cup failed'
    BY <1>0, <1>6 DEF JobFails, Crash, Finish
  <2>2. QED
    BY <2>1, UnderwayKept DEF Underway
<1>7. QED
  BY <1>1, <1>2, <1>3, <1>4, <1>5, <1>6

\* A run whose work is finished drops its own job and no other.
LEMMA EndKeeps ==
  ASSUME Base, NEW w \in Worker, NEW k, Underway(k), Mine(w) # k,
         Finish(w), jobs \subseteq jobs', failed \subseteq failed'
  PROVE  Underway(k)'
<1>1. \A v \in Worker : v # w => worker'[v] = worker[v]
  BY DEF Finish, Base, WorkerOK
<1>2. k \in jobs \cup failed => Underway(k)'
  BY DEF Underway
<1>3. QED
  BY <1>1, <1>2, UnderwayKept

\* CaptureRemembered by the event instead of the slot.
CaptureKept ==
  \A s \in Slot, k \in Key :
    k = Event("aggregate", captured[s], s) /\ captured[s] > aggregated[s] => Underway(k)

LEMMA CaptureKeptImplies == Base /\ CaptureKept => CaptureRemembered
<1> SUFFICES ASSUME Base, CaptureKept, NEW s \in Slot, captured[s] > aggregated[s]
             PROVE  Underway(Event("aggregate", captured[s], s))
  BY DEF CaptureRemembered
<1>1. captured[s] \in Nat
  BY AggregationAssumption DEF Base, StateOK
<1>2. Event("aggregate", captured[s], s) \in Key
  BY <1>1 DEF Event, Key
<1>3. QED
  BY <1>2 DEF CaptureKept

\* The steps that leave the captures alone.
LEMMA CaptureOther ==
  ASSUME CaptureKept, UNCHANGED <<captured, aggregated>>,
         \A k \in Key : k.kind = "aggregate" /\ Underway(k) => Underway(k)'
  PROVE  CaptureKept'
<1>1. \A k, n, s : k = Event("aggregate", n, s) => k.kind = "aggregate"
  BY DEF Event
<1>2. QED
  BY <1>1 DEF CaptureKept

LEMMA CaptureCommit ==
  ASSUME Base, CaptureKept, NEW w \in Worker, CommitAggregates(w)
  PROVE  CaptureKept'
<1> DEFINE t == Mine(w).slot
<1>1. worker[w].at = "commit" /\ Mine(w) \in Key /\ Mine(w).kind = "aggregate" /\ worker[w] \in Run
  BY MineTyped DEF CommitAggregates, Base, RunsOK, Aggregating
<1>2. t \in Slot /\ Mine(w) = Event("aggregate", Mine(w).n, t) /\ worker[w].seen \in Nat
  BY <1>1, SlotTyped DEF Run
<1>3. /\ aggregated[t] =< worker[w].seen /\ worker[w].seen =< captured[t]
      /\ Mine(w).n = captured[t] => worker[w].seen = captured[t]
  BY <1>1 DEF Base, SeenOK
<1>4. /\ aggregated' = [aggregated EXCEPT ![t] = worker[w].seen] /\ Finish(w)
      /\ UNCHANGED <<captured, failed>> /\ jobs \subseteq jobs'
  BY DEF CommitAggregates, Upsert
<1>5. aggregated \in [Slot -> Nat] /\ \A s \in Slot : captured[s] \in Nat
  BY AggregationAssumption DEF Base, StateOK
<1> HIDE DEF t
<1> SUFFICES ASSUME NEW s \in Slot, NEW k \in Key,
                    k = Event("aggregate", captured[s], s), captured[s] > aggregated'[s]
             PROVE  Underway(k)'
  BY <1>4 DEF CaptureKept
<1>6. captured[s] > aggregated[s] /\ Mine(w) # k
  <2>1. CASE s = t
    <3>1. captured[s] > worker[w].seen
      BY <1>2, <1>4, <1>5, <2>1
    <3>2. captured[s] > aggregated[s] /\ Mine(w).n # captured[s]
      BY <1>2, <1>3, <1>5, <2>1, <3>1
    <3>3. QED
      BY <3>2 DEF Event
  <2>2. CASE s # t
    <3>1. aggregated'[s] = aggregated[s]
      BY <1>4, <1>5, <2>2
    <3>2. QED
      BY <1>2, <2>2, <3>1 DEF Event
  <2>3. QED
    BY <2>1, <2>2
<1>7. Underway(k)
  BY <1>6 DEF CaptureKept
<1>8. QED
  BY <1>4, <1>6, <1>7, EndKeeps

LEMMA CaptureStep == Base /\ CaptureKept /\ [Next]_vars => CaptureKept'
<1> SUFFICES ASSUME Base, CaptureKept, [Next]_vars PROVE CaptureKept'
  OBVIOUS
<1>1. ASSUME NEW s \in Slot, Capture(s) PROVE CaptureKept'
  <2> DEFINE new == Event("aggregate", gen + 1, s)
  <2>1. /\ captured' = [captured EXCEPT ![s] = gen + 1] /\ Upsert({new})
        /\ UNCHANGED <<aggregated, failed, worker>>
    BY <1>1 DEF Capture
  <2>2. gen \in Nat /\ captured \in [Slot -> 0..gen]
    BY AggregationAssumption DEF Base, StateOK
  <2>3. new \notin events
    BY <2>2 DEF Base, EventsOK, Event
  <2>4. new \in jobs' /\ jobs \subseteq jobs'
    BY <2>1, <2>3 DEF Upsert
  <2> SUFFICES ASSUME NEW t \in Slot, NEW k \in Key, captured'[t] > aggregated'[t],
                      k = Event("aggregate", captured'[t], t)
               PROVE  Underway(k)'
    BY DEF CaptureKept
  <2>5. CASE t = s
    <3>1. k = new
      BY <2>1, <2>2, <2>5
    <3>2. QED
      BY <2>4, <3>1 DEF Underway
  <2>6. CASE t # s
    <3>1. captured'[t] = captured[t]
      BY <2>1, <2>2, <2>6
    <3>2. Underway(k)
      BY <2>1, <3>1 DEF CaptureKept
    <3>3. QED
      BY <2>1, <2>4, <3>2, UnderwayQueued
  <2>7. QED
    BY <2>5, <2>6
<1>2. ASSUME NEW w \in Worker, WriteInsights(w) \/ Learn(w) PROVE CaptureKept'
  <2>1. /\ Finish(w) /\ Mine(w).kind # "aggregate" /\ jobs \subseteq jobs'
        /\ UNCHANGED <<failed, captured, aggregated>>
    BY <1>2 DEF WriteInsights, Learn, Recompute, Upsert, stateVars
  <2>2. ASSUME NEW k \in Key, k.kind = "aggregate", Underway(k) PROVE Underway(k)'
    BY <2>1, <2>2, EndKeeps
  <2>3. QED
    BY <2>1, <2>2, CaptureOther
<1>3. ASSUME NEW w \in Worker,
             \/ \E j \in jobs : Acquire(w, j) \/ Take(w, j)
             \/ Query(w) \/ JobFails(w) \/ Crash(w)
             \/ \E C \in SUBSET Candidate : Generate(w, C)
             \/ Count(w) \/ Store(w)
      PROVE  CaptureKept'
  <2>1. ASSUME NEW k \in Key, k.kind = "aggregate", Underway(k) PROVE Underway(k)'
    BY <1>3, <2>1, RunKeeps
  <2>2. UNCHANGED <<captured, aggregated>>
    BY <1>3 DEF Acquire, Take, Query, JobFails, Crash, Generate, Count, Store, stateVars
  <2>3. QED
    BY <2>1, <2>2, CaptureOther
<1>4. ASSUME UNCHANGED <<stateVars, worker, failed>>, jobs \subseteq jobs' PROVE CaptureKept'
  <2>1. ASSUME NEW k \in Key, Underway(k) PROVE Underway(k)'
    BY <1>4, <2>1, UnderwayQueued
  <2>2. QED
    BY <1>4, <2>1, CaptureOther DEF stateVars
<1>5. CASE (\E k \in events : Redeliver(k)) \/ UNCHANGED vars
  BY <1>4, <1>5 DEF Redeliver, vars
<1>6. ASSUME NEW c \in Client,
             \/ WriteExposure(c) \/ DropCall(c)
             \/ \E op \in Op, k \in DOMAIN exposure : ReadExposure(c, op, k)
      PROVE  CaptureKept'
  BY <1>4, <1>6 DEF WriteExposure, DropCall, ReadExposure
<1>7. QED
  BY <1>1, <1>2, <1>3, <1>5, <1>6, CaptureCommit DEF Next, AggregateStep, DerivedStep

\* The event of a capture brings a job, a run that reads before a capture is not for it:
\* what the aggregates have not seen stays in the queue, in a run or among the failed.
THEOREM Captures == Spec => []CaptureRemembered
<1>1. Init => CaptureKept
  BY DEF Init, CaptureKept
<1>2. QED
  BY <1>1, BaseHolds, CaptureStep, CaptureKeptImplies, PTL DEF Spec

\* RevisionRemembered by the event, and what makes it inductive: a learning job of the
\* last revision that was ever asked for is itself underway until the profile is there.
RevisionKept ==
  profile < rev =>
    /\ \E k \in Key : k.kind \in {"insights", "learning"} /\ k.n = rev /\ Underway(k)
    /\ \A k \in events : k.kind = "learning" /\ k.n = rev => Underway(k)

LEMMA RevisionKeptImplies == Base /\ RevisionKept => RevisionRemembered
<1> SUFFICES ASSUME Base, RevisionKept, profile < rev
             PROVE  \/ Underway(Event("learning", rev, NoSlot))
                    \/ \E s \in Slot : Underway(Event("insights", rev, s))
  BY DEF RevisionRemembered
<1>1. PICK k \in Key : k.kind \in {"insights", "learning"} /\ k.n = rev /\ Underway(k)
  BY DEF RevisionKept
<1>2. CASE k.kind = "insights"
  <2>1. k.slot \in Slot /\ k = Event("insights", rev, k.slot)
    BY <1>1, <1>2, SlotTyped
  <2>2. QED
    BY <1>1, <2>1
<1>3. CASE k.kind = "learning"
  <2>1. k = Event("learning", rev, NoSlot)
    BY <1>1, <1>3 DEF Key, Event
  <2>2. QED
    BY <1>1, <2>1
<1>4. QED
  BY <1>1, <1>2, <1>3

\* The steps that leave revision and profile alone and ask for no learning job.
LEMMA RevisionOther ==
  ASSUME RevisionKept, UNCHANGED <<rev, profile>>, QueueOK,
         \A k \in events' : k.kind = "learning" => k \in events,
         \A k \in Key : /\ k.kind \in {"insights", "learning"} /\ k.n = rev /\ Underway(k)
                        => Underway(k)'
  PROVE  RevisionKept'
  BY DEF RevisionKept, QueueOK

LEMMA RevisionCommit ==
  ASSUME Base, NEW w \in Worker, CommitAggregates(w)
  PROVE  RevisionKept'
<1> DEFINE s == Mine(w).slot
<1>1. Mine(w) \in Key /\ Mine(w).kind = "aggregate"
  BY MineTyped DEF CommitAggregates, Base, RunsOK, Aggregating
<1>2. s \in Slot /\ rev \in Nat
  BY <1>1, SlotTyped DEF Base, StateOK
<1> HIDE DEF s
<1>3. PICK new \in Key : new = Event("insights", rev + 1, s)
  <2>1. Event("insights", rev + 1, s) \in Key
    BY <1>2 DEF Event, Key
  <2>2. QED
    BY <2>1
<1>4. PICK followUp :
        /\ followUp \subseteq {Event("aggregate", gen, s)} /\ Upsert(followUp \cup {new})
        /\ rev' = rev + 1
  BY <1>3 DEF CommitAggregates, s
<1>5. new.kind = "insights" /\ new.n = rev + 1
  BY <1>3 DEF Event
<1>6. new \notin events
  BY <1>2, <1>5 DEF Base, EventsOK
<1>7. Underway(new)'
  BY <1>4, <1>6 DEF Upsert, Underway
<1>8. ASSUME NEW k \in events' PROVE ~(k.kind = "learning" /\ k.n = rev + 1)
  <2>1. CASE k \in events
    BY <1>2, <2>1 DEF Base, EventsOK
  <2>2. CASE k \notin events
    BY <1>4, <1>5, <2>2 DEF Upsert, Event
  <2>3. QED
    BY <2>1, <2>2
<1>9. QED
  BY <1>4, <1>5, <1>7, <1>8 DEF RevisionKept

LEMMA RevisionInsights ==
  ASSUME Base, RevisionKept, NEW w \in Worker, WriteInsights(w)
  PROVE  RevisionKept'
<1>1. /\ UNCHANGED <<rev, profile, failed>> /\ Finish(w) /\ Mine(w).kind = "insights"
      /\ jobs \subseteq jobs'
  BY DEF WriteInsights, stateVars, Upsert
<1>2. CASE Mine(w).n # rev
  <2>1. UNCHANGED events
    BY <1>2 DEF WriteInsights
  <2>2. ASSUME NEW k \in Key, k.n = rev, Underway(k) PROVE Underway(k)'
    BY <1>1, <1>2, <2>2, EndKeeps
  <2>3. QED
    BY <1>1, <2>1, <2>2, RevisionOther DEF Base
<1>3. CASE Mine(w).n = rev
  <2>1. Upsert({Event("learning", rev, NoSlot)}) /\ rev \in Nat
    BY <1>3 DEF WriteInsights, Base, StateOK
  <2> SUFFICES ASSUME profile < rev PROVE RevisionKept'
    BY <1>1 DEF RevisionKept
  <2>2. ASSUME NEW k \in events', k.kind = "learning", k.n = rev PROVE Underway(k)'
    <3>1. CASE k \in events
      <4>1. Underway(k) /\ Mine(w) # k
        BY <1>1, <2>2, <3>1 DEF RevisionKept
      <4>2. QED
        BY <1>1, <4>1, EndKeeps
    <3>2. CASE k \notin events
      BY <2>1, <2>2, <3>2 DEF Upsert, Underway
    <3>3. QED
      BY <3>1, <3>2
  <2>3. \E k \in Key : k \in events' /\ k.kind = "learning" /\ k.n = rev
    <3>1. PICK k \in Key : k = Event("learning", rev, NoSlot)
      BY <2>1 DEF Event, Key
    <3>2. k \in events' /\ k.kind = "learning" /\ k.n = rev
      BY <2>1, <3>1 DEF Upsert, Event
    <3>3. QED
      BY <3>2
  <2>4. QED
    BY <1>1, <2>2, <2>3 DEF RevisionKept
<1>4. QED
  BY <1>2, <1>3

LEMMA RevisionLearn ==
  ASSUME Base, RevisionKept, NEW w \in Worker, Learn(w)
  PROVE  RevisionKept'
<1>1. /\ UNCHANGED <<rev, failed>> /\ Finish(w) /\ Mine(w).kind = "learning"
      /\ jobs \subseteq jobs' /\ rev \in Nat
  BY DEF Learn, Recompute, Upsert, Base, StateOK
<1>2. CASE Mine(w).n = rev
  BY <1>1, <1>2 DEF Learn, Recompute, RevisionKept
<1>3. CASE Mine(w).n # rev
  <2>1. UNCHANGED <<profile, events>>
    BY <1>3 DEF Learn
  <2>2. ASSUME NEW k \in Key, k.n = rev, Underway(k) PROVE Underway(k)'
    BY <1>1, <1>3, <2>2, EndKeeps
  <2>3. QED
    BY <1>1, <2>1, <2>2, RevisionOther DEF Base
<1>4. QED
  BY <1>2, <1>3

LEMMA RevisionStep == Base /\ RevisionKept /\ [Next]_vars => RevisionKept'
<1> SUFFICES ASSUME Base, RevisionKept, [Next]_vars PROVE RevisionKept'
  OBVIOUS
<1>1. QueueOK
  BY DEF Base
<1>2. ASSUME UNCHANGED <<rev, profile, worker, failed>>, jobs \subseteq jobs',
             \A k \in events' : k.kind = "learning" => k \in events
      PROVE  RevisionKept'
  <2>1. ASSUME NEW k \in Key, Underway(k) PROVE Underway(k)'
    BY <1>2, <2>1, UnderwayQueued
  <2>2. QED
    BY <1>1, <1>2, <2>1, RevisionOther
<1>3. ASSUME NEW s \in Slot, Capture(s) PROVE RevisionKept'
  BY <1>2, <1>3 DEF Capture, Upsert, Event
<1>4. ASSUME NEW w \in Worker,
             \/ \E j \in jobs : Acquire(w, j) \/ Take(w, j)
             \/ Query(w) \/ JobFails(w) \/ Crash(w)
             \/ \E C \in SUBSET Candidate : Generate(w, C)
             \/ Count(w) \/ Store(w)
      PROVE  RevisionKept'
  <2>1. ASSUME NEW k \in Key, k.kind \in {"insights", "learning"}, k.n = rev, Underway(k)
        PROVE  Underway(k)'
    BY <1>4, <2>1, RunKeeps
  <2>2. UNCHANGED <<rev, profile, events>>
    BY <1>4 DEF Acquire, Take, Query, JobFails, Crash, Generate, Count, Store, stateVars
  <2>3. QED
    BY <1>1, <2>1, <2>2, RevisionOther
<1>5. CASE (\E k \in events : Redeliver(k)) \/ UNCHANGED vars
  BY <1>2, <1>5 DEF Redeliver, vars, stateVars
<1>6. ASSUME NEW c \in Client,
             \/ WriteExposure(c) \/ DropCall(c)
             \/ \E op \in Op, k \in DOMAIN exposure : ReadExposure(c, op, k)
      PROVE  RevisionKept'
  BY <1>2, <1>6 DEF WriteExposure, DropCall, ReadExposure, stateVars
<1>7. QED
  BY <1>3, <1>4, <1>5, <1>6, RevisionCommit, RevisionInsights, RevisionLearn
  DEF Next, AggregateStep, DerivedStep

\* A job that stops at a newer revision leaves the work to the events of that one: the
\* last revision's insights or learning job is never dropped.
THEOREM Revisions == Spec => []RevisionRemembered
<1>1. Init => RevisionKept
  BY DEF Init, RevisionKept
<1>2. QED
  BY <1>1, BaseHolds, RevisionStep, RevisionKeptImplies, PTL DEF Spec

-----------------------------------------------------------------------------
(* The budget *)

Held == Pending \ revived

\* While a run stores, under the lock of the sync state's row, its revision is the last
\* and so is the profile's, and what it counted is still free.
Budget ==
  /\ \A v, w \in Worker : worker[v].at = "store" /\ worker[w].at = "store" => v = w
  /\ \A w \in Worker : worker[w].at = "store" =>
       /\ Mine(w).n = rev /\ profile = rev
       /\ Cardinality(Held) + worker[w].room =< MaxPending
  /\ Cardinality(Held) =< MaxPending

LEMMA HeldTyped == Base => IsFiniteSet(Held) /\ Cardinality(Held) \in Nat
  BY PendingFinite, FS_CardinalityType DEF Held

\* The steps of everybody but those who store: no exposure becomes pending.
LEMMA BudgetOther ==
  ASSUME Base, Budget, UNCHANGED <<rev, profile>>, Held' \subseteq Held,
         \A w \in Worker : worker'[w].at = "store" => worker'[w] = worker[w]
  PROVE  Budget'
<1>1. /\ Cardinality(Held') \in Nat /\ Cardinality(Held) \in Nat
      /\ Cardinality(Held') =< Cardinality(Held)
  BY HeldTyped, FS_Subset, FS_CardinalityType
<1>2. \A w \in Worker : worker[w].room \in Nat
  BY DEF Base, WorkerOK, Run
<1>3. Cardinality(Held)' = Cardinality(Held')
  OBVIOUS
<1>4. QED
  BY <1>1, <1>2, <1>3, AggregationAssumption DEF Budget, Mine

\* The steps that end a run while nobody holds the row's lock.
LEMMA BudgetFree ==
  ASSUME Base, Budget, UNCHANGED exposureVars, NEW w \in Worker, ~RowLocked, Finish(w)
  PROVE  Budget'
<1>1. \A v \in Worker : worker'[v].at # "store"
  BY IdleTyped DEF Base, WorkerOK, RowLocked, Finish
<1>2. Held' = Held
  BY DEF Held, Pending, exposureVars
<1>3. QED
  BY <1>1, <1>2 DEF Budget

LEMMA BudgetCount ==
  ASSUME Base, Budget, NEW w \in Worker, Count(w)
  PROVE  Budget'
<1>1. /\ UNCHANGED <<stateVars, exposureVars>>
      /\ \A v \in Worker : v # w => worker'[v] = worker[v] /\ worker[v].at # "store"
      /\ \/ worker'[w].at = "idle"
         \/ /\ worker'[w].at = "store" /\ worker'[w].room = Room
            /\ Mine(w)' = Mine(w) /\ Mine(w).n = rev
  BY CountBase
<1>2. Held' = Held /\ UNCHANGED <<rev, profile>>
  BY <1>1 DEF Held, Pending, exposureVars, stateVars
<1>3. CASE worker'[w].at = "idle"
  BY <1>1, <1>2, <1>3 DEF Budget
<1>4. CASE worker'[w].at = "store"
  <2>1. Mine(w).n =< profile /\ profile =< rev /\ profile \in Nat /\ rev \in Nat
    <3>1. Mine(w) \in events /\ Mine(w).kind = "recommendations"
      BY MineTyped DEF Count
    <3>2. QED
      BY <3>1 DEF Base, EventsOK, StateOK
  <2>2. profile = rev /\ Mine(w).n = rev
    BY <1>1, <1>4, <2>1
  <2>3. /\ Cardinality(Held) \in Nat /\ Cardinality(Pending) \in Nat
        /\ Cardinality(Held) =< Cardinality(Pending)
    BY PendingFinite, FS_Subset, FS_CardinalityType DEF Held
  <2>4. Cardinality(Held) =< MaxPending /\ MaxPending \in Nat
    BY AggregationAssumption DEF Budget
  <2>5. Cardinality(Held) + Room =< MaxPending
    BY <2>3, <2>4 DEF Room
  <2>6. QED
    BY <1>1, <1>2, <1>4, <2>2, <2>5 DEF Budget
<1>5. QED
  BY <1>1, <1>3, <1>4

LEMMA BudgetStore ==
  ASSUME Base, Budget, NEW w \in Worker, Store(w)
  PROVE  /\ Budget'
         /\ \A k \in DOMAIN exposure' \ DOMAIN exposure : k[1] = profile /\ profile = rev
<1>1. /\ worker[w].at = "store" /\ Finish(w) /\ UNCHANGED <<rev, profile, revived>>
  BY DEF Store, stateVars
<1>2. /\ worker[w].chosen \subseteq Candidate /\ worker[w].room \in Nat
      /\ Mine(w).n = rev /\ profile = rev
      /\ Cardinality(Held) + worker[w].room =< MaxPending
  BY <1>1, MineTyped DEF Run, Budget
<1>3. PICK K \in Fitting(Mine(w).n, worker[w].chosen, worker[w].room) :
        exposure' = [k \in DOMAIN exposure \cup K |-> IF k \in K THEN "EXPOSED" ELSE exposure[k]]
  BY DEF Store
<1>4. K \subseteq Keys(Mine(w).n, worker[w].chosen) /\ IsFiniteSet(K)
  BY <1>2, <1>3, KeysFinite, FS_Subset DEF Fitting
<1>5. Cardinality(K) \in Nat /\ Cardinality(K) =< worker[w].room
  <2>1. Cardinality(Keys(Mine(w).n, worker[w].chosen)) \in Nat
    BY <1>2, KeysFinite, FS_CardinalityType
  <2>2. QED
    BY <1>2, <1>3, <2>1 DEF Fitting
<1>6. Held' \subseteq Held \cup K
  BY <1>1, <1>3 DEF Held, Pending
<1>7. Cardinality(Held') \in Nat /\ Cardinality(Held') =< Cardinality(Held) + Cardinality(K)
  <2>1. IsFiniteSet(Held) /\ Cardinality(Held) \in Nat
    BY HeldTyped
  <2>2. /\ IsFiniteSet(Held \cup K) /\ IsFiniteSet(Held \cap K)
        /\ Cardinality(Held \cup K) = Cardinality(Held) + Cardinality(K) - Cardinality(Held \cap K)
    BY <1>4, <2>1, FS_Union, FS_Intersection
  <2>3. Cardinality(Held \cap K) \in Nat /\ Cardinality(Held \cup K) \in Nat
    BY <2>2, FS_CardinalityType
  <2>4. IsFiniteSet(Held') /\ Cardinality(Held') =< Cardinality(Held \cup K)
    BY <1>6, <2>2, FS_Subset
  <2>5. Cardinality(Held') \in Nat
    BY <2>4, FS_CardinalityType
  <2>6. QED
    BY <1>5, <2>1, <2>2, <2>3, <2>4, <2>5
<1>8. Cardinality(Held') =< MaxPending
  <2>1. Cardinality(Held) \in Nat /\ MaxPending \in Nat
    BY HeldTyped, AggregationAssumption
  <2>2. QED
    BY <1>2, <1>5, <1>7, <2>1
<1>9. \A v \in Worker : worker'[v].at # "store"
  BY <1>1, IdleTyped DEF Base, WorkerOK, Budget, Finish
<1>10. Budget'
  BY <1>8, <1>9 DEF Budget
<1>11. \A k \in K : k[1] = rev
  BY <1>2, <1>4 DEF Keys
<1>12. DOMAIN exposure' = DOMAIN exposure \cup K
  BY <1>3
<1>13. QED
  BY <1>2, <1>10, <1>11, <1>12

LEMMA BudgetWrite ==
  ASSUME Base, Budget, NEW c \in Client, WriteExposure(c)
  PROVE  Budget' /\ DOMAIN exposure' = DOMAIN exposure
<1> DEFINE k == call[c].of
<1>1. /\ call[c].op \in Op /\ k \in DOMAIN exposure
      /\ exposure' = [exposure EXCEPT ![k] = To(call[c].op)]
      /\ revived' = IF call[c].op = "accept" THEN revived \cup ({k} \ Pending) ELSE revived
      /\ UNCHANGED <<rev, profile, worker>>
  BY DEF WriteExposure, Base, ExposureOK, stateVars
<1>2. call[c].op # "accept" => To(call[c].op) \notin {"EXPOSED", "ACCEPTED"}
  BY <1>1 DEF To, Op
<1> HIDE DEF k
<1>3. DOMAIN exposure' = DOMAIN exposure
  BY <1>1
<1>4. Held' \subseteq Held
  <2> SUFFICES ASSUME NEW j \in Held' PROVE j \in Held
    OBVIOUS
  <2>1. j \in DOMAIN exposure /\ exposure'[j] \in {"EXPOSED", "ACCEPTED"} /\ j \notin revived'
    BY <1>3 DEF Held, Pending
  <2>2. CASE j = k
    BY <1>1, <1>2, <2>1, <2>2 DEF Held
  <2>3. CASE j # k
    BY <1>1, <2>1, <2>3 DEF Held, Pending
  <2>4. QED
    BY <2>2, <2>3
<1>5. QED
  BY <1>1, <1>3, <1>4, BudgetOther

LEMMA BudgetStep ==
  Base /\ Budget /\ [Next]_vars
    => /\ Budget'
       /\ \A k \in DOMAIN exposure' \ DOMAIN exposure : k[1] = profile /\ profile = rev
<1> DEFINE Latest == \A k \in DOMAIN exposure' \ DOMAIN exposure : k[1] = profile /\ profile = rev
<1> SUFFICES ASSUME Base, Budget, [Next]_vars PROVE Budget' /\ Latest
  OBVIOUS
<1>1. ASSUME UNCHANGED <<rev, profile, exposure, revived>>,
             \A w \in Worker : worker'[w].at = "store" => worker'[w] = worker[w]
      PROVE  Budget' /\ Latest
  <2>1. Held' = Held
    BY <1>1 DEF Held, Pending
  <2>2. QED
    BY <1>1, <2>1, BudgetOther
<1>2. CASE UNCHANGED vars \/ (\E s \in Slot : Capture(s)) \/ \E k \in events : Redeliver(k)
  BY <1>1, <1>2 DEF vars, stateVars, exposureVars, Capture, Redeliver
<1>3. ASSUME NEW w \in Worker,
             \/ \E j \in jobs : Acquire(w, j) \/ Take(w, j)
             \/ Query(w) \/ JobFails(w) \/ Crash(w)
             \/ \E C \in SUBSET Candidate : Generate(w, C)
      PROVE  Budget' /\ Latest
  <2>1. worker \in [Worker -> Run]
    BY DEF Base, WorkerOK
  <2>2. UNCHANGED <<rev, profile, exposure, revived>>
    BY <1>3 DEF Acquire, Take, Query, JobFails, Crash, Generate, stateVars, exposureVars
  <2>3. \A v \in Worker : v # w => worker'[v] = worker[v]
    BY <1>3, <2>1 DEF Acquire, StartRun, Take, Start, Query, JobFails, Crash, Generate, Finish
  <2>4. worker'[w].at # "store" \/ worker'[w] = worker[w]
    BY <1>3, <2>1, IdleTyped
    DEF Acquire, StartRun, Take, Start, Started, Query, JobFails, Crash, Generate, Finish, Run
  <2>5. QED
    BY <1>1, <2>2, <2>3, <2>4
<1>4. ASSUME NEW w \in Worker, CommitAggregates(w) \/ WriteInsights(w) \/ Learn(w)
      PROVE  Budget' /\ Latest
  <2>1. ~RowLocked /\ Finish(w) /\ UNCHANGED exposureVars
    BY <1>4 DEF CommitAggregates, WriteInsights, Learn
  <2>2. QED
    BY <2>1, BudgetFree DEF exposureVars
<1>5. ASSUME NEW w \in Worker, Count(w) PROVE Budget' /\ Latest
  BY <1>5, BudgetCount DEF Count, exposureVars
<1>6. ASSUME NEW w \in Worker, Store(w) PROVE Budget' /\ Latest
  BY <1>6, BudgetStore
<1>7. ASSUME NEW c \in Client, WriteExposure(c) PROVE Budget' /\ Latest
  BY <1>7, BudgetWrite
<1>8. ASSUME NEW c \in Client,
             DropCall(c) \/ \E op \in Op, k \in DOMAIN exposure : ReadExposure(c, op, k)
      PROVE  Budget' /\ Latest
  BY <1>1, <1>8 DEF DropCall, ReadExposure, stateVars
<1>9. QED
  BY <1>2, <1>3, <1>4, <1>5, <1>6, <1>7, <1>8 DEF Next, AggregateStep, DerivedStep

LEMMA BudgetHolds == Spec => []Budget
<1>1. Init => Budget
  <2> SUFFICES ASSUME Init PROVE Budget
    OBVIOUS
  <2>1. Held = {} /\ \A w \in Worker : worker[w].at = "idle"
    BY IdleTyped DEF Init, Held, Pending
  <2>2. Cardinality(Held) = 0
    BY <2>1, FS_EmptySet
  <2>3. QED
    BY <2>1, <2>2, AggregationAssumption DEF Budget
<1>2. QED
  BY <1>1, BaseHolds, BudgetStep, PTL DEF Spec

\* persistContentRecommendations counts under the row's lock: however many generations,
\* calls and faults there are, the budget holds but for what a late acceptance revived.
THEOREM BudgetKept == Spec => []PendingInBudget
<1>1. Budget => PendingInBudget
  BY DEF Budget, Held, PendingInBudget
<1>2. QED
  BY <1>1, BudgetHolds, PTL

\* The revision compared under that lock, and the profile with it, are still the last
\* when the recommendations are stored.
THEOREM Latest == Spec => FromLatestProfile
<1>1. Base /\ Budget /\ [Next]_vars
        => [\A k \in DOMAIN exposure' \ DOMAIN exposure : k[1] = profile /\ profile = rev]_vars
  BY BudgetStep
<1>2. QED
  BY <1>1, BaseHolds, BudgetHolds, PTL DEF Spec, FromLatestProfile

=============================================================================
