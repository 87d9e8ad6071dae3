------------------------- MODULE ObservationsProofs -------------------------
(***************************************************************************)
(* The rows of the observations keep their types and follow the table of   *)
(* observation-fsm.service.ts, and metrics are stored once for a capture   *)
(* and for nothing else, for every number of observations, workers,        *)
(* sweepers, attempts and faults.  No retry is lost but by a job that      *)
(* fails at its claim or a recovery under a key that is taken.             *)
(***************************************************************************)
EXTENDS Observations, FiniteSetTheorems, TLAPS

Captured == {o \in Observation : obs[o].status = "CAPTURED"}

\* CapturedOnce, and a finite set of captures to count.
CaptureInv == CapturedOnce /\ IsFiniteSet(Captured)

\* The part of TypeOK about the rows, and the rest of it.
RowsOK ==
  /\ obs \in [Observation -> Row]
  /\ \A o \in Observation : (obs[o].status = "PROCESSING" <=> obs[o].holder # NoWorker)
                            /\ (obs[o].live => obs[o].status = "PROCESSING")
RestOK ==
  /\ metrics \in [Observation -> Nat] /\ generation \in Nat
  /\ due \subseteq Key /\ sending \subseteq Key /\ given \subseteq Key /\ sent \subseteq Key
  /\ jobs \subseteq Key /\ ids \subseteq Key
  /\ worker \in [Worker -> Attempt]
  /\ \A w \in Worker : worker[w].at # "idle" => worker[w].key \in Key
  /\ found \in [Sweeper -> SUBSET (Observation \X Nat)]
  /\ lost \subseteq Observation /\ faults \in 0..MaxFaults

\* A step changes a row along the table; one that is no capture captures nothing.
ValidStep ==
  \A o \in Observation :
    obs'[o].status # obs[o].status => obs'[o].status \in Valid(obs[o].status)
NoCapture == \A o \in Observation : obs'[o].status = "CAPTURED" => obs'[o].status = obs[o].status

LEMMA TypeParts == TypeOK <=> RowsOK /\ RestOK
  BY DEF TypeOK, RowsOK, RestOK

LEMMA TypePartsNext == TypeOK' <=> RowsOK' /\ RestOK'
  BY DEF TypeOK, RowsOK, RestOK

-----------------------------------------------------------------------------
(* How rows change *)

Outcomes == (Terminal \ {"CAPTURED"}) \cup {"FAILED", "RATE_LIMITED"}

\* A row that leaves PROCESSING, or one that waits and is missed, keeps its type.
LEMMA ClosedRow ==
  ASSUME RowsOK, NEW o \in Observation, NEW s \in Terminal \cup Waiting
  PROVE  /\ Closed(o, s) \in Row /\ Closed(o, s).status = s
         /\ Closed(o, s).holder = NoWorker /\ ~Closed(o, s).live
         /\ Closed(o, s).open = obs[o].open /\ Closed(o, s).attempts = obs[o].attempts
  BY DEF RowsOK, Row, Closed, Terminal, Waiting

\* Rows that stay.
LEMMA RowsStay ==
  ASSUME RowsOK, UNCHANGED obs
  PROVE  RowsOK' /\ ValidStep /\ NoCapture
  BY DEF RowsOK, ValidStep, NoCapture

\* One row changes in a way the table knows.
LEMMA OneRow ==
  ASSUME RowsOK, NEW o \in Observation, NEW r \in Row,
         r.status = "PROCESSING" <=> r.holder # NoWorker, r.live => r.status = "PROCESSING",
         r.status = obs[o].status \/ (r.status # "CAPTURED" /\ r.status \in Valid(obs[o].status)),
         obs' = [obs EXCEPT ![o] = r]
  PROVE  RowsOK' /\ ValidStep /\ NoCapture
<1>1. \A p \in Observation : obs'[p] = IF p = o THEN r ELSE obs[p]
  BY DEF RowsOK
<1>2. obs' \in [Observation -> Row]
  BY DEF RowsOK
<1>3. RowsOK'
  BY <1>1, <1>2 DEF RowsOK
<1>4. QED
  BY <1>1, <1>3 DEF ValidStep, NoCapture

\* An update under the lease.
LEMMA FencedRow ==
  ASSUME RowsOK, NEW w \in Worker, Mine(w) \in Observation, NEW s \in Outcomes, FencedUpdate(w, s)
  PROVE  RowsOK' /\ ValidStep /\ NoCapture
<1>1. CASE Holds(w)
  <2>1. s \in Terminal \cup Waiting /\ s # "CAPTURED" /\ s # "PROCESSING"
    BY DEF Outcomes, Terminal, Waiting
  <2>2. Closed(Mine(w), s) \in Row /\ Closed(Mine(w), s).status = s
        /\ Closed(Mine(w), s).holder = NoWorker /\ ~Closed(Mine(w), s).live
    BY <2>1, ClosedRow
  <2>3. s \in Valid("PROCESSING")
    BY DEF Valid, Outcomes
  <2>4. obs' = [obs EXCEPT ![Mine(w)] = Closed(Mine(w), s)]
    BY <1>1 DEF FencedUpdate
  <2>5. obs[Mine(w)].status = "PROCESSING"
    BY <1>1 DEF Holds
  <2> QED
    BY <2>1, <2>2, <2>3, <2>4, <2>5, OneRow
<1>2. CASE ~Holds(w)
  BY <1>2, RowsStay DEF FencedUpdate
<1>3. QED
  BY <1>1, <1>2

\* A new event has the key of an observation.
LEMMA UpsertTyped ==
  ASSUME RestOK, NEW k \in Key, Upsert(k)
  PROVE  due' \subseteq Key
  BY DEF RestOK, Upsert, Exists

LEMMA IdleTyped == Idle \in Attempt /\ Idle.at = "idle"
  BY DEF Idle, Attempt

\* A worker that is not idle has an observation.
LEMMA MineTyped ==
  ASSUME RestOK, NEW w \in Worker, worker[w].at # "idle"
  PROVE  Mine(w) \in Observation /\ worker[w].attempts \in Nat
  BY DEF RestOK, Mine, Key, Attempt

-----------------------------------------------------------------------------
(* Types initially *)

LEMMA TypesInitially == Init => TypeOK
<1> SUFFICES ASSUME Init PROVE TypeOK
  OBVIOUS
<1>1. RowsOK
  BY ObservationsAssumption DEF Init, RowsOK, Row, Waiting
<1>2. \A o \in Observation : FirstEvent(o) \in Key
  BY DEF FirstEvent, Key
<1>3. worker \in [Worker -> Attempt] /\ \A w \in Worker : worker[w].at = "idle"
  BY IdleTyped DEF Init
<1>4. RestOK
  BY <1>2, <1>3, ObservationsAssumption DEF Init, RestOK
<1>5. QED
  BY <1>1, <1>4, TypeParts

-----------------------------------------------------------------------------
(* The steps, one group at a time: types kept, rows along the table, and    *)
(* nothing captured but by Commit.                                          *)

Quiet == TypeOK' /\ ValidStep /\ NoCapture /\ UNCHANGED <<metrics, generation>>

LEMMA QuietParts ==
  ASSUME RowsOK', RestOK', ValidStep, NoCapture, UNCHANGED <<metrics, generation>>
  PROVE  Quiet
  BY TypePartsNext DEF Quiet

LEMMA OutboxQuiet ==
  ASSUME TypeOK, NEW k \in Event,
         ClaimEvent(k) \/ AddJob(k) \/ CompleteEvent(k) \/ SendFails(k) \/ Replay(k)
  PROVE  Quiet
<1>1. RowsOK /\ RestOK
  BY TypeParts
<1>2. k \in Key
  BY <1>1 DEF RestOK, Event
<1>3. RowsOK' /\ ValidStep /\ NoCapture
  BY <1>1, RowsStay DEF ClaimEvent, AddJob, CompleteEvent, SendFails, Replay
<1>4. RestOK'
  <2>1. CASE ClaimEvent(k)
    BY <1>1, <1>2, <2>1 DEF ClaimEvent, RestOK, queueVars
  <2>2. CASE AddJob(k)
    BY <1>1, <1>2, <2>2 DEF AddJob, RestOK, outboxVars
  <2>3. CASE CompleteEvent(k)
    BY <1>1, <1>2, <2>3 DEF CompleteEvent, RestOK, queueVars
  <2>4. CASE SendFails(k)
    <3>1. faults' \in 0..MaxFaults
      BY <1>1, <2>4, ObservationsAssumption DEF SendFails, Spend, RestOK
    <3>2. QED
      BY <1>1, <1>2, <2>4, <3>1 DEF SendFails, RestOK, queueVars
  <2>5. CASE Replay(k)
    BY <1>1, <1>2, <2>5 DEF Replay, RestOK
  <2>6. QED
    BY <2>1, <2>2, <2>3, <2>4, <2>5
<1>5. UNCHANGED <<metrics, generation>>
  BY DEF ClaimEvent, AddJob, CompleteEvent, SendFails, Replay
<1>6. QED
  BY <1>3, <1>4, <1>5, QuietParts

\* A worker that goes on or is done keeps its type.
LEMMA WorkerTyped ==
  ASSUME RestOK, NEW w \in Worker, NEW a \in Attempt, a.at # "idle" => a.key \in Key,
         worker' = [worker EXCEPT ![w] = a]
  PROVE  /\ worker' \in [Worker -> Attempt]
         /\ \A v \in Worker : worker'[v].at # "idle" => worker'[v].key \in Key
  BY DEF RestOK

\* A worker that only moves on in its attempt.
LEMMA MovesOn ==
  ASSUME RestOK, NEW w \in Worker, worker[w].at # "idle",
         NEW p \in {"late", "fetch", "commit", "gone", "denied", "limited", "failed"},
         worker' = [worker EXCEPT ![w].at = p]
  PROVE  /\ worker' \in [Worker -> Attempt]
         /\ \A v \in Worker : worker'[v].at # "idle" => worker'[v].key \in Key
<1>1. worker[w] \in Attempt /\ worker[w].key \in Key
  BY DEF RestOK
<1>2. [worker[w] EXCEPT !.at = p] \in Attempt /\ [worker[w] EXCEPT !.at = p].key \in Key
  BY <1>1 DEF Attempt
<1>3. QED
  BY <1>1, <1>2 DEF RestOK

LEMMA FinishTyped ==
  ASSUME RestOK, NEW w \in Worker, Finish(w)
  PROVE  /\ worker' \in [Worker -> Attempt]
         /\ \A v \in Worker : worker'[v].at # "idle" => worker'[v].key \in Key
  BY IdleTyped DEF RestOK, Finish

LEMMA SpendTyped ==
  ASSUME RestOK, Spend
  PROVE  faults' \in 0..MaxFaults
  BY ObservationsAssumption DEF RestOK, Spend

LEMMA ClaimQuiet ==
  ASSUME TypeOK, NEW w \in Worker, NEW k \in jobs, Claim(w, k)
  PROVE  Quiet
<1>1. RowsOK /\ RestOK
  BY TypeParts
<1>2. k \in Key /\ k.o \in Observation
  BY <1>1 DEF RestOK, Key
<1> DEFINE r == Claimed(k.o, w)
<1>3. obs[k.o] \in Row
  BY <1>1, <1>2 DEF RowsOK
<1>4. r \in Row /\ r.status = "PROCESSING" /\ r.holder = w
  BY <1>3 DEF Row, Claimed
<1>5. w # NoWorker
  BY ObservationsAssumption
<1>6. r.status = obs[k.o].status \/ (r.status # "CAPTURED" /\ r.status \in Valid(obs[k.o].status))
  BY <1>4 DEF Claim, Claimable, Waiting, Valid
<1>7. obs' = [obs EXCEPT ![k.o] = r]
  BY DEF Claim
<1> HIDE DEF r
<1>8. RowsOK' /\ ValidStep /\ NoCapture
  BY <1>1, <1>2, <1>4, <1>5, <1>6, <1>7, OneRow
<1>9. RestOK'
  <2>1. [at |-> "read", key |-> k, attempts |-> 0] \in Attempt
    BY <1>2 DEF Attempt
  <2>2. /\ worker' \in [Worker -> Attempt]
        /\ \A v \in Worker : worker'[v].at # "idle" => worker'[v].key \in Key
    BY <1>1, <1>2, <2>1, WorkerTyped DEF Claim
  <2>3. QED
    BY <1>1, <2>2 DEF Claim, RestOK, outboxVars, queueVars
<1>10. QED
  BY <1>8, <1>9, QuietParts DEF Claim

\* Steps of an attempt that leave the rows alone, but for Throw and Crash.
LEMMA AttemptMoves ==
  ASSUME TypeOK, NEW w \in Worker,
         ReadRow(w) \/ CommitFails(w)
           \/ \E a \in {"commit", "gone", "denied", "limited", "failed"} : Fetch(w, a)
  PROVE  Quiet
<1>1. RowsOK /\ RestOK
  BY TypeParts
<1>2. RowsOK' /\ ValidStep /\ NoCapture
  BY <1>1, RowsStay DEF ReadRow, CommitFails, Fetch
<1>3. CASE ReadRow(w)
  <2>1. Mine(w) \in Observation
    BY <1>1, <1>3, MineTyped DEF ReadRow
  <2> DEFINE a == [worker[w] EXCEPT !.at = IF obs[Mine(w)].open THEN "fetch" ELSE "late",
                                    !.attempts = obs[Mine(w)].attempts]
  <2>2. worker[w] \in Attempt /\ worker[w].key \in Key /\ obs[Mine(w)].attempts \in Nat
    BY <1>1, <1>3, <2>1 DEF RowsOK, RestOK, Row, ReadRow
  <2>3. a \in Attempt /\ a.key \in Key
    BY <2>2 DEF Attempt
  <2>4. worker' = [worker EXCEPT ![w] = a]
    BY <1>1, <1>3 DEF ReadRow, RestOK
  <2> HIDE DEF a
  <2>5. /\ worker' \in [Worker -> Attempt]
        /\ \A v \in Worker : worker'[v].at # "idle" => worker'[v].key \in Key
    BY <1>1, <2>3, <2>4, WorkerTyped
  <2>6. RestOK'
    BY <1>1, <1>3, <2>5 DEF ReadRow, RestOK, outboxVars, queueVars
  <2>7. QED
    BY <1>2, <1>3, <2>6, QuietParts DEF ReadRow
<1>4. CASE CommitFails(w)
  <2>1. /\ worker' \in [Worker -> Attempt]
        /\ \A v \in Worker : worker'[v].at # "idle" => worker'[v].key \in Key
    BY <1>1, <1>4, MovesOn DEF CommitFails
  <2>2. faults' \in 0..MaxFaults
    BY <1>1, <1>4, SpendTyped DEF CommitFails
  <2>3. RestOK'
    BY <1>1, <1>4, <2>1, <2>2 DEF CommitFails, RestOK, outboxVars, queueVars
  <2>4. QED
    BY <1>2, <1>4, <2>3, QuietParts DEF CommitFails
<1>5. ASSUME NEW a \in {"commit", "gone", "denied", "limited", "failed"}, Fetch(w, a)
      PROVE  Quiet
  <2>1. /\ worker' \in [Worker -> Attempt]
        /\ \A v \in Worker : worker'[v].at # "idle" => worker'[v].key \in Key
    BY <1>1, <1>5, MovesOn DEF Fetch
  <2>2. faults' \in 0..MaxFaults
    BY <1>1, <1>5, SpendTyped DEF Fetch, RestOK
  <2>3. RestOK'
    BY <1>1, <1>5, <2>1, <2>2 DEF Fetch, RestOK, outboxVars, queueVars
  <2>4. QED
    BY <1>2, <1>5, <2>3, QuietParts DEF Fetch
<1>6. QED
  BY <1>3, <1>4, <1>5

LEMMA HeartbeatQuiet ==
  ASSUME TypeOK, NEW w \in Worker, Heartbeat(w)
  PROVE  Quiet
<1>1. RowsOK /\ RestOK
  BY TypeParts
<1>2. Mine(w) \in Observation
  BY <1>1, MineTyped DEF Heartbeat
<1>3. CASE Holds(w) /\ obs' = [obs EXCEPT ![Mine(w)].live = TRUE] /\ UNCHANGED worker
  <2> DEFINE r == [obs[Mine(w)] EXCEPT !.live = TRUE]
  <2>1. obs[Mine(w)] \in Row
    BY <1>1, <1>2 DEF RowsOK
  <2>2. r \in Row /\ r.status = obs[Mine(w)].status /\ r.holder = obs[Mine(w)].holder
    BY <2>1 DEF Row
  <2>3. r.status = "PROCESSING" <=> r.holder # NoWorker
    BY <1>1, <1>2, <2>2 DEF RowsOK
  <2>4. r.status = "PROCESSING"
    BY <1>3, <2>2 DEF Holds
  <2>5. obs' = [obs EXCEPT ![Mine(w)] = r]
    BY <1>3
  <2> HIDE DEF r
  <2>6. RowsOK' /\ ValidStep /\ NoCapture
    BY <1>1, <1>2, <2>2, <2>3, <2>4, <2>5, OneRow
  <2>7. RestOK'
    BY <1>1, <1>3 DEF Heartbeat, RestOK, outboxVars, queueVars
  <2>8. QED
    BY <2>6, <2>7, QuietParts DEF Heartbeat
<1>4. CASE worker[w].at = "fetch" /\ worker' = [worker EXCEPT ![w].at = "failed"] /\ UNCHANGED obs
  <2>1. /\ worker' \in [Worker -> Attempt]
        /\ \A v \in Worker : worker'[v].at # "idle" => worker'[v].key \in Key
    BY <1>1, <1>4, MovesOn
  <2>2. RestOK'
    BY <1>1, <2>1 DEF Heartbeat, RestOK, outboxVars, queueVars
  <2>3. QED
    BY <1>1, <1>4, <2>2, RowsStay, QuietParts DEF Heartbeat
<1>5. QED
  BY <1>3, <1>4 DEF Heartbeat

\* What a retry writes.
LEMMA RetryTyped ==
  ASSUME RowsOK, RestOK, NEW w \in Worker, worker[w].at # "idle",
         NEW s \in {"FAILED", "RATE_LIMITED"}, NEW kind \in {"rl", "fail"}, RetryLater(w, s, kind)
  PROVE  RowsOK' /\ ValidStep /\ NoCapture /\ due' \subseteq Key
<1>1. Mine(w) \in Observation /\ worker[w].attempts \in Nat
  BY MineTyped
<1>2. [o |-> Mine(w), kind |-> kind, n |-> worker[w].attempts] \in Key
  BY <1>1 DEF Key
<1>3. due' \subseteq Key
  <2>1. CASE Holds(w)
    BY <1>2, <2>1, UpsertTyped DEF RetryLater
  <2>2. CASE ~Holds(w)
    BY <2>2 DEF RetryLater, RestOK
  <2>3. QED
    BY <2>1, <2>2
<1>4. QED
  BY <1>1, <1>3, FencedRow DEF RetryLater, Outcomes

\* The outcomes of an attempt that is no capture.
LEMMA OutcomesQuiet ==
  ASSUME TypeOK, NEW w \in Worker,
         Conclude(w) \/ \E fits \in BOOLEAN : RateLimited(w, fits) \/ GeneralFailure(w, fits)
  PROVE  Quiet
<1>1. RowsOK /\ RestOK
  BY TypeParts
<1>2. worker[w].at # "idle" /\ Finish(w)
  BY DEF Conclude, RateLimited, GeneralFailure
<1>3. Mine(w) \in Observation
  BY <1>1, <1>2, MineTyped
<1>4. /\ worker' \in [Worker -> Attempt]
      /\ \A v \in Worker : worker'[v].at # "idle" => worker'[v].key \in Key
  BY <1>1, <1>2, FinishTyped
<1>5. RowsOK' /\ ValidStep /\ NoCapture /\ due' \subseteq Key
  <2>1. CASE Conclude(w)
    <3>1. PICK s \in {"MISSED", "DELETED", "UNAVAILABLE"} : FencedUpdate(w, s)
      BY <2>1 DEF Conclude
    <3>2. s \in Outcomes
      BY DEF Outcomes, Terminal
    <3>3. due' = due
      BY <2>1 DEF Conclude, outboxVars
    <3>4. QED
      BY <1>1, <1>3, <3>1, <3>2, <3>3, FencedRow DEF RestOK
  <2>2. ASSUME NEW fits \in BOOLEAN, RateLimited(w, fits)
        PROVE  RowsOK' /\ ValidStep /\ NoCapture /\ due' \subseteq Key
    <3>1. CASE RetryLater(w, "RATE_LIMITED", "rl")
      BY <1>1, <1>2, <3>1, RetryTyped
    <3>2. CASE FencedUpdate(w, "MISSED") /\ UNCHANGED due
      BY <1>1, <1>3, <3>2, FencedRow DEF RestOK, Outcomes, Terminal
    <3>3. QED
      BY <2>2, <3>1, <3>2 DEF RateLimited
  <2>3. ASSUME NEW fits \in BOOLEAN, GeneralFailure(w, fits)
        PROVE  RowsOK' /\ ValidStep /\ NoCapture /\ due' \subseteq Key
    <3>1. CASE RetryLater(w, "FAILED", "fail")
      BY <1>1, <1>2, <3>1, RetryTyped
    <3>2. CASE FencedUpdate(w, "MISSED") /\ UNCHANGED due
      BY <1>1, <1>3, <3>2, FencedRow DEF RestOK, Outcomes, Terminal
    <3>3. QED
      BY <2>3, <3>1, <3>2 DEF GeneralFailure
  <2>4. QED
    BY <2>1, <2>2, <2>3
<1>6. UNCHANGED <<metrics, generation, sending, given, sent, jobs, ids, found, lost, faults>>
  BY DEF Conclude, RateLimited, GeneralFailure, outboxVars, queueVars
<1>7. RestOK'
  BY <1>1, <1>4, <1>5, <1>6 DEF RestOK
<1>8. QED
  BY <1>5, <1>6, <1>7, QuietParts

\* Jobs skipped, attempts that end without a write.
LEMMA EndsQuiet ==
  ASSUME TypeOK,
         \/ \E k \in jobs : SkipJob(k) \/ ClaimFails(k)
         \/ \E w \in Worker : Throw(w) \/ Crash(w)
  PROVE  Quiet
<1>1. RowsOK /\ RestOK
  BY TypeParts
<1>2. RowsOK' /\ ValidStep /\ NoCapture
  BY <1>1, RowsStay DEF SkipJob, ClaimFails, Throw, Crash
<1>3. CASE \E k \in jobs : SkipJob(k)
  <2>1. RestOK'
    BY <1>1, <1>3 DEF SkipJob, RestOK, outboxVars
  <2>2. QED
    BY <1>2, <1>3, <2>1, QuietParts DEF SkipJob
<1>6. ASSUME NEW k \in jobs, ClaimFails(k)
      PROVE  Quiet
  <2>1. lost' \subseteq Observation
    BY <1>1, <1>6 DEF ClaimFails, RestOK, Key
  <2>2. faults' \in 0..MaxFaults
    BY <1>1, <1>6, SpendTyped DEF ClaimFails
  <2>3. RestOK'
    BY <1>1, <1>6, <2>1, <2>2 DEF ClaimFails, RestOK, outboxVars
  <2>4. QED
    BY <1>2, <1>6, <2>3, QuietParts DEF ClaimFails
<1>4. ASSUME NEW w \in Worker, Throw(w) \/ Crash(w)
      PROVE  Quiet
  <2>1. worker[w].at # "idle" /\ Finish(w) /\ Spend
    BY <1>4 DEF Throw, Crash
  <2>2. /\ worker' \in [Worker -> Attempt]
        /\ \A v \in Worker : worker'[v].at # "idle" => worker'[v].key \in Key
    BY <1>1, <2>1, FinishTyped
  <2>3. faults' \in 0..MaxFaults
    BY <1>1, <2>1, SpendTyped
  <2>4. worker[w].key \in Key
    BY <1>1, <2>1 DEF RestOK
  <2>5. jobs' \subseteq Key
    BY <1>1, <1>4, <2>4 DEF Throw, Crash, RestOK, queueVars
  <2>6. UNCHANGED <<metrics, generation, due, sending, given, sent, ids, found, lost>>
    BY <1>4 DEF Throw, Crash, outboxVars, queueVars
  <2>7. RestOK'
    BY <1>1, <2>2, <2>3, <2>5, <2>6 DEF RestOK
  <2>8. QED
    BY <1>2, <2>6, <2>7, QuietParts
<1>5. QED
  BY <1>3, <1>4, <1>6

LEMMA SweepQuiet ==
  ASSUME TypeOK, SweepClosed
  PROVE  Quiet
<1>1. RowsOK /\ RestOK
  BY TypeParts
<1>2. PICK over \in SUBSET Observation :
        /\ \A o \in over : obs[o].status \in Waiting \/ obs[o].status = "PROCESSING"
        /\ obs' = [o \in Observation |-> IF o \in over THEN Closed(o, "MISSED") ELSE obs[o]]
  BY DEF SweepClosed, Abandoned
<1>3. \A o \in Observation : obs'[o] = IF o \in over THEN Closed(o, "MISSED") ELSE obs[o]
  BY <1>2
<1>4. \A o \in Observation :
        /\ Closed(o, "MISSED") \in Row /\ Closed(o, "MISSED").status = "MISSED"
        /\ Closed(o, "MISSED").holder = NoWorker /\ ~Closed(o, "MISSED").live
  BY <1>1, ClosedRow DEF Terminal
<1>5. obs' \in [Observation -> Row]
  BY <1>1, <1>2, <1>4 DEF RowsOK
<1>6. RowsOK'
  BY <1>1, <1>3, <1>4, <1>5 DEF RowsOK
<1>7. \A o \in over : "MISSED" \in Valid(obs[o].status)
  BY <1>2 DEF Valid, Waiting, Terminal
<1>8. ValidStep /\ NoCapture
  BY <1>3, <1>4, <1>7 DEF ValidStep, NoCapture
<1>9. RestOK'
  BY <1>1 DEF SweepClosed, RestOK, outboxVars, queueVars
<1>10. QED
  BY <1>6, <1>8, <1>9, QuietParts DEF SweepClosed

LEMMA RecoverQuiet ==
  ASSUME TypeOK, NEW s \in Sweeper,
         ReadAbandoned(s) \/ SweepFails(s) \/ \E r \in found[s] : Recover(s, r[1], r[2])
  PROVE  Quiet
<1>1. RowsOK /\ RestOK
  BY TypeParts
<1>2. CASE ReadAbandoned(s)
  <2>1. \A o \in Observation : obs[o].attempts \in Nat
    BY <1>1 DEF RowsOK, Row
  <2>2. found' \in [Sweeper -> SUBSET (Observation \X Nat)]
    BY <1>1, <1>2, <2>1 DEF ReadAbandoned, RestOK
  <2>3. RestOK'
    BY <1>1, <1>2, <2>2 DEF ReadAbandoned, RestOK, outboxVars, queueVars
  <2>4. QED
    BY <1>1, <1>2, <2>3, RowsStay, QuietParts DEF ReadAbandoned
<1>3. CASE SweepFails(s)
  <2>1. faults' \in 0..MaxFaults
    BY <1>1, <1>3, SpendTyped DEF SweepFails
  <2>2. RestOK'
    BY <1>1, <1>3, <2>1 DEF SweepFails, RestOK, outboxVars, queueVars
  <2>3. QED
    BY <1>1, <1>3, <2>2, RowsStay, QuietParts DEF SweepFails
<1>4. ASSUME NEW r \in found[s], Recover(s, r[1], r[2])
      PROVE  Quiet
  <2>1. PICK o \in Observation, n \in Nat : r[1] = o /\ r[2] = n
    BY <1>1, <1>4 DEF RestOK
  <2>2. Recover(s, o, n)
    BY <1>4, <2>1
  <2>3. found' \in [Sweeper -> SUBSET (Observation \X Nat)]
    BY <1>1, <2>2 DEF Recover, RestOK
  <2>4. CASE Abandoned(o) /\ obs[o].open
    <3> DEFINE row == [Closed(o, "FAILED") EXCEPT !.attempts = obs[o].attempts + 1]
    <3>1. obs[o].attempts \in Nat
      BY <1>1 DEF RowsOK, Row
    <3>2. Closed(o, "FAILED") \in Row /\ Closed(o, "FAILED").status = "FAILED"
          /\ Closed(o, "FAILED").holder = NoWorker /\ ~Closed(o, "FAILED").live
      BY <1>1, ClosedRow DEF Waiting
    <3>3. row \in Row /\ row.status = "FAILED" /\ row.holder = NoWorker /\ ~row.live
      BY <3>1, <3>2 DEF Row
    <3>4. "FAILED" \in Valid(obs[o].status)
      BY <2>4 DEF Abandoned, Valid
    <3>5. obs' = [obs EXCEPT ![o] = row]
      BY <2>2, <2>4 DEF Recover
    <3> HIDE DEF row
    <3>6. RowsOK' /\ ValidStep /\ NoCapture
      BY <1>1, <3>3, <3>4, <3>5, OneRow
    <3>7. Recovery(o, n) \in Key
      BY DEF Recovery, Key
    <3>8. due' \subseteq Key
      BY <1>1, <2>2, <2>4, <3>7, UpsertTyped DEF Recover
    <3>9. lost' \subseteq Observation
      BY <1>1, <2>2 DEF Recover, RestOK
    <3>11. RestOK'
      BY <1>1, <2>2, <2>3, <3>8, <3>9 DEF Recover, RestOK, queueVars
    <3>10. QED
      BY <2>2, <3>6, <3>11, QuietParts DEF Recover
  <2>5. CASE ~(Abandoned(o) /\ obs[o].open)
    <3>1. UNCHANGED <<obs, due, lost>>
      BY <2>2, <2>5 DEF Recover
    <3>2. RestOK'
      BY <1>1, <2>2, <2>3, <3>1 DEF Recover, RestOK, queueVars
    <3>3. QED
      BY <1>1, <2>2, <3>1, <3>2, RowsStay, QuietParts DEF Recover
  <2>6. QED
    BY <2>4, <2>5
<1>5. QED
  BY <1>2, <1>3, <1>4

\* The clock only touches `open' and `live'.
LEMMA TimeQuiet ==
  ASSUME TypeOK, NEW o \in Observation, WindowCloses(o) \/ LeaseRunsOut(o) \/ Stall(o)
  PROVE  Quiet
<1>1. RowsOK /\ RestOK
  BY TypeParts
<1>2. obs[o] \in Row
  BY <1>1 DEF RowsOK
<1>3. PICK r \in Row : /\ r.status = obs[o].status /\ r.holder = obs[o].holder
                      /\ (r.live => obs[o].live) /\ obs' = [obs EXCEPT ![o] = r]
  <2>1. CASE obs' = [obs EXCEPT ![o].open = FALSE]
    <3>1. [obs[o] EXCEPT !.open = FALSE] \in Row
      BY <1>2 DEF Row
    <3>2. QED
      BY <1>2, <2>1, <3>1 DEF Row
  <2>2. CASE obs' = [obs EXCEPT ![o].live = FALSE]
    <3>1. [obs[o] EXCEPT !.live = FALSE] \in Row
      BY <1>2 DEF Row
    <3>2. QED
      BY <1>2, <2>2, <3>1 DEF Row
  <2>3. QED
    BY <2>1, <2>2 DEF WindowCloses, LeaseRunsOut, Stall
<1>4. r.status = "PROCESSING" <=> r.holder # NoWorker
  BY <1>1, <1>3 DEF RowsOK
<1>5. r.live => r.status = "PROCESSING"
  BY <1>1, <1>3 DEF RowsOK
<1>6. RowsOK' /\ ValidStep /\ NoCapture
  BY <1>1, <1>3, <1>4, <1>5, OneRow
<1>7. faults' \in 0..MaxFaults
  BY <1>1, SpendTyped DEF WindowCloses, LeaseRunsOut, Stall, RestOK
<1>8. UNCHANGED <<metrics, generation, outboxVars, queueVars, worker, found, lost>>
  BY DEF WindowCloses, LeaseRunsOut, Stall
<1>9. RestOK'
  BY <1>1, <1>7, <1>8 DEF RestOK, outboxVars, queueVars
<1>10. QED
  BY <1>6, <1>8, <1>9, QuietParts

-----------------------------------------------------------------------------
(* Captures *)

LEMMA CommitTyped ==
  ASSUME TypeOK, NEW w \in Worker, Commit(w)
  PROVE  TypeOK' /\ ValidStep
<1>1. RowsOK /\ RestOK
  BY TypeParts
<1>2. Mine(w) \in Observation
  BY <1>1, MineTyped DEF Commit
<1>3. PICK s \in {"CAPTURED", "MISSED"} :
        UNCHANGED obs \/ (Holds(w) /\ obs' = [obs EXCEPT ![Mine(w)] = Closed(Mine(w), s)])
  BY DEF Commit
<1>4. RowsOK' /\ ValidStep
  <2>1. CASE UNCHANGED obs
    BY <1>1, <2>1, RowsStay
  <2>2. CASE Holds(w) /\ obs' = [obs EXCEPT ![Mine(w)] = Closed(Mine(w), s)]
    <3>1. Closed(Mine(w), s) \in Row /\ Closed(Mine(w), s).status = s
          /\ Closed(Mine(w), s).holder = NoWorker /\ ~Closed(Mine(w), s).live
      BY <1>1, <1>2, ClosedRow DEF Terminal
    <3>2. \A o \in Observation : obs'[o] = IF o = Mine(w) THEN Closed(Mine(w), s) ELSE obs[o]
      BY <1>1, <1>2, <2>2 DEF RowsOK
    <3>3. obs' \in [Observation -> Row]
      BY <1>1, <2>2, <3>1 DEF RowsOK
    <3>4. RowsOK'
      BY <1>1, <3>1, <3>2, <3>3 DEF RowsOK
    <3>5. s \in Valid("PROCESSING")
      BY DEF Valid, Terminal
    <3>6. obs[Mine(w)].status = "PROCESSING"
      BY <2>2 DEF Holds
    <3>7. ValidStep
      BY <3>1, <3>2, <3>5, <3>6 DEF ValidStep
    <3>8. QED
      BY <3>4, <3>7
  <2>3. QED
    BY <1>3, <2>1, <2>2
<1>5. /\ worker' \in [Worker -> Attempt]
      /\ \A v \in Worker : worker'[v].at # "idle" => worker'[v].key \in Key
  BY <1>1, FinishTyped DEF Commit
<1>6. metrics' \in [Observation -> Nat] /\ generation' \in Nat
  BY <1>1, <1>2 DEF Commit, RestOK
<1>7. RestOK'
  BY <1>1, <1>5, <1>6 DEF Commit, RestOK, outboxVars, queueVars
<1>8. QED
  BY <1>4, <1>7, TypePartsNext

\* Captures are counted; the count goes up exactly when a row under the lease becomes
\* CAPTURED, and such a row had no metrics.
LEMMA CommitCounts ==
  ASSUME TypeOK, CaptureInv, NEW w \in Worker, Commit(w)
  PROVE  CaptureInv'
<1>1. RowsOK /\ RestOK
  BY TypeParts
<1>2. Mine(w) \in Observation
  BY <1>1, MineTyped DEF Commit
<1>3. CASE Holds(w) /\ obs[Mine(w)].open
  <2>1. Closed(Mine(w), "CAPTURED").status = "CAPTURED"
    BY <1>1, <1>2, ClosedRow DEF Terminal
  <2>2. \A o \in Observation :
          obs'[o].status = IF o = Mine(w) THEN "CAPTURED" ELSE obs[o].status
    BY <1>1, <1>2, <1>3, <2>1 DEF Commit, RowsOK
  <2>3. /\ metrics' = [metrics EXCEPT ![Mine(w)] = metrics[Mine(w)] + 1]
        /\ generation' = generation + 1
    BY <1>3 DEF Commit
  <2>4. obs[Mine(w)].status = "PROCESSING"
    BY <1>3 DEF Holds
  <2>5. metrics[Mine(w)] = 0 /\ Mine(w) \notin Captured
    BY <1>2, <2>4 DEF CaptureInv, CapturedOnce, Captured
  <2>6. \A o \in Observation : metrics'[o] = IF obs'[o].status = "CAPTURED" THEN 1 ELSE 0
    BY <1>1, <1>2, <2>2, <2>3, <2>5 DEF CaptureInv, CapturedOnce, RestOK
  <2>7. Captured' = Captured \cup {Mine(w)}
    BY <1>2, <2>2 DEF Captured
  <2>8. IsFiniteSet(Captured') /\ Cardinality(Captured') = Cardinality(Captured) + 1
    BY <2>5, <2>7, FS_AddElement DEF CaptureInv
  <2>9. generation' = Cardinality(Captured')
    BY <2>3, <2>8 DEF CaptureInv, CapturedOnce, Captured
  <2>10. QED
    BY <2>6, <2>8, <2>9 DEF CaptureInv, CapturedOnce, Captured
<1>4. CASE ~(Holds(w) /\ obs[Mine(w)].open)
  <2>1. UNCHANGED <<metrics, generation>>
    BY <1>4 DEF Commit
  <2>2. UNCHANGED obs \/ (Holds(w) /\ obs' = [obs EXCEPT ![Mine(w)] = Closed(Mine(w), "MISSED")])
    BY <1>4 DEF Commit
  <2>3. Closed(Mine(w), "MISSED").status = "MISSED"
    BY <1>1, <1>2, ClosedRow DEF Terminal
  <2>4. \A o \in Observation : obs'[o].status = "CAPTURED" <=> obs[o].status = "CAPTURED"
    BY <1>1, <1>2, <2>2, <2>3 DEF Holds, RowsOK
  <2>5. QED
    BY <2>1, <2>4 DEF CaptureInv, CapturedOnce, Captured
<1>5. QED
  BY <1>3, <1>4

\* A quiet step leaves the captures as they are: the table has no way out of CAPTURED.
LEMMA QuietCounts ==
  ASSUME CaptureInv, Quiet
  PROVE  CaptureInv'
<1>1. Valid("CAPTURED") = {}
  BY DEF Valid
<1>2. \A o \in Observation : obs'[o].status = "CAPTURED" <=> obs[o].status = "CAPTURED"
  BY <1>1 DEF Quiet, ValidStep, NoCapture
<1>3. QED
  BY <1>2 DEF Quiet, CaptureInv, CapturedOnce, Captured

LEMMA EveryStep ==
  ASSUME TypeOK, Next
  PROVE  Quiet \/ \E w \in Worker : Commit(w)
<1>1. CASE OutboxStep \/ \E k \in Event : SendFails(k) \/ Replay(k)
  BY <1>1, OutboxQuiet DEF OutboxStep
<1>2. CASE \E k \in jobs : SkipJob(k) \/ ClaimFails(k)
  BY <1>2, EndsQuiet
<1>3. CASE \E w \in Worker : AttemptStep(w) \/ CommitFails(w) \/ Throw(w) \/ Crash(w)
  BY <1>3, ClaimQuiet, AttemptMoves, HeartbeatQuiet, OutcomesQuiet, EndsQuiet DEF AttemptStep
<1>4. CASE SweepClosed \/ \E s \in Sweeper : RecoverStep(s) \/ SweepFails(s)
  BY <1>4, SweepQuiet, RecoverQuiet DEF RecoverStep
<1>5. CASE \E o \in Observation : WindowCloses(o) \/ LeaseRunsOut(o) \/ Stall(o)
  BY <1>5, TimeQuiet
<1>6. QED
  BY <1>1, <1>2, <1>3, <1>4, <1>5 DEF Next

LEMMA StutterQuiet ==
  ASSUME TypeOK, UNCHANGED vars
  PROVE  Quiet
<1>1. RowsOK /\ RestOK
  BY TypeParts
<1>2. RestOK'
  BY <1>1 DEF vars, outboxVars, queueVars, RestOK
<1>3. QED
  BY <1>1, <1>2, RowsStay, QuietParts DEF vars

-----------------------------------------------------------------------------
(* Theorems *)

\* Every row, event, job and attempt keeps its type, a row is held exactly while it is
\* PROCESSING and has a live lease only then.
THEOREM TypeCorrect == Spec => []TypeOK
<1>1. Init => TypeOK
  BY TypesInitially
<1>2. TypeOK /\ [Next]_vars => TypeOK'
  BY EveryStep, StutterQuiet, CommitTyped DEF Quiet
<1>3. QED
  BY <1>1, <1>2, PTL DEF Spec

\* Metrics are stored exactly for a CAPTURED observation, once, and the generation of
\* the account counts the captures: heartbeats missed, leases taken over and rows
\* recovered never let two attempts store theirs.
THEOREM CapturesCount == Spec => []CapturedOnce
<1>1. Init => CaptureInv
  <2> SUFFICES ASSUME Init PROVE CaptureInv
    OBVIOUS
  <2>1. Captured = {}
    BY DEF Init, Captured
  <2>2. \A o \in Observation : metrics[o] = 0 /\ obs[o].status = "SCHEDULED"
    BY DEF Init
  <2>3. QED
    BY <2>1, <2>2, FS_EmptySet DEF Init, CaptureInv, CapturedOnce, Captured
<1>2. TypeOK /\ CaptureInv /\ [Next]_vars => CaptureInv'
  BY EveryStep, StutterQuiet, QuietCounts, CommitCounts
<1>3. CaptureInv => CapturedOnce
  BY DEF CaptureInv
<1>4. QED
  BY <1>1, <1>2, <1>3, TypeCorrect, PTL DEF Spec

\* No step takes a row off the table of observation-fsm.service.ts, although no
\* statement looks at it.
THEOREM TableKept == Spec => TransitionsValid
<1>1. TypeOK /\ [Next]_vars => ValidStep
  BY EveryStep, StutterQuiet, CommitTyped DEF Quiet
<1>2. TypeOK /\ [Next]_vars =>
        [\A o \in Observation :
           obs'[o].status # obs[o].status => obs'[o].status \in Valid(obs[o].status)]_vars
  BY <1>1 DEF ValidStep
<1>3. QED
  BY <1>2, TypeCorrect, PTL DEF Spec, TransitionsValid

-----------------------------------------------------------------------------
(* No retry is lost *)

AllEvents == due \cup sending \cup given \cup sent

\* A job for o, or an event that will still add one: Redis does not know its id yet.
Pending(o) == \E k \in jobs \cup ((due \cup sending \cup given) \ ids) : k.o = o

\* A retry's key is made of the attempts its row had, and the next attempt counts on.
KeyOld(k) ==
  /\ k.n <= obs[k.o].attempts
  /\ obs[k.o].status = "PROCESSING" => k.n < obs[k.o].attempts

\* What a worker that still holds its row has read of it.
SnapshotOK(w) ==
  worker[w].at \notin {"idle", "read"} /\ Holds(w) =>
    worker[w].attempts = obs[Mine(w)].attempts

\* What a sweeper has read is not ahead of the row.
FoundOld(s) == \A r \in found[s] : r[2] <= obs[r[1]].attempts

\* A row that waits for a retry that is not known to be lost.
WaitsOpen(o) == obs[o].status \in Waiting /\ obs[o].open /\ o \notin lost

RetryInv ==
  /\ ids \subseteq AllEvents
  /\ \A k \in AllEvents : KeyOld(k)
  /\ \A w \in Worker : SnapshotOK(w)
  /\ \A s \in Sweeper : FoundOld(s)
  /\ \A o \in Observation : WaitsOpen(o) => Pending(o)

\* A row goes on: its attempts count up, and it begins no attempt without counting it.
GoesOn(o) ==
  /\ obs'[o].attempts >= obs[o].attempts
  /\ obs'[o].status = "PROCESSING" =>
       obs[o].status = "PROCESSING" \/ obs'[o].attempts > obs[o].attempts

LEMMA EventsTyped == TypeOK => AllEvents \subseteq Key
BY DEF TypeOK, AllEvents

LEMMA KeysStayOld ==
  ASSUME TypeOK, TypeOK', \A o \in Observation : GoesOn(o), NEW k \in Key, KeyOld(k)
  PROVE  KeyOld(k)'
<1>1. k.o \in Observation /\ k.n \in Nat
  BY DEF Key
<1>2. obs[k.o].attempts \in Nat /\ obs'[k.o].attempts \in Nat
  BY <1>1 DEF TypeOK, Row
<1> QED
  BY <1>1, <1>2 DEF GoesOn, KeyOld

\* Steps that write no new event.
LEMMA NoNewEvent ==
  ASSUME TypeOK, TypeOK', RetryInv, AllEvents' = AllEvents, ids' \subseteq AllEvents,
         \A o \in Observation : GoesOn(o),
         \A o \in Observation : WaitsOpen(o)' => WaitsOpen(o) /\ (Pending(o) => Pending(o)'),
         \A w \in Worker : SnapshotOK(w)',
         \A s \in Sweeper : found'[s] \subseteq found[s]
  PROVE  RetryInv'
<1>1. \A k \in AllEvents' : KeyOld(k)'
  BY EventsTyped, KeysStayOld DEF RetryInv
<1>2. ASSUME NEW s \in Sweeper PROVE FoundOld(s)'
  <2>1. ASSUME NEW r \in found'[s] PROVE r[2] <= obs'[r[1]].attempts
    <3>1. r \in found[s] /\ r[1] \in Observation /\ r[2] \in Nat
      BY DEF TypeOK
    <3>2. obs[r[1]].attempts \in Nat /\ obs'[r[1]].attempts \in Nat
      BY <3>1 DEF TypeOK, Row
    <3> QED
      BY <3>1, <3>2 DEF RetryInv, FoundOld, GoesOn
  <2> QED
    BY <2>1 DEF FoundOld
<1> QED
  BY <1>1, <1>2 DEF RetryInv

\* A row that waits after an attempt or a recovery, and its new event.
LEMMA NewEvent ==
  ASSUME TypeOK, TypeOK', RetryInv, NEW o \in Observation, NEW k \in Key, k.o = o,
         k \notin AllEvents, Upsert(k), UNCHANGED <<sending, given, sent, ids, jobs, lost>>,
         \A q \in Observation : q # o => obs'[q] = obs[q],
         obs'[o].status \in {"FAILED", "RATE_LIMITED"},
         obs'[o].attempts >= obs[o].attempts, k.n <= obs'[o].attempts,
         \A w \in Worker : SnapshotOK(w)',
         \A s \in Sweeper : found'[s] \subseteq found[s]
  PROVE  RetryInv'
<1>1. due' = due \cup {k} /\ AllEvents' = AllEvents \cup {k} /\ k \notin ids'
  BY DEF Upsert, Exists, AllEvents, RetryInv
<1>2. \A q \in Observation : GoesOn(q)
  BY DEF GoesOn, TypeOK, Row
<1>3. KeyOld(k)'
  BY DEF KeyOld
<1>4. \A j \in AllEvents' : KeyOld(j)'
  BY <1>1, <1>2, <1>3, EventsTyped, KeysStayOld DEF RetryInv
<1>5. ASSUME NEW s \in Sweeper PROVE FoundOld(s)'
  <2>1. ASSUME NEW r \in found'[s] PROVE r[2] <= obs'[r[1]].attempts
    <3>1. r \in found[s] /\ r[1] \in Observation /\ r[2] \in Nat
      BY DEF TypeOK
    <3>2. obs[r[1]].attempts \in Nat /\ obs'[r[1]].attempts \in Nat
      BY <3>1 DEF TypeOK, Row
    <3> QED
      BY <1>2, <3>1, <3>2 DEF RetryInv, FoundOld, GoesOn
  <2> QED
    BY <2>1 DEF FoundOld
<1>6. ASSUME NEW q \in Observation, WaitsOpen(q)' PROVE Pending(q)'
  <2>1. CASE q = o
    BY <1>1, <2>1 DEF Pending
  <2>2. CASE q # o
    <3>1. Pending(q)
      BY <1>6, <2>2 DEF WaitsOpen, RetryInv
    <3> QED
      BY <1>1, <3>1 DEF Pending
  <2> QED
    BY <2>1, <2>2
<1>7. ids' \subseteq AllEvents'
  BY <1>1 DEF RetryInv
<1> QED
  BY <1>4, <1>5, <1>6, <1>7 DEF RetryInv

\* Rows that are let go or stay as they are, and workers that go on with what they read.
LEMMA SnapshotsKept ==
  ASSUME TypeOK, RetryInv,
         \A o \in Observation : obs'[o].status = "PROCESSING" =>
           /\ obs[o].status = "PROCESSING" /\ obs'[o].holder = obs[o].holder
           /\ obs'[o].attempts = obs[o].attempts,
         \A w \in Worker :
           \/ worker'[w] = worker[w] \/ worker'[w].at \in {"idle", "read"}
           \/ /\ worker[w].at \notin {"idle", "read"} /\ worker'[w].key = worker[w].key
              /\ worker'[w].attempts = worker[w].attempts
  PROVE  \A w \in Worker : SnapshotOK(w)'
<1> SUFFICES ASSUME NEW w \in Worker, worker'[w].at \notin {"idle", "read"}, Holds(w)'
             PROVE  worker'[w].attempts = obs'[Mine(w)'].attempts
  BY DEF SnapshotOK
<1>1. /\ worker[w].at \notin {"idle", "read"} /\ worker'[w].key = worker[w].key
      /\ worker'[w].attempts = worker[w].attempts
  OBVIOUS
<1>2. PICK o \in Observation : o = Mine(w) /\ o = Mine(w)'
  BY <1>1 DEF TypeOK, Key, Mine
<1>3. Holds(w) /\ obs'[o].attempts = obs[o].attempts
  BY <1>2 DEF Holds
<1> QED
  BY <1>1, <1>2, <1>3 DEF RetryInv, SnapshotOK

LEMMA RetryOutbox ==
  ASSUME TypeOK, TypeOK', RetryInv,
         \/ \E k \in Event : ClaimEvent(k) \/ AddJob(k) \/ CompleteEvent(k)
         \/ \E k \in Event : SendFails(k) \/ Replay(k)
         \/ \E k \in jobs : SkipJob(k)
  PROVE  RetryInv'
<1> USE DEF outboxVars, queueVars
<1>1. UNCHANGED <<obs, worker, found, lost>>
  BY DEF ClaimEvent, AddJob, CompleteEvent, SendFails, Replay, SkipJob
<1>2. AllEvents' = AllEvents /\ ids' \subseteq AllEvents
  BY DEF ClaimEvent, AddJob, CompleteEvent, SendFails, Replay, SkipJob, AllEvents, RetryInv
<1>3. ASSUME NEW o \in Observation, WaitsOpen(o), NEW k, k.o = o,
             k \in jobs \cup ((due \cup sending \cup given) \ ids)
      PROVE  k \in jobs' \cup ((due' \cup sending' \cup given') \ ids')
  <2>1. CASE \E j \in jobs : SkipJob(j)
    <3>1. PICK j \in jobs : SkipJob(j)
      BY <2>1
    <3>2. k # j
      BY <1>3, <3>1 DEF SkipJob, Claimable, WaitsOpen
    <3> QED
      BY <1>3, <3>1, <3>2 DEF SkipJob
  <2>2. CASE \E j \in Event : ClaimEvent(j) \/ AddJob(j) \/ CompleteEvent(j)
    BY <1>3, <2>2 DEF ClaimEvent, AddJob, CompleteEvent
  <2>3. CASE \E j \in Event : SendFails(j) \/ Replay(j)
    BY <1>3, <2>3 DEF SendFails, Replay
  <2> QED
    BY <2>1, <2>2, <2>3
<1>4. \A o \in Observation : WaitsOpen(o)' => WaitsOpen(o) /\ (Pending(o) => Pending(o)')
  BY <1>1, <1>3 DEF WaitsOpen, Pending
<1>5. \A o \in Observation : GoesOn(o)
  BY <1>1 DEF GoesOn, TypeOK, Row
<1>6. \A w \in Worker : SnapshotOK(w)'
  BY <1>1, SnapshotsKept
<1> QED
  BY <1>1, <1>2, <1>4, <1>5, <1>6, NoNewEvent

LEMMA RetryClaimFails ==
  ASSUME TypeOK, TypeOK', RetryInv, NEW k \in jobs, ClaimFails(k)
  PROVE  RetryInv'
<1> USE DEF outboxVars, queueVars
<1>1. UNCHANGED <<obs, due, sending, given, sent, ids, worker, found>> /\ jobs' = jobs \ {k}
  BY DEF ClaimFails
<1>2. AllEvents' = AllEvents /\ ids' \subseteq AllEvents
  BY <1>1 DEF AllEvents, RetryInv
<1>3. ASSUME NEW o \in Observation, WaitsOpen(o)'
      PROVE  WaitsOpen(o) /\ (Pending(o) => Pending(o)')
  <2>1. o # k.o /\ o \notin lost
    BY <1>1, <1>3 DEF ClaimFails, WaitsOpen
  <2> QED
    BY <1>1, <1>3, <2>1 DEF WaitsOpen, Pending
<1>4. \A o \in Observation : GoesOn(o)
  BY <1>1 DEF GoesOn, TypeOK, Row
<1>5. \A w \in Worker : SnapshotOK(w)'
  BY <1>1, SnapshotsKept
<1> QED
  BY <1>1, <1>2, <1>3, <1>4, <1>5, NoNewEvent

LEMMA RetryClaim ==
  ASSUME TypeOK, TypeOK', RetryInv, NEW w \in Worker, NEW k \in jobs, Claim(w, k)
  PROVE  RetryInv'
<1> USE DEF outboxVars, queueVars
<1>1. PICK o \in Observation : k.o = o
  BY DEF TypeOK, Key
<1>2. /\ obs'[o].status = "PROCESSING" /\ obs'[o].holder = w
      /\ obs'[o].attempts = obs[o].attempts + 1
      /\ \A q \in Observation : q # o => obs'[q] = obs[q]
  BY <1>1 DEF Claim, Claimed, TypeOK
<1>3. worker'[w].at = "read" /\ \A v \in Worker : v # w => worker'[v] = worker[v]
  BY DEF Claim, TypeOK
<1>4. AllEvents' = AllEvents /\ UNCHANGED <<due, sending, given, ids, found>>
      /\ lost' = lost \ {o}
  BY <1>1 DEF Claim, AllEvents
<1>5. \A q \in Observation : GoesOn(q)
  BY <1>2 DEF GoesOn, TypeOK, Row
<1>6. ASSUME NEW q \in Observation, WaitsOpen(q)' PROVE WaitsOpen(q) /\ (Pending(q) => Pending(q)')
  <2>1. q # o
    BY <1>2, <1>6 DEF WaitsOpen, Waiting
  <2>2. jobs' = jobs \ {k}
    BY DEF Claim
  <2> QED
    BY <1>1, <1>2, <1>4, <1>6, <2>1, <2>2 DEF WaitsOpen, Pending
<1>7. ASSUME NEW v \in Worker PROVE SnapshotOK(v)'
  <2>1. CASE v = w
    BY <1>3, <2>1 DEF SnapshotOK
  <2>2. CASE v # w
    <3> SUFFICES ASSUME worker'[v].at \notin {"idle", "read"}, Holds(v)'
                 PROVE  worker'[v].attempts = obs'[Mine(v)'].attempts
      BY DEF SnapshotOK
    <3>1. PICK q \in Observation : q = Mine(v) /\ q = Mine(v)'
      BY <1>3, <2>2 DEF TypeOK, Key, Mine
    <3>2. q # o
      BY <1>2, <2>2, <3>1 DEF Holds
    <3>3. obs'[q] = obs[q] /\ worker'[v] = worker[v]
      BY <1>2, <1>3, <2>2, <3>2
    <3>4. Holds(v)
      BY <3>1, <3>3 DEF Holds
    <3>5. worker[v].attempts = obs[q].attempts
      BY <3>1, <3>3, <3>4 DEF RetryInv, SnapshotOK
    <3> QED
      BY <3>1, <3>3, <3>5
  <2> QED
    BY <2>1, <2>2
<1> QED
  BY <1>4, <1>5, <1>6, <1>7, NoNewEvent DEF RetryInv

\* What leaves rows and events alone, and no worker with a wrong snapshot.
LEMMA MovesRetry ==
  ASSUME TypeOK, TypeOK', RetryInv, jobs \subseteq jobs',
         UNCHANGED <<obs, due, sending, given, sent, ids, lost>>,
         \A w \in Worker : SnapshotOK(w)',
         \A s \in Sweeper : found'[s] \subseteq found[s]
  PROVE  RetryInv'
<1>1. AllEvents' = AllEvents /\ ids' \subseteq AllEvents
  BY DEF AllEvents, RetryInv
<1>2. \A o \in Observation : GoesOn(o)
  BY DEF GoesOn, TypeOK, Row
<1>3. \A o \in Observation : WaitsOpen(o)' => WaitsOpen(o) /\ (Pending(o) => Pending(o)')
  BY DEF WaitsOpen, Pending
<1> QED
  BY <1>1, <1>2, <1>3, NoNewEvent

\* Steps of an attempt that change no row.
LEMMA RetryMoves ==
  ASSUME TypeOK, TypeOK', RetryInv, NEW w \in Worker,
         \/ ReadRow(w) \/ CommitFails(w) \/ Throw(w) \/ Crash(w)
         \/ \E a \in {"commit", "gone", "denied", "limited", "failed"} : Fetch(w, a)
  PROVE  RetryInv'
<1> USE DEF outboxVars, queueVars
<1>1. /\ UNCHANGED <<obs, due, sending, given, sent, ids, found, lost>> /\ jobs \subseteq jobs'
      /\ \A v \in Worker : v # w => worker'[v] = worker[v]
  BY DEF ReadRow, CommitFails, Throw, Crash, Fetch, Finish, TypeOK
<1>2. worker[w] \in Attempt
  BY DEF TypeOK
<1>3. CASE ReadRow(w)
  <2>1. worker'[w].key = worker[w].key /\ worker'[w].attempts = obs[Mine(w)].attempts
    BY <1>2, <1>3 DEF ReadRow, TypeOK, Attempt
  <2>2. SnapshotOK(w)'
    BY <1>1, <2>1 DEF SnapshotOK, Mine
  <2> QED
    BY <1>1, <2>2, MovesRetry DEF RetryInv, SnapshotOK, Holds, Mine
<1>4. CASE ~ReadRow(w)
  <2>1. \/ worker'[w].at = "idle"
        \/ /\ worker[w].at \notin {"idle", "read"} /\ worker'[w].key = worker[w].key
           /\ worker'[w].attempts = worker[w].attempts
    BY <1>2, <1>4 DEF CommitFails, Throw, Crash, Fetch, Finish, Idle, TypeOK, Attempt
  <2>2. \A v \in Worker : SnapshotOK(v)'
    BY <1>1, <2>1, SnapshotsKept
  <2> QED
    BY <1>1, <2>2, MovesRetry
<1> QED
  BY <1>3, <1>4

\* Rows that are let go, or get another lease or window, and nothing else that matters.
LEMMA RowsRetry ==
  ASSUME TypeOK, TypeOK', RetryInv, UNCHANGED <<outboxVars, queueVars, found>>,
         \A o \in Observation :
           /\ obs'[o].attempts = obs[o].attempts
           /\ obs'[o].status = "PROCESSING" =>
                obs[o].status = "PROCESSING" /\ obs'[o].holder = obs[o].holder
           /\ WaitsOpen(o)' => WaitsOpen(o),
         \A w \in Worker :
           \/ worker'[w] = worker[w] \/ worker'[w].at \in {"idle", "read"}
           \/ /\ worker[w].at \notin {"idle", "read"} /\ worker'[w].key = worker[w].key
              /\ worker'[w].attempts = worker[w].attempts
  PROVE  RetryInv'
<1>1. UNCHANGED <<due, sending, given, sent, jobs, ids, found>>
  BY DEF outboxVars, queueVars
<1>2. \A w \in Worker : SnapshotOK(w)'
  BY SnapshotsKept
<1>3. AllEvents' = AllEvents /\ ids' \subseteq AllEvents
  BY <1>1 DEF AllEvents, RetryInv
<1>4. \A o \in Observation : GoesOn(o)
  BY DEF GoesOn, TypeOK, Row
<1>5. \A o \in Observation : WaitsOpen(o)' => WaitsOpen(o) /\ (Pending(o) => Pending(o)')
  BY <1>1 DEF Pending
<1> QED
  BY <1>1, <1>2, <1>3, <1>4, <1>5, NoNewEvent

\* One row closed in a status that is final.
LEMMA ClosedRetry ==
  ASSUME TypeOK, NEW o \in Observation, NEW s \in Terminal, NEW q \in Observation, lost' = lost,
         obs' = [obs EXCEPT ![o] = Closed(o, s)] \/ obs' = obs
  PROVE  /\ obs'[q].attempts = obs[q].attempts
         /\ obs'[q].status = "PROCESSING" =>
              obs[q].status = "PROCESSING" /\ obs'[q].holder = obs[q].holder
         /\ WaitsOpen(q)' => WaitsOpen(q)
<1>1. obs[o] \in Row
  BY DEF TypeOK
<1>2. Closed(o, s).attempts = obs[o].attempts /\ Closed(o, s).status = s
  BY <1>1 DEF Closed, Row
<1>3. s # "PROCESSING" /\ s \notin Waiting
  BY DEF Terminal, Waiting
<1>4. obs'[q] = obs[q] \/ (q = o /\ obs'[q] = Closed(o, s))
  BY DEF TypeOK
<1> QED
  BY <1>2, <1>3, <1>4 DEF WaitsOpen

LEMMA RetryEnds ==
  ASSUME TypeOK, TypeOK', RetryInv, NEW w \in Worker, Commit(w) \/ Conclude(w)
  PROVE  RetryInv'
<1>1. PICK o \in Observation : o = Mine(w)
  BY DEF Commit, Conclude, TypeOK, Mine, Key
<1>2. \E s \in Terminal : obs' = [obs EXCEPT ![o] = Closed(o, s)] \/ obs' = obs
  BY <1>1 DEF Commit, Conclude, FencedUpdate, Terminal
<1>3. worker'[w].at = "idle" /\ \A v \in Worker : v # w => worker'[v] = worker[v]
  BY DEF Commit, Conclude, Finish, Idle, TypeOK
<1>4. UNCHANGED <<outboxVars, queueVars, found, lost>>
  BY DEF Commit, Conclude
<1> QED
  BY <1>2, <1>3, <1>4, ClosedRetry, RowsRetry

LEMMA RetryTime ==
  ASSUME TypeOK, TypeOK', RetryInv, NEW o \in Observation,
         WindowCloses(o) \/ LeaseRunsOut(o) \/ Stall(o)
  PROVE  RetryInv'
<1>1. obs[o] \in Row
  BY DEF TypeOK
<1>2. /\ obs'[o].attempts = obs[o].attempts /\ obs'[o].status = obs[o].status
      /\ obs'[o].holder = obs[o].holder /\ (obs'[o].open => obs[o].open)
      /\ \A q \in Observation : q # o => obs'[q] = obs[q]
  BY <1>1 DEF WindowCloses, LeaseRunsOut, Stall, TypeOK, Row
<1>3. UNCHANGED <<outboxVars, queueVars, found, worker, lost>>
  BY DEF WindowCloses, LeaseRunsOut, Stall
<1>4. ASSUME NEW q \in Observation
      PROVE  /\ obs'[q].attempts = obs[q].attempts
             /\ obs'[q].status = "PROCESSING" =>
                  obs[q].status = "PROCESSING" /\ obs'[q].holder = obs[q].holder
             /\ WaitsOpen(q)' => WaitsOpen(q)
  BY <1>2, <1>3 DEF WaitsOpen
<1> QED
  BY <1>3, <1>4, RowsRetry

LEMMA RetryHeartbeat ==
  ASSUME TypeOK, TypeOK', RetryInv, NEW w \in Worker, Heartbeat(w)
  PROVE  RetryInv'
<1>1. PICK o \in Observation : o = Mine(w)
  BY DEF Heartbeat, TypeOK, Mine, Key
<1>2. obs[o] \in Row /\ worker[w] \in Attempt
  BY DEF TypeOK
<1>3. ASSUME NEW q \in Observation
      PROVE  /\ obs'[q].attempts = obs[q].attempts /\ obs'[q].status = obs[q].status
             /\ obs'[q].holder = obs[q].holder /\ obs'[q].open = obs[q].open
  BY <1>1, <1>2 DEF Heartbeat, TypeOK, Row
<1>4. ASSUME NEW v \in Worker
      PROVE  \/ worker'[v] = worker[v]
             \/ /\ worker[v].at \notin {"idle", "read"} /\ worker'[v].key = worker[v].key
                /\ worker'[v].attempts = worker[v].attempts
  BY <1>2 DEF Heartbeat, TypeOK, Attempt
<1>5. UNCHANGED <<outboxVars, queueVars, found, lost>>
  BY DEF Heartbeat
<1>6. \A q \in Observation : WaitsOpen(q)' => WaitsOpen(q)
  BY <1>3, <1>5 DEF WaitsOpen
<1> QED
  BY <1>3, <1>4, <1>5, <1>6, RowsRetry

LEMMA RetrySweep ==
  ASSUME TypeOK, TypeOK', RetryInv, SweepClosed
  PROVE  RetryInv'
<1>1. ASSUME NEW q \in Observation
      PROVE  /\ obs'[q].attempts = obs[q].attempts
             /\ obs'[q].status = "PROCESSING" =>
                  obs[q].status = "PROCESSING" /\ obs'[q].holder = obs[q].holder
             /\ WaitsOpen(q)' => WaitsOpen(q)
  <2>1. obs[q] \in Row
    BY DEF TypeOK
  <2>2. Closed(q, "MISSED").attempts = obs[q].attempts /\ Closed(q, "MISSED").status = "MISSED"
    BY <2>1 DEF Closed, Row
  <2>3. obs'[q] = obs[q] \/ obs'[q] = Closed(q, "MISSED")
    BY DEF SweepClosed
  <2> QED
    BY <2>2, <2>3 DEF SweepClosed, WaitsOpen, Waiting
<1>2. UNCHANGED <<outboxVars, queueVars, found, worker, lost>>
  BY DEF SweepClosed
<1> QED
  BY <1>1, <1>2, RowsRetry

LEMMA RetryRead ==
  ASSUME TypeOK, TypeOK', RetryInv, NEW s \in Sweeper, ReadAbandoned(s)
  PROVE  RetryInv'
<1> USE DEF outboxVars, queueVars
<1>1. PICK rows \in SUBSET Observation :
        /\ rows = {o \in Observation : Abandoned(o) /\ obs[o].open}
        /\ found' = [found EXCEPT ![s] = {<<o, obs[o].attempts>> : o \in rows}]
  BY DEF ReadAbandoned
<1>2. UNCHANGED <<obs, due, sending, given, sent, jobs, ids, worker, lost>>
  BY DEF ReadAbandoned
<1>3. FoundOld(s)'
  <2>1. ASSUME NEW r \in found'[s]
        PROVE  r[2] <= obs[r[1]].attempts
    <3>1. PICK o \in rows : r = <<o, obs[o].attempts>>
      BY <1>1 DEF TypeOK
    <3>2. obs[o].attempts \in Nat
      BY DEF TypeOK, Row
    <3> QED
      BY <3>1, <3>2
  <2> QED
    BY <1>2, <2>1 DEF FoundOld
<1>4. ASSUME NEW t \in Sweeper, t # s PROVE FoundOld(t)'
  <2>1. found'[t] = found[t]
    BY <1>1, <1>4 DEF TypeOK
  <2> QED
    BY <1>2, <2>1 DEF RetryInv, FoundOld
<1>5. (ids \subseteq AllEvents)' /\ \A k \in AllEvents' : KeyOld(k)'
  BY <1>2 DEF RetryInv, AllEvents, KeyOld
<1>6. \A w \in Worker : SnapshotOK(w)'
  BY <1>2, SnapshotsKept
<1>7. \A o \in Observation : WaitsOpen(o)' => Pending(o)'
  BY <1>2 DEF RetryInv, WaitsOpen, Pending
<1> QED
  BY <1>3, <1>4, <1>5, <1>6, <1>7 DEF RetryInv

LEMMA RetrySweepFails ==
  ASSUME TypeOK, TypeOK', RetryInv, NEW s \in Sweeper, SweepFails(s)
  PROVE  RetryInv'
<1> USE DEF outboxVars, queueVars
<1>1. UNCHANGED <<obs, due, sending, given, sent, jobs, ids, worker, lost>>
  BY DEF SweepFails
<1>2. \A t \in Sweeper : found'[t] \subseteq found[t]
  BY DEF SweepFails, TypeOK
<1>3. \A w \in Worker : SnapshotOK(w)'
  BY <1>1, SnapshotsKept
<1> QED
  BY <1>1, <1>2, <1>3, MovesRetry

\* A recovery writes an event, or finds its key taken and loses the retry.
LEMMA RetryRecover ==
  ASSUME TypeOK, TypeOK', RetryInv, NEW s \in Sweeper,
         NEW o \in Observation, NEW n \in Nat, Recover(s, o, n)
  PROVE  RetryInv'
<1> USE DEF outboxVars, queueVars
<1>1. /\ <<o, n>> \in found[s] /\ found'[s] = found[s] \ {<<o, n>>}
      /\ \A t \in Sweeper : t # s => found'[t] = found[t]
      /\ UNCHANGED <<sending, given, sent, jobs, ids, worker>>
  BY DEF Recover, TypeOK
<1>2. \A t \in Sweeper : found'[t] \subseteq found[t]
  BY <1>1
<1>3. CASE ~(Abandoned(o) /\ obs[o].open)
  <2>1. UNCHANGED <<obs, due, lost>>
    BY <1>3 DEF Recover
  <2>2. \A w \in Worker : SnapshotOK(w)'
    BY <1>1, <2>1, SnapshotsKept
  <2> QED
    BY <1>1, <1>2, <2>1, <2>2, MovesRetry
<1>4. CASE Abandoned(o) /\ obs[o].open
  <2>1. PICK k : k = Recovery(o, n)
    OBVIOUS
  <2>2. k \in Key /\ k.o = o /\ k.n = n + 1 /\ Upsert(k)
        /\ lost' = IF k \in AllEvents THEN lost \cup {o} ELSE lost
    BY <1>4, <2>1 DEF Recover, Recovery, Exists, AllEvents, Key
  <2>4. obs[o] \in Row /\ obs[o].attempts \in Nat /\ n <= obs[o].attempts
    BY <1>1 DEF TypeOK, Row, RetryInv, FoundOld
  <2>5. /\ obs'[o].status = "FAILED" /\ obs'[o].attempts = obs[o].attempts + 1
        /\ \A q \in Observation : q # o => obs'[q] = obs[q]
    <3>1. Closed(o, "FAILED") \in [status : {"FAILED"}, holder : {NoWorker}, live : {FALSE},
                                   open : BOOLEAN, attempts : Nat]
      BY <2>4 DEF Closed, Row
    <3> QED
      BY <1>4, <3>1 DEF Recover, TypeOK
  <2>6. \A w \in Worker : SnapshotOK(w)'
    BY <1>1, <2>5, SnapshotsKept
  <2>7. k.n <= obs'[o].attempts /\ obs'[o].attempts >= obs[o].attempts
    BY <2>2, <2>4, <2>5
  <2>8. CASE k \notin AllEvents
    BY <1>1, <1>2, <2>2, <2>5, <2>6, <2>7, <2>8, NewEvent
  <2>9. CASE k \in AllEvents
    <3>1. AllEvents' = AllEvents /\ due' = due
      BY <1>1, <2>2, <2>9 DEF Upsert, Exists, AllEvents
    <3>2. \A q \in Observation : GoesOn(q)
      BY <2>4, <2>5, <2>7 DEF GoesOn, TypeOK, Row
    <3>3. ASSUME NEW q \in Observation, WaitsOpen(q)'
          PROVE  WaitsOpen(q) /\ (Pending(q) => Pending(q)')
      <4>1. q # o /\ q \notin lost
        BY <2>2, <2>9, <3>3 DEF WaitsOpen
      <4> QED
        BY <1>1, <2>5, <3>1, <3>3, <4>1 DEF WaitsOpen, Pending
    <3>4. ids' \subseteq AllEvents
      BY <1>1 DEF RetryInv
    <3> QED
      BY <1>2, <2>6, <3>1, <3>2, <3>3, <3>4, NoNewEvent
  <2> QED
    BY <2>8, <2>9
<1> QED
  BY <1>3, <1>4

\* A worker that still holds its row has counted the attempt it retries.
LEMMA RetryOutcome ==
  ASSUME TypeOK, TypeOK', RetryInv, NEW w \in Worker, NEW fits \in BOOLEAN,
         RateLimited(w, fits) \/ GeneralFailure(w, fits)
  PROVE  RetryInv'
<1> USE DEF outboxVars, queueVars
<1>1. /\ UNCHANGED <<sending, given, sent, jobs, ids, found, lost>>
      /\ worker[w].at \in {"limited", "failed"} /\ worker'[w].at = "idle"
      /\ \A v \in Worker : v # w => worker'[v] = worker[v]
  BY DEF RateLimited, GeneralFailure, Finish, Idle, TypeOK
<1>2. PICK o \in Observation : o = Mine(w)
  BY <1>1 DEF TypeOK, Mine, Key
<1>3. obs[o] \in Row /\ worker[w] \in Attempt
  BY DEF TypeOK
<1>4. CASE UNCHANGED due /\ (FencedUpdate(w, "MISSED") \/ obs' = obs)
  <2>1. obs' = [obs EXCEPT ![o] = Closed(o, "MISSED")] \/ obs' = obs
    BY <1>2, <1>4 DEF FencedUpdate
  <2>2. "MISSED" \in Terminal
    BY DEF Terminal
  <2> QED
    BY <1>1, <1>4, <2>1, <2>2, ClosedRetry, RowsRetry
<1>5. ASSUME NEW s \in {"RATE_LIMITED", "FAILED"}, NEW kind \in {"rl", "fail"},
             RetryLater(w, s, kind), Holds(w)
      PROVE  RetryInv'
  <2>1. PICK k : k = [o |-> o, kind |-> kind, n |-> worker[w].attempts]
    OBVIOUS
  <2>2. worker[w].attempts = obs[o].attempts /\ obs[o].status = "PROCESSING"
    BY <1>1, <1>2, <1>5 DEF RetryInv, SnapshotOK, Holds
  <2>3. k \in Key /\ k.o = o /\ k.n = obs[o].attempts /\ Upsert(k)
    BY <1>2, <1>3, <1>5, <2>1, <2>2 DEF RetryLater, Key, Attempt
  <2>4. obs[o].attempts \in Nat
    BY <1>3 DEF Row
  <2>5. k \notin AllEvents
    BY <2>2, <2>3, <2>4 DEF RetryInv, KeyOld
  <2>6. Closed(o, s).status = s /\ Closed(o, s).attempts = obs[o].attempts
    BY <1>3 DEF Closed, Row
  <2>7. /\ obs'[o].status = s /\ obs'[o].attempts = obs[o].attempts
        /\ \A q \in Observation : q # o => obs'[q] = obs[q]
    BY <1>2, <1>5, <2>6 DEF RetryLater, FencedUpdate, TypeOK
  <2>8. \A v \in Worker : SnapshotOK(v)'
    BY <1>1, <2>7, SnapshotsKept
  <2> QED
    BY <1>1, <2>3, <2>4, <2>5, <2>7, <2>8, NewEvent
<1>6. ASSUME NEW s, NEW kind, RetryLater(w, s, kind), ~Holds(w)
      PROVE  UNCHANGED <<obs, due>>
  BY <1>6 DEF RetryLater, FencedUpdate
<1> QED
  BY <1>4, <1>5, <1>6 DEF RateLimited, GeneralFailure

LEMMA RetryStutter ==
  ASSUME TypeOK, TypeOK', RetryInv, UNCHANGED vars
  PROVE  RetryInv'
<1> USE DEF vars, outboxVars, queueVars
<1>1. UNCHANGED <<obs, due, sending, given, sent, jobs, ids, worker, found, lost>>
  OBVIOUS
<1>2. \A w \in Worker : SnapshotOK(w)'
  BY <1>1, SnapshotsKept
<1> QED
  BY <1>1, <1>2, MovesRetry

LEMMA RetryInitially == Init => RetryInv
<1> SUFFICES ASSUME Init PROVE RetryInv
  OBVIOUS
<1>1. /\ AllEvents = {FirstEvent(o) : o \in Observation} /\ ids = {} /\ jobs = {}
      /\ due = {FirstEvent(o) : o \in Observation}
  BY DEF Init, AllEvents
<1>2. \A o \in Observation : obs[o].attempts = 0 /\ obs[o].status = "SCHEDULED"
  BY DEF Init
<1>3. \A k \in AllEvents : k.o \in Observation /\ k.n = 0
  BY <1>1 DEF FirstEvent
<1>4. \A k \in AllEvents : KeyOld(k)
  BY <1>2, <1>3 DEF KeyOld
<1>5. \A w \in Worker : SnapshotOK(w)
  BY DEF Init, Idle, SnapshotOK
<1>6. \A s \in Sweeper : FoundOld(s)
  BY DEF Init, FoundOld
<1>7. ASSUME NEW o \in Observation PROVE Pending(o)
  <2>1. FirstEvent(o) \in due \ ids /\ FirstEvent(o).o = o
    BY <1>1 DEF FirstEvent
  <2> QED
    BY <2>1 DEF Pending
<1> QED
  BY <1>1, <1>4, <1>5, <1>6, <1>7 DEF RetryInv

LEMMA RetryStep ==
  ASSUME TypeOK, TypeOK', RetryInv, [Next]_vars
  PROVE  RetryInv'
<1>1. CASE OutboxStep \/ (\E k \in Event : SendFails(k) \/ Replay(k)) \/ \E k \in jobs : SkipJob(k)
  BY <1>1, RetryOutbox DEF OutboxStep
<1>2. ASSUME NEW w \in Worker, AttemptStep(w) \/ CommitFails(w) \/ Throw(w) \/ Crash(w)
      PROVE  RetryInv'
  <2>1. CASE \E k \in jobs : Claim(w, k)
    BY <2>1, RetryClaim
  <2>2. CASE \/ ReadRow(w) \/ CommitFails(w) \/ Throw(w) \/ Crash(w)
             \/ \E a \in {"commit", "gone", "denied", "limited", "failed"} : Fetch(w, a)
    BY <2>2, RetryMoves
  <2>3. CASE Heartbeat(w)
    BY <2>3, RetryHeartbeat
  <2>4. CASE Commit(w) \/ Conclude(w)
    BY <2>4, RetryEnds
  <2>5. CASE \E fits \in BOOLEAN : RateLimited(w, fits) \/ GeneralFailure(w, fits)
    BY <2>5, RetryOutcome
  <2> QED
    BY <1>2, <2>1, <2>2, <2>3, <2>4, <2>5 DEF AttemptStep
<1>7. CASE \E k \in jobs : ClaimFails(k)
  BY <1>7, RetryClaimFails
<1>3. CASE SweepClosed
  BY <1>3, RetrySweep
<1>4. ASSUME NEW s \in Sweeper, RecoverStep(s) \/ SweepFails(s)
      PROVE  RetryInv'
  <2>1. CASE ReadAbandoned(s)
    BY <2>1, RetryRead
  <2>2. CASE SweepFails(s)
    BY <2>2, RetrySweepFails
  <2>3. ASSUME NEW r \in found[s], Recover(s, r[1], r[2])
        PROVE  RetryInv'
    <3>1. r[1] \in Observation /\ r[2] \in Nat
      BY DEF TypeOK
    <3> QED
      BY <2>3, <3>1, RetryRecover
  <2> QED
    BY <1>4, <2>1, <2>2, <2>3 DEF RecoverStep
<1>5. CASE \E o \in Observation : WindowCloses(o) \/ LeaseRunsOut(o) \/ Stall(o)
  BY <1>5, RetryTime
<1>6. CASE UNCHANGED vars
  BY <1>6, RetryStutter
<1> QED
  BY <1>1, <1>2, <1>3, <1>4, <1>5, <1>6, <1>7 DEF Next

LEMMA RetryInvariant == Spec => []RetryInv
<1>1. TypeOK /\ TypeOK' /\ RetryInv /\ [Next]_vars => RetryInv'
  BY RetryStep
<1> QED
  BY <1>1, RetryInitially, TypeCorrect, PTL DEF Spec

\* However many processes sweep, an observation that waits in an open window has a job or
\* an event that will become one, whatever claims, late heartbeats, recoveries, retries
\* and replays overlap, unless a job of it failed at its claim or a recovery of it found
\* the key of an earlier one.
THEOREM RetriesComplete == Spec => []RetryOnTheWay
<1>1. RetryInv => RetryOnTheWay
  BY DEF RetryInv, RetryOnTheWay, WaitsOpen, Pending
<1> QED
  BY <1>1, RetryInvariant, PTL

\* An attempt that puts its row back, to wait for a retry, writes an event that did not
\* exist; a recovery counts an attempt and is not one.
PutBack(o) ==
  /\ obs[o].status = "PROCESSING" /\ obs'[o].status \in Waiting
  /\ obs'[o].attempts = obs[o].attempts
AttemptsRetried ==
  [][\A o \in Observation :
       PutBack(o) => Pending(o)' /\ \E k \in due' \ AllEvents : k.o = o]_vars

\* A row that goes on waiting keeps its job, or the event that will become one, unless
\* that job fails at its claim.
PendingKept ==
  [][\A o \in Observation :
       /\ obs[o].status \in Waiting /\ obs'[o].status \in Waiting /\ Pending(o)
       /\ ~\E k \in jobs : k.o = o /\ ClaimFails(k)
       => Pending(o)']_vars

LEMMA PendingStays ==
  ASSUME TypeOK, [Next]_vars, NEW o \in Observation, Pending(o),
         ~\E k \in jobs : k.o = o /\ ClaimFails(k), obs[o].status \in Waiting, obs'[o].status \in Waiting
  PROVE  Pending(o)'
<1> USE DEF outboxVars, queueVars
<1>1. PICK k \in jobs \cup ((due \cup sending \cup given) \ ids) : k.o = o
  BY DEF Pending
<1> SUFFICES k \in jobs' \cup ((due' \cup sending' \cup given') \ ids')
  BY <1>1 DEF Pending
<1>2. CASE \E j \in Event : ClaimEvent(j) \/ AddJob(j) \/ CompleteEvent(j)
  BY <1>1, <1>2 DEF ClaimEvent, AddJob, CompleteEvent
<1>3. CASE \E j \in Event : SendFails(j) \/ Replay(j)
  BY <1>1, <1>3 DEF SendFails, Replay
<1>4. CASE \E j \in jobs : SkipJob(j)
  <2>1. PICK j \in jobs : SkipJob(j)
    BY <1>4
  <2>2. k # j
    BY <1>1, <2>1 DEF SkipJob, Claimable
  <2> QED
    BY <1>1, <2>1, <2>2 DEF SkipJob
<1>11. CASE \E j \in jobs : ClaimFails(j)
  <2>1. PICK j \in jobs : ClaimFails(j)
    BY <1>11
  <2>2. k # j
    BY <1>1, <2>1
  <2> QED
    BY <1>1, <2>1, <2>2 DEF ClaimFails
<1>5. ASSUME NEW w \in Worker, NEW j \in jobs, Claim(w, j)
      PROVE  k \in jobs' \cup ((due' \cup sending' \cup given') \ ids')
  <2>1. k # j
    BY <1>1, <1>5 DEF Claim, Claimed, TypeOK, Waiting
  <2> QED
    BY <1>1, <1>5, <2>1 DEF Claim
<1>6. CASE /\ due \subseteq due' /\ jobs \subseteq jobs'
           /\ UNCHANGED <<sending, given, ids>>
  BY <1>1, <1>6
<1>7. ASSUME NEW w \in Worker,
             \/ ReadRow(w) \/ Heartbeat(w) \/ Commit(w) \/ Conclude(w)
             \/ CommitFails(w) \/ Throw(w) \/ Crash(w)
             \/ \E a \in {"commit", "gone", "denied", "limited", "failed"} : Fetch(w, a)
             \/ \E fits \in BOOLEAN : RateLimited(w, fits) \/ GeneralFailure(w, fits)
      PROVE  k \in jobs' \cup ((due' \cup sending' \cup given') \ ids')
  <2>1. CASE \E fits \in BOOLEAN : RateLimited(w, fits) \/ GeneralFailure(w, fits)
    <3>1. due \subseteq due' /\ UNCHANGED <<sending, given, jobs, ids>>
      BY <2>1 DEF RateLimited, GeneralFailure, RetryLater, Upsert, Exists
    <3> QED
      BY <1>6, <3>1
  <2>2. CASE ~\E fits \in BOOLEAN : RateLimited(w, fits) \/ GeneralFailure(w, fits)
    BY <1>6, <1>7, <2>2 DEF ReadRow, Heartbeat, Commit, Conclude, CommitFails, Throw, Crash, Fetch
  <2> QED
    BY <2>1, <2>2
<1>8. CASE SweepClosed \/ \E s \in Sweeper : RecoverStep(s) \/ SweepFails(s)
  BY <1>6, <1>8 DEF SweepClosed, RecoverStep, ReadAbandoned, Recover, SweepFails,
       Upsert, Exists
<1>9. CASE \E q \in Observation : WindowCloses(q) \/ LeaseRunsOut(q) \/ Stall(q)
  BY <1>6, <1>9 DEF WindowCloses, LeaseRunsOut, Stall
<1>10. CASE UNCHANGED vars
  BY <1>6, <1>10 DEF vars
<1> QED
  BY <1>2, <1>3, <1>4, <1>5, <1>7, <1>8, <1>9, <1>10, <1>11 DEF Next, OutboxStep, AttemptStep

LEMMA PutBackBy ==
  ASSUME TypeOK, [Next]_vars, NEW o \in Observation, PutBack(o)
  PROVE  \E w \in Worker, fits \in BOOLEAN : RateLimited(w, fits) \/ GeneralFailure(w, fits)
<1> USE DEF outboxVars, queueVars
<1>1. obs[o] \in Row /\ obs' # obs
  BY DEF TypeOK, PutBack, Waiting
<1>2. \A s : Closed(o, s).status = s /\ Closed(o, s).attempts = obs[o].attempts
  BY <1>1 DEF Closed, Row
<1>3. \A s \in Terminal : s \notin Waiting
  BY DEF Terminal, Waiting
<1>4. ~OutboxStep /\ ~(\E k \in Event : SendFails(k) \/ Replay(k)) 
      /\ ~\E k \in jobs : SkipJob(k) \/ ClaimFails(k)
  BY <1>1 DEF OutboxStep, ClaimEvent, AddJob, CompleteEvent, SendFails, Replay, SkipJob, ClaimFails
<1>5. ASSUME NEW w \in Worker
      PROVE  /\ ~CommitFails(w) /\ ~Throw(w) /\ ~Crash(w) /\ ~ReadRow(w)
             /\ ~\E a \in {"commit", "gone", "denied", "limited", "failed"} : Fetch(w, a)
  BY <1>1 DEF CommitFails, Throw, Crash, ReadRow, Fetch
<1>6. ASSUME NEW w \in Worker, Commit(w) \/ Conclude(w) PROVE FALSE
  <2>1. \E s \in Terminal : obs' = [obs EXCEPT ![Mine(w)] = Closed(Mine(w), s)] \/ obs' = obs
    BY <1>6 DEF Commit, Conclude, FencedUpdate, Terminal
  <2>2. obs'[o] = obs[o] \/ \E s \in Terminal : obs'[o] = Closed(o, s)
    BY <2>1 DEF TypeOK
  <2> QED
    BY <1>2, <1>3, <2>2 DEF PutBack, Waiting
<1>7. ASSUME NEW w \in Worker, NEW k \in jobs, Claim(w, k) PROVE FALSE
  <2>1. obs'[o] = obs[o] \/ obs'[o].status = "PROCESSING"
    BY <1>7 DEF Claim, Claimed, TypeOK
  <2> QED
    BY <2>1 DEF PutBack, Waiting
<1>8. ASSUME NEW w \in Worker, Heartbeat(w) PROVE FALSE
  <2>1. obs'[o].status = obs[o].status
    BY <1>1, <1>8 DEF Heartbeat, TypeOK, Row
  <2> QED
    BY <2>1 DEF PutBack, Waiting
<1>9. ~SweepClosed
  <2>1. SweepClosed => obs'[o] = obs[o] \/ obs'[o] = Closed(o, "MISSED")
    BY DEF SweepClosed
  <2> QED
    BY <1>2, <2>1 DEF PutBack, Waiting
<1>10. ASSUME NEW s \in Sweeper PROVE ~RecoverStep(s) /\ ~SweepFails(s)
  <2>1. ~ReadAbandoned(s) /\ ~SweepFails(s)
    BY <1>1 DEF ReadAbandoned, SweepFails
  <2>2. ASSUME NEW r \in found[s], Recover(s, r[1], r[2]) PROVE FALSE
    <3>1. PICK q \in Observation : q = r[1]
      BY DEF TypeOK
    <3>2. CASE q # o
      <4>1. obs'[o] = obs[o]
        BY <2>2, <3>1, <3>2 DEF Recover, TypeOK
      <4> QED
        BY <4>1 DEF PutBack, Waiting
    <3>3. CASE q = o
      <4>1. Closed(o, "FAILED") \in [status : {"FAILED"}, holder : {NoWorker}, live : {FALSE},
                                     open : BOOLEAN, attempts : Nat]
        BY <1>1 DEF Closed, Row
      <4>2. obs'[o] = obs[o] \/ obs'[o].attempts = obs[o].attempts + 1
        BY <2>2, <3>1, <3>3, <4>1 DEF Recover, TypeOK
      <4>3. obs[o].attempts \in Nat
        BY <1>1 DEF Row
      <4> QED
        BY <4>2, <4>3 DEF PutBack, Waiting
    <3> QED
      BY <3>2, <3>3
  <2> QED
    BY <2>1, <2>2 DEF RecoverStep
<1>11. ASSUME NEW q \in Observation, WindowCloses(q) \/ LeaseRunsOut(q) \/ Stall(q) PROVE FALSE
  <2>1. obs[q] \in Row
    BY DEF TypeOK
  <2>2. obs'[o].status = obs[o].status
    BY <1>1, <1>11, <2>1 DEF WindowCloses, LeaseRunsOut, Stall, TypeOK, Row
  <2> QED
    BY <2>2 DEF PutBack, Waiting
<1>12. Next
  BY <1>1 DEF vars
<1> QED
  BY <1>4, <1>5, <1>6, <1>7, <1>8, <1>9, <1>10, <1>11, <1>12 DEF Next, AttemptStep

\* However many processes sweep, an attempt that ends in a retry writes an event that did
\* not exist, whatever it overlapped, and a row that goes on waiting keeps its job or
\* event but for a job that fails at its claim: a taken key is a recovery's alone.
THEOREM OwnRetriesComplete ==
  Spec => AttemptsRetried /\ PendingKept
<1>2. ASSUME TypeOK, RetryInv, [Next]_vars, NEW o \in Observation, PutBack(o)
      PROVE  Pending(o)' /\ \E k \in due' \ AllEvents : k.o = o
  <2>1. PICK w \in Worker, fits \in BOOLEAN : RateLimited(w, fits) \/ GeneralFailure(w, fits)
    BY <1>2, PutBackBy
  <2>2. worker[w].at \in {"limited", "failed"} /\ Mine(w) \in Observation
    BY <1>2, <2>1 DEF RateLimited, GeneralFailure, TypeOK, Mine, Key
  <2>3. obs'[o] # obs[o]
    BY <1>2 DEF PutBack, Waiting
  <2>4. o = Mine(w) /\ Holds(w)
    BY <1>2, <2>1, <2>3 DEF RateLimited, GeneralFailure, RetryLater, FencedUpdate, TypeOK
  <2>5. worker[w].attempts = obs[o].attempts /\ obs[o].attempts \in Nat
    BY <1>2, <2>2, <2>4 DEF RetryInv, SnapshotOK, TypeOK, Row
  <2>6. Closed(o, "MISSED").status = "MISSED"
    BY <1>2 DEF Closed, TypeOK, Row
  <2>7. \E s, kind : RetryLater(w, s, kind)
    <3>1. ~FencedUpdate(w, "MISSED")
      BY <1>2, <2>4, <2>6 DEF FencedUpdate, PutBack, Waiting, TypeOK
    <3> QED
      BY <2>1, <3>1 DEF RateLimited, GeneralFailure
  <2>8. PICK s, kind : RetryLater(w, s, kind)
    BY <2>7
  <2>9. PICK k : k = [o |-> o, kind |-> kind, n |-> worker[w].attempts]
    OBVIOUS
  <2>10. Upsert(k) /\ k.o = o /\ k.n = obs[o].attempts
    BY <2>4, <2>5, <2>8, <2>9 DEF RetryLater
  <2>11. k \notin AllEvents
    BY <1>2, <2>5, <2>10 DEF RetryInv, KeyOld, PutBack
  <2>12. k \in due' /\ k \notin ids'
    <3>1. ids' = ids /\ ids \subseteq AllEvents
      BY <1>2, <2>1 DEF RateLimited, GeneralFailure, queueVars, RetryInv
    <3> QED
      BY <2>10, <2>11, <3>1 DEF Upsert, Exists, AllEvents
  <2> QED
    BY <2>10, <2>11, <2>12 DEF Pending
<1>3. TypeOK /\ RetryInv /\ [Next]_vars =>
        [\A o \in Observation :
           PutBack(o) => Pending(o)' /\ \E k \in due' \ AllEvents : k.o = o]_vars
  BY <1>2
<1>4. TypeOK /\ [Next]_vars =>
        [\A o \in Observation :
           /\ obs[o].status \in Waiting /\ obs'[o].status \in Waiting /\ Pending(o)
           /\ ~\E k \in jobs : k.o = o /\ ClaimFails(k)
           => Pending(o)']_vars
  BY PendingStays
<1> QED
  BY <1>3, <1>4, RetryInvariant, TypeCorrect, PTL DEF Spec, AttemptsRetried, PendingKept

=============================================================================
