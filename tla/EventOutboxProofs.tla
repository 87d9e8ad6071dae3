------------------------- MODULE EventOutboxProofs -------------------------
(***************************************************************************)
(* The outbox keeps its types, respects leases and implements              *)
(* EventDelivery, for every set of events and processors.                  *)
(***************************************************************************)
EXTENDS EventOutbox, TLAPS

\* Claims somebody still holds, current or not.
Held(c) == c \in stale \/ \E p \in Processor : c = proc[p].claim \/ c \in proc[p].todo

\* A claim is of an event that was written; an event about to be marked PROCESSED,
\* under a claim or by Scan 0, has had its effect.
DeliveryInv ==
  /\ \A c \in Claim : Held(c) => status[c.event] # "NONE"
  /\ \A e \in pending \cup queued : status[e] # "NONE"
  /\ queued \subseteq delivered
  /\ \A p \in Processor : proc[p].at = "mark" => proc[p].claim.event \in delivered

\* A row in PROCESSING has been claimed.
Counted == \A e \in Event : status[e] = "PROCESSING" => attempts[e] \in 1..MaxAttempts

-----------------------------------------------------------------------------
(* Types *)

LEMMA TypesOfClaim ==
  ASSUME TypeOK, NEW p \in Processor, NEW c \in Claim
  PROVE  /\ c.event \in Event /\ c.attempt \in 1..MaxAttempts
         /\ AfterFailure(c) \in {"PENDING", "FAILED"}
         /\ proc[p].at # "loop" => proc[p].claim \in Claim
         /\ proc[p].todo \subseteq Claim
BY DEF TypeOK, Claim, ProcessorState, AfterFailure

\* A fenced write leaves the types of the row alone.
LEMMA TypesOfFenced ==
  ASSUME TypeOK, NEW c \in Claim, NEW s \in {"PENDING", "PROCESSED", "FAILED"},
         Fenced(c, s)
  PROVE  /\ status' \in [Event -> {"NONE", "PENDING", "PROCESSING", "PROCESSED", "FAILED"}]
         /\ live' \in [Event -> BOOLEAN]
BY DEF TypeOK, Fenced, Close

LEMMA TypesOfProcessor ==
  ASSUME TypeOK, NEW p \in Processor, ClaimBatch(p) \/ Advance(p) \/ Abandon(p)
  PROVE  TypeOK'
<1>0. AtRest \in ProcessorState /\ AtRest.at = "loop"
  BY DEF AtRest, ProcessorState
<1>1. CASE ClaimBatch(p)
  <2>1. PICK claimed \in SUBSET Event :
          /\ \A e \in claimed : Claimable(e)
          /\ status' = [e \in Event |-> IF e \in claimed THEN "PROCESSING" ELSE status[e]]
          /\ attempts' = [e \in Event |->
                            IF e \in claimed THEN attempts[e] + 1 ELSE attempts[e]]
          /\ live' = [e \in Event |-> e \in claimed \/ live[e]]
          /\ proc' = [proc EXCEPT ![p].todo =
               {[event |-> e, attempt |-> attempts[e] + 1] : e \in claimed}]
    BY <1>1 DEF ClaimBatch, Batch
  <2>2. \A e \in claimed : attempts[e] + 1 \in 1..MaxAttempts
    BY <2>1, BoundAssumption DEF Claimable, TypeOK
  <2>3. {[event |-> e, attempt |-> attempts[e] + 1] : e \in claimed} \subseteq Claim
    BY <2>2 DEF Claim
  <2>4. proc' \in [Processor -> ProcessorState]
    BY <2>1, <2>3 DEF TypeOK, ProcessorState
  <2>5. \A q \in Processor : proc'[q].at # "loop" => proc'[q].claim \in Claim
    BY <2>1 DEF TypeOK, ProcessorState
  <2>6. /\ status' \in [Event -> {"NONE", "PENDING", "PROCESSING", "PROCESSED", "FAILED"}]
        /\ attempts' \in [Event -> 0..MaxAttempts]
        /\ live' \in [Event -> BOOLEAN]
    BY <2>1, <2>2 DEF TypeOK
  <2>7. QED
    BY <1>1, <2>4, <2>5, <2>6 DEF ClaimBatch, TypeOK, scanVars, effectVars
<1>2. ASSUME NEW c \in proc[p].todo, Handle(p, c) \/ HandlerThrows(p, c)
      PROVE  TypeOK'
  <2>1. c \in Claim /\ c.event \in Event
    BY DEF TypeOK, ProcessorState, Claim
  <2>2. /\ proc' \in [Processor -> ProcessorState]
        /\ \A q \in Processor : proc'[q].at # "loop" => proc'[q].claim \in Claim
    BY <1>2, <2>1 DEF Handle, HandlerThrows, Take, TypeOK, ProcessorState
  <2>3. delivered' \subseteq Event /\ triggered' \subseteq Event \ Dispatches
    BY <1>2, <2>1 DEF Handle, HandlerThrows, Effect, TypeOK
  <2>4. QED
    BY <1>2, <2>2, <2>3 DEF Handle, HandlerThrows, TypeOK, scanVars
<1>3. CASE MarkProcessed(p) \/ MarkThrows(p) \/ Catch(p)
  <2>1. proc[p].claim \in Claim
    BY <1>3 DEF MarkProcessed, MarkThrows, Catch, TypeOK
  <2>2. /\ status' \in [Event -> {"NONE", "PENDING", "PROCESSING", "PROCESSED", "FAILED"}]
        /\ live' \in [Event -> BOOLEAN]
    BY <1>3, <2>1, TypesOfFenced, TypesOfClaim DEF MarkProcessed, MarkThrows, Catch, TypeOK
  <2>3. /\ proc' \in [Processor -> ProcessorState]
        /\ \A q \in Processor : proc'[q].at # "loop" => proc'[q].claim \in Claim
    BY <1>3, <2>1, <1>0 DEF MarkProcessed, MarkThrows, Catch, NextEvent, TypeOK, ProcessorState
  <2>4. QED
    BY <1>3, <2>2, <2>3 DEF MarkProcessed, MarkThrows, Catch, TypeOK, scanVars, effectVars
<1>4. CASE Abandon(p)
  BY <1>0, <1>4 DEF Abandon, TypeOK, scanVars, effectVars
<1>5. QED
  BY <1>1, <1>2, <1>3, <1>4 DEF Advance

LEMMA TypesOfScans ==
  ASSUME TypeOK, Counted, Scan6 \/ Scan0
  PROVE  TypeOK'
<1>1. ASSUME NEW e \in Event, Scan6Read(e)
      PROVE  TypeOK'
  <2>1. attempts[e] \in 1..MaxAttempts => [event |-> e, attempt |-> attempts[e]] \in Claim
    BY DEF Claim
  <2>2. QED
    BY <1>1, <2>1 DEF Scan6Read, Counted, TypeOK, effectVars
<1>2. ASSUME NEW c \in stale, Scan6Write(c)
      PROVE  TypeOK'
  <2>1. c \in Claim
    BY DEF TypeOK
  <2>2. /\ status' \in [Event -> {"NONE", "PENDING", "PROCESSING", "PROCESSED", "FAILED"}]
        /\ live' \in [Event -> BOOLEAN]
    BY <1>2, <2>1 DEF Scan6Write, Close, AfterFailure, TypeOK
  <2>3. QED
    BY <1>2, <2>2 DEF Scan6Write, TypeOK, effectVars
<1>3. CASE Scan6Stops
  BY <1>3 DEF Scan6Stops, TypeOK, effectVars
<1>4. CASE Scan0Stops
  BY <1>4 DEF Scan0Stops, TypeOK, effectVars
<1>5. ASSUME NEW e \in Dispatches, Scan0Read(e) \/ Scan0Enqueue(e) \/ Scan0Mark(e)
      PROVE  TypeOK'
  BY <1>5, EventAssumption DEF Scan0Read, Scan0Enqueue, Scan0Mark, TypeOK, effectVars
<1>6. QED
  BY <1>1, <1>2, <1>3, <1>4, <1>5 DEF Scan6, Scan0

LEMMA TypesInitially == Init => TypeOK /\ Counted
BY BoundAssumption DEF Init, TypeOK, Counted, AtRest, ProcessorState

LEMMA TypesStep == TypeOK /\ Counted /\ [Next]_vars => TypeOK'
<1> SUFFICES ASSUME TypeOK, Counted, [Next]_vars
             PROVE  TypeOK'
  OBVIOUS
<1>1. ASSUME NEW e \in Event, Emit(e) \/ LeaseRunsOut(e)
      PROVE  TypeOK'
  BY <1>1 DEF Emit, LeaseRunsOut, TypeOK, scanVars, effectVars
<1>2. CASE UNCHANGED vars
  BY <1>2 DEF vars, TypeOK, scanVars, effectVars
<1>3. QED
  BY <1>1, <1>2, TypesOfProcessor, TypesOfScans DEF Next

\* Only a claim puts a row in PROCESSING, and attempts are never taken back.
LEMMA StatusStep ==
  ASSUME TypeOK, [Next]_vars, NEW e \in Event
  PROVE  /\ attempts'[e] = attempts[e] \/ attempts'[e] = attempts[e] + 1
         /\ status'[e] = "PROCESSING" =>
              status[e] = "PROCESSING" \/ attempts'[e] = attempts[e] + 1
         /\ status[e] # "NONE" => status'[e] # "NONE"
<1>1. ASSUME NEW p \in Processor, ClaimBatch(p)
      PROVE  /\ attempts'[e] = attempts[e] \/ attempts'[e] = attempts[e] + 1
             /\ status'[e] = "PROCESSING" =>
                  status[e] = "PROCESSING" \/ attempts'[e] = attempts[e] + 1
             /\ status[e] # "NONE" => status'[e] # "NONE"
  BY <1>1 DEF ClaimBatch, TypeOK
<1>2. ASSUME NEW p \in Processor, NEW c \in proc[p].todo, Handle(p, c) \/ HandlerThrows(p, c)
      PROVE  UNCHANGED <<status, attempts>>
  BY <1>2 DEF Handle, HandlerThrows
<1>3. ASSUME NEW p \in Processor, MarkProcessed(p) \/ MarkThrows(p) \/ Catch(p)
      PROVE  /\ attempts' = attempts
             /\ status'[e] \in {status[e], "PENDING", "PROCESSED", "FAILED"}
  BY <1>3 DEF MarkProcessed, MarkThrows, Catch, Fenced, Close, AfterFailure, TypeOK
<1>4. ASSUME NEW c \in stale, Scan6Write(c)
      PROVE  /\ attempts' = attempts
             /\ status'[e] \in {status[e], "PENDING", "PROCESSED", "FAILED"}
  BY <1>4 DEF Scan6Write, Close, AfterFailure, TypeOK
<1>5. ASSUME NEW d \in Event, Scan6Read(d) \/ LeaseRunsOut(d) \/ Emit(d)
      PROVE  /\ attempts' = attempts
             /\ status'[e] = status[e] \/ (status[e] = "NONE" /\ status'[e] = "PENDING")
  BY <1>5 DEF Scan6Read, LeaseRunsOut, Emit, TypeOK
<1>6. ASSUME NEW d \in Dispatches, Scan0Read(d) \/ Scan0Enqueue(d) \/ Scan0Mark(d)
      PROVE  attempts' = attempts /\ status'[e] \in {status[e], "PROCESSED"}
  BY <1>6 DEF Scan0Read, Scan0Enqueue, Scan0Mark, TypeOK
<1>7. ASSUME NEW p \in Processor, Abandon(p)
      PROVE  UNCHANGED <<status, attempts>>
  BY <1>7 DEF Abandon
<1>8. CASE Scan6Stops \/ Scan0Stops \/ UNCHANGED vars
  BY <1>8 DEF Scan6Stops, Scan0Stops, vars
<1>9. QED
  BY <1>1, <1>2, <1>3, <1>4, <1>5, <1>6, <1>7, <1>8 DEF Next, Advance, Scan6, Scan0

LEMMA CountedStep == TypeOK /\ Counted /\ [Next]_vars => Counted'
<1> SUFFICES ASSUME TypeOK, Counted, [Next]_vars
             PROVE  Counted'
  OBVIOUS
<1>1. TypeOK'
  BY TypesStep
<1>2. ASSUME NEW e \in Event, status'[e] = "PROCESSING"
      PROVE  attempts'[e] \in 1..MaxAttempts
  <2>1. attempts[e] \in 0..MaxAttempts /\ attempts'[e] \in 0..MaxAttempts
    BY <1>1 DEF TypeOK
  <2>2. attempts'[e] = attempts[e] \/ attempts'[e] = attempts[e] + 1
    BY StatusStep
  <2>3. attempts[e] \in 1..MaxAttempts \/ attempts'[e] = attempts[e] + 1
    BY <1>2, StatusStep DEF Counted
  <2>4. QED
    BY <2>1, <2>2, <2>3, BoundAssumption
<1>3. QED
  BY <1>2 DEF Counted

\* The rows, the processors' batches and the scans' notes keep their types.
THEOREM OutboxTypeCorrect == Spec => []TypeOK
<1>1. TypeOK /\ Counted /\ [Next]_vars => (TypeOK /\ Counted)'
  BY TypesStep, CountedStep
<1>2. QED
  BY <1>1, TypesInitially, PTL DEF Spec

-----------------------------------------------------------------------------
(* The effect comes before PROCESSED *)

LEMMA DeliveryInitially == Init => DeliveryInv
BY NoClaimAssumption DEF Init, DeliveryInv, Held, AtRest

\* No step adds a note of an event that was not written, or loses an effect.
LEMMA HeldStep ==
  ASSUME TypeOK, DeliveryInv, [Next]_vars, NEW c \in Claim, Held(c)'
  PROVE  status'[c.event] # "NONE"
<1>0. c.event \in Event
  BY DEF Claim
<1>1. ASSUME Held(c)
      PROVE  status'[c.event] # "NONE"
  BY <1>0, <1>1, StatusStep DEF DeliveryInv
<1>2. ASSUME NEW p \in Processor, ClaimBatch(p)
      PROVE  Held(c) \/ status'[c.event] = "PROCESSING"
  <2>1. PICK claimed \in SUBSET Event :
          /\ status' = [e \in Event |-> IF e \in claimed THEN "PROCESSING" ELSE status[e]]
          /\ proc' = [proc EXCEPT ![p].todo =
               {[event |-> e, attempt |-> attempts[e] + 1] : e \in claimed}]
    BY <1>2 DEF ClaimBatch, Batch
  <2>2. ASSUME c \in proc'[p].todo
        PROVE  status'[c.event] = "PROCESSING"
    <3>1. \E e \in claimed : c = [event |-> e, attempt |-> attempts[e] + 1]
      BY <2>1, <2>2 DEF TypeOK, ProcessorState
    <3>2. c.event \in claimed
      BY <3>1
    <3>3. QED
      BY <1>0, <2>1, <3>2
  <2>3. /\ stale' = stale
        /\ \A q \in Processor : /\ proc'[q].claim = proc[q].claim
                                /\ q # p => proc'[q].todo = proc[q].todo
    BY <1>2, <2>1 DEF ClaimBatch, scanVars, TypeOK, ProcessorState
  <2>4. QED
    BY <2>2, <2>3 DEF Held
<1>3. ASSUME NEW p \in Processor, NEW d \in proc[p].todo, Handle(p, d) \/ HandlerThrows(p, d)
      PROVE  Held(c)
  BY <1>3 DEF Handle, HandlerThrows, Take, scanVars, Held, TypeOK, ProcessorState
<1>4. ASSUME NEW p \in Processor,
             MarkProcessed(p) \/ MarkThrows(p) \/ Catch(p) \/ Abandon(p)
      PROVE  Held(c)
  BY <1>4, NoClaimAssumption
     DEF MarkProcessed, MarkThrows, Catch, Abandon, NextEvent, AtRest, scanVars, Held,
         TypeOK, ProcessorState
<1>5. ASSUME NEW e \in Event, Scan6Read(e)
      PROVE  Held(c) \/ status'[c.event] = "PROCESSING"
  BY <1>5 DEF Scan6Read, Held
<1>6. CASE \/ \E d \in stale : Scan6Write(d)
           \/ Scan6Stops \/ Scan0
           \/ \E e \in Event : Emit(e) \/ LeaseRunsOut(e)
           \/ UNCHANGED vars
  <2>1. stale' \subseteq stale /\ proc' = proc
    BY <1>6 DEF Scan6Write, Scan6Stops, Scan0, Scan0Read, Scan0Enqueue, Scan0Mark, Scan0Stops,
                Emit, LeaseRunsOut, vars, scanVars
  <2>2. Held(c)
    BY <2>1 DEF Held
  <2>3. QED
    BY <2>2, <1>1
<1>7. QED
  BY <1>1, <1>2, <1>3, <1>4, <1>5, <1>6 DEF Next, Advance, Scan6

LEMMA EffectStep ==
  ASSUME TypeOK, DeliveryInv, [Next]_vars
  PROVE  /\ delivered \subseteq delivered'
         /\ queued' \subseteq delivered'
         /\ \A e \in pending' \cup queued' : status'[e] # "NONE"
         /\ \A p \in Processor : proc'[p].at = "mark" => proc'[p].claim.event \in delivered'
<1>1. delivered \subseteq delivered'
  <2>1. ASSUME NEW p \in Processor, Advance(p)
        PROVE  delivered \subseteq delivered'
    BY <2>1 DEF Advance, Handle, HandlerThrows, Effect, MarkProcessed, MarkThrows, Catch,
                effectVars
  <2>2. CASE Scan0 \/ Scan6
    BY <2>2 DEF Scan6, Scan6Read, Scan6Write, Scan6Stops,
                Scan0, Scan0Read, Scan0Enqueue, Scan0Mark, Scan0Stops, effectVars
  <2>3. QED
    BY <2>1, <2>2 DEF Next, Emit, LeaseRunsOut, ClaimBatch, Abandon, vars, effectVars
<1>2. CASE Scan0
  <2>1. ASSUME NEW e \in Dispatches, Scan0Read(e) \/ Scan0Enqueue(e) \/ Scan0Mark(e)
        PROVE  /\ queued' \subseteq delivered'
               /\ \A d \in pending' \cup queued' :
                    d \in pending \cup queued \/ (d = e /\ status'[d] # "NONE")
    BY <2>1 DEF Scan0Read, Scan0Enqueue, Scan0Mark, DeliveryInv, effectVars
  <2>2. Scan0Stops => pending' = {} /\ queued' = {}
    BY DEF Scan0Stops
  <2>3. \A e \in pending \cup queued : status'[e] # "NONE"
    BY EventAssumption, StatusStep DEF DeliveryInv, TypeOK
  <2>4. proc' = proc
    BY <1>2 DEF Scan0, Scan0Read, Scan0Enqueue, Scan0Mark, Scan0Stops
  <2>5. /\ queued' \subseteq delivered'
        /\ \A e \in pending' \cup queued' : status'[e] # "NONE"
    BY <1>2, <2>1, <2>2, <2>3 DEF Scan0
  <2>6. QED
    BY <1>1, <2>4, <2>5 DEF DeliveryInv
<1>3. CASE ~Scan0
  <2>1. UNCHANGED <<pending, queued>>
    BY <1>3 DEF Next, Emit, LeaseRunsOut, ClaimBatch, Advance, Handle, HandlerThrows,
         MarkProcessed, MarkThrows, Catch, Abandon, Scan6, Scan6Read, Scan6Write, Scan6Stops,
         vars, scanVars
  <2>2. \A e \in pending \cup queued : status'[e] # "NONE"
    BY EventAssumption, StatusStep DEF DeliveryInv, TypeOK
  <2>3. ASSUME NEW p \in Processor, NEW q \in Processor, proc'[p].at = "mark",
               ClaimBatch(q) \/ Advance(q) \/ Abandon(q)
        PROVE  proc'[p].claim.event \in delivered'
    <3>1. CASE ClaimBatch(q)
      <4>1. proc[p].at = "mark" /\ proc'[p].claim = proc[p].claim
        BY <2>3, <3>1 DEF ClaimBatch, TypeOK, ProcessorState
      <4>2. QED
        BY <4>1, <1>1 DEF DeliveryInv
    <3>2. ASSUME NEW c \in proc[q].todo, Handle(q, c) \/ HandlerThrows(q, c)
          PROVE  proc'[p].claim.event \in delivered'
      BY <2>3, <3>2, <1>1
         DEF Handle, HandlerThrows, Take, Effect, DeliveryInv, TypeOK, ProcessorState
    <3>3. CASE MarkProcessed(q) \/ MarkThrows(q) \/ Catch(q) \/ Abandon(q)
      <4>1. proc'[p] = proc[p]
        BY <2>3, <3>3 DEF MarkProcessed, MarkThrows, Catch, Abandon, NextEvent, AtRest,
                          TypeOK, ProcessorState
      <4>2. QED
        BY <2>3, <4>1, <1>1 DEF DeliveryInv
    <3>4. QED
      BY <2>3, <3>1, <3>2, <3>3 DEF Advance
  <2>4. CASE proc' = proc
    BY <1>1, <2>1, <2>2, <2>4 DEF DeliveryInv
  <2>5. QED
    BY <1>1, <1>3, <2>1, <2>2, <2>3, <2>4
       DEF Next, Emit, LeaseRunsOut, Scan6, Scan6Read, Scan6Write, Scan6Stops, vars, DeliveryInv
<1>4. QED
  BY <1>2, <1>3

LEMMA DeliveryStep == TypeOK /\ DeliveryInv /\ [Next]_vars => DeliveryInv'
BY HeldStep, EffectStep DEF DeliveryInv

-----------------------------------------------------------------------------
(* Leases *)

LeaseKept ==
  \A e \in Event :
    status[e] = "PROCESSING" /\ live[e] =>
      /\ attempts'[e] = attempts[e]
      /\ status'[e] \in {"PENDING", "FAILED"} =>
           \E p \in Processor :
             /\ proc[p].at = "caught"
             /\ proc[p].claim = [event |-> e, attempt |-> attempts[e]]

LEMMA LeaseStep == TypeOK /\ [Next]_vars => LeaseKept
<1> SUFFICES ASSUME TypeOK, [Next]_vars, NEW e \in Event, status[e] = "PROCESSING", live[e]
             PROVE  /\ attempts'[e] = attempts[e]
                    /\ status'[e] \in {"PENDING", "FAILED"} =>
                         \E p \in Processor :
                           /\ proc[p].at = "caught"
                           /\ proc[p].claim = [event |-> e, attempt |-> attempts[e]]
  BY DEF LeaseKept
<1>1. ASSUME NEW p \in Processor, ClaimBatch(p)
      PROVE  attempts'[e] = attempts[e] /\ status'[e] = status[e]
  BY <1>1 DEF ClaimBatch, Batch, Claimable, TypeOK
<1>2. ASSUME NEW p \in Processor, NEW c \in proc[p].todo, Handle(p, c) \/ HandlerThrows(p, c)
      PROVE  UNCHANGED <<status, attempts>>
  BY <1>2 DEF Handle, HandlerThrows
<1>3. ASSUME NEW p \in Processor, MarkProcessed(p) \/ MarkThrows(p)
      PROVE  attempts' = attempts /\ status'[e] \in {status[e], "PROCESSED"}
  BY <1>3 DEF MarkProcessed, MarkThrows, Fenced, Close, TypeOK
<1>4. ASSUME NEW p \in Processor, Catch(p), status'[e] # status[e]
      PROVE  /\ proc[p].at = "caught"
             /\ proc[p].claim = [event |-> e, attempt |-> attempts[e]]
  <2>1. proc[p].claim \in Claim /\ proc[p].at = "caught"
    BY <1>4 DEF Catch, TypeOK
  <2>2. proc[p].claim.event = e /\ Claimed(proc[p].claim)
    BY <1>4 DEF Catch, Fenced, Close, TypeOK
  <2>3. QED
    BY <2>1, <2>2 DEF Claimed, Claim
<1>5. ASSUME NEW c \in stale, Scan6Write(c)
      PROVE  attempts' = attempts /\ status'[e] = status[e]
  BY <1>5 DEF Scan6Write, Close, TypeOK
<1>6. ASSUME NEW d \in Event, Scan6Read(d) \/ LeaseRunsOut(d) \/ Emit(d)
      PROVE  attempts' = attempts /\ status'[e] = status[e]
  BY <1>6 DEF Scan6Read, LeaseRunsOut, Emit, TypeOK
<1>7. ASSUME NEW d \in Dispatches, Scan0Read(d) \/ Scan0Enqueue(d) \/ Scan0Mark(d)
      PROVE  attempts' = attempts /\ status'[e] \in {status[e], "PROCESSED"}
  BY <1>7 DEF Scan0Read, Scan0Enqueue, Scan0Mark, TypeOK
<1>8. CASE Scan6Stops \/ Scan0Stops \/ (\E p \in Processor : Abandon(p)) \/ UNCHANGED vars
  BY <1>8 DEF Scan6Stops, Scan0Stops, Abandon, vars
<1>9. ASSUME NEW p \in Processor, Catch(p)
      PROVE  attempts' = attempts
  BY <1>9 DEF Catch
<1>10. QED
  BY <1>1, <1>2, <1>3, <1>4, <1>5, <1>6, <1>7, <1>8, <1>9 DEF Next, Advance, Scan6, Scan0

\* While a claim's lease lasts nobody claims its event again, and only its own catch
\* block reopens the event or gives it up.
THEOREM LeasesAreRespected == Spec => LeaseRespected
<1>1. TypeOK /\ [Next]_vars => [LeaseKept]_vars
  BY LeaseStep
<1>2. Spec => [][LeaseKept]_vars
  BY <1>1, OutboxTypeCorrect, PTL DEF Spec
<1>3. QED
  BY <1>2 DEF LeaseRespected, LeaseKept

-----------------------------------------------------------------------------
(* The outbox implements EventDelivery *)

Phases == [e \in Event |-> Phase(e)]

\* A write to one row moves the phase of that event only.
LEMMA PhaseStep ==
  ASSUME TypeOK, NEW e \in Event, NEW s, status' = [status EXCEPT ![e] = s]
  PROVE  /\ s = "PROCESSED" => Phases' = [Phases EXCEPT ![e] = "done"]
         /\ s = "FAILED" => Phases' = [Phases EXCEPT ![e] = "dead"]
         /\ s = "PENDING" => Phases' = [Phases EXCEPT ![e] = "open"]
BY DEF Phases, Phase, TypeOK

\* Closing a claimed row as PROCESSED after its effect, or after a failure, is Finish,
\* GiveUp or no step of EventDelivery.
LEMMA CloseStep ==
  ASSUME TypeOK, NEW c \in Claim, Claimed(c), NEW s,
         status' = [status EXCEPT ![c.event] = s],
         UNCHANGED <<attempts, delivered>>,
         \/ s = "PROCESSED" /\ c.event \in delivered
         \/ s = AfterFailure(c)
  PROVE  [Delivery!Next]_(Delivery!vars)
<1>1. c.event \in Event /\ Phases[c.event] = "open"
  BY DEF Claim, Claimed, Phases, Phase
<1>2. CASE s = "PROCESSED" /\ c.event \in delivered
  <2>1. Delivery!Finish(c.event)
    BY <1>1, <1>2, PhaseStep DEF Delivery!Finish, Delivery!Move, Phases
  <2>2. QED
    BY <1>1, <2>1 DEF Delivery!Next
<1>3. CASE s = "FAILED" /\ c.attempt >= MaxAttempts
  <2>1. attempts[c.event] = MaxAttempts
    BY <1>1, <1>3, BoundAssumption DEF Claimed, Claim, TypeOK
  <2>2. Delivery!GiveUp(c.event)
    BY <1>1, <1>3, <2>1, PhaseStep DEF Delivery!GiveUp, Delivery!Move, Phases
  <2>3. QED
    BY <1>1, <2>2 DEF Delivery!Next
<1>4. CASE s = "PENDING"
  <2>1. Phases' = Phases
    BY <1>1, <1>4, PhaseStep DEF Phases
  <2>2. QED
    BY <2>1 DEF Delivery!vars, Phases
<1>5. QED
  BY <1>2, <1>3, <1>4 DEF AfterFailure

\* The rows do not change; at most one written event is delivered.
LEMMA EffectOrNot ==
  ASSUME TypeOK, NEW e \in Event, status[e] # "NONE",
         UNCHANGED <<status, attempts>>, delivered' \in {delivered, delivered \cup {e}}
  PROVE  [Delivery!Next]_(Delivery!vars)
<1>1. Phases' = Phases /\ Phases[e] # "none"
  BY DEF Phases, Phase, TypeOK
<1>2. CASE delivered' = delivered
  BY <1>1, <1>2 DEF Delivery!vars, Phases
<1>3. CASE delivered' = delivered \cup {e}
  <2>1. Delivery!Deliver(e)
    BY <1>1, <1>3 DEF Delivery!Deliver, Phases
  <2>2. QED
    BY <2>1 DEF Delivery!Next
<1>4. QED
  BY <1>2, <1>3

LEMMA ClaimIsTry ==
  ASSUME TypeOK, NEW p \in Processor, ClaimBatch(p)
  PROVE  [Delivery!Next]_(Delivery!vars)
<1>1. PICK claimed \in SUBSET Event :
        /\ \A e \in claimed : Claimable(e)
        /\ status' = [e \in Event |-> IF e \in claimed THEN "PROCESSING" ELSE status[e]]
        /\ attempts' = [e \in Event |->
                          IF e \in claimed THEN attempts[e] + 1 ELSE attempts[e]]
  BY DEF ClaimBatch, Batch
<1>2. Phases' = Phases /\ \A e \in claimed : Phases[e] = "open" /\ attempts[e] < MaxAttempts
  BY <1>1 DEF Phases, Phase, Claimable, TypeOK
<1>3. Delivery!Try(claimed)
  BY <1>1, <1>2 DEF Delivery!Try, Phases, ClaimBatch, effectVars
<1>4. QED
  BY <1>3 DEF Delivery!Next

LEMMA ProcessorRefines ==
  ASSUME TypeOK, DeliveryInv, NEW p \in Processor, Advance(p)
  PROVE  [Delivery!Next]_(Delivery!vars)
<1>1. ASSUME NEW c \in proc[p].todo, Handle(p, c) \/ HandlerThrows(p, c)
      PROVE  [Delivery!Next]_(Delivery!vars)
  <2>1. c \in Claim /\ c.event \in Event
    BY DEF TypeOK, ProcessorState, Claim
  <2>2. status[c.event] # "NONE"
    BY <2>1 DEF DeliveryInv, Held
  <2>3. UNCHANGED <<status, attempts>> /\ delivered' \in {delivered, delivered \cup {c.event}}
    BY <1>1 DEF Handle, HandlerThrows, Effect
  <2>4. QED
    BY <2>1, <2>2, <2>3, EffectOrNot
<1>2. CASE MarkProcessed(p) \/ MarkThrows(p) \/ Catch(p)
  <2>1. proc[p].claim \in Claim
    BY <1>2 DEF MarkProcessed, MarkThrows, Catch, TypeOK
  <2>2. UNCHANGED <<attempts, delivered>>
    BY <1>2 DEF MarkProcessed, MarkThrows, Catch, effectVars
  <2>3. CASE status' = status
    BY <2>2, <2>3 DEF Delivery!vars, Phase
  <2>4. CASE status' # status
    <3>1. PICK s \in {"PROCESSED", AfterFailure(proc[p].claim)} :
            /\ Claimed(proc[p].claim)
            /\ status' = [status EXCEPT ![proc[p].claim.event] = s]
            /\ s = "PROCESSED" => proc[p].at = "mark"
      <4>1. AfterFailure(proc[p].claim) # "PROCESSED"
        BY DEF AfterFailure
      <4>2. QED
        BY <1>2, <2>4, <4>1 DEF MarkProcessed, MarkThrows, Catch, Fenced, Close
    <3>2. QED
      BY <2>1, <2>2, <3>1, CloseStep DEF DeliveryInv
  <2>5. QED
    BY <2>3, <2>4
<1>3. QED
  BY <1>1, <1>2 DEF Advance

LEMMA ScansRefine ==
  ASSUME TypeOK, DeliveryInv, Scan6 \/ Scan0
  PROVE  [Delivery!Next]_(Delivery!vars)
<1>1. ASSUME NEW c \in stale, Scan6Write(c)
      PROVE  [Delivery!Next]_(Delivery!vars)
  <2>1. c \in Claim /\ UNCHANGED <<attempts, delivered>>
    BY <1>1 DEF Scan6Write, TypeOK, effectVars
  <2>2. CASE Claimed(c) /\ ~live[c.event]
    BY <1>1, <2>1, <2>2, CloseStep DEF Scan6Write, Close
  <2>3. CASE ~(Claimed(c) /\ ~live[c.event])
    BY <1>1, <2>1, <2>3 DEF Scan6Write, Delivery!vars, Phase
  <2>4. QED
    BY <2>2, <2>3
<1>2. ASSUME NEW e \in Dispatches, Scan0Enqueue(e)
      PROVE  [Delivery!Next]_(Delivery!vars)
  <2>1. e \in Event /\ status[e] # "NONE"
    BY <1>2, EventAssumption DEF Scan0Enqueue, DeliveryInv
  <2>2. QED
    BY <1>2, <2>1, EffectOrNot DEF Scan0Enqueue
<1>3. ASSUME NEW e \in Dispatches, Scan0Mark(e)
      PROVE  [Delivery!Next]_(Delivery!vars)
  <2>1. e \in Event /\ e \in delivered /\ status[e] # "NONE"
    BY <1>3, EventAssumption DEF Scan0Mark, DeliveryInv
  <2>2. /\ Phases' = [Phases EXCEPT ![e] = "done"]
        /\ Phases[e] \in {"open", "dead", "done"}
        /\ UNCHANGED <<attempts, delivered>>
    BY <1>3, <2>1, PhaseStep DEF Scan0Mark, Phases, Phase, TypeOK, effectVars
  <2>3. CASE Phases[e] = "done"
    <3>1. Phases' = Phases
      BY <2>1, <2>2, <2>3 DEF Phases
    <3>2. QED
      BY <2>2, <3>1 DEF Delivery!vars, Phases
  <2>4. CASE Phases[e] \in {"open", "dead"}
    <3>1. Delivery!Finish(e)
      BY <2>1, <2>2, <2>4 DEF Delivery!Finish, Delivery!Move, Phases
    <3>2. QED
      BY <2>1, <3>1 DEF Delivery!Next
  <2>5. QED
    BY <2>2, <2>3, <2>4
<1>4. CASE \/ \E e \in Event : Scan6Read(e)
           \/ \E e \in Dispatches : Scan0Read(e)
           \/ Scan6Stops \/ Scan0Stops
  BY <1>4 DEF Scan6Read, Scan0Read, Scan6Stops, Scan0Stops, effectVars, Delivery!vars, Phase
<1>5. QED
  BY <1>1, <1>2, <1>3, <1>4 DEF Scan6, Scan0

LEMMA OutboxRefinesInit == Init => Delivery!Init
BY DEF Init, Delivery!Init, Phase

LEMMA OutboxRefinesStep ==
  TypeOK /\ DeliveryInv /\ [Next]_vars => [Delivery!Next]_(Delivery!vars)
<1> SUFFICES ASSUME TypeOK, DeliveryInv, [Next]_vars
             PROVE  [Delivery!Next]_(Delivery!vars)
  OBVIOUS
<1>1. ASSUME NEW e \in Event, Emit(e)
      PROVE  [Delivery!Next]_(Delivery!vars)
  <2>1. /\ Phases[e] = "none" /\ Phases' = [Phases EXCEPT ![e] = "open"]
        /\ UNCHANGED <<attempts, delivered>>
    BY <1>1, PhaseStep DEF Emit, Phases, Phase, effectVars
  <2>2. Delivery!Write(e)
    BY <2>1 DEF Delivery!Write, Delivery!Move, Phases
  <2>3. QED
    BY <2>2 DEF Delivery!Next
<1>2. CASE \/ \E e \in Event : LeaseRunsOut(e)
           \/ \E p \in Processor : Abandon(p)
           \/ UNCHANGED vars
  BY <1>2 DEF LeaseRunsOut, Abandon, vars, effectVars, Delivery!vars, Phase
<1>3. QED
  BY <1>1, <1>2, ClaimIsTry, ProcessorRefines, ScansRefine DEF Next

\* An event is PROCESSED only after its effect and stays so, and is given up only after
\* MAX_ATTEMPTS claims, whatever crashes, throws and overruns its lease on the way.
THEOREM OutboxImplementsDelivery == Spec => RefinesEventDelivery
<1>1. Spec => [](TypeOK /\ DeliveryInv)
  <2>1. DeliveryInv /\ TypeOK /\ [Next]_vars => DeliveryInv'
    BY DeliveryStep
  <2>2. QED
    BY <2>1, DeliveryInitially, OutboxTypeCorrect, PTL DEF Spec
<1>2. QED
  BY <1>1, OutboxRefinesInit, OutboxRefinesStep, PTL
     DEF Spec, RefinesEventDelivery, Delivery!Spec

=============================================================================
