---------------------------- MODULE EventOutbox ----------------------------
(***************************************************************************)
(* The event outbox: rows of event_outbox, the EventOutboxProcessor of     *)
(* each worker process, Scan 6 of PublishingReconciliationService, which   *)
(* takes back expired leases, and Scan 0 of EngagementReconciliation-      *)
(* Service, which dispatches pending reply events by itself.               *)
(*                                                                         *)
(* Every claim draws a fresh lease_token and increments attempt_count, so  *)
(* the attempt count at the claim stands for the token.  `live' says that  *)
(* lease_until is later than NOW().                                        *)
(***************************************************************************)
EXTENDS Naturals, FiniteSets

CONSTANTS
  Event,       \* rows of event_outbox, numbered by created_at
  Dispatches,  \* those that dispatch a reply execution; the others announce a post
  Processor,   \* worker processes, each with one processing loop
  BatchSize,   \* BATCH_SIZE (10 in the code)
  MaxAttempts, \* MAX_ATTEMPTS (5 in the code)
  NoClaim

ASSUME EventAssumption == Event \subseteq Nat /\ Dispatches \subseteq Event
ASSUME BoundAssumption == BatchSize \in Nat \ {0} /\ MaxAttempts \in Nat \ {0}

Claim == [event : Event, attempt : 1..MaxAttempts]

ASSUME NoClaimAssumption == NoClaim \notin Claim

VARIABLES
  status,    \* event_outbox.status; NONE before the event is written
  attempts,  \* event_outbox.attempt_count
  live,      \* event_outbox.lease_until > NOW()
  proc,      \* the running processBatch() of each process
  stale,     \* expired claims that Scan 6 has read and not yet written back
  pending,   \* pending dispatches that Scan 0 has read
  queued,    \* those among them that it has enqueued and not yet marked
  delivered, \* events whose notification exists or whose reply job was added
  triggered  \* events whose automation-rule job was added

scanVars   == <<stale, pending, queued>>
effectVars == <<delivered, triggered>>
vars == <<status, attempts, live, proc, scanVars, effectVars>>

\* todo: claimed events the loop has not reached; claim: the one in hand.
ProcessorState == [at : {"loop", "mark", "caught"},
                   claim : Claim \cup {NoClaim}, todo : SUBSET Claim]

AtRest == [at |-> "loop", claim |-> NoClaim, todo |-> {}]

TypeOK ==
  /\ status \in [Event -> {"NONE", "PENDING", "PROCESSING", "PROCESSED", "FAILED"}]
  /\ attempts \in [Event -> 0..MaxAttempts]
  /\ live \in [Event -> BOOLEAN]
  /\ proc \in [Processor -> ProcessorState]
  /\ \A p \in Processor : proc[p].at # "loop" => proc[p].claim \in Claim
  /\ stale \subseteq Claim
  /\ pending \subseteq Dispatches /\ queued \subseteq Dispatches
  /\ delivered \subseteq Event /\ triggered \subseteq Event \ Dispatches

Init ==
  /\ status = [e \in Event |-> "NONE"]
  /\ attempts = [e \in Event |-> 0]
  /\ live = [e \in Event |-> FALSE]
  /\ proc = [p \in Processor |-> AtRest]
  /\ stale = {} /\ pending = {} /\ queued = {}
  /\ delivered = {} /\ triggered = {}

-----------------------------------------------------------------------------
(* The event and its lease *)

\* The transaction that publishes a post or approves a reply writes the event.
Emit(e) ==
  /\ status[e] = "NONE"
  /\ status' = [status EXCEPT ![e] = "PENDING"]
  /\ UNCHANGED <<attempts, live, proc, scanVars, effectVars>>

LeaseRunsOut(e) ==
  /\ status[e] = "PROCESSING" /\ live[e]
  /\ live' = [live EXCEPT ![e] = FALSE]
  /\ UNCHANGED <<status, attempts, proc, scanVars, effectVars>>

\* The row is still under the claim c, its lease over or not.
Claimed(c) == status[c.event] = "PROCESSING" /\ attempts[c.event] = c.attempt

\* The row of the claim c gets a new status; its lease is cleared.
Close(c, s) ==
  /\ status' = [status EXCEPT ![c.event] = s]
  /\ live' = [live EXCEPT ![c.event] = FALSE]

\* Processing failed: the event is retried, or after MAX_ATTEMPTS given up.
AfterFailure(c) == IF c.attempt >= MaxAttempts THEN "FAILED" ELSE "PENDING"

-----------------------------------------------------------------------------
(* processBatch *)

\* Mutant: the claim does not look at attempt_count.
ClaimsForEver(e) == status[e] = "PENDING" \/ (status[e] = "PROCESSING" /\ ~live[e])

Claimable(e) ==
  /\ attempts[e] < MaxAttempts
  /\ status[e] = "PENDING" \/ (status[e] = "PROCESSING" /\ ~live[e])

\* The oldest BATCH_SIZE members of S.
Batch(S) == {e \in S : Cardinality({f \in S : f < e}) < BatchSize}

\* Rows a scan is about to write, and may hold locked when a claim skips them.
MaybeLocked == {c.event : c \in stale} \cup queued

ClaimBatch(p) ==
  /\ proc[p] = AtRest
  /\ \E skipped \in SUBSET MaybeLocked :
       LET claimed == Batch({e \in Event \ skipped : Claimable(e)})
       IN  /\ claimed # {}
           /\ status' = [e \in Event |-> IF e \in claimed THEN "PROCESSING" ELSE status[e]]
           /\ attempts' = [e \in Event |->
                             IF e \in claimed THEN attempts[e] + 1 ELSE attempts[e]]
           /\ live' = [e \in Event |-> e \in claimed \/ live[e]]
           /\ proc' = [proc EXCEPT ![p].todo =
                {[event |-> e, attempt |-> attempts[e] + 1] : e \in claimed}]
  /\ UNCHANGED <<scanVars, effectVars>>

\* The loop takes up one of the claimed events.
Take(p, c, at) ==
  /\ proc[p].at = "loop" /\ c \in proc[p].todo
  /\ proc' = [proc EXCEPT ![p] = [at |-> at, claim |-> c, todo |-> @.todo \ {c}]]

\* The notification is upserted or the reply job added, whoever did it before.  An
\* automation rule is triggered too, but its failure is swallowed.
Effect(e) ==
  /\ delivered' = delivered \cup {e}
  /\ \/ UNCHANGED triggered
     \/ e \notin Dispatches /\ triggered' = triggered \cup {e}

Handle(p, c) ==
  /\ Take(p, c, "mark") /\ Effect(c.event)
  /\ UNCHANGED <<status, attempts, live, scanVars>>

\* Mutant: the handler swallows the error.
SwallowsError(p, c) ==
  /\ Take(p, c, "mark") /\ delivered' \in {delivered, delivered \cup {c.event}}
  /\ UNCHANGED <<status, attempts, live, scanVars, triggered>>

\* The upsert or the add throws, carried out all the same or not.
HandlerThrows(p, c) ==
  /\ Take(p, c, "caught")
  /\ delivered' \in {delivered, delivered \cup {c.event}}
  /\ UNCHANGED <<status, attempts, live, scanVars, triggered>>

\* A write of the processor: WHERE lease_token = mine AND lease_until > NOW().
Fenced(c, s) ==
  IF Claimed(c) /\ live[c.event] THEN Close(c, s) ELSE UNCHANGED <<status, live>>

NextEvent(p) == proc' = [proc EXCEPT ![p].at = "loop", ![p].claim = NoClaim]

\* PROCESSED, unless the claim was lost meanwhile; then only a warning.
MarkProcessed(p) ==
  /\ proc[p].at = "mark"
  /\ Fenced(proc[p].claim, "PROCESSED")
  /\ NextEvent(p)
  /\ UNCHANGED <<attempts, scanVars, effectVars>>

\* The write throws, carried out or not, and the loop's catch block takes over.
MarkThrows(p) ==
  /\ proc[p].at = "mark"
  /\ \/ UNCHANGED <<status, live>>
     \/ Fenced(proc[p].claim, "PROCESSED")
  /\ proc' = [proc EXCEPT ![p].at = "caught"]
  /\ UNCHANGED <<attempts, scanVars, effectVars>>

\* The catch block; when its own write throws, the rest of the batch is dropped.
Catch(p) ==
  /\ proc[p].at = "caught"
  /\ LET c == proc[p].claim IN Fenced(c, AfterFailure(c))
  /\ NextEvent(p) \/ proc' = [proc EXCEPT ![p] = AtRest]
  /\ UNCHANGED <<attempts, scanVars, effectVars>>

\* The process dies, or the catch block's write throws and is not carried out.
Abandon(p) ==
  /\ proc[p] # AtRest
  /\ proc' = [proc EXCEPT ![p] = AtRest]
  /\ UNCHANGED <<status, attempts, live, scanVars, effectVars>>

-----------------------------------------------------------------------------
(* Scan 6 of the publishing reconciler *)

\* Mutant: Scan 6 selects with the claim's attempt_count < 5.
ReadsRetryable(e) ==
  /\ status[e] = "PROCESSING" /\ ~live[e] /\ attempts[e] < MaxAttempts
  /\ LET c == [event |-> e, attempt |-> attempts[e]]
     IN  c \notin stale /\ stale' = stale \cup {c}
  /\ UNCHANGED <<status, attempts, live, proc, pending, queued, effectVars>>

Scan6Read(e) ==
  /\ status[e] = "PROCESSING" /\ ~live[e]
  /\ LET c == [event |-> e, attempt |-> attempts[e]]
     IN  c \notin stale /\ stale' = stale \cup {c}
  /\ UNCHANGED <<status, attempts, live, proc, pending, queued, effectVars>>

\* Mutant: WHERE id = ... AND status = 'PROCESSING' alone.
WritesById(c) ==
  /\ c \in stale /\ stale' = stale \ {c}
  /\ IF status[c.event] = "PROCESSING" THEN Close(c, AfterFailure(c))
     ELSE UNCHANGED <<status, live>>
  /\ UNCHANGED <<attempts, proc, pending, queued, effectVars>>

Scan6Write(c) ==
  /\ c \in stale /\ stale' = stale \ {c}
  /\ IF Claimed(c) /\ ~live[c.event] THEN Close(c, AfterFailure(c))
     ELSE UNCHANGED <<status, live>>
  /\ UNCHANGED <<attempts, proc, pending, queued, effectVars>>

\* A database error, a crash or a lost leader lease ends the scan.
Scan6Stops ==
  /\ stale # {} /\ stale' = {}
  /\ UNCHANGED <<status, attempts, live, proc, pending, queued, effectVars>>

-----------------------------------------------------------------------------
(* Scan 0 of the engagement reconciler *)

\* Only events older than 15 s; an event may have any age.
Scan0Read(e) ==
  /\ e \in Dispatches \ (pending \cup queued) /\ status[e] = "PENDING"
  /\ pending' = pending \cup {e}
  /\ UNCHANGED <<status, attempts, live, proc, stale, queued, effectVars>>

\* The job is added under its id unless it exists.
Scan0Enqueue(e) ==
  /\ e \in pending /\ pending' = pending \ {e} /\ queued' = queued \cup {e}
  /\ delivered' = delivered \cup {e}
  /\ UNCHANGED <<status, attempts, live, proc, stale, triggered>>

\* PROCESSED by id alone, whatever the row has become; token and lease are kept.
Scan0Mark(e) ==
  /\ e \in queued /\ queued' = queued \ {e}
  /\ status' = [status EXCEPT ![e] = "PROCESSED"]
  /\ UNCHANGED <<attempts, live, proc, stale, pending, effectVars>>

Scan0Stops ==
  /\ pending \cup queued # {} /\ pending' = {} /\ queued' = {}
  /\ UNCHANGED <<status, attempts, live, proc, stale, effectVars>>

-----------------------------------------------------------------------------
(* The specification *)

Advance(p) ==
  \/ \E c \in proc[p].todo : Handle(p, c) \/ HandlerThrows(p, c)
  \/ MarkProcessed(p) \/ MarkThrows(p) \/ Catch(p)

Scan6 == (\E e \in Event : Scan6Read(e)) \/ (\E c \in stale : Scan6Write(c)) \/ Scan6Stops

Scan0 == Scan0Stops \/ \E e \in Dispatches : Scan0Read(e) \/ Scan0Enqueue(e) \/ Scan0Mark(e)

Next ==
  \/ \E e \in Event : Emit(e) \/ LeaseRunsOut(e)
  \/ \E p \in Processor : ClaimBatch(p) \/ Advance(p) \/ Abandon(p)
  \/ Scan6 \/ Scan0

Spec == Init /\ [][Next]_vars

\* Processors poll every five seconds and every call ends, leases last 60 s, and a scan
\* that is started every minute is not for ever cut off between a read and its write.
Fairness ==
  /\ \A p \in Processor : WF_vars(ClaimBatch(p)) /\ WF_vars(Advance(p))
  /\ \A e \in Event : WF_vars(LeaseRunsOut(e)) /\ WF_vars(Scan6Read(e))
  /\ \A c \in Claim : SF_vars(Scan6Write(c))

FairSpec == Spec /\ Fairness

-----------------------------------------------------------------------------
(* Properties *)

\* As long as the lease of a claim lasts, nobody else claims the event again, and only
\* the claim's own catch block reopens it or gives it up: a scan or a processor acting
\* on an earlier claim of the event never does.
LeaseRespected ==
  [][\A e \in Event :
       status[e] = "PROCESSING" /\ live[e] =>
         /\ attempts'[e] = attempts[e]
         /\ status'[e] \in {"PENDING", "FAILED"} =>
              \E p \in Processor :
                /\ proc[p].at = "caught"
                /\ proc[p].claim = [event |-> e, attempt |-> attempts[e]]]_vars

Phase(e) ==
  CASE status[e] = "NONE" -> "none"
    [] status[e] = "PROCESSED" -> "done"
    [] status[e] = "FAILED" -> "dead"
    [] OTHER -> "open"

Delivery == INSTANCE EventDelivery WITH
  phase <- [e \in Event |-> Phase(e)], tries <- attempts

\* The outbox implements EventDelivery: PROCESSED only after the notification or the
\* reply job exists, never undone, and FAILED only after MAX_ATTEMPTS claims.
RefinesEventDelivery == Delivery!Spec

\* Every event is processed or given up, whatever crashes and throws on the way.
Closes ==
  \A e \in Event :
    status[e] \in {"PENDING", "PROCESSING"} ~> status[e] \in {"PROCESSED", "FAILED"}

=============================================================================
