------------------------------ MODULE Operator ------------------------------
(***************************************************************************)
(* The autonomous operator of one social account: planning cycles          *)
(* (AutonomousOperatorService.runPlanningCycle) started by                 *)
(* GovernanceReconciliationService, and the kill switch of                 *)
(* GovernanceService.                                                      *)
(*                                                                         *)
(* A cycle is one job of the autonomous-operator queue; it stands for its  *)
(* lease token, its run row and its candidate row.  Every definition of    *)
(* this module bears a name that Rules does not use: MCGovernance extends  *)
(* both.                                                                   *)
(***************************************************************************)
EXTENDS Integers, FiniteSets

CONSTANTS
  Cycle,        \* bound: the jobs of the queue
  Human,        \* bound: scheduling requests of people
  Draft,        \* drafts of the workspace; a greater number is a newer draft
  Slot,         \* the target hours of the planning horizon
  Later,        \* the fallback, a moment nobody else picks
  Week,         \* ISO weeks
  WeekOf,       \* the week of a slot
  MaxWeekly,    \* autonomous_operator_configs.max_weekly_posts
  MaxSwitches,  \* bound: settings of the autonomy level
  MaxErrors,    \* bound: crashes and database errors
  NoCycle

ASSUME OperatorAssumption ==
  /\ Draft \subseteq Nat \ {0} /\ MaxWeekly \in Nat /\ MaxSwitches \in Nat /\ MaxErrors \in Nat
  /\ IsFiniteSet(Cycle) /\ NoCycle \notin Cycle /\ Cycle \cap Human = {}
  /\ Later \notin Slot /\ WeekOf \in [Slot \cup {Later} -> Week]

VARIABLES
  level,       \* autonomy_level; NONE: no config row
  pausing,     \* a pause request has cleared the lease and not yet set PAUSED
  lease,       \* lease_token of the account's lease row
  leaseLive,   \* lease_until > NOW()
  recent,      \* a run was started within the last 15 minutes
  queued,      \* cycles whose job waits
  cycle,       \* the cycles' progress
  run,         \* autonomous_operator_runs.status
  candidate,   \* autonomous_operator_candidates.status
  post,        \* scheduled_posts, by the cycle or request that made them
  quota,       \* claimed_posts of the week's quota row; -1: no row
  generating,  \* a CONTENT job younger than 30 minutes is pending or running
  switches, errors

switchVars == <<level, pausing, switches>>
leaseVars == <<lease, leaseLive>>
operatorVars == <<switchVars, leaseVars, recent, queued, cycle, run, candidate, post, quota,
                  generating, errors>>

-----------------------------------------------------------------------------
(* Types *)

Level == {"MANUAL", "SEMI_AUTONOMOUS", "FULL_AUTONOMOUS", "PAUSED"}
Poster == Cycle \cup Human

\* QUEUED: SCHEDULED, CLAIMED or PUBLISHING; BUSY: the other statuses of the index
\* idx_scheduled_posts_active_draft; ENDED: the statuses outside it, but PUBLISHED.
PostStatus == {"NONE", "QUEUED", "BUSY", "PUBLISHED", "ENDED"}
Post == [status : PostStatus, draft : Draft \cup {0}, slot : Slot \cup {Later}]
NoPost == [status |-> "NONE", draft |-> 0, slot |-> Later]

Step == {"idle", "claimed", "started", "read", "selected", "cleared", "fenced", "scheduled",
         "release", "done"}
\* saw: the autonomy level the cycle read; draft, slot: what it picked.
Progress == [at : Step, saw : Level \cup {"NONE"}, draft : Draft \cup {0},
             slot : Slot \cup {Later}]
AtRest == [at |-> "idle", saw |-> "NONE", draft |-> 0, slot |-> Later]

OperatorTypeOK ==
  /\ level \in Level \cup {"NONE"} /\ pausing \in BOOLEAN
  /\ lease \in Cycle \cup {NoCycle} /\ leaseLive \in BOOLEAN
  /\ recent \in BOOLEAN /\ queued \subseteq Cycle
  /\ cycle \in [Cycle -> Progress]
  /\ run \in [Cycle -> {"NONE", "RUNNING", "COMPLETED", "HALTED_KILL_SWITCH", "FAILED"}]
  /\ candidate \in [Cycle -> {"NONE", "SELECTED", "SAFETY_BLOCKED", "SCHEDULED"}]
  /\ post \in [Poster -> Post]
  /\ quota \in [Week -> -1..MaxWeekly]
  /\ generating \in BOOLEAN
  /\ switches \in 0..MaxSwitches /\ errors \in 0..MaxErrors

OperatorInit ==
  /\ level \in Level \cup {"NONE"} /\ pausing = FALSE
  /\ lease = NoCycle /\ leaseLive = FALSE /\ recent = FALSE
  /\ queued = {} /\ cycle = [c \in Cycle |-> AtRest]
  /\ run = [c \in Cycle |-> "NONE"] /\ candidate = [c \in Cycle |-> "NONE"]
  /\ post = [p \in Poster |-> NoPost] /\ quota = [w \in Week |-> -1]
  /\ generating = FALSE /\ switches = 0 /\ errors = 0

LeaseHeld == lease # NoCycle /\ leaseLive

Go(c, step) == cycle' = [cycle EXCEPT ![c].at = step]

\* The run row's last write; the lease is released by the next statement.
EndRun(c, status) == run' = [run EXCEPT ![c] = status] /\ Go(c, "release")

-----------------------------------------------------------------------------
(* Starting a cycle *)

\* reconcileAutonomousOperator.  Only jobs of the same 15 minutes share their id, so
\* several may wait.
EnqueueCycle(c) ==
  /\ cycle[c].at = "idle" /\ c \notin queued
  /\ level \notin {"MANUAL", "NONE"} /\ ~LeaseHeld /\ ~recent
  /\ queued' = queued \cup {c}
  /\ UNCHANGED <<switchVars, leaseVars, recent, cycle, run, candidate, post, quota,
                 generating, errors>>

ClaimAccountLease(c) ==
  /\ c \in queued
  /\ queued' = queued \ {c}
  /\ \/ ~LeaseHeld /\ lease' = c /\ leaseLive' = TRUE /\ Go(c, "claimed")
     \/ LeaseHeld /\ Go(c, "done") /\ UNCHANGED leaseVars
  /\ UNCHANGED <<switchVars, recent, run, candidate, post, quota, generating, errors>>

CreateRun(c) ==
  /\ cycle[c].at = "claimed"
  /\ run' = [run EXCEPT ![c] = "RUNNING"] /\ recent' = TRUE /\ Go(c, "started")
  /\ UNCHANGED <<switchVars, leaseVars, queued, candidate, post, quota, generating, errors>>

\* Step 1: the config is read, or created with its default level.
VerifyKillSwitch(c) ==
  /\ cycle[c].at = "started"
  /\ level' = IF level = "NONE" THEN "SEMI_AUTONOMOUS" ELSE level
  /\ IF level' = "PAUSED"
     THEN EndRun(c, "HALTED_KILL_SWITCH")
     ELSE /\ cycle' = [cycle EXCEPT ![c].at = "read", ![c].saw = level']
          /\ UNCHANGED run
  /\ UNCHANGED <<pausing, switches, leaseVars, recent, queued, candidate, post, quota,
                 generating, errors>>

-----------------------------------------------------------------------------
(* Planning *)

Of(d) == {post[p].status : p \in {q \in Poster : post[q].draft = d}}

\* candidateDraft's filter: it leaves out the BUSY statuses.
Open(d) == Of(d) \cap {"QUEUED", "PUBLISHED"} = {}

Taken(s) == \E p \in Poster : post[p].status # "NONE" /\ post[p].slot = s

\* Steps 2 and 3: a slot without a row (the spacing rule may refuse any), the newest
\* open draft, and the candidate row.
SelectDraft(c, s) ==
  /\ cycle[c].at = "read" /\ (s = Later \/ ~Taken(s))
  /\ \E d \in Draft :
       /\ Open(d) /\ \A e \in Draft : Open(e) => e <= d
       /\ cycle' = [cycle EXCEPT ![c].at = "selected", ![c].draft = d, ![c].slot = s]
  /\ candidate' = [candidate EXCEPT ![c] = "SELECTED"]
  /\ UNCHANGED <<switchVars, leaseVars, recent, queued, run, post, quota, generating, errors>>

\* No draft: a fully autonomous operator has one written, unless that is under way.
NoDraft(c) ==
  /\ cycle[c].at = "read" /\ \A d \in Draft : ~Open(d)
  /\ generating' = (generating \/ cycle[c].saw = "FULL_AUTONOMOUS")
  /\ EndRun(c, "COMPLETED")
  /\ UNCHANGED <<switchVars, leaseVars, recent, queued, candidate, post, quota, errors>>

\* Step 4: the safety gate's verdict; in MANUAL mode the candidate is left to people.
AuditPasses(c) ==
  /\ cycle[c].at = "selected"
  /\ IF cycle[c].saw = "MANUAL" THEN EndRun(c, "COMPLETED")
     ELSE Go(c, "cleared") /\ UNCHANGED run
  /\ UNCHANGED <<switchVars, leaseVars, recent, queued, candidate, post, quota, generating,
                 errors>>

AuditBlocks(c) ==
  /\ cycle[c].at = "selected"
  /\ candidate' = [candidate EXCEPT ![c] = "SAFETY_BLOCKED"]
  /\ EndRun(c, "COMPLETED")
  /\ UNCHANGED <<switchVars, leaseVars, recent, queued, post, quota, generating, errors>>

-----------------------------------------------------------------------------
(* Step 5, the scheduling transaction *)

WeekFor(c) == WeekOf[cycle[c].slot]
Claimed(w) == IF quota[w] = -1 THEN 0 ELSE quota[w]

\* Another transaction holds the week's quota row.
QuotaLocked(w) == \E c \in Cycle : cycle[c].at = "fenced" /\ WeekFor(c) = w

\* Mutant: the lease is only looked at when it is claimed.
ReserveUnfenced(c) ==
  /\ cycle[c].at = "cleared" /\ ~QuotaLocked(WeekFor(c))
  /\ IF Claimed(WeekFor(c)) < MaxWeekly
     THEN Go(c, "fenced") /\ UNCHANGED run
     ELSE EndRun(c, "FAILED")
  /\ UNCHANGED <<switchVars, leaseVars, recent, queued, candidate, post, quota, generating,
                 errors>>

\* Mutant: the reservation does not look at the week's limit.
ReserveUnlimited(c) ==
  /\ cycle[c].at = "cleared" /\ ~QuotaLocked(WeekFor(c))
  /\ IF lease = c /\ leaseLive THEN Go(c, "fenced") /\ UNCHANGED run ELSE EndRun(c, "FAILED")
  /\ UNCHANGED <<switchVars, leaseVars, recent, queued, candidate, post, quota, generating,
                 errors>>

\* 5a to 5c: the quota row is locked by the reservation; then the lease is read, without
\* a lock.  A transaction that stops here leaves nothing.
ReserveQuota(c) ==
  /\ cycle[c].at = "cleared" /\ ~QuotaLocked(WeekFor(c))
  /\ IF Claimed(WeekFor(c)) < MaxWeekly /\ lease = c /\ leaseLive
     THEN Go(c, "fenced") /\ UNCHANGED run
     ELSE EndRun(c, "FAILED")
  /\ UNCHANGED <<switchVars, leaseVars, recent, queued, candidate, post, quota, generating,
                 errors>>

Insertable(d, s) == Of(d) \cap {"QUEUED", "BUSY"} = {} /\ (s = Later \/ ~Taken(s))

\* Mutant: the reservation is a statement of its own, not undone by a failing insert.
CommitKeepingCharge(c) ==
  /\ cycle[c].at = "fenced"
  /\ quota' = [quota EXCEPT ![WeekFor(c)] = Claimed(WeekFor(c)) + 1]
  /\ IF Insertable(cycle[c].draft, cycle[c].slot)
     THEN /\ post' = [post EXCEPT ![c] = [status |-> "QUEUED", draft |-> cycle[c].draft,
                                          slot |-> cycle[c].slot]]
          /\ candidate' = [candidate EXCEPT ![c] = "SCHEDULED"]
          /\ Go(c, "scheduled") /\ UNCHANGED run
     ELSE EndRun(c, "FAILED") /\ UNCHANGED <<post, candidate>>
  /\ UNCHANGED <<switchVars, leaseVars, recent, queued, generating, errors>>

\* 5d to 5f and the commit; either unique index undoes it all.
CommitSchedule(c) ==
  /\ cycle[c].at = "fenced"
  /\ IF Insertable(cycle[c].draft, cycle[c].slot) /\ candidate[c] = "SELECTED"
     THEN /\ quota' = [quota EXCEPT ![WeekFor(c)] = Claimed(WeekFor(c)) + 1]
          /\ post' = [post EXCEPT ![c] = [status |-> "QUEUED", draft |-> cycle[c].draft,
                                          slot |-> cycle[c].slot]]
          /\ candidate' = [candidate EXCEPT ![c] = "SCHEDULED"]
          /\ Go(c, "scheduled") /\ UNCHANGED run
     ELSE EndRun(c, "FAILED") /\ UNCHANGED <<quota, post, candidate>>
  /\ UNCHANGED <<switchVars, leaseVars, recent, queued, generating, errors>>

\* Step 6.
CompleteRun(c) ==
  /\ cycle[c].at = "scheduled"
  /\ EndRun(c, "COMPLETED")
  /\ UNCHANGED <<switchVars, leaseVars, recent, queued, candidate, post, quota, generating,
                 errors>>

ReleaseAccountLease(c) ==
  /\ cycle[c].at = "release"
  /\ lease' = IF lease = c THEN NoCycle ELSE lease
  /\ leaseLive' = (leaseLive /\ lease # c)
  /\ Go(c, "done")
  /\ UNCHANGED <<switchVars, recent, queued, run, candidate, post, quota, generating, errors>>

-----------------------------------------------------------------------------
(* Errors and time *)

SpendError == errors < MaxErrors /\ errors' = errors + 1

\* A statement fails; before the run row exists nothing releases the lease.
CycleError(c) ==
  /\ cycle[c].at \notin {"idle", "done", "release"} /\ SpendError
  /\ IF cycle[c].at = "claimed" THEN Go(c, "done") /\ UNCHANGED run ELSE EndRun(c, "FAILED")
  /\ UNCHANGED <<switchVars, leaseVars, recent, queued, candidate, post, quota, generating>>

CycleCrash(c) ==
  /\ cycle[c].at \notin {"idle", "done"} /\ SpendError
  /\ Go(c, "done")
  /\ UNCHANGED <<switchVars, leaseVars, recent, queued, run, candidate, post, quota,
                 generating>>

\* BullMQ takes the job for stalled and hands it out again, while its worker has died or
\* goes on.
JobStalls(c) ==
  /\ cycle[c].at \notin {"idle", "done"} /\ SpendError
  /\ \E b \in Cycle : cycle[b].at = "idle" /\ b \notin queued /\ queued' = queued \cup {b}
  /\ Go(c, "done") \/ UNCHANGED cycle
  /\ UNCHANGED <<switchVars, leaseVars, recent, run, candidate, post, quota, generating>>

LeaseEnds ==
  /\ leaseLive /\ leaseLive' = FALSE
  /\ UNCHANGED <<switchVars, lease, recent, queued, cycle, run, candidate, post, quota,
                 generating, errors>>

\* 15 minutes after a run's start its lease of 10 minutes, never renewed, is over.
QuarterPasses ==
  /\ recent /\ (LeaseHeld => run[lease] = "NONE")
  /\ recent' = FALSE
  /\ UNCHANGED <<switchVars, leaseVars, queued, cycle, run, candidate, post, quota,
                 generating, errors>>

GenerationEnds ==
  /\ generating /\ generating' = FALSE
  /\ UNCHANGED <<switchVars, leaseVars, recent, queued, cycle, run, candidate, post, quota,
                 errors>>

-----------------------------------------------------------------------------
(* People and the publisher *)

\* toggleOperator and updateOperatorConfig with PAUSED: two statements.
ClearLease ==
  /\ ~pausing /\ switches < MaxSwitches
  /\ pausing' = TRUE /\ switches' = switches + 1
  /\ lease' = NoCycle /\ leaseLive' = FALSE
  /\ UNCHANGED <<level, recent, queued, cycle, run, candidate, post, quota, generating, errors>>

SetPaused ==
  /\ pausing /\ pausing' = FALSE /\ level' = "PAUSED"
  /\ UNCHANGED <<switches, leaseVars, recent, queued, cycle, run, candidate, post, quota,
                 generating, errors>>

SetLevel(l) ==
  /\ switches < MaxSwitches /\ switches' = switches + 1
  /\ l # "PAUSED" /\ level' = l
  /\ UNCHANGED <<pausing, leaseVars, recent, queued, cycle, run, candidate, post, quota,
                 generating, errors>>

\* scheduleDraft, in one step; it charges no quota.
HumanSchedules(h, d, s) ==
  /\ post[h].status = "NONE"
  /\ Of(d) \cap {"QUEUED", "BUSY", "PUBLISHED"} = {} /\ (s = Later \/ ~Taken(s))
  /\ post' = [post EXCEPT ![h] = [status |-> "QUEUED", draft |-> d, slot |-> s]]
  /\ UNCHANGED <<switchVars, leaseVars, recent, queued, cycle, run, candidate, quota,
                 generating, errors>>

\* What the publishing pipeline makes of a scheduled post.
PostMoves(p, status) ==
  /\ post[p].status \in {"QUEUED", "BUSY"}
  /\ status \notin {"NONE", post[p].status}
  /\ post' = [post EXCEPT ![p].status = status]
  /\ UNCHANGED <<switchVars, leaseVars, recent, queued, cycle, run, candidate, quota,
                 generating, errors>>

CycleStep(c) ==
  \/ EnqueueCycle(c) \/ ClaimAccountLease(c) \/ CreateRun(c) \/ VerifyKillSwitch(c)
  \/ \E s \in Slot \cup {Later} : SelectDraft(c, s)
  \/ NoDraft(c) \/ AuditPasses(c) \/ AuditBlocks(c)
  \/ ReserveQuota(c) \/ CommitSchedule(c) \/ CompleteRun(c) \/ ReleaseAccountLease(c)
  \/ CycleError(c) \/ CycleCrash(c) \/ JobStalls(c)

OperatorNext ==
  \/ \E c \in Cycle : CycleStep(c)
  \/ LeaseEnds \/ QuarterPasses \/ GenerationEnds
  \/ ClearLease \/ SetPaused \/ \E l \in Level : SetLevel(l)
  \/ \E h \in Human, d \in Draft, s \in Slot \cup {Later} : HumanSchedules(h, d, s)
  \/ \E p \in Poster, status \in PostStatus : PostMoves(p, status)

OperatorSpec == OperatorInit /\ [][OperatorNext]_operatorVars

-----------------------------------------------------------------------------
(* Properties *)

\* Cycles whose scheduling nothing but a new check can stop any more: past the kill
\* switch and holding the lease, or past the lease check.
Armed == {c \in Cycle : \/ cycle[c].at = "fenced"
                        \/ cycle[c].at \in {"read", "selected", "cleared"} /\ lease = c /\ leaseLive}

\* A week is charged for exactly the posts the operator put into it, whatever failed
\* between the reservation and the last write, and never beyond the limit; a candidate
\* says SCHEDULED if and only if its post was made.
ChargedAsScheduled ==
  /\ \A w \in Week :
       LET made == {c \in Cycle : post[c].status # "NONE" /\ WeekOf[post[c].slot] = w}
       IN Claimed(w) = Cardinality(made) /\ Claimed(w) <= MaxWeekly
  /\ \A c \in Cycle : candidate[c] = "SCHEDULED" <=> post[c].status # "NONE"

\* The kill switch: a pause disarms every cycle that is not past its lease check, and
\* while the operator is paused no cycle gets armed and only an armed one schedules.
PauseDisarms ==
  [][ /\ (~pausing /\ pausing') => \A c \in Armed' : cycle[c].at = "fenced"
      /\ (level = "PAUSED" /\ level' = "PAUSED") =>
            /\ Armed' \subseteq Armed
            /\ \A c \in Cycle : post[c].status = "NONE" /\ post'[c].status # "NONE"
                                => c \in Armed ]_operatorVars

=============================================================================
