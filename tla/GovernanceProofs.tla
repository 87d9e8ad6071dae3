-------------------------- MODULE GovernanceProofs --------------------------
(***************************************************************************)
(* The operator's weekly charge and its kill switch, a rule's budget, the  *)
(* order of its actions and the versions its proposals are applied to, for *)
(* every number of cycles, requests, triggers, runners and reviews, every  *)
(* limit and every list of actions.  First Operator, then Rules, then both.*)
(***************************************************************************)
EXTENDS MCGovernance, FiniteSetTheorems, TLAPS

-----------------------------------------------------------------------------
(* Operator: what its steps rely on *)

\* The steps of a cycle before its scheduling commits.
Before == {"idle", "claimed", "started", "read", "selected", "cleared", "fenced"}

\* A transaction past its checks has room in its week, and the week's row for itself.
FenceInv ==
  /\ \A c \in Cycle : cycle[c].at = "fenced" => Claimed(WeekFor(c)) < MaxWeekly
  /\ \A b, c \in Cycle : /\ cycle[b].at = "fenced" /\ cycle[c].at = "fenced"
                         /\ WeekFor(b) = WeekFor(c)
                         => b = c

\* A cycle that has not committed has no post, and one that waits has not begun.
BeforeInv ==
  /\ \A c \in Cycle : cycle[c].at \in Before => /\ post[c].status = "NONE"
                                               /\ candidate[c] # "SCHEDULED"
  /\ \A c \in queued : cycle[c].at = "idle"

Inv == OperatorTypeOK /\ FenceInv /\ BeforeInv /\ ChargedAsScheduled

\* A step of c that neither reserves nor commits.
Quiet(c) ==
  /\ UNCHANGED <<quota, post>>
  /\ \A b \in Cycle : b # c => cycle'[b] = cycle[b] /\ candidate'[b] = candidate[b]
  /\ cycle'[c].at = "fenced" => cycle'[c] = cycle[c]
  /\ cycle'[c].at \in Before => cycle[c].at \in Before
  /\ candidate'[c] = "SCHEDULED" <=> candidate[c] = "SCHEDULED"
  /\ \A b \in queued' : cycle'[b].at = "idle"

\* All of the types but that of the quota.
OtherTypes ==
  /\ level \in Level \cup {"NONE"} /\ pausing \in BOOLEAN
  /\ lease \in Cycle \cup {NoCycle} /\ leaseLive \in BOOLEAN
  /\ recent \in BOOLEAN /\ queued \subseteq Cycle
  /\ cycle \in [Cycle -> Progress]
  /\ run \in [Cycle -> {"NONE", "RUNNING", "COMPLETED", "HALTED_KILL_SWITCH", "FAILED"}]
  /\ candidate \in [Cycle -> {"NONE", "SELECTED", "SAFETY_BLOCKED", "SCHEDULED"}]
  /\ post \in [Poster -> Post]
  /\ generating \in BOOLEAN
  /\ switches \in 0..MaxSwitches /\ errors \in 0..MaxErrors

-----------------------------------------------------------------------------
(* Single steps *)

LEMMA Goes ==
  ASSUME OperatorTypeOK, NEW c \in Cycle, NEW step \in Step, Go(c, step)
  PROVE  /\ cycle' \in [Cycle -> Progress]
         /\ cycle'[c].at = step /\ cycle'[c].slot = cycle[c].slot
         /\ \A b \in Cycle : b # c => cycle'[b] = cycle[b]
<1>1. cycle \in [Cycle -> Progress] /\ cycle[c] \in Progress
  BY DEF OperatorTypeOK
<1>2. [cycle[c] EXCEPT !.at = step] \in Progress
  BY <1>1 DEF Progress
<1>3. cycle' = [cycle EXCEPT ![c] = [cycle[c] EXCEPT !.at = step]]
  BY DEF Go
<1>4. QED
  BY <1>1, <1>2, <1>3 DEF Progress

LEMMA Ends ==
  ASSUME OperatorTypeOK, NEW c \in Cycle,
         NEW s \in {"COMPLETED", "HALTED_KILL_SWITCH", "FAILED"}, EndRun(c, s)
  PROVE  /\ run' \in [Cycle -> {"NONE", "RUNNING", "COMPLETED", "HALTED_KILL_SWITCH", "FAILED"}]
         /\ Go(c, "release")
BY DEF EndRun, OperatorTypeOK

\* Reading the level and picking a draft change two fields and the step.
LEMMA Reads ==
  ASSUME OperatorTypeOK, NEW c \in Cycle, NEW l \in Level \cup {"NONE"},
         cycle' = [cycle EXCEPT ![c].at = "read", ![c].saw = l]
  PROVE  /\ cycle' \in [Cycle -> Progress] /\ cycle'[c].at = "read"
         /\ \A b \in Cycle : b # c => cycle'[b] = cycle[b]
<1>1. cycle \in [Cycle -> Progress] /\ cycle[c] \in Progress
  BY DEF OperatorTypeOK
<1>2. [cycle[c] EXCEPT !.at = "read", !.saw = l] \in Progress
  BY <1>1 DEF Progress, Step
<1>3. cycle' = [cycle EXCEPT ![c] = [cycle[c] EXCEPT !.at = "read", !.saw = l]]
  BY <1>1 DEF Progress
<1>4. QED
  BY <1>1, <1>2, <1>3 DEF Progress

LEMMA Picks ==
  ASSUME OperatorTypeOK, NEW c \in Cycle, NEW d \in Draft, NEW s \in Slot \cup {Later},
         cycle' = [cycle EXCEPT ![c].at = "selected", ![c].draft = d, ![c].slot = s]
  PROVE  /\ cycle' \in [Cycle -> Progress] /\ cycle'[c].at = "selected"
         /\ \A b \in Cycle : b # c => cycle'[b] = cycle[b]
<1>1. cycle \in [Cycle -> Progress] /\ cycle[c] \in Progress
  BY DEF OperatorTypeOK
<1>2. [cycle[c] EXCEPT !.at = "selected", !.draft = d, !.slot = s] \in Progress
  BY <1>1 DEF Progress, Step
<1>3. cycle' = [cycle EXCEPT ![c] = [cycle[c] EXCEPT !.at = "selected", !.draft = d, !.slot = s]]
  BY <1>1 DEF Progress
<1>4. QED
  BY <1>1, <1>2, <1>3 DEF Progress

LEMMA PostMoved ==
  ASSUME OperatorTypeOK, NEW p \in Poster, NEW status \in PostStatus,
         post' = [post EXCEPT ![p].status = status]
  PROVE  /\ post' \in [Poster -> Post]
         /\ post'[p].status = status /\ post'[p].slot = post[p].slot
         /\ \A q \in Poster : q # p => post'[q] = post[q]
<1>1. post \in [Poster -> Post] /\ post[p] \in Post
  BY DEF OperatorTypeOK
<1>2. [post[p] EXCEPT !.status = status] \in Post
  BY <1>1 DEF Post
<1>3. post' = [post EXCEPT ![p] = [post[p] EXCEPT !.status = status]]
  OBVIOUS
<1>4. QED
  BY <1>1, <1>2, <1>3 DEF Post

LEMMA Errs == OperatorTypeOK /\ SpendError => errors' \in 0..MaxErrors
BY OperatorAssumption DEF OperatorTypeOK, SpendError

-----------------------------------------------------------------------------
(* The steps of a cycle that neither reserve nor commit *)

LEMMA QuietSteps ==
  ASSUME OperatorTypeOK, BeforeInv, NEW c \in Cycle, CycleStep(c),
         ~ReserveQuota(c), ~CommitSchedule(c)
  PROVE  OtherTypes' /\ Quiet(c)
<1> USE DEF switchVars, leaseVars
<1>1. CASE EnqueueCycle(c)
  <2>1. cycle' = cycle /\ queued' = queued \cup {c} /\ cycle[c].at = "idle"
    BY <1>1 DEF EnqueueCycle
  <2>2. \A b \in queued' : cycle'[b].at = "idle"
    BY <2>1 DEF BeforeInv
  <2>3. UNCHANGED <<level, pausing, switches, lease, leaseLive, recent, cycle, run, candidate,
                    post, quota, generating, errors>>
    BY <1>1, <2>1 DEF EnqueueCycle
  <2>4. OtherTypes'
    BY <2>1, <2>3 DEF OperatorTypeOK, OtherTypes
  <2>5. QED
    BY <2>2, <2>3, <2>4 DEF Quiet
<1>2. CASE ClaimAccountLease(c)
  <2>1. Go(c, "claimed") \/ Go(c, "done")
    BY <1>2 DEF ClaimAccountLease
  <2>2. /\ cycle' \in [Cycle -> Progress] /\ cycle'[c].at \in {"claimed", "done"}
        /\ \A b \in Cycle : b # c => cycle'[b] = cycle[b]
    BY <2>1, Goes DEF Step
  <2>3. cycle[c].at = "idle" /\ c \notin queued' /\ queued' \subseteq queued
    BY <1>2 DEF ClaimAccountLease, BeforeInv
  <2>4. /\ UNCHANGED <<switchVars, recent, run, candidate, post, quota, generating, errors>>
        /\ lease' \in Cycle \cup {NoCycle} /\ leaseLive' \in BOOLEAN
    BY <1>2 DEF ClaimAccountLease, OperatorTypeOK
  <2>5. OtherTypes'
    BY <2>2, <2>3, <2>4 DEF OperatorTypeOK, OtherTypes
  <2>6. QED
    BY <2>2, <2>3, <2>4, <2>5 DEF OperatorTypeOK, Quiet, BeforeInv, Before
<1>3. CASE CreateRun(c)
  <2>1. /\ cycle' \in [Cycle -> Progress] /\ cycle'[c].at = "started"
        /\ \A b \in Cycle : b # c => cycle'[b] = cycle[b]
    BY <1>3, Goes DEF CreateRun, Step
  <2>2. cycle[c].at = "claimed" /\ c \notin queued
    BY <1>3 DEF CreateRun, BeforeInv
  <2>3. QED
    BY <1>3, <2>1, <2>2 DEF CreateRun, OperatorTypeOK, OtherTypes, Quiet, BeforeInv, Before
<1>4. CASE VerifyKillSwitch(c)
  <2>1. level' \in Level \cup {"NONE"}
    BY <1>4 DEF VerifyKillSwitch, OperatorTypeOK, Level
  <2>2. /\ cycle' \in [Cycle -> Progress] /\ cycle'[c].at \in {"read", "release"}
        /\ \A b \in Cycle : b # c => cycle'[b] = cycle[b]
        /\ run' \in [Cycle -> {"NONE", "RUNNING", "COMPLETED", "HALTED_KILL_SWITCH", "FAILED"}]
    <3>1. CASE level' = "PAUSED"
      BY <1>4, <3>1, Ends, Goes DEF VerifyKillSwitch, Step
    <3>2. CASE level' # "PAUSED"
      BY <1>4, <2>1, <3>2, Reads DEF VerifyKillSwitch, OperatorTypeOK
    <3>3. QED
      BY <3>1, <3>2
  <2>3. cycle[c].at = "started" /\ c \notin queued
    BY <1>4 DEF VerifyKillSwitch, BeforeInv
  <2>4. UNCHANGED <<pausing, switches, leaseVars, recent, queued, candidate, post, quota,
                    generating, errors>>
    BY <1>4 DEF VerifyKillSwitch
  <2>5. OtherTypes'
    BY <2>1, <2>2, <2>4 DEF OperatorTypeOK, OtherTypes
  <2>6. QED
    BY <2>2, <2>3, <2>4, <2>5 DEF OperatorTypeOK, Quiet, BeforeInv, Before
<1>5. ASSUME NEW s \in Slot \cup {Later}, SelectDraft(c, s)
      PROVE  OtherTypes' /\ Quiet(c)
  <2>1. PICK d \in Draft :
          cycle' = [cycle EXCEPT ![c].at = "selected", ![c].draft = d, ![c].slot = s]
    BY <1>5 DEF SelectDraft
  <2>2. /\ cycle' \in [Cycle -> Progress] /\ cycle'[c].at = "selected"
        /\ \A b \in Cycle : b # c => cycle'[b] = cycle[b]
    BY <2>1, Picks
  <2>3. cycle[c].at = "read" /\ c \notin queued
    BY <1>5 DEF SelectDraft, BeforeInv
  <2>4. QED
    BY <1>5, <2>2, <2>3 DEF SelectDraft, OperatorTypeOK, OtherTypes, Quiet, BeforeInv, Before
<1>6. CASE NoDraft(c) \/ AuditPasses(c) \/ AuditBlocks(c) \/ CompleteRun(c)
  <2>1. /\ \/ EndRun(c, "COMPLETED")
           \/ Go(c, "cleared") /\ run' = run
        /\ cycle[c].at \in {"read", "selected", "scheduled"}
        /\ cycle[c].at = "scheduled" => EndRun(c, "COMPLETED")
    BY <1>6 DEF NoDraft, AuditPasses, AuditBlocks, CompleteRun
  <2>2. /\ cycle' \in [Cycle -> Progress] /\ cycle'[c].at \in {"cleared", "release"}
        /\ cycle'[c].at = "cleared" => cycle[c].at \in {"read", "selected"}
        /\ \A b \in Cycle : b # c => cycle'[b] = cycle[b]
        /\ run' \in [Cycle -> {"NONE", "RUNNING", "COMPLETED", "HALTED_KILL_SWITCH", "FAILED"}]
    BY <2>1, Ends, Goes DEF Step, OperatorTypeOK
  <2>3. c \notin queued
    BY <2>1 DEF BeforeInv
  <2>4. UNCHANGED <<switchVars, leaseVars, recent, queued, post, quota, errors>>
    BY <1>6 DEF NoDraft, AuditPasses, AuditBlocks, CompleteRun
  <2>5. generating' \in BOOLEAN
    BY <1>6 DEF NoDraft, AuditPasses, AuditBlocks, CompleteRun, OperatorTypeOK
  <2>6. /\ candidate' \in [Cycle -> {"NONE", "SELECTED", "SAFETY_BLOCKED", "SCHEDULED"}]
        /\ \A b \in Cycle : b # c => candidate'[b] = candidate[b]
        /\ candidate'[c] = "SCHEDULED" <=> candidate[c] = "SCHEDULED"
    <3>1. CASE candidate' = candidate
      BY <3>1 DEF OperatorTypeOK
    <3>2. CASE AuditBlocks(c)
      BY <3>2 DEF AuditBlocks, OperatorTypeOK, BeforeInv, Before
    <3>3. QED
      BY <1>6, <3>1, <3>2 DEF NoDraft, AuditPasses, CompleteRun
  <2>7. OtherTypes'
    BY <2>2, <2>4, <2>5, <2>6 DEF OperatorTypeOK, OtherTypes
  <2>8. QED
    BY <2>2, <2>3, <2>4, <2>6, <2>7 DEF OperatorTypeOK, Quiet, BeforeInv, Before
<1>7. CASE ReleaseAccountLease(c)
  <2>1. /\ cycle' \in [Cycle -> Progress] /\ cycle'[c].at = "done"
        /\ \A b \in Cycle : b # c => cycle'[b] = cycle[b]
    BY <1>7, Goes DEF ReleaseAccountLease, Step
  <2>2. c \notin queued
    BY <1>7 DEF ReleaseAccountLease, BeforeInv
  <2>3. QED
    BY <1>7, <2>1, <2>2 DEF ReleaseAccountLease, OperatorTypeOK, OtherTypes, Quiet, BeforeInv, Before
<1>8. CASE CycleError(c) \/ CycleCrash(c) \/ (JobStalls(c) /\ Go(c, "done"))
  <2>1. /\ EndRun(c, "FAILED") \/ (Go(c, "done") /\ run' = run)
        /\ cycle[c].at # "idle" /\ SpendError
    BY <1>8 DEF CycleError, CycleCrash, JobStalls
  <2>2. /\ cycle' \in [Cycle -> Progress] /\ cycle'[c].at \in {"release", "done"}
        /\ \A b \in Cycle : b # c => cycle'[b] = cycle[b]
        /\ run' \in [Cycle -> {"NONE", "RUNNING", "COMPLETED", "HALTED_KILL_SWITCH", "FAILED"}]
    BY <2>1, Ends, Goes DEF Step, OperatorTypeOK
  <2>3. c \notin queued
    BY <2>1 DEF BeforeInv
  <2>4. /\ UNCHANGED <<switchVars, leaseVars, recent, candidate, post, quota, generating>>
        /\ queued' \subseteq Cycle
        /\ \A b \in queued' : b \in queued \/ cycle[b].at = "idle"
    BY <1>8 DEF CycleError, CycleCrash, JobStalls, OperatorTypeOK
  <2>5. \A b \in queued' : b # c /\ b \in Cycle /\ cycle[b].at = "idle"
    BY <2>1, <2>3, <2>4 DEF BeforeInv, OperatorTypeOK
  <2>6. QED
    BY <2>1, <2>2, <2>4, <2>5, Errs DEF OperatorTypeOK, OtherTypes, Quiet, Before
<1>9. CASE JobStalls(c) /\ UNCHANGED cycle
  <2>1. /\ UNCHANGED <<switchVars, leaseVars, recent, run, candidate, post, quota, generating>>
        /\ queued' \subseteq Cycle /\ SpendError
        /\ \A b \in queued' : b \in queued \/ cycle[b].at = "idle"
    BY <1>9 DEF JobStalls, OperatorTypeOK
  <2>2. QED
    BY <1>9, <2>1, Errs DEF OperatorTypeOK, OtherTypes, Quiet, BeforeInv
<1>10. QED
  BY <1>1, <1>2, <1>3, <1>4, <1>5, <1>6, <1>7, <1>8, <1>9 DEF CycleStep, JobStalls

-----------------------------------------------------------------------------
(* The weekly charge *)

\* The posts of cycles in a week.
Made(w) == {c \in Cycle : post[c].status # "NONE" /\ WeekOf[post[c].slot] = w}

LEMMA MadeCounts == \A w \in Week : IsFiniteSet(Made(w)) /\ Cardinality(Made(w)) \in Nat
BY FS_Subset, FS_CardinalityType, OperatorAssumption DEF Made

LEMMA QuietKeeps ==
  ASSUME Inv, NEW c \in Cycle, Quiet(c), OtherTypes'
  PROVE  Inv'
<1>1. quota' = quota /\ post' = post
  BY DEF Quiet
<1>2. OperatorTypeOK'
  BY <1>1 DEF Inv, OperatorTypeOK, OtherTypes
<1>3. \A b \in Cycle : cycle'[b].at = "fenced" => cycle'[b] = cycle[b]
  BY DEF Quiet
<1>4. FenceInv'
  BY <1>1, <1>3 DEF Inv, FenceInv, Claimed, WeekFor
<1>5. \A b \in Cycle : cycle'[b].at \in Before => cycle[b].at \in Before
  BY DEF Quiet
<1>6. \A b \in Cycle : candidate'[b] = "SCHEDULED" <=> candidate[b] = "SCHEDULED"
  BY DEF Quiet
<1>7. BeforeInv'
  BY <1>1, <1>5, <1>6 DEF Inv, BeforeInv, Quiet
<1>8. ChargedAsScheduled'
  BY <1>1, <1>6 DEF Inv, ChargedAsScheduled, Claimed
<1>9. QED
  BY <1>2, <1>4, <1>7, <1>8 DEF Inv

LEMMA ReserveKeeps ==
  ASSUME Inv, NEW c \in Cycle, ReserveQuota(c)
  PROVE  Inv'
<1> USE DEF switchVars, leaseVars
<1>1. /\ UNCHANGED <<switchVars, leaseVars, recent, queued, candidate, post, quota, generating,
                     errors>>
      /\ cycle[c].at = "cleared" /\ ~QuotaLocked(WeekFor(c))
  BY DEF ReserveQuota
<1>2. \/ Go(c, "fenced") /\ UNCHANGED run /\ Claimed(WeekFor(c)) < MaxWeekly
      \/ EndRun(c, "FAILED")
  BY DEF ReserveQuota
<1>3. /\ cycle' \in [Cycle -> Progress] /\ cycle'[c].at \in {"fenced", "release"}
      /\ cycle'[c].slot = cycle[c].slot
      /\ \A b \in Cycle : b # c => cycle'[b] = cycle[b]
      /\ cycle'[c].at = "fenced" => Claimed(WeekFor(c)) < MaxWeekly
      /\ run' \in [Cycle -> {"NONE", "RUNNING", "COMPLETED", "HALTED_KILL_SWITCH", "FAILED"}]
  BY <1>2, Ends, Goes DEF Inv, Step, OperatorTypeOK
<1>4. OperatorTypeOK'
  BY <1>1, <1>3 DEF Inv, OperatorTypeOK
<1>5. \A b \in Cycle : WeekFor(b)' = WeekFor(b)
  BY <1>3 DEF WeekFor
<1>6. \A w \in Week : Claimed(w)' = Claimed(w)
  BY <1>1 DEF Claimed
<1>7. \A b \in Cycle : cycle[b].at = "fenced" => WeekFor(b) # WeekFor(c)
  BY <1>1 DEF QuotaLocked
<1>8. FenceInv'
  <2>1. \A b \in Cycle : cycle'[b].at = "fenced" => Claimed(WeekFor(b))' < MaxWeekly
    BY <1>1, <1>3, <1>5 DEF Inv, FenceInv, Claimed
  <2>2. ASSUME NEW a \in Cycle, NEW b \in Cycle, cycle'[a].at = "fenced", cycle'[b].at = "fenced",
               WeekFor(a)' = WeekFor(b)'
        PROVE  a = b
    BY <1>3, <1>5, <1>7, <2>2 DEF Inv, FenceInv
  <2>3. QED
    BY <2>1, <2>2 DEF FenceInv
<1>9. BeforeInv'
  <2>1. c \notin queued
    BY <1>1 DEF Inv, BeforeInv
  <2>2. QED
    BY <1>1, <1>3, <2>1 DEF Inv, BeforeInv, Before, OperatorTypeOK
<1>10. ChargedAsScheduled'
  BY <1>1 DEF Inv, ChargedAsScheduled, Claimed
<1>11. QED
  BY <1>4, <1>8, <1>9, <1>10 DEF Inv

LEMMA CommitKeeps ==
  ASSUME Inv, NEW c \in Cycle, CommitSchedule(c)
  PROVE  Inv'
<1> USE DEF switchVars, leaseVars
<1>1. /\ UNCHANGED <<switchVars, leaseVars, recent, queued, generating, errors>>
      /\ cycle[c].at = "fenced" /\ cycle[c] \in Progress
      /\ cycle[c].draft \in Draft \cup {0} /\ cycle[c].slot \in Slot \cup {Later}
      /\ post[c].status = "NONE" /\ c \notin queued /\ c \in Poster
  BY DEF CommitSchedule, Inv, BeforeInv, Before, OperatorTypeOK, Progress, Poster
<1>2. PICK w0 \in Week : w0 = WeekFor(c) /\ Claimed(w0) < MaxWeekly
  BY <1>1, OperatorAssumption DEF Inv, FenceInv, WeekFor
<1>3. CASE EndRun(c, "FAILED") /\ UNCHANGED <<quota, post, candidate>>
  <2>1. /\ cycle' \in [Cycle -> Progress] /\ cycle'[c].at = "release"
        /\ \A b \in Cycle : b # c => cycle'[b] = cycle[b]
        /\ run' \in [Cycle -> {"NONE", "RUNNING", "COMPLETED", "HALTED_KILL_SWITCH", "FAILED"}]
    BY <1>3, Ends, Goes DEF Inv, Step
  <2>2. OtherTypes'
    BY <1>1, <1>3, <2>1 DEF Inv, OperatorTypeOK, OtherTypes
  <2>3. Quiet(c)
    BY <1>1, <1>3, <2>1 DEF Inv, BeforeInv, Quiet, Before, OperatorTypeOK
  <2>4. QED
    BY <2>2, <2>3, QuietKeeps
<1>4. CASE /\ quota' = [quota EXCEPT ![w0] = Claimed(w0) + 1]
           /\ post' = [post EXCEPT ![c] = [status |-> "QUEUED", draft |-> cycle[c].draft,
                                           slot |-> cycle[c].slot]]
           /\ candidate' = [candidate EXCEPT ![c] = "SCHEDULED"]
           /\ Go(c, "scheduled") /\ UNCHANGED run
  <2>1. /\ cycle' \in [Cycle -> Progress] /\ cycle'[c].at = "scheduled"
        /\ \A b \in Cycle : b # c => cycle'[b] = cycle[b]
    BY <1>4, Goes DEF Inv, Step
  <2>2. [status |-> "QUEUED", draft |-> cycle[c].draft, slot |-> cycle[c].slot] \in Post
    BY <1>1 DEF Post, PostStatus
  <2>3. /\ post' \in [Poster -> Post]
        /\ post'[c].status = "QUEUED" /\ post'[c].slot = cycle[c].slot
        /\ \A p \in Poster : p # c => post'[p] = post[p]
    BY <1>1, <1>4, <2>2 DEF Inv, OperatorTypeOK
  <2>4. Claimed(w0) \in Nat /\ Claimed(w0) + 1 \in 0..MaxWeekly
    <3>1. PICK n \in -1..MaxWeekly : n = quota[w0]
      BY <1>2 DEF Inv, OperatorTypeOK
    <3>2. QED
      BY <1>2, <3>1, OperatorAssumption DEF Claimed
  <2>5. /\ quota' \in [Week -> -1..MaxWeekly]
        /\ quota'[w0] = Claimed(w0) + 1
        /\ \A w \in Week : w # w0 => quota'[w] = quota[w]
    <3>1. \A n \in 0..MaxWeekly : n \in -1..MaxWeekly
      OBVIOUS
    <3>2. QED
      BY <1>2, <1>4, <2>4, <3>1 DEF Inv, OperatorTypeOK
  <2>6. OperatorTypeOK'
    BY <1>1, <1>4, <2>1, <2>3, <2>5 DEF Inv, OperatorTypeOK
  <2>7. /\ Claimed(w0)' = Claimed(w0) + 1
        /\ \A w \in Week : w # w0 => Claimed(w)' = Claimed(w)
    BY <1>2, <2>4, <2>5 DEF Claimed
  <2>8. \A b \in Cycle : cycle'[b].at = "fenced" =>
          /\ b # c /\ cycle[b].at = "fenced" /\ cycle'[b] = cycle[b]
          /\ WeekFor(b)' = WeekFor(b) /\ WeekFor(b) # w0 /\ WeekFor(b) \in Week
    <3> SUFFICES ASSUME NEW b \in Cycle, cycle'[b].at = "fenced"
                 PROVE  /\ b # c /\ cycle[b].at = "fenced" /\ cycle'[b] = cycle[b]
                        /\ WeekFor(b)' = WeekFor(b) /\ WeekFor(b) # w0 /\ WeekFor(b) \in Week
      OBVIOUS
    <3>1. b # c /\ cycle'[b] = cycle[b] /\ cycle[b] \in Progress
      BY <2>1 DEF Inv, OperatorTypeOK
    <3>2. WeekFor(b) \in Week /\ WeekFor(b)' = WeekFor(b)
      BY <3>1, OperatorAssumption DEF WeekFor, Progress
    <3>3. WeekFor(b) # w0
      BY <1>1, <1>2, <3>1 DEF Inv, FenceInv
    <3>4. QED
      BY <3>1, <3>2, <3>3
  <2>9. FenceInv'
    <3>1. \A b \in Cycle : cycle'[b].at = "fenced" => Claimed(WeekFor(b))' < MaxWeekly
      <4> SUFFICES ASSUME NEW b \in Cycle, cycle'[b].at = "fenced"
                   PROVE  Claimed(WeekFor(b))' < MaxWeekly
        OBVIOUS
      <4>1. quota'[WeekFor(b)] = quota[WeekFor(b)] /\ WeekFor(b)' = WeekFor(b)
        BY <2>5, <2>8
      <4>2. QED
        BY <2>8, <4>1 DEF Inv, FenceInv, Claimed
    <3>2. QED
      BY <2>8, <3>1 DEF Inv, FenceInv
  <2>10. BeforeInv'
    <3>1. \A b \in Cycle : cycle'[b].at \in Before =>
            b # c /\ b \in Poster /\ cycle[b].at \in Before /\ post'[b] = post[b]
            /\ candidate'[b] = candidate[b]
      BY <1>4, <2>1, <2>3 DEF Before, Poster, Inv, OperatorTypeOK
    <3>2. \A b \in queued' : cycle'[b].at = "idle"
      BY <1>1, <2>1 DEF Inv, BeforeInv, OperatorTypeOK
    <3>3. QED
      BY <3>1, <3>2 DEF Inv, BeforeInv
  <2>11. \A b \in Cycle : b # c => post'[b] = post[b]
    BY <2>3 DEF Poster
  <2>12. c \notin Made(w0) /\ Made(w0)' = Made(w0) \cup {c}
    BY <1>1, <1>2, <2>3, <2>11 DEF Made, WeekFor
  <2>13. \A w \in Week : w # w0 => Made(w)' = Made(w)
    BY <1>1, <1>2, <2>3, <2>11 DEF Made, WeekFor
  <2>14. Cardinality(Made(w0)') = Cardinality(Made(w0)) + 1
    BY <1>2, <2>12, MadeCounts, FS_AddElement
  <2>15. \A w \in Week : Claimed(w) = Cardinality(Made(w)) /\ Claimed(w) <= MaxWeekly
    BY DEF Inv, ChargedAsScheduled, Made
  <2>16. \A w \in Week : Claimed(w)' = Cardinality(Made(w)') /\ Claimed(w)' <= MaxWeekly
    <3> SUFFICES ASSUME NEW w \in Week
                 PROVE  Claimed(w)' = Cardinality(Made(w)') /\ Claimed(w)' <= MaxWeekly
      OBVIOUS
    <3>1. CASE w = w0
      BY <2>4, <2>7, <2>14, <2>15, <3>1
    <3>2. CASE w # w0
      BY <2>7, <2>13, <2>15, <3>2
    <3>3. QED
      BY <3>1, <3>2
  <2>17. \A b \in Cycle : candidate'[b] = "SCHEDULED" <=> post'[b].status # "NONE"
    BY <1>4, <2>3, <2>11 DEF Inv, ChargedAsScheduled, OperatorTypeOK
  <2>18. ChargedAsScheduled'
    BY <2>16, <2>17 DEF ChargedAsScheduled, Made
  <2>19. QED
    BY <2>6, <2>9, <2>10, <2>18 DEF Inv
<1>5. QED
  BY <1>2, <1>3, <1>4 DEF CommitSchedule

\* Posts that people make and that the publisher moves are never new posts of a cycle.
LEMMA PostsKeep ==
  ASSUME Inv, NEW p \in Poster, NEW x \in Post,
         post' = [post EXCEPT ![p] = x],
         p \in Cycle => /\ x.slot = post[p].slot
                        /\ x.status = "NONE" <=> post[p].status = "NONE",
         UNCHANGED <<switchVars, leaseVars, recent, queued, cycle, run, candidate, quota,
                     generating, errors>>
  PROVE  Inv'
<1> USE DEF switchVars, leaseVars
<1>1. OperatorTypeOK'
  BY DEF Inv, OperatorTypeOK
<1>2. \A c \in Cycle : /\ post'[c].slot = post[c].slot
                       /\ post'[c].status = "NONE" <=> post[c].status = "NONE"
  BY DEF Inv, OperatorTypeOK, Poster
<1>3. \A w \in Week : Made(w)' = Made(w)
  BY <1>2 DEF Made
<1>4. ChargedAsScheduled'
  <2>1. \A w \in Week : Claimed(w)' = Claimed(w)
    BY DEF Claimed
  <2>2. \A w \in Week : Claimed(w) = Cardinality(Made(w)) /\ Claimed(w) <= MaxWeekly
    BY DEF Inv, ChargedAsScheduled, Made
  <2>3. \A c \in Cycle : candidate'[c] = "SCHEDULED" <=> post'[c].status # "NONE"
    BY <1>2 DEF Inv, ChargedAsScheduled
  <2>4. \A w \in Week : Claimed(w)' = Cardinality(Made(w)') /\ Claimed(w)' <= MaxWeekly
    BY <1>3, <2>1, <2>2
  <2>5. QED
    BY <2>3, <2>4 DEF ChargedAsScheduled, Made
<1>5. FenceInv' /\ BeforeInv'
  BY <1>2 DEF Inv, FenceInv, BeforeInv, WeekFor, Claimed
<1>6. QED
  BY <1>1, <1>4, <1>5 DEF Inv

\* The level, the lease and time touch nothing the charge depends on.
LEMMA OthersKeep ==
  ASSUME Inv,
         \/ LeaseEnds \/ QuarterPasses \/ GenerationEnds \/ ClearLease \/ SetPaused
         \/ \E l \in Level : SetLevel(l)
  PROVE  Inv'
<1> USE DEF switchVars, leaseVars
<1>1. UNCHANGED <<queued, cycle, run, candidate, post, quota, errors>>
  BY DEF LeaseEnds, QuarterPasses, GenerationEnds, ClearLease, SetPaused, SetLevel
<1>2. /\ level' \in Level \cup {"NONE"} /\ pausing' \in BOOLEAN
      /\ lease' \in Cycle \cup {NoCycle} /\ leaseLive' \in BOOLEAN
      /\ recent' \in BOOLEAN /\ generating' \in BOOLEAN /\ switches' \in 0..MaxSwitches
  <2>1. CASE LeaseEnds
    BY <2>1 DEF LeaseEnds, Inv, OperatorTypeOK
  <2>2. CASE QuarterPasses \/ GenerationEnds
    <3>1. UNCHANGED <<level, pausing, switches, lease, leaseLive>>
      BY <2>2 DEF QuarterPasses, GenerationEnds
    <3>2. recent' \in BOOLEAN /\ generating' \in BOOLEAN
      BY <2>2 DEF QuarterPasses, GenerationEnds, Inv, OperatorTypeOK
    <3>3. QED
      BY <3>1, <3>2 DEF Inv, OperatorTypeOK
  <2>3. CASE ClearLease
    <3>1. /\ pausing' = TRUE /\ leaseLive' = FALSE /\ lease' = NoCycle
          /\ UNCHANGED <<level, recent, generating>>
      BY <2>3 DEF ClearLease
    <3>2. switches' \in 0..MaxSwitches
      BY <2>3, OperatorAssumption DEF ClearLease, Inv, OperatorTypeOK
    <3>3. QED
      BY <3>1, <3>2 DEF Inv, OperatorTypeOK
  <2>4. CASE SetPaused
    BY <2>4 DEF SetPaused, Inv, OperatorTypeOK, Level
  <2>5. CASE \E l \in Level : SetLevel(l)
    <3>1. /\ level' \in Level
          /\ UNCHANGED <<pausing, lease, leaseLive, recent, generating>>
      BY <2>5 DEF SetLevel
    <3>2. switches' \in 0..MaxSwitches
      BY <2>5, OperatorAssumption DEF SetLevel, Inv, OperatorTypeOK
    <3>3. QED
      BY <3>1, <3>2 DEF Inv, OperatorTypeOK
  <2>6. QED
    BY <2>1, <2>2, <2>3, <2>4, <2>5
<1>3. OperatorTypeOK'
  BY <1>1, <1>2 DEF Inv, OperatorTypeOK
<1>4. FenceInv' /\ BeforeInv' /\ ChargedAsScheduled'
  BY <1>1 DEF Inv, FenceInv, BeforeInv, ChargedAsScheduled, WeekFor, Claimed
<1>5. QED
  BY <1>3, <1>4 DEF Inv

LEMMA InvInitially == OperatorInit => Inv
<1> SUFFICES ASSUME OperatorInit PROVE Inv
  OBVIOUS
<1>1. AtRest \in Progress /\ NoPost \in Post
  BY DEF AtRest, Progress, NoPost, Post, PostStatus, Step
<1>2. -1 \in -1..MaxWeekly /\ 0 \in 0..MaxErrors /\ 0 \in 0..MaxSwitches
  BY OperatorAssumption
<1>3. OperatorTypeOK
  BY <1>1, <1>2 DEF OperatorInit, OperatorTypeOK
<1>4. \A c \in Cycle : /\ cycle[c].at = "idle" /\ post[c].status = "NONE"
                       /\ candidate[c] = "NONE"
  BY DEF OperatorInit, AtRest, NoPost, Poster
<1>5. FenceInv /\ BeforeInv
  BY <1>4 DEF FenceInv, BeforeInv, OperatorInit
<1>6. \A w \in Week : Made(w) = {} /\ Claimed(w) = 0
  BY <1>4 DEF Made, Claimed, OperatorInit
<1>7. ChargedAsScheduled
  <2>1. \A w \in Week : Claimed(w) = Cardinality(Made(w)) /\ Claimed(w) <= MaxWeekly
    BY <1>6, FS_EmptySet, OperatorAssumption
  <2>2. \A c \in Cycle : candidate[c] = "SCHEDULED" <=> post[c].status # "NONE"
    BY <1>4
  <2>3. QED
    BY <2>1, <2>2 DEF ChargedAsScheduled, Made
<1>8. QED
  BY <1>3, <1>5, <1>7 DEF Inv

LEMMA InvStep == Inv /\ [OperatorNext]_operatorVars => Inv'
<1> SUFFICES ASSUME Inv, [OperatorNext]_operatorVars PROVE Inv'
  OBVIOUS
<1>1. ASSUME NEW c \in Cycle, CycleStep(c)
      PROVE  Inv'
  BY <1>1, QuietSteps, QuietKeeps, ReserveKeeps, CommitKeeps DEF Inv
<1>2. CASE \/ LeaseEnds \/ QuarterPasses \/ GenerationEnds \/ ClearLease \/ SetPaused
           \/ \E l \in Level : SetLevel(l)
  BY <1>2, OthersKeep
<1>3. ASSUME NEW h \in Human, NEW d \in Draft, NEW s \in Slot \cup {Later},
             HumanSchedules(h, d, s)
      PROVE  Inv'
  <2>1. [status |-> "QUEUED", draft |-> d, slot |-> s] \in Post
    BY DEF Post, PostStatus
  <2>2. h \in Poster /\ h \notin Cycle
    BY OperatorAssumption DEF Poster
  <2>3. QED
    BY <1>3, <2>1, <2>2, PostsKeep DEF HumanSchedules
<1>4. ASSUME NEW p \in Poster, NEW status \in PostStatus, PostMoves(p, status)
      PROVE  Inv'
  <2>1. post \in [Poster -> Post] /\ post[p] \in Post
    BY DEF Inv, OperatorTypeOK
  <2> DEFINE x == [post[p] EXCEPT !.status = status]
  <2>3. x \in Post /\ x.slot = post[p].slot /\ x.status = status
    BY <2>1 DEF Post
  <2>4. post' = [post EXCEPT ![p] = x] /\ post[p].status # "NONE" /\ status # "NONE"
    BY <1>4 DEF PostMoves
  <2>5. UNCHANGED <<switchVars, leaseVars, recent, queued, cycle, run, candidate, quota,
                    generating, errors>>
    BY <1>4 DEF PostMoves
  <2> HIDE DEF x
  <2>6. QED
    BY <2>3, <2>4, <2>5, PostsKeep
<1>5. CASE UNCHANGED operatorVars
  <2>1. UNCHANGED <<level, pausing, switches, lease, leaseLive, recent, queued, cycle, run,
                    candidate, post, quota, generating, errors>>
    BY <1>5 DEF operatorVars, switchVars, leaseVars
  <2>2. QED
    BY <2>1 DEF Inv, OperatorTypeOK, FenceInv, BeforeInv, ChargedAsScheduled, WeekFor, Claimed
<1>6. QED
  BY <1>1, <1>2, <1>3, <1>4, <1>5 DEF OperatorNext

\* The operator's variables keep their types: in particular no week is ever charged
\* beyond its limit.
THEOREM OperatorTypes == OperatorSpec => []OperatorTypeOK
BY InvInitially, InvStep, PTL DEF OperatorSpec, Inv

\* A week is charged for exactly the posts the operator put into it, and a candidate says
\* SCHEDULED if and only if its post was made.
THEOREM Charged == OperatorSpec => []ChargedAsScheduled
BY InvInitially, InvStep, PTL DEF OperatorSpec, Inv

-----------------------------------------------------------------------------
(* The kill switch *)

\* What PauseDisarms says of a step that leaves the operator paused.
Disarmed ==
  /\ Armed' \subseteq Armed
  /\ \A c \in Cycle : post[c].status = "NONE" /\ post'[c].status # "NONE" => c \in Armed

\* A step that arms no cycle because it moves none and hands no lease out.
LEMMA StillArmed ==
  ASSUME UNCHANGED <<cycle, post>>, leaseLive' => leaseLive /\ lease' = lease
  PROVE  Disarmed
BY DEF Disarmed, Armed

\* A step of c that arms no other cycle, and c only if it was armed.
LEMMA StepArms ==
  ASSUME NEW c \in Cycle,
         \A b \in Cycle : b # c => cycle'[b] = cycle[b],
         \A b \in Cycle : b # c /\ lease' = b /\ leaseLive' => lease = b /\ leaseLive,
         \/ c \in Armed
         \/ cycle'[c].at \notin {"fenced", "read", "selected", "cleared"},
         \A b \in Cycle : post[b].status = "NONE" /\ post'[b].status # "NONE" => b \in Armed
  PROVE  Disarmed
BY DEF Disarmed, Armed

LEMMA CycleStepsDisarm ==
  ASSUME OperatorTypeOK, NEW c \in Cycle, CycleStep(c), level = "PAUSED", level' = "PAUSED"
  PROVE  Disarmed
<1> USE DEF switchVars, leaseVars
<1>1. CASE EnqueueCycle(c) \/ (JobStalls(c) /\ UNCHANGED cycle)
  BY <1>1, StillArmed DEF EnqueueCycle, JobStalls
<1>2. CASE ClaimAccountLease(c)
  <2>1. Go(c, "claimed") \/ Go(c, "done")
    BY <1>2 DEF ClaimAccountLease
  <2>2. /\ cycle'[c].at \in {"claimed", "done"}
        /\ \A b \in Cycle : b # c => cycle'[b] = cycle[b]
    BY <2>1, Goes DEF Step
  <2>3. post' = post /\ \A b \in Cycle : b # c /\ lease' = b /\ leaseLive' => lease = b /\ leaseLive
    BY <1>2 DEF ClaimAccountLease
  <2>4. QED
    BY <2>2, <2>3, StepArms
<1>3. CASE CreateRun(c)
  <2>1. /\ cycle'[c].at = "started"
        /\ \A b \in Cycle : b # c => cycle'[b] = cycle[b]
    BY <1>3, Goes DEF CreateRun, Step
  <2>2. UNCHANGED <<post, lease, leaseLive>>
    BY <1>3 DEF CreateRun
  <2>3. QED
    BY <2>1, <2>2, StepArms
<1>4. CASE VerifyKillSwitch(c)
  <2>1. EndRun(c, "HALTED_KILL_SWITCH") /\ UNCHANGED <<post, lease, leaseLive>>
    BY <1>4 DEF VerifyKillSwitch
  <2>2. /\ cycle'[c].at = "release"
        /\ \A b \in Cycle : b # c => cycle'[b] = cycle[b]
    BY <2>1, Ends, Goes DEF Step
  <2>3. QED
    BY <2>1, <2>2, StepArms
<1>5. ASSUME NEW s \in Slot \cup {Later}, SelectDraft(c, s)
      PROVE  Disarmed
  <2>1. PICK d \in Draft :
          cycle' = [cycle EXCEPT ![c].at = "selected", ![c].draft = d, ![c].slot = s]
    BY <1>5 DEF SelectDraft
  <2>2. /\ cycle'[c].at = "selected" /\ cycle[c].at = "read"
        /\ \A b \in Cycle : b # c => cycle'[b] = cycle[b]
    BY <1>5, <2>1, Picks DEF SelectDraft
  <2>3. UNCHANGED <<post, lease, leaseLive>>
    BY <1>5 DEF SelectDraft
  <2>4. QED
    BY <2>2, <2>3 DEF Disarmed, Armed
<1>6. CASE NoDraft(c) \/ AuditPasses(c) \/ AuditBlocks(c) \/ CompleteRun(c)
  <2>1. /\ \/ EndRun(c, "COMPLETED")
           \/ Go(c, "cleared") /\ cycle[c].at = "selected"
        /\ UNCHANGED <<post, lease, leaseLive>>
    BY <1>6 DEF NoDraft, AuditPasses, AuditBlocks, CompleteRun
  <2>2. /\ cycle'[c].at \in {"cleared", "release"}
        /\ cycle'[c].at = "cleared" => cycle[c].at = "selected"
        /\ \A b \in Cycle : b # c => cycle'[b] = cycle[b]
    BY <2>1, Ends, Goes DEF Step
  <2>3. QED
    BY <2>1, <2>2 DEF Disarmed, Armed
<1>7. CASE ReserveQuota(c)
  <2>1. /\ \/ EndRun(c, "FAILED")
           \/ Go(c, "fenced") /\ cycle[c].at = "cleared" /\ lease = c /\ leaseLive
        /\ UNCHANGED <<post, lease, leaseLive>>
    BY <1>7 DEF ReserveQuota
  <2>2. /\ cycle'[c].at \in {"fenced", "release"}
        /\ cycle'[c].at = "fenced" => c \in Armed
        /\ \A b \in Cycle : b # c => cycle'[b] = cycle[b]
    BY <2>1, Ends, Goes DEF Step, Armed
  <2>3. QED
    BY <2>1, <2>2, StepArms
<1>8. CASE CommitSchedule(c)
  <2>1. /\ EndRun(c, "FAILED") \/ Go(c, "scheduled")
        /\ UNCHANGED <<lease, leaseLive>>
        /\ c \in Armed
    BY <1>8 DEF CommitSchedule, Armed
  <2>2. \A b \in Cycle : b # c => cycle'[b] = cycle[b] /\ post'[b] = post[b]
    <3>1. \A b \in Cycle : b # c => cycle'[b] = cycle[b]
      BY <2>1, Ends, Goes DEF Step
    <3>2. \A b \in Cycle : b # c => post'[b] = post[b]
      BY <1>8 DEF CommitSchedule, OperatorTypeOK, Poster
    <3>3. QED
      BY <3>1, <3>2
  <2>3. QED
    BY <2>1, <2>2, StepArms
<1>9. CASE ReleaseAccountLease(c)
  <2>1. /\ cycle'[c].at = "done"
        /\ \A b \in Cycle : b # c => cycle'[b] = cycle[b]
    BY <1>9, Goes DEF ReleaseAccountLease, Step
  <2>2. post' = post /\ \A b \in Cycle : b # c /\ lease' = b /\ leaseLive' => lease = b /\ leaseLive
    BY <1>9, OperatorAssumption DEF ReleaseAccountLease
  <2>3. QED
    BY <2>1, <2>2, StepArms
<1>10. CASE CycleError(c) \/ CycleCrash(c) \/ (JobStalls(c) /\ Go(c, "done"))
  <2>1. /\ EndRun(c, "FAILED") \/ Go(c, "done")
        /\ UNCHANGED <<post, lease, leaseLive>>
    BY <1>10 DEF CycleError, CycleCrash, JobStalls
  <2>2. /\ cycle'[c].at \in {"release", "done"}
        /\ \A b \in Cycle : b # c => cycle'[b] = cycle[b]
    BY <2>1, Ends, Goes DEF Step
  <2>3. QED
    BY <2>1, <2>2, StepArms
<1>11. QED
  BY <1>1, <1>2, <1>3, <1>4, <1>5, <1>6, <1>7, <1>8, <1>9, <1>10 DEF CycleStep, JobStalls

LEMMA StepsDisarm ==
  ASSUME OperatorTypeOK, OperatorNext, level = "PAUSED", level' = "PAUSED"
  PROVE  Disarmed
<1> USE DEF switchVars, leaseVars
<1>1. CASE \E c \in Cycle : CycleStep(c)
  BY <1>1, CycleStepsDisarm
<1>2. CASE \/ LeaseEnds \/ QuarterPasses \/ GenerationEnds \/ ClearLease \/ SetPaused
           \/ \E l \in Level : SetLevel(l)
  <2>1. UNCHANGED <<cycle, post>>
    BY <1>2 DEF LeaseEnds, QuarterPasses, GenerationEnds, ClearLease, SetPaused, SetLevel
  <2>2. leaseLive' => leaseLive /\ lease' = lease
    BY <1>2 DEF LeaseEnds, QuarterPasses, GenerationEnds, ClearLease, SetPaused, SetLevel
  <2>3. QED
    BY <2>1, <2>2, StillArmed
<1>3. ASSUME NEW h \in Human, NEW d \in Draft, NEW s \in Slot \cup {Later},
             HumanSchedules(h, d, s)
      PROVE  Disarmed
  <2>1. \A b \in Cycle : post'[b] = post[b]
    BY <1>3, OperatorAssumption DEF HumanSchedules, OperatorTypeOK, Poster
  <2>2. UNCHANGED <<cycle, lease, leaseLive>>
    BY <1>3 DEF HumanSchedules
  <2>3. QED
    BY <2>1, <2>2 DEF Disarmed, Armed
<1>4. ASSUME NEW p \in Poster, NEW status \in PostStatus, PostMoves(p, status)
      PROVE  Disarmed
  <2>1. post[p].status # "NONE" /\ \A q \in Poster : q # p => post'[q] = post[q]
    BY <1>4, PostMoved DEF PostMoves
  <2>2. UNCHANGED <<cycle, lease, leaseLive>>
    BY <1>4 DEF PostMoves
  <2>3. QED
    BY <2>1, <2>2 DEF Disarmed, Armed, Poster
<1>5. QED
  BY <1>1, <1>2, <1>3, <1>4 DEF OperatorNext

\* Only the pause request's first statement sets pausing, and it clears the lease.
LEMMA PauseClears ==
  ASSUME OperatorTypeOK, OperatorNext, ~pausing, pausing'
  PROVE  \A c \in Armed' : cycle[c].at = "fenced"
<1> USE DEF switchVars, leaseVars
<1>1. ClearLease
  <2>1. ASSUME NEW c \in Cycle, CycleStep(c)
        PROVE  pausing' = pausing
    BY <2>1 DEF CycleStep, EnqueueCycle, ClaimAccountLease, CreateRun, VerifyKillSwitch,
                SelectDraft, NoDraft, AuditPasses, AuditBlocks, ReserveQuota, CommitSchedule,
                CompleteRun, ReleaseAccountLease, CycleError, CycleCrash, JobStalls
  <2>2. QED
    BY <2>1 DEF OperatorNext, LeaseEnds, QuarterPasses, GenerationEnds, SetPaused, SetLevel,
                HumanSchedules, PostMoves
<1>2. cycle' = cycle /\ leaseLive' = FALSE
  BY <1>1 DEF ClearLease
<1>3. QED
  BY <1>2 DEF Armed

\* A pause disarms every cycle that is not past its lease check, and a paused operator
\* arms no cycle and schedules for none but those that were armed.
THEOREM Pause == OperatorSpec => PauseDisarms
<1>1. Inv /\ [OperatorNext]_operatorVars =>
        [ /\ (~pausing /\ pausing') => \A c \in Armed' : cycle[c].at = "fenced"
          /\ (level = "PAUSED" /\ level' = "PAUSED") =>
                /\ Armed' \subseteq Armed
                /\ \A c \in Cycle : post[c].status = "NONE" /\ post'[c].status # "NONE"
                                    => c \in Armed ]_operatorVars
  BY StepsDisarm, PauseClears DEF Inv, Disarmed
<1>2. QED
  BY <1>1, InvInitially, InvStep, PTL DEF OperatorSpec, PauseDisarms

-----------------------------------------------------------------------------
(* Rules: what its steps rely on *)

\* A runner that acts, or failed to, works on an execution that was let through.
ChargeInv ==
  /\ ChargedPerExecution
  /\ \A w \in Runner : runner[w].at \in {"acting", "failing"} =>
       log[runner[w].exec].status \notin {"NONE", "SKIPPED_BUDGET"}

\* What a runner has behind it has its row or was passed over.
Settled == done \cup passed

OrderInv ==
  /\ ActionsInOrder
  /\ \A w \in Runner : runner[w].at \in {"matched", "acting", "failing"} =>
       \A j \in 1..Count : j < runner[w].next => <<runner[w].exec, j>> \in Settled

\* Only what was filed is reviewed and applied, and it is filed from a profile.
VersionInv ==
  /\ AppliedFromItsVersion
  /\ \A a \in Action : proposal[a].status = "NONE" => ~proposal[a].applied
  /\ \A a \in Action : proposal[a].status # "NONE" => proposal[a].source > 0
  /\ \A q \in Review : review[q][1] = "read" => proposal[Filed(q)].status # "NONE"

-----------------------------------------------------------------------------
(* Types *)

LEMMA Records ==
  /\ \A w \in Runner : Claim(w) \in Log
  /\ \A s \in LogStatus : LogEnded(s) \in Log
  /\ NoProposal \in Proposal /\ Unstarted \in Attempt
BY DEF Claim, Log, LogEnded, LogStatus, NoProposal, Proposal, Unstarted, Attempt

LEMMA LogEnds == \A l \in Log : [l EXCEPT !.live = FALSE] \in Log
BY DEF Log

\* Moving and advancing a runner touch nothing else of it.
LEMMA Moves ==
  ASSUME RulesTypeOK, NEW w \in Runner,
         NEW at \in {"idle", "matched", "acting", "failing", "over"}, Move(w, at)
  PROVE  /\ runner' \in [Runner -> Attempt]
         /\ runner'[w].at = at /\ runner'[w].exec = runner[w].exec /\ runner'[w].next = runner[w].next
         /\ \A v \in Runner : v # w => runner'[v] = runner[v]
<1>1. runner \in [Runner -> Attempt] /\ runner[w] \in Attempt
  BY DEF RulesTypeOK
<1>2. [runner[w] EXCEPT !.at = at] \in Attempt
  BY <1>1 DEF Attempt
<1>3. runner' = [runner EXCEPT ![w] = [runner[w] EXCEPT !.at = at]]
  BY DEF Move
<1>4. QED
  BY <1>1, <1>2, <1>3 DEF Attempt

LEMMA Advances ==
  ASSUME RulesTypeOK, NEW w \in Runner, Advance(w)
  PROVE  /\ runner' \in [Runner -> Attempt]
         /\ runner'[w].at = runner[w].at /\ runner'[w].exec = runner[w].exec
         /\ runner'[w].next = runner[w].next + 1
         /\ \A v \in Runner : v # w => runner'[v] = runner[v]
<1>1. runner \in [Runner -> Attempt] /\ runner[w] \in Attempt
  BY DEF RulesTypeOK
<1>2. [runner[w] EXCEPT !.next = runner[w].next + 1] \in Attempt
  BY <1>1 DEF Attempt
<1>3. runner' = [runner EXCEPT ![w] = [runner[w] EXCEPT !.next = runner[w].next + 1]]
  BY DEF Advance
<1>4. QED
  BY <1>1, <1>2, <1>3 DEF Attempt

LEMMA TypesInitially == RulesInit => RulesTypeOK
BY Records, RulesAssumption DEF RulesInit, RulesTypeOK, LogStatus, Unstarted

LEMMA TypesOfRunner ==
  ASSUME RulesTypeOK, NEW w \in Runner, RunnerStep(w)
  PROVE  RulesTypeOK'
<1> USE RulesAssumption DEF proposalVars
<1>0. /\ runner \in [Runner -> Attempt] /\ log \in [Execution -> Log]
      /\ \A s \in LogStatus : LogEnded(s) \in Log
      /\ Claim(w) \in Log /\ "SKIPPED_BUDGET" \in LogStatus /\ "FAILED" \in LogStatus
      /\ "EXECUTED" \in LogStatus
  BY Records DEF RulesTypeOK, LogStatus
<1>1. ASSUME NEW k \in Trigger, StartTrigger(w, k)
      PROVE  RulesTypeOK'
  <2>1. <<today, k>> \in Execution
    BY DEF RulesTypeOK, Execution
  <2>2. [at |-> "matched", exec |-> <<today, k>>, next |-> 1] \in Attempt
    BY <2>1 DEF Attempt
  <2>3. QED
    BY <1>1, <2>1, <2>2 DEF StartTrigger, RulesTypeOK
<1>2. CASE ClaimNew(w)
  <2>1. runner[w].exec \in Execution /\ runner[w].exec[1] \in 1..Days
    BY <1>2 DEF ClaimNew, RulesTypeOK, Execution
  <2>2. log' \in [Execution -> Log]
    BY <1>0, <1>2, <2>1 DEF ClaimNew
  <2>3. budget' \in [1..Days -> Nat]
    <3>1. PICK d \in 1..Days : d = runner[w].exec[1]
      BY <2>1
    <3>2. budget' = [budget EXCEPT ![d] = budget[d] + 1] \/ budget' = budget
      BY <1>2, <3>1 DEF ClaimNew
    <3>3. budget \in [1..Days -> Nat] /\ budget[d] + 1 \in Nat
      BY DEF RulesTypeOK
    <3>4. QED
      BY <3>2, <3>3
  <2>4. Move(w, "acting") \/ Move(w, "over")
    BY <1>2 DEF ClaimNew
  <2>5. QED
    BY <1>2, <2>1, <2>2, <2>3, <2>4, Moves DEF ClaimNew, RulesTypeOK
<1>3. CASE Reclaim(w)
  <2>1. log' \in [Execution -> Log]
    BY <1>0, <1>3 DEF Reclaim, RulesTypeOK
  <2>2. QED
    BY <1>3, <2>1, Moves DEF Reclaim, RulesTypeOK
<1>4. CASE NotClaimed(w) \/ AutoScheduleFails(w) \/ ActionError(w) \/ RunnerCrash(w)
  <2>1. /\ Move(w, "over") \/ Move(w, "failing")
        /\ runner[w].at \in {"matched", "acting", "failing"}
    BY <1>4 DEF NotClaimed, AutoScheduleFails, ActionError, RunnerCrash, Acting
  <2>2. /\ runner' \in [Runner -> Attempt]
        /\ \A v \in Runner : runner'[v].at \in {"matched", "acting", "failing"}
                             => runner'[v].exec \in Execution
    BY <2>1, Moves DEF RulesTypeOK
  <2>3. mishaps' \in 0..MaxMishaps
    BY <1>4 DEF NotClaimed, AutoScheduleFails, ActionError, RunnerCrash, SpendMishap, RulesTypeOK
  <2>4. UNCHANGED <<today, log, budget, done, passed, proposalVars>>
    BY <1>4 DEF NotClaimed, AutoScheduleFails, ActionError, RunnerCrash
  <2>5. QED
    BY <2>2, <2>3, <2>4 DEF RulesTypeOK
<1>5. CASE SkipDone(w)
  BY <1>5, Advances DEF SkipDone, RulesTypeOK
<1>6. CASE Act(w)
  <2>1. runner[w].exec \in Execution /\ runner[w].next \in 1..Count
    BY <1>0, <1>6 DEF Act, Acting, RulesTypeOK, Attempt
  <2>2. Key(w) \in Action
    BY <2>1 DEF Key, Action
  <2>3. [status |-> "PENDING_REVIEW", source |-> version, applied |-> FALSE] \in Proposal
    BY DEF Proposal, RulesTypeOK
  <2>4. proposal' \in [Action -> Proposal] /\ done' \subseteq Action
    BY <1>6, <2>2, <2>3 DEF Act, RulesTypeOK
  <2>5. QED
    BY <1>6, <2>4, Advances DEF Act, RulesTypeOK
<1>7. CASE MarkFailed(w)
  <2>1. log' \in [Execution -> Log]
    BY <1>0, <1>7 DEF MarkFailed
  <2>2. QED
    BY <1>7, <2>1, Moves DEF MarkFailed, RulesTypeOK
<1>8. CASE MarkExecuted(w)
  <2>1. log' \in [Execution -> Log]
    BY <1>0, <1>8 DEF MarkExecuted
  <2>2. QED
    BY <1>8, <2>1, Moves DEF MarkExecuted, RulesTypeOK
<1>9. CASE ErrorPassedOver(w)
  <2>1. runner[w].exec \in Execution /\ runner[w].next \in 1..Count
    BY <1>0, <1>9 DEF ErrorPassedOver, Acting, RulesTypeOK, Attempt
  <2>2. Key(w) \in Action
    BY <2>1 DEF Key, Action
  <2>3. QED
    BY <1>9, <2>2, Advances DEF ErrorPassedOver, RulesTypeOK
<1>10. QED
  BY <1>1, <1>2, <1>3, <1>4, <1>5, <1>6, <1>7, <1>8, <1>9 DEF RunnerStep

LEMMA TypesOfReview ==
  ASSUME RulesTypeOK, NEW q \in Review,
         Apply(q) \/ Reject(q) \/ \E a \in Action : ReadProposal(q, a)
  PROVE  RulesTypeOK'
<1> USE RulesAssumption DEF ruleVars
<1>1. ASSUME NEW a \in Action, ReadProposal(q, a)
      PROVE  RulesTypeOK'
  BY <1>1 DEF ReadProposal, RulesTypeOK
<1>2. ASSUME review[q][1] = "read"
      PROVE  Filed(q) \in Action /\ proposal[Filed(q)] \in Proposal
  <2>1. review[q] \in {<<"idle">>, <<"over">>} \cup ({"read"} \X Action)
    BY DEF RulesTypeOK
  <2>2. QED
    BY <1>2, <2>1 DEF Filed, RulesTypeOK
<1>3. CASE Apply(q)
  <2>1. Filed(q) \in Action /\ proposal[Filed(q)] \in Proposal
    BY <1>2, <1>3 DEF Apply
  <2> DEFINE applied == [proposal[Filed(q)] EXCEPT !.status = "APPLIED", !.applied = TRUE]
  <2>2. applied \in Proposal
    BY <2>1 DEF Proposal
  <2>3. proposal' = [proposal EXCEPT ![Filed(q)] = applied] \/ proposal' = proposal
    BY <1>3 DEF Apply
  <2>4. proposal' \in [Action -> Proposal]
    BY <2>1, <2>2, <2>3 DEF RulesTypeOK
  <2>5. version' \in Nat
    BY <1>3 DEF Apply, RulesTypeOK
  <2>6. review' \in [Review -> {<<"idle">>, <<"over">>} \cup ({"read"} \X Action)]
    BY <1>3 DEF Apply, RulesTypeOK
  <2>7. QED
    BY <1>3, <2>4, <2>5, <2>6 DEF Apply, RulesTypeOK
<1>4. CASE Reject(q)
  <2>1. proposal' \in [Action -> Proposal]
    BY <1>2, <1>4 DEF Reject, RulesTypeOK, Proposal
  <2>2. review' \in [Review -> {<<"idle">>, <<"over">>} \cup ({"read"} \X Action)]
    BY <1>4 DEF Reject, RulesTypeOK
  <2>3. QED
    BY <1>4, <2>1, <2>2 DEF Reject, RulesTypeOK
<1>5. QED
  BY <1>1, <1>3, <1>4

LEMMA TypesOfRest ==
  ASSUME RulesTypeOK, CreateProfile \/ NextDay \/ \E e \in Execution : RuleLeaseEnds(e)
  PROVE  RulesTypeOK'
<1> USE RulesAssumption DEF ruleVars, proposalVars
<1>1. CASE CreateProfile
  BY <1>1 DEF CreateProfile, RulesTypeOK
<1>2. CASE NextDay
  BY <1>2 DEF NextDay, RulesTypeOK
<1>3. ASSUME NEW e \in Execution, RuleLeaseEnds(e)
      PROVE  RulesTypeOK'
  <2>1. log' \in [Execution -> Log]
    BY <1>3, LogEnds DEF RuleLeaseEnds, RulesTypeOK
  <2>2. QED
    BY <1>3, <2>1 DEF RuleLeaseEnds, RulesTypeOK
<1>4. QED
  BY <1>1, <1>2, <1>3

LEMMA TypesStep == RulesTypeOK /\ [RulesNext]_rulesVars => RulesTypeOK'
<1> SUFFICES ASSUME RulesTypeOK, [RulesNext]_rulesVars PROVE RulesTypeOK'
  OBVIOUS
<1>1. CASE UNCHANGED rulesVars
  BY <1>1 DEF RulesTypeOK, rulesVars, ruleVars, proposalVars
<1>2. QED
  BY <1>1, TypesOfRunner, TypesOfReview, TypesOfRest DEF RulesNext

\* The rule's execution logs, budgets, action rows, proposals and profile version keep
\* their types, and a runner at work has an execution.
THEOREM RulesTypes == RulesSpec => []RulesTypeOK
BY TypesInitially, TypesStep, PTL DEF RulesSpec

-----------------------------------------------------------------------------
(* The daily budget *)

LetThrough(e) == log[e].status \notin {"NONE", "SKIPPED_BUDGET"}
LetRun(d) == {k \in Trigger : LetThrough(<<d, k>>)}

LEMMA BudgetSame ==
  ASSUME RulesTypeOK, ChargedPerExecution, budget' = budget,
         \A e \in Execution : LetThrough(e)' <=> LetThrough(e)
  PROVE  ChargedPerExecution'
<1>1. \A d \in 1..Days : LetRun(d)' = LetRun(d)
  BY DEF LetRun, Execution
<1>2. QED
  BY <1>1 DEF ChargedPerExecution, LetRun, LetThrough

\* A new execution adds one trigger and one charge.
LEMMA BudgetClaimed ==
  ASSUME RulesTypeOK, ChargeInv, NEW w \in Runner, ClaimNew(w)
  PROVE  ChargeInv'
<1>0. PICK d \in 1..Days, k \in Trigger : runner[w].exec = <<d, k>>
  BY DEF ClaimNew, RulesTypeOK, Execution
<1>1. <<d, k>> \in Execution /\ ~LetThrough(<<d, k>>) /\ log \in [Execution -> Log]
  BY <1>0 DEF Execution, ClaimNew, LetThrough, RulesTypeOK
<1>2. CASE budget[d] < MaxDaily
  <2>1. /\ log' = [log EXCEPT ![<<d, k>>] = Claim(w)] /\ Move(w, "acting")
        /\ budget' = [budget EXCEPT ![d] = budget[d] + 1]
    BY <1>0, <1>2 DEF ClaimNew
  <2>2. LetThrough(<<d, k>>)' /\ \A e \in Execution : e # <<d, k>> => log'[e] = log[e]
    BY <1>1, <2>1 DEF LetThrough, Claim
  <2>3. LetRun(d)' = LetRun(d) \cup {k} /\ k \notin LetRun(d)
    BY <1>1, <2>2 DEF LetRun, LetThrough, Execution
  <2>4. \A c \in 1..Days : c # d => LetRun(c)' = LetRun(c)
    BY <1>1, <2>2 DEF LetRun, LetThrough, Execution
  <2>5. IsFiniteSet(LetRun(d))
    BY FS_Subset, RulesAssumption DEF LetRun
  <2>6. Cardinality(LetRun(d)') = Cardinality(LetRun(d)) + 1
    BY <2>3, <2>5, FS_AddElement
  <2>7. \A c \in 1..Days : budget[c] = Cardinality(LetRun(c)) /\ budget[c] <= MaxDaily
    BY DEF ChargeInv, ChargedPerExecution, LetRun, LetThrough
  <2>8. \A c \in 1..Days : budget'[c] = Cardinality(LetRun(c)') /\ budget'[c] <= MaxDaily
    BY <1>2, <2>1, <2>4, <2>6, <2>7, RulesAssumption DEF RulesTypeOK
  <2>9. ChargedPerExecution'
    BY <2>8 DEF ChargedPerExecution, LetRun, LetThrough
  <2>10. \A v \in Runner : runner'[v].at \in {"acting", "failing"} =>
                           log'[runner'[v].exec].status \notin {"NONE", "SKIPPED_BUDGET"}
    <3> SUFFICES ASSUME NEW v \in Runner, runner'[v].at \in {"acting", "failing"}
                 PROVE  log'[runner'[v].exec].status \notin {"NONE", "SKIPPED_BUDGET"}
      OBVIOUS
    <3>1. CASE v = w
      <4>1. runner'[v].exec = <<d, k>>
        BY <1>0, <2>1, <3>1, Moves
      <4>2. QED
        BY <2>2, <4>1 DEF LetThrough
    <3>2. CASE v # w
      <4>1. /\ runner'[v] = runner[v] /\ runner[v].exec \in Execution
            /\ LetThrough(runner[v].exec)
        BY <2>1, <3>2, Moves DEF ChargeInv, LetThrough, RulesTypeOK
      <4>2. QED
        BY <2>2, <4>1 DEF LetThrough
    <3>3. QED
      BY <3>1, <3>2
  <2>11. QED
    BY <2>9, <2>10 DEF ChargeInv, LetThrough
<1>3. CASE ~(budget[d] < MaxDaily)
  <2>1. /\ log' = [log EXCEPT ![<<d, k>>] = LogEnded("SKIPPED_BUDGET")] /\ Move(w, "over")
        /\ budget' = budget
    BY <1>0, <1>3 DEF ClaimNew
  <2>2. \A e \in Execution : LetThrough(e)' <=> LetThrough(e)
    BY <1>1, <2>1 DEF LetThrough, LogEnded
  <2>3. \A v \in Runner : runner'[v].at \in {"acting", "failing"} =>
          /\ runner'[v] = runner[v] /\ runner[v].exec \in Execution
          /\ LetThrough(runner[v].exec)
    BY <2>1, Moves DEF RulesTypeOK, ChargeInv, LetThrough
  <2>4. ChargedPerExecution'
    BY <2>1, <2>2, BudgetSame DEF ChargeInv
  <2>5. QED
    BY <2>2, <2>3, <2>4 DEF ChargeInv, LetThrough
<1>4. QED
  BY <1>2, <1>3

\* No other step lets an execution through or takes that back.
LEMMA BudgetKept ==
  ASSUME RulesTypeOK, RulesTypeOK', ChargeInv, budget' = budget,
         \A e \in Execution : LetThrough(e)' <=> LetThrough(e),
         \A v \in Runner : runner'[v].at \in {"acting", "failing"} =>
           runner'[v].exec \in Execution /\ LetThrough(runner'[v].exec)
  PROVE  ChargeInv'
BY BudgetSame DEF ChargeInv, LetThrough

LEMMA BudgetStep ==
  ASSUME RulesTypeOK, RulesTypeOK', ChargeInv, [RulesNext]_rulesVars
  PROVE  ChargeInv'
<1> USE DEF proposalVars, ruleVars
<1>0. \A v \in Runner : runner[v].at \in {"acting", "failing"} =>
        runner[v].exec \in Execution /\ LetThrough(runner[v].exec)
  BY DEF ChargeInv, LetThrough, RulesTypeOK
<1>1. ASSUME NEW w \in Runner, RunnerStep(w)
      PROVE  ChargeInv'
  <2>1. ASSUME NEW k \in Trigger, StartTrigger(w, k)
        PROVE  ChargeInv'
    <3>1. \A v \in Runner : runner'[v].at \in {"acting", "failing"} => runner'[v] = runner[v]
      BY <2>1 DEF StartTrigger, RulesTypeOK
    <3>2. QED
      BY <1>0, <2>1, <3>1, BudgetKept DEF StartTrigger, LetThrough
  <2>2. CASE ClaimNew(w)
    BY <2>2, BudgetClaimed
  <2>3. CASE Reclaim(w)
    <3>1. runner[w].exec \in Execution /\ LetThrough(runner[w].exec)
      BY <2>3 DEF Reclaim, CanReclaim, LetThrough, RulesTypeOK
    <3>2. \A e \in Execution : LetThrough(e)' <=> LetThrough(e)
      BY <2>3, <3>1 DEF Reclaim, Claim, LetThrough, RulesTypeOK
    <3>3. \A v \in Runner : runner'[v].at \in {"acting", "failing"} =>
            runner'[v].exec \in Execution /\ LetThrough(runner'[v].exec)
      BY <1>0, <2>3, <3>1, Moves DEF Reclaim
    <3>4. QED
      BY <2>3, <3>2, <3>3, BudgetKept DEF Reclaim
  <2>4. CASE NotClaimed(w) \/ AutoScheduleFails(w) \/ ActionError(w) \/ RunnerCrash(w)
    <3>1. Move(w, "over") \/ (Move(w, "failing") /\ runner[w].at = "acting")
      BY <2>4 DEF NotClaimed, AutoScheduleFails, ActionError, RunnerCrash, Acting
    <3>2. budget' = budget /\ log' = log
      BY <2>4 DEF NotClaimed, AutoScheduleFails, ActionError, RunnerCrash
    <3>3. \A v \in Runner : runner'[v].at \in {"acting", "failing"} =>
            runner'[v].exec \in Execution /\ LetThrough(runner'[v].exec)
      BY <1>0, <3>1, Moves
    <3>4. QED
      BY <3>2, <3>3, BudgetKept DEF LetThrough
  <2>5. CASE SkipDone(w) \/ Act(w) \/ ErrorPassedOver(w)
    <3>1. Advance(w) /\ budget' = budget /\ log' = log
      BY <2>5 DEF SkipDone, Act, ErrorPassedOver
    <3>2. \A v \in Runner : runner'[v].at \in {"acting", "failing"} =>
            runner'[v].exec \in Execution /\ LetThrough(runner'[v].exec)
      BY <1>0, <3>1, Advances
    <3>3. QED
      BY <3>1, <3>2, BudgetKept DEF LetThrough
  <2>6. CASE MarkFailed(w) \/ MarkExecuted(w)
    <3>1. /\ Move(w, "over") /\ budget' = budget
          /\ runner[w].exec \in Execution /\ LetThrough(runner[w].exec)
      BY <1>0, <2>6 DEF MarkFailed, MarkExecuted
    <3>2. \A e \in Execution : LetThrough(e)' <=> LetThrough(e)
      BY <2>6, <3>1 DEF MarkFailed, MarkExecuted, LogEnded, LetThrough, RulesTypeOK
    <3>3. \A v \in Runner : runner'[v].at \in {"acting", "failing"} =>
            runner'[v].exec \in Execution /\ LetThrough(runner'[v].exec)
      BY <1>0, <3>1, Moves
    <3>4. QED
      BY <3>1, <3>2, <3>3, BudgetKept
  <2>7. QED
    BY <1>1, <2>1, <2>2, <2>3, <2>4, <2>5, <2>6 DEF RunnerStep
<1>2. ASSUME NEW e \in Execution, RuleLeaseEnds(e)
      PROVE  ChargeInv'
  <2>1. \A f \in Execution : LetThrough(f)' <=> LetThrough(f)
    BY <1>2 DEF RuleLeaseEnds, LetThrough, RulesTypeOK
  <2>2. QED
    BY <1>0, <1>2, <2>1, BudgetKept DEF RuleLeaseEnds
<1>3. CASE UNCHANGED <<log, budget, runner>>
  BY <1>0, <1>3, BudgetKept DEF LetThrough
<1>4. QED
  BY <1>1, <1>2, <1>3 DEF RulesNext, Apply, Reject, ReadProposal, CreateProfile, NextDay, rulesVars

LEMMA BudgetInitially == RulesInit => ChargeInv
<1> SUFFICES ASSUME RulesInit PROVE ChargeInv
  OBVIOUS
<1>1. \A d \in 1..Days : LetRun(d) = {}
  BY DEF RulesInit, LetRun, LetThrough, LogEnded, Execution
<1>2. \A d \in 1..Days : budget[d] = Cardinality(LetRun(d)) /\ budget[d] <= MaxDaily
  <2>1. Cardinality({}) = 0
    BY FS_EmptySet
  <2>2. \A d \in 1..Days : Cardinality(LetRun(d)) = 0 /\ budget[d] = 0
    BY <1>1, <2>1 DEF RulesInit
  <2>3. QED
    BY <2>2, RulesAssumption
<1>3. \A w \in Runner : runner[w].at = "idle"
  BY DEF RulesInit, Unstarted
<1>4. QED
  BY <1>2, <1>3 DEF ChargeInv, ChargedPerExecution, LetRun, LetThrough

\* Every day is charged once for each execution let through, and within its limit, for
\* every number of triggers, runners, takeovers and errors.
THEOREM Budgets == RulesSpec => []ChargedPerExecution
<1>1. RulesInit => ChargeInv
  BY BudgetInitially
<1>2. RulesTypeOK /\ RulesTypeOK' /\ ChargeInv /\ [RulesNext]_rulesVars => ChargeInv'
  BY BudgetStep
<1>3. ChargeInv => ChargedPerExecution
  BY DEF ChargeInv
<1>4. QED
  BY <1>1, <1>2, <1>3, RulesTypes, PTL DEF RulesSpec

-----------------------------------------------------------------------------
(* The order of actions *)

LEMMA OrderInitially == RulesInit => OrderInv
<1> SUFFICES ASSUME RulesInit PROVE OrderInv
  OBVIOUS
<1>1. /\ done = {} /\ passed = {} /\ \A a \in Action : proposal[a].status = "NONE"
      /\ \A e \in Execution : log[e].status = "NONE"
      /\ \A w \in Runner : runner[w].at = "idle"
  BY DEF RulesInit, NoProposal, LogEnded, Unstarted
<1>2. QED
  BY <1>1 DEF OrderInv, ActionsInOrder

\* Where the rows, the proposals' existence and the finished logs stay, the runners decide.
LEMMA OrderKept ==
  ASSUME OrderInv, done' = done, passed' = passed,
         \A a \in Action : proposal'[a].status # "NONE" => proposal[a].status # "NONE",
         \A e \in Execution : log'[e].status = "EXECUTED" =>
           log[e].status = "EXECUTED" \/ \A i \in 1..Count : <<e, i>> \in Settled,
         \A v \in Runner : runner'[v].at \in {"matched", "acting", "failing"} =>
           \A j \in 1..Count : j < runner'[v].next => <<runner'[v].exec, j>> \in Settled
  PROVE  OrderInv'
BY DEF OrderInv, ActionsInOrder, Settled

\* An action gets its row, or is passed over, in its turn.
LEMMA OrderTurn ==
  ASSUME RulesTypeOK, OrderInv, NEW w \in Runner, Acting(w), Advance(w),
         done \subseteq done', Settled' = Settled \cup {Key(w)}, log' = log,
         done' \subseteq done \cup {Key(w)},
         \A a \in Action : proposal'[a].status # "NONE" =>
           proposal[a].status # "NONE" \/ a \in done'
  PROVE  OrderInv'
<1>1. PICK e \in Execution, n \in 1..Count :
        /\ e = runner[w].exec /\ n = runner[w].next /\ Key(w) = <<e, n>>
        /\ runner[w].at = "acting"
  BY DEF Acting, Key, RulesTypeOK, Attempt
<1>2. \A j \in 1..Count : j < n => <<e, j>> \in Settled
  BY <1>1 DEF OrderInv
<1>3. \A f \in Execution : \A i \in 1..Count :
        <<f, i>> \in done' => \A j \in 1..(i - 1) : <<f, j>> \in Settled'
  <2> SUFFICES ASSUME NEW f \in Execution, NEW i \in 1..Count, <<f, i>> \in done',
                      NEW j \in 1..(i - 1)
               PROVE  <<f, j>> \in Settled'
    OBVIOUS
  <2>1. CASE <<f, i>> \in done
    <3>1. <<f, j>> \in Settled
      BY <2>1 DEF OrderInv, ActionsInOrder, Settled
    <3>2. QED
      BY <3>1
  <2>2. CASE f = e /\ i = n
    <3>1. j \in 1..Count /\ j < n
      BY <2>2, RulesAssumption
    <3>2. QED
      BY <1>2, <2>2, <3>1
  <2>3. QED
    BY <1>1, <2>1, <2>2
<1>4. \A a \in Action : proposal'[a].status # "NONE" => a \in done'
  BY DEF OrderInv, ActionsInOrder
<1>5. \A f \in Execution : log'[f].status = "EXECUTED" => \A i \in 1..Count : <<f, i>> \in Settled'
  <2>1. \A f \in Execution : log[f].status = "EXECUTED" => \A i \in 1..Count : <<f, i>> \in Settled
    BY DEF OrderInv, ActionsInOrder, Settled
  <2>2. QED
    BY <2>1
<1>6. \A v \in Runner : runner'[v].at \in {"matched", "acting", "failing"} =>
        \A j \in 1..Count : j < runner'[v].next => <<runner'[v].exec, j>> \in Settled'
  <2> SUFFICES ASSUME NEW v \in Runner, runner'[v].at \in {"matched", "acting", "failing"},
                      NEW j \in 1..Count, j < runner'[v].next
               PROVE  <<runner'[v].exec, j>> \in Settled'
    OBVIOUS
  <2>1. CASE v # w
    <3>1. runner'[v] = runner[v]
      BY <2>1, Advances
    <3>2. QED
      BY <3>1 DEF OrderInv
  <2>2. CASE v = w
    <3>1. runner'[v].exec = e /\ runner'[v].next = n + 1
      BY <1>1, <2>2, Advances
    <3>2. j < n \/ j = n
      BY <3>1, RulesAssumption
    <3>3. QED
      BY <1>1, <1>2, <3>1, <3>2
  <2>3. QED
    BY <2>1, <2>2
<1>7. QED
  BY <1>3, <1>4, <1>5, <1>6 DEF OrderInv, ActionsInOrder, Settled

LEMMA OrderActs ==
  ASSUME RulesTypeOK, OrderInv, NEW w \in Runner, Act(w) \/ ErrorPassedOver(w)
  PROVE  OrderInv'
<1>1. Acting(w) /\ Advance(w) /\ log' = log
  BY DEF Act, ErrorPassedOver
<1>2. /\ done \subseteq done' /\ done' \subseteq done \cup {Key(w)}
      /\ Settled' = Settled \cup {Key(w)}
  BY DEF Act, ErrorPassedOver, Settled
<1>3. Key(w) \in Action
  BY <1>1 DEF Acting, Key, Action, RulesTypeOK, Attempt
<1>4. \A a \in Action : proposal'[a].status # "NONE" => proposal[a].status # "NONE" \/ a \in done'
  <2>1. CASE Act(w)
    <3>1. \A a \in Action : a # Key(w) => proposal'[a] = proposal[a]
      BY <1>3, <2>1 DEF Act, RulesTypeOK
    <3>2. Key(w) \in done'
      BY <2>1 DEF Act
    <3>3. QED
      BY <3>1, <3>2
  <2>2. CASE ErrorPassedOver(w)
    BY <2>2 DEF ErrorPassedOver, proposalVars
  <2>3. QED
    BY <2>1, <2>2
<1>5. QED
  BY <1>1, <1>2, <1>4, OrderTurn

LEMMA OrderStep ==
  ASSUME RulesTypeOK, OrderInv, VersionInv, [RulesNext]_rulesVars
  PROVE  OrderInv'
<1> USE DEF proposalVars, ruleVars
<1>0. \A v \in Runner : runner[v].at \in {"matched", "acting", "failing"} =>
        \A j \in 1..Count : j < runner[v].next => <<runner[v].exec, j>> \in Settled
  BY DEF OrderInv
<1>1. ASSUME NEW w \in Runner, RunnerStep(w)
      PROVE  OrderInv'
  <2>1. ASSUME NEW k \in Trigger, StartTrigger(w, k)
        PROVE  OrderInv'
    <3>1. \A v \in Runner : v # w => runner'[v] = runner[v]
      BY <2>1 DEF StartTrigger, RulesTypeOK
    <3>2. runner'[w].next = 1
      BY <2>1 DEF StartTrigger, RulesTypeOK
    <3>3. \A v \in Runner : runner'[v].at \in {"matched", "acting", "failing"} =>
            \A j \in 1..Count : j < runner'[v].next => <<runner'[v].exec, j>> \in Settled
      BY <1>0, <3>1, <3>2
    <3>4. QED
      BY <2>1, <3>3, OrderKept DEF StartTrigger
  <2>2. CASE ClaimNew(w) \/ Reclaim(w) \/ NotClaimed(w) \/ AutoScheduleFails(w)
             \/ MarkFailed(w) \/ ActionError(w) \/ RunnerCrash(w)
    <3>1. /\ runner[w].at \in {"matched", "acting", "failing"}
          /\ Move(w, "acting") \/ Move(w, "over") \/ Move(w, "failing")
      BY <2>2 DEF ClaimNew, Reclaim, NotClaimed, AutoScheduleFails, MarkFailed, ActionError,
                  RunnerCrash, Acting
    <3>2. \A v \in Runner : runner'[v].at \in {"matched", "acting", "failing"} =>
            \A j \in 1..Count : j < runner'[v].next => <<runner'[v].exec, j>> \in Settled
      BY <1>0, <3>1, Moves
    <3>3. \A e \in Execution : log'[e].status = "EXECUTED" => log[e].status = "EXECUTED"
      BY <2>2 DEF ClaimNew, Reclaim, NotClaimed, AutoScheduleFails, MarkFailed, ActionError,
                  RunnerCrash, Claim, LogEnded, RulesTypeOK
    <3>4. done' = done /\ passed' = passed /\ proposal' = proposal
      BY <2>2 DEF ClaimNew, Reclaim, NotClaimed, AutoScheduleFails, MarkFailed, ActionError,
                  RunnerCrash
    <3>5. QED
      BY <3>2, <3>3, <3>4, OrderKept
  <2>3. CASE SkipDone(w)
    <3>1. /\ Advance(w) /\ Key(w) \in done /\ runner[w].at = "acting"
          /\ done' = done /\ passed' = passed /\ proposal' = proposal /\ log' = log
          /\ runner[w].next \in Nat
      BY <2>3 DEF SkipDone, Acting, RulesTypeOK, Attempt
    <3>2. \A v \in Runner : runner'[v].at \in {"matched", "acting", "failing"} =>
            \A j \in 1..Count : j < runner'[v].next => <<runner'[v].exec, j>> \in Settled
      <4> SUFFICES ASSUME NEW v \in Runner, runner'[v].at \in {"matched", "acting", "failing"},
                          NEW j \in 1..Count, j < runner'[v].next
                   PROVE  <<runner'[v].exec, j>> \in Settled
        OBVIOUS
      <4>1. CASE v # w
        BY <1>0, <3>1, <4>1, Advances
      <4>2. CASE v = w
        <5>1. runner'[v].exec = runner[w].exec /\ runner'[v].next = runner[w].next + 1
          BY <3>1, <4>2, Advances
        <5>2. j < runner[w].next \/ j = runner[w].next
          BY <3>1, <5>1, RulesAssumption
        <5>3. QED
          BY <1>0, <3>1, <5>1, <5>2 DEF Key, Settled
      <4>3. QED
        BY <4>1, <4>2
    <3>3. QED
      BY <3>1, <3>2, OrderKept
  <2>4. CASE Act(w) \/ ErrorPassedOver(w)
    BY <2>4, OrderActs
  <2>5. CASE MarkExecuted(w)
    <3>1. /\ Move(w, "over") /\ done' = done /\ passed' = passed /\ proposal' = proposal
          /\ runner[w].next \in Nat /\ runner[w].next > Count /\ runner[w].at = "acting"
      BY <2>5 DEF MarkExecuted, RulesTypeOK, Attempt
    <3>2. \A j \in 1..Count : <<runner[w].exec, j>> \in Settled
      BY <1>0, <3>1, RulesAssumption
    <3>3. \A e \in Execution : log'[e].status = "EXECUTED" =>
            log[e].status = "EXECUTED" \/ \A i \in 1..Count : <<e, i>> \in Settled
      BY <2>5, <3>2 DEF MarkExecuted, RulesTypeOK
    <3>4. \A v \in Runner : runner'[v].at \in {"matched", "acting", "failing"} =>
            \A j \in 1..Count : j < runner'[v].next => <<runner'[v].exec, j>> \in Settled
      BY <1>0, <3>1, Moves
    <3>5. QED
      BY <3>1, <3>3, <3>4, OrderKept
  <2>6. QED
    BY <1>1, <2>1, <2>2, <2>3, <2>4, <2>5 DEF RunnerStep
<1>2. ASSUME NEW e \in Execution, RuleLeaseEnds(e)
      PROVE  OrderInv'
  <2>1. \A f \in Execution : log'[f].status = log[f].status
    BY <1>2 DEF RuleLeaseEnds, RulesTypeOK
  <2>2. QED
    BY <1>0, <1>2, <2>1, OrderKept DEF RuleLeaseEnds
<1>3. ASSUME NEW q \in Review, Apply(q) \/ Reject(q)
      PROVE  OrderInv'
  <2>1. Filed(q) \in Action /\ proposal[Filed(q)].status # "NONE"
    <3>1. review[q] \in {<<"idle">>, <<"over">>} \cup ({"read"} \X Action) /\ review[q][1] = "read"
      BY <1>3 DEF Apply, Reject, RulesTypeOK
    <3>2. QED
      BY <3>1 DEF Filed, VersionInv
  <2>2. \A a \in Action : a # Filed(q) => proposal'[a] = proposal[a]
    BY <1>3, <2>1 DEF Apply, Reject, RulesTypeOK
  <2>3. UNCHANGED <<done, passed, log, runner>>
    BY <1>3 DEF Apply, Reject
  <2>4. QED
    BY <1>0, <2>1, <2>2, <2>3, OrderKept
<1>4. CASE UNCHANGED <<log, done, passed, proposal, runner>>
  BY <1>0, <1>4, OrderKept
<1>5. QED
  BY <1>1, <1>2, <1>3, <1>4 DEF RulesNext, ReadProposal, CreateProfile, NextDay, rulesVars

-----------------------------------------------------------------------------
(* Proposals *)

AppliedOnes == {a \in Action : proposal[a].applied}

LEMMA AppliedFinite == IsFiniteSet(AppliedOnes)
<1>1. IsFiniteSet(1..Days) /\ IsFiniteSet(1..Count) /\ IsFiniteSet(Trigger)
  BY FS_Interval, RulesAssumption
<1>2. IsFiniteSet(Action)
  BY <1>1, FS_Product DEF Action, Execution
<1>3. QED
  BY <1>2, FS_Subset DEF AppliedOnes

LEMMA VersionInitially == RulesInit => VersionInv
<1> SUFFICES ASSUME RulesInit PROVE VersionInv
  OBVIOUS
<1>1. /\ \A a \in Action : proposal[a].status = "NONE" /\ ~proposal[a].applied
      /\ \A q \in Review : review[q][1] = "idle"
      /\ version \in {0, 1}
  BY DEF RulesInit, NoProposal
<1>2. {a \in Action : proposal[a].applied} = {}
  BY <1>1
<1>3. Cardinality({}) = 0
  BY FS_EmptySet
<1>4. AppliedFromItsVersion
  BY <1>1, <1>2, <1>3 DEF AppliedFromItsVersion
<1>5. QED
  BY <1>1, <1>4 DEF VersionInv

\* Where no proposal is applied and the profile stays, so do its versions.
LEMMA AppliedKept ==
  ASSUME AppliedFromItsVersion, version' = version,
         \A a \in Action : proposal'[a].applied <=> proposal[a].applied,
         \A a \in Action : proposal[a].applied => proposal'[a].source = proposal[a].source
  PROVE  AppliedFromItsVersion'
<1>1. AppliedOnes' = AppliedOnes
  BY DEF AppliedOnes
<1>2. QED
  BY <1>1 DEF AppliedFromItsVersion, AppliedOnes

LEMMA VersionActs ==
  ASSUME RulesTypeOK, OrderInv, VersionInv, NEW w \in Runner, Act(w)
  PROVE  VersionInv'
<1>1. PICK k \in Action : k = Key(w) /\ k \notin done
  <2>1. Key(w) \in Action /\ Key(w) \notin done
    BY DEF Act, Acting, Key, Action, RulesTypeOK, Attempt
  <2>2. QED
    BY <2>1
<1>2. proposal[k].status = "NONE" /\ ~proposal[k].applied
  BY <1>1 DEF OrderInv, ActionsInOrder, VersionInv
<1>3. version' = version /\ review' = review
  BY DEF Act
<1>4. CASE proposal' = proposal
  BY <1>3, <1>4, AppliedKept DEF VersionInv, Filed
<1>5. CASE version > 0 /\ proposal' = [proposal EXCEPT ![k] =
             [status |-> "PENDING_REVIEW", source |-> version, applied |-> FALSE]]
  <2>1. /\ proposal'[k] = [status |-> "PENDING_REVIEW", source |-> version, applied |-> FALSE]
        /\ \A a \in Action : a # k => proposal'[a] = proposal[a]
    BY <1>5 DEF RulesTypeOK
  <2>2. AppliedFromItsVersion'
    BY <1>2, <1>3, <2>1, AppliedKept DEF VersionInv
  <2>3. \A q \in Review : review[q][1] = "read" => Filed(q) \in Action
    BY DEF RulesTypeOK, Filed
  <2>4. QED
    BY <1>3, <1>5, <2>1, <2>2, <2>3 DEF VersionInv, Filed
<1>6. QED
  BY <1>1, <1>4, <1>5 DEF Act

LEMMA VersionApplies ==
  ASSUME RulesTypeOK, VersionInv, NEW q \in Review, Apply(q)
  PROVE  VersionInv'
<1>1. PICK a \in Action : a = Filed(q) /\ proposal[a].status # "NONE" /\ proposal[a] \in Proposal
  <2>1. review[q] \in {<<"idle">>, <<"over">>} \cup ({"read"} \X Action) /\ review[q][1] = "read"
    BY DEF Apply, RulesTypeOK
  <2>2. QED
    BY <2>1 DEF Filed, VersionInv, RulesTypeOK
<1>2. /\ \A r \in Review : r # q => review'[r] = review[r]
      /\ review'[q][1] = "over"
  BY DEF Apply, RulesTypeOK
<1>3. \A r \in Review : review'[r][1] = "read" =>
        r # q /\ Filed(r)' = Filed(r) /\ Filed(r) \in Action /\ proposal[Filed(r)].status # "NONE"
  BY <1>2 DEF VersionInv, Filed, RulesTypeOK
<1>4. CASE proposal[a].source # version
  <2>1. UNCHANGED <<version, proposal>>
    BY <1>1, <1>4 DEF Apply
  <2>2. AppliedFromItsVersion'
    BY <2>1, AppliedKept DEF VersionInv
  <2>3. QED
    BY <1>3, <2>1, <2>2 DEF VersionInv
<1>5. CASE proposal[a].source = version
  <2>1. /\ version' = version + 1 /\ version \in Nat /\ version > 0
        /\ proposal' = [proposal EXCEPT ![a].status = "APPLIED", ![a].applied = TRUE]
    BY <1>1, <1>5 DEF Apply, VersionInv, RulesTypeOK
  <2>2. /\ proposal'[a].status = "APPLIED" /\ proposal'[a].applied = TRUE
        /\ proposal'[a].source = version
        /\ \A b \in Action : b # a => proposal'[b] = proposal[b]
    BY <1>1, <1>5, <2>1 DEF RulesTypeOK, Proposal
  <2>3. a \notin AppliedOnes
    BY <1>5, <2>1 DEF AppliedOnes, VersionInv, AppliedFromItsVersion
  <2>4. AppliedOnes' = AppliedOnes \cup {a}
    BY <2>2 DEF AppliedOnes
  <2>5. Cardinality(AppliedOnes') = Cardinality(AppliedOnes) + 1
    BY <2>3, <2>4, AppliedFinite, FS_AddElement
  <2>6. version = 1 + Cardinality(AppliedOnes) /\ Cardinality(AppliedOnes) \in Nat
    BY <2>1, AppliedFinite, FS_CardinalityType DEF VersionInv, AppliedFromItsVersion, AppliedOnes
  <2>7. version' = 1 + Cardinality(AppliedOnes')
    BY <2>1, <2>5, <2>6
  <2>8. \A b \in AppliedOnes : /\ proposal[b].source < version /\ proposal[b].source \in Nat
                               /\ b \in Action
    BY DEF VersionInv, AppliedFromItsVersion, AppliedOnes, RulesTypeOK, Proposal
  <2>9. \A b \in AppliedOnes : /\ proposal'[b] = proposal[b]
                                /\ proposal[b].source < version + 1 /\ proposal[b].source # version
    <3> SUFFICES ASSUME NEW b \in AppliedOnes
                 PROVE  /\ proposal'[b] = proposal[b]
                        /\ proposal[b].source < version + 1 /\ proposal[b].source # version
      OBVIOUS
    <3>1. b \in Action /\ b # a
      BY <2>3, <2>8
    <3>2. PICK n \in Nat, v \in Nat : n = proposal[b].source /\ v = version /\ n < v
      BY <2>1, <2>8
    <3>3. n < v + 1 /\ n # v
      BY <3>2
    <3>4. QED
      BY <2>2, <3>1, <3>2, <3>3
  <2>10. \A b \in AppliedOnes' : proposal'[b].source < version'
    <3> SUFFICES ASSUME NEW b \in AppliedOnes'
                 PROVE  proposal'[b].source < version'
      OBVIOUS
    <3>1. CASE b = a
      <4>1. PICK v \in Nat : v = version
        BY <2>1
      <4>2. v < v + 1
        OBVIOUS
      <4>3. QED
        BY <2>1, <2>2, <3>1, <4>1, <4>2
    <3>2. CASE b \in AppliedOnes
      BY <2>1, <2>9, <3>2
    <3>3. QED
      BY <2>4, <3>1, <3>2
  <2>11. \A b, c \in AppliedOnes' : proposal'[b].source = proposal'[c].source => b = c
    <3>1. \A b, c \in AppliedOnes : proposal[b].source = proposal[c].source => b = c
      BY DEF VersionInv, AppliedFromItsVersion, AppliedOnes
    <3>2. QED
      BY <2>2, <2>4, <2>9, <3>1
  <2>12. AppliedFromItsVersion'
    BY <2>7, <2>10, <2>11 DEF AppliedFromItsVersion, AppliedOnes
  <2>13. /\ \A b \in Action : proposal'[b].status = "NONE" => ~proposal'[b].applied
         /\ \A b \in Action : proposal'[b].status # "NONE" => proposal'[b].source > 0
    BY <2>1, <2>2 DEF VersionInv
  <2>14. \A r \in Review : review'[r][1] = "read" => proposal'[Filed(r)'].status # "NONE"
    BY <1>3, <2>2
  <2>15. QED
    BY <2>12, <2>13, <2>14 DEF VersionInv
<1>6. QED
  BY <1>4, <1>5

LEMMA VersionStep ==
  ASSUME RulesTypeOK, OrderInv, VersionInv, [RulesNext]_rulesVars
  PROVE  VersionInv'
<1> USE DEF proposalVars, ruleVars
<1>1. CASE UNCHANGED proposalVars
  BY <1>1, AppliedKept DEF VersionInv, Filed
<1>2. ASSUME NEW w \in Runner, Act(w)
      PROVE  VersionInv'
  BY <1>2, VersionActs
<1>3. ASSUME NEW q \in Review, Apply(q)
      PROVE  VersionInv'
  BY <1>3, VersionApplies
<1>4. ASSUME NEW q \in Review, Reject(q)
      PROVE  VersionInv'
  <2>1. PICK a \in Action : a = Filed(q) /\ proposal[a].status # "NONE"
    <3>1. review[q] \in {<<"idle">>, <<"over">>} \cup ({"read"} \X Action) /\ review[q][1] = "read"
      BY <1>4 DEF Reject, RulesTypeOK
    <3>2. QED
      BY <3>1 DEF Filed, VersionInv
  <2>2. /\ proposal'[a].applied = proposal[a].applied /\ proposal'[a].source = proposal[a].source
        /\ proposal'[a].status = "REJECTED" /\ version' = version
        /\ \A b \in Action : b # a => proposal'[b] = proposal[b]
    BY <1>4, <2>1 DEF Reject, RulesTypeOK, Proposal
  <2>3. AppliedFromItsVersion'
    BY <2>2, AppliedKept DEF VersionInv
  <2>4. \A r \in Review : review'[r][1] = "read" => review'[r] = review[r]
    BY <1>4 DEF Reject, RulesTypeOK
  <2>5. \A r \in Review : review'[r][1] = "read" => proposal'[Filed(r)'].status # "NONE"
    BY <2>2, <2>4 DEF VersionInv, Filed, RulesTypeOK
  <2>6. /\ \A b \in Action : proposal'[b].status = "NONE" => ~proposal'[b].applied
        /\ \A b \in Action : proposal'[b].status # "NONE" => proposal'[b].source > 0
    BY <2>1, <2>2 DEF VersionInv
  <2>7. QED
    BY <2>3, <2>5, <2>6 DEF VersionInv
<1>5. ASSUME NEW q \in Review, NEW a \in Action, ReadProposal(q, a)
      PROVE  VersionInv'
  <2>1. proposal' = proposal /\ version' = version /\ proposal[a].status = "PENDING_REVIEW"
    BY <1>5 DEF ReadProposal
  <2>2. AppliedFromItsVersion'
    BY <2>1, AppliedKept DEF VersionInv
  <2>3. \A r \in Review : r # q => review'[r] = review[r]
    BY <1>5 DEF ReadProposal, RulesTypeOK
  <2>4. review'[q] = <<"read", a>>
    BY <1>5 DEF ReadProposal, RulesTypeOK
  <2>5. \A r \in Review : review'[r][1] = "read" => proposal'[Filed(r)'].status # "NONE"
    BY <2>1, <2>3, <2>4 DEF VersionInv, Filed
  <2>6. QED
    BY <2>1, <2>2, <2>5 DEF VersionInv
<1>6. CASE CreateProfile
  <2>1. AppliedOnes = {} /\ AppliedOnes' = AppliedOnes
    BY <1>6 DEF CreateProfile, AppliedOnes, VersionInv, AppliedFromItsVersion, RulesTypeOK, Proposal
  <2>2. Cardinality({}) = 0
    BY FS_EmptySet
  <2>3. AppliedFromItsVersion'
    <3>1. {b \in Action : proposal'[b].applied} = {} /\ version' = 1
      BY <1>6, <2>1 DEF CreateProfile, AppliedOnes
    <3>2. QED
      BY <2>2, <3>1 DEF AppliedFromItsVersion
  <2>4. QED
    BY <1>6, <2>3 DEF CreateProfile, VersionInv, Filed
<1>7. QED
  BY <1>1, <1>2, <1>3, <1>4, <1>5, <1>6
  DEF RulesNext, RunnerStep, StartTrigger, ClaimNew, Reclaim, NotClaimed, SkipDone,
      AutoScheduleFails, ErrorPassedOver, MarkFailed, MarkExecuted, ActionError, RunnerCrash,
      RuleLeaseEnds, NextDay, rulesVars

\* However many runners and takeovers: actions take place in order, all of them in an
\* EXECUTED execution, but for those the code passes over at an error that mentions unique;
\* and a proposal is filed only with its action.
THEOREM InOrder == RulesSpec => []ActionsInOrder
<1>1. RulesInit => RulesTypeOK /\ OrderInv /\ VersionInv
  BY TypesInitially, OrderInitially, VersionInitially
<1>2. RulesTypeOK /\ OrderInv /\ VersionInv /\ [RulesNext]_rulesVars
      => (RulesTypeOK /\ OrderInv /\ VersionInv)'
  BY TypesStep, OrderStep, VersionStep
<1>3. OrderInv => ActionsInOrder
  BY DEF OrderInv
<1>4. QED
  BY <1>1, <1>2, <1>3, PTL DEF RulesSpec

\* Of the proposals made from one version of the profile at most one is ever applied, for
\* every number of requests, however they overlap.
THEOREM Versions == RulesSpec => []AppliedFromItsVersion
<1>1. RulesInit => RulesTypeOK /\ OrderInv /\ VersionInv
  BY TypesInitially, OrderInitially, VersionInitially
<1>2. RulesTypeOK /\ OrderInv /\ VersionInv /\ [RulesNext]_rulesVars
      => (RulesTypeOK /\ OrderInv /\ VersionInv)'
  BY TypesStep, OrderStep, VersionStep
<1>3. VersionInv => AppliedFromItsVersion
  BY DEF VersionInv
<1>4. QED
  BY <1>1, <1>2, <1>3, PTL DEF RulesSpec

-----------------------------------------------------------------------------
(* Both parts *)

\* The parts share no variable: a behaviour of both is a behaviour of each.
LEMMA BothParts == Spec => OperatorSpec /\ RulesSpec
<1>1. Init => OperatorInit /\ RulesInit
  BY DEF Init
<1>2. [Next]_governanceVars => [OperatorNext]_operatorVars /\ [RulesNext]_rulesVars
  BY DEF Next, governanceVars
<1> QED
  BY <1>1, <1>2, PTL DEF Spec, OperatorSpec, RulesSpec

\* Whichever part takes its steps, operator and rules keep to their types: the charges,
\* attempts and versions that processes race on stay within their limits.
THEOREM GovernanceTypes == Spec => []TypeOK
<1>1. OperatorTypeOK /\ RulesTypeOK => TypeOK
  BY DEF TypeOK
<1> QED
  BY <1>1, BothParts, OperatorTypes, RulesTypes, PTL

\* What is proved of each part holds of the two together.
THEOREM GovernanceSafe ==
  Spec => /\ [](ChargedAsScheduled /\ ChargedPerExecution)
          /\ [](ActionsInOrder /\ AppliedFromItsVersion)
          /\ PauseDisarms
BY BothParts, Charged, Pause, Budgets, InOrder, Versions, PTL

=============================================================================
