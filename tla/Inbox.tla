------------------------------- MODULE Inbox -------------------------------
(***************************************************************************)
(* The inbox of one root post: EngagementIngestProcessor reads the         *)
(* comments under the post into interactions, EngagementClassifyProcessor  *)
(* decides which of them get a draft, and scans 1 and 5 of                 *)
(* EngagementReconciliationService repair what they leave behind.          *)
(*                                                                         *)
(* A comment is its timestamp.  The platform lists comments in the order   *)
(* of their timestamps.  lease_token is a fresh UUID for every sync and a  *)
(* syncer runs one at a time, so `holder' (the syncer) stands for it.      *)
(***************************************************************************)
EXTENDS Integers, FiniteSets

CONSTANTS
  Comments,    \* bound: how many comments the post gets
  Own,         \* those written by the account itself
  Syncer,      \* job slots of the ingest queue
  Classifier,  \* job slots of the classify queue
  PageSize,    \* comments of one answer (50)
  Overlap,     \* how far a sync reads back before the watermark (120 s)
  MaxFaults,   \* bound: crashes, overrun leases, errors of a service
  NoSyncer

ASSUME InboxAssumption ==
  /\ Comments \in Nat /\ PageSize \in Nat \ {0} /\ Overlap \in Nat /\ MaxFaults \in Nat
  /\ Own \subseteq 1..Comments /\ NoSyncer \notin Syncer

VARIABLES
  listed,    \* platform: comments 1..listed are visible
  status,    \* interactions.status; NONE: no such row
  row,       \* the post's engagement_sync_states row
  syncer,    \* the running sync of each slot
  jobs,      \* comments with a waiting classify job
  failed,    \* comments whose classify job id belongs to a failed job
  drafts,    \* comments with a waiting draft job
  draftFailed, \* comments whose draft job id belongs to a failed job
  classifier,\* the running job of each classify slot
  stale,     \* Scan 1: comments read and not yet written
  resetting, \* Scan 1: the comment written and not yet enqueued, or 0
  stranded,  \* history: comments that Scan 1 left in NEW without a job
  clearing,  \* Scan 5 has read the row and not yet written it
  faults     \* faults spent so far

syncVars == <<row, syncer>>
draftVars == <<drafts, draftFailed>>
classifyVars == <<jobs, failed, draftVars, classifier>>
resetVars == <<stale, resetting, stranded>>
scanVars == <<resetVars, clearing>>
vars == <<listed, status, syncVars, classifyVars, scanVars, faults>>

-----------------------------------------------------------------------------
(* Types *)

Comment == 1..Comments
Terminal == {"DISMISSED", "BLOCKED", "NOT_REQUIRED", "REPLIED"}
Status == Terminal \cup {"NONE", "NEW", "CLASSIFYING", "DRAFTING", "OUTPUT_SAFETY_EVALUATING",
                        "REVIEW_REQUIRED", "APPROVED"}

\* seen: last_seen_interaction_at, cursor: pagination_cursor, 0 is null;
\* live: lease_until is later than NOW().
Row == [status : {"IDLE", "SYNCING", "FAILED"}, holder : Syncer \cup {NoSyncer},
        live : BOOLEAN, seen : 0..Comments, cursor : 0..Comments]

\* seen, cursor: as read before the lease; todo: comments of the page still to be
\* ingested; max, next: the watermark and cursor to be written.
Sync == [at : {"idle", "read", "fetch", "page", "enqueue", "fail"},
         seen : 0..Comments, cursor : 0..Comments, todo : SUBSET Comment,
         max : 0..Comments, next : 0..Comments]
NoSync == [at |-> "idle", seen |-> 0, cursor |-> 0, todo |-> {}, max |-> 0, next |-> 0]

\* done: the work is over, BullMQ has not yet removed the job.
Job == [at : {"idle", "start", "model", "draft", "done"}, comment : 0..Comments]
NoJob == [at |-> "idle", comment |-> 0]

TypeOK ==
  /\ listed \in 0..Comments
  /\ status \in [Comment -> Status]
  /\ row \in Row
  /\ syncer \in [Syncer -> Sync]
  /\ jobs \subseteq Comment /\ failed \subseteq Comment
  /\ drafts \subseteq Comment /\ draftFailed \subseteq Comment
  /\ classifier \in [Classifier -> Job]
  /\ \A k \in Classifier : classifier[k].at # "idle" => classifier[k].comment \in Comment
  /\ stale \subseteq Comment /\ resetting \in 0..Comments /\ stranded \subseteq Comment
  /\ clearing \in BOOLEAN
  /\ faults \in 0..MaxFaults

\* A post whose sync state has just been created.
Init ==
  /\ listed = 0
  /\ status = [c \in Comment |-> "NONE"]
  /\ row = [status |-> "IDLE", holder |-> NoSyncer, live |-> FALSE, seen |-> 0, cursor |-> 0]
  /\ syncer = [s \in Syncer |-> NoSync]
  /\ jobs = {} /\ failed = {} /\ drafts = {} /\ draftFailed = {}
  /\ classifier = [k \in Classifier |-> NoJob]
  /\ stale = {} /\ resetting = 0 /\ stranded = {} /\ clearing = FALSE /\ faults = 0

Spend == faults < MaxFaults /\ faults' = faults + 1

-----------------------------------------------------------------------------
(* syncRootPost *)

\* The row is read; only then the lease is taken.
ReadState(s) ==
  /\ syncer[s].at = "idle"
  /\ syncer' = [syncer EXCEPT ![s] = [NoSync EXCEPT !.at = "read", !.seen = row.seen,
                                                    !.cursor = row.cursor]]
  /\ UNCHANGED <<listed, status, row, classifyVars, scanVars, faults>>

Acquire(s) ==
  /\ syncer[s].at = "read"
  /\ row.status \in {"IDLE", "FAILED"} \/ ~row.live
  /\ row' = [row EXCEPT !.status = "SYNCING", !.holder = s, !.live = TRUE]
  /\ syncer' = [syncer EXCEPT ![s].at = "fetch"]
  /\ UNCHANGED <<listed, status, classifyVars, scanVars, faults>>

Locked(s) ==
  /\ syncer[s].at = "read" /\ row.status = "SYNCING" /\ row.live
  /\ syncer' = [syncer EXCEPT ![s] = NoSync]
  /\ UNCHANGED <<listed, status, row, classifyVars, scanVars, faults>>

\* What the platform may answer: the first of the comments since the watermark less
\* the overlap, after the cursor if there is one.
Listed(since, cursor) == {c \in 1..listed : c >= since /\ c > cursor}
IsPage(p, all) ==
  /\ p \subseteq all /\ Cardinality(p) <= PageSize
  /\ \A c \in p, d \in all : d < c => d \in p
  /\ p = {} => all = {}
IsLast(p, last) == IF p = {} THEN last = 0 ELSE last \in p /\ \A c \in p : c <= last

\* An answer; when the query with the cursor fails, one without it is tried.
Fetch(s, p, last, cursor) ==
  /\ syncer[s].at = "fetch"
  /\ IF cursor = syncer[s].cursor THEN UNCHANGED faults ELSE cursor = 0 /\ Spend
  /\ IsPage(p, Listed(syncer[s].seen - Overlap, cursor))
  /\ IsLast(p, last)
  /\ syncer' = [syncer EXCEPT ![s].at = "page", ![s].todo = p, ![s].next = last,
                              ![s].max = IF last > syncer[s].seen THEN last
                                         ELSE syncer[s].seen]
  /\ UNCHANGED <<listed, status, row, classifyVars, scanVars>>

\* The page is worked off in its order.
First(s, c) == c \in syncer[s].todo /\ \A d \in syncer[s].todo : c <= d

\* Mutant: the account's own comments are ingested like any other.
IngestEcho(s, c) ==
  /\ syncer[s].at = "page" /\ First(s, c)
  /\ IF status[c] # "NONE"
     THEN /\ syncer' = [syncer EXCEPT ![s].todo = @ \ {c}]
          /\ UNCHANGED status
     ELSE /\ status' = [status EXCEPT ![c] = "NEW"]
          /\ syncer' = [syncer EXCEPT ![s].at = "enqueue"]
  /\ UNCHANGED <<listed, row, classifyVars, scanVars, faults>>

\* A known comment is only touched; the account's own is REPLIED, with no job.
Ingest(s, c) ==
  /\ syncer[s].at = "page" /\ First(s, c)
  /\ IF status[c] # "NONE"
     THEN /\ syncer' = [syncer EXCEPT ![s].todo = @ \ {c}]
          /\ UNCHANGED status
     ELSE IF c \in Own
     THEN /\ status' = [status EXCEPT ![c] = "REPLIED"]
          /\ syncer' = [syncer EXCEPT ![s].todo = @ \ {c}]
     ELSE /\ status' = [status EXCEPT ![c] = "NEW"]
          /\ syncer' = [syncer EXCEPT ![s].at = "enqueue"]
  /\ UNCHANGED <<listed, row, classifyVars, scanVars, faults>>

\* queue.add with the job id of c does nothing while a job has that id.
Working(c) == \E k \in Classifier : classifier[k].at # "idle" /\ classifier[k].comment = c
Enqueued(c) == IF c \in failed \/ Working(c) THEN jobs ELSE jobs \cup {c}

EnqueueClassify(s, c) ==
  /\ syncer[s].at = "enqueue" /\ First(s, c)
  /\ jobs' = Enqueued(c)
  /\ syncer' = [syncer EXCEPT ![s].at = "page", ![s].todo = @ \ {c}]
  /\ UNCHANGED <<listed, status, row, failed, draftVars, classifier, scanVars, faults>>

\* The lease is released by its token; the watermark moves with it.
Release(s) ==
  /\ syncer[s].at = "page" /\ syncer[s].todo = {}
  /\ row' = IF row.holder # s THEN row
            ELSE [status |-> "IDLE", holder |-> NoSyncer, live |-> FALSE,
                  seen |-> syncer[s].max, cursor |-> syncer[s].next]
  /\ syncer' = [syncer EXCEPT ![s] = NoSync]
  /\ UNCHANGED <<listed, status, classifyVars, scanVars, faults>>

\* The platform, the database or the queue fails; of two syncs that create the same
\* interaction one violates its unique key.
SyncThrows(s) ==
  /\ syncer[s].at \in {"fetch", "page", "enqueue"}
  /\ \/ Spend
     \/ /\ syncer[s].at = "page" /\ \E c \in Comment : First(s, c) /\ status[c] # "NONE"
        /\ \E r \in Syncer \ {s} : syncer[r].at # "idle"
        /\ UNCHANGED faults
  /\ syncer' = [syncer EXCEPT ![s].at = "fail"]
  /\ UNCHANGED <<listed, status, row, classifyVars, scanVars>>

\* Mutant: the watermark moves although the sync failed.
FailAdvancing(s) ==
  /\ syncer[s].at = "fail"
  /\ row' = IF row.holder # s THEN row
            ELSE [row EXCEPT !.status = "FAILED", !.holder = NoSyncer, !.live = FALSE,
                             !.seen = syncer[s].max]
  /\ syncer' = [syncer EXCEPT ![s] = NoSync]
  /\ UNCHANGED <<listed, status, classifyVars, scanVars, faults>>

Fail(s) ==
  /\ syncer[s].at = "fail"
  /\ row' = IF row.holder # s THEN row
            ELSE [row EXCEPT !.status = "FAILED", !.holder = NoSyncer, !.live = FALSE]
  /\ syncer' = [syncer EXCEPT ![s] = NoSync]
  /\ UNCHANGED <<listed, status, classifyVars, scanVars, faults>>

-----------------------------------------------------------------------------
(* EngagementClassifyProcessor *)

\* The job of a finished interaction has nothing to do.
Take(k, c) ==
  /\ classifier[k].at = "idle" /\ c \in jobs
  /\ jobs' = jobs \ {c}
  /\ classifier' = [classifier EXCEPT ![k] =
       [at |-> IF status[c] \in Terminal THEN "done" ELSE "start", comment |-> c]]
  /\ UNCHANGED <<listed, status, syncVars, failed, draftVars, scanVars, faults>>

StartClassify(k) ==
  /\ classifier[k].at = "start"
  /\ status' = [status EXCEPT ![classifier[k].comment] = "CLASSIFYING"]
  /\ classifier' = [classifier EXCEPT ![k].at = "model"]
  /\ UNCHANGED <<listed, syncVars, jobs, failed, draftVars, scanVars, faults>>

\* Mutant: the name of the policy decision is written as the status.
DecideByName(k, s) ==
  /\ classifier[k].at = "model"
  /\ status' = [status EXCEPT ![classifier[k].comment] =
                  IF s = "NOT_REQUIRED" THEN "NOT_APPLICABLE" ELSE s]
  /\ classifier' = [classifier EXCEPT ![k].at = IF s = "DRAFTING" THEN "draft" ELSE "done"]
  /\ UNCHANGED <<listed, syncVars, jobs, failed, draftVars, scanVars, faults>>

\* Mutant: a decision that no answer is due is not written.
DecideSilently(k, s) ==
  /\ classifier[k].at = "model"
  /\ status' = IF s = "NOT_REQUIRED" THEN status ELSE [status EXCEPT ![classifier[k].comment] = s]
  /\ classifier' = [classifier EXCEPT ![k].at = IF s = "DRAFTING" THEN "draft" ELSE "done"]
  /\ UNCHANGED <<listed, syncVars, jobs, failed, draftVars, scanVars, faults>>

\* One transaction: classification, policy decision and status.
Decide(k, s) ==
  /\ classifier[k].at = "model"
  /\ status' = [status EXCEPT ![classifier[k].comment] = s]
  /\ classifier' = [classifier EXCEPT ![k].at = IF s = "DRAFTING" THEN "draft" ELSE "done"]
  /\ UNCHANGED <<listed, syncVars, jobs, failed, draftVars, scanVars, faults>>

\* queue.add does nothing while a draft job, waiting or failed, has the id.
EnqueueDraft(k) ==
  /\ classifier[k].at = "draft"
  /\ drafts' = drafts \cup ({classifier[k].comment} \ draftFailed)
  /\ classifier' = [classifier EXCEPT ![k].at = "done"]
  /\ UNCHANGED <<listed, status, syncVars, jobs, failed, draftFailed, scanVars, faults>>

\* The handler has returned; removeOnComplete frees the id.
Complete(k) ==
  /\ classifier[k].at = "done"
  /\ classifier' = [classifier EXCEPT ![k] = NoJob]
  /\ UNCHANGED <<listed, status, syncVars, jobs, failed, draftVars, scanVars, faults>>

\* An error of the model, the transaction or the queue leads to a review and rethrows;
\* one of the first write, or of the review's, only fails the job.
ClassifyFails(k) ==
  /\ classifier[k].at \in {"start", "model", "draft"} /\ Spend
  /\ \/ /\ classifier[k].at # "start"
        /\ status' = [status EXCEPT ![classifier[k].comment] = "REVIEW_REQUIRED"]
     \/ UNCHANGED status
  /\ failed' = failed \cup {classifier[k].comment}
  /\ classifier' = [classifier EXCEPT ![k] = NoJob]
  /\ UNCHANGED <<listed, syncVars, jobs, draftVars, scanVars>>

-----------------------------------------------------------------------------
(* The scans *)

\* Scan 1 reads interactions left in CLASSIFYING for five minutes; a running job may
\* take that long.
ReadStale ==
  LET found == {c \in Comment : status[c] = "CLASSIFYING"}
  IN /\ stale = {} /\ resetting = 0 /\ found # {}
     /\ IF \E c \in found : Working(c) THEN Spend ELSE UNCHANGED faults
     /\ stale' = found
     /\ UNCHANGED <<listed, status, syncVars, classifyVars, resetting, stranded, clearing>>

\* By id, whatever the status is by now.
ResetStale(c) ==
  /\ c \in stale /\ resetting = 0
  /\ stale' = stale \ {c} /\ resetting' = c
  /\ status' = [status EXCEPT ![c] = "NEW"]
  /\ UNCHANGED <<listed, syncVars, classifyVars, stranded, clearing, faults>>

\* No job that is still to decide on c or to draft for it.
Orphan(c) ==
  /\ status[c] = "NEW" /\ c \notin jobs \cup drafts
  /\ \A k \in Classifier : classifier[k].comment # c \/ classifier[k].at \in {"idle", "done"}

\* The job that has just decided still has the id: the add does nothing.
EnqueueStale ==
  /\ resetting # 0 /\ resetting' = 0
  /\ jobs' = Enqueued(resetting)
  /\ stranded' = IF Orphan(resetting) /\ Working(resetting) THEN stranded \cup {resetting}
                 ELSE stranded
  /\ UNCHANGED <<listed, status, syncVars, failed, draftVars, classifier, stale, clearing, faults>>

\* The process of the scans dies, or the database or the queue fails; for free at the add,
\* because there is a fault behind every reset.
ScanThrows ==
  /\ stale # {} \/ resetting # 0
  /\ IF resetting = 0 THEN Spend ELSE UNCHANGED faults
  /\ stale' = {} /\ resetting' = 0
  /\ stranded' = IF resetting # 0 /\ Orphan(resetting) THEN stranded \cup {resetting} ELSE stranded
  /\ UNCHANGED <<listed, status, syncVars, classifyVars, clearing>>

\* Scan 5 reads a lease that is over ...
ReadExpired ==
  /\ row.status = "SYNCING" /\ ~row.live /\ ~clearing
  /\ clearing' = TRUE
  /\ UNCHANGED <<listed, status, syncVars, classifyVars, resetVars, faults>>

\* ... and clears whatever lease the row then has.
ClearLease ==
  /\ clearing /\ clearing' = FALSE
  /\ row' = [row EXCEPT !.status = "IDLE", !.holder = NoSyncer, !.live = FALSE]
  /\ UNCHANGED <<listed, status, syncer, classifyVars, resetVars, faults>>

-----------------------------------------------------------------------------
(* The platform, drafting and review, time and faults *)

List ==
  /\ listed < Comments /\ listed' = listed + 1
  /\ UNCHANGED <<status, syncVars, classifyVars, scanVars, faults>>

\* ReplyDraftProcessor skips a finished interaction; the draft of another is blocked, sent
\* to a review or approved, which is where Replies begins.
Draft(c, s) ==
  /\ c \in drafts /\ drafts' = drafts \ {c}
  /\ status' = IF status[c] \in Terminal THEN status ELSE [status EXCEPT ![c] = s]
  /\ UNCHANGED <<listed, syncVars, jobs, failed, draftFailed, classifier, scanVars, faults>>

\* An error before or after the draft is stored is thrown on: the job fails.
DraftFails(c) ==
  /\ c \in drafts /\ status[c] \notin Terminal /\ Spend
  /\ drafts' = drafts \ {c} /\ draftFailed' = draftFailed \cup {c}
  /\ \/ UNCHANGED status
     \/ status' = [status EXCEPT ![c] = "OUTPUT_SAFETY_EVALUATING"]
  /\ UNCHANGED <<listed, syncVars, jobs, failed, classifier, scanVars>>

Dismiss(c) ==
  /\ status[c] = "REVIEW_REQUIRED"
  /\ status' = [status EXCEPT ![c] = "DISMISSED"]
  /\ UNCHANGED <<listed, syncVars, classifyVars, scanVars, faults>>

\* The lease of a sync that is gone; with a fault, of one still at work.
LeaseRunsOut ==
  /\ row.status = "SYNCING" /\ row.live
  /\ IF \E s \in Syncer : s = row.holder /\ syncer[s].at \notin {"idle", "read"}
     THEN Spend ELSE UNCHANGED faults
  /\ row' = [row EXCEPT !.live = FALSE]
  /\ UNCHANGED <<listed, status, syncer, classifyVars, scanVars>>

CrashSync(s) ==
  /\ syncer[s].at \notin {"idle", "read"} /\ Spend
  /\ syncer' = [syncer EXCEPT ![s] = NoSync]
  /\ UNCHANGED <<listed, status, row, classifyVars, scanVars>>

\* BullMQ hands a stalled job out again, or fails it.
CrashClassify(k) ==
  /\ classifier[k].at # "idle" /\ Spend
  /\ \/ jobs' = jobs \cup {classifier[k].comment} /\ UNCHANGED failed
     \/ failed' = failed \cup {classifier[k].comment} /\ UNCHANGED jobs
  /\ classifier' = [classifier EXCEPT ![k] = NoJob]
  /\ UNCHANGED <<listed, status, syncVars, draftVars, scanVars>>

-----------------------------------------------------------------------------
(* The specification *)

SyncStep(s) ==
  \/ ReadState(s) \/ Acquire(s) \/ Locked(s)
  \/ \E p \in SUBSET Comment, last \in 0..Comments, cursor \in {0, syncer[s].cursor} :
       Fetch(s, p, last, cursor)
  \/ \E c \in Comment : Ingest(s, c) \/ EnqueueClassify(s, c)
  \/ Release(s) \/ SyncThrows(s) \/ Fail(s)

ClassifyStep(k) ==
  \/ \E c \in Comment : Take(k, c)
  \/ StartClassify(k)
  \/ \E s \in {"BLOCKED", "NOT_REQUIRED", "DRAFTING"} : Decide(k, s)
  \/ EnqueueDraft(k) \/ Complete(k)

DraftStep(c) == \E s \in {"BLOCKED", "REVIEW_REQUIRED", "APPROVED"} : Draft(c, s)

ScanStep ==
  \/ ReadStale \/ \E c \in Comment : ResetStale(c)
  \/ EnqueueStale
  \/ ReadExpired \/ ClearLease

Next ==
  \/ \E s \in Syncer : SyncStep(s) \/ CrashSync(s)
  \/ \E k \in Classifier : ClassifyStep(k) \/ ClassifyFails(k) \/ CrashClassify(k)
  \/ ScanStep \/ ScanThrows
  \/ List \/ LeaseRunsOut
  \/ \E c \in Comment : DraftStep(c) \/ DraftFails(c) \/ Dismiss(c)

Spec == Init /\ [][Next]_vars

\* The processors of the classify and draft queues and the reconciliation loop run by
\* themselves; the syncs owe nothing.
Fairness ==
  /\ \A k \in Classifier : WF_vars(ClassifyStep(k))
  /\ \A c \in Comment : WF_vars(DraftStep(c))
  /\ WF_vars(ScanStep)
FairSpec == Spec /\ Fairness

-----------------------------------------------------------------------------
(* Properties *)

\* The watermark and the cursor never pass a comment that is not in the inbox: no
\* failed, late or interrupted sync makes a later one start behind it.
NothingSkipped ==
  \A c \in Comment : c <= row.seen \/ c <= row.cursor => status[c] # "NONE"

\* The loop breaker: the account's own comments enter the inbox finished, and are never
\* classified or drafted for, whatever jobs, scans and restarts do.  The code writes REPLIED
\* (line 416) where FRD.md:356 and src/README.md:505 say NOT_REQUIRED; either is finished.
OwnNeverAnswered ==
  \A c \in Own : status[c] \in Terminal \cup {"NONE"} /\ c \notin jobs \cup drafts

\* Another's comment that gets a classify job is classified in the end and stays so,
\* whatever a scan undoes meanwhile.  Three cases are left out, for they stay behind: a
\* failed classify or draft job keeps its id, which blocks every later one, and Scan 1
\* strands an interaction whose job it finds deciding, or whose job it fails to add.
Classified ==
  \A c \in Comment \ Own :
    c \in jobs ~> [](\/ status[c] \notin {"NEW", "CLASSIFYING"}
                    \/ c \in failed \cup draftFailed \cup stranded)

=============================================================================
