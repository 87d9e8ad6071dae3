---------------------------- MODULE InboxProofs ----------------------------
(***************************************************************************)
(* The inbox keeps its types, its watermark never passes a comment, and    *)
(* the account's own comments are never answered, for every number of      *)
(* comments, syncers and classifiers.                                      *)
(***************************************************************************)
EXTENDS Inbox, TLAPS

Ingested(c) == status[c] # "NONE"

\* What a running sync has read of the row is as safe as the row, and its page covers
\* what lies between that and the watermark and cursor it will write.
WatermarkInv ==
  /\ NothingSkipped
  /\ \A s \in Syncer : syncer[s].at # "idle" =>
       \A c \in Comment : c <= syncer[s].seen \/ c <= syncer[s].cursor => Ingested(c)
  /\ \A s \in Syncer : syncer[s].at \in {"page", "enqueue"} =>
       \A c \in Comment : c <= syncer[s].max \/ c <= syncer[s].next =>
         Ingested(c) \/ c \in syncer[s].todo
  /\ \A s \in Syncer : syncer[s].at = "enqueue" =>
       \A c \in Comment : First(s, c) => Ingested(c)

\* Nothing that leads to a draft holds a comment of the account's own.
OwnInv ==
  /\ OwnNeverAnswered
  /\ \A s \in Syncer : syncer[s].at = "enqueue" =>
       \A c \in Comment : First(s, c) => c \notin Own
  /\ \A k \in Classifier : classifier[k].at # "idle" => classifier[k].comment \notin Own
  /\ stale \cap Own = {} /\ resetting \notin Own

-----------------------------------------------------------------------------
\* A sync takes up one comment at a time.
LEMMA FirstIsOne ==
  ASSUME NEW s, NEW c \in Comment, First(s, c), NEW d \in Comment, First(s, d)
  PROVE  d = c
<1>1. c \in Nat /\ d \in Nat
  BY DEF Comment
<1>2. c =< d /\ d =< c
  BY DEF First
<1>3. QED
  BY <1>1, <1>2

-----------------------------------------------------------------------------
(* Types *)

LEMMA TypesInitially == Init => TypeOK
<1> SUFFICES ASSUME Init PROVE TypeOK
  OBVIOUS
<1> USE InboxAssumption DEF Init
<1>1. status \in [Comment -> Status]
  BY DEF Status
<1>2. row \in Row
  BY DEF Row
<1>3. NoSync \in Sync /\ NoJob \in Job /\ NoJob.at = "idle"
  BY DEF NoSync, Sync, NoJob, Job
<1>4. syncer \in [Syncer -> Sync] /\ classifier \in [Classifier -> Job]
  BY <1>3
<1>5. \A k \in Classifier : classifier[k].at = "idle"
  BY <1>3
<1>6. clearing \in BOOLEAN
  OBVIOUS
<1>7. /\ listed \in 0..Comments /\ faults \in 0..MaxFaults
      /\ jobs \subseteq Comment /\ failed \subseteq Comment
      /\ drafts \subseteq Comment /\ draftFailed \subseteq Comment
      /\ stale \subseteq Comment /\ resetting \in 0..Comments /\ stranded \subseteq Comment
  OBVIOUS
<1> HIDE DEF Init
<1>8. QED
  BY <1>1, <1>2, <1>4, <1>5, <1>6, <1>7 DEF TypeOK

LEMMA TypesOfSync ==
  ASSUME TypeOK, NEW s \in Syncer, SyncStep(s) \/ CrashSync(s)
  PROVE  TypeOK'
<1> USE InboxAssumption
<1>0. syncer[s] \in Sync /\ NoSync \in Sync
  BY DEF TypeOK, Sync, NoSync
<1>1. CASE ReadState(s)
  BY <1>0, <1>1 DEF ReadState, TypeOK, Sync, Row, classifyVars, draftVars, scanVars, resetVars
<1>2. CASE Acquire(s)
  BY <1>0, <1>2 DEF Acquire, TypeOK, Sync, Row, classifyVars, draftVars, scanVars, resetVars
<1>3. CASE Locked(s) \/ SyncThrows(s) \/ CrashSync(s)
  BY <1>0, <1>3 DEF Locked, SyncThrows, CrashSync, Spend, TypeOK, Sync, classifyVars, draftVars,
       scanVars, resetVars
<1>4. ASSUME NEW p \in SUBSET Comment, NEW last \in 0..Comments,
             NEW cursor \in {0, syncer[s].cursor}, Fetch(s, p, last, cursor)
      PROVE  TypeOK'
  <2>1. syncer' \in [Syncer -> Sync]
    BY <1>0, <1>4 DEF Fetch, TypeOK, Sync
  <2>2. QED
    BY <1>4, <2>1 DEF Fetch, Spend, TypeOK, classifyVars, draftVars, scanVars, resetVars
<1>5. ASSUME NEW c \in Comment, Ingest(s, c)
      PROVE  TypeOK'
  <2>1. syncer' \in [Syncer -> Sync]
    BY <1>0, <1>5 DEF Ingest, TypeOK, Sync
  <2>2. status' \in [Comment -> Status]
    BY <1>5 DEF Ingest, TypeOK, Status, Terminal
  <2>3. QED
    BY <1>5, <2>1, <2>2 DEF Ingest, TypeOK, classifyVars, draftVars, scanVars, resetVars
<1>6. ASSUME NEW c \in Comment, EnqueueClassify(s, c)
      PROVE  TypeOK'
  BY <1>0, <1>6 DEF EnqueueClassify, Enqueued, TypeOK, Sync, draftVars, scanVars, resetVars
<1>7. CASE Release(s)
  BY <1>0, <1>7 DEF Release, TypeOK, Row, Sync, classifyVars, draftVars, scanVars, resetVars
<1>8. CASE Fail(s)
  BY <1>0, <1>8 DEF Fail, TypeOK, Row, Sync, classifyVars, draftVars, scanVars, resetVars
<1>9. QED
  BY <1>1, <1>2, <1>3, <1>4, <1>5, <1>6, <1>7, <1>8 DEF SyncStep

LEMMA TypesOfClassify ==
  ASSUME TypeOK, NEW k \in Classifier,
         ClassifyStep(k) \/ ClassifyFails(k) \/ CrashClassify(k)
  PROVE  TypeOK'
<1> USE InboxAssumption
<1>0. classifier[k] \in Job /\ NoJob \in Job /\ NoJob.at = "idle"
  BY DEF TypeOK, Job, NoJob
<1>1. ASSUME NEW c \in Comment, Take(k, c)
      PROVE  TypeOK'
  <2>1. /\ [at |-> "start", comment |-> c] \in Job /\ [at |-> "done", comment |-> c] \in Job
    BY DEF Job, Comment
  <2>2. classifier' \in [Classifier -> Job]
        /\ \A j \in Classifier : classifier'[j].at # "idle" => classifier'[j].comment \in Comment
    BY <1>0, <1>1, <2>1 DEF Take, TypeOK
  <2>3. QED
    BY <1>1, <2>2 DEF Take, TypeOK, syncVars, draftVars, scanVars, resetVars
<1>2. CASE StartClassify(k)
  BY <1>0, <1>2 DEF StartClassify, TypeOK, Job, Status, syncVars, draftVars, scanVars, resetVars
<1>3. ASSUME NEW s \in {"BLOCKED", "NOT_REQUIRED", "DRAFTING"}, Decide(k, s)
      PROVE  TypeOK'
  <2>1. status' \in [Comment -> Status]
    BY <1>3 DEF Decide, TypeOK, Status, Terminal
  <2>2. classifier' \in [Classifier -> Job]
        /\ \A j \in Classifier : classifier'[j].at # "idle" => classifier'[j].comment \in Comment
    BY <1>0, <1>3 DEF Decide, TypeOK, Job
  <2>3. QED
    BY <1>3, <2>1, <2>2 DEF Decide, TypeOK, syncVars, draftVars, scanVars, resetVars
<1>4. CASE EnqueueDraft(k) \/ Complete(k)
  <2>1. classifier' \in [Classifier -> Job]
        /\ \A j \in Classifier : classifier'[j].at # "idle" => classifier'[j].comment \in Comment
    BY <1>0, <1>4 DEF EnqueueDraft, Complete, TypeOK, Job
  <2>2. drafts' \subseteq Comment /\ draftFailed' = draftFailed
    BY <1>4 DEF EnqueueDraft, Complete, TypeOK, draftVars
  <2>3. QED
    BY <1>4, <2>1, <2>2 DEF EnqueueDraft, Complete, TypeOK, syncVars, draftVars, scanVars,
         resetVars
<1>5. CASE ClassifyFails(k)
  BY <1>0, <1>5 DEF ClassifyFails, Spend, TypeOK, Status, syncVars, draftVars, scanVars, resetVars
<1>6. CASE CrashClassify(k)
  BY <1>0, <1>6 DEF CrashClassify, Spend, TypeOK, syncVars, draftVars, scanVars, resetVars
<1>7. QED
  BY <1>1, <1>2, <1>3, <1>4, <1>5, <1>6 DEF ClassifyStep

LEMMA TypesOfOthers ==
  ASSUME TypeOK,
         \/ ScanStep \/ ScanThrows \/ List \/ LeaseRunsOut
         \/ \E c \in Comment : DraftStep(c) \/ DraftFails(c) \/ Dismiss(c)
  PROVE  TypeOK'
<1> USE InboxAssumption
<1>1. CASE ReadStale
  BY <1>1 DEF ReadStale, Spend, TypeOK, syncVars, classifyVars, draftVars
<1>2. ASSUME NEW c \in Comment, ResetStale(c)
      PROVE  TypeOK'
  BY <1>2 DEF ResetStale, TypeOK, Comment, Status, syncVars, classifyVars, draftVars
<1>10. CASE EnqueueStale
  <2>1. resetting \in Comment
    BY <1>10 DEF EnqueueStale, TypeOK, Comment
  <2>2. jobs' \subseteq Comment /\ stranded' \subseteq Comment /\ resetting' \in 0..Comments
    BY <1>10, <2>1 DEF EnqueueStale, Enqueued, TypeOK
  <2>3. QED
    BY <1>10, <2>2 DEF EnqueueStale, TypeOK, syncVars, draftVars
<1>11. CASE ScanThrows
  <2>1. stranded' \subseteq Comment
    BY <1>11 DEF ScanThrows, TypeOK, Comment
  <2>2. stale' = {} /\ resetting' \in 0..Comments /\ faults' \in 0..MaxFaults
    BY <1>11 DEF ScanThrows, Spend, TypeOK
  <2>3. QED
    BY <1>11, <2>1, <2>2 DEF ScanThrows, TypeOK, syncVars, classifyVars, draftVars
<1>3. CASE ReadExpired
  BY <1>3 DEF ReadExpired, TypeOK, syncVars, classifyVars, draftVars, resetVars
<1>4. CASE ClearLease
  BY <1>4 DEF ClearLease, TypeOK, Row, classifyVars, draftVars, resetVars
<1>5. CASE List
  BY <1>5 DEF List, TypeOK, syncVars, classifyVars, draftVars, scanVars, resetVars
<1>6. CASE LeaseRunsOut
  <2>1. row' \in Row
    BY <1>6 DEF LeaseRunsOut, TypeOK, Row
  <2>2. faults' \in 0..MaxFaults
    BY <1>6 DEF LeaseRunsOut, Spend, TypeOK
  <2>3. QED
    BY <1>6, <2>1, <2>2 DEF LeaseRunsOut, TypeOK, classifyVars, draftVars, scanVars, resetVars
<1>7. ASSUME NEW c \in Comment, DraftStep(c) \/ DraftFails(c)
      PROVE  TypeOK'
  <2>1. status' \in [Comment -> Status]
    BY <1>7 DEF DraftStep, Draft, DraftFails, TypeOK, Status, Terminal
  <2>2. drafts' \subseteq Comment /\ draftFailed' \subseteq Comment /\ faults' \in 0..MaxFaults
    BY <1>7 DEF DraftStep, Draft, DraftFails, Spend, TypeOK
  <2>3. QED
    BY <1>7, <2>1, <2>2 DEF DraftStep, Draft, DraftFails, TypeOK, syncVars, scanVars, resetVars
<1>8. ASSUME NEW c \in Comment, Dismiss(c)
      PROVE  TypeOK'
  BY <1>8 DEF Dismiss, TypeOK, Status, Terminal, syncVars, classifyVars, draftVars, scanVars,
       resetVars
<1>9. QED
  BY <1>1, <1>2, <1>3, <1>4, <1>5, <1>6, <1>7, <1>8, <1>10, <1>11 DEF ScanStep

LEMMA TypesOfStep == TypeOK /\ [Next]_vars => TypeOK'
<1> SUFFICES ASSUME TypeOK, [Next]_vars
             PROVE  TypeOK'
  OBVIOUS
<1>1. CASE UNCHANGED vars
  BY <1>1 DEF TypeOK, vars, syncVars, classifyVars, draftVars, scanVars, resetVars
<1>2. CASE Next
  BY <1>2, TypesOfSync, TypesOfClassify, TypesOfOthers DEF Next
<1>3. QED
  BY <1>1, <1>2

\* The types of the database rows, the jobs and the running syncs and classifications.
THEOREM TypeCorrect == Spec => []TypeOK
<1>1. QED
  BY TypesInitially, TypesOfStep, PTL DEF Spec

-----------------------------------------------------------------------------
(* The watermark *)

\* No step removes an interaction.
LEMMA IngestedKept ==
  ASSUME TypeOK, Next, NEW c \in Comment, Ingested(c)
  PROVE  Ingested(c)'
<1>1. ASSUME NEW s \in Syncer, SyncStep(s) \/ CrashSync(s)
      PROVE  Ingested(c)'
  <2>1. CASE \E d \in Comment : Ingest(s, d)
    BY <2>1 DEF Ingest, TypeOK, Ingested
  <2>2. CASE ~\E d \in Comment : Ingest(s, d)
    <3>1. status' = status
      BY <1>1, <2>2 DEF SyncStep, ReadState, Acquire, Locked, Fetch, EnqueueClassify, Release,
                        SyncThrows, Fail, CrashSync
    <3>2. QED
      BY <3>1 DEF Ingested
  <2>3. QED
    BY <2>1, <2>2
<1>2. ASSUME NEW k \in Classifier, ClassifyStep(k) \/ ClassifyFails(k) \/ CrashClassify(k)
      PROVE  Ingested(c)'
  BY <1>2 DEF ClassifyStep, Take, StartClassify, Decide, EnqueueDraft, Complete, ClassifyFails,
              CrashClassify, TypeOK, Ingested
<1>3. CASE \/ ScanStep \/ ScanThrows \/ List \/ LeaseRunsOut
           \/ \E d \in Comment : DraftStep(d) \/ DraftFails(d) \/ Dismiss(d)
  BY <1>3 DEF ScanStep, ReadStale, ResetStale, EnqueueStale, ScanThrows, ReadExpired, ClearLease,
              List, LeaseRunsOut, DraftStep, Draft, DraftFails, Dismiss, TypeOK, Ingested
<1>4. QED
  BY <1>1, <1>2, <1>3 DEF Next

LEMMA WatermarkInitially == Init => WatermarkInv
BY DEF Init, WatermarkInv, NothingSkipped, NoSync, Comment

\* A step that leaves the syncs and the watermark alone.
LEMMA WatermarkElsewhere ==
  ASSUME WatermarkInv, syncer' = syncer, row'.seen = row.seen, row'.cursor = row.cursor,
         \A c \in Comment : Ingested(c) => Ingested(c)'
  PROVE  WatermarkInv'
BY DEF WatermarkInv, NothingSkipped, Ingested, First

\* What a fetched page holds, and what the watermark may then pass.
LEMMA PageCovers ==
  ASSUME TypeOK, NEW s \in Syncer, NEW p \in SUBSET Comment, NEW last \in 0..Comments,
         NEW cursor \in {0, syncer[s].cursor}, NEW c \in Comment,
         IsPage(p, Listed(syncer[s].seen - Overlap, cursor)), IsLast(p, last),
         ~(c <= syncer[s].seen), ~(c <= syncer[s].cursor), c <= last
  PROVE  c \in p
<1> USE InboxAssumption
<1> DEFINE all == Listed(syncer[s].seen - Overlap, cursor)
<1>1. /\ syncer[s].seen \in Nat /\ syncer[s].cursor \in Nat /\ cursor \in Nat /\ c \in Nat
      /\ last \in Nat /\ c > 0 /\ cursor <= syncer[s].cursor /\ listed \in Nat
  BY DEF TypeOK, Sync, Comment
<1>2. last \in p /\ last \in all
  BY <1>1 DEF IsLast, IsPage
<1>3. c \in all
  BY <1>1, <1>2 DEF Listed
<1>4. CASE c = last
  BY <1>2, <1>4
<1>5. CASE c < last
  BY <1>2, <1>3, <1>5 DEF IsPage
<1>6. QED
  BY <1>1, <1>4, <1>5

LEMMA WatermarkOfSync ==
  ASSUME TypeOK, WatermarkInv, NEW s \in Syncer, SyncStep(s) \/ CrashSync(s),
         \A c \in Comment : Ingested(c) => Ingested(c)'
  PROVE  WatermarkInv'
<1> USE InboxAssumption
<1>0. syncer \in [Syncer -> Sync] /\ row \in Row /\ Comment \subseteq Nat
      /\ status \in [Comment -> Status]
  BY DEF TypeOK, Comment
<1>1. CASE ReadState(s)
  BY <1>0, <1>1 DEF ReadState, WatermarkInv, NothingSkipped, NoSync, Ingested, First
<1>2. CASE Acquire(s)
  BY <1>0, <1>2 DEF Acquire, WatermarkInv, NothingSkipped, Row, Sync, Ingested, First
<1>3. CASE Locked(s) \/ SyncThrows(s) \/ CrashSync(s)
  <2>1. row' = row /\ status' = status
    BY <1>3 DEF Locked, SyncThrows, CrashSync
  <2>2. \A r \in Syncer \ {s} : syncer'[r] = syncer[r]
    BY <1>0, <1>3 DEF Locked, SyncThrows, CrashSync
  <2>3. \/ syncer'[s] = NoSync
        \/ syncer[s].at # "idle" /\ syncer'[s] = [syncer[s] EXCEPT !.at = "fail"]
    BY <1>0, <1>3 DEF Locked, SyncThrows, CrashSync
  <2>4. syncer'[s].at \in {"idle", "fail"}
        /\ (syncer'[s].at = "fail" => syncer[s].at # "idle" /\ syncer'[s].seen = syncer[s].seen
                                      /\ syncer'[s].cursor = syncer[s].cursor)
    BY <1>0, <2>3 DEF NoSync, Sync
  <2>5. QED
    BY <2>1, <2>2, <2>4 DEF WatermarkInv, NothingSkipped, Ingested, First
<1>4. ASSUME NEW p \in SUBSET Comment, NEW last \in 0..Comments,
             NEW cursor \in {0, syncer[s].cursor}, Fetch(s, p, last, cursor)
      PROVE  WatermarkInv'
  <2>1. row' = row /\ status' = status
        /\ (\A r \in Syncer \ {s} : syncer'[r] = syncer[r])
        /\ syncer'[s].at = "page" /\ syncer'[s].todo = p /\ syncer'[s].next = last
        /\ syncer'[s].max = (IF last > syncer[s].seen THEN last ELSE syncer[s].seen)
        /\ syncer'[s].seen = syncer[s].seen /\ syncer'[s].cursor = syncer[s].cursor
        /\ syncer[s].at # "idle"
    BY <1>0, <1>4 DEF Fetch, Sync
  <2>2. ASSUME NEW c \in Comment, c <= syncer'[s].max \/ c <= syncer'[s].next
        PROVE  Ingested(c) \/ c \in p
    <3>1. CASE c <= syncer[s].seen \/ c <= syncer[s].cursor
      BY <2>1, <3>1 DEF WatermarkInv
    <3>2. CASE ~(c <= syncer[s].seen) /\ ~(c <= syncer[s].cursor)
      <4>1. c <= last
        BY <1>0, <2>1, <2>2, <3>2 DEF Sync
      <4>2. QED
        BY <1>4, <3>2, <4>1, PageCovers DEF Fetch
    <3>3. QED
      BY <3>1, <3>2
  <2>3. QED
    BY <2>1, <2>2 DEF WatermarkInv, NothingSkipped, Ingested, First
<1>5. ASSUME NEW c \in Comment, Ingest(s, c)
      PROVE  WatermarkInv'
  <2>1. row' = row /\ First(s, c) /\ syncer[s].at = "page"
        /\ \A r \in Syncer \ {s} : syncer'[r] = syncer[r]
    BY <1>0, <1>5 DEF Ingest
  <2>2. Ingested(c)'
    BY <1>0, <1>5 DEF Ingest, Ingested
  <2>3. /\ syncer'[s].seen = syncer[s].seen /\ syncer'[s].cursor = syncer[s].cursor
        /\ syncer'[s].max = syncer[s].max /\ syncer'[s].next = syncer[s].next
        /\ \/ syncer'[s].at = "page" /\ syncer'[s].todo = syncer[s].todo \ {c}
           \/ syncer'[s].at = "enqueue" /\ syncer'[s].todo = syncer[s].todo
    BY <1>0, <1>5 DEF Ingest, Sync
  <2>4. \A d \in Comment : First(s, d) => d = c
    BY <2>1, FirstIsOne
  <2>5. QED
    BY <2>1, <2>2, <2>3, <2>4 DEF WatermarkInv, NothingSkipped, Ingested, First
<1>6. ASSUME NEW c \in Comment, EnqueueClassify(s, c)
      PROVE  WatermarkInv'
  <2>1. row' = row /\ status' = status /\ Ingested(c) /\ syncer[s].at = "enqueue"
        /\ \A r \in Syncer \ {s} : syncer'[r] = syncer[r]
    BY <1>0, <1>6 DEF EnqueueClassify, WatermarkInv
  <2>2. /\ syncer'[s].seen = syncer[s].seen /\ syncer'[s].cursor = syncer[s].cursor
        /\ syncer'[s].max = syncer[s].max /\ syncer'[s].next = syncer[s].next
        /\ syncer'[s].at = "page" /\ syncer'[s].todo = syncer[s].todo \ {c}
    BY <1>0, <1>6 DEF EnqueueClassify, Sync
  <2>3. QED
    BY <2>1, <2>2 DEF WatermarkInv, NothingSkipped, Ingested, First
<1>7. CASE Release(s)
  <2>1. status' = status /\ syncer'[s].at = "idle" /\ syncer[s].at = "page" /\ syncer[s].todo = {}
        /\ \A r \in Syncer \ {s} : syncer'[r] = syncer[r]
    BY <1>0, <1>7 DEF Release, NoSync
  <2>2. \/ row' = row
        \/ row'.seen = syncer[s].max /\ row'.cursor = syncer[s].next
    <3>1. CASE row.holder # s
      BY <1>7, <3>1 DEF Release
    <3>2. CASE row.holder = s
      BY <1>7, <3>2 DEF Release
    <3>3. QED
      BY <3>1, <3>2
  <2>3. QED
    BY <2>1, <2>2 DEF WatermarkInv, NothingSkipped, Ingested, First
<1>8. CASE Fail(s)
  <2>1. status' = status /\ syncer'[s].at = "idle"
        /\ \A r \in Syncer \ {s} : syncer'[r] = syncer[r]
    BY <1>0, <1>8 DEF Fail, NoSync
  <2>2. row'.seen = row.seen /\ row'.cursor = row.cursor
    BY <1>0, <1>8 DEF Fail, Row
  <2>3. QED
    BY <2>1, <2>2 DEF WatermarkInv, NothingSkipped, Ingested, First
<1>9. QED
  BY <1>1, <1>2, <1>3, <1>4, <1>5, <1>6, <1>7, <1>8 DEF SyncStep

LEMMA WatermarkOfStep == TypeOK /\ WatermarkInv /\ [Next]_vars => WatermarkInv'
<1> SUFFICES ASSUME TypeOK, WatermarkInv, [Next]_vars
             PROVE  WatermarkInv'
  OBVIOUS
<1>1. CASE UNCHANGED vars
  BY <1>1 DEF WatermarkInv, NothingSkipped, Ingested, First, vars, syncVars
<1>2. CASE Next
  <2>1. \A c \in Comment : Ingested(c) => Ingested(c)'
    BY <1>2, IngestedKept
  <2>2. CASE \E s \in Syncer : SyncStep(s) \/ CrashSync(s)
    BY <2>1, <2>2, WatermarkOfSync
  <2>3. CASE ~\E s \in Syncer : SyncStep(s) \/ CrashSync(s)
    <3>1. syncer' = syncer /\ row'.seen = row.seen /\ row'.cursor = row.cursor
      BY <1>2, <2>3 DEF Next, ClassifyStep, Take, StartClassify, Decide, EnqueueDraft,
           Complete, ClassifyFails, CrashClassify, ScanStep, ReadStale, ResetStale,
           EnqueueStale, ScanThrows, ReadExpired, ClearLease, List, LeaseRunsOut, DraftStep,
           Draft, DraftFails, Dismiss, syncVars, TypeOK, Row
    <3>2. QED
      BY <2>1, <3>1, WatermarkElsewhere
  <2>4. QED
    BY <2>2, <2>3
<1>3. QED
  BY <1>1, <1>2

\* The ingest processor's watermark and cursor never pass a comment that is not in the
\* inbox, whatever syncs overlap, fail, crash or come late.
THEOREM WatermarkSafe == Spec => []NothingSkipped
<1>1. WatermarkInv => NothingSkipped
  BY DEF WatermarkInv
<1>2. QED
  BY <1>1, TypeCorrect, WatermarkInitially, WatermarkOfStep, PTL DEF Spec

-----------------------------------------------------------------------------
(* The loop breaker *)

LEMMA OwnInitially == Init => OwnInv
<1> USE InboxAssumption
<1>1. QED
  BY DEF Init, OwnInv, OwnNeverAnswered, NoSync, NoJob, Comment

LEMMA OwnOfSync ==
  ASSUME TypeOK, OwnInv, NEW s \in Syncer, SyncStep(s) \/ CrashSync(s)
  PROVE  OwnInv'
<1> USE InboxAssumption
<1>0. syncer \in [Syncer -> Sync] /\ Comment \subseteq Nat
      /\ status \in [Comment -> Status] /\ Own \subseteq Comment
  BY DEF TypeOK, Comment
<1>1. classifier' = classifier /\ drafts' = drafts /\ stale' = stale /\ resetting' = resetting
  BY DEF SyncStep, CrashSync, ReadState, Acquire, Locked, Fetch, Ingest, EnqueueClassify,
         Release, SyncThrows, Fail, classifyVars, draftVars, scanVars, resetVars
<1>2. ASSUME NEW c \in Comment, Ingest(s, c)
      PROVE  OwnInv'
  <2>1. jobs' = jobs /\ (\A r \in Syncer \ {s} : syncer'[r] = syncer[r]) /\ First(s, c)
    BY <1>0, <1>2 DEF Ingest, classifyVars, draftVars
  <2>2. \/ status' = status /\ syncer'[s].at = "page"
        \/ c \in Own /\ status' = [status EXCEPT ![c] = "REPLIED"] /\ syncer'[s].at = "page"
        \/ c \notin Own /\ status' = [status EXCEPT ![c] = "NEW"] /\ syncer'[s].todo = syncer[s].todo
    BY <1>0, <1>2 DEF Ingest, Sync
  <2>3. \A d \in Comment : First(s, d) => d = c
    BY <2>1, FirstIsOne
  <2>4. \A d \in Own : status'[d] \in Terminal \cup {"NONE"}
    BY <1>0, <2>2 DEF OwnInv, OwnNeverAnswered, Terminal
  <2>5. syncer'[s].at = "enqueue" => \A d \in Comment : First(s, d)' => d \notin Own
    BY <2>2, <2>3 DEF First
  <2>6. QED
    BY <1>1, <2>1, <2>4, <2>5 DEF OwnInv, OwnNeverAnswered, First
<1>3. ASSUME NEW c \in Comment, EnqueueClassify(s, c)
      PROVE  OwnInv'
  <2>1. c \notin Own /\ status' = status /\ jobs' \subseteq jobs \cup {c}
        /\ syncer'[s].at = "page" /\ \A r \in Syncer \ {s} : syncer'[r] = syncer[r]
    BY <1>0, <1>3 DEF EnqueueClassify, Enqueued, OwnInv, Sync
  <2>2. QED
    BY <1>1, <2>1 DEF OwnInv, OwnNeverAnswered, First
<1>4. CASE ~\E c \in Comment : Ingest(s, c) \/ EnqueueClassify(s, c)
  <2>1. jobs' = jobs /\ status' = status
        /\ \A r \in Syncer \ {s} : syncer'[r] = syncer[r]
    BY <1>0, <1>4 DEF SyncStep, CrashSync, ReadState, Acquire, Locked, Fetch, Release,
                      SyncThrows, Fail, classifyVars, draftVars
  <2>2. syncer'[s].at # "enqueue"
    <3>0. NoSync.at = "idle"
      BY DEF NoSync
    <3>1. CASE Locked(s) \/ Release(s) \/ Fail(s) \/ CrashSync(s)
      <4>1. syncer' = [syncer EXCEPT ![s] = NoSync]
        BY <3>1 DEF Locked, Release, Fail, CrashSync
      <4>2. QED
        BY <1>0, <3>0, <4>1
    <3>2. CASE ReadState(s)
      BY <1>0, <3>2 DEF ReadState, NoSync
    <3>3. CASE Acquire(s) \/ SyncThrows(s)
      BY <1>0, <3>3 DEF Acquire, SyncThrows, Sync
    <3>4. ASSUME NEW p \in SUBSET Comment, NEW last \in 0..Comments,
                 NEW cursor \in {0, syncer[s].cursor}, Fetch(s, p, last, cursor)
          PROVE  syncer'[s].at # "enqueue"
      BY <1>0, <3>4 DEF Fetch, Sync
    <3>5. QED
      BY <1>4, <3>1, <3>2, <3>3, <3>4 DEF SyncStep
  <2>3. QED
    BY <1>1, <2>1, <2>2 DEF OwnInv, OwnNeverAnswered, First
<1>5. QED
  BY <1>2, <1>3, <1>4

LEMMA OwnOfOthers ==
  ASSUME TypeOK, OwnInv, Next, ~\E s \in Syncer : SyncStep(s) \/ CrashSync(s)
  PROVE  OwnInv'
<1> USE InboxAssumption
<1>0. status \in [Comment -> Status] /\ Own \subseteq Comment
      /\ classifier \in [Classifier -> Job]
  BY DEF TypeOK, Comment
<1>1. syncer' = syncer
  BY DEF Next, ClassifyStep, Take, StartClassify, Decide, EnqueueDraft, Complete,
         ClassifyFails, CrashClassify, ScanStep, ReadStale, ResetStale, EnqueueStale,
         ScanThrows, ReadExpired, ClearLease, List, LeaseRunsOut, DraftStep, Draft, DraftFails,
         Dismiss, syncVars
<1>2. ASSUME NEW k \in Classifier, ClassifyStep(k) \/ ClassifyFails(k) \/ CrashClassify(k)
      PROVE  OwnInv'
  <2>1. \A j \in Classifier : classifier'[j].at # "idle" => classifier'[j].comment \notin Own
    BY <1>0, <1>2 DEF ClassifyStep, Take, StartClassify, Decide, EnqueueDraft, Complete,
         ClassifyFails, CrashClassify, OwnInv, OwnNeverAnswered, Job, NoJob
  <2>2. \A c \in Own : status'[c] = status[c]
    BY <1>0, <1>2 DEF ClassifyStep, Take, StartClassify, Decide, EnqueueDraft, Complete,
         ClassifyFails, CrashClassify, OwnInv
  <2>3. /\ jobs' \subseteq jobs \cup {classifier[k].comment}
        /\ drafts' \subseteq drafts \cup {classifier[k].comment}
        /\ stale' = stale /\ resetting' = resetting
        /\ \/ jobs' \subseteq jobs /\ drafts' \subseteq drafts
           \/ classifier[k].at # "idle"
    BY <1>0, <1>2 DEF ClassifyStep, Take, StartClassify, Decide, EnqueueDraft, Complete,
         ClassifyFails, CrashClassify, draftVars, scanVars, resetVars
  <2>4. QED
    BY <1>1, <2>1, <2>2, <2>3 DEF OwnInv, OwnNeverAnswered, First
<1>3. CASE ReadStale
  BY <1>1, <1>3 DEF ReadStale, OwnInv, OwnNeverAnswered, Terminal, First, classifyVars, draftVars
<1>4. ASSUME NEW c \in Comment, ResetStale(c)
      PROVE  OwnInv'
  BY <1>0, <1>1, <1>4 DEF ResetStale, OwnInv, OwnNeverAnswered, First, classifyVars, draftVars
<1>8. CASE EnqueueStale \/ ScanThrows
  BY <1>0, <1>1, <1>8 DEF EnqueueStale, ScanThrows, Enqueued, OwnInv, OwnNeverAnswered, First,
       classifyVars, draftVars
<1>5. ASSUME NEW c \in Comment, DraftStep(c) \/ DraftFails(c) \/ Dismiss(c)
      PROVE  OwnInv'
  BY <1>0, <1>1, <1>5 DEF DraftStep, Draft, DraftFails, Dismiss, Terminal, OwnInv,
       OwnNeverAnswered, First, classifyVars, draftVars, scanVars, resetVars
<1>6. CASE ReadExpired \/ ClearLease \/ List \/ LeaseRunsOut
  BY <1>1, <1>6 DEF ReadExpired, ClearLease, List, LeaseRunsOut, OwnInv, OwnNeverAnswered,
       First, classifyVars, draftVars, scanVars, resetVars
<1>7. QED
  BY <1>2, <1>3, <1>4, <1>5, <1>6, <1>8 DEF Next, ScanStep

LEMMA OwnOfStep == TypeOK /\ OwnInv /\ [Next]_vars => OwnInv'
<1> SUFFICES ASSUME TypeOK, OwnInv, [Next]_vars
             PROVE  OwnInv'
  OBVIOUS
<1>1. CASE UNCHANGED vars
  BY <1>1 DEF OwnInv, OwnNeverAnswered, First, vars, syncVars, classifyVars, draftVars, scanVars,
       resetVars
<1>2. CASE Next
  BY <1>2, OwnOfSync, OwnOfOthers
<1>3. QED
  BY <1>1, <1>2

\* The loop breaker of the ingest processor: no job, scan, retry or restart ever leads to
\* an answer to the account's own comments.
THEOREM OwnSafe == Spec => []OwnNeverAnswered
<1>1. OwnInv => OwnNeverAnswered
  BY DEF OwnInv
<1>2. QED
  BY <1>1, TypeCorrect, OwnInitially, OwnOfStep, PTL DEF Spec

=============================================================================
