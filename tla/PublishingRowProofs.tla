------------------------ MODULE PublishingRowProofs ------------------------
(***************************************************************************)
(* What a scheduled_posts row keeps: a final status, its ambiguity and the *)
(* cap on its containers.  The invariant says what a lease means and what  *)
(* the steps of process() rely on between their fenced writes.  Then what  *)
(* the rows say of the platform: a recorded post exists, its text is the   *)
(* one that was scheduled, a draft is scheduled again only when its row    *)
(* was released, and the whole implements PublishOnce.                     *)
(***************************************************************************)
EXTENDS PublishingProofs

\* One row by itself: a held row is in a leased status, and the two properties.
RowOK(p) ==
  /\ row[p].holder # NoWorker => row[p].status \in Leased
  /\ row[p].creates <= MaxCreates
  /\ Ambiguous(p) =>
       /\ row[p].container
       /\ row[p].status \notin {"NONE", "SCHEDULED", "CREATING_CONTAINER", "EXPIRED",
                                "FAILED_PERMANENT"}
       /\ row[p].status = "CANCELLED" => p \in attested

\* process() creates a container only without one, and polls only with one.
SlotOK(w) ==
  /\ wk[w].pc \in {"container", "creating"} => ~wk[w].container
  /\ wk[w].pc \in {"poll", "publish", "send", "await", "recover", "commit"} =>
       wk[w].container

\* Under a live lease the row is in CREATING_CONTAINER only while it is, and its count
\* of containers is the one the snapshot shows.
LinkOK(w) ==
  wk[w].pc # "idle" /\ Fenced(w) =>
    /\ wk[w].pc # "creating" => row[wk[w].post].status # "CREATING_CONTAINER"
    /\ wk[w].pc \in {"gate", "container"} => row[wk[w].post].creates = wk[w].creates

\* A row that Scan 4 is about to fail stays as Scan 4 read it.
DoomOK(p) == p \in doomed => Stale(p) /\ StaleExhausted(p)

RowInv ==
  /\ \A p \in Post : RowOK(p) /\ DoomOK(p)
  /\ \A w \in Worker : SlotOK(w) /\ LinkOK(w)

FinalKept == \A p \in Post : row[p].status \in Final => row'[p].status = row[p].status

-----------------------------------------------------------------------------
(* Steps of a worker *)

\* A worker changes its own slot and one row, which it holds afterwards or lets go.
LEMMA OwnStep ==
  ASSUME TypeOK, TypeOK', RowInv, NEW w \in Worker, NEW p \in Post,
         attested' = attested, doomed' = doomed,
         \A q \in Post : q # p => row'[q] = row[q],
         \A v \in Worker : v # w => wk'[v] = wk[v],
         \/ row'[p] = row[p]
         \/ /\ row'[p].holder \in {w, NoWorker}
            /\ p \notin doomed /\ row[p].status \notin Final,
         RowOK(p)', SlotOK(w)', LinkOK(w)'
  PROVE  RowInv' /\ FinalKept
<1>1. FinalKept
  BY DEF FinalKept
<1>2. \A q \in Post : q # p => RowOK(q)' /\ DoomOK(q)'
  BY DEF RowInv, RowOK, DoomOK, Ambiguous, Stale, StaleExhausted, LooksAmbiguous
<1>3. DoomOK(p)'
  BY DEF RowInv, DoomOK, Ambiguous, Stale, StaleExhausted, LooksAmbiguous
<1>4. ASSUME NEW v \in Worker, v # w PROVE SlotOK(v)' /\ LinkOK(v)'
  <2>1. wk'[v] = wk[v] /\ (wk[v].pc # "idle" => wk[v].post \in Post)
    BY <1>4, AtWork
  <2>2. SlotOK(v)'
    BY <2>1 DEF RowInv, SlotOK
  <2>3. LinkOK(v)' \/ ~(wk[v].post = p /\ row'[p] # row[p])
    BY <1>4, <2>1, NullAssumption DEF LinkOK, Fenced
  <2>4. LinkOK(v)' \/ (wk[v].post = p /\ row'[p] # row[p])
    BY <2>1 DEF RowInv, LinkOK, Fenced
  <2> QED
    BY <2>2, <2>3, <2>4
<1> QED
  BY <1>1, <1>2, <1>3, <1>4 DEF RowInv

\* What a live lease says of the row.
LEMMA Held ==
  ASSUME TypeOK, RowInv, NEW w \in Worker, wk[w].pc # "idle", Fenced(w)
  PROVE  /\ wk[w].post \in Post /\ row[wk[w].post] \in Row
         /\ row[wk[w].post].holder = w /\ w # NoWorker
         /\ row[wk[w].post].status \in Leased /\ row[wk[w].post].status \notin Final
         /\ wk[w].post \notin doomed
<1>1. wk[w].post \in Post /\ row[wk[w].post] \in Row
  BY AtWork DEF TypeOK
<1>2. row[wk[w].post].holder = w /\ row[wk[w].post].live /\ w # NoWorker
  BY NullAssumption DEF Fenced
<1>3. row[wk[w].post].status \in Leased
  BY <1>1, <1>2 DEF RowInv, RowOK
<1>4. Leased \cap Final = {}
  BY DEF Leased, Final
<1> QED
  BY <1>1, <1>2, <1>3, <1>4 DEF RowInv, DoomOK, Stale

\* A record a row may become when its worker lets it go.
Good(r) ==
  /\ r.holder = NoWorker /\ r.creates <= MaxCreates
  /\ r.requested \/ r.ambiguous =>
       /\ r.container
       /\ r.status \notin {"NONE", "SCHEDULED", "CREATING_CONTAINER", "EXPIRED",
                           "FAILED_PERMANENT", "CANCELLED"}

Closing == {"NONE", "SCHEDULED", "CREATING_CONTAINER", "EXPIRED", "FAILED_PERMANENT",
            "CANCELLED"}

LEMMA ReleasedFields ==
  ASSUME TypeOK, NEW p \in Post, NEW s \in Status, NEW r,
         r = Released(p, s) \/ r = RetryLater(p, s)
  PROVE  /\ r \in Row /\ r.status = s /\ r.holder = NoWorker
         /\ r.requested = row[p].requested /\ r.ambiguous = row[p].ambiguous
         /\ r.container = row[p].container /\ r.creates = row[p].creates
<1>1. row[p] \in Row /\ Released(p, s) \in Row
  BY ReleasedType DEF TypeOK
<1>2. CASE r = Released(p, s)
  BY <1>1, <1>2 DEF Released, Row
<1>3. CASE r = RetryLater(p, s)
  <2>1. PICK t : t = Released(p, s)
    OBVIOUS
  <2>2. /\ t \in Row /\ t.status = s /\ t.holder = NoWorker
        /\ t.requested = row[p].requested /\ t.ambiguous = row[p].ambiguous
        /\ t.container = row[p].container /\ t.creates = row[p].creates
    BY <1>1, <2>1 DEF Released, Row
  <2> QED
    BY <1>3, <2>1, <2>2 DEF RetryLater, Row
<1> QED
  BY <1>2, <1>3

LEMMA GoodReleased ==
  ASSUME TypeOK, RowInv, NEW p \in Post, NEW s \in Status, s \in Closing => ~Ambiguous(p)
  PROVE  Good(Released(p, s)) /\ Good(RetryLater(p, s))
<1>1. RowOK(p)
  BY DEF RowInv
<1> QED
  BY <1>1, ReleasedFields DEF Good, RowOK, Ambiguous, Closing

LEMMA IdleOK ==
  ASSUME TypeOK, NEW w \in Worker, End(w)
  PROVE  /\ SlotOK(w)' /\ LinkOK(w)'
         /\ \A v \in Worker : v # w => wk'[v] = wk[v]
<1>1. wk'[w] = Idle /\ \A v \in Worker : v # w => wk'[v] = wk[v]
  BY DEF End, TypeOK
<1> QED
  BY <1>1 DEF SlotOK, LinkOK, Idle

LEMMA EndsKept ==
  ASSUME TypeOK, TypeOK', RowInv, NEW w \in Worker, wk[w].pc # "idle",
         attested' = attested, doomed' = doomed, End(w), row' = row
  PROVE  RowInv' /\ FinalKept
<1>1. PICK p \in Post : wk[w].post = p
  BY AtWork
<1>2. RowOK(p)'
  BY DEF RowInv, RowOK, Ambiguous
<1> QED
  BY <1>2, IdleOK, OwnStep

LEMMA ReleaseKept ==
  ASSUME TypeOK, TypeOK', RowInv, NEW w \in Worker, wk[w].pc # "idle", Fenced(w),
         attested' = attested, doomed' = doomed, End(w),
         NEW r, Good(r), Update(wk[w].post, r)
  PROVE  RowInv' /\ FinalKept
<1> PICK p \in Post : wk[w].post = p
  BY AtWork
<1>1. p \notin doomed /\ row[p].status \notin Final
  BY Held
<1>2. row'[p] = r /\ \A q \in Post : q # p => row'[q] = row[q]
  BY <1>1 DEF Update, TypeOK
<1>3. RowOK(p)'
  BY <1>2 DEF Good, RowOK, Ambiguous
<1>4. row'[p].holder = NoWorker
  BY <1>2 DEF Good
<1> QED
  BY <1>1, <1>2, <1>3, <1>4, IdleOK, OwnStep

LEMMA EndWithOK ==
  ASSUME TypeOK, TypeOK', RowInv, NEW w \in Worker, wk[w].pc # "idle",
         attested' = attested, doomed' = doomed,
         NEW r, Fenced(w) => Good(r), EndWith(w, r)
  PROVE  RowInv' /\ FinalKept
<1>1. CASE Fenced(w)
  BY <1>1, ReleaseKept DEF EndWith
<1>2. CASE ~Fenced(w)
  BY <1>2, EndsKept DEF EndWith
<1> QED
  BY <1>1, <1>2

\* A worker goes on: the row is left alone, or changed under a live lease and kept.
LEMMA OnStep ==
  ASSUME TypeOK, TypeOK', RowInv, NEW w \in Worker, wk[w].pc # "idle",
         attested' = attested, doomed' = doomed,
         NEW p \in Post, wk[w].post = p, NEW s, wk' = [wk EXCEPT ![w] = s], NEW r,
         row' = row \/ (Fenced(w) /\ r.holder = w /\ Update(p, r)),
         RowOK(p)', SlotOK(w)', LinkOK(w)'
  PROVE  RowInv' /\ FinalKept
<1>1. \A v \in Worker : v # w => wk'[v] = wk[v]
  BY DEF TypeOK
<1>2. CASE row' = row
  BY <1>1, <1>2, OwnStep
<1>3. CASE Fenced(w) /\ r.holder = w /\ Update(p, r)
  <2>1. p \notin doomed /\ row[p].status \notin Final
    BY <1>3, Held
  <2>2. row'[p].holder = w /\ \A q \in Post : q # p => row'[q] = row[q]
    BY <1>3 DEF Update, TypeOK
  <2> QED
    BY <1>1, <2>1, <2>2, OwnStep
<1> QED
  BY <1>2, <1>3

LEMMA LeasedNames ==
  /\ {"CLAIMED", "CREATING_CONTAINER", "CONTAINER_CREATED", "PUBLISHING"} = Leased
  /\ Leased \cap Final = {} /\ {"FAILED_RETRYABLE", "QUOTA_BLOCKED", "SCHEDULED"} \cap Final = {}
BY DEF Leased, Final

LEMMA RowClaim ==
  ASSUME TypeOK, TypeOK', SendInv, RowInv, NEW w \in Worker
  PROVE  /\ \A p \in Post, j \in JobId :
              Claim(w, p, j) \/ ClaimMisses(w, p, j) => RowInv' /\ FinalKept
         /\ GiveUp(w) \/ Begin(w) \/ QuotaBlocked(w) \/ PassGate(w) => RowInv' /\ FinalKept
<1> USE DEF rowVars
<1>1. ASSUME NEW p \in Post, NEW j \in JobId, Claim(w, p, j) PROVE RowInv' /\ FinalKept
  <2>1. row[p] \in Row /\ RowOK(p) /\ DoomOK(p)
    BY DEF TypeOK, RowInv
  <2>2. /\ row'[p] = [row[p] EXCEPT !.status = "CLAIMED", !.holder = w, !.live = TRUE]
        /\ \A q \in Post : q # p => row'[q] = row[q]
        /\ wk'[w].pc = "read" /\ wk'[w].post = p
        /\ \A v \in Worker : v # w => wk'[v] = wk[v]
        /\ attested' = attested /\ doomed' = doomed
    BY <1>1 DEF Claim, Update, TypeOK, Idle
  <2>3. /\ row'[p].status = "CLAIMED" /\ row'[p].holder = w
        /\ row'[p].creates = row[p].creates /\ row'[p].container = row[p].container
        /\ row'[p].requested = row[p].requested /\ row'[p].ambiguous = row[p].ambiguous
    BY <2>1, <2>2 DEF Row
  <2>4. p \notin doomed
    BY <1>1, <2>1, LimitAssumption
    DEF Claim, Claimable, CanRetry, DoomOK, Stale, StaleExhausted, LooksAmbiguous,
        Ambiguous, Leased, Row
  <2>5. row[p].status \notin Final
    BY <1>1, LeasedNames DEF Claim, Claimable
  <2>6. RowOK(p)'
    BY <2>1, <2>3, LeasedNames DEF RowOK, Ambiguous
  <2>7. SlotOK(w)' /\ LinkOK(w)'
    BY <2>2, <2>3 DEF SlotOK, LinkOK
  <2> QED
    BY <2>2, <2>3, <2>4, <2>5, <2>6, <2>7, OwnStep
<1>2. ASSUME NEW p \in Post, NEW j \in JobId, ClaimMisses(w, p, j) PROVE RowInv' /\ FinalKept
  BY <1>2 DEF ClaimMisses, RowInv, FinalKept, RowOK, DoomOK, SlotOK, LinkOK, Ambiguous,
              Stale, StaleExhausted, LooksAmbiguous, Fenced
<1>3. ASSUME GiveUp(w) PROVE RowInv' /\ FinalKept
  <2>1. wk[w].pc # "idle" /\ wk[w].post \in Post /\ ~Ambiguous(wk[w].post)
    BY <1>3, AtWork DEF GiveUp, Working, TooLate, OutOfAttempts, LooksAmbiguous
  <2>2. PICK s \in {"EXPIRED", "FAILED_PERMANENT"} : EndWith(w, Released(wk[w].post, s))
    BY <1>3 DEF GiveUp
  <2>3. Good(Released(wk[w].post, s))
    BY <2>1, StatusNames, GoodReleased
  <2> QED
    BY <1>3, <2>1, <2>2, <2>3, EndWithOK DEF GiveUp
<1>4. ASSUME Begin(w) PROVE RowInv' /\ FinalKept
  <2>1. wk[w].pc = "read" /\ wk[w] \in WorkerState /\ row' = row
        /\ attested' = attested /\ doomed' = doomed
    BY <1>4, AtWork DEF Begin, Working
  <2>2. PICK p \in Post : wk[w].post = p
    BY <2>1, AtWork
  <2>3. PICK s : s = [wk[w] EXCEPT !.pc = "gate", !.attempts = row[p].attempts,
                        !.creates = row[p].creates, !.container = row[p].container,
                        !.ambiguous = LooksAmbiguous(p)]
    OBVIOUS
  <2>4. wk' = [wk EXCEPT ![w] = s]
    BY <1>4, <2>2, <2>3 DEF Begin
  <2>5. wk'[w] = s /\ s.pc = "gate" /\ s.post = p /\ s.creates = row[p].creates
    BY <2>1, <2>2, <2>3, <2>4 DEF TypeOK, WorkerState
  <2>6. LinkOK(w) /\ RowOK(p)
    BY DEF RowInv
  <2>7. RowOK(p)' /\ SlotOK(w)'
    BY <2>1, <2>5, <2>6 DEF RowOK, Ambiguous, SlotOK
  <2>8. LinkOK(w)'
    BY <2>1, <2>2, <2>5, <2>6 DEF LinkOK, Fenced
  <2> QED
    BY <2>1, <2>2, <2>4, <2>7, <2>8, OnStep
<1>5. ASSUME QuotaBlocked(w) PROVE RowInv' /\ FinalKept
  <2>1. wk[w].pc # "idle" /\ wk[w].post \in Post
    BY <1>5, AtWork DEF QuotaBlocked, Working
  <2>2. Good(RetryLater(wk[w].post, "QUOTA_BLOCKED"))
    BY <2>1, StatusNames, GoodReleased DEF Closing
  <2> QED
    BY <1>5, <2>1, <2>2, EndWithOK DEF QuotaBlocked
<1>6. ASSUME PassGate(w) PROVE RowInv' /\ FinalKept
  <2>1. wk[w].pc = "gate" /\ wk[w] \in WorkerState
        /\ attested' = attested /\ doomed' = doomed
    BY <1>6, AtWork DEF PassGate, Working
  <2>2. PICK p \in Post : wk[w].post = p
    BY <2>1, AtWork
  <2>3. CASE Fenced(w)
    <3>1. PICK r, s :
            /\ r = [row[p] EXCEPT !.attempts = NextAttempt(@)]
            /\ s = [wk[w] EXCEPT !.attempts = NextAttempt(@),
                                 !.pc = IF wk[w].container THEN "poll" ELSE "container"]
            /\ Update(p, r) /\ wk' = [wk EXCEPT ![w] = s]
      BY <1>6, <2>2, <2>3 DEF PassGate, FencedStep
    <3>2. /\ wk'[w] = s /\ s.post = p /\ s.creates = wk[w].creates
          /\ s.container = wk[w].container
          /\ s.pc = IF wk[w].container THEN "poll" ELSE "container"
      BY <2>1, <2>2, <3>1 DEF TypeOK, WorkerState
    <3>3. /\ row'[p] = r /\ r.status = row[p].status /\ r.holder = row[p].holder
          /\ r.creates = row[p].creates /\ r.container = row[p].container
          /\ r.requested = row[p].requested /\ r.ambiguous = row[p].ambiguous
      BY <3>1 DEF TypeOK, Row, Update
    <3>4. LinkOK(w) /\ RowOK(p) /\ r.holder = w
      BY <2>2, <2>3, <3>3 DEF RowInv, Fenced
    <3>5. RowOK(p)' /\ SlotOK(w)'
      BY <2>1, <3>2, <3>3, <3>4 DEF RowOK, Ambiguous, SlotOK
    <3>6. LinkOK(w)'
      BY <2>1, <2>2, <2>3, <3>2, <3>3, <3>4 DEF LinkOK
    <3> QED
      BY <2>1, <2>2, <2>3, <3>1, <3>4, <3>5, <3>6, OnStep
  <2>4. CASE ~Fenced(w)
    BY <1>6, <2>1, <2>4, EndsKept DEF PassGate, FencedStep
  <2> QED
    BY <2>3, <2>4
<1> QED
  BY <1>1, <1>2, <1>3, <1>4, <1>5, <1>6

\* The steps that need a container.
WithContainer == {"poll", "publish", "send", "await", "recover", "commit"}

\* A worker with a container moves on and leaves its row alone, or marks it ambiguous.
LEMMA MovesOn ==
  ASSUME TypeOK, TypeOK', SendInv, RowInv, NEW w \in Worker, wk[w].pc \in WithContainer,
         attested' = attested, doomed' = doomed,
         NEW p \in Post, wk[w].post = p, NEW s, wk' = [wk EXCEPT ![w] = s],
         s.post = p, s.pc \in WithContainer, s.container = wk[w].container,
         row' = row \/ (Fenced(w) /\ Update(p, [row[p] EXCEPT !.ambiguous = TRUE]))
  PROVE  RowInv' /\ FinalKept
<1>1. /\ wk'[w] = s /\ wk[w].container /\ RowOK(p) /\ LinkOK(w) /\ row[p] \in Row
      /\ wk[w].pc # "idle" /\ wk[w].pc # "read" /\ wk[w].pc # "creating"
  BY DEF TypeOK, RowInv, SlotOK, WithContainer
<1>2. SlotOK(w)'
  BY <1>1 DEF SlotOK, WithContainer
<1>3. CASE row' = row
  <2>1. RowOK(p)' /\ LinkOK(w)'
    BY <1>1, <1>3 DEF RowOK, LinkOK, Fenced, Ambiguous, WithContainer
  <2> QED
    BY <1>1, <1>2, <1>3, <2>1, OnStep
<1>4. CASE Fenced(w) /\ Update(p, [row[p] EXCEPT !.ambiguous = TRUE])
  <2>1. PICK r : r = [row[p] EXCEPT !.ambiguous = TRUE]
    OBVIOUS
  <2>2. /\ row'[p] = r /\ r.status = row[p].status /\ r.holder = row[p].holder
        /\ r.creates = row[p].creates /\ r.container = row[p].container
    BY <1>1, <1>4, <2>1 DEF TypeOK, Row, Update
  <2>3. r.holder = w /\ row[p].status \in Leased /\ row[p].status # "CREATING_CONTAINER"
    BY <1>1, <1>4, <2>2, Held DEF Fenced, LinkOK
  <2>4. r.container
    BY <1>1, <1>4, <2>2 DEF SendInv, SnapshotCurrent
  <2>5. RowOK(p)'
    BY <1>1, <2>2, <2>3, <2>4, LeasedNames DEF RowOK, Leased
  <2>6. LinkOK(w)'
    BY <1>1, <2>2, <2>3 DEF LinkOK, WithContainer
  <2> QED
    BY <1>1, <1>2, <1>4, <2>1, <2>3, <2>5, <2>6, OnStep
<1> QED
  BY <1>3, <1>4

\* Under a live lease, a worker that knows of no ambiguity has an unambiguous row.
LEMMA Certain ==
  ASSUME TypeOK, SendInv, RowInv, NEW w \in Worker, wk[w].pc \notin {"idle", "read"},
         Fenced(w), ~wk[w].ambiguous \/ wk[w].pc \in {"container", "creating"}
  PROVE  ~Ambiguous(wk[w].post)
<1>1. wk[w].post \in Post /\ SlotOK(w) /\ RowOK(wk[w].post)
  BY AtWork DEF RowInv
<1>2. /\ row[wk[w].post].container = wk[w].container
      /\ Ambiguous(wk[w].post) => wk[w].ambiguous
  BY DEF SendInv, SnapshotCurrent
<1> QED
  BY <1>1, <1>2 DEF SlotOK, RowOK

LEMMA RowContainer ==
  ASSUME TypeOK, TypeOK', SendInv, RowInv, NEW w \in Worker
  PROVE  /\ CreatesExhausted(w) \/ StartCreate(w) \/ ContainerCreated(w) => RowInv' /\ FinalKept
         /\ PollFinished(w) \/ PollPublished(w) \/ PollBypassed(w) => RowInv' /\ FinalKept
         /\ ContainerError(w) \/ ContainerExpired(w) => RowInv' /\ FinalKept
<1> USE DEF rowVars
<1>1. ASSUME CreatesExhausted(w) \/ ContainerError(w) PROVE RowInv' /\ FinalKept
  <2>1. /\ wk[w].pc \in {"container", "poll"} /\ wk[w].post \in Post
        /\ EndWith(w, Released(wk[w].post, "FAILED_PERMANENT"))
        /\ attested' = attested /\ doomed' = doomed
        /\ wk[w].pc = "poll" => ~wk[w].ambiguous
    BY <1>1, AtWork DEF CreatesExhausted, ContainerError, Working
  <2>2. Fenced(w) => Good(Released(wk[w].post, "FAILED_PERMANENT"))
    BY <2>1, Certain, StatusNames, GoodReleased
  <2> QED
    BY <2>1, <2>2, EndWithOK
<1>2. ASSUME StartCreate(w) PROVE RowInv' /\ FinalKept
  <2>1. wk[w].pc = "container" /\ wk[w] \in WorkerState /\ wk[w].creates < MaxCreates
        /\ attested' = attested /\ doomed' = doomed
    BY <1>2, AtWork DEF StartCreate, Working
  <2>2. PICK p \in Post : wk[w].post = p
    BY <2>1, AtWork
  <2>3. CASE Fenced(w)
    <3>1. PICK r, s :
            /\ r = [row[p] EXCEPT !.status = "CREATING_CONTAINER", !.creates = @ + 1]
            /\ s = [wk[w] EXCEPT !.pc = "creating"]
            /\ Update(p, r) /\ wk' = [wk EXCEPT ![w] = s]
      BY <1>2, <2>2, <2>3 DEF StartCreate, FencedStep
    <3>2. wk'[w] = s /\ s.post = p /\ s.container = wk[w].container /\ s.pc = "creating"
      BY <2>1, <2>2, <3>1 DEF TypeOK, WorkerState
    <3>3. /\ row'[p] = r /\ r.status = "CREATING_CONTAINER" /\ r.holder = w
          /\ r.creates = row[p].creates + 1
          /\ r.requested = row[p].requested /\ r.ambiguous = row[p].ambiguous
      BY <2>2, <2>3, <3>1 DEF TypeOK, Row, Update, Fenced
    <3>4. row[p].creates = wk[w].creates /\ ~wk[w].container /\ ~Ambiguous(p)
          /\ wk[w].creates \in Nat
      BY <2>1, <2>2, <2>3, Certain DEF RowInv, LinkOK, SlotOK, WorkerState
    <3>5. RowOK(p)'
      BY <2>1, <3>3, <3>4, LeasedNames, LimitAssumption DEF RowOK, Ambiguous
    <3>6. SlotOK(w)' /\ LinkOK(w)'
      BY <3>2, <3>4 DEF SlotOK, LinkOK
    <3> QED
      BY <2>1, <2>2, <2>3, <3>1, <3>3, <3>5, <3>6, OnStep
  <2>4. CASE ~Fenced(w)
    BY <1>2, <2>1, <2>4, EndsKept DEF StartCreate, FencedStep
  <2> QED
    BY <2>3, <2>4
<1>3. ASSUME ContainerCreated(w) PROVE RowInv' /\ FinalKept
  <2>1. wk[w].pc = "creating" /\ wk[w] \in WorkerState
        /\ attested' = attested /\ doomed' = doomed
    BY <1>3, AtWork DEF ContainerCreated, Working
  <2>2. PICK p \in Post : wk[w].post = p
    BY <2>1, AtWork
  <2>3. CASE Fenced(w)
    <3>1. PICK r, s :
            /\ r = [row[p] EXCEPT !.status = "CONTAINER_CREATED", !.container = TRUE]
            /\ s = [wk[w] EXCEPT !.pc = "poll", !.container = TRUE]
            /\ Update(p, r) /\ wk' = [wk EXCEPT ![w] = s]
      BY <1>3, <2>2, <2>3 DEF ContainerCreated, FencedStep
    <3>2. wk'[w] = s /\ s.post = p /\ s.container = TRUE /\ s.pc = "poll"
      BY <2>1, <2>2, <3>1 DEF TypeOK, WorkerState
    <3>3. /\ row'[p] = r /\ r.status = "CONTAINER_CREATED" /\ r.holder = w
          /\ r.creates = row[p].creates /\ r.container = TRUE
      BY <2>2, <2>3, <3>1 DEF TypeOK, Row, Update, Fenced
    <3>4. RowOK(p)'
      BY <2>2, <3>3, LeasedNames DEF RowInv, RowOK
    <3>5. SlotOK(w)' /\ LinkOK(w)'
      BY <3>2, <3>3 DEF SlotOK, LinkOK
    <3> QED
      BY <2>1, <2>2, <2>3, <3>1, <3>3, <3>4, <3>5, OnStep
  <2>4. CASE ~Fenced(w)
    BY <1>3, <2>1, <2>4, EndsKept DEF ContainerCreated, FencedStep
  <2> QED
    BY <2>3, <2>4
<1>4. ASSUME PollFinished(w) \/ PollBypassed(w) PROVE RowInv' /\ FinalKept
  <2>1. wk[w].pc = "poll" /\ wk[w] \in WorkerState /\ row' = row
        /\ attested' = attested /\ doomed' = doomed
    BY <1>4, AtWork DEF PollFinished, PollBypassed, Working
  <2>2. PICK p \in Post, pc \in {"recover", "publish"} : wk[w].post = p /\ Goto(w, pc)
    BY <1>4, <2>1, AtWork DEF PollFinished, PollBypassed
  <2>3. PICK s : s = [wk[w] EXCEPT !.pc = pc]
    OBVIOUS
  <2>4. /\ wk' = [wk EXCEPT ![w] = s] /\ s.post = p /\ s.container = wk[w].container
        /\ s.pc = pc
    BY <2>1, <2>2, <2>3 DEF Goto, WorkerState
  <2> QED
    BY <2>1, <2>2, <2>4, MovesOn DEF WithContainer
<1>5. ASSUME PollPublished(w) PROVE RowInv' /\ FinalKept
  <2>1. wk[w].pc = "poll" /\ wk[w] \in WorkerState
        /\ attested' = attested /\ doomed' = doomed
    BY <1>5, AtWork DEF PollPublished, Working
  <2>2. PICK p \in Post : wk[w].post = p
    BY <2>1, AtWork
  <2>3. PICK s : s = [wk[w] EXCEPT !.pc = "recover", !.ambiguous = TRUE]
    OBVIOUS
  <2>4. s.post = p /\ s.container = wk[w].container /\ s.pc = "recover"
    BY <2>1, <2>2, <2>3 DEF WorkerState
  <2>5. wk' = [wk EXCEPT ![w] = s]
        /\ (row' = row \/ (Fenced(w) /\ Update(p, [row[p] EXCEPT !.ambiguous = TRUE])))
    BY <1>5, <2>2, <2>3 DEF PollPublished
  <2> QED
    BY <2>1, <2>2, <2>4, <2>5, MovesOn DEF WithContainer
<1>6. ASSUME ContainerExpired(w) PROVE RowInv' /\ FinalKept
  <2>1. wk[w].pc = "poll" /\ wk[w].post \in Post /\ ~wk[w].ambiguous
        /\ attested' = attested /\ doomed' = doomed
    BY <1>6, AtWork DEF ContainerExpired, Working
  <2>2. PICK r : /\ EndWith(w, [r EXCEPT !.container = FALSE])
                 /\ \/ r = Released(wk[w].post, "FAILED_PERMANENT")
                    \/ r = RetryLater(wk[w].post, "FAILED_RETRYABLE")
    BY <1>6 DEF ContainerExpired
  <2>3. r \in Row /\ r.requested = row[wk[w].post].requested
        /\ r.ambiguous = row[wk[w].post].ambiguous
    BY <2>1, <2>2, StatusNames, ReleasedFields
  <2>4. Fenced(w) => Good(r) /\ ~Ambiguous(wk[w].post)
    BY <2>1, <2>2, Certain, StatusNames, GoodReleased
  <2>5. Fenced(w) => Good([r EXCEPT !.container = FALSE])
    BY <2>3, <2>4 DEF Good, Row, Ambiguous
  <2> QED
    BY <2>1, <2>2, <2>5, EndWithOK
<1> QED
  BY <1>1, <1>2, <1>3, <1>4, <1>5, <1>6

\* The catch block fails a row for good only if its worker knows of no ambiguity.
LEMMA RowCatch ==
  ASSUME TypeOK, TypeOK', SendInv, RowInv, NEW w \in Worker,
         wk[w].pc \notin {"idle", "read"}, NEW c \in ErrorClass, Catch(w, c),
         doomed' = doomed
  PROVE  RowInv' /\ FinalKept
<1>1. wk[w].post \in Post /\ wk[w].ambiguous \in BOOLEAN
  BY AtWork DEF WorkerState
<1>2. Fenced(w) => Good(AfterError(w, c))
  <2> SUFFICES ASSUME Fenced(w) PROVE Good(AfterError(w, c))
    OBVIOUS
  <2>1. ~wk[w].ambiguous => ~Ambiguous(wk[w].post)
    BY Certain
  <2>2. \A s \in {"RECOVERY_REQUIRED", "AUTH_REQUIRED", "FAILED_RETRYABLE"} :
          Good(Released(wk[w].post, s)) /\ Good(RetryLater(wk[w].post, s))
    BY <1>1, StatusNames, GoodReleased DEF Closing
  <2>3. ~wk[w].ambiguous => Good(Released(wk[w].post, "FAILED_PERMANENT"))
    BY <1>1, <2>1, StatusNames, GoodReleased
  <2> QED
    BY <1>1, <2>2, <2>3 DEF AfterError, ErrorClass
<1>3. EndWith(w, AfterError(w, c)) /\ attested' = attested
  BY DEF Catch
<1> QED
  BY <1>2, <1>3, EndWithOK

LEMMA RowPublish ==
  ASSUME TypeOK, TypeOK', SendInv, RowInv, NEW w \in Worker
  PROVE  /\ StartPublish(w) \/ Send(w) \/ PublishAnswers(w) \/ PublishFails(w)
              => RowInv' /\ FinalKept
         /\ (\E q \in Post : FoundInFeed(w, q)) => RowInv' /\ FinalKept
         /\ Quarantine(w) \/ Commit(w) \/ CommitRefused(w) => RowInv' /\ FinalKept
         /\ \A c \in ErrorClass : CallFails(w, c) \/ PollFails(w, c) => RowInv' /\ FinalKept
<1> USE DEF rowVars
<1>1. ASSUME StartPublish(w) PROVE RowInv' /\ FinalKept
  <2>1. wk[w].pc = "publish" /\ wk[w] \in WorkerState
        /\ attested' = attested /\ doomed' = doomed
    BY <1>1, AtWork DEF StartPublish, Working
  <2>2. PICK p \in Post : wk[w].post = p
    BY <2>1, AtWork
  <2>3. CASE Fenced(w)
    <3>1. PICK r, s :
            /\ r = [row[p] EXCEPT !.status = "PUBLISHING", !.requested = TRUE]
            /\ s = [wk[w] EXCEPT !.pc = "send", !.ambiguous = TRUE]
            /\ Update(p, r) /\ wk' = [wk EXCEPT ![w] = s]
      BY <1>1, <2>2, <2>3 DEF StartPublish, FencedStep
    <3>2. wk'[w] = s /\ s.post = p /\ s.container = wk[w].container /\ s.pc = "send"
      BY <2>1, <2>2, <3>1 DEF TypeOK, WorkerState
    <3>3. /\ row'[p] = r /\ r.status = "PUBLISHING" /\ r.holder = w
          /\ r.creates = row[p].creates /\ r.container = row[p].container
      BY <2>2, <2>3, <3>1 DEF TypeOK, Row, Update, Fenced
    <3>4. wk[w].container /\ row[p].container = wk[w].container
      BY <2>1, <2>2, <2>3 DEF RowInv, SlotOK, SendInv, SnapshotCurrent
    <3>5. RowOK(p)'
      BY <3>3, <3>4, LeasedNames DEF RowInv, RowOK
    <3>6. SlotOK(w)' /\ LinkOK(w)'
      BY <3>2, <3>3, <3>4 DEF SlotOK, LinkOK
    <3> QED
      BY <2>1, <2>2, <2>3, <3>1, <3>3, <3>5, <3>6, OnStep
  <2>4. CASE ~Fenced(w)
    BY <1>1, <2>1, <2>4, EndsKept DEF StartPublish, FencedStep
  <2> QED
    BY <2>3, <2>4
<1>2. ASSUME Send(w) \/ PublishFails(w) PROVE RowInv' /\ FinalKept
  <2>1. wk[w].pc \in {"send", "await"} /\ wk[w] \in WorkerState
        /\ attested' = attested /\ doomed' = doomed
    BY <1>2, AtWork DEF Send, PublishFails, Working
  <2>2. PICK p \in Post, pc \in {"await", "recover"} : wk[w].post = p /\ Goto(w, pc)
    BY <1>2, <2>1, AtWork DEF Send, PublishFails
  <2>3. PICK s : s = [wk[w] EXCEPT !.pc = pc]
    OBVIOUS
  <2>4. /\ wk' = [wk EXCEPT ![w] = s] /\ s.post = p /\ s.container = wk[w].container
        /\ s.pc = pc
    BY <2>1, <2>2, <2>3 DEF Goto, WorkerState
  <2>5. row' = row \/ (Fenced(w) /\ Update(p, [row[p] EXCEPT !.ambiguous = TRUE]))
    BY <1>2, <2>2 DEF Send, PublishFails
  <2> QED
    BY <2>1, <2>2, <2>4, <2>5, MovesOn DEF WithContainer
<1>3. ASSUME PublishAnswers(w) \/ \E q \in Post : FoundInFeed(w, q)
      PROVE  RowInv' /\ FinalKept
  <2>1. wk[w].pc \in {"await", "recover"} /\ wk[w] \in WorkerState /\ row' = row
        /\ attested' = attested /\ doomed' = doomed
    BY <1>3, AtWork DEF PublishAnswers, FoundInFeed, Working
  <2>2. PICK p \in Post : wk[w].post = p
    BY <2>1, AtWork
  <2>3. PICK q : wk' = [wk EXCEPT ![w] = [wk[w] EXCEPT !.pc = "commit", !.found = q]]
    BY <1>3 DEF PublishAnswers, FoundInFeed
  <2>4. PICK s : s = [wk[w] EXCEPT !.pc = "commit", !.found = q]
    OBVIOUS
  <2>5. s.post = p /\ s.container = wk[w].container /\ s.pc = "commit"
    BY <2>1, <2>2, <2>4 DEF WorkerState
  <2> QED
    BY <2>1, <2>2, <2>3, <2>4, <2>5, MovesOn DEF WithContainer
<1>4. ASSUME Quarantine(w) PROVE RowInv' /\ FinalKept
  <2>1. wk[w].pc # "idle" /\ wk[w].post \in Post
    BY <1>4, AtWork DEF Quarantine, Working
  <2>2. Good(Released(wk[w].post, "RECOVERY_REQUIRED"))
    BY <2>1, StatusNames, GoodReleased DEF Closing
  <2> QED
    BY <1>4, <2>1, <2>2, EndWithOK DEF Quarantine
<1>5. ASSUME Commit(w) PROVE RowInv' /\ FinalKept
  <2>1. wk[w].pc # "idle" /\ wk[w].post \in Post
    BY <1>5, AtWork DEF Commit, Working
  <2>2. Good(Released(wk[w].post, "PUBLISHED"))
    BY <2>1, StatusNames, GoodReleased DEF Closing
  <2>3. EndWith(w, Released(wk[w].post, "PUBLISHED"))
    BY <1>5 DEF Commit, Record, EndWith
  <2> QED
    BY <1>5, <2>1, <2>2, <2>3, EndWithOK DEF Commit
<1>6. ASSUME NEW c \in ErrorClass, CallFails(w, c) \/ PollFails(w, c)
      PROVE  RowInv' /\ FinalKept
  BY <1>6, RowCatch DEF CallFails, PollFails, Catch, Working
<1>7. ASSUME CommitRefused(w) PROVE RowInv' /\ FinalKept
  BY <1>7, RowCatch DEF CommitRefused, Catch, Working, ErrorClass
<1> QED
  BY <1>1, <1>2, <1>3, <1>4, <1>5, <1>6, <1>7

-----------------------------------------------------------------------------
(* Steps of the others *)

\* A row that no worker works on under a live lease changes, or only its lease ends.
LEMMA OtherStep ==
  ASSUME TypeOK, TypeOK', RowInv, wk' = wk, NEW p \in Post,
         \A q \in Post : q # p => row'[q] = row[q],
         doomed' \subseteq doomed \cup {p}, attested \subseteq attested',
         RowOK(p)', DoomOK(p)',
         row[p].status \in Final => row'[p].status = row[p].status,
         \A w \in Worker : wk[w].pc # "idle" /\ wk[w].post = p /\ Fenced(w)' =>
           row'[p] = row[p]
  PROVE  RowInv' /\ FinalKept
<1>1. FinalKept
  BY DEF FinalKept
<1>2. \A q \in Post : q # p => RowOK(q)' /\ DoomOK(q)'
  BY DEF RowInv, RowOK, DoomOK, Ambiguous, Stale, StaleExhausted, LooksAmbiguous
<1>3. \A w \in Worker : SlotOK(w)'
  BY DEF RowInv, SlotOK
<1>4. ASSUME NEW w \in Worker PROVE LinkOK(w)'
  <2>1. LinkOK(w) /\ (wk[w].pc # "idle" => wk[w].post \in Post)
    BY AtWork DEF RowInv
  <2> QED
    BY <2>1 DEF LinkOK, Fenced
<1> QED
  BY <1>1, <1>2, <1>3, <1>4 DEF RowInv

\* The same rows and slots, and no row newly doomed.
LEMMA SameRows ==
  ASSUME RowInv, row' = row, wk' = wk, attested' = attested, doomed' = doomed
  PROVE  RowInv' /\ FinalKept
BY DEF RowInv, FinalKept, RowOK, DoomOK, SlotOK, LinkOK, Ambiguous, Stale,
       StaleExhausted, LooksAmbiguous, Fenced

LEMMA RowFault ==
  ASSUME TypeOK, TypeOK', SendInv, RowInv, Fault
  PROVE  RowInv' /\ FinalKept
<1> USE DEF rowVars
<1>1. ASSUME NEW w \in Worker, Crash(w) PROVE RowInv' /\ FinalKept
  BY <1>1, EndsKept DEF Crash, Working
<1>2. ASSUME NEW w \in Worker, DatabaseFails(w) PROVE RowInv' /\ FinalKept
  BY <1>2, RowCatch DEF DatabaseFails, Catch, ErrorClass
<1>3. ASSUME NEW p \in Post, NEW j \in JobId, LoseJob(p, j) PROVE RowInv' /\ FinalKept
  BY <1>3, SameRows DEF LoseJob
<1> QED
  BY <1>1, <1>2, <1>3 DEF Fault

LEMMA RowBackground ==
  ASSUME TypeOK, TypeOK', RowInv, NEW p \in Post, Clock(p) \/ Platform(p) \/ Reconcile(p)
  PROVE  RowInv' /\ FinalKept
<1> USE DEF rowVars
<1>1. row[p] \in Row /\ RowOK(p) /\ DoomOK(p)
  BY DEF TypeOK, RowInv
<1>2. wk' = wk /\ attested' = attested
  BY DEF Clock, LeaseRunsOut, RetryDue, Age, Platform, ContainerMoves, Land, Refuse,
         Reconcile, ScanDispatch, ScanScheduled, ScanRetry, ScanStale, ScanJob,
         ScanExhausted, FailStale
<1>3. CASE row' = row /\ doomed' = doomed
  BY <1>2, <1>3, SameRows
<1>4. CASE LeaseRunsOut(p)
  <2>1. /\ row[p].live /\ row'[p] = [row[p] EXCEPT !.live = FALSE]
        /\ \A q \in Post : q # p => row'[q] = row[q]
    BY <1>4 DEF LeaseRunsOut, Update, TypeOK
  <2>2. /\ row'[p].status = row[p].status /\ row'[p].holder = row[p].holder
        /\ row'[p].creates = row[p].creates /\ row'[p].container = row[p].container
        /\ row'[p].requested = row[p].requested /\ row'[p].ambiguous = row[p].ambiguous
        /\ row'[p].live = FALSE
    BY <1>1, <2>1 DEF Row
  <2>3. doomed' = doomed /\ p \notin doomed
    BY <1>1, <1>4, <2>1 DEF LeaseRunsOut, DoomOK, Stale
  <2>4. RowOK(p)' /\ DoomOK(p)'
    BY <1>1, <1>2, <2>2, <2>3 DEF RowOK, Ambiguous, DoomOK
  <2> QED
    BY <1>2, <2>1, <2>2, <2>3, <2>4, OtherStep DEF Fenced
<1>5. CASE RetryDue(p)
  <2>1. /\ row[p].status \notin Leased /\ row'[p] = [row[p] EXCEPT !.due = TRUE]
        /\ \A q \in Post : q # p => row'[q] = row[q]
    BY <1>5 DEF RetryDue, Update, TypeOK, Leased
  <2>2. /\ row'[p].status = row[p].status /\ row'[p].holder = row[p].holder
        /\ row'[p].creates = row[p].creates /\ row'[p].container = row[p].container
        /\ row'[p].requested = row[p].requested /\ row'[p].ambiguous = row[p].ambiguous
    BY <1>1, <2>1 DEF Row
  <2>3. doomed' = doomed /\ p \notin doomed /\ row[p].holder = NoWorker
    BY <1>1, <1>5, <2>1 DEF RetryDue, DoomOK, Stale, RowOK
  <2>4. RowOK(p)' /\ DoomOK(p)'
    BY <1>1, <1>2, <2>2, <2>3 DEF RowOK, Ambiguous, DoomOK
  <2>5. \A w \in Worker : wk[w].post = p => ~Fenced(w)'
    BY <1>2, <2>2, <2>3, NullAssumption DEF Fenced
  <2> QED
    BY <1>2, <2>1, <2>2, <2>3, <2>4, <2>5, OtherStep
<1>6. CASE ScanExhausted(p)
  <2>1. row' = row /\ doomed' = doomed \cup {p} /\ Stale(p) /\ StaleExhausted(p)
    BY <1>6 DEF ScanExhausted
  <2>2. RowOK(p)' /\ DoomOK(p)'
    BY <1>1, <1>2, <2>1 DEF RowOK, Ambiguous, DoomOK, Stale, StaleExhausted, LooksAmbiguous
  <2> QED
    BY <1>2, <2>1, <2>2, OtherStep
<1>7. CASE FailStale(p)
  <2>1. p \in doomed /\ Stale(p) /\ StaleExhausted(p) /\ doomed' = doomed \ {p}
    BY <1>1, <1>7 DEF FailStale, DoomOK
  <2>2. /\ row'[p] = Released(p, "FAILED_PERMANENT")
        /\ \A q \in Post : q # p => row'[q] = row[q]
    BY <1>7, <2>1 DEF FailStale, Update, TypeOK
  <2>3. Good(Released(p, "FAILED_PERMANENT"))
    BY <2>1, StatusNames, GoodReleased DEF StaleExhausted, LooksAmbiguous
  <2>4. RowOK(p)' /\ DoomOK(p)' /\ row'[p].holder = NoWorker
    BY <2>1, <2>2, <2>3 DEF Good, RowOK, Ambiguous, DoomOK
  <2>5. row[p].status \notin Final
    BY <2>1, LeasedNames DEF Stale
  <2> QED
    BY <1>2, <2>1, <2>2, <2>4, <2>5, OtherStep, NullAssumption DEF Fenced
<1> QED
  BY <1>3, <1>4, <1>5, <1>6, <1>7
  DEF Clock, Age, Platform, ContainerMoves, Land, Refuse, Reconcile, ScanDispatch,
      ScanScheduled, ScanRetry, ScanStale, ScanJob

LEMMA RowRequest ==
  ASSUME TypeOK, TypeOK', RowInv, Request
  PROVE  RowInv' /\ FinalKept
<1> USE DEF rowVars
<1>1. PICK p \in Post :
        \/ CheckPublished(p) \/ CheckActive(p) \/ Schedule(p) \/ ScheduleRefused(p)
        \/ DispatchNow(p) \/ Cancel(p) \/ CheckUnpublished(p) \/ ConfirmNotPublished(p)
        \/ \E q \in Post : ConfirmPublished(p, q)
  BY DEF Request
<1>2. row[p] \in Row /\ RowOK(p) /\ DoomOK(p)
  BY DEF TypeOK, RowInv
<1>3. wk' = wk /\ doomed' = doomed
  BY <1>1 DEF CheckPublished, CheckActive, Schedule, ScheduleRefused, DispatchNow, Cancel,
              CheckUnpublished, ConfirmNotPublished, ConfirmPublished
<1>4. CASE row' = row /\ attested' = attested
  BY <1>3, <1>4, SameRows
\* Every other request finds the row unleased and leaves it unleased.
<1>5. ASSUME NEW r, Update(p, r), r.holder = NoWorker, row[p].status \notin Leased \cup Final,
             attested \subseteq attested', RowOK(p)'
      PROVE  RowInv' /\ FinalKept
  <2>1. row'[p] = r /\ \A q \in Post : q # p => row'[q] = row[q]
    BY <1>5 DEF Update, TypeOK
  <2>2. DoomOK(p)'
    BY <1>2, <1>3, <1>5 DEF DoomOK, Stale
  <2> QED
    BY <1>3, <1>5, <2>1, <2>2, OtherStep, NullAssumption DEF Fenced
<1>6. CASE Schedule(p)
  <2>1. PICK r : r = [NewRow EXCEPT !.status = "SCHEDULED"]
    OBVIOUS
  <2>2. Update(p, r) /\ row[p].status = "NONE" /\ attested' = attested
    BY <1>6, <2>1 DEF Schedule
  <2>3. row'[p] = r /\ r.holder = NoWorker /\ r.creates = 0 /\ ~r.requested /\ ~r.ambiguous
    BY <2>1, <2>2 DEF Update, TypeOK, NewRow
  <2>4. RowOK(p)'
    BY <2>3, LimitAssumption DEF RowOK, Ambiguous
  <2> QED
    BY <1>5, <2>2, <2>3, <2>4 DEF Leased, Final
<1>7. CASE Update(p, [row[p] EXCEPT !.status = "CANCELLED"])
           /\ row[p].status \notin Leased \cup Final
           /\ attested \subseteq attested' /\ (Ambiguous(p) => p \in attested')
  <2>1. PICK r : r = [row[p] EXCEPT !.status = "CANCELLED"]
    OBVIOUS
  <2>2. /\ row'[p] = r /\ r.status = "CANCELLED" /\ r.holder = row[p].holder
        /\ r.creates = row[p].creates /\ r.container = row[p].container
        /\ r.requested = row[p].requested /\ r.ambiguous = row[p].ambiguous
    BY <1>2, <1>7, <2>1 DEF Update, TypeOK, Row
  <2>3. r.holder = NoWorker
    BY <1>2, <1>7, <2>2 DEF RowOK
  <2>4. RowOK(p)'
    BY <1>2, <1>7, <2>2, <2>3 DEF RowOK, Ambiguous
  <2> QED
    BY <1>5, <1>7, <2>1, <2>3, <2>4
<1>8. CASE Cancel(p)
  BY <1>7, <1>8 DEF Cancel, Leased, Final
<1>9. CASE ConfirmNotPublished(p)
  BY <1>4, <1>7, <1>9 DEF ConfirmNotPublished, Leased, Final
<1>10. CASE \E q \in Post : ConfirmPublished(p, q)
  <2>1. /\ Update(p, Released(p, "PUBLISHED")) /\ row[p].status = "RECOVERY_REQUIRED"
        /\ attested' = attested
    BY <1>10 DEF ConfirmPublished, Record
  <2>2. Good(Released(p, "PUBLISHED"))
    BY StatusNames, GoodReleased DEF Closing
  <2>3. row'[p] = Released(p, "PUBLISHED")
    BY <2>1 DEF Update, TypeOK
  <2>4. RowOK(p)'
    BY <2>2, <2>3 DEF Good, RowOK, Ambiguous
  <2> QED
    BY <1>5, <2>1, <2>2, <2>4 DEF Good, Leased, Final
<1> QED
  BY <1>1, <1>4, <1>6, <1>8, <1>9, <1>10
  DEF CheckPublished, CheckActive, ScheduleRefused, DispatchNow, CheckUnpublished

-----------------------------------------------------------------------------
(* The theorems *)

LEMMA RowInit == Init => RowInv
<1> SUFFICES ASSUME Init PROVE RowInv
  OBVIOUS
<1>1. /\ \A p \in Post : row[p] = NewRow
      /\ \A w \in Worker : wk[w] = Idle
      /\ doomed = {}
  BY DEF Init
<1> QED
  BY <1>1, LimitAssumption
  DEF RowInv, RowOK, DoomOK, SlotOK, LinkOK, Ambiguous, NewRow, Idle

LEMMA RowStep == TypeOK /\ TypeOK' /\ SendInv /\ RowInv /\ [Next]_vars => RowInv' /\ [FinalKept]_vars
<1> SUFFICES ASSUME TypeOK, TypeOK', SendInv, RowInv, [Next]_vars
             PROVE  RowInv' /\ [FinalKept]_vars
  OBVIOUS
<1>1. CASE UNCHANGED vars
  BY <1>1, SameRows DEF vars, rowVars
<1>2. ASSUME NEW w \in Worker, WorkerStep(w) PROVE RowInv' /\ FinalKept
  BY <1>2, RowClaim, RowContainer, RowPublish DEF WorkerStep
<1> QED
  BY <1>1, <1>2, RowFault, RowBackground, RowRequest DEF Next

LEMMA RowInvariant == Spec => []RowInv /\ [][FinalKept]_vars
<1>1. TypeOK /\ SendInv /\ RowInv /\ [Next]_vars => RowInv' /\ [FinalKept]_vars
  BY TypeStep, RowStep
<1> QED
  BY TypeCorrect, SendInvariant, RowInit, <1>1, PTL DEF Spec

\* A row that may have reached the platform keeps its container, and no step expires,
\* fails or cancels it unless an operator attested that it was not published.
THEOREM AmbiguityIsKept == Spec => []AmbiguityKept
<1>1. RowInv => AmbiguityKept
  BY DEF RowInv, RowOK, AmbiguityKept
<1> QED
  BY <1>1, RowInvariant, PTL

\* No row ever has more than MaxCreates containers requested for it, although process()
\* compares the count on its snapshot and adds to it in a later write.
THEOREM ContainersAreCapped == Spec => []CreatesCapped
<1>1. RowInv => CreatesCapped
  BY DEF RowInv, RowOK, CreatesCapped
<1> QED
  BY <1>1, RowInvariant, PTL

\* No late worker, scan, request or retry takes a row out of a final status.
THEOREM FinalStays == Spec => FinalIsFinal
BY RowInvariant DEF FinalIsFinal, FinalKept

-----------------------------------------------------------------------------
(* Rows and the platform: what a recorded post stands for *)

\* The platform's side of a row.
FeedOK(p) ==
  /\ p \in inflight \cup feed => sent[p] = 1
  /\ cstat[p] = "PUBLISHED" => p \in feed

\* Every doubt about a row goes back to a request that the row remembers.
AskOK(p) ==
  row[p].ambiguous \/ row[p].status \in {"PUBLISHING", "RECOVERY_REQUIRED"} =>
    row[p].requested

Reaching == {"send", "await", "recover", "commit"}

\* So does a worker's, and the post it is about to record exists and has the text.
SureOK(w) ==
  /\ wk[w].pc \notin {"idle", "read"} /\ (wk[w].ambiguous \/ wk[w].pc \in Reaching) =>
       row[wk[w].post].requested
  /\ wk[w].pc = "commit" =>
       wk[w].found \in feed /\ SameText(wk[w].post, wk[w].found)

\* idx_scheduled_posts_active_draft.
OneActive ==
  \A p, q \in Post :
    TargetOf[p] = TargetOf[q] /\ row[p].status \in Active /\ row[q].status \in Active =>
      p = q

RecordInv ==
  /\ PublishedIsRecorded /\ OneActive
  /\ \A p \in Post : FeedOK(p) /\ AskOK(p)
  /\ \A w \in Worker : SureOK(w)

OnceStep == [Once!Next]_(Once!vars)

Phases == [p \in Post |-> Phase(p)]
Asked == {p \in Post : row[p].requested}

\* A row that is neither new nor published goes on or is closed, and forgets no request.
Proceeds(p) ==
  /\ row[p].status \notin {"NONE", "PUBLISHED"}
  /\ row'[p].status \notin {"NONE", "PUBLISHED"}
  /\ row'[p].status \in Active => row[p].status \in Active
  /\ \/ row'[p].requested = row[p].requested
     \/ row'[p].requested /\ {row[p].status, row'[p].status} \subseteq Active
  /\ row'[p].ambiguous \/ row'[p].status \in {"PUBLISHING", "RECOVERY_REQUIRED"} =>
       row'[p].requested

LEMMA StatusKinds ==
  /\ Active \cap Final = {} /\ "NONE" \notin Active \cup Final
  /\ "AUTH_REQUIRED" \notin Active \cup Final /\ Leased \subseteq Active
  /\ "PUBLISHED" \in Final
  /\ Final = {"PUBLISHED", "EXPIRED", "FAILED_PERMANENT", "CANCELLED"}
BY DEF Active, Final, Leased

\* What the abstract specification sees of such a row.
LEMMA ProceedsPhase ==
  ASSUME TypeOK, TypeOK', RowInv', FinalKept, NEW p \in Post, Proceeds(p),
         attested' = attested
  PROVE  \/ Phase(p)' = Phase(p)
         \/ Phase(p) = "open" /\ Phase(p)' = "attested"
         \/ Phase(p) = "open" /\ Phase(p)' = "closed" /\ ~row[p].requested
<1>1. row[p] \in Row /\ row'[p] \in Row /\ RowOK(p)'
  BY DEF TypeOK, RowInv
<1>2. CASE row[p].status \in Final
  BY <1>2 DEF Phase, FinalKept
<1>3. CASE row[p].status \notin Final /\ row'[p].status \notin Final
  BY <1>3, StatusKinds DEF Phase, Proceeds
<1>4. CASE row[p].status \notin Final /\ row'[p].status \in Final
  <2>1. Phase(p) = "open"
    BY <1>4, StatusKinds DEF Phase, Proceeds
  <2>2. Phase(p)' = IF p \in attested THEN "attested" ELSE "closed"
    BY <1>4, StatusKinds DEF Phase, Proceeds
  <2>3. row'[p].requested => p \in attested
    BY <1>1, <1>4, StatusKinds DEF RowOK, Ambiguous, Proceeds
  <2>4. row[p].requested => row'[p].requested
    BY DEF Proceeds
  <2> QED
    BY <2>1, <2>2, <2>3, <2>4
<1> QED
  BY <1>2, <1>3, <1>4

\* What the steps of the record's proof share: they change no record and no post.
Unrecorded ==
  /\ UNCHANGED <<adopted, events, attested, feed, sent>>
  /\ inflight' \subseteq inflight
  /\ \A p \in Post : cstat'[p] = "PUBLISHED" => cstat[p] = "PUBLISHED"

LEMMA ProceedsInv ==
  ASSUME TypeOK, TypeOK', RecordInv, FinalKept, Unrecorded,
         NEW p \in Post, \A q \in Post : q # p => row'[q] = row[q],
         row'[p] = row[p] \/ Proceeds(p),
         \A w \in Worker : SureOK(w)'
  PROVE  RecordInv'
<1>1. \A q \in Post : (row'[q].status = "PUBLISHED") <=> (row[q].status = "PUBLISHED")
  BY DEF Proceeds
<1>2. PublishedIsRecorded'
  BY <1>1 DEF RecordInv, PublishedIsRecorded, Unrecorded
<1>3. \A q \in Post : row'[q].status \in Active => row[q].status \in Active
  BY DEF Proceeds
<1>4. OneActive'
  BY <1>3 DEF RecordInv, OneActive
<1>5. \A q \in Post : FeedOK(q)'
  BY DEF RecordInv, FeedOK, Unrecorded
<1>6. \A q \in Post : AskOK(q)'
  BY DEF RecordInv, AskOK, Proceeds
<1> QED
  BY <1>2, <1>4, <1>5, <1>6 DEF RecordInv

LEMMA ProceedsOnce ==
  ASSUME TypeOK, TypeOK', RowInv', FinalKept, Unrecorded,
         NEW p \in Post, \A q \in Post : q # p => row'[q] = row[q],
         row'[p] = row[p] \/ Proceeds(p)
  PROVE  OnceStep
<1> USE DEF OnceStep, Phases, Asked
<1>1. UNCHANGED <<sent, feed, adopted, attested>>
  BY DEF Unrecorded
<1>2. \A q \in Post : q # p => Phase(q)' = Phase(q) /\ row'[q].requested = row[q].requested
  BY <1>1 DEF Phase
<1>3. CASE row'[p] = row[p]
  <2>1. Phases' = Phases /\ Asked' = Asked
    BY <1>1, <1>2, <1>3 DEF Phase
  <2> QED
    BY <1>1, <2>1 DEF Once!vars
<1>4. CASE Proceeds(p) /\ row'[p].requested # row[p].requested
  <2>1. row[p].requested \in BOOLEAN /\ row'[p].requested /\ ~row[p].requested
    BY <1>4 DEF TypeOK, Row, Proceeds
  <2>2. Phase(p) = "open" /\ Phase(p)' = "open"
    BY <1>4, StatusKinds DEF Phase, Proceeds
  <2>3. Phases' = Phases /\ Asked' = Asked \cup {p} /\ Phases[p] = "open"
    BY <1>2, <2>1, <2>2
  <2>4. Once!Ask(p)
    BY <1>1, <2>3 DEF Once!Ask
  <2> QED
    BY <2>4 DEF Once!Next
<1>5. CASE Proceeds(p) /\ row'[p].requested = row[p].requested
  <2>1. Asked' = Asked
    BY <1>2, <1>5
  <2>2. CASE Phase(p)' = Phase(p)
    <3>1. Phases' = Phases
      BY <1>2, <2>2
    <3> QED
      BY <1>1, <2>1, <3>1 DEF Once!vars
  <2>3. CASE Phase(p) = "open" /\ Phase(p)' = "attested"
    <3>1. Phases[p] = "open" /\ Phases' = [Phases EXCEPT ![p] = "attested"]
      BY <1>2, <2>3
    <3>2. Once!Attest(p)
      BY <1>1, <2>1, <3>1 DEF Once!Attest, Once!Move
    <3> QED
      BY <3>2 DEF Once!Next
  <2>4. CASE Phase(p) = "open" /\ Phase(p)' = "closed" /\ ~row[p].requested
    <3>1. Phases[p] = "open" /\ Phases' = [Phases EXCEPT ![p] = "closed"] /\ p \notin Asked
      BY <1>2, <2>4
    <3>2. Once!Close(p)
      BY <1>1, <2>1, <3>1 DEF Once!Close, Once!Move
    <3> QED
      BY <3>2 DEF Once!Next
  <2> QED
    BY <1>1, <1>5, <2>2, <2>3, <2>4, ProceedsPhase
<1> QED
  BY <1>3, <1>4, <1>5

\* The context of every step: the invariants, and what is proved of the step already.
Context == TypeOK /\ SendInv /\ RowInv /\ RecordInv /\ TypeOK' /\ RowInv' /\ FinalKept

\* A step of one worker that touches no row but its own.
LEMMA OwnRecord ==
  ASSUME Context, Unrecorded, NEW w \in Worker, NEW p \in Post,
         \A v \in Worker : v # w => wk'[v] = wk[v],
         \A q \in Post : q # p => row'[q] = row[q],
         row'[p] = row[p] \/ Proceeds(p), SureOK(w)'
  PROVE  RecordInv' /\ OnceStep
<1>1. \A q \in Post : row[q].requested => row'[q].requested
  BY DEF Proceeds
<1>2. ASSUME NEW v \in Worker, v # w PROVE SureOK(v)'
  <2>1. wk'[v] = wk[v] /\ feed' = feed
    BY <1>2 DEF Unrecorded
  <2>2. wk[v].pc # "idle" => wk[v].post \in Post
    BY AtWork DEF Context
  <2>3. SureOK(v)
    BY DEF Context, RecordInv
  <2> QED
    BY <1>1, <2>1, <2>2, <2>3 DEF SureOK, SameText
<1>3. \A v \in Worker : SureOK(v)'
  BY <1>2
<1> QED
  BY <1>3, ProceedsInv, ProceedsOnce DEF Context

\* A record that a row may become when its worker lets it go unpublished.
Lets(r, p) ==
  /\ r.requested = row[p].requested /\ r.ambiguous = row[p].ambiguous
  /\ r.status \notin {"NONE", "PUBLISHED", "PUBLISHING"}
  /\ r.status = "RECOVERY_REQUIRED" => row[p].requested

LEMMA ReleasedLets ==
  ASSUME TypeOK, NEW p \in Post, NEW s \in Status \ {"NONE", "PUBLISHED", "PUBLISHING"},
         s = "RECOVERY_REQUIRED" => row[p].requested
  PROVE  Lets(Released(p, s), p) /\ Lets(RetryLater(p, s), p)
BY ReleasedFields DEF Lets

LEMMA LetsProceeds ==
  ASSUME Context, NEW w \in Worker, wk[w].pc # "idle", Fenced(w),
         NEW r, Lets(r, wk[w].post), row'[wk[w].post] = r
  PROVE  Proceeds(wk[w].post)
<1>1. PICK p \in Post : p = wk[w].post
  BY AtWork DEF Context
<1>2. row[p].status \in Leased /\ AskOK(p)
  BY <1>1, Held DEF Context, RecordInv
<1> QED
  BY <1>1, <1>2, StatusKinds DEF Lets, Proceeds, AskOK

LEMMA EndRecord ==
  ASSUME Context, Unrecorded, NEW w \in Worker, wk[w].pc # "idle",
         NEW r, Fenced(w) => Lets(r, wk[w].post), EndWith(w, r)
  PROVE  RecordInv' /\ OnceStep
<1>1. PICK p \in Post : p = wk[w].post
  BY AtWork DEF Context
<1>2. wk'[w] = Idle /\ \A v \in Worker : v # w => wk'[v] = wk[v]
  BY DEF EndWith, End, Context, TypeOK
<1>3. SureOK(w)'
  BY <1>2 DEF SureOK, Idle
<1>4. CASE Fenced(w)
  <2>1. row'[p] = r /\ \A q \in Post : q # p => row'[q] = row[q]
    BY <1>1, <1>4 DEF EndWith, Update, Context, TypeOK
  <2>2. Proceeds(p)
    BY <1>1, <1>4, <2>1, LetsProceeds
  <2> QED
    BY <1>2, <1>3, <2>1, <2>2, OwnRecord
<1>5. CASE ~Fenced(w)
  BY <1>2, <1>3, <1>5, OwnRecord DEF EndWith
<1> QED
  BY <1>4, <1>5

\* A worker goes on to s, perhaps with a fenced write of its row.
LEMMA GoesOn ==
  ASSUME Context, Unrecorded, NEW w \in Worker, wk[w].pc # "idle", NEW p \in Post,
         p = wk[w].post, NEW s, wk' = [wk EXCEPT ![w] = s],
         row' = row \/ (Update(p, row'[p]) /\ Proceeds(p)), SureOK(w)'
  PROVE  RecordInv' /\ OnceStep
<1>1. \A v \in Worker : v # w => wk'[v] = wk[v]
  BY DEF Context, TypeOK
<1>2. \A q \in Post : q # p => row'[q] = row[q]
  BY DEF Context, TypeOK, Update
<1> QED
  BY <1>1, <1>2, OwnRecord

LEMMA EndsRecord ==
  ASSUME Context, Unrecorded, NEW w \in Worker, wk[w].pc # "idle", End(w), row' = row
  PROVE  RecordInv' /\ OnceStep
<1>1. wk[w].post \in Post
  BY AtWork DEF Context
<1>2. wk'[w] = Idle
  BY DEF End, Context, TypeOK
<1>3. SureOK(w)'
  BY <1>2 DEF SureOK, Idle
<1> QED
  BY <1>1, <1>3, GoesOn DEF End

LEMMA UnrecordedBy ==
  ASSUME UNCHANGED <<adopted, events, attested, feed, sent, cstat, inflight>>
  PROVE  Unrecorded
BY DEF Unrecorded

\* Rows and slots are left alone.
LEMMA NoRecord ==
  ASSUME Context, Unrecorded, UNCHANGED <<row, wk>>
  PROVE  RecordInv' /\ OnceStep
<1>1. \A w \in Worker : SureOK(w)'
  BY DEF Context, RecordInv, SureOK, Unrecorded, SameText
<1>2. PublishedIsRecorded' /\ OneActive' /\ \A p \in Post : FeedOK(p)' /\ AskOK(p)'
  BY DEF Context, RecordInv, PublishedIsRecorded, OneActive, FeedOK, AskOK, Unrecorded
<1>3. OnceStep
  BY DEF OnceStep, Once!vars, Unrecorded, Phase
<1> QED
  BY <1>1, <1>2, <1>3 DEF RecordInv

LEMMA RecordClaim ==
  ASSUME Context, NEW w \in Worker
  PROVE  /\ \A p \in Post, j \in JobId :
              Claim(w, p, j) \/ ClaimMisses(w, p, j) => RecordInv' /\ OnceStep
         /\ GiveUp(w) \/ Begin(w) \/ QuotaBlocked(w) \/ PassGate(w) => RecordInv' /\ OnceStep
<1> USE DEF rowVars, platformVars
<1>1. ASSUME NEW p \in Post, NEW j \in JobId, Claim(w, p, j) PROVE RecordInv' /\ OnceStep
  <2>1. row[p] \in Row /\ AskOK(p)
    BY DEF Context, TypeOK, RecordInv
  <2>2. /\ row'[p] = [row[p] EXCEPT !.status = "CLAIMED", !.holder = w, !.live = TRUE]
        /\ \A q \in Post : q # p => row'[q] = row[q]
        /\ wk'[w].pc = "read"
        /\ \A v \in Worker : v # w => wk'[v] = wk[v]
    BY <1>1 DEF Claim, Update, Context, TypeOK, Idle
  <2>3. /\ row'[p].status = "CLAIMED" /\ row'[p].requested = row[p].requested
        /\ row'[p].ambiguous = row[p].ambiguous
    BY <2>1, <2>2 DEF Row
  <2>4. row[p].status \in Active
    BY <1>1, StatusKinds DEF Claim, Claimable, Active
  <2>5. Proceeds(p)
    BY <2>1, <2>3, <2>4, StatusKinds DEF Proceeds, AskOK
  <2>6. Unrecorded /\ SureOK(w)'
    BY <1>1, <2>2, UnrecordedBy DEF Claim, SureOK
  <2> QED
    BY <2>2, <2>5, <2>6, OwnRecord
<1>2. ASSUME NEW p \in Post, NEW j \in JobId, ClaimMisses(w, p, j)
      PROVE  RecordInv' /\ OnceStep
  BY <1>2, NoRecord, UnrecordedBy DEF ClaimMisses
<1>3. ASSUME GiveUp(w) PROVE RecordInv' /\ OnceStep
  <2>1. wk[w].pc # "idle" /\ wk[w].post \in Post /\ Unrecorded
    BY <1>3, AtWork, UnrecordedBy DEF GiveUp, Working, Context
  <2>2. PICK s \in {"EXPIRED", "FAILED_PERMANENT"} : EndWith(w, Released(wk[w].post, s))
    BY <1>3 DEF GiveUp
  <2>3. Lets(Released(wk[w].post, s), wk[w].post)
    BY <2>1, StatusNames, ReleasedLets DEF Context
  <2> QED
    BY <2>1, <2>2, <2>3, EndRecord
<1>4. ASSUME Begin(w) PROVE RecordInv' /\ OnceStep
  <2>1. wk[w].pc = "read" /\ wk[w] \in WorkerState /\ row' = row /\ Unrecorded
    BY <1>4, AtWork, UnrecordedBy DEF Begin, Working, Context
  <2>2. PICK p \in Post : wk[w].post = p
    BY <2>1, AtWork DEF Context
  <2>3. PICK s : s = [wk[w] EXCEPT !.pc = "gate", !.attempts = row[p].attempts,
                        !.creates = row[p].creates, !.container = row[p].container,
                        !.ambiguous = LooksAmbiguous(p)]
    OBVIOUS
  <2>4. wk' = [wk EXCEPT ![w] = s]
    BY <1>4, <2>2, <2>3 DEF Begin
  <2>5. wk'[w] = s /\ s.pc = "gate" /\ s.post = p /\ s.ambiguous = LooksAmbiguous(p)
    BY <2>1, <2>2, <2>3, <2>4 DEF Context, TypeOK, WorkerState
  <2>6. AskOK(p)
    BY DEF Context, RecordInv
  <2>7. SureOK(w)'
    BY <2>1, <2>5, <2>6 DEF SureOK, AskOK, LooksAmbiguous, Ambiguous, Reaching
  <2> QED
    BY <2>1, <2>2, <2>4, <2>7, GoesOn
<1>5. ASSUME QuotaBlocked(w) PROVE RecordInv' /\ OnceStep
  <2>1. wk[w].pc # "idle" /\ wk[w].post \in Post /\ Unrecorded
    BY <1>5, AtWork, UnrecordedBy DEF QuotaBlocked, Working, Context
  <2>2. Lets(RetryLater(wk[w].post, "QUOTA_BLOCKED"), wk[w].post)
    BY <2>1, StatusNames, ReleasedLets DEF Context
  <2> QED
    BY <1>5, <2>1, <2>2, EndRecord DEF QuotaBlocked
<1>6. ASSUME PassGate(w) PROVE RecordInv' /\ OnceStep
  <2>1. wk[w].pc = "gate" /\ wk[w] \in WorkerState /\ Unrecorded
    BY <1>6, AtWork, UnrecordedBy DEF PassGate, Working, Context
  <2>2. PICK p \in Post : wk[w].post = p
    BY <2>1, AtWork DEF Context
  <2>3. CASE Fenced(w)
    <3>1. PICK r, s :
            /\ r = [row[p] EXCEPT !.attempts = NextAttempt(@)]
            /\ s = [wk[w] EXCEPT !.attempts = NextAttempt(@),
                                 !.pc = IF wk[w].container THEN "poll" ELSE "container"]
            /\ Update(p, r) /\ wk' = [wk EXCEPT ![w] = s]
      BY <1>6, <2>2, <2>3 DEF PassGate, FencedStep
    <3>2. wk'[w] = s /\ s.post = p /\ s.pc \in {"poll", "container"}
          /\ s.ambiguous = wk[w].ambiguous
      BY <2>1, <2>2, <3>1 DEF Context, TypeOK, WorkerState
    <3>3. /\ row'[p] = r /\ r.status = row[p].status
          /\ r.requested = row[p].requested /\ r.ambiguous = row[p].ambiguous
      BY <3>1 DEF Context, TypeOK, Row, Update
    <3>4. row[p].status \in Leased /\ AskOK(p) /\ SureOK(w)
      BY <2>1, <2>2, <2>3, Held DEF Context, RecordInv
    <3>5. Proceeds(p)
      BY <3>3, <3>4, StatusKinds DEF Proceeds, AskOK
    <3>6. SureOK(w)'
      BY <2>1, <2>2, <3>2, <3>3, <3>4 DEF SureOK, Reaching
    <3> QED
      BY <2>1, <2>2, <3>1, <3>3, <3>5, <3>6, GoesOn
  <2>4. CASE ~Fenced(w)
    BY <1>6, <2>1, <2>4, EndsRecord DEF PassGate, FencedStep
  <2> QED
    BY <2>3, <2>4
<1> QED
  BY <1>1, <1>2, <1>3, <1>4, <1>5, <1>6

\* A fenced write after which the job goes on to s, or ends where it did not match.
LEMMA FencedRecord ==
  ASSUME Context, Unrecorded, NEW w \in Worker, wk[w].pc # "idle", NEW p \in Post,
         p = wk[w].post, NEW r \in Row, NEW s, FencedStep(w, r, s),
         r.status \in Leased, row[p].requested => r.requested,
         Fenced(w) /\ (r.ambiguous \/ r.status = "PUBLISHING") => r.requested,
         s.post = p, s.pc # "commit",
         Fenced(w) /\ (s.ambiguous \/ s.pc \in Reaching) => r.requested
  PROVE  RecordInv' /\ OnceStep
<1>1. CASE Fenced(w)
  <2>1. /\ wk' = [wk EXCEPT ![w] = s] /\ wk'[w] = s /\ Update(p, r) /\ row'[p] = r
    BY <1>1 DEF FencedStep, Update, Context, TypeOK
  <2>2. row[p].status \in Leased /\ row[p] \in Row
    BY <1>1, Held DEF Context
  <2>3. r.status \in Active /\ row[p].status \in Active /\ r.status # "RECOVERY_REQUIRED"
    BY <2>2, StatusKinds DEF Leased
  <2>4. Proceeds(p)
    BY <1>1, <2>1, <2>2, <2>3, StatusKinds DEF Proceeds, Row
  <2>5. SureOK(w)'
    BY <1>1, <2>1 DEF SureOK
  <2> QED
    BY <2>1, <2>4, <2>5, GoesOn
<1>2. CASE ~Fenced(w)
  BY <1>2, EndsRecord DEF FencedStep
<1> QED
  BY <1>1, <1>2

\* A worker in doubt marks its row ambiguous under its lease, and searches the feed.
LEMMA DoubtRecord ==
  ASSUME Context, Unrecorded, NEW w \in Worker, wk[w].pc # "idle", NEW p \in Post,
         p = wk[w].post, row[p].requested, NEW s, wk' = [wk EXCEPT ![w] = s],
         s.post = p, s.pc # "commit",
         row' = row \/ (Fenced(w) /\ Update(p, [row[p] EXCEPT !.ambiguous = TRUE]))
  PROVE  RecordInv' /\ OnceStep
<1>1. wk'[w] = s /\ row[p] \in Row
  BY DEF Context, TypeOK
<1>2. CASE row' = row
  <2>1. SureOK(w)'
    BY <1>1, <1>2 DEF SureOK
  <2> QED
    BY <1>2, <2>1, GoesOn
<1>3. CASE Fenced(w) /\ Update(p, [row[p] EXCEPT !.ambiguous = TRUE])
  <2>1. /\ row'[p] = [row[p] EXCEPT !.ambiguous = TRUE]
        /\ row'[p].status = row[p].status /\ row'[p].requested = row[p].requested
    BY <1>1, <1>3 DEF Update, Context, TypeOK, Row
  <2>2. row[p].status \in Active
    BY <1>3, Held, StatusKinds DEF Context
  <2>3. Proceeds(p) /\ Update(p, row'[p])
    BY <1>3, <2>1, <2>2, StatusKinds DEF Proceeds
  <2>4. SureOK(w)'
    BY <1>1, <2>1 DEF SureOK
  <2> QED
    BY <2>3, <2>4, GoesOn
<1> QED
  BY <1>2, <1>3

LEMMA RecordContainer ==
  ASSUME Context, NEW w \in Worker
  PROVE  /\ CreatesExhausted(w) \/ StartCreate(w) \/ ContainerCreated(w) => RecordInv' /\ OnceStep
         /\ PollFinished(w) \/ PollPublished(w) \/ PollBypassed(w) => RecordInv' /\ OnceStep
         /\ ContainerError(w) \/ ContainerExpired(w) => RecordInv' /\ OnceStep
<1> USE DEF rowVars, platformVars
<1>1. ASSUME CreatesExhausted(w) \/ ContainerError(w) PROVE RecordInv' /\ OnceStep
  <2>1. /\ wk[w].pc # "idle" /\ wk[w].post \in Post /\ Unrecorded
        /\ EndWith(w, Released(wk[w].post, "FAILED_PERMANENT"))
    BY <1>1, AtWork, UnrecordedBy DEF CreatesExhausted, ContainerError, Working, Context
  <2>2. Lets(Released(wk[w].post, "FAILED_PERMANENT"), wk[w].post)
    BY <2>1, StatusNames, ReleasedLets DEF Context
  <2> QED
    BY <2>1, <2>2, EndRecord
<1>2. ASSUME StartCreate(w) PROVE RecordInv' /\ OnceStep
  <2>1. wk[w].pc = "container" /\ wk[w] \in WorkerState /\ Unrecorded
    BY <1>2, AtWork, UnrecordedBy DEF StartCreate, Working, Context
  <2>2. PICK p \in Post : wk[w].post = p
    BY <2>1, AtWork DEF Context
  <2>3. PICK r, s :
          /\ r = [row[p] EXCEPT !.status = "CREATING_CONTAINER", !.creates = @ + 1]
          /\ s = [wk[w] EXCEPT !.pc = "creating"] /\ FencedStep(w, r, s)
    BY <1>2, <2>2 DEF StartCreate
  <2>4. s.post = p /\ s.pc = "creating" /\ s.ambiguous = wk[w].ambiguous
    BY <2>1, <2>2, <2>3 DEF WorkerState
  <2>5. /\ r \in Row /\ r.status = "CREATING_CONTAINER"
        /\ r.requested = row[p].requested /\ r.ambiguous = row[p].ambiguous
    <3>1. row[p] \in Row
      BY DEF Context, TypeOK
    <3>2. row[p].creates + 1 \in Nat
      BY <3>1 DEF Row
    <3>3. r = [row[p] EXCEPT !.status = "CREATING_CONTAINER", !.creates = row[p].creates + 1]
      BY <2>3
    <3> HIDE <2>3
    <3> QED
      BY <3>1, <3>2, <3>3, StatusNames DEF Row
  <2>6. AskOK(p) /\ SureOK(w)
    BY DEF Context, RecordInv
  <2>7. /\ r.status \in Leased /\ (row[p].requested => r.requested)
        /\ r.ambiguous \/ r.status = "PUBLISHING" => r.requested
    BY <2>5, <2>6, LeasedNames DEF AskOK
  <2>8. s.ambiguous \/ s.pc \in Reaching => r.requested
    BY <2>1, <2>2, <2>4, <2>5, <2>6 DEF SureOK, Reaching
  <2> QED
    BY <2>1, <2>2, <2>3, <2>4, <2>5, <2>7, <2>8, FencedRecord
<1>3. ASSUME ContainerCreated(w) PROVE RecordInv' /\ OnceStep
  <2>1. wk[w].pc = "creating" /\ wk[w] \in WorkerState /\ Unrecorded
    <3>1. \A p \in Post : cstat'[p] = "PUBLISHED" => cstat[p] = "PUBLISHED"
      BY <1>3 DEF ContainerCreated, Context, TypeOK
    <3> QED
      BY <1>3, <3>1, AtWork DEF ContainerCreated, Working, Context, Unrecorded
  <2>2. PICK p \in Post : wk[w].post = p
    BY <2>1, AtWork DEF Context
  <2>3. PICK r, s :
          /\ r = [row[p] EXCEPT !.status = "CONTAINER_CREATED", !.container = TRUE]
          /\ s = [wk[w] EXCEPT !.pc = "poll", !.container = TRUE] /\ FencedStep(w, r, s)
    BY <1>3, <2>2 DEF ContainerCreated
  <2>4. s.post = p /\ s.pc = "poll" /\ s.ambiguous = wk[w].ambiguous
    BY <2>1, <2>2, <2>3 DEF WorkerState
  <2>5. /\ r \in Row /\ r.status = "CONTAINER_CREATED"
        /\ r.requested = row[p].requested /\ r.ambiguous = row[p].ambiguous
    <3>1. row[p] \in Row
      BY DEF Context, TypeOK
    <3> QED
      BY <2>3, <3>1, StatusNames DEF Row
  <2>6. AskOK(p) /\ SureOK(w)
    BY DEF Context, RecordInv
  <2>7. /\ r.status \in Leased /\ (row[p].requested => r.requested)
        /\ r.ambiguous \/ r.status = "PUBLISHING" => r.requested
    BY <2>5, <2>6, LeasedNames DEF AskOK
  <2>8. s.ambiguous \/ s.pc \in Reaching => r.requested
    BY <2>1, <2>2, <2>4, <2>5, <2>6 DEF SureOK, Reaching
  <2> QED
    BY <2>1, <2>2, <2>3, <2>4, <2>5, <2>7, <2>8, FencedRecord
<1>4. ASSUME PollFinished(w) \/ PollBypassed(w) PROVE RecordInv' /\ OnceStep
  <2>1. wk[w].pc = "poll" /\ wk[w] \in WorkerState /\ row' = row /\ Unrecorded
    BY <1>4, AtWork, UnrecordedBy DEF PollFinished, PollBypassed, Working, Context
  <2>2. PICK p \in Post, pc \in {"recover", "publish"} :
          wk[w].post = p /\ Goto(w, pc) /\ (pc = "recover" => wk[w].ambiguous)
    BY <1>4, <2>1, AtWork DEF PollFinished, PollBypassed, Context
  <2>3. PICK s : s = [wk[w] EXCEPT !.pc = pc]
    OBVIOUS
  <2>4. /\ wk' = [wk EXCEPT ![w] = s] /\ wk'[w] = s /\ s.post = p /\ s.pc = pc
        /\ s.ambiguous = wk[w].ambiguous
    BY <2>1, <2>2, <2>3 DEF Goto, WorkerState, Context, TypeOK
  <2>5. SureOK(w)
    BY DEF Context, RecordInv
  <2>6. SureOK(w)'
    BY <2>1, <2>2, <2>4, <2>5 DEF SureOK, Reaching
  <2> QED
    BY <2>1, <2>2, <2>4, <2>6, GoesOn
<1>5. ASSUME PollPublished(w) PROVE RecordInv' /\ OnceStep
  <2>1. wk[w].pc = "poll" /\ wk[w] \in WorkerState /\ Unrecorded
    BY <1>5, AtWork, UnrecordedBy DEF PollPublished, Working, Context
  <2>2. PICK p \in Post : wk[w].post = p
    BY <2>1, AtWork DEF Context
  <2>3. PICK s : s = [wk[w] EXCEPT !.pc = "recover", !.ambiguous = TRUE]
    OBVIOUS
  <2>4. s.post = p /\ s.pc = "recover"
    BY <2>1, <2>2, <2>3 DEF WorkerState
  <2>5. /\ wk' = [wk EXCEPT ![w] = s] /\ cstat[p] = "PUBLISHED"
        /\ row' = row \/ (Fenced(w) /\ Update(p, [row[p] EXCEPT !.ambiguous = TRUE]))
    BY <1>5, <2>2, <2>3 DEF PollPublished
  <2>6. row[p].requested
    BY <2>5 DEF Context, RecordInv, FeedOK, SendInv, Unasked
  <2> QED
    BY <2>1, <2>2, <2>4, <2>5, <2>6, DoubtRecord
<1>6. ASSUME ContainerExpired(w) PROVE RecordInv' /\ OnceStep
  <2>1. wk[w].pc = "poll" /\ wk[w].post \in Post /\ Unrecorded
    BY <1>6, AtWork, UnrecordedBy DEF ContainerExpired, Working, Context
  <2>2. PICK r : /\ EndWith(w, [r EXCEPT !.container = FALSE])
                 /\ \/ r = Released(wk[w].post, "FAILED_PERMANENT")
                    \/ r = RetryLater(wk[w].post, "FAILED_RETRYABLE")
    BY <1>6 DEF ContainerExpired
  <2>3. r \in Row /\ Lets(r, wk[w].post)
    BY <2>1, <2>2, StatusNames, ReleasedFields, ReleasedLets DEF Context
  <2>4. Lets([r EXCEPT !.container = FALSE], wk[w].post)
    BY <2>3 DEF Lets, Row
  <2> QED
    BY <2>1, <2>2, <2>4, EndRecord
<1> QED
  BY <1>1, <1>2, <1>3, <1>4, <1>5, <1>6

LEMMA RecordCatch ==
  ASSUME Context, Unrecorded, NEW w \in Worker, wk[w].pc \notin {"idle", "read"},
         NEW c \in ErrorClass, Catch(w, c)
  PROVE  RecordInv' /\ OnceStep
<1>1. wk[w].post \in Post /\ wk[w].ambiguous \in BOOLEAN /\ SureOK(w)
  BY AtWork DEF WorkerState, Context, RecordInv
<1>2. wk[w].ambiguous => row[wk[w].post].requested
  BY <1>1 DEF SureOK
<1>3. \A s \in {"AUTH_REQUIRED", "FAILED_RETRYABLE", "FAILED_PERMANENT"} :
        Lets(Released(wk[w].post, s), wk[w].post) /\ Lets(RetryLater(wk[w].post, s), wk[w].post)
  BY <1>1, StatusNames, ReleasedLets DEF Context
<1>4. wk[w].ambiguous => Lets(Released(wk[w].post, "RECOVERY_REQUIRED"), wk[w].post)
  BY <1>1, <1>2, StatusNames, ReleasedLets DEF Context
<1>5. Lets(AfterError(w, c), wk[w].post)
  BY <1>1, <1>3, <1>4 DEF AfterError, ErrorClass
<1> QED
  BY <1>5, EndRecord DEF Catch

\* A row that asked for a post is recorded with one that exists and belongs to no other.
LEMMA RecordedOK ==
  ASSUME Context, NEW p \in Post, NEW q \in Post, Recordable(p, q), Record(p, q),
         q \in feed, SameText(p, q), row[p].requested, row[p].status \in Active,
         UNCHANGED <<attested, platformVars>>, \A w \in Worker : SureOK(w)'
  PROVE  RecordInv' /\ OnceStep
<1> USE DEF platformVars
<1>1. /\ row'[p] = Released(p, "PUBLISHED") /\ \A r \in Post : r # p => row'[r] = row[r]
      /\ adopted'[p] = q /\ \A r \in Post : r # p => adopted'[r] = adopted[r]
      /\ events'[p] = events[p] + 1 /\ \A r \in Post : r # p => events'[r] = events[r]
  BY DEF Record, Update, Context, TypeOK
<1>2. /\ row'[p].status = "PUBLISHED" /\ row'[p].requested = row[p].requested
      /\ row'[p].ambiguous = row[p].ambiguous
  <2>1. row[p] \in Row
    BY DEF Context, TypeOK
  <2> QED
    BY <1>1, <2>1 DEF Released, Row
<1>3. row[p].status \notin Final /\ q # NoPost /\ adopted[p] = NoPost
  <2>1. row[p].status # "PUBLISHED" /\ row[p].status \notin Final
    BY StatusKinds
  <2> QED
    BY <2>1, NullAssumption DEF Context, RecordInv, PublishedIsRecorded
<1>4. \A r \in Post : adopted[r] # q
  BY <1>3 DEF Recordable
<1>5. PublishedIsRecorded'
  <2> SUFFICES ASSUME NEW r \in Post
      PROVE  /\ (row'[r].status = "PUBLISHED") <=> (adopted'[r] # NoPost)
             /\ events'[r] = IF row'[r].status = "PUBLISHED" THEN 1 ELSE 0
             /\ adopted'[r] # NoPost =>
                  /\ adopted'[r] \in feed' /\ SameText(r, adopted'[r])
                  /\ \A t \in Post : adopted'[t] = adopted'[r] => t = r
    BY DEF PublishedIsRecorded, SameText
  <2>1. PublishedIsRecorded
    BY DEF Context, RecordInv
  <2>2. CASE r = p
    <3>1. events[p] = 0
      BY <1>3, <2>1, StatusKinds DEF PublishedIsRecorded
    <3> QED
      BY <1>1, <1>2, <1>3, <1>4, <2>2, <3>1
  <2>3. CASE r # p
    <3>1. /\ (row'[r].status = "PUBLISHED") <=> (adopted'[r] # NoPost)
          /\ events'[r] = IF row'[r].status = "PUBLISHED" THEN 1 ELSE 0
      BY <1>1, <2>1, <2>3 DEF PublishedIsRecorded
    <3>2. adopted'[r] # NoPost =>
            adopted'[r] \in feed' /\ SameText(r, adopted'[r])
      BY <1>1, <2>1, <2>3 DEF PublishedIsRecorded
    <3>3. adopted'[r] # NoPost => \A t \in Post : adopted'[t] = adopted'[r] => t = r
      BY <1>1, <1>4, <2>1, <2>3 DEF PublishedIsRecorded
    <3> QED
      BY <3>1, <3>2, <3>3
  <2> QED
    BY <2>2, <2>3
<1>6. OneActive'
  BY <1>1, <1>2, StatusKinds DEF Context, RecordInv, OneActive
<1>7. \A r \in Post : FeedOK(r)' /\ AskOK(r)'
  BY <1>1, <1>2 DEF Context, RecordInv, FeedOK, AskOK
<1>8. OnceStep
  <2>1. Phase(p) = "open" /\ Phase(p)' = "published"
    BY <1>2, <1>3, StatusKinds DEF Phase
  <2>2. \A r \in Post : r # p => Phase(r)' = Phase(r)
    BY <1>1 DEF Phase
  <2>3. Phases[p] = "open" /\ Phases' = [Phases EXCEPT ![p] = "published"]
    BY <2>1, <2>2 DEF Phases
  <2>4. Asked' = Asked /\ p \in Asked
    BY <1>1, <1>2 DEF Asked
  <2>5. adopted' = [adopted EXCEPT ![p] = q]
    BY DEF Record
  <2>6. Once!Publish(p, q)
    BY <1>4, <2>3, <2>4, <2>5 DEF Once!Publish, Once!Move, Phases, Asked, SameText
  <2> QED
    BY <2>6 DEF OnceStep, Once!Next
<1> QED
  BY <1>5, <1>6, <1>7, <1>8 DEF RecordInv

\* What a worker is about to do, as a step of the abstract specification.
LEMMA SendRecord ==
  ASSUME Context, NEW w \in Worker, Send(w)
  PROVE  RecordInv' /\ OnceStep
<1> USE DEF rowVars, platformVars
<1>1. wk[w].pc = "send" /\ wk[w] \in WorkerState /\ row' = row /\ adopted' = adopted
      /\ events' = events /\ attested' = attested /\ feed' = feed /\ cstat' = cstat
  BY AtWork DEF Send, Working, Context
<1>2. PICK p \in Post : wk[w].post = p
  BY <1>1, AtWork DEF Context
<1>3. row[p].requested /\ sent[p] = 0
  BY <1>1, <1>2 DEF Context, SendInv, Unasked, OneSender, Sending
<1>4. /\ sent' = [sent EXCEPT ![p] = 1] /\ inflight' = inflight \cup {p}
      /\ sent'[p] = 1 /\ \A q \in Post : q # p => sent'[q] = sent[q]
  BY <1>2, <1>3 DEF Send, Context, TypeOK
<1>5. \A q \in Post : FeedOK(q)' /\ AskOK(q)'
  BY <1>1, <1>4 DEF Context, RecordInv, FeedOK, AskOK
<1>6. \A v \in Worker : SureOK(v)'
  <2>1. wk'[w] = [wk[w] EXCEPT !.pc = "await"] /\ \A v \in Worker : v # w => wk'[v] = wk[v]
    BY DEF Send, Goto, Context, TypeOK
  <2>2. wk'[w].pc = "await" /\ wk'[w].post = p
    BY <1>1, <1>2, <2>1 DEF WorkerState
  <2>3. SureOK(w)'
    BY <1>1, <1>3, <2>2 DEF SureOK
  <2>4. \A v \in Worker : v # w => SureOK(v)'
    BY <1>1, <2>1 DEF Context, RecordInv, SureOK, SameText
  <2> QED
    BY <2>3, <2>4
<1>7. PublishedIsRecorded' /\ OneActive'
  BY <1>1 DEF Context, RecordInv, PublishedIsRecorded, OneActive
<1>8. Once!Request(p)
  BY <1>1, <1>3, <1>4 DEF Once!Request, Phase
<1> QED
  BY <1>5, <1>6, <1>7, <1>8 DEF RecordInv, OnceStep, Once!Next

LEMMA RecordPublish ==
  ASSUME Context, NEW w \in Worker
  PROVE  /\ StartPublish(w) \/ Send(w) \/ PublishAnswers(w) \/ PublishFails(w)
              => RecordInv' /\ OnceStep
         /\ (\E q \in Post : FoundInFeed(w, q)) => RecordInv' /\ OnceStep
         /\ Quarantine(w) \/ Commit(w) \/ CommitRefused(w) => RecordInv' /\ OnceStep
         /\ \A c \in ErrorClass : CallFails(w, c) \/ PollFails(w, c) => RecordInv' /\ OnceStep
<1> USE DEF rowVars, platformVars
<1>1. ASSUME StartPublish(w) PROVE RecordInv' /\ OnceStep
  <2>1. wk[w].pc = "publish" /\ wk[w] \in WorkerState /\ Unrecorded
    BY <1>1, AtWork, UnrecordedBy DEF StartPublish, Working, Context
  <2>2. PICK p \in Post : wk[w].post = p
    BY <2>1, AtWork DEF Context
  <2>3. PICK r, s :
          /\ r = [row[p] EXCEPT !.status = "PUBLISHING", !.requested = TRUE]
          /\ s = [wk[w] EXCEPT !.pc = "send", !.ambiguous = TRUE] /\ FencedStep(w, r, s)
    BY <1>1, <2>2 DEF StartPublish
  <2>4. s.post = p /\ s.pc = "send"
    BY <2>1, <2>2, <2>3 DEF WorkerState
  <2>5. r \in Row /\ r.status = "PUBLISHING" /\ r.requested
    <3>1. row[p] \in Row
      BY DEF Context, TypeOK
    <3> QED
      BY <2>3, <3>1, StatusNames DEF Row
  <2> QED
    <3>1. r.status \in Leased
      BY <2>5, LeasedNames
    <3> QED
      BY <2>1, <2>2, <2>3, <2>4, <2>5, <3>1, FencedRecord
<1>2. ASSUME PublishAnswers(w) \/ \E q \in Post : FoundInFeed(w, q)
      PROVE  RecordInv' /\ OnceStep
  <2>1. wk[w].pc \in {"await", "recover"} /\ wk[w] \in WorkerState /\ row' = row /\ Unrecorded
    BY <1>2, AtWork, UnrecordedBy DEF PublishAnswers, FoundInFeed, Working, Context
  <2>2. PICK p \in Post : wk[w].post = p
    BY <2>1, AtWork DEF Context
  <2>3. PICK q \in Post : /\ wk' = [wk EXCEPT ![w] = [wk[w] EXCEPT !.pc = "commit", !.found = q]]
                          /\ q \in feed /\ SameText(p, q)
    BY <1>2, <2>2 DEF PublishAnswers, FoundInFeed, SameText
  <2>4. PICK s : s = [wk[w] EXCEPT !.pc = "commit", !.found = q]
    OBVIOUS
  <2>5. wk'[w] = s /\ s.post = p /\ s.found = q
    BY <2>1, <2>2, <2>3, <2>4 DEF WorkerState, Context, TypeOK
  <2>6. SureOK(w)
    BY DEF Context, RecordInv
  <2>7. row[p].requested /\ feed' = feed
    BY <2>1, <2>2, <2>6 DEF SureOK, Reaching, Unrecorded
  <2>8. SureOK(w)'
    <3>1. row'[wk'[w].post].requested /\ wk'[w].found \in feed'
      <4>1. wk'[w].post = p /\ wk'[w].found = q /\ row' = row
        BY <2>1, <2>5
      <4> QED
        BY <4>1, <2>3, <2>7, Zenon
    <3>2. TextOf[wk'[w].post] = TextOf[wk'[w].found]
      BY <2>3, <2>5 DEF SameText
    <3> QED
      BY <3>1, <3>2 DEF SureOK, SameText
  <2> QED
    BY <2>1, <2>2, <2>3, <2>4, <2>8, GoesOn
<1>3. ASSUME PublishFails(w) PROVE RecordInv' /\ OnceStep
  <2>1. wk[w].pc = "await" /\ wk[w] \in WorkerState /\ Unrecorded
    BY <1>3, AtWork, UnrecordedBy DEF PublishFails, Working, Context
  <2>2. PICK p \in Post : wk[w].post = p
    BY <2>1, AtWork DEF Context
  <2>3. PICK s : s = [wk[w] EXCEPT !.pc = "recover"]
    OBVIOUS
  <2>4. s.post = p /\ s.pc = "recover"
    BY <2>1, <2>2, <2>3 DEF WorkerState
  <2>5. /\ wk' = [wk EXCEPT ![w] = s]
        /\ row' = row \/ (Fenced(w) /\ Update(p, [row[p] EXCEPT !.ambiguous = TRUE]))
    BY <1>3, <2>2, <2>3 DEF PublishFails, Goto
  <2>6. SureOK(w)
    BY DEF Context, RecordInv
  <2>7. row[p].requested
    BY <2>1, <2>2, <2>6 DEF SureOK, Reaching
  <2> QED
    BY <2>1, <2>2, <2>4, <2>5, <2>7, DoubtRecord
<1>4. ASSUME Quarantine(w) PROVE RecordInv' /\ OnceStep
  <2>1. wk[w].pc = "recover" /\ wk[w].post \in Post /\ Unrecorded /\ SureOK(w)
    BY <1>4, AtWork, UnrecordedBy DEF Quarantine, Working, Context, RecordInv
  <2>2. Lets(Released(wk[w].post, "RECOVERY_REQUIRED"), wk[w].post)
    BY <2>1, StatusNames, ReleasedLets DEF Context, SureOK, Reaching
  <2> QED
    BY <1>4, <2>1, <2>2, EndRecord DEF Quarantine
<1>5. ASSUME Commit(w) PROVE RecordInv' /\ OnceStep
  <2>1. wk[w].pc = "commit" /\ End(w) /\ SureOK(w)
        /\ UNCHANGED <<attested, cstat, inflight, feed, sent>>
    BY <1>5 DEF Commit, Working, Context, RecordInv
  <2>2. PICK p \in Post, q \in Post : wk[w].post = p /\ wk[w].found = q
    BY <2>1, AtWork DEF Context, WellFormed
  <2>3. CASE Fenced(w)
    <3>1. Recordable(p, q) /\ Record(p, q)
      BY <1>5, <2>2, <2>3 DEF Commit
    <3>2. q \in feed /\ SameText(p, q) /\ row[p].requested
      BY <2>1, <2>2 DEF SureOK, Reaching
    <3>3. row[p].status \in Active
      BY <2>1, <2>2, <2>3, Held, StatusKinds DEF Context
    <3>4. \A v \in Worker : SureOK(v)'
      <4>1. wk'[w] = Idle /\ \A v \in Worker : v # w => wk'[v] = wk[v]
        BY <2>1 DEF End, Context, TypeOK
      <4>2. SureOK(w)'
        BY <4>1 DEF SureOK, Idle
      <4>3. \A r \in Post : row'[r].requested = row[r].requested
        BY <3>1, StatusNames, ReleasedFields DEF Record, Update, Context, TypeOK
      <4>4. ASSUME NEW v \in Worker, v # w PROVE SureOK(v)'
        <5>1. SureOK(v) /\ (wk[v].pc # "idle" => wk[v].post \in Post)
          BY AtWork DEF Context, RecordInv
        <5> QED
          BY <2>1, <4>1, <4>3, <4>4, <5>1 DEF SureOK, SameText
      <4> QED
        BY <4>2, <4>4
    <3> QED
      BY <2>1, <3>1, <3>2, <3>3, <3>4, RecordedOK
  <2>4. CASE ~Fenced(w)
    <3>1. Unrecorded /\ row' = row
      BY <1>5, <2>1, <2>4, UnrecordedBy DEF Commit
    <3> QED
      BY <2>1, <3>1, EndsRecord
  <2> QED
    BY <2>3, <2>4
<1>6. ASSUME NEW c \in ErrorClass, CallFails(w, c) \/ PollFails(w, c)
      PROVE  RecordInv' /\ OnceStep
  BY <1>6, RecordCatch, UnrecordedBy DEF CallFails, PollFails, Catch, Working
<1>7. ASSUME CommitRefused(w) PROVE RecordInv' /\ OnceStep
  BY <1>7, RecordCatch, UnrecordedBy DEF CommitRefused, Catch, Working, ErrorClass
<1> QED
  BY <1>1, <1>2, <1>3, <1>4, <1>5, <1>6, <1>7, SendRecord

\* A step that is no worker's changes one row.
LEMMA OtherRecord ==
  ASSUME Context, Unrecorded, wk' = wk, NEW p \in Post,
         \A q \in Post : q # p => row'[q] = row[q], row'[p] = row[p] \/ Proceeds(p)
  PROVE  RecordInv' /\ OnceStep
<1>1. ASSUME NEW w \in Worker PROVE SureOK(w)'
  <2>1. SureOK(w) /\ (wk[w].pc # "idle" => wk[w].post \in Post) /\ feed' = feed
    BY AtWork DEF Context, RecordInv, Unrecorded
  <2>2. \A q \in Post : row[q].requested => row'[q].requested
    BY DEF Proceeds
  <2> QED
    BY <2>1, <2>2 DEF SureOK, SameText
<1> QED
  BY <1>1, ProceedsInv, ProceedsOnce DEF Context

LEMMA RecordFault ==
  ASSUME Context, Fault
  PROVE  RecordInv' /\ OnceStep
<1> USE DEF rowVars, platformVars
<1>1. ASSUME NEW w \in Worker, Crash(w) PROVE RecordInv' /\ OnceStep
  BY <1>1, EndsRecord, UnrecordedBy DEF Crash, Working
<1>2. ASSUME NEW w \in Worker, DatabaseFails(w) PROVE RecordInv' /\ OnceStep
  BY <1>2, RecordCatch, UnrecordedBy DEF DatabaseFails, Catch, ErrorClass
<1>3. ASSUME NEW p \in Post, NEW j \in JobId, LoseJob(p, j) PROVE RecordInv' /\ OnceStep
  BY <1>3, NoRecord, UnrecordedBy DEF LoseJob
<1> QED
  BY <1>1, <1>2, <1>3 DEF Fault

LEMMA LandRecord ==
  ASSUME Context, NEW p \in Post, Land(p)
  PROVE  RecordInv' /\ OnceStep
<1> USE DEF rowVars, platformVars
<1>1. /\ UNCHANGED <<row, wk, adopted, events, attested, sent>> /\ feed' = feed \cup {p}
      /\ inflight' \subseteq inflight /\ p \in inflight
      /\ \A q \in Post : cstat'[q] = "PUBLISHED" => cstat[q] = "PUBLISHED" \/ q = p
  BY DEF Land, Context, TypeOK
<1>2. sent[p] = 1
  BY <1>1 DEF Context, RecordInv, FeedOK
<1>3. \A q \in Post : FeedOK(q)' /\ AskOK(q)'
  BY <1>1, <1>2 DEF Context, RecordInv, FeedOK, AskOK
<1>4. \A w \in Worker : SureOK(w)'
  BY <1>1 DEF Context, RecordInv, SureOK, SameText
<1>5. PublishedIsRecorded' /\ OneActive'
  BY <1>1 DEF Context, RecordInv, PublishedIsRecorded, OneActive, SameText
<1>6. Once!Appear(p)
  BY <1>1, <1>2 DEF Once!Appear, Phase
<1> QED
  BY <1>3, <1>4, <1>5, <1>6 DEF RecordInv, OnceStep, Once!Next

LEMMA RecordBackground ==
  ASSUME Context, NEW p \in Post, Clock(p) \/ Platform(p) \/ Reconcile(p)
  PROVE  RecordInv' /\ OnceStep
<1> USE DEF rowVars, platformVars
<1>1. row[p] \in Row /\ AskOK(p)
  BY DEF Context, TypeOK, RecordInv
<1>2. CASE LeaseRunsOut(p)
  <2>1. /\ row[p].live /\ row'[p] = [row[p] EXCEPT !.live = FALSE]
        /\ \A q \in Post : q # p => row'[q] = row[q]
    BY <1>2 DEF LeaseRunsOut, Update, Context, TypeOK
  <2>2. /\ row'[p].status = row[p].status /\ row'[p].requested = row[p].requested
        /\ row'[p].ambiguous = row[p].ambiguous
    BY <1>1, <2>1 DEF Row
  <2>3. wk' = wk /\ Unrecorded
    BY <1>2, UnrecordedBy DEF LeaseRunsOut
  <2>4. CASE row[p].status \notin {"NONE", "PUBLISHED"}
    <3>1. Proceeds(p)
      BY <1>1, <2>2, <2>4 DEF Proceeds, AskOK
    <3> QED
      BY <2>1, <2>3, <3>1, OtherRecord
  \* Only a held row is live, but that a lease runs out changes nothing of any row.
  <2>5. CASE row[p].status \in {"NONE", "PUBLISHED"}
    <3>1. \A q \in Post : /\ row'[q].status = row[q].status
                          /\ row'[q].requested = row[q].requested
                          /\ row'[q].ambiguous = row[q].ambiguous
      BY <2>1, <2>2
    <3>2. \A q \in Post : Phase(q)' = Phase(q)
      BY <2>3, <3>1 DEF Phase, Unrecorded
    <3>3. OnceStep
      BY <2>3, <3>1, <3>2 DEF OnceStep, Once!vars, Unrecorded
    <3>4. \A w \in Worker : SureOK(w)'
      <4>1. \A w \in Worker : wk[w].pc # "idle" => wk[w].post \in Post
        BY AtWork DEF Context
      <4> QED
        BY <2>3, <3>1, <4>1 DEF Context, RecordInv, SureOK, SameText, Unrecorded
    <3>5. PublishedIsRecorded' /\ OneActive' /\ \A q \in Post : FeedOK(q)' /\ AskOK(q)'
      BY <2>3, <3>1
      DEF Context, RecordInv, PublishedIsRecorded, OneActive, FeedOK, AskOK, Unrecorded
    <3> QED
      BY <3>3, <3>4, <3>5 DEF RecordInv
  <2> QED
    BY <2>4, <2>5
<1>3. CASE RetryDue(p)
  <2>1. /\ row[p].status \in Active /\ row'[p] = [row[p] EXCEPT !.due = TRUE]
        /\ \A q \in Post : q # p => row'[q] = row[q]
    BY <1>3 DEF RetryDue, Update, Context, TypeOK, Active
  <2>2. /\ row'[p].status = row[p].status /\ row'[p].requested = row[p].requested
        /\ row'[p].ambiguous = row[p].ambiguous
    BY <1>1, <2>1 DEF Row
  <2>3. Proceeds(p)
    BY <1>1, <2>1, <2>2, StatusKinds DEF Proceeds, AskOK
  <2>4. wk' = wk /\ Unrecorded
    BY <1>3, UnrecordedBy DEF RetryDue
  <2> QED
    BY <2>1, <2>3, <2>4, OtherRecord
<1>4. CASE FailStale(p)
  <2>1. wk' = wk /\ Unrecorded
    BY <1>4, UnrecordedBy DEF FailStale
  <2>2. CASE ~Stale(p)
    BY <1>4, <2>1, <2>2, NoRecord DEF FailStale
  <2>3. CASE Stale(p)
    <3>1. /\ row'[p] = Released(p, "FAILED_PERMANENT")
          /\ \A q \in Post : q # p => row'[q] = row[q]
      BY <1>4, <2>3 DEF FailStale, Update, Context, TypeOK
    <3>2. /\ row'[p].status = "FAILED_PERMANENT" /\ row'[p].requested = row[p].requested
          /\ row'[p].ambiguous = row[p].ambiguous
      BY <1>1, <3>1 DEF Released, Row
    <3>3. Proceeds(p)
      BY <1>1, <2>3, <3>2, StatusKinds DEF Proceeds, AskOK, Stale
    <3> QED
      BY <2>1, <3>1, <3>3, OtherRecord
  <2> QED
    BY <2>2, <2>3
<1>5. CASE \E s \in ContainerStatus : ContainerMoves(p, s)
  <2>1. \A q \in Post : cstat'[q] = "PUBLISHED" => cstat[q] = "PUBLISHED"
    BY <1>5 DEF ContainerMoves, Context, TypeOK
  <2> QED
    BY <1>5, <2>1, NoRecord DEF ContainerMoves, Unrecorded
<1>6. CASE Refuse(p)
  BY <1>6, NoRecord DEF Refuse, Unrecorded
<1>7. CASE \/ Age(p) \/ ScanDispatch(p) \/ ScanScheduled(p) \/ ScanRetry(p) \/ ScanStale(p)
           \/ ScanExhausted(p)
  <2>1. UNCHANGED <<row, wk, adopted, events, attested, feed, sent, cstat, inflight>>
    BY <1>7 DEF Age, ScanDispatch, ScanScheduled, ScanRetry, ScanStale, ScanJob, ScanExhausted
  <2> QED
    BY <2>1, NoRecord, UnrecordedBy
<1> QED
  BY <1>2, <1>3, <1>4, <1>5, <1>6, <1>7, LandRecord DEF Clock, Platform, Reconcile

LEMMA ScheduleRecord ==
  ASSUME Context, NEW p \in Post, Schedule(p)
  PROVE  RecordInv' /\ OnceStep
<1> USE DEF platformVars
<1>1. /\ row[p].status = "NONE" /\ ~HasActive(TargetOf[p])
      /\ row'[p] = [NewRow EXCEPT !.status = "SCHEDULED"]
      /\ \A q \in Post : q # p => row'[q] = row[q]
      /\ UNCHANGED <<wk, adopted, events, attested, cstat, inflight, feed, sent>>
  BY DEF Schedule, Update, Context, TypeOK
<1>2. row'[p].status = "SCHEDULED" /\ ~row'[p].requested /\ ~row'[p].ambiguous
  BY <1>1 DEF NewRow
<1>3. ~row[p].requested
  BY <1>1 DEF Context, SendInv, Unasked
<1>4. PublishedIsRecorded'
  BY <1>1, <1>2 DEF Context, RecordInv, PublishedIsRecorded
<1>5. OneActive'
  BY <1>1 DEF Context, RecordInv, OneActive, HasActive, RowsOf
<1>6. \A q \in Post : FeedOK(q)' /\ AskOK(q)'
  BY <1>1, <1>2 DEF Context, RecordInv, FeedOK, AskOK
<1>7. \A w \in Worker : SureOK(w)'
  <2>1. \A w \in Worker : wk[w].pc # "idle" => wk[w].post \in Post
    BY AtWork DEF Context
  <2> QED
    BY <1>1, <1>3, <2>1 DEF Context, RecordInv, SureOK, SameText
<1>8. Once!Open(p)
  <2>1. Phase(p) = "none" /\ Phase(p)' = "open"
    BY <1>1, <1>2 DEF Phase, Final
  <2>2. \A q \in Post : q # p => Phase(q)' = Phase(q)
    BY <1>1 DEF Phase
  <2>3. Phases[p] = "none" /\ Phases' = [Phases EXCEPT ![p] = "open"]
    BY <2>1, <2>2 DEF Phases
  <2>4. Asked' = Asked
    BY <1>1, <1>2, <1>3 DEF Asked
  <2> QED
    BY <1>1, <2>3, <2>4 DEF Once!Open, Once!Move, Phases, Asked
<1> QED
  BY <1>4, <1>5, <1>6, <1>7, <1>8 DEF RecordInv, OnceStep, Once!Next

\* An operator's attestation is the abstract specification's.
LEMMA AttestRecord ==
  ASSUME Context, NEW p \in Post, ConfirmNotPublished(p)
  PROVE  RecordInv' /\ OnceStep
<1> USE DEF platformVars
<1>1. CASE row[p].status # "RECOVERY_REQUIRED"
  BY <1>1, NoRecord, UnrecordedBy DEF ConfirmNotPublished
<1>2. CASE row[p].status = "RECOVERY_REQUIRED"
  <2>1. /\ row'[p] = [row[p] EXCEPT !.status = "CANCELLED"]
        /\ \A q \in Post : q # p => row'[q] = row[q]
        /\ attested' = attested \cup {p}
        /\ UNCHANGED <<wk, adopted, events, cstat, inflight, feed, sent>>
    BY <1>2 DEF ConfirmNotPublished, Update, Context, TypeOK
  <2>2. row[p] \in Row /\ AskOK(p)
    BY DEF Context, TypeOK, RecordInv
  <2>3. /\ row'[p].status = "CANCELLED" /\ row'[p].requested = row[p].requested
        /\ row'[p].ambiguous = row[p].ambiguous
    BY <2>1, <2>2 DEF Row
  <2>4. PublishedIsRecorded'
    <3>1. \A q \in Post : (row'[q].status = "PUBLISHED") <=> (row[q].status = "PUBLISHED")
      BY <1>2, <2>1, <2>3
    <3> QED
      BY <2>1, <3>1 DEF Context, RecordInv, PublishedIsRecorded, SameText
  <2>5. OneActive'
    BY <2>1, <2>3 DEF Context, RecordInv, OneActive, Active
  <2>6. \A q \in Post : FeedOK(q)' /\ AskOK(q)'
    BY <1>2, <2>1, <2>2, <2>3 DEF Context, RecordInv, FeedOK, AskOK
  <2>7. \A w \in Worker : SureOK(w)'
    <3>1. \A w \in Worker : wk[w].pc # "idle" => wk[w].post \in Post
      BY AtWork DEF Context
    <3> QED
      BY <2>1, <2>3, <3>1 DEF Context, RecordInv, SureOK, SameText
  <2>8. Once!Attest(p)
    <3>1. Phase(p) = "open" /\ Phase(p)' = "attested"
      BY <1>2, <2>1, <2>3 DEF Phase, Final
    <3>2. \A q \in Post : q # p => Phase(q)' = Phase(q)
      BY <2>1 DEF Phase
    <3>3. Phases[p] = "open" /\ Phases' = [Phases EXCEPT ![p] = "attested"]
      BY <3>1, <3>2 DEF Phases
    <3>4. Asked' = Asked
      BY <2>1, <2>3 DEF Asked
    <3> QED
      BY <2>1, <3>3, <3>4 DEF Once!Attest, Once!Move, Phases, Asked
  <2> QED
    BY <2>4, <2>5, <2>6, <2>7, <2>8 DEF RecordInv, OnceStep, Once!Next
<1> QED
  BY <1>1, <1>2

LEMMA RecordRequest ==
  ASSUME Context, Request
  PROVE  RecordInv' /\ OnceStep
<1> USE DEF rowVars, platformVars
<1>1. PICK p \in Post :
        \/ CheckPublished(p) \/ CheckActive(p) \/ Schedule(p) \/ ScheduleRefused(p)
        \/ DispatchNow(p) \/ Cancel(p) \/ CheckUnpublished(p) \/ ConfirmNotPublished(p)
        \/ \E q \in Post : ConfirmPublished(p, q)
  BY DEF Request
<1>2. row[p] \in Row /\ AskOK(p)
  BY DEF Context, TypeOK, RecordInv
<1>3. CASE \/ CheckPublished(p) \/ CheckActive(p) \/ ScheduleRefused(p) \/ DispatchNow(p)
           \/ CheckUnpublished(p)
  <2>1. UNCHANGED <<row, wk, adopted, events, attested, feed, sent, cstat, inflight>>
    BY <1>3 DEF CheckPublished, CheckActive, ScheduleRefused, DispatchNow, CheckUnpublished
  <2> QED
    BY <2>1, NoRecord, UnrecordedBy
<1>4. CASE Cancel(p)
  <2>1. /\ row'[p] = [row[p] EXCEPT !.status = "CANCELLED"] /\ ~Ambiguous(p)
        /\ row[p].status \notin {"NONE", "PUBLISHED"}
        /\ \A q \in Post : q # p => row'[q] = row[q]
    BY <1>4 DEF Cancel, Update, Context, TypeOK
  <2>2. /\ row'[p].status = "CANCELLED" /\ row'[p].requested = row[p].requested
        /\ row'[p].ambiguous = row[p].ambiguous
    BY <1>2, <2>1 DEF Row
  <2>3. Proceeds(p)
    BY <2>1, <2>2, StatusKinds DEF Proceeds, Ambiguous
  <2>4. wk' = wk /\ Unrecorded
    BY <1>4, UnrecordedBy DEF Cancel
  <2> QED
    BY <2>1, <2>3, <2>4, OtherRecord
<1>5. ASSUME NEW q \in Post, ConfirmPublished(p, q) PROVE RecordInv' /\ OnceStep
  <2>1. /\ row[p].status = "RECOVERY_REQUIRED" /\ Recordable(p, q) /\ Record(p, q)
        /\ q \in feed /\ SameText(p, q)
        /\ UNCHANGED <<attested, wk, platformVars>>
    BY <1>5 DEF ConfirmPublished
  <2>2. row[p].requested /\ row[p].status \in Active
    BY <1>2, <2>1 DEF AskOK, Active
  <2>3. \A w \in Worker : SureOK(w)'
    <3>1. \A w \in Worker : wk[w].pc # "idle" => wk[w].post \in Post
      BY AtWork DEF Context
    <3>2. \A r \in Post : row'[r].requested = row[r].requested
      BY <1>2, <2>1 DEF Record, Update, Released, Row, Context, TypeOK
    <3> QED
      BY <2>1, <3>1, <3>2 DEF Context, RecordInv, SureOK, SameText
  <2> QED
    BY <2>1, <2>2, <2>3, RecordedOK
<1> QED
  BY <1>1, <1>3, <1>4, <1>5, ScheduleRecord, AttestRecord

-----------------------------------------------------------------------------
(* The invariant, the two properties and the refinement *)

LEMMA RecordInit == Init => RecordInv /\ Once!Init
<1> SUFFICES ASSUME Init PROVE RecordInv /\ Once!Init
  OBVIOUS
<1>1. \A p \in Post : row[p].status = "NONE" /\ ~row[p].requested /\ ~row[p].ambiguous
  BY DEF Init, NewRow
<1>2. "NONE" \notin Active
  BY StatusKinds
<1>3. RecordInv
  BY <1>1, <1>2
     DEF Init, RecordInv, PublishedIsRecorded, OneActive, FeedOK, AskOK, SureOK, Idle
<1>4. Once!Init
  <2>1. \A p \in Post : Phase(p) = "none"
    BY <1>1, StatusKinds DEF Phase
  <2>2. [p \in Post |-> Phase(p)] = [p \in Post |-> "none"]
    BY <2>1
  <2>3. {p \in Post : row[p].requested} = {}
    BY <1>1
  <2> QED
    BY <2>2, <2>3 DEF Init, Once!Init
<1> QED
  BY <1>3, <1>4

LEMMA RecordStep ==
  ASSUME TypeOK, TypeOK', SendInv, RowInv, RecordInv, [Next]_vars
  PROVE  RecordInv' /\ OnceStep
<1>1. RowInv' /\ [FinalKept]_vars
  BY RowStep
<1>2. CASE UNCHANGED vars
  <2>1. UNCHANGED <<row, wk, adopted, events, attested, feed, sent, cstat, inflight>>
    BY <1>2 DEF vars, rowVars, platformVars
  <2>2. FinalKept
    BY <2>1 DEF FinalKept
  <2> QED
    BY <1>1, <2>1, <2>2, NoRecord, UnrecordedBy DEF Context
<1>3. CASE Next /\ ~UNCHANGED vars
  <2>1. Context
    BY <1>1, <1>3 DEF Context
  <2>2. ASSUME NEW w \in Worker, WorkerStep(w) PROVE RecordInv' /\ OnceStep
    BY <2>1, <2>2, RecordClaim, RecordContainer, RecordPublish DEF WorkerStep
  <2> QED
    BY <1>3, <2>1, <2>2, RecordFault, RecordBackground, RecordRequest DEF Next
<1> QED
  BY <1>2, <1>3

LEMMA RecordInvariant == Spec => [](TypeOK /\ SendInv /\ RowInv /\ RecordInv)
<1>1. TypeOK /\ TypeOK' /\ SendInv /\ RowInv /\ RecordInv /\ [Next]_vars => RecordInv'
  BY RecordStep
<1>2. Init => RecordInv
  BY RecordInit
<1> QED
  BY TypeCorrect, SendInvariant, RowInvariant, <1>1, <1>2, PTL DEF Spec

\* A row is PUBLISHED exactly when one existing post with its text is recorded for it,
\* with one event and for no other row, whoever recorded it: the worker after its call,
\* the reconciler that found the post, or an operator who chose it.
THEOREM PublishedRecorded == Spec => []PublishedIsRecorded
<1>1. RecordInv => PublishedIsRecorded
  BY DEF RecordInv
<1> QED
  BY <1>1, RecordInvariant, PTL

\* No two rows of one draft and account both reach the platform, unless the index let the
\* second one in: the first was published, needed a reconnect, or was given up by an
\* operator's attestation.
THEOREM Republished == Spec => []RepublishOnlyIfReleased
<1>1. TypeOK /\ SendInv /\ RowInv /\ RecordInv => RepublishOnlyIfReleased
  <2> SUFFICES ASSUME TypeOK, SendInv, RowInv, RecordInv, NEW p \in Post, NEW q \in Post,
                      p # q, TargetOf[p] = TargetOf[q], sent[p] > 0, sent[q] > 0
               PROVE  \E r \in {p, q} :
                        row[r].status \in {"PUBLISHED", "AUTH_REQUIRED"} \/ r \in attested
    BY DEF RepublishOnlyIfReleased
  <2>1. \A r \in {p, q} : Ambiguous(r) /\ row[r] \in Row /\ RowOK(r)
    BY DEF TypeOK, SendInv, Unasked, Ambiguous, RowInv
  <2>2. PICK r \in {p, q} : row[r].status \notin Active
    BY DEF RecordInv, OneActive
  <2>3. row[r].status \in Final \cup {"NONE", "AUTH_REQUIRED"}
    BY <2>1, <2>2 DEF Row, Status
  <2>4. row[r].status \in {"PUBLISHED", "AUTH_REQUIRED", "CANCELLED"}
    BY <2>1, <2>3, StatusKinds DEF RowOK
  <2> QED
    BY <2>1, <2>2, <2>4 DEF RowOK
<1> QED
  BY <1>1, RecordInvariant, PTL

\* Every step of workers, scans, requests, faults and the platform is a step of
\* PublishOnce or leaves all it sees unchanged.
THEOREM ImplementsPublishOnce == Spec => RefinesPublishOnce
<1>1. Init => Once!Init
  BY RecordInit
<1>2. TypeOK /\ TypeOK' /\ SendInv /\ RowInv /\ RecordInv /\ [Next]_vars
        => [Once!Next]_(Once!vars)
  BY RecordStep DEF OnceStep
<1> QED
  BY <1>1, <1>2, RecordInvariant, PTL DEF Spec, RefinesPublishOnce, Once!Spec

=============================================================================
