--------------------------- MODULE EventDelivery ---------------------------
(***************************************************************************)
(* What the event outbox promises for each event, with no processors,      *)
(* leases or reconcilers: it is closed as done only after it was delivered *)
(* and stays done, and it is given up only after MaxAttempts tries.        *)
(***************************************************************************)
EXTENDS Naturals

CONSTANTS Event, MaxAttempts

VARIABLES
  phase,    \* none, open, then done or dead
  tries,    \* attempts begun
  delivered \* events whose effect happened, at least once

vars == <<phase, tries, delivered>>

Init ==
  /\ phase = [e \in Event |-> "none"]
  /\ tries = [e \in Event |-> 0]
  /\ delivered = {}

Move(e, from, to) == phase[e] \in from /\ phase' = [phase EXCEPT ![e] = to]

Write(e) == Move(e, {"none"}, "open") /\ UNCHANGED <<tries, delivered>>

\* A processor takes up several events at once.
Try(S) ==
  /\ \A e \in S : phase[e] = "open" /\ tries[e] < MaxAttempts
  /\ tries' = [e \in Event |-> IF e \in S THEN tries[e] + 1 ELSE tries[e]]
  /\ UNCHANGED <<phase, delivered>>

\* The effect may come late and twice, even after the event is closed.
Deliver(e) ==
  /\ phase[e] # "none"
  /\ delivered' = delivered \cup {e}
  /\ UNCHANGED <<phase, tries>>

Finish(e) ==
  /\ e \in delivered /\ Move(e, {"open", "dead"}, "done")
  /\ UNCHANGED <<tries, delivered>>

GiveUp(e) ==
  /\ tries[e] = MaxAttempts /\ Move(e, {"open"}, "dead")
  /\ UNCHANGED <<tries, delivered>>

Next ==
  \/ \E S \in SUBSET Event : Try(S)
  \/ \E e \in Event : Write(e) \/ Deliver(e) \/ Finish(e) \/ GiveUp(e)

Spec == Init /\ [][Next]_vars

=============================================================================
