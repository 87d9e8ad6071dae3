---------------------------- MODULE PublishOnce ----------------------------
(***************************************************************************)
(* What the publishing pipeline promises for each scheduled post, with no   *)
(* workers, leases, queues or retries: at most one publish request, a       *)
(* record only of a post that exists and belongs to no other row, and, once *)
(* a request may have been sent, no way to close the row but recording the  *)
(* post or an operator's word that there is none.                           *)
(***************************************************************************)
EXTENDS Naturals

CONSTANTS Post, Text, TextOf, NoPost

VARIABLES
  phase,    \* none, open, then published, closed or attested
  asked,    \* rows whose publish request is decided and remembered
  requests, \* publish requests sent per row
  posts,    \* rows whose request became a post
  record    \* the post recorded for a row

vars == <<phase, asked, requests, posts, record>>

Init ==
  /\ phase = [p \in Post |-> "none"]
  /\ asked = {}
  /\ requests = [p \in Post |-> 0]
  /\ posts = {}
  /\ record = [p \in Post |-> NoPost]

Move(p, from, to) == phase[p] = from /\ phase' = [phase EXCEPT ![p] = to]

Open(p) ==
  /\ Move(p, "none", "open")
  /\ UNCHANGED <<asked, requests, posts, record>>

Ask(p) ==
  /\ phase[p] = "open"
  /\ asked' = asked \cup {p}
  /\ UNCHANGED <<phase, requests, posts, record>>

\* The one request may leave late, when an operator has already closed the row.
Request(p) ==
  /\ p \in asked /\ requests[p] = 0
  /\ requests' = [requests EXCEPT ![p] = 1]
  /\ UNCHANGED <<phase, asked, posts, record>>

Appear(p) ==
  /\ requests[p] = 1
  /\ posts' = posts \cup {p}
  /\ UNCHANGED <<phase, asked, requests, record>>

Publish(p, q) ==
  /\ p \in asked /\ q \in posts /\ TextOf[p] = TextOf[q]
  /\ \A r \in Post : record[r] # q
  /\ Move(p, "open", "published")
  /\ record' = [record EXCEPT ![p] = q]
  /\ UNCHANGED <<asked, requests, posts>>

\* Expired, failed or cancelled: only a row that asked for nothing.
Close(p) ==
  /\ p \notin asked
  /\ Move(p, "open", "closed")
  /\ UNCHANGED <<asked, requests, posts, record>>

Attest(p) ==
  /\ Move(p, "open", "attested")
  /\ UNCHANGED <<asked, requests, posts, record>>

Next ==
  \E p \in Post :
    \/ Open(p) \/ Ask(p) \/ Request(p) \/ Appear(p) \/ Close(p) \/ Attest(p)
    \/ \E q \in Post : Publish(p, q)

Spec == Init /\ [][Next]_vars

=============================================================================
