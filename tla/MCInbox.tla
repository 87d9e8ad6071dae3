------------------------------ MODULE MCInbox ------------------------------
(* Instances of Inbox for TLC. *)
EXTENDS Inbox, TLC
SyncerSymmetry == Permutations(Syncer)
=============================================================================
