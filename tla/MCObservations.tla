--------------------------- MODULE MCObservations ---------------------------
(* Instances of Observations for TLC. *)
EXTENDS Observations, TLC

WorkerSymmetry == Permutations(Worker)

=============================================================================
