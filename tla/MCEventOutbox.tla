--------------------------- MODULE MCEventOutbox ---------------------------
(* Instances of EventOutbox for TLC. *)
EXTENDS EventOutbox, TLC

ProcessorSymmetry == Permutations(Processor)

=============================================================================
