----------------------------- MODULE WeightsMC -----------------------------
(* The system calls for TLC. *)
EXTENDS Weights

(* An invalid weight, none, and two of which one divides the other. *)
SomeWeights == {-1, 0, 2, 4}
=============================================================================
