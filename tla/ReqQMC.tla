------------------------------- MODULE ReqQMC -------------------------------
(* The linked list for TLC. *)
EXTENDS ReqQ, TLC

(* malloc may return any free address. *)
NodeSymmetry == Permutations(Node)
=============================================================================
