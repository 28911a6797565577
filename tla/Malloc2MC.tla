----------------------------- MODULE Malloc2MC -----------------------------
(* The first-fit allocator for TLC. *)
EXTENDS Malloc2, TLC

(* The caller's pointers are interchangeable. *)
HandleSymmetry == Permutations(Handles)
=============================================================================
