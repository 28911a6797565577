----------------------------- MODULE Malloc3MC -----------------------------
(* The buddy allocator for TLC. *)
EXTENDS Malloc3Stats, TLC

(* The caller's pointers are interchangeable. *)
HandleSymmetry == Permutations(Handles)
=============================================================================
