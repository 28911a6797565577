------------------------------ MODULE SmashMC ------------------------------
(* The shell for TLC.  The pids are model values; there is no symmetry, as *)
(* a liveness property is checked.                                         *)
EXTENDS Smash
=============================================================================
