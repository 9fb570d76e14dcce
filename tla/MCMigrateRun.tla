---------------------------- MODULE MCMigrateRun ----------------------------
(* MigrateRun on small instances.  Runners and source versions are only     *)
(* compared for equality, so permuting them gives the same behaviours.      *)
EXTENDS MigrateRun, TLC

Symmetry == Permutations(Runners) \cup Permutations(Sources)
=============================================================================
