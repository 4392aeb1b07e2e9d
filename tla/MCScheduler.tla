---------------------------- MODULE MCScheduler ----------------------------
(* Scheduler, instantiated for TLC.                                        *)
EXTENDS Scheduler, TLC

Symmetry == Permutations(Threads)
=============================================================================
