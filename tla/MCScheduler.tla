----------------------------- MODULE MCScheduler -----------------------------
(* Instances of Scheduler for TLC. *)
EXTENDS Scheduler, TLC

\* Threads other than main differ in nothing but their name.
Symmetry == Permutations(Threads \ {Main})
=============================================================================
