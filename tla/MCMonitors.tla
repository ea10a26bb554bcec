----------------------------- MODULE MCMonitors ------------------------------
(* Instances of Monitors for TLC; no symmetry, which liveness forbids. *)
EXTENDS Monitors, TLC
=============================================================================
