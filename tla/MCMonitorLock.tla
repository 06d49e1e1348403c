---------------------------- MODULE MCMonitorLock ----------------------------
(* Instances of MonitorLock for TLC. *)
EXTENDS MonitorLock, TLC

Symmetry == Permutations(Thread)
=============================================================================
