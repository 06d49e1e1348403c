---------------------------- MODULE MCMonitorWait ----------------------------
(* Instances of MonitorWait for TLC. *)
EXTENDS MonitorWait, TLC

Symmetry == Permutations(Thread)
=============================================================================
