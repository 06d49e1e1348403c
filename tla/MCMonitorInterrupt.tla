-------------------------- MODULE MCMonitorInterrupt --------------------------
(* Instances of MonitorInterrupt for TLC. *)
EXTENDS MonitorInterrupt, TLC

Symmetry == Permutations(Client) \cup Permutations(Server)
=============================================================================
