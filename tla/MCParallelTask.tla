--------------------------- MODULE MCParallelTask ---------------------------
(* ParallelTask for TLC: every program of up to MaxLen operations. *)
EXTENDS ParallelTask

CONSTANT MaxLen

MCScripts == UNION {[1 .. n -> Op] : n \in 0 .. MaxLen}
=============================================================================
