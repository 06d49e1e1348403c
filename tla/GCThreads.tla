----------------------------- MODULE GCThreads -----------------------------
(***************************************************************************)
(* The threads that use the collector's lightweight locks.                 *)
(***************************************************************************)
EXTENDS FiniteSets

CONSTANT Thread

ASSUME FinitelyManyThreads == IsFiniteSet(Thread)
=============================================================================
