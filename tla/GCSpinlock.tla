----------------------------- MODULE GCSpinlock -----------------------------
(***************************************************************************)
(* The spinlock under MM_LightweightNonReentrantLock, which guards every   *)
(* sublist of work packets and every free list of the heap                 *)
(* (gc/base/gcspinlock.cpp).  `target' is -1 when the lock is free and     *)
(* otherwise the number of threads that wait for it; a thread that has     *)
(* spun in vain adds itself to it and sleeps on a semaphore, and a release *)
(* that finds waiters hands the lock to one of them by posting it.  One    *)
(* step is one access to the word or one operation of the semaphore.       *)
(***************************************************************************)
EXTENDS Integers, GCThreads

VARIABLES
    target,     \* spinlock->target
    semaphore,  \* the count of spinlock->osSemaphore
    spinPc,     \* where each thread is in its call
    result      \* the word it read last, while a swap depends on it

spinVars == <<target, semaphore, spinPc, result>>

SpinPlaces == {"idle", "spin", "count", "sleep", "held", "release", "post"}

\* omrgc_spinlock_init
SpinInit ==
    /\ target = -1
    /\ semaphore = 0
    /\ spinPc = [t \in Thread |-> "idle"]
    /\ result = [t \in Thread |-> -1]

-----------------------------------------------------------------------------
SpinGoto(t, place, word) ==
    /\ spinPc' = [spinPc EXCEPT ![t] = place]
    /\ result' = [result EXCEPT ![t] = word]

SpinCall(t) ==
    /\ spinPc[t] = "idle"
    /\ SpinGoto(t, "spin", -1)
    /\ UNCHANGED <<target, semaphore>>

(***************************************************************************)
(* omrgc_spinlock_acquire.  A round of the spin loop that finds the word   *)
(* at -1 swaps it to 0; the loop ends after spinCount3 rounds with a read  *)
(* of the word.                                                            *)
(***************************************************************************)
SpinTake(t) ==
    /\ spinPc[t] = "spin"
    /\ target = -1
    /\ target' = 0
    /\ SpinGoto(t, "held", -1)
    /\ UNCHANGED semaphore

SpinGiveUp(t) ==
    /\ spinPc[t] = "spin"
    /\ SpinGoto(t, "count", target)
    /\ UNCHANGED <<target, semaphore>>

(* Mutant: the word is stored, not swapped. *)
CountInUnswapped(t) ==
    /\ spinPc[t] = "count"
    /\ target' = result[t] + 1
    /\ SpinGoto(t, IF target' = 0 THEN "held" ELSE "sleep", -1)
    /\ UNCHANGED semaphore

(***************************************************************************)
(* The compare-and-swap that counts the thread in.  When the new value is  *)
(* 0 the lock was free and is taken; otherwise the thread waits.           *)
(***************************************************************************)
CountIn(t) ==
    /\ spinPc[t] = "count"
    /\ target = result[t]
    /\ target' = result[t] + 1
    /\ SpinGoto(t, IF target' = 0 THEN "held" ELSE "sleep", -1)
    /\ UNCHANGED semaphore

SwapAgain(t) ==
    /\ spinPc[t] \in {"count", "release"}
    /\ target # result[t]
    /\ SpinGoto(t, spinPc[t], target)
    /\ UNCHANGED <<target, semaphore>>

\* j9sem_wait
SemWait(t) ==
    /\ spinPc[t] = "sleep"
    /\ semaphore > 0
    /\ semaphore' = semaphore - 1
    /\ SpinGoto(t, "held", -1)
    /\ UNCHANGED target

-----------------------------------------------------------------------------
(***************************************************************************)
(* omrgc_spinlock_release: the word is read, swapped to one less, and the  *)
(* semaphore is posted unless the new value is negative.                   *)
(***************************************************************************)
ReadTarget(t) ==
    /\ spinPc[t] = "held"
    /\ SpinGoto(t, "release", target)
    /\ UNCHANGED <<target, semaphore>>

(* Mutant: the last sleeper is not counted. *)
CountOutZero(t) ==
    /\ spinPc[t] = "release"
    /\ target = result[t]
    /\ target' = result[t] - 1
    /\ SpinGoto(t, IF target' <= 0 THEN "idle" ELSE "post", -1)
    /\ UNCHANGED semaphore

CountOut(t) ==
    /\ spinPc[t] = "release"
    /\ target = result[t]
    /\ target' = result[t] - 1
    /\ SpinGoto(t, IF target' < 0 THEN "idle" ELSE "post", -1)
    /\ UNCHANGED semaphore

\* j9sem_post
SemPost(t) ==
    /\ spinPc[t] = "post"
    /\ semaphore' = semaphore + 1
    /\ SpinGoto(t, "idle", -1)
    /\ UNCHANGED target

SpinStep(t) ==
    \/ SpinTake(t) \/ SpinGiveUp(t) \/ CountIn(t) \/ SwapAgain(t) \/ SemWait(t)
    \/ ReadTarget(t) \/ CountOut(t) \/ SemPost(t)

SpinNext == \E t \in Thread : SpinCall(t) \/ SpinStep(t)

SpinSpec == SpinInit /\ [][SpinNext]_spinVars

-----------------------------------------------------------------------------
Holders == {t \in Thread : spinPc[t] \in {"held", "release"}}

Sleepers == {t \in Thread : spinPc[t] = "sleep"}

Posters == {t \in Thread : spinPc[t] = "post"}

(***************************************************************************)
(* One thread at a time is between a return of omrgc_spinlock_acquire and  *)
(* the swap of omrgc_spinlock_release.                                     *)
(***************************************************************************)
SpinExclusion == \A t, u \in Holders : t = u

(***************************************************************************)
(* The inductive invariant: the word counts the holder and the sleepers,   *)
(* and a lock that is not free is in exactly one pair of hands: a holder,  *)
(* a thread about to post the semaphore, or the semaphore.                 *)
(***************************************************************************)
SpinTypeOK ==
    /\ target \in Int /\ target >= -1
    /\ semaphore \in Nat
    /\ spinPc \in [Thread -> SpinPlaces]
    /\ result \in [Thread -> Int]

TargetCounts ==
    target + 1 = Cardinality(Holders) + Cardinality(Sleepers)

InOneHand ==
    Cardinality(Holders) + Cardinality(Posters) + semaphore
      = IF target = -1 THEN 0 ELSE 1

SpinInv ==
    /\ SpinTypeOK
    /\ TargetCounts
    /\ InOneHand
=============================================================================
