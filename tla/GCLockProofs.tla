---------------------------- MODULE GCLockProofs ----------------------------
(***************************************************************************)
(* Proofs about the spinlock and the readers-writer lock, for any finite   *)
(* set of threads.                                                         *)
(***************************************************************************)
EXTENDS GCSpinlock, LightweightRWLock, FiniteSetTheorems, TLAPS

InPlaces(pc, P) == {u \in Thread : pc[u] \in P}

(* The threads at some places are finitely many. *)
LEMMA PlacesFinite ==
    ASSUME NEW pc, NEW P
    PROVE  /\ IsFiniteSet(InPlaces(pc, P))
           /\ Cardinality(InPlaces(pc, P)) \in Nat
           /\ Cardinality(InPlaces(pc, P)) = 0 <=> InPlaces(pc, P) = {}
           /\ Cardinality(InPlaces(pc, P)) <= Cardinality(Thread)
<1>1. InPlaces(pc, P) \subseteq Thread
  BY DEF InPlaces
<1>2. IsFiniteSet(InPlaces(pc, P))
      /\ Cardinality(InPlaces(pc, P)) <= Cardinality(Thread)
  BY <1>1, FinitelyManyThreads, FS_Subset, Zenon
<1> QED BY <1>2, FS_CardinalityType, FS_EmptySet, Zenon

(* How many threads are at some places when one thread moves. *)
LEMMA PlacesMove ==
    ASSUME NEW S, NEW pc \in [Thread -> S], NEW t \in Thread, NEW place, NEW P
    PROVE  Cardinality(InPlaces([pc EXCEPT ![t] = place], P))
             = Cardinality(InPlaces(pc, P)) + (IF place \in P THEN 1 ELSE 0)
                 - (IF pc[t] \in P THEN 1 ELSE 0)
<1> DEFINE new == InPlaces([pc EXCEPT ![t] = place], P)
           old == InPlaces(pc, P)
<1>0. IsFiniteSet(old) /\ Cardinality(old) \in Nat
  BY PlacesFinite, Zenon
<1>1. CASE pc[t] \in P <=> place \in P
  <2>1. new = old
    BY <1>1 DEF InPlaces
  <2> QED BY <1>0, <1>1, <2>1
<1>2. CASE pc[t] \notin P /\ place \in P
  <2>1. new = old \cup {t} /\ t \notin old
    BY <1>2 DEF InPlaces
  <2>2. Cardinality(new) = Cardinality(old) + 1
    BY <1>0, <2>1, FS_AddElement, Zenon
  <2> QED BY <1>0, <1>2, <2>2
<1>3. CASE pc[t] \in P /\ place \notin P
  <2>1. new = old \ {t} /\ t \in old
    BY <1>3 DEF InPlaces
  <2>2. Cardinality(new) = Cardinality(old) - 1
    BY <1>0, <2>1, FS_RemoveElement, Zenon
  <2> QED BY <1>0, <1>3, <2>2
<1> QED BY <1>1, <1>2, <1>3

-----------------------------------------------------------------------------
(* The spinlock *)

HolderPlaces == {"held", "release"}

(* The sets that the invariant counts, by place. *)
LEMMA SpinSets ==
    /\ Holders = InPlaces(spinPc, HolderPlaces)
    /\ Sleepers = InPlaces(spinPc, {"sleep"})
    /\ Posters = InPlaces(spinPc, {"post"})
BY DEF Holders, Sleepers, Posters, InPlaces, HolderPlaces

(* One thread moves: what becomes of each count. *)
SpinCounts(t, place) ==
    /\ Cardinality(Holders) \in Nat
    /\ Cardinality(Sleepers) \in Nat
    /\ Cardinality(Posters) \in Nat
    /\ Cardinality(Holders)' = Cardinality(Holders)
         + (IF place \in HolderPlaces THEN 1 ELSE 0)
         - (IF spinPc[t] \in HolderPlaces THEN 1 ELSE 0)
    /\ Cardinality(Sleepers)' = Cardinality(Sleepers)
         + (IF place = "sleep" THEN 1 ELSE 0)
         - (IF spinPc[t] = "sleep" THEN 1 ELSE 0)
    /\ Cardinality(Posters)' = Cardinality(Posters)
         + (IF place = "post" THEN 1 ELSE 0)
         - (IF spinPc[t] = "post" THEN 1 ELSE 0)

(* A holder is counted. *)
LEMMA HolderCounted ==
    ASSUME NEW t \in Thread, spinPc[t] \in HolderPlaces
    PROVE  Cardinality(Holders) >= 1
<1>1. Holders # {} /\ Holders = InPlaces(spinPc, HolderPlaces)
  BY SpinSets DEF InPlaces
<1>2. Cardinality(Holders) \in Nat /\ Cardinality(Holders) # 0
  BY <1>1, PlacesFinite, Zenon
<1> QED BY <1>2

(* A step of the spinlock moves one thread, and the counts move with it. *)
LEMMA SpinMove ==
    ASSUME SpinTypeOK, NEW t \in Thread, NEW place, NEW word,
           SpinGoto(t, place, word)
    PROVE  SpinCounts(t, place)
<1>1. spinPc \in [Thread -> SpinPlaces] /\ spinPc' = [spinPc EXCEPT ![t] = place]
  BY DEF SpinTypeOK, SpinGoto
<1>2. /\ Holders' = InPlaces(spinPc', HolderPlaces)
      /\ Sleepers' = InPlaces(spinPc', {"sleep"})
      /\ Posters' = InPlaces(spinPc', {"post"})
  BY DEF Holders, Sleepers, Posters, InPlaces, HolderPlaces
<1>3. \A P : Cardinality(InPlaces(spinPc, P)) \in Nat
  BY PlacesFinite, Zenon
<1>4. \A P : Cardinality(InPlaces([spinPc EXCEPT ![t] = place], P))
               = Cardinality(InPlaces(spinPc, P)) + (IF place \in P THEN 1 ELSE 0)
                   - (IF spinPc[t] \in P THEN 1 ELSE 0)
  BY <1>1, PlacesMove, Zenon
<1>5. \A P : Cardinality(InPlaces(spinPc', P))
               = Cardinality(InPlaces(spinPc, P)) + (IF place \in P THEN 1 ELSE 0)
                   - (IF spinPc[t] \in P THEN 1 ELSE 0)
  BY <1>1, <1>4, Zenon
<1> QED BY <1>2, <1>3, <1>5, SpinSets DEF SpinCounts

(* A lock that is not free is in one pair of hands, through every step. *)
LEMMA SpinInvStep ==
    ASSUME SpinInv, SpinNext
    PROVE  SpinInv'
<1>a. SpinTypeOK
  BY DEF SpinInv
<1>0. PICK t \in Thread : SpinCall(t) \/ SpinStep(t)
  BY DEF SpinNext
<1>1. CASE SpinCall(t)
  <2>1. SpinGoto(t, "spin", -1)
    BY <1>1 DEF SpinCall
  <2>2. SpinCounts(t, "spin")
    BY <1>a, <2>1, SpinMove, Zenon
  <2>3. target \in Int /\ target >= -1 /\ semaphore \in Nat /\ TargetCounts /\ InOneHand
    BY DEF SpinInv, SpinTypeOK
  <2>4. (target \in Int /\ target >= -1 /\ semaphore \in Nat)'
    BY <1>1, <2>2, <2>3 DEF SpinCall, SpinCounts, HolderPlaces, TargetCounts, InOneHand
  <2>5. (spinPc \in [Thread -> SpinPlaces] /\ result \in [Thread -> Int])'
    BY <1>a, <1>1, <2>1 DEF SpinGoto, SpinTypeOK, SpinPlaces
  <2>6. TargetCounts'
    BY <1>1, <2>2, <2>3 DEF SpinCall, SpinCounts, HolderPlaces, TargetCounts
  <2>7. InOneHand'
    BY <1>1, <2>2, <2>3 DEF SpinCall, SpinCounts, HolderPlaces, TargetCounts, InOneHand
  <2> QED BY <2>4, <2>5, <2>6, <2>7 DEF SpinInv, SpinTypeOK
<1>2. CASE SpinTake(t)
  <2>1. SpinGoto(t, "held", -1)
    BY <1>2 DEF SpinTake
  <2>2. SpinCounts(t, "held")
    BY <1>a, <2>1, SpinMove, Zenon
  <2>3. target \in Int /\ target >= -1 /\ semaphore \in Nat /\ TargetCounts /\ InOneHand
    BY DEF SpinInv, SpinTypeOK
  <2>4. (target \in Int /\ target >= -1 /\ semaphore \in Nat)'
    BY <1>2, <2>2, <2>3 DEF SpinTake, SpinCounts, HolderPlaces, TargetCounts, InOneHand
  <2>5. (spinPc \in [Thread -> SpinPlaces] /\ result \in [Thread -> Int])'
    BY <1>a, <1>2, <2>1 DEF SpinGoto, SpinTypeOK, SpinPlaces
  <2>6. TargetCounts'
    BY <1>2, <2>2, <2>3 DEF SpinTake, SpinCounts, HolderPlaces, TargetCounts
  <2>7. InOneHand'
    BY <1>2, <2>2, <2>3 DEF SpinTake, SpinCounts, HolderPlaces, TargetCounts, InOneHand
  <2> QED BY <2>4, <2>5, <2>6, <2>7 DEF SpinInv, SpinTypeOK
<1>3. CASE SpinGiveUp(t)
  <2>1. SpinGoto(t, "count", target)
    BY <1>3 DEF SpinGiveUp
  <2>2. SpinCounts(t, "count")
    BY <1>a, <2>1, SpinMove, Zenon
  <2>3. target \in Int /\ target >= -1 /\ semaphore \in Nat /\ TargetCounts /\ InOneHand
    BY DEF SpinInv, SpinTypeOK
  <2>4. (target \in Int /\ target >= -1 /\ semaphore \in Nat)'
    BY <1>3, <2>2, <2>3 DEF SpinGiveUp, SpinCounts, HolderPlaces, TargetCounts, InOneHand
  <2>5. (spinPc \in [Thread -> SpinPlaces] /\ result \in [Thread -> Int])'
    BY <1>a, <1>3, <2>1 DEF SpinGoto, SpinTypeOK, SpinPlaces
  <2>6. TargetCounts'
    BY <1>3, <2>2, <2>3 DEF SpinGiveUp, SpinCounts, HolderPlaces, TargetCounts
  <2>7. InOneHand'
    BY <1>3, <2>2, <2>3 DEF SpinGiveUp, SpinCounts, HolderPlaces, TargetCounts, InOneHand
  <2> QED BY <2>4, <2>5, <2>6, <2>7 DEF SpinInv, SpinTypeOK
<1>4. CASE CountIn(t)
  <2>1. target' = target + 1 /\ semaphore' = semaphore /\ spinPc[t] = "count"
    BY <1>4 DEF CountIn
  <2>2. target \in Int /\ target >= -1 /\ semaphore \in Nat /\ TargetCounts /\ InOneHand
    BY DEF SpinInv, SpinTypeOK
  <2>a. spinPc[t] \in HolderPlaces => Cardinality(Holders) >= 1
    BY HolderCounted, Zenon
  <2>3. CASE target' = 0
    <3>1. SpinGoto(t, "held", -1)
      BY <1>4, <2>3 DEF CountIn
    <3>2. SpinCounts(t, "held")
      BY <1>a, <3>1, SpinMove, Zenon
    <3>3. /\ target' \in Int /\ target' >= -1 /\ semaphore' \in Nat
          /\ target' + 1 = Cardinality(Holders)' + Cardinality(Sleepers)'
      BY <2>1, <2>2, <2>a, <2>3, <3>2 DEF SpinCounts, HolderPlaces, TargetCounts
    <3>5. Cardinality(Holders)' + Cardinality(Posters)' + semaphore'
            = IF target' = -1 THEN 0 ELSE 1
      BY <2>1, <2>2, <2>a, <2>3, <3>2, <3>3 DEF SpinCounts, HolderPlaces, TargetCounts, InOneHand
    <3>4. (spinPc \in [Thread -> SpinPlaces] /\ result \in [Thread -> Int])'
      BY <1>a, <3>1 DEF SpinGoto, SpinTypeOK, SpinPlaces
    <3> QED BY <3>3, <3>4, <3>5 DEF SpinInv, SpinTypeOK, TargetCounts, InOneHand
  <2>4. CASE ~(target' = 0)
    <3>1. SpinGoto(t, "sleep", -1)
      BY <1>4, <2>4 DEF CountIn
    <3>2. SpinCounts(t, "sleep")
      BY <1>a, <3>1, SpinMove, Zenon
    <3>3. /\ target' \in Int /\ target' >= -1 /\ semaphore' \in Nat
          /\ target' + 1 = Cardinality(Holders)' + Cardinality(Sleepers)'
      BY <2>1, <2>2, <2>a, <2>4, <3>2 DEF SpinCounts, HolderPlaces, TargetCounts
    <3>5. Cardinality(Holders)' + Cardinality(Posters)' + semaphore'
            = IF target' = -1 THEN 0 ELSE 1
      BY <2>1, <2>2, <2>a, <2>4, <3>2, <3>3 DEF SpinCounts, HolderPlaces, TargetCounts, InOneHand
    <3>4. (spinPc \in [Thread -> SpinPlaces] /\ result \in [Thread -> Int])'
      BY <1>a, <3>1 DEF SpinGoto, SpinTypeOK, SpinPlaces
    <3> QED BY <3>3, <3>4, <3>5 DEF SpinInv, SpinTypeOK, TargetCounts, InOneHand
  <2> QED BY <2>3, <2>4
<1>5. CASE SwapAgain(t)
  <2>1. SpinGoto(t, spinPc[t], target)
    BY <1>5 DEF SwapAgain
  <2>2. SpinCounts(t, spinPc[t])
    BY <1>a, <2>1, SpinMove, Zenon
  <2>3. target \in Int /\ target >= -1 /\ semaphore \in Nat /\ TargetCounts /\ InOneHand
    BY DEF SpinInv, SpinTypeOK
  <2>4. (target \in Int /\ target >= -1 /\ semaphore \in Nat)'
    BY <1>5, <2>2, <2>3 DEF SwapAgain, SpinCounts, HolderPlaces, TargetCounts, InOneHand
  <2>5. (spinPc \in [Thread -> SpinPlaces] /\ result \in [Thread -> Int])'
    BY <1>a, <1>5, <2>1 DEF SpinGoto, SpinTypeOK, SpinPlaces
  <2>6. TargetCounts'
    BY <1>5, <2>2, <2>3 DEF SwapAgain, SpinCounts, HolderPlaces, TargetCounts
  <2>7. InOneHand'
    BY <1>5, <2>2, <2>3 DEF SwapAgain, SpinCounts, HolderPlaces, TargetCounts, InOneHand
  <2> QED BY <2>4, <2>5, <2>6, <2>7 DEF SpinInv, SpinTypeOK
<1>6. CASE SemWait(t)
  <2>1. SpinGoto(t, "held", -1)
    BY <1>6 DEF SemWait
  <2>2. SpinCounts(t, "held")
    BY <1>a, <2>1, SpinMove, Zenon
  <2>3. target \in Int /\ target >= -1 /\ semaphore \in Nat /\ TargetCounts /\ InOneHand
    BY DEF SpinInv, SpinTypeOK
  <2>4. (target \in Int /\ target >= -1 /\ semaphore \in Nat)'
    BY <1>6, <2>2, <2>3 DEF SemWait, SpinCounts, HolderPlaces, TargetCounts, InOneHand
  <2>5. (spinPc \in [Thread -> SpinPlaces] /\ result \in [Thread -> Int])'
    BY <1>a, <1>6, <2>1 DEF SpinGoto, SpinTypeOK, SpinPlaces
  <2>6. TargetCounts'
    BY <1>6, <2>2, <2>3 DEF SemWait, SpinCounts, HolderPlaces, TargetCounts
  <2>7. InOneHand'
    BY <1>6, <2>2, <2>3 DEF SemWait, SpinCounts, HolderPlaces, TargetCounts, InOneHand
  <2> QED BY <2>4, <2>5, <2>6, <2>7 DEF SpinInv, SpinTypeOK
<1>7. CASE ReadTarget(t)
  <2>1. SpinGoto(t, "release", target)
    BY <1>7 DEF ReadTarget
  <2>2. SpinCounts(t, "release")
    BY <1>a, <2>1, SpinMove, Zenon
  <2>3. target \in Int /\ target >= -1 /\ semaphore \in Nat /\ TargetCounts /\ InOneHand
    BY DEF SpinInv, SpinTypeOK
  <2>4. (target \in Int /\ target >= -1 /\ semaphore \in Nat)'
    BY <1>7, <2>2, <2>3 DEF ReadTarget, SpinCounts, HolderPlaces, TargetCounts, InOneHand
  <2>5. (spinPc \in [Thread -> SpinPlaces] /\ result \in [Thread -> Int])'
    BY <1>a, <1>7, <2>1 DEF SpinGoto, SpinTypeOK, SpinPlaces
  <2>6. TargetCounts'
    BY <1>7, <2>2, <2>3 DEF ReadTarget, SpinCounts, HolderPlaces, TargetCounts
  <2>7. InOneHand'
    BY <1>7, <2>2, <2>3 DEF ReadTarget, SpinCounts, HolderPlaces, TargetCounts, InOneHand
  <2> QED BY <2>4, <2>5, <2>6, <2>7 DEF SpinInv, SpinTypeOK
<1>8. CASE CountOut(t)
  <2>1. target' = target - 1 /\ semaphore' = semaphore /\ spinPc[t] = "release"
    BY <1>8 DEF CountOut
  <2>2. target \in Int /\ target >= -1 /\ semaphore \in Nat /\ TargetCounts /\ InOneHand
    BY DEF SpinInv, SpinTypeOK
  <2>a. spinPc[t] \in HolderPlaces => Cardinality(Holders) >= 1
    BY HolderCounted, Zenon
  <2>3. CASE target' < 0
    <3>1. SpinGoto(t, "idle", -1)
      BY <1>8, <2>3 DEF CountOut
    <3>2. SpinCounts(t, "idle")
      BY <1>a, <3>1, SpinMove, Zenon
    <3>3. /\ target' \in Int /\ target' >= -1 /\ semaphore' \in Nat
          /\ target' + 1 = Cardinality(Holders)' + Cardinality(Sleepers)'
      BY <2>1, <2>2, <2>a, <2>3, <3>2 DEF SpinCounts, HolderPlaces, TargetCounts
    <3>a. Cardinality(Holders) + Cardinality(Posters) + semaphore = 1
      BY <2>1, <2>2, <2>a, <3>2 DEF SpinCounts, HolderPlaces, TargetCounts, InOneHand
    <3>5. Cardinality(Holders)' + Cardinality(Posters)' + semaphore'
            = IF target' = -1 THEN 0 ELSE 1
      BY <2>1, <2>2, <2>3, <3>a, <3>2, <3>3 DEF SpinCounts, HolderPlaces
    <3>4. (spinPc \in [Thread -> SpinPlaces] /\ result \in [Thread -> Int])'
      BY <1>a, <3>1 DEF SpinGoto, SpinTypeOK, SpinPlaces
    <3> QED BY <3>3, <3>4, <3>5 DEF SpinInv, SpinTypeOK, TargetCounts, InOneHand
  <2>4. CASE ~(target' < 0)
    <3>1. SpinGoto(t, "post", -1)
      BY <1>8, <2>4 DEF CountOut
    <3>2. SpinCounts(t, "post")
      BY <1>a, <3>1, SpinMove, Zenon
    <3>3. /\ target' \in Int /\ target' >= -1 /\ semaphore' \in Nat
          /\ target' + 1 = Cardinality(Holders)' + Cardinality(Sleepers)'
      BY <2>1, <2>2, <2>a, <2>4, <3>2 DEF SpinCounts, HolderPlaces, TargetCounts
    <3>5. Cardinality(Holders)' + Cardinality(Posters)' + semaphore'
            = IF target' = -1 THEN 0 ELSE 1
      BY <2>1, <2>2, <2>a, <2>4, <3>2, <3>3 DEF SpinCounts, HolderPlaces, TargetCounts, InOneHand
    <3>4. (spinPc \in [Thread -> SpinPlaces] /\ result \in [Thread -> Int])'
      BY <1>a, <3>1 DEF SpinGoto, SpinTypeOK, SpinPlaces
    <3> QED BY <3>3, <3>4, <3>5 DEF SpinInv, SpinTypeOK, TargetCounts, InOneHand
  <2> QED BY <2>3, <2>4
<1>9. CASE SemPost(t)
  <2>1. SpinGoto(t, "idle", -1)
    BY <1>9 DEF SemPost
  <2>2. SpinCounts(t, "idle")
    BY <1>a, <2>1, SpinMove, Zenon
  <2>3. target \in Int /\ target >= -1 /\ semaphore \in Nat /\ TargetCounts /\ InOneHand
    BY DEF SpinInv, SpinTypeOK
  <2>4. (target \in Int /\ target >= -1 /\ semaphore \in Nat)'
    BY <1>9, <2>2, <2>3 DEF SemPost, SpinCounts, HolderPlaces, TargetCounts, InOneHand
  <2>5. (spinPc \in [Thread -> SpinPlaces] /\ result \in [Thread -> Int])'
    BY <1>a, <1>9, <2>1 DEF SpinGoto, SpinTypeOK, SpinPlaces
  <2>6. TargetCounts'
    BY <1>9, <2>2, <2>3 DEF SemPost, SpinCounts, HolderPlaces, TargetCounts
  <2>7. InOneHand'
    BY <1>9, <2>2, <2>3 DEF SemPost, SpinCounts, HolderPlaces, TargetCounts, InOneHand
  <2> QED BY <2>4, <2>5, <2>6, <2>7 DEF SpinInv, SpinTypeOK
<1> QED BY <1>0, <1>1, <1>2, <1>3, <1>4, <1>5, <1>6, <1>7, <1>8, <1>9 DEF SpinStep

(* The exclusion is in the invariant: a second holder would make two. *)
LEMMA SpinInvExcludes == SpinInv => SpinExclusion
<1> SUFFICES ASSUME SpinInv, NEW t \in Holders, NEW u \in Holders, t # u
             PROVE  FALSE
  BY DEF SpinExclusion
<1>1. IsFiniteSet(Holders) /\ Cardinality(Holders) \in Nat
      /\ Cardinality(Posters) \in Nat
  BY SpinSets, PlacesFinite, Zenon
<1>2. Cardinality(Holders) <= 1
  BY <1>1 DEF SpinInv, SpinTypeOK, InOneHand
<1>3. {t, u} \subseteq Holders
  OBVIOUS
<1>4. Cardinality({t, u}) <= Cardinality(Holders)
  BY <1>1, <1>3, FS_Subset, Zenon
<1>5. Cardinality({t, u}) = 2
  <2>1. Cardinality({t}) = 1 /\ IsFiniteSet({t})
    BY FS_Singleton
  <2>2. {t, u} = {t} \cup {u} /\ u \notin {t}
    OBVIOUS
  <2>3. Cardinality({t, u}) = Cardinality({t}) + 1
    BY <2>1, <2>2, FS_AddElement, Zenon
  <2> QED BY <2>1, <2>3
<1> QED BY <1>1, <1>2, <1>4, <1>5

(***************************************************************************)
(* The invariant of the spinlock, for every number of threads: the word    *)
(* counts the holder and the sleepers, and the lock is in one hand.        *)
(***************************************************************************)
THEOREM SpinInvariance == SpinSpec => []SpinInv
<1>1. SpinInit => SpinInv
  <2> SUFFICES ASSUME SpinInit PROVE SpinInv
    OBVIOUS
  <2>1. Holders = {} /\ Sleepers = {} /\ Posters = {}
    BY DEF SpinInit, Holders, Sleepers, Posters
  <2>2. Cardinality({}) = 0
    BY FS_EmptySet
  <2> QED BY <2>1, <2>2 DEF SpinInit, SpinInv, SpinTypeOK, SpinPlaces, TargetCounts,
        InOneHand
<1>2. SpinInv /\ [SpinNext]_spinVars => SpinInv'
  <2>1. SpinInv /\ UNCHANGED spinVars => SpinInv'
    BY DEF SpinInv, SpinTypeOK, TargetCounts, InOneHand, Holders, Sleepers, Posters,
      spinVars
  <2> QED BY <2>1, SpinInvStep
<1> QED BY <1>1, <1>2, PTL DEF SpinSpec

(***************************************************************************)
(* omrgc_spinlock_acquire and omrgc_spinlock_release exclude, for every    *)
(* number of threads.                                                      *)
(***************************************************************************)
THEOREM SpinExcludes == SpinSpec => []SpinExclusion
BY SpinInvariance, SpinInvExcludes, PTL

-----------------------------------------------------------------------------
(* The readers-writer lock *)

ReaderPlaces == {"reading", "exit_read"}
WriterPlaces == {"writing", "exit_write"}

(* The sets that the word describes, by place. *)
LEMMA RWSets ==
    /\ Readers = InPlaces(rwPc, ReaderPlaces)
    /\ Writers = InPlaces(rwPc, WriterPlaces)
    /\ WaitingWriters = InPlaces(rwPc, {"acquire"})
BY DEF Readers, Writers, WaitingWriters, InPlaces, ReaderPlaces, WriterPlaces

(* The numbers of readers and of waiting writers. *)
LEMMA RWCardinalities ==
    /\ Cardinality(Readers) \in Nat
    /\ Cardinality(Readers) = 0 <=> Readers = {}
    /\ Cardinality(WaitingWriters) \in Nat
    /\ Cardinality(WaitingWriters) = 0 <=> WaitingWriters = {}
BY RWSets, PlacesFinite, Zenon

(* One thread moves: what becomes of each count. *)
RWCounts(t, place) ==
    /\ Cardinality(Readers)' = Cardinality(Readers)
         + (IF place \in ReaderPlaces THEN 1 ELSE 0)
         - (IF rwPc[t] \in ReaderPlaces THEN 1 ELSE 0)
    /\ Cardinality(WaitingWriters)' = Cardinality(WaitingWriters)
         + (IF place = "acquire" THEN 1 ELSE 0)
         - (IF rwPc[t] = "acquire" THEN 1 ELSE 0)
    /\ Writers' = IF place \in WriterPlaces THEN Writers \cup {t} ELSE Writers \ {t}
    /\ Readers' = IF place \in ReaderPlaces THEN Readers \cup {t} ELSE Readers \ {t}

(* A step of the readers-writer lock moves one thread, and the counts with it. *)
LEMMA RWMove ==
    ASSUME RWTypeOK, NEW t \in Thread, NEW place, NEW word, RWGoto(t, place, word)
    PROVE  RWCounts(t, place)
<1>1. rwPc \in [Thread -> RWPlaces] /\ rwPc' = [rwPc EXCEPT ![t] = place]
  BY DEF RWTypeOK, RWGoto
<1>2. /\ Readers' = InPlaces(rwPc', ReaderPlaces)
      /\ WaitingWriters' = InPlaces(rwPc', {"acquire"})
  BY DEF Readers, WaitingWriters, InPlaces, ReaderPlaces
<1>3. \A P : Cardinality(InPlaces(rwPc, P)) \in Nat
  BY PlacesFinite, Zenon
<1>4. \A P : Cardinality(InPlaces([rwPc EXCEPT ![t] = place], P))
               = Cardinality(InPlaces(rwPc, P)) + (IF place \in P THEN 1 ELSE 0)
                   - (IF rwPc[t] \in P THEN 1 ELSE 0)
  BY <1>1, PlacesMove, Zenon
<1>5. \A P : Cardinality(InPlaces(rwPc', P))
               = Cardinality(InPlaces(rwPc, P)) + (IF place \in P THEN 1 ELSE 0)
                   - (IF rwPc[t] \in P THEN 1 ELSE 0)
  BY <1>1, <1>4, Zenon
<1>6. Writers' = IF place \in WriterPlaces THEN Writers \cup {t} ELSE Writers \ {t}
  BY <1>1 DEF Writers, WriterPlaces
<1>7. Readers' = IF place \in ReaderPlaces THEN Readers \cup {t} ELSE Readers \ {t}
  BY <1>1 DEF Readers, ReaderPlaces
<1> QED BY <1>2, <1>3, <1>5, <1>6, <1>7, RWSets DEF RWCounts

(* What a thread has seen of the readers, when it is not one of them. *)
LEMMA RoomForOne ==
    ASSUME RWInv, NEW t \in Thread, rwPc[t] \notin ReaderPlaces
    PROVE  status.readers + 1 < MaxReaders
<1>1. IsFiniteSet(Readers) /\ Cardinality(Readers) \in Nat /\ t \notin Readers
  BY RWSets, PlacesFinite DEF InPlaces
<1>2. Cardinality(Readers \cup {t}) = Cardinality(Readers) + 1
  BY <1>1, FS_AddElement, Zenon
<1>3. Readers \cup {t} \subseteq Thread
  BY DEF Readers
<1>4. Cardinality(Readers \cup {t}) <= Cardinality(Thread)
  BY <1>3, FinitelyManyThreads, FS_Subset, Zenon
<1>5. Cardinality(Thread) \in Nat
  BY FinitelyManyThreads, FS_CardinalityType
<1> QED BY <1>1, <1>2, <1>4, <1>5, ThreadsFitTheWord DEF RWInv, WordInv

(* A step that leaves the word and every thread's part as they are. *)
SameRole(t, place) ==
    /\ rwPc[t] \in ReaderPlaces <=> place \in ReaderPlaces
    /\ rwPc[t] \in WriterPlaces <=> place \in WriterPlaces
    /\ rwPc[t] = "acquire" <=> place = "acquire"

(* Such a step preserves the invariant. *)
LEMMA RWSameRole ==
    ASSUME RWInv, NEW t \in Thread, NEW place \in RWPlaces, NEW word \in Word,
           RWGoto(t, place, word), status' = status, SameRole(t, place),
           place = "cas_read" =>
             word.mode = "reader" /\ word.waiting = 0 /\ word.readers + 1 < MaxReaders
    PROVE  RWInv'
<1>1. RWTypeOK
  BY DEF RWInv
<1>2. RWTypeOK'
  BY <1>1 DEF RWTypeOK, RWGoto
<1>3. rwPc' = [rwPc EXCEPT ![t] = place] /\ seen' = [seen EXCEPT ![t] = word]
  BY DEF RWGoto
<1>4. Readers' = Readers /\ Writers' = Writers /\ WaitingWriters' = WaitingWriters
  BY <1>1, <1>3 DEF SameRole, RWTypeOK, Readers, Writers, WaitingWriters, ReaderPlaces,
    WriterPlaces
<1>5. WordInv' /\ RWExclusion'
  BY <1>4 DEF RWInv, WordInv, RWExclusion
<1>6. ReaderCountFits' /\ SeenByReader'
  BY <1>1, <1>3 DEF RWInv, ReaderCountFits, SeenByReader, RWTypeOK
<1> QED BY <1>2, <1>5, <1>6 DEF RWInv

(* A word that is swapped in, after a compare that succeeded. *)
LEMMA RWSwapped ==
    ASSUME RWInv, NEW t \in Thread, NEW place \in RWPlaces, NEW word \in Word,
           RWGoto(t, place, word), status' \in Word, place # "cas_read",
           WordInv', RWExclusion'
    PROVE  RWInv'
<1>1. RWTypeOK /\ RWTypeOK'
  BY DEF RWInv, RWTypeOK, RWGoto
<1>2. ReaderCountFits' /\ SeenByReader'
  BY <1>1 DEF RWInv, ReaderCountFits, SeenByReader, RWTypeOK, RWGoto
<1> QED BY <1>1, <1>2 DEF RWInv

(* What a compare-and-swap can do: fail, or replace the word it expected. *)
LEMMA KeptIsWord ==
    ASSUME NEW place, NEW word \in Word
    PROVE  Kept(place, word) \in Word
BY DEF Kept, Word, Unlocked

(* A reader that comes in finds no writer in the word, so none anywhere. *)
LEMMA CasReadPreserves ==
    ASSUME RWInv, NEW t \in Thread, CasRead(t)
    PROVE  RWInv'
<1>0. RWTypeOK
  BY DEF RWInv
<1>1. status \in Word /\ seen[t] \in Word
  BY <1>0 DEF RWTypeOK
<1>2. rwPc[t] = "cas_read"
  BY DEF CasRead
<1>3. CASE status # seen[t]
  <2>1. RWGoto(t, "enter_read", Kept("enter_read", status)) /\ status' = status
    BY <1>3 DEF CasRead, Swap
  <2>2. Kept("enter_read", status) \in Word
    BY <1>1, KeptIsWord
  <2>3. SameRole(t, "enter_read") /\ "enter_read" \in RWPlaces
    BY <1>2 DEF SameRole, ReaderPlaces, WriterPlaces, RWPlaces
  <2> QED BY <2>1, <2>2, <2>3, RWSameRole
<1>4. CASE status = seen[t]
  <2>1. /\ RWGoto(t, "reading", Kept("reading", status'))
        /\ status = seen[t]
        /\ status' = [seen[t] EXCEPT !.readers = @ + 1]
    BY <1>4 DEF CasRead, Swap
  <2>4. RWCounts(t, "reading")
    BY <1>0, <2>1, RWMove, Zenon
  <2>5. Writers = {} /\ Writers' = {}
    BY <1>2, <2>1, <2>4 DEF RWInv, WordInv, RWCounts, WriterPlaces, SeenByReader
  <2>6. /\ status.readers \in Nat
        /\ status.waiting \in Nat
        /\ status'.mode = status.mode
        /\ status'.readers = status.readers + 1
        /\ status'.waiting = status.waiting
    BY <1>1, <2>1 DEF Word, Unlocked, WriterExpects
  <2>7. status'.readers = Cardinality(Readers)' /\ status'.readers \in Nat
    BY <1>2, <2>4, <2>5, <2>6, RWCardinalities DEF RWInv, WordInv, RWCounts, ReaderPlaces
  <2>8. status'.waiting = Cardinality(WaitingWriters)' /\ status'.waiting \in Nat
    BY <1>2, <2>4, <2>6, RWCardinalities DEF RWInv, WordInv, RWCounts
  <2>9. WordInv' /\ RWExclusion'
    BY <2>5, <2>6, <2>7, <2>8 DEF RWInv, WordInv, RWExclusion
  <2>10. status' \in Word
    BY <1>1, <2>1, <2>7, <2>8 DEF Word, Unlocked, WriterExpects
  <2>11. Kept("reading", status') \in Word
    BY <2>10, KeptIsWord, Zenon
  <2> QED BY <2>1, <2>9, <2>10, <2>11, RWSwapped DEF RWPlaces
<1> QED BY <1>3, <1>4

(* A reader that leaves is one of those counted. *)
LEMMA CasExitReadPreserves ==
    ASSUME RWInv, NEW t \in Thread, CasExitRead(t)
    PROVE  RWInv'
<1>0. RWTypeOK
  BY DEF RWInv
<1>1. status \in Word /\ seen[t] \in Word
  BY <1>0 DEF RWTypeOK
<1>2. rwPc[t] = "exit_read"
  BY DEF CasExitRead
<1>3. CASE status # seen[t]
  <2>1. RWGoto(t, "reading", Kept("reading", status)) /\ status' = status
    BY <1>3 DEF CasExitRead, Swap
  <2>2. Kept("reading", status) \in Word
    BY <1>1, KeptIsWord
  <2>3. SameRole(t, "reading") /\ "reading" \in RWPlaces
    BY <1>2 DEF SameRole, ReaderPlaces, WriterPlaces, RWPlaces
  <2> QED BY <2>1, <2>2, <2>3, RWSameRole
<1>4. CASE status = seen[t]
  <2>1. /\ RWGoto(t, "idle", Kept("idle", status'))
        /\ status = seen[t]
        /\ status' = [seen[t] EXCEPT !.readers = @ - 1]
    BY <1>4 DEF CasExitRead, Swap
  <2>4. RWCounts(t, "idle")
    BY <1>0, <2>1, RWMove, Zenon
  <2>a. t \in Readers
    BY <1>2 DEF Readers
  <2>5. Writers = {} /\ Writers' = {}
    BY <2>4, <2>a DEF RWInv, RWExclusion, RWCounts, WriterPlaces
  <2>6. /\ status.readers \in Nat
        /\ status.waiting \in Nat
        /\ status'.mode = status.mode
        /\ status'.readers = status.readers - 1
        /\ status'.waiting = status.waiting
    BY <1>1, <2>1 DEF Word, Unlocked, WriterExpects
  <2>7. status'.readers = Cardinality(Readers)' /\ status'.readers \in Nat
    BY <1>2, <2>4, <2>5, <2>6, <2>a, RWCardinalities DEF RWInv, WordInv, RWCounts, ReaderPlaces
  <2>8. status'.waiting = Cardinality(WaitingWriters)' /\ status'.waiting \in Nat
    BY <1>2, <2>4, <2>6, RWCardinalities DEF RWInv, WordInv, RWCounts
  <2>9. WordInv' /\ RWExclusion'
    BY <2>5, <2>6, <2>7, <2>8 DEF RWInv, WordInv, RWExclusion
  <2>10. status' \in Word
    BY <1>1, <2>1, <2>7, <2>8 DEF Word, Unlocked, WriterExpects
  <2>11. Kept("idle", status') \in Word
    BY <2>10, KeptIsWord, Zenon
  <2> QED BY <2>1, <2>9, <2>10, <2>11, RWSwapped DEF RWPlaces
<1> QED BY <1>3, <1>4

(* A writer that finds the word of an unlocked lock is alone. *)
LEMMA TryWritePreserves ==
    ASSUME RWInv, NEW t \in Thread, TryWrite(t)
    PROVE  RWInv'
<1>0. RWTypeOK
  BY DEF RWInv
<1>1. status \in Word /\ seen[t] \in Word
  BY <1>0 DEF RWTypeOK
<1>2. rwPc[t] = "enter_write"
  BY DEF TryWrite
<1>3. CASE status # Unlocked
  <2>1. RWGoto(t, "announce", Kept("announce", status)) /\ status' = status
    BY <1>3 DEF TryWrite, Swap
  <2>2. Kept("announce", status) \in Word
    BY <1>1, KeptIsWord
  <2>3. SameRole(t, "announce") /\ "announce" \in RWPlaces
    BY <1>2 DEF SameRole, ReaderPlaces, WriterPlaces, RWPlaces
  <2> QED BY <2>1, <2>2, <2>3, RWSameRole
<1>4. CASE status = Unlocked
  <2>1. /\ RWGoto(t, "writing", Kept("writing", status'))
        /\ status = Unlocked
        /\ status' = [Unlocked EXCEPT !.mode = "writer"]
    BY <1>4 DEF TryWrite, Swap
  <2>4. RWCounts(t, "writing")
    BY <1>0, <2>1, RWMove, Zenon
  <2>5. Writers = {} /\ Readers = {} /\ Writers' = {t} /\ Readers' = {}
    BY <2>1, <2>4, RWCardinalities DEF RWInv, WordInv, RWCounts, ReaderPlaces,
      WriterPlaces, Unlocked
  <2>6. /\ status.readers \in Nat
        /\ status.waiting \in Nat
        /\ status'.mode = "writer"
        /\ status'.readers = status.readers
        /\ status'.waiting = status.waiting
    BY <1>1, <2>1 DEF Word, Unlocked, WriterExpects
  <2>7. status'.readers = Cardinality(Readers)' /\ status'.readers \in Nat
    BY <1>2, <2>4, <2>5, <2>6, RWCardinalities DEF RWInv, WordInv, RWCounts, ReaderPlaces
  <2>8. status'.waiting = Cardinality(WaitingWriters)' /\ status'.waiting \in Nat
    BY <1>2, <2>4, <2>6, RWCardinalities DEF RWInv, WordInv, RWCounts
  <2>9. WordInv' /\ RWExclusion'
    BY <2>5, <2>6, <2>7, <2>8 DEF RWInv, WordInv, RWExclusion
  <2>10. status' \in Word
    BY <1>1, <2>1, <2>7, <2>8 DEF Word, Unlocked, WriterExpects
  <2>11. Kept("writing", status') \in Word
    BY <2>10, KeptIsWord, Zenon
  <2> QED BY <2>1, <2>9, <2>10, <2>11, RWSwapped DEF RWPlaces
<1> QED BY <1>3, <1>4

(* A writer that announces itself is counted. *)
LEMMA AnnouncePreserves ==
    ASSUME RWInv, NEW t \in Thread, Announce(t)
    PROVE  RWInv'
<1>0. RWTypeOK
  BY DEF RWInv
<1>1. status \in Word /\ seen[t] \in Word
  BY <1>0 DEF RWTypeOK
<1>2. rwPc[t] = "announce"
  BY DEF Announce
<1>3. CASE status # seen[t]
  <2>1. RWGoto(t, "announce", Kept("announce", status)) /\ status' = status
    BY <1>3 DEF Announce, Swap
  <2>2. Kept("announce", status) \in Word
    BY <1>1, KeptIsWord
  <2>3. SameRole(t, "announce") /\ "announce" \in RWPlaces
    BY <1>2 DEF SameRole, ReaderPlaces, WriterPlaces, RWPlaces
  <2> QED BY <2>1, <2>2, <2>3, RWSameRole
<1>4. CASE status = seen[t]
  <2>1. /\ RWGoto(t, "acquire", Kept("acquire", status'))
        /\ status = seen[t]
        /\ status' = [seen[t] EXCEPT !.waiting = @ + 1]
    BY <1>4 DEF Announce, Swap
  <2>4. RWCounts(t, "acquire")
    BY <1>0, <2>1, RWMove, Zenon
  <2>5. Writers' = Writers /\ Readers' = Readers
    BY <1>2, <2>4 DEF RWCounts, Writers, Readers, WriterPlaces, ReaderPlaces
  <2>6. /\ status.readers \in Nat
        /\ status.waiting \in Nat
        /\ status'.mode = status.mode
        /\ status'.readers = status.readers
        /\ status'.waiting = status.waiting + 1
    BY <1>1, <2>1 DEF Word, Unlocked, WriterExpects
  <2>7. status'.readers = Cardinality(Readers)' /\ status'.readers \in Nat
    BY <1>2, <2>4, <2>5, <2>6, RWCardinalities DEF RWInv, WordInv, RWCounts, ReaderPlaces
  <2>8. status'.waiting = Cardinality(WaitingWriters)' /\ status'.waiting \in Nat
    BY <1>2, <2>4, <2>6, RWCardinalities DEF RWInv, WordInv, RWCounts
  <2>9. WordInv' /\ RWExclusion'
    BY <2>5, <2>6, <2>7, <2>8 DEF RWInv, WordInv, RWExclusion
  <2>10. status' \in Word
    BY <1>1, <2>1, <2>7, <2>8 DEF Word, Unlocked, WriterExpects
  <2>11. Kept("acquire", status') \in Word
    BY <2>10, KeptIsWord, Zenon
  <2> QED BY <2>1, <2>9, <2>10, <2>11, RWSwapped DEF RWPlaces
<1> QED BY <1>3, <1>4

(* A waiting writer that finds no reader and no writer is alone. *)
LEMMA AcquireWritePreserves ==
    ASSUME RWInv, NEW t \in Thread, AcquireWrite(t)
    PROVE  RWInv'
<1>0. RWTypeOK
  BY DEF RWInv
<1>1. status \in Word /\ seen[t] \in Word
  BY <1>0 DEF RWTypeOK
<1>2. rwPc[t] = "acquire"
  BY DEF AcquireWrite
<1>3. CASE status # WriterExpects(seen[t])
  <2>1. RWGoto(t, "acquire", Kept("acquire", status)) /\ status' = status
    BY <1>3 DEF AcquireWrite, Swap
  <2>2. Kept("acquire", status) \in Word
    BY <1>1, KeptIsWord
  <2>3. SameRole(t, "acquire") /\ "acquire" \in RWPlaces
    BY <1>2 DEF SameRole, ReaderPlaces, WriterPlaces, RWPlaces
  <2> QED BY <2>1, <2>2, <2>3, RWSameRole
<1>4. CASE status = WriterExpects(seen[t])
  <2>1. /\ RWGoto(t, "writing", Kept("writing", status'))
        /\ status = WriterExpects(seen[t])
        /\ status' = [WriterExpects(seen[t]) EXCEPT !.mode = "writer", !.waiting = @ - 1]
    BY <1>4 DEF AcquireWrite, Swap
  <2>4. RWCounts(t, "writing")
    BY <1>0, <2>1, RWMove, Zenon
  <2>a. t \in WaitingWriters
    BY <1>2 DEF WaitingWriters
  <2>5. Writers = {} /\ Readers = {} /\ Writers' = {t} /\ Readers' = {}
    BY <2>1, <2>4, RWCardinalities DEF RWInv, WordInv, RWCounts, ReaderPlaces,
      WriterPlaces, WriterExpects
  <2>6. /\ status.readers \in Nat
        /\ status.waiting \in Nat
        /\ status'.mode = "writer"
        /\ status'.readers = status.readers
        /\ status'.waiting = status.waiting - 1
    BY <1>1, <2>1 DEF Word, Unlocked, WriterExpects
  <2>7. status'.readers = Cardinality(Readers)' /\ status'.readers \in Nat
    BY <1>2, <2>4, <2>5, <2>6, RWCardinalities DEF RWInv, WordInv, RWCounts, ReaderPlaces
  <2>8. status'.waiting = Cardinality(WaitingWriters)' /\ status'.waiting \in Nat
    BY <1>2, <2>4, <2>6, <2>a, RWCardinalities DEF RWInv, WordInv, RWCounts
  <2>9. WordInv' /\ RWExclusion'
    BY <2>5, <2>6, <2>7, <2>8 DEF RWInv, WordInv, RWExclusion
  <2>10. status' \in Word
    BY <1>1, <2>1, <2>7, <2>8 DEF Word, Unlocked, WriterExpects
  <2>11. Kept("writing", status') \in Word
    BY <2>10, KeptIsWord, Zenon
  <2> QED BY <2>1, <2>9, <2>10, <2>11, RWSwapped DEF RWPlaces
<1> QED BY <1>3, <1>4

(* A writer that leaves was the only one. *)
LEMMA CasExitWritePreserves ==
    ASSUME RWInv, NEW t \in Thread, CasExitWrite(t)
    PROVE  RWInv'
<1>0. RWTypeOK
  BY DEF RWInv
<1>1. status \in Word /\ seen[t] \in Word
  BY <1>0 DEF RWTypeOK
<1>2. rwPc[t] = "exit_write"
  BY DEF CasExitWrite
<1>3. CASE status # seen[t]
  <2>1. RWGoto(t, "writing", Kept("writing", status)) /\ status' = status
    BY <1>3 DEF CasExitWrite, Swap
  <2>2. Kept("writing", status) \in Word
    BY <1>1, KeptIsWord
  <2>3. SameRole(t, "writing") /\ "writing" \in RWPlaces
    BY <1>2 DEF SameRole, ReaderPlaces, WriterPlaces, RWPlaces
  <2> QED BY <2>1, <2>2, <2>3, RWSameRole
<1>4. CASE status = seen[t]
  <2>1. /\ RWGoto(t, "idle", Kept("idle", status'))
        /\ status = seen[t]
        /\ status' = [seen[t] EXCEPT !.mode = "reader"]
    BY <1>4 DEF CasExitWrite, Swap
  <2>4. RWCounts(t, "idle")
    BY <1>0, <2>1, RWMove, Zenon
  <2>a. t \in Writers
    BY <1>2 DEF Writers
  <2>5. Writers = {t} /\ Readers = {} /\ Writers' = {} /\ Readers' = {}
    BY <2>4, <2>a DEF RWInv, RWExclusion, RWCounts, ReaderPlaces, WriterPlaces
  <2>6. /\ status.readers \in Nat
        /\ status.waiting \in Nat
        /\ status'.mode = "reader"
        /\ status'.readers = status.readers
        /\ status'.waiting = status.waiting
    BY <1>1, <2>1 DEF Word, Unlocked, WriterExpects
  <2>7. status'.readers = Cardinality(Readers)' /\ status'.readers \in Nat
    BY <1>2, <2>4, <2>5, <2>6, RWCardinalities DEF RWInv, WordInv, RWCounts, ReaderPlaces
  <2>8. status'.waiting = Cardinality(WaitingWriters)' /\ status'.waiting \in Nat
    BY <1>2, <2>4, <2>6, RWCardinalities DEF RWInv, WordInv, RWCounts
  <2>9. WordInv' /\ RWExclusion'
    BY <2>5, <2>6, <2>7, <2>8 DEF RWInv, WordInv, RWExclusion
  <2>10. status' \in Word
    BY <1>1, <2>1, <2>7, <2>8 DEF Word, Unlocked, WriterExpects
  <2>11. Kept("idle", status') \in Word
    BY <2>10, KeptIsWord, Zenon
  <2> QED BY <2>1, <2>9, <2>10, <2>11, RWSwapped DEF RWPlaces
<1> QED BY <1>3, <1>4

(* Every step of the readers-writer lock preserves its invariant. *)
LEMMA RWInvStep ==
    ASSUME RWInv, RWNext
    PROVE  RWInv'
<1>0. PICK t \in Thread : RWCall(t) \/ RWStep(t)
  BY DEF RWNext
<1>a. rwPc \in [Thread -> RWPlaces] /\ status \in Word /\ seen[t] \in Word
  BY DEF RWInv, RWTypeOK
<1>1. CASE RWCall(t)
  <2>1. PICK call \in {"enter_read", "enter_write"} : RWGoto(t, call, seen[t])
    BY <1>1 DEF RWCall
  <2>2. SameRole(t, call) /\ call \in RWPlaces /\ status' = status
    BY <1>1 DEF RWCall, SameRole, ReaderPlaces, WriterPlaces, RWPlaces
  <2> QED BY <1>a, <2>1, <2>2, RWSameRole
<1>2. CASE ReadStatus(t)
  <2>1. RWGoto(t, "cas_read", ReaderExpects(status)) /\ status' = status
    BY <1>2 DEF ReadStatus
  <2>2. SameRole(t, "cas_read") /\ "cas_read" \in RWPlaces
    BY <1>2 DEF ReadStatus, SameRole, ReaderPlaces, WriterPlaces, RWPlaces
  <2>3. status.readers + 1 < MaxReaders
    BY <1>2, RoomForOne DEF ReadStatus, ReaderPlaces
  <2>4. /\ ReaderExpects(status) \in Word
        /\ ReaderExpects(status).mode = "reader"
        /\ ReaderExpects(status).waiting = 0
        /\ ReaderExpects(status).readers + 1 < MaxReaders
    BY <1>a, <2>3 DEF ReaderExpects, Word
  <2> QED BY <2>1, <2>2, <2>4, RWSameRole
<1>3. CASE ExitRead(t)
  <2>1. RWGoto(t, "exit_read", status) /\ status' = status
    BY <1>3 DEF ExitRead
  <2>2. SameRole(t, "exit_read") /\ "exit_read" \in RWPlaces
    BY <1>3 DEF ExitRead, SameRole, ReaderPlaces, WriterPlaces, RWPlaces
  <2> QED BY <1>a, <2>1, <2>2, RWSameRole
<1>4. CASE ExitWrite(t)
  <2>1. RWGoto(t, "exit_write", status) /\ status' = status
    BY <1>4 DEF ExitWrite
  <2>2. SameRole(t, "exit_write") /\ "exit_write" \in RWPlaces
    BY <1>4 DEF ExitWrite, SameRole, ReaderPlaces, WriterPlaces, RWPlaces
  <2> QED BY <1>a, <2>1, <2>2, RWSameRole
<1>5. CASE CasRead(t) \/ CasExitRead(t)
  BY <1>5, CasReadPreserves, CasExitReadPreserves
<1>6. CASE TryWrite(t) \/ Announce(t) \/ AcquireWrite(t) \/ CasExitWrite(t)
  BY <1>6, TryWritePreserves, AnnouncePreserves, AcquireWritePreserves,
    CasExitWritePreserves
<1> QED BY <1>0, <1>1, <1>2, <1>3, <1>4, <1>5, <1>6 DEF RWStep

(***************************************************************************)
(* The invariant of the readers-writer lock, for every number of threads   *)
(* that fits the word: the word is the truth about the threads.            *)
(***************************************************************************)
THEOREM RWInvariance == RWSpec => []RWInv
<1>1. RWInit => RWInv
  <2> SUFFICES ASSUME RWInit PROVE RWInv
    OBVIOUS
  <2>1. Readers = {} /\ Writers = {} /\ WaitingWriters = {}
    BY DEF RWInit, Readers, Writers, WaitingWriters
  <2>2. Cardinality({}) = 0
    BY FS_EmptySet
  <2>3. RWTypeOK
    BY DEF RWInit, RWTypeOK, RWPlaces, Word, Unlocked
  <2>4. WordInv /\ RWExclusion
    BY <2>1, <2>2 DEF RWInit, WordInv, RWExclusion, Unlocked
  <2>5. SeenByReader /\ ReaderCountFits
    BY DEF RWInit, SeenByReader, ReaderCountFits
  <2> QED BY <2>3, <2>4, <2>5 DEF RWInv
<1>2. RWInv /\ [RWNext]_rwVars => RWInv'
  <2>1. RWInv /\ UNCHANGED rwVars => RWInv'
    BY DEF RWInv, RWTypeOK, WordInv, SeenByReader, RWExclusion, ReaderCountFits, Readers,
      Writers, WaitingWriters, rwVars
  <2> QED BY <2>1, RWInvStep
<1> QED BY <1>1, <1>2, PTL DEF RWSpec

(***************************************************************************)
(* enterWrite and enterRead exclude, for every number of threads.          *)
(***************************************************************************)
THEOREM RWExcludes == RWSpec => []RWExclusion
<1>1. RWInv => RWExclusion
  BY DEF RWInv
<1> QED BY <1>1, RWInvariance, PTL

(***************************************************************************)
(* The assertion of enterRead holds as long as there are fewer threads     *)
(* than the field of the word can count.                                   *)
(***************************************************************************)
THEOREM RWAssertion == RWSpec => []ReaderCountFits
<1>1. RWInv => ReaderCountFits
  BY DEF RWInv
<1> QED BY <1>1, RWInvariance, PTL

(***************************************************************************)
(* Writers have priority: the one step that makes a reader finds no        *)
(* waiting writer in the word, so there is none.                           *)
(***************************************************************************)
THEOREM RWWriterPriority == RWSpec => WriterPriority
<1>1. ASSUME RWInv, [RWNext]_rwVars
      PROVE  [Readers' \subseteq Readers \/ WaitingWriters = {}]_rwVars
  <2> SUFFICES ASSUME RWNext
               PROVE  Readers' \subseteq Readers \/ WaitingWriters = {}
    BY <1>1
  <2>0. PICK t \in Thread : RWCall(t) \/ RWStep(t)
    BY DEF RWNext
  <2>a. rwPc \in [Thread -> RWPlaces]
    BY <1>1 DEF RWInv, RWTypeOK
  <2>1. CASE CasRead(t)
    <3>1. CASE status = seen[t]
      <4>1. status.waiting = 0
        BY <1>1, <2>1, <3>1 DEF CasRead, RWInv, SeenByReader
      <4> QED BY <1>1, <4>1, RWCardinalities DEF RWInv, WordInv
    <3>2. CASE status # seen[t]
      BY <2>1, <2>a, <3>2 DEF CasRead, Swap, RWGoto, Readers
    <3> QED BY <3>1, <3>2
  <2>2. CASE RWCall(t) \/ ReadStatus(t) \/ ExitRead(t) \/ ExitWrite(t)
    BY <2>2, <2>a DEF RWCall, ReadStatus, ExitRead, ExitWrite, RWGoto, Readers
  <2>3. CASE CasExitRead(t) \/ TryWrite(t) \/ Announce(t)
    BY <2>3, <2>a DEF CasExitRead, TryWrite, Announce, Swap, RWGoto, Readers
  <2>4. CASE AcquireWrite(t) \/ CasExitWrite(t)
    BY <2>4, <2>a DEF AcquireWrite, CasExitWrite, Swap, RWGoto, Readers
  <2> QED BY <2>0, <2>1, <2>2, <2>3, <2>4 DEF RWStep
<1> QED BY <1>1, RWInvariance, PTL DEF RWSpec, WriterPriority
=============================================================================
