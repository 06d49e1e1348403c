------------------------ MODULE ParallelTaskPlaces --------------------------
(***************************************************************************)
(* The steps of a parallel task keep its type, what each place knows, and  *)
(* the section of a released thread to that thread.                        *)
(***************************************************************************)
EXTENDS ParallelTaskSteps

(* Type correctness, action by action. *)
LEMMA TypeStep ==
    ASSUME TaskInv, NEW t \in team, Step(t)
    PROVE  TypeOK'
<1>0. TypeOK
  BY DEF TaskInv
<1>p. t \in Thread /\ \A p \in Place : [pc EXCEPT ![t] = p] \in [Thread -> Place]
  BY <1>0 DEF TypeOK
<1> USE DEF TypeOK, Place, Goto, Advance, envVars, pointVars, countVars, unitVars
<1>1. CASE UnitMine(t)
  BY <1>0, <1>1 DEF UnitMine, Handle
<1>2. CASE UnitShared(t)
  BY <1>0, <1>2 DEF UnitShared
<1>3. CASE UnitClaim(t)
  BY <1>0, <1>3 DEF UnitClaim, NextUnit, Handle
<1>4. CASE SyncLast(t)
  BY <1>0, <1>4 DEF SyncLast, SignPoint, OpenBarrier
<1>5. CASE SyncWait(t)
  BY <1>0, <1>5 DEF SyncWait, SignPoint
<1>6. CASE ReadIndex(t)
  BY <1>0, <1>6 DEF ReadIndex
<1>7. CASE EnterRelease(t)
  BY <1>0, <1>7 DEF EnterRelease, SignPoint
<1>8. CASE EnterWait(t)
  BY <1>0, <1>8 DEF EnterWait, SignPoint
<1>9. CASE Mark(t)
  BY <1>0, <1>9 DEF Mark
<1>10. CASE AloneUnit(t)
  BY <1>0, <1>10, AloneUnitMine DEF AloneUnit
<1>11. CASE Unmark(t)
  <2>1. CASE totalThreadCount = 1
    <3>1. pc' \in [Thread -> Place] /\ ip' \in [Thread -> Nat \ {0}]
      BY <1>0, <1>11, <2>1 DEF Unmark
    <3>2. synchronized' \in BOOLEAN
      BY <1>11, Zenon DEF Unmark
    <3> QED BY <1>0, <1>11, <3>1, <3>2, Zenon DEF Unmark
  <2>2. CASE totalThreadCount # 1
    BY <1>0, <1>11, <2>2 DEF Unmark
  <2> QED BY <2>1, <2>2
<1>12. CASE Release(t)
  BY <1>0, <1>12 DEF Release, OpenBarrier
<1>13. CASE WakePass(t)
  BY <1>0, <1>13 DEF WakePass
<1>14. CASE WakeRelease(t)
  BY <1>0, <1>14 DEF WakeRelease
<1>15. CASE WakeAgain(t)
  BY <1>0, <1>15 DEF WakeAgain
<1>16. CASE Complete(t)
  <2>1. /\ pc' \in [Thread -> Place] /\ ip' = ip
        /\ waiting' \in SUBSET team
    BY <1>0, <1>16 DEF Complete
  <2>2. threadCount # 0 /\ threadCount' = threadCount - 1
    <3>1. t \in Remaining
      BY <1>16 DEF Complete, Remaining, Completed
    <3>2. threadCount = Cardinality(Remaining)
      BY DEF TaskInv, CountInv, Remaining
    <3>3. Remaining \in SUBSET team
      BY DEF Remaining
    <3>4. threadCount # 0
      BY <1>0, <3>1, <3>2, <3>3, PartOfTeam
    <3> QED BY <1>16, <3>4 DEF Complete
  <2>3. threadCount' \in Nat /\ synchronizeCount' \in Nat
    BY <1>0, <1>16, <2>2 DEF Complete
  <2>4. syncPointUniqueId' \in Nat /\ syncPointWorkUnitIndex' \in Nat
    BY <1>0, <1>16 DEF Complete, SignPoint
  <2> QED BY <1>0, <1>16, <2>1, <2>3, <2>4 DEF Complete
<1>17. CASE CompleteWake(t)
  BY <1>0, <1>17 DEF CompleteWake
<1>18. CASE SyncOneThread(t)
  BY <1>0, <1>18 DEF SyncOneThread
<1>19. CASE ReleaseOneThread(t)
  BY <1>0, <1>19 DEF ReleaseOneThread
<1>20. CASE CompleteOneThread(t)
  <2>1. t \in Remaining
    BY <1>20 DEF CompleteOneThread, Remaining, Completed
  <2>2. threadCount = Cardinality(Remaining) /\ Remaining \in SUBSET team
    BY DEF TaskInv, CountInv, Remaining
  <2>3. threadCount # 0
    BY <1>0, <2>1, <2>2, PartOfTeam
  <2>4. threadCount' \in Nat
    BY <1>0, <1>20, <2>3 DEF CompleteOneThread
  <2> QED BY <1>0, <1>20, <2>4 DEF CompleteOneThread
<1> QED BY <1>1, <1>2, <1>3, <1>4, <1>5, <1>6, <1>7, <1>8, <1>9, <1>10, <1>11, <1>12,
           <1>13, <1>14, <1>15, <1>16, <1>17, <1>18, <1>19, <1>20
        DEF Step, HandleNextWorkUnit

(* Only a thread that lets all others go moves the index, and only t comes *)
(* to the wait list.                                                       *)
LEMMA IndexStep ==
    ASSUME TaskInv, NEW t \in team, Step(t)
    PROVE  /\ \/ synchronizeIndex' = synchronizeIndex
              \/ \A u \in team \ {t} : pc[u] = "wait"
           /\ waiting' \subseteq waiting \cup {t}
<1>1. CASE UnitMine(t) \/ UnitShared(t) \/ UnitClaim(t) \/ ReadIndex(t)
  BY <1>1 DEF UnitMine, UnitShared, UnitClaim, ReadIndex, countVars
<1>2. CASE SyncLast(t)
  <2>1. pc[t] = "run" /\ At(t, {"sync", "main", "single"}) /\ totalThreadCount > 1
        /\ synchronizeCount + 1 = threadCount
    BY <1>2 DEF SyncLast, At
  <2>2. \A u \in team \ {t} : pc[u] = "wait"
    BY <2>1, AllHeld
  <2> QED BY <1>2, <2>2 DEF SyncLast, OpenBarrier
<1>3. CASE Release(t)
  <2>1. \A u \in team \ {t} : pc[u] = "wait"
    BY <1>3 DEF TaskInv, SectionInv, InSection, Release
  <2> QED BY <1>3, <2>1 DEF Release, OpenBarrier
<1>4. CASE SyncWait(t) \/ SyncOneThread(t) \/ EnterRelease(t)
  BY <1>4 DEF SyncWait, SyncOneThread, EnterRelease, countVars
<1>5. CASE EnterWait(t)
  BY <1>5 DEF EnterWait
<1>6. CASE Mark(t) \/ ReleaseOneThread(t) \/ AloneUnit(t) \/ Unmark(t)
  BY <1>6 DEF Mark, ReleaseOneThread, AloneUnit, Unmark, countVars
<1>7. CASE WakePass(t) \/ WakeRelease(t) \/ WakeAgain(t)
  BY <1>7 DEF WakePass, WakeRelease, WakeAgain, countVars
<1>8. CASE CompleteOneThread(t) \/ Complete(t) \/ CompleteWake(t)
  BY <1>8 DEF CompleteOneThread, Complete, CompleteWake
<1> QED BY <1>1, <1>2, <1>3, <1>4, <1>5, <1>6, <1>7, <1>8 DEF Step, HandleNextWorkUnit

(* What each place knows stays true of t, and of the others because the    *)
(* index changes only when nobody is about to use the one it read.         *)
LEMMA PlaceStep ==
    ASSUME TaskInv, NEW t \in team, Step(t)
    PROVE  PlaceInv'
<1>0. /\ TypeOK /\ t \in Thread /\ pc[t] # "out" /\ ip[t] \in Nat
      /\ \A u \in Thread : PlaceKnows(u)
      /\ pc \in [Thread -> Place] /\ ip \in [Thread -> Nat \ {0}]
      /\ index \in [Thread -> Nat]
  BY DEF TaskInv, TypeOK, PlaceInv, PlaceKnows
<1>1. /\ script' = script /\ team' = team
      /\ \A u \in Thread \ {t} :
            /\ pc'[u] = pc[u] /\ ip'[u] = ip[u] /\ index'[u] = index[u]
            /\ toHandle'[u] = toHandle[u]
  BY <1>0, Frame
<1>2. Len(script) \in Nat /\ DOMAIN script = 1 .. Len(script)
  BY <1>0, ScriptFacts
<1>3. ASSUME NEW u \in Thread \ {t} PROVE PlaceKnows(u)'
  <2>1. PlaceKnows(u)
    BY <1>0
  <2>2. pc[u] = "enter" => synchronizeIndex' = synchronizeIndex
    BY <2>1, IndexStep DEF PlaceKnows
  <2>3. u \in waiting' => u \in waiting
    BY IndexStep
  <2> QED BY <1>1, <2>1, <2>2, <2>3 DEF PlaceKnows, At, Released, Ended
<1>4. PlaceKnows(t)'
  <2>0. PlaceKnows(t) /\ (pc[t] \notin {"wait", "complete_wait"} => t \notin waiting)
    BY <1>0 DEF PlaceKnows
  <2>a. ASSUME pc'[t] = "run", ip'[t] = ip[t] + 1, ip[t] \in DOMAIN script, t \notin waiting'
        PROVE  PlaceKnows(t)'
    <3>1. ip'[t] <= Len(script') + 1
      BY <1>0, <1>1, <1>2, <2>a
    <3>2. /\ t \in team' /\ pc'[t] \notin {"out", "claim", "enter", "wait", "complete_wait"}
          /\ pc'[t] \notin InSection /\ pc'[t] \notin Completed
      BY <1>1, <2>a DEF InSection, Completed
    <3> QED BY <2>a, <3>1, <3>2 DEF PlaceKnows
  <2>b. ASSUME ip'[t] = ip[t], pc'[t] \in {"claim", "enter"}, t \notin waiting',
               pc'[t] = "claim" => At(t, {"unit"}),
               pc'[t] = "enter" => At(t, {"main", "single"}) /\ index'[t] = synchronizeIndex'
        PROVE  PlaceKnows(t)'
    BY <1>0, <1>1, <2>0, <2>b DEF PlaceKnows, InSection, Completed, At
  <2>c. ASSUME ip'[t] = ip[t], pc'[t] = "wait", At(t, {"sync", "main", "single"})
        PROVE  PlaceKnows(t)'
    BY <1>0, <1>1, <2>0, <2>c DEF PlaceKnows, InSection, Completed, At
  <2>d. ASSUME ip'[t] = ip[t], pc'[t] \in InSection, t \notin waiting',
               At(t, {"main", "single"}), Released(t)
        PROVE  PlaceKnows(t)'
    BY <1>0, <1>1, <2>0, <2>d DEF PlaceKnows, InSection, Completed, At, Released
  <2>e. ASSUME ip'[t] = ip[t], pc'[t] \in Completed, Ended(t),
               pc'[t] = "complete_wait" => t = Main, pc'[t] = "done" => t \notin waiting'
        PROVE  PlaceKnows(t)'
    BY <1>0, <1>1, <2>0, <2>e DEF PlaceKnows, InSection, Completed, Ended
  <2> USE DEF Goto, Advance, countVars
  <2>1. CASE UnitMine(t)
    BY <1>0, <2>0, <2>1, <2>a DEF UnitMine, At
  <2>2. CASE UnitShared(t)
    BY <1>0, <2>0, <2>2, <2>b DEF UnitShared
  <2>3. CASE UnitClaim(t)
    <3>1. At(t, {"unit"})
      BY <2>0, <2>3 DEF UnitClaim, PlaceKnows
    <3> QED BY <1>0, <2>0, <2>3, <3>1, <2>a DEF UnitClaim, At
  <2>4. CASE SyncLast(t) \/ SyncOneThread(t)
    BY <1>0, <2>0, <2>4, <2>a DEF SyncLast, SyncOneThread, OpenBarrier, At
  <2>5. CASE SyncWait(t)
    BY <1>0, <2>5, <2>c DEF SyncWait, At
  <2>6. CASE ReadIndex(t)
    BY <1>0, <2>0, <2>6, <2>b DEF ReadIndex
  <2>7. CASE EnterRelease(t)
    <3>1. At(t, {"main", "single"})
      BY <2>0, <2>7 DEF EnterRelease, PlaceKnows
    <3> QED BY <1>0, <2>0, <2>7, <2>d, <3>1 DEF EnterRelease, InSection
  <2>8. CASE EnterWait(t)
    <3>1. At(t, {"main", "single"}) /\ index[t] = synchronizeIndex
      BY <2>0, <2>8 DEF EnterWait, PlaceKnows
    <3>2. Goto(t, "wait")
      BY <2>8, <3>1 DEF EnterWait
    <3> QED BY <1>0, <2>c, <3>1, <3>2 DEF At
  <2>9. CASE Mark(t)
    <3>1. At(t, {"main", "single"}) /\ Released(t) /\ t \notin waiting
      BY <2>0, <2>9 DEF Mark, PlaceKnows, InSection
    <3> QED BY <1>0, <2>9, <2>d, <3>1 DEF Mark, InSection
  <2>10. CASE ReleaseOneThread(t)
    <3>1. Released(t)
      BY <1>0, <2>10, TeamFacts DEF ReleaseOneThread, Released
    <3> QED BY <1>0, <2>0, <2>10, <2>d, <3>1 DEF ReleaseOneThread, InSection
  <2>11. CASE AloneUnit(t)
    <3>1. At(t, {"main", "single"}) /\ Released(t) /\ t \notin waiting
      BY <2>0, <2>11 DEF AloneUnit, PlaceKnows, InSection
    <3> QED BY <1>0, <2>11, <2>d, <3>1 DEF AloneUnit, InSection
  <2>12. CASE Unmark(t)
    <3>1. At(t, {"main", "single"}) /\ Released(t) /\ t \notin waiting
      BY <2>0, <2>12 DEF Unmark, PlaceKnows, InSection
    <3>2. CASE totalThreadCount = 1
      BY <1>0, <2>12, <2>a, <3>1, <3>2 DEF Unmark, At
    <3>3. CASE totalThreadCount # 1
      BY <1>0, <2>12, <2>d, <3>1, <3>3 DEF Unmark, InSection
    <3> QED BY <3>2, <3>3
  <2>13. CASE Release(t)
    <3>1. At(t, {"main", "single"})
      BY <2>0, <2>13 DEF Release, PlaceKnows, InSection
    <3> QED BY <1>0, <2>13, <2>a, <3>1 DEF Release, OpenBarrier, At
  <2>14. CASE WakePass(t)
    <3>1. At(t, {"sync", "main", "single"})
      BY <2>0, <2>14 DEF WakePass, PlaceKnows
    <3> QED BY <1>0, <2>14, <2>a, <3>1 DEF WakePass, At
  <2>15. CASE WakeRelease(t)
    BY <1>0, <2>15, <2>d DEF WakeRelease, MainMayGo, InSection, Released, At
  <2>16. CASE WakeAgain(t)
    <3>1. At(t, {"sync", "main", "single"})
      BY <2>0, <2>16 DEF WakeAgain, PlaceKnows
    <3> QED BY <1>0, <2>16, <2>c, <3>1 DEF WakeAgain
  <2>17. CASE CompleteOneThread(t)
    BY <1>0, <2>0, <2>17, <2>e DEF CompleteOneThread, Completed
  <2>18. CASE Complete(t)
    BY <1>0, <2>0, <2>18, <2>e DEF Complete, Completed
  <2>19. CASE CompleteWake(t)
    <3>1. Ended(t) /\ t = Main
      BY <2>0, <2>19 DEF CompleteWake, PlaceKnows, Completed
    <3> QED BY <1>0, <2>19, <2>e, <3>1 DEF CompleteWake, Completed
  <2> QED BY <2>1, <2>2, <2>3, <2>4, <2>5, <2>6, <2>7, <2>8, <2>9, <2>10, <2>11, <2>12,
             <2>13, <2>14, <2>15, <2>16, <2>17, <2>18, <2>19 DEF Step, HandleNextWorkUnit
<1> QED BY <1>3, <1>4 DEF PlaceInv

---------------------------------------------------------------------------
(* A team of one never comes to the mutex, and its thread is the main one. *)
LEMMA SingleStep ==
    ASSUME TaskInv, NEW t \in team, Step(t), totalThreadCount = 1
    PROVE  /\ team = {Main} /\ t = Main
           /\ pc[t] \in {"run", "alone", "unmark"}
           /\ pc'[t] \in {"run", "alone", "unmark", "done"}
           /\ synchronizeCount' = synchronizeCount
           /\ threadCount' = IF pc'[t] = "done" THEN threadCount - 1 ELSE threadCount
<1>0. TypeOK /\ team = {Main} /\ t = Main /\ pc[t] \in {"run", "alone", "unmark", "done"}
      /\ pc \in [Thread -> Place] /\ t \in Thread
  BY TeamFacts DEF TaskInv, OneThreadInv, TypeOK
<1> USE DEF Goto, Advance, countVars
<1>1. CASE UnitMine(t)
  BY <1>0, <1>1 DEF UnitMine
<1>2. CASE UnitShared(t)
  BY <1>2 DEF UnitShared, UnitTest
<1>3. CASE UnitClaim(t) \/ EnterRelease(t) \/ EnterWait(t) \/ Mark(t) \/ Release(t)
  BY <1>0, <1>3 DEF UnitClaim, EnterRelease, EnterWait, Mark, Release
<1>4. CASE WakePass(t) \/ WakeRelease(t) \/ WakeAgain(t) \/ CompleteWake(t)
  BY <1>0, <1>4 DEF WakePass, WakeRelease, WakeAgain, CompleteWake
<1>5. CASE SyncLast(t) \/ SyncWait(t) \/ ReadIndex(t) \/ Complete(t)
  BY <1>5 DEF SyncLast, SyncWait, ReadIndex, Complete
<1>6. CASE SyncOneThread(t) \/ ReleaseOneThread(t) \/ CompleteOneThread(t)
  BY <1>0, <1>6 DEF SyncOneThread, ReleaseOneThread, CompleteOneThread
<1>7. CASE AloneUnit(t)
  BY <1>0, <1>7 DEF AloneUnit
<1>8. CASE Unmark(t)
  BY <1>0, <1>8 DEF Unmark
<1> QED BY <1>1, <1>2, <1>3, <1>4, <1>5, <1>6, <1>7, <1>8 DEF Step, HandleNextWorkUnit

(* The main thread is through only when all are. *)
LEMMA MainLast ==
    ASSUME TaskInv, NEW t \in team, Step(t), totalThreadCount > 1, pc'[Main] = "done"
    PROVE  threadCount' = 0
<1>0. /\ TypeOK /\ PlaceInv /\ CountInv /\ Main \in team /\ Main \in Thread
      /\ t \in Thread /\ pc \in [Thread -> Place]
  BY DEF TaskInv, TypeOK
<1>1. CASE pc[Main] = "done"
  <2>1. Remaining = {}
    BY <1>0, <1>1, PartOfTeam DEF CountInv, Remaining
  <2>2. pc[t] \in Completed
    BY <2>1 DEF Remaining
  <2>3. pc[t] = "done"
    BY <1>0, <1>1, <2>2 DEF PlaceInv, PlaceKnows, Completed
  <2> QED BY <2>3 DEF Step, HandleNextWorkUnit, UnitMine, UnitShared, UnitClaim, SyncLast,
          SyncWait, SyncOneThread, ReadIndex, EnterRelease, EnterWait, Mark,
          ReleaseOneThread, AloneUnit, Unmark, Release, WakePass, WakeRelease,
          WakeAgain, CompleteOneThread, Complete, CompleteWake
<1>2. CASE pc[Main] # "done"
  <2>0. t = Main /\ pc[t] # "done" /\ pc'[t] = "done"
    BY <1>0, <1>2, Frame
  <2> USE DEF Goto, Advance
  <2>1. CASE UnitMine(t) \/ UnitShared(t) \/ UnitClaim(t)
    BY <1>0, <2>0, <2>1 DEF UnitMine, UnitShared, UnitClaim
  <2>2. CASE SyncLast(t) \/ SyncWait(t) \/ SyncOneThread(t) \/ ReadIndex(t)
    BY <1>0, <2>0, <2>2 DEF SyncLast, SyncWait, SyncOneThread, ReadIndex
  <2>3. CASE EnterRelease(t) \/ EnterWait(t) \/ Mark(t) \/ ReleaseOneThread(t)
    BY <1>0, <2>0, <2>3 DEF EnterRelease, EnterWait, Mark, ReleaseOneThread
  <2>4. CASE AloneUnit(t) \/ Unmark(t) \/ Release(t)
    BY <1>0, <2>0, <2>4 DEF AloneUnit, Unmark, Release
  <2>5. CASE WakePass(t) \/ WakeRelease(t) \/ WakeAgain(t)
    BY <1>0, <2>0, <2>5 DEF WakePass, WakeRelease, WakeAgain
  <2>6. CASE CompleteOneThread(t)
    BY <2>6 DEF CompleteOneThread
  <2>7. CASE Complete(t)
    BY <1>0, <2>0, <2>7 DEF Complete
  <2>8. CASE CompleteWake(t)
    BY <1>0, <2>0, <2>8 DEF CompleteWake
  <2> QED BY <2>1, <2>2, <2>3, <2>4, <2>5, <2>6, <2>7, <2>8 DEF Step, HandleNextWorkUnit
<1> QED BY <1>1, <1>2

HeldHere(u) == pc[u] = "wait" /\ index[u] = synchronizeIndex

AloneInSection ==
    \A t \in team : pc[t] \in InSection => \A u \in team \ {t} : HeldHere(u)

(* A released thread is alone: the others stay held at its point. *)
LEMMA SectionStep ==
    ASSUME TaskInv, NEW t \in team, Step(t)
    PROVE  AloneInSection'
<1>0. TypeOK /\ PlaceInv /\ AloneInSection /\ t \in Thread /\ pc \in [Thread -> Place]
  BY DEF TaskInv, TypeOK, SectionInv, AloneInSection, HeldHere
<1>1. /\ script' = script /\ team' = team /\ team \subseteq Thread
      /\ \A u \in team \ {t} : pc'[u] = pc[u] /\ index'[u] = index[u]
  BY <1>0, Frame DEF TypeOK
<1>a. ASSUME ~HeldHere(t), pc[t] \notin InSection, pc'[t] \notin InSection
      PROVE  AloneInSection'
  BY <1>0, <1>1, <1>a DEF AloneInSection
<1>b. ASSUME \A u \in team \ {t} : HeldHere(u), synchronizeIndex' = synchronizeIndex
      PROVE  AloneInSection'
  BY <1>1, <1>b DEF AloneInSection, HeldHere, InSection
<1> USE DEF Goto, Advance, InSection, HeldHere, countVars
<1>2. CASE UnitMine(t) \/ UnitShared(t) \/ UnitClaim(t)
  BY <1>0, <1>2, <1>a DEF UnitMine, UnitShared, UnitClaim
<1>3. CASE SyncLast(t) \/ SyncWait(t) \/ SyncOneThread(t) \/ ReadIndex(t)
  BY <1>0, <1>3, <1>a DEF SyncLast, SyncWait, SyncOneThread, ReadIndex
<1>4. CASE EnterRelease(t)
  <2>1. CASE totalThreadCount > 1
    <3>1. At(t, {"sync", "main", "single"}) /\ pc[t] = "enter"
          /\ synchronizeCount + 1 = threadCount
      BY <1>0, <1>4 DEF EnterRelease, PlaceInv, PlaceKnows, At
    <3>2. \A u \in team \ {t} : HeldHere(u)
      BY <2>1, <3>1, AllHeld
    <3> QED BY <1>4, <1>b, <3>2 DEF EnterRelease
  <2>2. CASE totalThreadCount = 1
    BY <1>4, <2>2, SingleStep DEF EnterRelease
  <2> QED BY <1>0, <2>1, <2>2, TeamFacts
<1>5. CASE EnterWait(t)
  BY <1>0, <1>5, <1>a DEF EnterWait
<1>6. CASE Mark(t) \/ AloneUnit(t)
  <2>1. \A u \in team \ {t} : HeldHere(u)
    BY <1>0, <1>6 DEF AloneInSection, Mark, AloneUnit
  <2> QED BY <1>6, <1>b, <2>1 DEF Mark, AloneUnit
<1>7. CASE ReleaseOneThread(t)
  <2>1. team = {t}
    BY <1>7, SingleStep DEF ReleaseOneThread
  <2> QED BY <1>1, <2>1 DEF AloneInSection
<1>8. CASE Unmark(t)
  <2>1. \A u \in team \ {t} : HeldHere(u)
    BY <1>0, <1>8 DEF AloneInSection, Unmark
  <2> QED BY <1>8, <1>b, <2>1 DEF Unmark
<1>9. CASE Release(t)
  <2>1. \A u \in team \ {t} : HeldHere(u)
    BY <1>0, <1>9 DEF AloneInSection, Release
  <2>2. \A u \in team : pc'[u] \notin InSection
    BY <1>0, <1>1, <1>9, <2>1 DEF Release
  <2> QED BY <1>1, <2>2 DEF AloneInSection
<1>10. CASE WakePass(t)
  BY <1>0, <1>10, <1>a DEF WakePass
<1>11. CASE WakeRelease(t)
  <2>1. CASE totalThreadCount > 1
    <3>1. \A u \in team \ {t} : HeldHere(u)
      BY <1>11, <2>1, MainAlone
    <3> QED BY <1>11, <1>b, <3>1 DEF WakeRelease
  <2>2. CASE totalThreadCount = 1
    BY <1>11, <2>2, SingleStep DEF WakeRelease
  <2> QED BY <1>0, <2>1, <2>2, TeamFacts
<1>12. CASE WakeAgain(t)
  BY <1>0, <1>1, <1>12 DEF WakeAgain, AloneInSection
<1>13. CASE CompleteOneThread(t) \/ Complete(t) \/ CompleteWake(t)
  BY <1>0, <1>13, <1>a DEF CompleteOneThread, Complete, CompleteWake
<1> QED BY <1>2, <1>3, <1>4, <1>5, <1>6, <1>7, <1>8, <1>9, <1>10, <1>11, <1>12, <1>13
        DEF Step, HandleNextWorkUnit

(* _synchronized says that a released thread is in its section. *)
LEMMA FlagStep ==
    ASSUME TaskInv, NEW t \in team, Step(t)
    PROVE  (synchronized <=> \E u \in team : pc[u] \in {"alone", "unmark"})'
<1> DEFINE Flagged(u) == pc[u] \in {"alone", "unmark"}
<1>0. (synchronized <=> \E u \in team : Flagged(u)) /\ t \in Thread /\ pc \in [Thread -> Place]
  BY Zenon DEF TaskInv, SectionInv, TypeOK
<1>1. team' = team /\ \A u \in team \ {t} : pc'[u] = pc[u]
  BY Frame DEF TaskInv, TypeOK
<1>2. \A u \in team \ {t} : Flagged(u)' <=> Flagged(u)
  BY <1>1
<1>a. ASSUME synchronized' = synchronized, Flagged(t)' <=> Flagged(t)
      PROVE  synchronized' <=> \E u \in team' : Flagged(u)'
  <2> HIDE DEF Flagged
  <2> QED BY <1>0, <1>1, <1>2, <1>a, Zenon
<1>3. CASE Mark(t) \/ ReleaseOneThread(t)
  <2>1. pc'[t] = "alone"
    BY <1>0, <1>3 DEF Mark, ReleaseOneThread, Goto
  <2>2. synchronized' = TRUE
    BY <1>3, Zenon DEF Mark, ReleaseOneThread
  <2>3. \E u \in team' : pc'[u] \in {"alone", "unmark"}
    BY <1>1, <2>1
  <2> QED BY <2>2, <2>3, Zenon
<1>4. CASE Unmark(t)
  <2>1. pc[t] = "unmark" /\ pc'[t] \in {"run", "release"}
    BY <1>0, <1>4 DEF Unmark, Goto, Advance
  <2>2. synchronized' = FALSE
    BY <1>4, Zenon DEF Unmark
  <2>3. \A u \in team \ {t} : pc[u] = "wait"
    BY <2>1 DEF TaskInv, SectionInv, InSection
  <2>4. ~\E u \in team' : pc'[u] \in {"alone", "unmark"}
    BY <1>1, <2>1, <2>3
  <2> QED BY <2>2, <2>4, Zenon
<1>5. CASE ~(Mark(t) \/ ReleaseOneThread(t) \/ Unmark(t))
  <2>1. synchronized' = synchronized
    BY <1>5, Zenon DEF Step, HandleNextWorkUnit, UnitMine, UnitShared, UnitClaim, SyncLast,
       SyncWait, SyncOneThread, ReadIndex, EnterRelease, EnterWait, AloneUnit, Release,
       WakePass, WakeRelease, WakeAgain, CompleteOneThread, Complete, CompleteWake
  <2>2. Flagged(t)' <=> Flagged(t)
    <3> USE DEF Goto, Advance
    <3>1. CASE UnitMine(t) \/ UnitShared(t) \/ UnitClaim(t)
      BY <1>0, <3>1 DEF UnitMine, UnitShared, UnitClaim
    <3>2. CASE SyncLast(t) \/ SyncWait(t) \/ SyncOneThread(t) \/ ReadIndex(t)
      BY <1>0, <3>2 DEF SyncLast, SyncWait, SyncOneThread, ReadIndex
    <3>3. CASE EnterRelease(t) \/ EnterWait(t)
      BY <1>0, <3>3 DEF EnterRelease, EnterWait
    <3>4. CASE AloneUnit(t) \/ Release(t)
      BY <1>0, <3>4 DEF AloneUnit, Release
    <3>5. CASE WakePass(t) \/ WakeRelease(t) \/ WakeAgain(t)
      BY <1>0, <3>5 DEF WakePass, WakeRelease, WakeAgain
    <3>6. CASE CompleteOneThread(t) \/ Complete(t) \/ CompleteWake(t)
      BY <1>0, <3>6 DEF CompleteOneThread, Complete, CompleteWake
    <3> HIDE DEF Flagged
    <3> QED BY <1>5, <3>1, <3>2, <3>3, <3>4, <3>5, <3>6 DEF Step, HandleNextWorkUnit
  <2> QED BY <1>a, <2>1, <2>2
<1> QED BY <1>3, <1>4, <1>5
=============================================================================
