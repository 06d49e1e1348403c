------------------------- MODULE ParallelTaskSteps --------------------------
(***************************************************************************)
(* What a step of a parallel task does, as the barrier sees it: who is     *)
(* counted at a synchronisation point, and who finds whom held there.      *)
(* ParallelTaskProofs uses these facts.                                    *)
(***************************************************************************)
EXTENDS ParallelTask, FiniteSetTheorems, TLAPS

CountedThreads == {t \in team : Counted(t)}
Remaining == {t \in team : pc[t] \notin Completed}

(* The team is finite and has a main thread, which may be alone. *)
LEMMA TeamFacts ==
    ASSUME TypeOK
    PROVE  /\ IsFiniteSet(team)
           /\ totalThreadCount \in Nat /\ totalThreadCount >= 1
           /\ totalThreadCount = 1 => team = {Main}
<1>1. IsFiniteSet(team)
  BY TaskAssumption, FS_Subset DEF TypeOK
<1>2. totalThreadCount \in Nat
  BY <1>1, FS_CardinalityType DEF totalThreadCount
<1>3. totalThreadCount # 0
  BY <1>1, FS_EmptySet DEF totalThreadCount, TypeOK
<1>4. totalThreadCount = 1 => team = {Main}
  BY <1>1, FS_Singleton DEF totalThreadCount, TypeOK
<1> QED BY <1>1, <1>2, <1>3, <1>4

(* A script is a sequence of operations. *)
LEMMA ScriptFacts ==
    ASSUME TypeOK
    PROVE  /\ Len(script) \in Nat
           /\ DOMAIN script = 1 .. Len(script)
           /\ \A j \in DOMAIN script : script[j] \in Op
BY TaskAssumption DEF TypeOK

(* The threads at some places are finitely many. *)
LEMMA PartOfTeam ==
    ASSUME TypeOK, NEW S \in SUBSET team
    PROVE  /\ IsFiniteSet(S)
           /\ Cardinality(S) \in Nat
           /\ Cardinality(S) <= totalThreadCount
           /\ Cardinality(S) = totalThreadCount => S = team
           /\ Cardinality(S) = 0 => S = {}
BY TeamFacts, FS_Subset, FS_CardinalityType, FS_EmptySet DEF totalThreadCount

AtPoint(t) == At(t, {"sync", "main", "single"}) \/ Ended(t)

(***************************************************************************)
(* Two threads of which one is at a synchronisation point, or at the end,  *)
(* and has not been let go, and the other is held, are at the same point.  *)
(***************************************************************************)
LEMMA SamePoint ==
    ASSUME TypeOK, SegmentInv, PlaceInv,
           NEW t \in team, NEW u \in team, AtPoint(t), ~Lagging(t), Counted(u)
    PROVE  ip[u] = ip[t]
<1>1. Reach(t) = ip[t] /\ Reach(u) = ip[u]
  BY DEF Reach, Lagging, Counted, InSection, Completed
<1>2. AtPoint(u)
  BY DEF AtPoint, Counted, PlaceInv, PlaceKnows, TypeOK, At
<1>3. ip[t] \in Nat /\ ip[u] \in Nat /\ ip[t] <= Len(script) + 1 /\ ip[u] <= Len(script) + 1
  BY DEF TypeOK, PlaceInv, PlaceKnows
<1>4. \A j \in DOMAIN script : ip[t] <= j /\ j < ip[u] => script[j] = "unit"
  BY <1>1 DEF SegmentInv
<1>5. \A j \in DOMAIN script : ip[u] <= j /\ j < ip[t] => script[j] = "unit"
  BY <1>1 DEF SegmentInv
<1>6. ~(ip[t] < ip[u])
  BY <1>3, <1>4, ScriptFacts DEF AtPoint, At, Ended
<1>7. ~(ip[u] < ip[t])
  BY <1>2, <1>3, <1>5, ScriptFacts DEF AtPoint, At, Ended
<1> QED BY <1>3, <1>6, <1>7

(* A step of t leaves the task's program and the other threads alone. *)
LEMMA Frame ==
    ASSUME TypeOK, NEW t \in team, Step(t)
    PROVE  /\ script' = script /\ team' = team
           /\ \A u \in Thread \ {t} :
                  /\ pc'[u] = pc[u] /\ ip'[u] = ip[u] /\ index'[u] = index[u]
                  /\ workUnit'[u] = workUnit[u] /\ toHandle'[u] = toHandle[u]
<1> USE DEF TypeOK, Goto, Advance, envVars
<1>1. CASE UnitMine(t)
  BY <1>1 DEF UnitMine
<1>2. CASE UnitShared(t)
  BY <1>2 DEF UnitShared
<1>3. CASE UnitClaim(t)
  BY <1>3 DEF UnitClaim, NextUnit
<1>4. CASE SyncLast(t) \/ SyncWait(t) \/ SyncOneThread(t)
  BY <1>4 DEF SyncLast, SyncWait, SyncOneThread
<1>5. CASE ReadIndex(t) \/ EnterRelease(t)
  BY <1>5 DEF ReadIndex, EnterRelease
<1>6. CASE EnterWait(t)
  BY <1>6 DEF EnterWait
<1>7. CASE Mark(t) \/ ReleaseOneThread(t)
  BY <1>7 DEF Mark, ReleaseOneThread
<1>8. CASE AloneUnit(t)
  BY <1>8 DEF AloneUnit, NextUnit
<1>9. CASE Unmark(t) \/ Release(t)
  BY <1>9 DEF Unmark, Release
<1>10. CASE WakePass(t) \/ WakeRelease(t) \/ WakeAgain(t)
  BY <1>10 DEF WakePass, WakeRelease, WakeAgain
<1>11. CASE CompleteOneThread(t) \/ Complete(t) \/ CompleteWake(t)
  BY <1>11 DEF CompleteOneThread, Complete, CompleteWake
<1> QED BY <1>1, <1>2, <1>3, <1>4, <1>5, <1>6, <1>7, <1>8, <1>9, <1>10, <1>11
        DEF Step, HandleNextWorkUnit

(* While t is in the section that a release guards, the others are held,   *)
(* so a thread that is not held here shows that nobody is in one.          *)
LEMMA NobodyAlone ==
    ASSUME TaskInv, NEW t \in team,
           ~(pc[t] = "wait" /\ index[t] = synchronizeIndex), pc[t] \notin InSection
    PROVE  /\ \A u \in team : pc[u] \notin InSection
           /\ ~synchronized
<1>1. \A u \in team : pc[u] \notin InSection
  BY DEF TaskInv, SectionInv
<1>2. \A u \in team : pc[u] \notin {"alone", "unmark"}
  BY <1>1 DEF InSection
<1>3. ~synchronized
  BY <1>2, Zenon DEF TaskInv, SectionInv
<1> QED BY <1>1, <1>3, Zenon

(* A thread that is told to handle a unit unasked is the only one. *)
LEMMA UnitMineSingle ==
    ASSUME TaskInv, NEW t \in team, UnitMine(t)
    PROVE  totalThreadCount = 1
<1>1. pc[t] = "run" /\ UnitTest(t)
  BY Zenon DEF UnitMine
<1>2. pc[t] # "wait" /\ pc[t] \notin InSection
  BY <1>1 DEF InSection
<1>3. ~synchronized
  BY <1>2, NobodyAlone, Zenon
<1> QED BY <1>1, <1>3, Zenon DEF UnitTest

(* A unit in the guarded section falls to the thread that is there. *)
LEMMA AloneUnitMine ==
    ASSUME TaskInv, NEW t \in team, AloneUnit(t)
    PROVE  workUnit' = workUnit /\ toHandle' = toHandle /\ workUnitIndex' = workUnitIndex
<1>1. pc[t] = "alone"
  BY Zenon DEF AloneUnit
<1>2. synchronized
  BY <1>1, Zenon DEF TaskInv, SectionInv
<1>3. UnitTest(t)
  BY <1>2, Zenon DEF UnitTest
<1>4. UNCHANGED <<envVars, workUnitIndex>>
  BY <1>3, Zenon DEF AloneUnit
<1> QED BY <1>4 DEF envVars

(***************************************************************************)
(* The last thread to arrive at a point finds all the others held there.   *)
(***************************************************************************)
LEMMA AllHeld ==
    ASSUME TaskInv, NEW t \in team, pc[t] \in {"run", "enter"},
           At(t, {"sync", "main", "single"}), totalThreadCount > 1,
           synchronizeCount + 1 = threadCount
    PROVE  \A u \in team \ {t} :
               pc[u] = "wait" /\ index[u] = synchronizeIndex /\ ip[u] = ip[t]
<1>1. TypeOK /\ SegmentInv /\ PlaceInv /\ CountInv
  BY DEF TaskInv
<1>2. AtPoint(t) /\ ~Lagging(t) /\ ~Counted(t)
  BY DEF AtPoint, Lagging, Counted, InSection, Completed
<1>3. \A u \in team : Counted(u) => ip[u] = ip[t]
  BY <1>1, <1>2, SamePoint, Zenon
<1>4. ip[t] # Len(script) + 1
  BY <1>1, ScriptFacts DEF At
<1>5. \A u \in team : pc[u] \notin Completed
  BY <1>1, <1>3, <1>4 DEF PlaceInv, PlaceKnows, Counted, Ended, TypeOK
<1>6. Remaining = team /\ threadCount = totalThreadCount
  <2>1. Remaining = team
    BY <1>5 DEF Remaining
  <2> QED BY <1>1, <2>1 DEF CountInv, Remaining, totalThreadCount
<1>7. CountedThreads \subseteq team \ {t} /\ Cardinality(CountedThreads) = synchronizeCount
  BY <1>1, <1>2 DEF CountedThreads, CountInv
<1>8. IsFiniteSet(team \ {t}) /\ Cardinality(team \ {t}) = totalThreadCount - 1
  BY <1>1, TeamFacts, FS_RemoveElement DEF totalThreadCount
<1>9. Cardinality(CountedThreads) = Cardinality(team \ {t})
  BY <1>1, <1>6, <1>7, <1>8, TeamFacts DEF TypeOK
<1>10. CountedThreads = team \ {t}
  BY <1>7, <1>8, <1>9, FS_Subset, Zenon
<1>11. \A u \in team : pc[u] \notin InSection
  BY NobodyAlone, Zenon DEF InSection
<1> QED BY <1>3, <1>5, <1>10, <1>11 DEF CountedThreads, Counted

(* The main thread goes on only when all the others are held at its point. *)
LEMMA MainAlone ==
    ASSUME TaskInv, NEW t \in team, totalThreadCount > 1, WakeRelease(t)
    PROVE  \A u \in team \ {t} :
               pc[u] = "wait" /\ index[u] = synchronizeIndex /\ ip[u] = ip[t]
<1>0. /\ pc[t] = "wait" /\ index[t] = synchronizeIndex
      /\ At(t, {"main"}) /\ t = Main /\ synchronizeCount = threadCount
  BY DEF WakeRelease, MainMayGo
<1>1. TypeOK /\ PlaceInv /\ CountInv /\ PointInv
  BY DEF TaskInv
<1>2. Counted(t)
  BY <1>0 DEF Counted
<1>3. \A u \in team : Counted(u) => ip[u] = ip[t]
  BY <1>1, <1>2 DEF PointInv
<1>4. ip[t] # Len(script) + 1
  BY <1>0, <1>1, ScriptFacts DEF At
<1>5. \A u \in team : pc[u] \notin Completed
  BY <1>1, <1>3, <1>4 DEF PlaceInv, PlaceKnows, Counted, Ended, TypeOK
<1>6. Remaining = team /\ threadCount = totalThreadCount
  <2>1. Remaining = team
    BY <1>5 DEF Remaining
  <2> QED BY <1>1, <2>1 DEF CountInv, Remaining, totalThreadCount
<1>7. CountedThreads \subseteq team /\ Cardinality(CountedThreads) = totalThreadCount
  BY <1>0, <1>1, <1>6 DEF CountedThreads, CountInv
<1>8. CountedThreads = team
  BY <1>1, <1>7, PartOfTeam
<1>9. ASSUME NEW u \in team \ {t} PROVE pc[u] \notin InSection
  <2>1. Counted(u) /\ ip[u] = ip[t]
    BY <1>3, <1>8 DEF CountedThreads
  <2> QED BY <1>0, <1>1, <2>1 DEF PlaceInv, PlaceKnows, TypeOK, Released, At
<1> QED BY <1>3, <1>5, <1>8, <1>9 DEF CountedThreads, Counted

---------------------------------------------------------------------------
(* In a team of several threads a step is one of four kinds. *)

SameCounts == /\ synchronizeIndex' = synchronizeIndex
              /\ synchronizeCount' = synchronizeCount
              /\ threadCount' = threadCount
              /\ syncPointUniqueId' = syncPointUniqueId
              /\ syncPointWorkUnitIndex' = syncPointWorkUnitIndex

(* t is on its way between two points. *)
Travels(t) ==
    /\ SameCounts
    /\ ~Counted(t) /\ ~Counted(t)' /\ ~Lagging(t)'
    /\ \/ Reach(t)' = Reach(t) /\ ip'[t] >= ip[t]
       \/ At(t, {"unit"}) /\ Reach(t) = ip[t] /\ ip'[t] = ip[t] + 1

(* t is held at a point, alone there, or through, and stays so. *)
Stays(t) ==
    /\ SameCounts
    /\ Counted(t) /\ Counted(t)'
    /\ ip'[t] = ip[t] /\ workUnit'[t] = workUnit[t]
    /\ pc[t] \in Completed <=> pc'[t] \in Completed

(* t arrives at a point, or at the end. *)
Arrives(t) ==
    /\ AtPoint(t) /\ ~Lagging(t) /\ ~Counted(t) /\ Counted(t)'
    /\ ip'[t] = ip[t] /\ workUnit'[t] = workUnit[t]
    /\ SignPoint(t)
    /\ synchronizeIndex' = synchronizeIndex
    /\ synchronizeCount' = synchronizeCount + 1
    /\ IF pc'[t] \in Completed THEN threadCount' = threadCount - 1
                               ELSE threadCount' = threadCount

(* t lets everybody go. *)
Opens(t) ==
    /\ \A u \in team \ {t} :
           pc[u] = "wait" /\ index[u] = synchronizeIndex /\ ip[u] = ip[t]
    /\ ~Lagging(t) /\ pc[t] \notin Completed
    /\ pc'[t] = "run" /\ ip'[t] = ip[t] + 1
    /\ synchronizeIndex' = synchronizeIndex + 1
    /\ synchronizeCount' = 0
    /\ threadCount' = threadCount

(* There is no other kind of step. *)
LEMMA Kinds ==
    ASSUME TaskInv, NEW t \in team, Step(t), totalThreadCount > 1
    PROVE  Travels(t) \/ Stays(t) \/ Arrives(t) \/ Opens(t)
<1> USE DEF Counted, Lagging, InSection, Completed
<1>0. TypeOK /\ PlaceInv /\ CountInv /\ PointInv /\ SectionInv
  BY DEF TaskInv
<1>T. pc \in [Thread -> Place] /\ ip \in [Thread -> Nat \ {0}] /\ t \in Thread
      /\ index \in [Thread -> Nat] /\ workUnit \in [Thread -> Nat]
      /\ synchronizeIndex \in Nat
  BY <1>0 DEF TypeOK
<1>1. CASE UnitMine(t)
  BY <1>0, <1>1, UnitMineSingle, TeamFacts
<1>2. CASE UnitShared(t)
  BY <1>T, <1>2 DEF UnitShared, Goto, Travels, SameCounts, Reach, countVars, pointVars
<1>3. CASE UnitClaim(t)
  BY <1>0, <1>T, <1>3 DEF PlaceInv, PlaceKnows, UnitClaim, Advance, Travels, SameCounts, Reach,
     countVars, pointVars
<1>4. CASE SyncLast(t)
  <2>1. pc[t] = "run" /\ At(t, {"sync", "main", "single"}) /\ synchronizeCount + 1 = threadCount
    BY <1>4 DEF SyncLast, At
  <2>2. \A u \in team \ {t} :
           pc[u] = "wait" /\ index[u] = synchronizeIndex /\ ip[u] = ip[t]
    BY <2>1, AllHeld
  <2> QED BY <1>T, <1>4, <2>1, <2>2 DEF SyncLast, Advance, OpenBarrier, Opens
<1>5. CASE SyncWait(t)
  <2>1. AtPoint(t)
    BY <1>5 DEF SyncWait, AtPoint, At
  <2> QED BY <1>T, <1>5, <2>1 DEF SyncWait, Goto, envVars, Arrives
<1>6. CASE ReadIndex(t)
  BY <1>T, <1>6 DEF ReadIndex, Goto, Travels, SameCounts, Reach, countVars, pointVars
<1>7. CASE EnterRelease(t)
  <2>1. AtPoint(t)
    BY <1>0, <1>T, <1>7 DEF EnterRelease, AtPoint, At, PlaceInv, PlaceKnows
  <2> QED BY <1>T, <1>7, <2>1 DEF EnterRelease, Goto, envVars, Arrives
<1>8. CASE EnterWait(t)
  <2>1. AtPoint(t) /\ index[t] = synchronizeIndex
    BY <1>0, <1>T, <1>8 DEF EnterWait, AtPoint, At, PlaceInv, PlaceKnows
  <2>2. Goto(t, "wait")
    BY <1>8, <2>1 DEF EnterWait
  <2> QED BY <1>T, <1>8, <2>1, <2>2 DEF EnterWait, Goto, envVars, Arrives
<1>9. CASE Mark(t)
  BY <1>T, <1>9 DEF Mark, Goto, envVars, Stays, SameCounts, countVars, pointVars
<1>10. CASE AloneUnit(t)
  <2>1. workUnit' = workUnit
    BY <1>10, AloneUnitMine
  <2> QED BY <1>T, <1>10, <2>1 DEF AloneUnit, Goto, Stays, SameCounts, countVars, pointVars
<1>11. CASE Unmark(t)
  BY <1>T, <1>11 DEF Unmark, Goto, envVars, Stays, SameCounts, countVars, pointVars
<1>12. CASE Release(t)
  <2>1. pc[t] \in InSection /\ Counted(t)
    BY <1>12 DEF Release
  <2>2. \A u \in team \ {t} : pc[u] = "wait" /\ index[u] = synchronizeIndex
    BY <1>0, <2>1 DEF SectionInv
  <2>3. \A u \in team \ {t} : ip[u] = ip[t]
    BY <1>0, <2>1, <2>2 DEF PointInv
  <2> QED BY <1>T, <1>12, <2>2, <2>3 DEF Release, Advance, OpenBarrier, Opens
<1>13. CASE WakePass(t)
  BY <1>T, <1>13 DEF WakePass, Advance, Travels, SameCounts, Reach, countVars, pointVars
<1>14. CASE WakeRelease(t)
  BY <1>T, <1>14 DEF WakeRelease, Goto, envVars, Stays, SameCounts, countVars, pointVars
<1>15. CASE WakeAgain(t)
  BY <1>T, <1>15 DEF WakeAgain, envVars, Stays, SameCounts, pointVars
<1>16. CASE Complete(t)
  <2>1. AtPoint(t)
    BY <1>16 DEF Complete, AtPoint
  <2> QED BY <1>T, <1>16, <2>1 DEF Complete, Goto, envVars, Arrives
<1>17. CASE CompleteWake(t)
  BY <1>T, <1>17 DEF CompleteWake, Goto, envVars, Stays, SameCounts, pointVars
<1>18. CASE SyncOneThread(t) \/ ReleaseOneThread(t) \/ CompleteOneThread(t)
  BY <1>0, <1>18, TeamFacts DEF SyncOneThread, ReleaseOneThread, CompleteOneThread
<1> QED BY <1>1, <1>2, <1>3, <1>4, <1>5, <1>6, <1>7, <1>8, <1>9, <1>10, <1>11, <1>12,
           <1>13, <1>14, <1>15, <1>16, <1>17, <1>18 DEF Step, HandleNextWorkUnit

---------------------------------------------------------------------------
(* What the kinds of step keep. *)

(* The frame of a step, without its action. *)
OthersStay(t) ==
    /\ script' = script /\ team' = team
    /\ \A u \in team \ {t} :
           /\ pc'[u] = pc[u] /\ ip'[u] = ip[u] /\ index'[u] = index[u]
           /\ workUnit'[u] = workUnit[u]

(* No synchronisation point comes to lie between two threads. *)
LEMMA SegmentStep ==
    ASSUME TaskInv, NEW t \in team, OthersStay(t),
           Travels(t) \/ Stays(t) \/ Arrives(t) \/ Opens(t)
    PROVE  SegmentInv'
<1>0. /\ TypeOK /\ SegmentInv /\ script' = script /\ team' = team
      /\ \A u \in team : ip[u] \in Nat
  BY DEF TaskInv, OthersStay, TypeOK
<1>1. ASSUME \A u \in team : Reach(u)' = Reach(u) PROVE SegmentInv'
  BY <1>0, <1>1 DEF SegmentInv
<1>2. ASSUME synchronizeIndex' = synchronizeIndex
      PROVE  \A u \in team \ {t} : Reach(u)' = Reach(u)
  BY <1>2 DEF OthersStay, Reach, Lagging
<1>3. CASE Stays(t) \/ Arrives(t)
  <2>1. ~Lagging(t) /\ ~Lagging(t)' /\ ip'[t] = ip[t] /\ synchronizeIndex' = synchronizeIndex
    BY <1>3 DEF Stays, Arrives, SameCounts, Lagging, Counted, InSection, Completed
  <2> QED BY <1>1, <1>2, <2>1 DEF Reach
<1>4. CASE Travels(t)
  <2>0. synchronizeIndex' = synchronizeIndex
    BY <1>4 DEF Travels, SameCounts
  <2>1. CASE Reach(t)' = Reach(t)
    BY <1>1, <1>2, <2>0, <2>1
  <2>2. CASE At(t, {"unit"}) /\ Reach(t) = ip[t] /\ ip'[t] = ip[t] + 1
    <3>1. Reach(t)' = ip[t] + 1 /\ script[ip[t]] = "unit"
      BY <1>4, <2>2 DEF Travels, Reach, At
    <3>2. \A u \in team \ {t} : Reach(u)' = Reach(u) /\ Reach(u) \in Nat
      BY <1>0, <1>2, <2>0 DEF Reach
    <3>3. ASSUME NEW u \in team, NEW v \in team, NEW j \in DOMAIN script,
                 Reach(u)' <= j, j < Reach(v)'
          PROVE  script[j] = "unit"
      <4>0. j \in Nat /\ ip[t] \in Nat
        BY <1>0, ScriptFacts
      <4>1. CASE u = t /\ v # t
        BY <1>0, <2>2, <3>1, <3>2, <3>3, <4>0, <4>1 DEF SegmentInv
      <4>2. CASE u # t /\ v = t
        BY <1>0, <2>2, <3>1, <3>2, <3>3, <4>0, <4>2 DEF SegmentInv
      <4>3. CASE u # t /\ v # t
        BY <1>0, <3>2, <3>3, <4>3 DEF SegmentInv
      <4>4. CASE u = t /\ v = t
        BY <3>1, <3>3, <4>0, <4>4
      <4> QED BY <4>1, <4>2, <4>3, <4>4
    <3> QED BY <1>0, <3>3 DEF SegmentInv
  <2> QED BY <1>4, <2>1, <2>2 DEF Travels
<1>5. CASE Opens(t)
  <2>1. synchronizeIndex \in Nat
    BY <1>0 DEF TypeOK
  <2>2. \A u \in team : Reach(u)' = ip[t] + 1
    BY <1>5, <2>1 DEF Opens, OthersStay, Reach, Lagging
  <2>3. \A j \in DOMAIN script : j \in Nat
    BY <1>0, ScriptFacts
  <2> QED BY <1>0, <2>2, <2>3 DEF SegmentInv
<1> QED BY <1>3, <1>4, <1>5

(* Whoever is let go has somebody ahead. *)
LEMMA LaggingStep ==
    ASSUME TaskInv, NEW t \in team, OthersStay(t),
           Travels(t) \/ Stays(t) \/ Arrives(t) \/ Opens(t)
    PROVE  LaggingInv'
<1>0. /\ LaggingInv /\ team' = team /\ \A u \in team : ip[u] \in Nat
      /\ \A u \in team \ {t} : ip'[u] = ip[u]
  BY DEF TaskInv, OthersStay, TypeOK
<1>1. CASE Travels(t) \/ Stays(t) \/ Arrives(t)
  <2>1. synchronizeIndex' = synchronizeIndex /\ ~Lagging(t)' /\ ip'[t] \in Nat /\ ip'[t] >= ip[t]
    <3>1. CASE Travels(t)
      <4>1. ip'[t] = ip[t] + 1 \/ (Reach(t)' = Reach(t) /\ ip'[t] >= ip[t] /\ ~Lagging(t)')
        BY <3>1 DEF Travels
      <4>2. Reach(t) \in Nat /\ (~Lagging(t)' => Reach(t)' = ip'[t])
        BY <1>0 DEF Reach
      <4>3. ip'[t] \in Nat /\ ip'[t] >= ip[t]
        BY <1>0, <4>1, <4>2
      <4> QED BY <3>1, <4>3 DEF Travels, SameCounts
    <3>2. CASE Stays(t) \/ Arrives(t)
      <4>1. synchronizeIndex' = synchronizeIndex /\ Counted(t)' /\ ip'[t] = ip[t]
        BY <3>2 DEF Stays, Arrives, SameCounts
      <4>2. ~Lagging(t)'
        BY <4>1 DEF Lagging, Counted, InSection, Completed
      <4> QED BY <1>0, <4>1, <4>2
    <3> QED BY <1>1, <3>1, <3>2
  <2>2. ASSUME NEW u \in team, Lagging(u)' PROVE \E v \in team : ip'[v] > ip'[u]
    <3>1. u # t /\ Lagging(u)
      BY <2>1, <2>2 DEF OthersStay, Lagging
    <3>2. PICK v \in team : ip[v] > ip[u]
      BY <1>0, <3>1 DEF LaggingInv
    <3>3. ip'[v] > ip'[u]
      BY <1>0, <2>1, <3>1, <3>2
    <3> QED BY <3>3
  <2> QED BY <1>0, <2>2 DEF LaggingInv
<1>2. CASE Opens(t)
  <2>1. \A u \in team : Lagging(u)' => ip'[t] > ip'[u]
    BY <1>0, <1>2 DEF Opens, Lagging
  <2> QED BY <1>0, <2>1 DEF LaggingInv
<1> QED BY <1>1, <1>2

(* The threads counted by synchronizeCount after each kind of step. *)
LEMMA CountedStep ==
    ASSUME TaskInv, NEW t \in team, OthersStay(t)
    PROVE  /\ Travels(t) \/ Stays(t) => CountedThreads' = CountedThreads
           /\ Arrives(t) => CountedThreads' = CountedThreads \cup {t}
           /\ Opens(t) => CountedThreads' = {}
<1>0. team' = team /\ synchronizeIndex \in Nat
  BY DEF TaskInv, TypeOK, OthersStay
<1>1. ASSUME synchronizeIndex' = synchronizeIndex
      PROVE  \A u \in team \ {t} : Counted(u)' <=> Counted(u)
  BY <1>1 DEF OthersStay, Counted
<1>2. ASSUME Travels(t) \/ Stays(t) PROVE CountedThreads' = CountedThreads
  BY <1>0, <1>1, <1>2 DEF Travels, Stays, SameCounts, CountedThreads
<1>3. ASSUME Arrives(t) PROVE CountedThreads' = CountedThreads \cup {t}
  BY <1>0, <1>1, <1>3 DEF Arrives, CountedThreads
<1>4. ASSUME Opens(t) PROVE CountedThreads' = {}
  <2>1. \A u \in team : ~Counted(u)'
    BY <1>0, <1>4 DEF Opens, OthersStay, Counted, InSection, Completed
  <2> QED BY <1>0, <2>1 DEF CountedThreads
<1> QED BY <1>2, <1>3, <1>4

(* The threads that have not completed after each kind of step. *)
LEMMA RemainingStep ==
    ASSUME TaskInv, NEW t \in team, OthersStay(t)
    PROVE  /\ Travels(t) \/ Stays(t) \/ Opens(t) => Remaining' = Remaining
           /\ Arrives(t) => Remaining' = IF pc'[t] \in Completed
                                         THEN Remaining \ {t} ELSE Remaining
           /\ Arrives(t) => t \in Remaining
<1>0. team' = team /\ \A u \in team \ {t} : pc'[u] = pc[u]
  BY DEF OthersStay
<1>1. ASSUME Travels(t) \/ Opens(t) PROVE pc[t] \notin Completed /\ pc'[t] \notin Completed
  BY <1>1 DEF Travels, Opens, Counted, Completed
<1>2. ASSUME Stays(t) PROVE pc[t] \in Completed <=> pc'[t] \in Completed
  BY <1>2 DEF Stays
<1>3. ASSUME Arrives(t) PROVE pc[t] \notin Completed
  BY <1>3 DEF Arrives, Counted
<1> QED BY <1>0, <1>1, <1>2, <1>3 DEF Remaining

(* The counts follow. *)
LEMMA CountStep ==
    ASSUME TaskInv, NEW t \in team, OthersStay(t), totalThreadCount > 1,
           Travels(t) \/ Stays(t) \/ Arrives(t) \/ Opens(t)
    PROVE  /\ synchronizeCount' = Cardinality(CountedThreads')
           /\ threadCount' = Cardinality(Remaining')
<1>0. /\ TypeOK
      /\ synchronizeCount = Cardinality(CountedThreads)
      /\ threadCount = Cardinality(Remaining)
  BY DEF TaskInv, CountInv, CountedThreads, Remaining
<1>1. IsFiniteSet(CountedThreads) /\ IsFiniteSet(Remaining)
  BY <1>0, TeamFacts, FS_Subset DEF CountedThreads, Remaining
<1>2. CASE Travels(t) \/ Stays(t)
  BY <1>0, <1>2, CountedStep, RemainingStep DEF Travels, Stays, SameCounts
<1>3. CASE Arrives(t)
  <2>1. t \notin CountedThreads
    BY <1>3 DEF Arrives, CountedThreads
  <2>2. CountedThreads' = CountedThreads \cup {t} /\ t \in Remaining
        /\ Remaining' = IF pc'[t] \in Completed THEN Remaining \ {t} ELSE Remaining
    BY <1>3, CountedStep, RemainingStep
  <2>3. Cardinality(CountedThreads \cup {t}) = Cardinality(CountedThreads) + 1
    BY <1>1, <2>1, FS_AddElement, Zenon
  <2>4. Cardinality(Remaining \ {t}) = Cardinality(Remaining) - 1
    BY <1>1, <2>2, FS_RemoveElement, Zenon
  <2> QED BY <1>0, <1>3, <2>2, <2>3, <2>4 DEF Arrives
<1>4. CASE Opens(t)
  <2>1. CountedThreads' = {} /\ Remaining' = Remaining
    BY <1>4, CountedStep, RemainingStep
  <2>2. Cardinality({}) = 0
    BY FS_EmptySet
  <2>3. synchronizeCount' = 0 /\ threadCount' = threadCount
    BY <1>4 DEF Opens
  <2> QED BY <1>0, <2>1, <2>2, <2>3
<1> QED BY <1>2, <1>3, <1>4

(* A thread that arrives finds a point signed as its own, or none. *)
LEMMA SignedAlike ==
    ASSUME TaskInv, NEW t \in team, totalThreadCount > 1,
           AtPoint(t), ~Lagging(t), synchronizeCount # 0
    PROVE  /\ syncPointUniqueId = ip[t]
           /\ Ended(t) \/ syncPointWorkUnitIndex = workUnit[t]
<1>0. TypeOK /\ SegmentInv /\ PlaceInv /\ PointInv /\ UnitInv
      /\ synchronizeCount = Cardinality(CountedThreads)
  BY DEF TaskInv, CountInv, CountedThreads
<1>1. PICK u \in team : Counted(u)
  <2>1. CountedThreads # {}
    BY <1>0, FS_EmptySet
  <2> QED BY <2>1 DEF CountedThreads
<1>2. ip[u] = ip[t]
  BY <1>0, <1>1, SamePoint
<1>3. workUnit[u] = workUnit[t]
  BY <1>0, <1>2 DEF UnitInv
<1> QED BY <1>0, <1>1, <1>2, <1>3 DEF PointInv, Ended

(* The point stays signed for all who are held at it. *)
LEMMA PointStep ==
    ASSUME TaskInv, NEW t \in team, OthersStay(t), totalThreadCount > 1,
           Travels(t) \/ Stays(t) \/ Arrives(t) \/ Opens(t)
    PROVE  PointInv'
<1>0. PointInv /\ team' = team /\ script' = script
  BY DEF TaskInv, OthersStay
<1>1. \A u \in CountedThreads :
         syncPointUniqueId = ip[u] /\ (Ended(u) \/ syncPointWorkUnitIndex = workUnit[u])
  BY <1>0 DEF PointInv, CountedThreads
<1>2. SUFFICES ASSUME NEW u \in CountedThreads'
               PROVE  /\ syncPointUniqueId' = ip'[u]
                      /\ Ended(u)' \/ syncPointWorkUnitIndex' = workUnit'[u]
  BY <1>0 DEF PointInv, CountedThreads
<1>3. u \in team
  BY <1>0 DEF CountedThreads
<1>4. CASE Travels(t)
  <2>1. u \in CountedThreads /\ u # t
    BY <1>4, CountedStep DEF Travels, CountedThreads
  <2> QED BY <1>0, <1>1, <1>3, <1>4, <2>1 DEF Travels, SameCounts, OthersStay, Ended
<1>5. CASE Stays(t)
  <2>1. u \in CountedThreads /\ ip'[u] = ip[u] /\ workUnit'[u] = workUnit[u]
    BY <1>3, <1>5, CountedStep DEF Stays, OthersStay
  <2> QED BY <1>0, <1>1, <1>5, <2>1 DEF Stays, SameCounts, Ended
<1>6. CASE Arrives(t)
  <2>1. ip'[u] = ip[u] /\ workUnit'[u] = workUnit[u] /\ (Ended(u)' <=> Ended(u))
    BY <1>0, <1>3, <1>6 DEF Arrives, OthersStay, Ended
  <2>2. CASE synchronizeCount = 0
    <3>1. CountedThreads = {}
      BY <2>2, PartOfTeam DEF TaskInv, CountInv, CountedThreads
    <3>2. u = t
      BY <1>6, <3>1, CountedStep
    <3> QED BY <1>6, <2>1, <2>2, <3>2 DEF Arrives, SignPoint
  <2>3. CASE synchronizeCount # 0
    <3>1. syncPointUniqueId' = syncPointUniqueId /\ syncPointWorkUnitIndex' = syncPointWorkUnitIndex
      BY <1>6, <2>3 DEF Arrives, SignPoint, pointVars
    <3>2. u \in CountedThreads \/ u = t
      BY <1>6, CountedStep
    <3>3. /\ syncPointUniqueId = ip[t]
          /\ Ended(t) \/ syncPointWorkUnitIndex = workUnit[t]
      BY <1>6, <2>3, SignedAlike DEF Arrives
    <3> QED BY <1>1, <2>1, <3>1, <3>2, <3>3
  <2> QED BY <2>2, <2>3
<1>7. CASE Opens(t)
  BY <1>7, CountedStep
<1> QED BY <1>4, <1>5, <1>6, <1>7
=============================================================================
