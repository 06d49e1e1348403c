------------------------ MODULE ParallelTaskProofs --------------------------
(***************************************************************************)
(* The parallel task keeps its invariant, its assertions hold, it handles  *)
(* every unit once, and it implements Barrier, for every finite set of     *)
(* threads and every script.                                               *)
(***************************************************************************)
EXTENDS ParallelTaskUnits

(* The task starts with its invariant. *)
LEMMA InitInv == Init => TaskInv
<1> SUFFICES ASSUME Init PROVE TaskInv
  OBVIOUS
<1>0. /\ script \in Scripts /\ team \in SUBSET Thread /\ Main \in team
      /\ \A t \in Thread : ip[t] = 1 /\ pc[t] = IF t \in team THEN "run" ELSE "out"
  BY TaskAssumption DEF Init
<1>1. IsFiniteSet(team)
  BY <1>0, TaskAssumption, FS_Subset
<1>2. TypeOK
  <2>1. Cardinality(team) \in Nat
    BY <1>1, FS_CardinalityType
  <2>2. synchronized \in BOOLEAN
    BY Zenon DEF Init
  <2> QED BY <1>0, <2>1, <2>2 DEF Init, TypeOK, Place
<1>3. Len(script) \in Nat /\ UnitAt \subseteq Nat \ {0} /\ \A j \in DOMAIN script : j \in Nat
  BY <1>2, ScriptFacts DEF UnitAt
<1>4. PlaceInv
  BY <1>0, <1>3 DEF Init, PlaceInv, PlaceKnows, InSection, Completed
<1>5. OneThreadInv
  BY <1>0 DEF Init, OneThreadInv
<1>6. \A t \in team : ~Lagging(t) /\ ~Counted(t) /\ Reach(t) = 1 /\ pc[t] = "run"
  BY <1>0 DEF Lagging, Counted, Reach, InSection, Completed
<1>7. SegmentInv /\ LaggingInv /\ PointInv
  BY <1>3, <1>6 DEF SegmentInv, LaggingInv, PointInv
<1>8. CountInv
  <2>1. {t \in team : Counted(t)} = {} /\ {t \in team : pc[t] \notin Completed} = team
    BY <1>6 DEF Completed
  <2>2. Cardinality({}) = 0
    BY FS_EmptySet
  <2>3. synchronizeCount = 0 /\ threadCount = Cardinality(team) /\ pc[Main] # "done"
    BY <1>0, <1>6 DEF Init
  <2> QED BY <2>1, <2>2, <2>3 DEF CountInv
<1>9. SectionInv
  <2>1. \A t \in team : pc[t] \notin InSection
    BY <1>6 DEF InSection
  <2>2. \A t \in team : pc[t] \notin {"alone", "unmark"}
    BY <1>6
  <2>3. ~synchronized
    BY Zenon DEF Init
  <2> QED BY <2>1, <2>2, <2>3, Zenon DEF SectionInv
<1>10. UnitInv /\ ClaimInv
  <2>0. \A j \in UnitAt : ~(j < 1)
    BY <1>3
  <2>1. {j \in UnitAt : j < 1} = {}
    BY <2>0, Zenon
  <2>2. UnitsBefore(1) = 0
    BY <2>1, FS_EmptySet DEF UnitsBefore
  <2>3. \A t \in team : workUnit[t] = 1 /\ toHandle[t] = 0 /\ ip[t] = 1
    BY <1>0 DEF Init
  <2>4. workUnitIndex = 0 /\ handled = {}
    BY DEF Init
  <2>5. UnitInv
    BY <2>2, <2>3, <2>4 DEF UnitInv
  <2>6. ClaimInv
    <3>1. 1 .. workUnitIndex = {} /\ \A t \in team : workUnit[t] <= workUnitIndex + 1
      BY <2>3, <2>4
    <3>2. \A k \in UnitAt : ~(k < ip[Main])
      BY <1>0, <1>3, <2>3
    <3> QED BY <3>1, <3>2, Zenon DEF ClaimInv
  <2> QED BY <2>5, <2>6
<1>11. \A x, y \in handled : x[1] = y[1] => x[2] = y[2]
  BY DEF Init
<1> QED BY <1>2, <1>4, <1>5, <1>7, <1>8, <1>9, <1>10, <1>11 DEF TaskInv

(* Every step keeps it. *)
LEMMA TaskStep ==
    ASSUME TaskInv, NEW t \in team, Step(t)
    PROVE  TaskInv'
<1>0. /\ TypeOK /\ team \subseteq Thread
      /\ script' = script /\ team' = team /\ totalThreadCount' = totalThreadCount
  BY Frame DEF TaskInv, TypeOK, totalThreadCount
<1>1. OthersStay(t)
  BY <1>0, Frame DEF OthersStay
<1>2. TypeOK' /\ PlaceInv'
  BY TypeStep, PlaceStep
<1>3. SectionInv'
  <2>1. AloneInSection'
    BY SectionStep
  <2>2. (synchronized <=> \E u \in team : pc[u] \in {"alone", "unmark"})'
    BY FlagStep
  <2> QED BY <2>1, <2>2, Zenon DEF SectionInv, AloneInSection, HeldHere
<1>4. UnitInv' /\ ClaimInv' /\ OneHandler'
  BY UnitsQuiet, QuietStep, MineStep, ClaimStep
<1>5. CASE totalThreadCount > 1
  <2>1. Travels(t) \/ Stays(t) \/ Arrives(t) \/ Opens(t)
    BY <1>5, Kinds
  <2>2. SegmentInv' /\ LaggingInv' /\ PointInv'
    BY <1>1, <1>5, <2>1, SegmentStep, LaggingStep, PointStep
  <2>3. synchronizeCount' = Cardinality(CountedThreads') /\ threadCount' = Cardinality(Remaining')
    BY <1>1, <1>5, <2>1, CountStep
  <2>4. pc'[Main] = "done" => threadCount' = 0
    BY <1>5, MainLast
  <2>5. CountInv'
    BY <2>3, <2>4 DEF CountInv, CountedThreads, Remaining
  <2>6. OneThreadInv'
    BY <1>0, <1>5 DEF OneThreadInv
  <2> QED BY <1>2, <1>3, <1>4, <2>2, <2>5, <2>6 DEF TaskInv, OneHandler
<1>6. CASE totalThreadCount = 1
  <2>1. /\ team = {Main} /\ t = Main
        /\ pc[t] \in {"run", "alone", "unmark"}
        /\ pc'[t] \in {"run", "alone", "unmark", "done"}
        /\ synchronizeCount' = synchronizeCount
        /\ threadCount' = IF pc'[t] = "done" THEN threadCount - 1 ELSE threadCount
    BY <1>6, SingleStep
  <2>2. OneThreadInv'
    BY <1>0, <1>6, <2>1 DEF OneThreadInv, TaskInv
  <2>3. LaggingInv' /\ PointInv'
    BY <1>0, <1>6, <2>1 DEF LaggingInv, Lagging, PointInv
  <2>4. SegmentInv'
    <3>1. Reach(Main)' \in Nat
      BY <1>2, <2>1 DEF TypeOK, Reach
    <3>2. \A j \in DOMAIN script' : j \in Nat
      BY <1>0, ScriptFacts
    <3> QED BY <1>0, <2>1, <3>1, <3>2 DEF SegmentInv
  <2>5. CountInv'
    <3>1. Remaining = {Main} /\ Remaining' = IF pc'[t] = "done" THEN {} ELSE {Main}
      BY <1>0, <2>1 DEF Remaining, Completed
    <3>2. Cardinality({Main}) = 1 /\ Cardinality({}) = 0
      BY FS_Singleton, FS_EmptySet
    <3>3. threadCount = 1
      BY <3>1, <3>2 DEF TaskInv, CountInv, Remaining
    <3>4. threadCount' = Cardinality(Remaining') /\ (pc'[Main] = "done" => threadCount' = 0)
      BY <2>1, <3>1, <3>2, <3>3
    <3> QED BY <1>0, <1>6, <3>4 DEF CountInv, Remaining
  <2> QED BY <1>2, <1>3, <1>4, <2>2, <2>3, <2>4, <2>5 DEF TaskInv, OneHandler
<1> QED BY <1>0, <1>5, <1>6, TeamFacts

(* The invariant depends on the task's variables only. *)
LEMMA TaskStutter == TaskInv /\ UNCHANGED vars => TaskInv'
<1> SUFFICES ASSUME TaskInv, UNCHANGED vars PROVE TaskInv'
  OBVIOUS
<1>1. /\ script' = script /\ team' = team /\ pc' = pc /\ ip' = ip /\ index' = index
      /\ workUnit' = workUnit /\ toHandle' = toHandle /\ threadCount' = threadCount
      /\ syncPointUniqueId' = syncPointUniqueId
      /\ syncPointWorkUnitIndex' = syncPointWorkUnitIndex
      /\ workUnitIndex' = workUnitIndex /\ synchronizeIndex' = synchronizeIndex
      /\ synchronizeCount' = synchronizeCount /\ waiting' = waiting /\ handled' = handled
      /\ synchronized' = synchronized
  BY Zenon DEF vars, envVars, pointVars, countVars, unitVars
<1>2. totalThreadCount' = totalThreadCount /\ UnitAt' = UnitAt
  BY <1>1, Zenon DEF totalThreadCount, UnitAt
<1>3. \A k : UnitsBefore(k)' = UnitsBefore(k)
  BY <1>2, Zenon DEF UnitsBefore
<1>4. \A t : /\ Lagging(t)' <=> Lagging(t)
             /\ Counted(t)' <=> Counted(t)
             /\ Ended(t)' <=> Ended(t)
             /\ Released(t)' <=> Released(t)
             /\ \A ops : At(t, ops)' <=> At(t, ops)
  BY <1>1, Zenon DEF Lagging, Counted, Ended, Released, At
<1>5. \A t : Reach(t)' = Reach(t)
  BY <1>1, <1>4 DEF Reach
<1>6. TypeOK'
  BY <1>1, Zenon DEF TaskInv, TypeOK
<1>7. PlaceInv'
  BY <1>1, <1>4 DEF TaskInv, PlaceInv, PlaceKnows
<1>8. OneThreadInv' /\ SegmentInv' /\ LaggingInv'
  <2>1. OneThreadInv'
    BY <1>1, <1>2, Zenon DEF TaskInv, OneThreadInv
  <2>2. SegmentInv'
    BY <1>1, <1>5 DEF TaskInv, SegmentInv
  <2>3. LaggingInv'
    BY <1>1, <1>4, Zenon DEF TaskInv, LaggingInv
  <2> QED BY <2>1, <2>2, <2>3, Zenon
<1>9. CountInv' /\ PointInv'
  <2>1. CountInv'
    BY <1>1, <1>2, Zenon DEF TaskInv, CountInv, Counted
  <2>2. PointInv'
    BY <1>1, <1>2, <1>4 DEF TaskInv, PointInv
  <2> QED BY <2>1, <2>2
<1>10. SectionInv'
  BY <1>1, Zenon DEF TaskInv, SectionInv
<1>11. UnitInv' /\ ClaimInv' /\ OneHandler'
  BY <1>1, <1>2, <1>3 DEF TaskInv, UnitInv, ClaimInv, OneHandler
<1> QED BY <1>6, <1>7, <1>8, <1>9, <1>10, <1>11, Zenon DEF TaskInv, OneHandler

(***************************************************************************)
(* The invariant of a parallel task, for every team and every program.     *)
(***************************************************************************)
THEOREM TaskInvariance == Spec => []TaskInv
<1>1. TaskInv /\ [Next]_vars => TaskInv'
  BY TaskStep, TaskStutter DEF Next
<1> QED BY <1>1, InitInv, PTL DEF Spec

(***************************************************************************)
(* The assertions of ParallelTask.cpp never fail: threads that meet at a   *)
(* synchronisation point came from the same call with the same work unit   *)
(* index, and release is called only while the others are held.            *)
(***************************************************************************)
THEOREM TaskAssertions == Spec => []AssertionsHold
<1>1. ASSUME TaskInv, NEW t \in team
      PROVE  /\ /\ totalThreadCount > 1 /\ synchronizeCount # 0
                /\ \/ pc[t] = "enter"
                   \/ pc[t] = "run" /\ (At(t, {"sync"}) \/ Ended(t))
                => /\ syncPointUniqueId = ip[t]
                   /\ Ended(t) \/ syncPointWorkUnitIndex = workUnit[t]
             /\ pc[t] = "unmark" => synchronized
  <2>1. ASSUME totalThreadCount > 1, synchronizeCount # 0,
               \/ pc[t] = "enter"
               \/ pc[t] = "run" /\ (At(t, {"sync"}) \/ Ended(t))
        PROVE  /\ syncPointUniqueId = ip[t]
               /\ Ended(t) \/ syncPointWorkUnitIndex = workUnit[t]
    <3>1. PlaceKnows(t)
      BY <1>1 DEF TaskInv, TypeOK, PlaceInv
    <3>2. AtPoint(t) /\ ~Lagging(t)
      BY <2>1, <3>1 DEF AtPoint, Lagging, PlaceKnows, At
    <3> QED BY <1>1, <2>1, <3>2, SignedAlike
  <2>2. pc[t] = "unmark" => synchronized
    BY <1>1, Zenon DEF TaskInv, SectionInv
  <2> QED BY <2>1, <2>2, Zenon
<1>2. TaskInv => AssertionsHold
  BY <1>1, Zenon DEF AssertionsHold
<1> QED BY <1>2, TaskInvariance, PTL

(***************************************************************************)
(* handleNextWorkUnit tells one thread, and only one, to handle each unit. *)
(***************************************************************************)
THEOREM UnitsHandledOnce == Spec => []EveryUnitOnce
<1>1. ASSUME TaskInv, \A t \in team : pc[t] = "done", NEW k \in UnitAt
      PROVE  \E t \in team : <<k, t>> \in handled
  <2>0. /\ TypeOK /\ UnitInv /\ ClaimInv /\ Main \in team /\ workUnitIndex \in Nat
        /\ Len(script) \in Nat /\ k \in 1 .. Len(script)
        /\ \A t \in team : ip[t] = Len(script) + 1
    <3>1. TypeOK /\ UnitInv /\ ClaimInv /\ PlaceInv
      BY <1>1 DEF TaskInv
    <3>2. Len(script) \in Nat /\ k \in 1 .. Len(script)
      BY <3>1, ScriptFacts DEF UnitAt
    <3>3. \A t \in team : ip[t] = Len(script) + 1
      BY <1>1, <3>1 DEF PlaceInv, PlaceKnows, TypeOK, Completed, Ended
    <3> QED BY <3>1, <3>2, <3>3 DEF TypeOK
  <2>1. CASE totalThreadCount = 1
    <3>1. k < ip[Main]
      BY <2>0
    <3>2. <<k, Main>> \in handled
      BY <2>0, <2>1, <3>1, Zenon DEF ClaimInv
    <3> QED BY <2>0, <3>2, Zenon
  <2>2. CASE totalThreadCount > 1
    <3> DEFINE n == UnitsBefore(k) + 1
    <3>1. n \in Nat /\ n >= 1 /\ n <= UnitsBefore(Len(script) + 1)
      <4>1. UnitsBefore(k) \in Nat
        BY <2>0, UnitsNext
      <4>2. n <= UnitsBefore(Len(script) + 1)
        BY <2>0, UnitsOrdered
      <4> QED BY <4>1, <4>2
    <3>2. \A t \in team : workUnit[t] = UnitsBefore(Len(script) + 1) + 1
      BY <2>0, <2>2 DEF UnitInv
    <3>3. UnitsBefore(Len(script) + 1) \in Nat
      BY <2>0, UnitsNext
    <3>4. n \in 1 .. workUnitIndex /\ \A t \in team : ~(workUnit[t] <= n)
      <4>1. workUnit[Main] <= workUnitIndex + 1
        BY <2>0, <2>2 DEF ClaimInv
      <4> HIDE DEF n
      <4> QED BY <2>0, <3>1, <3>2, <3>3, <4>1
    <3>5. PICK x \in handled : UnitsBefore(x[1]) + 1 = n
      BY <2>0, <2>2, <3>4 DEF ClaimInv
    <3>6. x[1] \in UnitAt /\ x[1] \in Nat /\ x[2] \in team /\ x = <<x[1], x[2]>>
      BY <2>0, <2>2 DEF UnitInv, TypeOK
    <3>7. UnitsBefore(x[1]) \in Nat /\ UnitsBefore(k) \in Nat
      BY <2>0, <3>6, UnitsNext
    <3>8. x[1] = k
      BY <2>0, <3>5, <3>6, <3>7, UnitsDiffer
    <3>9. <<k, x[2]>> \in handled
      BY <3>5, <3>6, <3>8, Zenon
    <3> QED BY <3>6, <3>9, Zenon
  <2>3. totalThreadCount = 1 \/ totalThreadCount > 1
    BY <2>0, TeamFacts
  <2> QED BY <2>1, <2>2, <2>3, Zenon
<1>2. TaskInv => EveryUnitOnce
  BY <1>1 DEF TaskInv, EveryUnitOnce
<1> QED BY <1>2, TaskInvariance, PTL

---------------------------------------------------------------------------
(* The steps of Barrier that the steps of the task take. *)
place == [t \in Thread |-> PlaceOf(pc[t])]

(* t stays where it is and its place becomes p. *)
LEMMA StayIs ==
    ASSUME TaskInv, NEW t \in team, Step(t), ip'[t] = ip[t]
    PROVE  B!Stay(t, PlaceOf(pc'[t]))
<1>0. /\ TypeOK /\ team \subseteq Thread /\ ip \in [Thread -> Nat \ {0}]
  BY DEF TaskInv, TypeOK
<1>1. /\ script' = script /\ team' = team
      /\ \A u \in Thread \ {t} : pc'[u] = pc[u] /\ ip'[u] = ip[u]
  BY <1>0, Frame
<1>2. ip' \in [Thread -> Nat \ {0}]
  BY TypeStep DEF TypeOK
<1>3. ip' = ip
  BY <1>0, <1>1, <1>2
<1>4. place' = [place EXCEPT ![t] = PlaceOf(pc'[t])]
  BY <1>0, <1>1 DEF place
<1> QED BY <1>1, <1>3, <1>4 DEF B!Stay, place

(* t goes on to the next operation. *)
LEMMA MoveIs ==
    ASSUME TaskInv, NEW t \in team, Step(t), ip'[t] = ip[t] + 1, pc'[t] = "run"
    PROVE  B!Move(t, "running")
<1>0. /\ TypeOK /\ team \subseteq Thread /\ ip \in [Thread -> Nat \ {0}]
  BY DEF TaskInv, TypeOK
<1>1. /\ script' = script /\ team' = team
      /\ \A u \in Thread \ {t} : pc'[u] = pc[u] /\ ip'[u] = ip[u]
  BY <1>0, Frame
<1>2. ip' \in [Thread -> Nat \ {0}]
  BY TypeStep DEF TypeOK
<1>3. ip' = [ip EXCEPT ![t] = @ + 1]
  BY <1>0, <1>1, <1>2
<1>4. PlaceOf(pc'[t]) = "running"
  BY DEF PlaceOf
<1>5. place' = [place EXCEPT ![t] = "running"]
  BY <1>0, <1>1, <1>4 DEF place
<1> QED BY <1>1, <1>3, <1>5 DEF B!Move, place

(* What the others see of a thread. *)
LEMMA PlaceIs ==
    ASSUME TypeOK, NEW u \in team
    PROVE  /\ place[u] = PlaceOf(pc[u])
           /\ pc[u] \in {"run", "claim", "enter", "complete_wait"} => place[u] = "running"
           /\ pc[u] = "wait" => place[u] = "held"
           /\ pc[u] \in InSection => place[u] = "alone"
           /\ pc[u] = "done" => place[u] = "finished"
BY DEF TypeOK, place, PlaceOf, InSection

(* A step that leaves t where it is, as Barrier sees it, changes nothing. *)
LEMMA StayStutters ==
    ASSUME TaskInv, NEW t \in team, Step(t), ip'[t] = ip[t], PlaceOf(pc'[t]) = PlaceOf(pc[t])
    PROVE  UNCHANGED B!barrierVars
<1>1. B!Stay(t, PlaceOf(pc[t]))
  BY StayIs
<1>2. t \in Thread /\ place[t] = PlaceOf(pc[t])
  BY PlaceIs DEF TaskInv, TypeOK
<1>3. place' = [place EXCEPT ![t] = PlaceOf(pc[t])] /\ script' = script /\ team' = team /\ ip' = ip
  BY <1>1 DEF B!Stay, place
<1>4. place' = place
  BY <1>2, <1>3 DEF place
<1> QED BY <1>3, <1>4 DEF B!barrierVars, place

(* The last thread to arrive, or one let go by it, passes a plain point:   *)
(* nobody is before it.                                                    *)
LEMMA SimulatesPass ==
    ASSUME TaskInv, NEW t \in team, SyncLast(t) \/ SyncOneThread(t)
    PROVE  B!Pass(t)
<1>0. /\ Step(t) /\ TypeOK /\ t \in Thread
      /\ pc \in [Thread -> Place] /\ ip \in [Thread -> Nat \ {0}]
  BY DEF Step, TaskInv, TypeOK
<1>1. pc[t] = "run" /\ At(t, {"sync"}) /\ pc'[t] = "run" /\ ip'[t] = ip[t] + 1
  BY <1>0 DEF SyncLast, SyncOneThread, Advance
<1>2. \A u \in team \ {t} : pc[u] = "wait" /\ ip[u] = ip[t]
  <2>1. CASE SyncLast(t)
    <3>1. At(t, {"sync", "main", "single"}) /\ totalThreadCount > 1
          /\ synchronizeCount + 1 = threadCount
      BY <2>1 DEF SyncLast, At
    <3> QED BY <1>1, <3>1, AllHeld
  <2>2. CASE SyncOneThread(t)
    BY <1>0, <2>2, SingleStep DEF SyncOneThread
  <2> QED BY <2>1, <2>2
<1>3. place[t] = "running" /\ \A u \in team \ {t} : place[u] = "held"
  BY <1>0, <1>1, <1>2, PlaceIs
<1>4. B!Move(t, "running")
  BY <1>0, <1>1, MoveIs
<1> QED BY <1>1, <1>2, <1>3, <1>4 DEF B!Pass, B!At, B!HeldAt, At, place

(* A thread let go finds the others held at the same point or past it.     *)
LEMMA SimulatesWakePass ==
    ASSUME TaskInv, NEW t \in team, WakePass(t)
    PROVE  B!Pass(t) \/ B!PassOpened(t)
<1>0. /\ Step(t) /\ TypeOK /\ t \in Thread /\ PlaceKnows(t) /\ SegmentInv /\ LaggingInv
      /\ pc \in [Thread -> Place] /\ ip \in [Thread -> Nat \ {0}] /\ team \subseteq Thread
  BY DEF Step, TaskInv, TypeOK, PlaceInv
<1>1. /\ pc[t] = "wait" /\ Lagging(t) /\ pc'[t] = "run" /\ ip'[t] = ip[t] + 1
      /\ At(t, {"sync", "main", "single"})
  BY <1>0 DEF WakePass, Advance, Lagging, PlaceKnows
<1>2. place[t] = "held" /\ B!Move(t, "running")
  BY <1>0, <1>1, PlaceIs, MoveIs
<1>3. CASE At(t, {"sync"})
  <2>1. ASSUME NEW u \in team \ {t} PROVE B!HeldAt(u, ip[t]) \/ ip[u] > ip[t]
    <3>1. ip[t] \in DOMAIN script /\ script[ip[t]] # "unit" /\ ip[t] \in Nat /\ ip[u] \in Nat
      BY <1>0, <1>3 DEF At
    <3>2. Reach(t) = ip[t] + 1
      BY <1>1 DEF Reach
    <3>3. ~(Reach(u) <= ip[t])
      BY <1>0, <3>1, <3>2 DEF SegmentInv
    <3>4. CASE Lagging(u)
      <4>1. ip[u] = ip[t] \/ ip[u] > ip[t]
        BY <3>1, <3>3, <3>4 DEF Reach
      <4>2. place[u] = "held"
        BY <1>0, <3>4, PlaceIs DEF Lagging
      <4> QED BY <4>1, <4>2 DEF B!HeldAt, place
    <3>5. CASE ~Lagging(u)
      BY <3>1, <3>3, <3>5 DEF Reach
    <3> QED BY <3>4, <3>5
  <2> QED BY <1>2, <1>3, <2>1 DEF B!Pass, B!At, At, place
<1>4. CASE At(t, {"main", "single"})
  <2>1. \E u \in team : ip[u] > ip[t]
    BY <1>0, <1>1 DEF LaggingInv
  <2> QED BY <1>2, <1>4, <2>1 DEF B!PassOpened, B!At, At, place
<1> QED BY <1>1, <1>3, <1>4 DEF At

(* A thread goes on alone only while all others are held at its point. *)
LEMMA SimulatesGoAlone ==
    ASSUME TaskInv, NEW t \in team, EnterRelease(t) \/ WakeRelease(t) \/ ReleaseOneThread(t)
    PROVE  B!GoAlone(t)
<1>0. /\ Step(t) /\ TypeOK /\ t \in Thread /\ PlaceKnows(t)
      /\ pc \in [Thread -> Place] /\ ip \in [Thread -> Nat \ {0}]
  BY DEF Step, TaskInv, TypeOK, PlaceInv
<1>1. /\ pc[t] \in {"run", "enter", "wait"} /\ ip'[t] = ip[t] /\ pc'[t] \in {"mark", "alone"}
      /\ At(t, {"main", "single"}) /\ Released(t)
  <2>1. CASE EnterRelease(t)
    BY <1>0, <2>1 DEF EnterRelease, Goto, PlaceKnows
  <2>2. CASE WakeRelease(t)
    BY <1>0, <2>2 DEF WakeRelease, Goto, MainMayGo, At, Released
  <2>3. CASE ReleaseOneThread(t)
    <3>1. t = Main
      BY <1>0, <2>3, SingleStep DEF ReleaseOneThread
    <3> QED BY <1>0, <2>3, <3>1 DEF ReleaseOneThread, Goto, Released
  <2> QED BY <2>1, <2>2, <2>3
<1>2. \A u \in team \ {t} : pc[u] = "wait" /\ ip[u] = ip[t]
  <2>1. CASE totalThreadCount = 1
    BY <1>0, <2>1, SingleStep
  <2>2. CASE EnterRelease(t) /\ totalThreadCount > 1
    <3>1. /\ At(t, {"sync", "main", "single"}) /\ pc[t] = "enter"
          /\ synchronizeCount + 1 = threadCount
      BY <1>1, <2>2 DEF EnterRelease, At
    <3> QED BY <2>2, <3>1, AllHeld
  <2>3. CASE WakeRelease(t) /\ totalThreadCount > 1
    BY <2>3, MainAlone
  <2>4. totalThreadCount = 1 \/ totalThreadCount > 1
    BY <1>0, TeamFacts
  <2> QED BY <2>1, <2>2, <2>3, <2>4 DEF ReleaseOneThread
<1>3. place[t] \in {"running", "held"} /\ \A u \in team \ {t} : place[u] = "held"
  BY <1>0, <1>1, <1>2, PlaceIs
<1>4. PlaceOf(pc'[t]) = "alone"
  BY <1>1 DEF PlaceOf
<1>5. B!Stay(t, "alone")
  BY <1>0, <1>1, <1>4, StayIs
<1>6. At(t, IF t = Main THEN {"main", "single"} ELSE {"single"})
  BY <1>1 DEF Released, At
<1> QED BY <1>2, <1>3, <1>5, <1>6 DEF B!GoAlone, B!At, B!HeldAt, At, place

(* The main thread finishes only when all others have. *)
LEMMA SimulatesFinish ==
    ASSUME TaskInv, NEW t \in team, Step(t), pc[t] \in {"run", "complete_wait"}, Ended(t),
           pc'[t] = "done", ip'[t] = ip[t],
           t = Main => threadCount' = 0
    PROVE  B!Finish(t)
<1>0. TypeOK /\ team \subseteq Thread /\ team' = team /\ \A u \in team \ {t} : pc'[u] = pc[u]
  BY Frame DEF TaskInv, TypeOK
<1>1. ASSUME t = Main, NEW u \in team \ {t} PROVE place[u] = "finished"
  <2>1. /\ TypeOK' /\ threadCount' = 0 /\ u \in team' /\ Main \in team' /\ u # Main
        /\ PlaceInv' /\ CountInv'
    BY <1>0, <1>1, TaskStep, TypeStep DEF TaskInv, TypeOK
  <2>2. IsFiniteSet(Remaining')
    BY <1>0, TeamFacts, FS_Subset DEF Remaining
  <2>3. Cardinality(Remaining') = 0
    BY <2>1 DEF CountInv, Remaining
  <2>4. Remaining' = {}
    BY <2>2, <2>3, FS_EmptySet
  <2>5. pc'[u] \in Completed
    BY <2>1, <2>4 DEF Remaining
  <2>6. pc'[u] = "done"
    BY <1>0, <2>1, <2>5 DEF PlaceInv, PlaceKnows, Completed
  <2> QED BY <1>0, <1>1, <2>6, PlaceIs
<1>2. place[t] = "running"
  BY <1>0, PlaceIs
<1>3. PlaceOf(pc'[t]) = "finished"
  BY DEF PlaceOf
<1>4. B!Stay(t, "finished")
  BY <1>3, StayIs
<1> QED BY <1>1, <1>2, <1>4 DEF B!Finish, Ended, place

(* Every step of the task is a step of Barrier, or none. *)
LEMMA StepImplements ==
    ASSUME TaskInv, NEW t \in team, Step(t)
    PROVE  B!Next \/ UNCHANGED B!barrierVars
<1>0. /\ TypeOK /\ t \in Thread /\ PlaceKnows(t)
      /\ pc \in [Thread -> Place] /\ ip \in [Thread -> Nat \ {0}]
  BY DEF TaskInv, TypeOK, PlaceInv
<1>s. ASSUME ip'[t] = ip[t], PlaceOf(pc'[t]) = PlaceOf(pc[t]) PROVE UNCHANGED B!barrierVars
  BY <1>s, StayStutters
<1> USE DEF Goto, Advance
<1>1. CASE UnitMine(t) \/ UnitClaim(t)
  <2>1. /\ pc[t] \in {"run", "claim"} /\ At(t, {"unit"})
        /\ pc'[t] = "run" /\ ip'[t] = ip[t] + 1
    BY <1>0, <1>1 DEF UnitMine, UnitClaim, PlaceKnows
  <2>2. place[t] = "running" /\ B!Move(t, "running")
    BY <1>0, <2>1, PlaceIs, MoveIs
  <2>3. B!Work(t)
    BY <2>1, <2>2 DEF B!Work, B!At, At, place
  <2> QED BY <2>3 DEF B!Next
<1>2. CASE UnitShared(t) \/ ReadIndex(t)
  <2>1. pc[t] = "run" /\ pc'[t] \in {"claim", "enter"} /\ ip'[t] = ip[t]
    BY <1>0, <1>2 DEF UnitShared, ReadIndex
  <2> QED BY <1>s, <2>1 DEF PlaceOf
<1>3. CASE SyncLast(t) \/ SyncOneThread(t)
  <2>1. B!Pass(t)
    BY <1>3, SimulatesPass
  <2> QED BY <2>1 DEF B!Next
<1>4. CASE SyncWait(t) \/ EnterWait(t)
  <2>1. /\ pc[t] \in {"run", "enter"} /\ pc'[t] = "wait" /\ ip'[t] = ip[t]
        /\ At(t, {"sync", "main", "single"})
    <3>1. CASE SyncWait(t)
      BY <1>0, <3>1 DEF SyncWait, At
    <3>2. CASE EnterWait(t)
      <4>1. At(t, {"main", "single"}) /\ index[t] = synchronizeIndex
        BY <1>0, <3>2 DEF EnterWait, PlaceKnows
      <4>2. pc[t] = "enter" /\ Goto(t, "wait")
        BY <3>2, <4>1 DEF EnterWait
      <4> QED BY <1>0, <4>1, <4>2 DEF At
    <3> QED BY <1>4, <3>1, <3>2
  <2>2. PlaceOf(pc'[t]) = "held"
    BY <2>1 DEF PlaceOf
  <2>3. place[t] = "running" /\ B!Stay(t, "held")
    BY <1>0, <2>1, <2>2, PlaceIs, StayIs
  <2>4. B!Arrive(t)
    BY <2>1, <2>3 DEF B!Arrive, B!At, At, place
  <2> QED BY <2>4 DEF B!Next
<1>5. CASE EnterRelease(t) \/ WakeRelease(t) \/ ReleaseOneThread(t)
  <2>1. B!GoAlone(t)
    BY <1>5, SimulatesGoAlone
  <2> QED BY <2>1 DEF B!Next
<1>6. CASE Mark(t) \/ AloneUnit(t)
  <2>1. pc[t] \in {"mark", "alone"} /\ pc'[t] \in {"alone", "unmark"} /\ ip'[t] = ip[t]
    BY <1>0, <1>6 DEF Mark, AloneUnit
  <2> QED BY <1>s, <2>1 DEF PlaceOf
<1>7. CASE Unmark(t) \/ Release(t)
  <2>1. \/ pc[t] = "unmark" /\ pc'[t] = "release" /\ ip'[t] = ip[t]
        \/ pc[t] \in InSection /\ pc'[t] = "run" /\ ip'[t] = ip[t] + 1
    BY <1>0, <1>7 DEF Unmark, Release, InSection
  <2>2. CASE pc[t] = "unmark" /\ pc'[t] = "release" /\ ip'[t] = ip[t]
    BY <1>s, <2>2 DEF PlaceOf
  <2>3. CASE pc[t] \in InSection /\ pc'[t] = "run" /\ ip'[t] = ip[t] + 1
    <3>1. place[t] = "alone" /\ B!Move(t, "running")
      BY <1>0, <2>3, PlaceIs, MoveIs
    <3>2. B!Open(t)
      BY <3>1 DEF B!Open, place
    <3> QED BY <3>2 DEF B!Next
  <2> QED BY <2>1, <2>2, <2>3
<1>8. CASE WakePass(t)
  <2>1. B!Pass(t) \/ B!PassOpened(t)
    BY <1>8, SimulatesWakePass
  <2> QED BY <2>1 DEF B!Next
<1>9. CASE WakeAgain(t)
  <2>1. pc'[t] = pc[t] /\ ip'[t] = ip[t]
    BY <1>9 DEF WakeAgain
  <2> QED BY <1>s, <2>1
<1>10. CASE CompleteOneThread(t) \/ Complete(t) \/ CompleteWake(t)
  <2>1. /\ pc[t] \in {"run", "complete_wait"} /\ Ended(t) /\ ip'[t] = ip[t]
        /\ \/ pc'[t] = "complete_wait"
           \/ pc'[t] = "done"
    BY <1>0, <1>10 DEF CompleteOneThread, Complete, CompleteWake, PlaceKnows, Completed
  <2>2. CASE pc'[t] = "complete_wait"
    BY <1>s, <2>1, <2>2 DEF PlaceOf
  <2>3. CASE pc'[t] = "done"
    <3>1. t = Main => threadCount' = 0
      <4>1. TaskInv'
        BY TaskStep
      <4> QED BY <2>3, <4>1 DEF TaskInv, CountInv
    <3>2. B!Finish(t)
      BY <2>1, <2>3, <3>1, SimulatesFinish
    <3> QED BY <3>2 DEF B!Next
  <2> QED BY <2>1, <2>2, <2>3
<1> QED BY <1>1, <1>2, <1>3, <1>4, <1>5, <1>6, <1>7, <1>8, <1>9, <1>10
        DEF Step, HandleNextWorkUnit

(***************************************************************************)
(* The parallel task implements Barrier: nobody passes a synchronisation   *)
(* point early, a released thread is alone, the main thread ends last.     *)
(***************************************************************************)
THEOREM TaskImplementsBarrier == Spec => ImplementsBarrier
<1>1. Init => B!Init
  <2> SUFFICES ASSUME Init PROVE B!Init
    OBVIOUS
  <2>1. /\ script \in Scripts /\ team \in {S \cup {Main} : S \in SUBSET Thread}
        /\ ip = [t \in Thread |-> 1]
    BY DEF Init
  <2>2. \A t \in Thread : PlaceOf(pc[t]) = IF t \in team THEN "running" ELSE "out"
    BY DEF Init, PlaceOf
  <2>3. [t \in Thread |-> PlaceOf(pc[t])] =
            [t \in Thread |-> IF t \in team THEN "running" ELSE "out"]
    BY <2>2
  <2> QED BY <2>1, <2>3 DEF B!Init
<1>2. TaskInv /\ [Next]_vars => [B!Next]_B!barrierVars
  <2> SUFFICES ASSUME TaskInv, [Next]_vars PROVE B!Next \/ UNCHANGED B!barrierVars
    OBVIOUS
  <2>1. CASE Next
    BY <2>1, StepImplements DEF Next
  <2>2. CASE UNCHANGED vars
    <3>1. script' = script /\ team' = team /\ ip' = ip /\ pc' = pc
      BY <2>2, Zenon DEF vars
    <3> QED BY <3>1 DEF B!barrierVars
  <2> QED BY <2>1, <2>2
<1> QED BY <1>1, <1>2, TaskInvariance, PTL DEF Spec, ImplementsBarrier, B!Spec
=============================================================================
