------------------------- MODULE ParallelTaskUnits --------------------------
(***************************************************************************)
(* The steps of a parallel task hand out every work unit once.             *)
(***************************************************************************)
EXTENDS ParallelTaskPlaces

(* The number of units before a position. *)

(* It is a natural number, and grows by one past a unit. *)
LEMMA UnitsNext ==
    ASSUME TypeOK, NEW k \in Nat
    PROVE  /\ UnitsBefore(k) \in Nat
           /\ k \in UnitAt => UnitsBefore(k + 1) = UnitsBefore(k) + 1
           /\ k \notin UnitAt => UnitsBefore(k + 1) = UnitsBefore(k)
<1> DEFINE Before(n) == {j \in UnitAt : j < n}
<1>0. UnitAt \subseteq 1 .. Len(script) /\ Len(script) \in Nat
  BY ScriptFacts DEF UnitAt
<1>1. IsFiniteSet(UnitAt) /\ UnitAt \subseteq Nat
  <2>1. IsFiniteSet(1 .. Len(script)) /\ 1 .. Len(script) \subseteq Nat
    BY <1>0, FS_Interval
  <2> QED BY <1>0, <2>1, FS_Subset, Zenon
<1>2. \A n : IsFiniteSet(Before(n))
  BY <1>1, FS_Subset
<1>3. Cardinality(Before(k)) \in Nat
  BY <1>2, FS_CardinalityType
<1>a. \A i \in Nat : i < k + 1 <=> i < k \/ i = k
  OBVIOUS
<1>b. \A i \in UnitAt : i < k + 1 <=> i < k \/ i = k
  BY <1>1, <1>a, Zenon
<1>4. k \in UnitAt => Before(k + 1) = Before(k) \cup {k}
  BY <1>b, Zenon
<1>5. k \notin UnitAt => Before(k + 1) = Before(k)
  BY <1>b, Zenon
<1>6. k \notin Before(k)
  OBVIOUS
<1>7. UnitsBefore(k) = Cardinality(Before(k)) /\ UnitsBefore(k + 1) = Cardinality(Before(k + 1))
  BY DEF UnitsBefore
<1> HIDE DEF Before
<1>8. Cardinality(Before(k) \cup {k}) = Cardinality(Before(k)) + 1
  BY <1>2, <1>6, FS_AddElement, Zenon
<1> QED BY <1>3, <1>4, <1>5, <1>7, <1>8

(* A later unit has a larger number. *)
LEMMA UnitsOrdered ==
    ASSUME TypeOK, NEW j \in UnitAt, NEW k \in Nat, j < k
    PROVE  UnitsBefore(j) + 1 <= UnitsBefore(k)
<1>0. UnitAt \subseteq 1 .. Len(script) /\ Len(script) \in Nat
  BY ScriptFacts DEF UnitAt
<1>a. IsFiniteSet(1 .. Len(script)) /\ UnitAt \subseteq Nat
  BY <1>0, FS_Interval
<1>1. IsFiniteSet({i \in UnitAt : i < k})
  <2>1. {i \in UnitAt : i < k} \subseteq 1 .. Len(script)
    BY <1>0
  <2> QED BY <1>a, <2>1, FS_Subset, Zenon
<1>2. {i \in UnitAt : i < j + 1} \subseteq {i \in UnitAt : i < k}
  <2>1. \A i \in Nat : i < j + 1 => i < k
    BY <1>a
  <2>2. \A i \in UnitAt : i < j + 1 => i < k
    BY <1>a, <2>1, Zenon
  <2> QED BY <2>2, Zenon
<1>3. UnitsBefore(j + 1) <= UnitsBefore(k)
  BY <1>1, <1>2, FS_Subset DEF UnitsBefore
<1>4. UnitsBefore(j + 1) = UnitsBefore(j) + 1
  BY <1>0, UnitsNext
<1> QED BY <1>3, <1>4

(* Two units have different numbers. *)
LEMMA UnitsDiffer ==
    ASSUME TypeOK, NEW j \in UnitAt, NEW k \in UnitAt, UnitsBefore(j) = UnitsBefore(k)
    PROVE  j = k
<1>0. j \in Nat /\ k \in Nat
  BY ScriptFacts DEF UnitAt
<1>1. UnitsBefore(j) \in Nat /\ UnitsBefore(k) \in Nat
  BY <1>0, UnitsNext
<1>2. ~(j < k)
  BY <1>0, <1>1, UnitsOrdered
<1>3. ~(k < j)
  BY <1>0, <1>1, UnitsOrdered
<1> QED BY <1>0, <1>2, <1>3

---------------------------------------------------------------------------
(* Steps that are not calls of handleNextWorkUnit count no unit. *)
QuietUnits(t) ==
    /\ workUnit' = workUnit /\ toHandle' = toHandle
    /\ workUnitIndex' = workUnitIndex /\ handled' = handled
    /\ \/ ip'[t] = ip[t]
       \/ ip'[t] = ip[t] + 1 /\ ip[t] \notin UnitAt

(* They pass synchronisation points only. *)
LEMMA UnitsQuiet ==
    ASSUME TaskInv, NEW t \in team, Step(t), ~UnitMine(t), ~UnitClaim(t)
    PROVE  QuietUnits(t)
<1>0. PlaceKnows(t) /\ t \in Thread /\ ip \in [Thread -> Nat \ {0}]
  BY DEF TaskInv, TypeOK, PlaceInv
<1>a. ASSUME At(t, {"sync", "main", "single"}) PROVE ip[t] \notin UnitAt
  BY <1>a DEF At, UnitAt
<1> USE DEF QuietUnits, Goto, Advance, envVars, unitVars
<1>1. CASE UnitShared(t) \/ ReadIndex(t) \/ SyncWait(t) \/ EnterRelease(t)
  BY <1>0, <1>1 DEF UnitShared, ReadIndex, SyncWait, EnterRelease
<1>2. CASE SyncLast(t) \/ SyncOneThread(t)
  BY <1>0, <1>2, <1>a DEF SyncLast, SyncOneThread, At
<1>3. CASE EnterWait(t)
  <2>1. At(t, {"sync", "main", "single"})
    BY <1>0, <1>3 DEF EnterWait, PlaceKnows, At
  <2> QED BY <1>0, <1>3, <1>a, <2>1 DEF EnterWait
<1>4. CASE Mark(t) \/ ReleaseOneThread(t)
  BY <1>0, <1>4 DEF Mark, ReleaseOneThread
<1>5. CASE AloneUnit(t)
  BY <1>0, <1>5, AloneUnitMine DEF AloneUnit
<1>6. CASE Unmark(t) \/ Release(t)
  <2>1. At(t, {"sync", "main", "single"})
    BY <1>0, <1>6 DEF Unmark, Release, PlaceKnows, At, InSection
  <2>2. CASE Unmark(t)
    BY <1>0, <1>a, <2>1, <2>2 DEF Unmark
  <2>3. CASE Release(t)
    BY <1>0, <1>a, <2>1, <2>3 DEF Release
  <2> QED BY <1>6, <2>2, <2>3
<1>7. CASE WakePass(t)
  <2>1. At(t, {"sync", "main", "single"})
    BY <1>0, <1>7 DEF WakePass, PlaceKnows
  <2> QED BY <1>0, <1>7, <1>a, <2>1 DEF WakePass
<1>8. CASE WakeRelease(t) \/ WakeAgain(t)
  BY <1>0, <1>8 DEF WakeRelease, WakeAgain
<1>9. CASE CompleteOneThread(t) \/ Complete(t) \/ CompleteWake(t)
  BY <1>0, <1>9 DEF CompleteOneThread, Complete, CompleteWake
<1> QED BY <1>1, <1>2, <1>3, <1>4, <1>5, <1>6, <1>7, <1>8, <1>9 DEF Step, HandleNextWorkUnit

OneHandler == \A x, y \in handled : x[1] = y[1] => x[2] = y[2]

(* The threads go on counting the units alike. *)
LEMMA QuietStep ==
    ASSUME TaskInv, NEW t \in team, Step(t), QuietUnits(t)
    PROVE  UnitInv' /\ ClaimInv' /\ OneHandler'
<1>0. /\ TypeOK /\ UnitInv /\ ClaimInv /\ OneHandler /\ t \in Thread
      /\ \A u \in team : u \in Thread /\ ip[u] \in Nat
  BY DEF TaskInv, OneHandler, TypeOK
<1>1. /\ script' = script /\ team' = team
      /\ \A u \in team \ {t} : ip'[u] = ip[u]
  BY <1>0, Frame
<1>2. UnitAt' = UnitAt /\ totalThreadCount' = totalThreadCount
  BY <1>1 DEF UnitAt, totalThreadCount
<1>3. \A k : UnitsBefore(k)' = UnitsBefore(k)
  BY <1>2 DEF UnitsBefore
<1>4. \A u \in team : UnitsBefore(ip'[u]) = UnitsBefore(ip[u])
  <2>1. UnitsBefore(ip'[t]) = UnitsBefore(ip[t])
    BY <1>0, UnitsNext DEF QuietUnits
  <2> QED BY <1>1, <2>1
<1>5. UnitInv'
  BY <1>0, <1>1, <1>2, <1>3, <1>4 DEF UnitInv, QuietUnits
<1>6. ClaimInv'
  <2>1. totalThreadCount > 1 =>
           /\ \A u \in team' : workUnit'[u] <= workUnitIndex' + 1
           /\ \A n \in 1 .. workUnitIndex' :
                  \/ \E u \in team' : toHandle'[u] = n /\ workUnit'[u] <= n
                  \/ \E x \in handled' : UnitsBefore(x[1])' + 1 = n
    BY <1>0, <1>1, <1>3 DEF ClaimInv, QuietUnits
  <2>2. ASSUME totalThreadCount = 1, NEW k \in UnitAt, k < ip'[Main]
        PROVE  <<k, Main>> \in handled'
    <3>1. t = Main
      BY <2>2, SingleStep
    <3>2. k \in Nat
      BY <1>0, ScriptFacts DEF UnitAt
    <3>3. k < ip[Main]
      BY <1>0, <2>2, <3>1, <3>2 DEF QuietUnits
    <3> QED BY <1>0, <2>2, <3>3 DEF ClaimInv, QuietUnits
  <2> QED BY <1>2, <2>1, <2>2 DEF ClaimInv
<1>7. OneHandler'
  BY <1>0 DEF OneHandler, QuietUnits
<1> QED BY <1>5, <1>6, <1>7

(* A thread alone in its team handles every unit it comes to. *)
LEMMA MineStep ==
    ASSUME TaskInv, NEW t \in team, UnitMine(t)
    PROVE  UnitInv' /\ ClaimInv' /\ OneHandler'
<1>0. Step(t) /\ totalThreadCount = 1
  BY UnitMineSingle DEF Step, HandleNextWorkUnit
<1>1. /\ TypeOK /\ ClaimInv /\ team = {Main} /\ t = Main /\ Main \in Thread
      /\ script' = script /\ team' = team
  BY <1>0, SingleStep, Frame DEF TaskInv, TypeOK
<1>2. UnitAt' = UnitAt /\ totalThreadCount' = 1
  BY <1>0, <1>1 DEF UnitAt, totalThreadCount
<1>3. /\ handled' = handled \cup {<<ip[Main], Main>>}
      /\ ip'[Main] = ip[Main] + 1 /\ ip[Main] \in Nat
  BY <1>1 DEF UnitMine, Handle, Advance, TypeOK
<1>4. ASSUME NEW k \in UnitAt, k < ip'[Main] PROVE <<k, Main>> \in handled'
  <2>1. k \in Nat
    BY <1>1, ScriptFacts DEF UnitAt
  <2>2. k < ip[Main] \/ k = ip[Main]
    BY <1>3, <1>4, <2>1
  <2> QED BY <1>0, <1>1, <1>3, <2>2 DEF ClaimInv
<1>5. ClaimInv'
  BY <1>2, <1>4 DEF ClaimInv
<1>6. \A x \in handled' : x[2] = Main
  BY <1>1, <1>3 DEF TypeOK
<1>7. OneHandler'
  BY <1>6 DEF OneHandler
<1> QED BY <1>2, <1>5, <1>7 DEF UnitInv

(* A unit goes to the thread that claims its number, which nobody else has *)
(* claimed and nobody else will be given.                                  *)
LEMMA ClaimStep ==
    ASSUME TaskInv, NEW t \in team, UnitClaim(t)
    PROVE  UnitInv' /\ ClaimInv' /\ OneHandler'
<1> DEFINE W == workUnitIndex
           k == ip[t]
           n == workUnit[t]
<1>0. Step(t) /\ totalThreadCount > 1
  <2>1. Step(t)
    BY DEF Step, HandleNextWorkUnit
  <2>2. totalThreadCount # 1
    BY <2>1, SingleStep DEF UnitClaim
  <2> QED BY <2>1, <2>2, TeamFacts DEF TaskInv
<1>1. /\ TypeOK /\ UnitInv /\ ClaimInv /\ OneHandler /\ t \in Thread
      /\ \A u \in team : /\ u \in Thread /\ ip[u] \in Nat
                          /\ workUnit[u] \in Nat /\ toHandle[u] \in Nat
      /\ W \in Nat /\ k \in Nat
      /\ \A x \in handled : x[1] \in Nat /\ x[2] \in team
  BY DEF TaskInv, OneHandler, TypeOK
<1>2. /\ script' = script /\ team' = team
      /\ \A u \in team \ {t} : /\ ip'[u] = ip[u] /\ workUnit'[u] = workUnit[u]
                                /\ toHandle'[u] = toHandle[u]
  BY <1>0, <1>1, Frame
<1>3. UnitAt' = UnitAt /\ totalThreadCount' = totalThreadCount
  BY <1>2 DEF UnitAt, totalThreadCount
<1>4. \A j : UnitsBefore(j)' = UnitsBefore(j)
  BY <1>3 DEF UnitsBefore
<1>5. k \in UnitAt
  <2>1. PlaceKnows(t) /\ pc[t] = "claim"
    BY <1>1 DEF TaskInv, PlaceInv, UnitClaim
  <2> QED BY <2>1 DEF PlaceKnows, At, UnitAt
<1>6. /\ UnitsBefore(k) \in Nat /\ UnitsBefore(k + 1) = UnitsBefore(k) + 1
      /\ n = UnitsBefore(k) + 1 /\ n \in Nat /\ n <= W + 1
      /\ toHandle[t] \in Nat /\ toHandle[t] <= W
  BY <1>0, <1>1, <1>5, UnitsNext DEF UnitInv, ClaimInv
<1>7. /\ ip'[t] = k + 1 /\ workUnit'[t] = n + 1
      /\ \/ n > toHandle[t] /\ workUnitIndex' = W + 1 /\ toHandle'[t] = W + 1
         \/ n <= toHandle[t] /\ workUnitIndex' = W /\ toHandle'[t] = toHandle[t]
      /\ handled' = IF n = toHandle'[t] THEN handled \cup {<<k, t>>} ELSE handled
  <2>1. ip'[t] = k + 1 /\ workUnit'[t] = n + 1
    BY <1>1 DEF UnitClaim, NextUnit, Advance, TypeOK
  <2>2. \/ n > toHandle[t] /\ workUnitIndex' = W + 1 /\ toHandle'[t] = W + 1
        \/ n <= toHandle[t] /\ workUnitIndex' = W /\ toHandle'[t] = toHandle[t]
    <3>0. NextUnit(t) /\ toHandle \in [Thread -> Nat]
      BY <1>1 DEF UnitClaim, TypeOK
    <3>1. CASE n > toHandle[t]
      BY <1>1, <3>0, <3>1 DEF NextUnit
    <3>2. CASE ~(n > toHandle[t])
      <4>1. workUnitIndex' = W /\ toHandle' = toHandle
        BY <3>0, <3>2 DEF NextUnit
      <4>2. n <= toHandle[t]
        BY <1>6, <3>2
      <4> QED BY <4>1, <4>2
    <3> QED BY <3>1, <3>2
  <2>3. handled' = IF n = toHandle'[t] THEN handled \cup {<<k, t>>} ELSE handled
    BY DEF UnitClaim, Handle
  <2> QED BY <2>1, <2>2, <2>3
<1>8. /\ W <= workUnitIndex' /\ workUnitIndex' \in Nat
      /\ toHandle'[t] <= workUnitIndex' /\ n <= workUnitIndex'
  BY <1>1, <1>6, <1>7
(* A unit handled before does not get the number of t, unless it was t's. *)
<1>9. ASSUME NEW x \in handled
      PROVE  /\ x[1] \in UnitAt /\ UnitsBefore(x[1]) \in Nat
             /\ UnitsBefore(x[1]) + 1 <= W
             /\ \A u \in team \ {x[2]} : toHandle'[u] # UnitsBefore(x[1]) + 1
  <2>1. /\ x[1] \in UnitAt /\ UnitsBefore(x[1]) + 1 <= W
        /\ \A u \in team \ {x[2]} : toHandle[u] # UnitsBefore(x[1]) + 1
    BY <1>0, <1>1 DEF UnitInv
  <2>2. UnitsBefore(x[1]) \in Nat
    BY <1>1, UnitsNext
  <2>3. ASSUME NEW u \in team \ {x[2]} PROVE toHandle'[u] # UnitsBefore(x[1]) + 1
    <3>1. CASE u = t
      BY <1>1, <1>7, <2>1, <2>2, <3>1
    <3>2. CASE u # t
      BY <1>2, <2>1, <3>2
    <3> QED BY <3>1, <3>2
  <2> QED BY <2>1, <2>2, <2>3
(* Nobody else has the number of t. *)
<1>10. /\ toHandle'[t] # 0 => \A u \in team \ {t} : toHandle'[u] # toHandle'[t]
       /\ \A u \in team : toHandle'[u] <= workUnitIndex'
  <2>1. ASSUME NEW u \in team \ {t}, toHandle'[t] # 0 PROVE toHandle'[u] # toHandle'[t]
    <3>1. toHandle[u] \in Nat /\ toHandle[u] <= W
          /\ (toHandle[u] = toHandle[t] => toHandle[t] = 0)
      BY <1>0, <1>1 DEF UnitInv
    <3> QED BY <1>1, <1>2, <1>6, <1>7, <2>1, <3>1
  <2>2. ASSUME NEW u \in team PROVE toHandle'[u] <= workUnitIndex'
    <3>1. toHandle[u] \in Nat /\ toHandle[u] <= W
      BY <1>0, <1>1 DEF UnitInv
    <3> QED BY <1>1, <1>2, <1>8, <3>1
  <2> QED BY <2>1, <2>2
<1>11. UnitInv'
  <2>1. \A u \in team : workUnit'[u] = UnitsBefore(ip'[u]) + 1
    BY <1>0, <1>1, <1>2, <1>6, <1>7 DEF UnitInv
  <2>2. \A u, v \in team : toHandle'[u] = toHandle'[v] /\ toHandle'[u] # 0 => u = v
    <3>1. SUFFICES ASSUME NEW u \in team, NEW v \in team,
                          toHandle'[u] = toHandle'[v], toHandle'[u] # 0, u # v
                   PROVE  FALSE
      OBVIOUS
    <3>2. u # t /\ v # t
      BY <1>10, <3>1
    <3> QED BY <1>0, <1>1, <1>2, <3>1, <3>2 DEF UnitInv
  <2>3. ASSUME NEW x \in handled'
        PROVE  /\ x[1] \in UnitAt
               /\ UnitsBefore(x[1]) + 1 <= workUnitIndex'
               /\ \A u \in team \ {x[2]} : toHandle'[u] # UnitsBefore(x[1]) + 1
    <3>1. CASE x \in handled
      <4>1. /\ x[1] \in UnitAt /\ UnitsBefore(x[1]) \in Nat
            /\ UnitsBefore(x[1]) + 1 <= W
            /\ \A u \in team \ {x[2]} : toHandle'[u] # UnitsBefore(x[1]) + 1
        BY <1>9, <3>1
      <4> QED BY <1>1, <1>8, <4>1
    <3>2. CASE x \notin handled
      <4>1. x = <<k, t>> /\ n = toHandle'[t]
        BY <1>7, <3>2
      <4>2. x[1] = k /\ x[2] = t
        BY <4>1
      <4> QED BY <1>5, <1>6, <1>8, <1>10, <4>1, <4>2
    <3> QED BY <3>1, <3>2
  <2> HIDE DEF W, k, n
  <2> QED BY <1>2, <1>3, <1>4, <1>10, <2>1, <2>2, <2>3 DEF UnitInv
<1>12. OneHandler'
  <2>1. ASSUME NEW x \in handled, x[1] = k, n = toHandle'[t] PROVE x[2] = t
    BY <1>6, <1>9, <2>1
  <2>2. ASSUME NEW x \in handled', NEW y \in handled', x[1] = y[1] PROVE x[2] = y[2]
    <3>1. CASE x \in handled /\ y \in handled
      BY <1>1, <2>2, <3>1 DEF OneHandler
    <3>2. CASE x \in handled /\ y \notin handled
      <4>1. y = <<k, t>> /\ n = toHandle'[t]
        BY <1>7, <3>2
      <4> QED BY <2>1, <2>2, <3>2, <4>1
    <3>3. CASE x \notin handled /\ y \in handled
      <4>1. x = <<k, t>> /\ n = toHandle'[t]
        BY <1>7, <3>3
      <4> QED BY <2>1, <2>2, <3>3, <4>1
    <3>4. CASE x \notin handled /\ y \notin handled
      BY <1>7, <3>4
    <3> QED BY <3>1, <3>2, <3>3, <3>4
  <2> QED BY <2>2 DEF OneHandler
<1>13. ClaimInv'
  <2>1. \A u \in team : workUnit'[u] <= workUnitIndex' + 1
    <3>1. \A u \in team : workUnit[u] <= W + 1
      BY <1>0, <1>1 DEF ClaimInv
    <3> QED BY <1>1, <1>2, <1>7, <1>8, <3>1
  <2>2. ASSUME NEW m \in 1 .. workUnitIndex'
        PROVE  \/ \E u \in team : toHandle'[u] = m /\ workUnit'[u] <= m
               \/ \E x \in handled' : UnitsBefore(x[1]) + 1 = m
    <3>0. m \in Nat
      BY <1>8
    <3>1. CASE m = toHandle'[t] /\ n <= m
      <4>1. CASE n = m
        <5>1. <<k, t>> \in handled' /\ <<k, t>>[1] = k
          BY <1>7, <3>1, <4>1
        <5> HIDE DEF k
        <5> QED BY <1>6, <4>1, <5>1
      <4>2. CASE n # m
        <5>1. workUnit'[t] = n + 1 /\ n \in Nat /\ n <= m
          BY <1>6, <1>7, <3>1
        <5>2. workUnit'[t] <= m
          <6> HIDE DEF n
          <6> QED BY <3>0, <4>2, <5>1
        <5> QED BY <3>1, <5>2, Zenon
      <4> QED BY <4>1, <4>2
    <3>2. CASE m # toHandle'[t] \/ n > m
      <4>0. m \in 1 .. W
        BY <1>1, <1>6, <1>7, <3>0, <3>2
      <4>1. CASE \E u \in team : toHandle[u] = m /\ workUnit[u] <= m
        <5>1. PICK u \in team : toHandle[u] = m /\ workUnit[u] <= m
          BY <4>1
        <5>2. u # t
          BY <1>1, <1>6, <1>7, <3>0, <3>2, <5>1
        <5>3. toHandle'[u] = m /\ workUnit'[u] <= m
          BY <1>2, <5>1, <5>2
        <5> QED BY <5>3, Zenon
      <4>2. CASE \E x \in handled : UnitsBefore(x[1]) + 1 = m
        <5>1. handled \subseteq handled'
          BY <1>7
        <5> QED BY <4>2, <5>1
      <4> QED BY <1>0, <1>1, <4>0, <4>1, <4>2 DEF ClaimInv
    <3> QED BY <1>6, <3>0, <3>1, <3>2
  <2> HIDE DEF W, k, n
  <2>3. totalThreadCount' # 1
    BY <1>0, <1>3
  <2> QED BY <1>2, <1>4, <2>1, <2>2, <2>3 DEF ClaimInv
<1> QED BY <1>11, <1>12, <1>13
=============================================================================
