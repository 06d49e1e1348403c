--------------------------- MODULE RWMutexProofs ---------------------------
(* Proofs about RWMutex, for any finite set of threads and any nesting. *)
EXTENDS RWMutexSteps

(* The writer leaves one of its own reads. *)
LEMMA ExitReadAsWriterStep ==
    ASSUME IInv, NEW t \in Thread, ExitReadAsWriter(t)
    PROVE  IInv'
<1> USE DEF IInv, ExitReadAsWriter, MayExit, Pop, monVars
<1>0. /\ held \in [Thread -> Seq(Kind)] /\ held[t] \in Seq(Kind)
      /\ t \in Writers /\ held[t][1] = "W" /\ Len(held[t]) > 1
      /\ Len(held[t]) <= MaxHold
  BY DEF TypeOK, Kind, WriterInv, HeldInv, Last
<1>1. /\ held' \in [Thread -> Seq(Kind)]
      /\ held'[t] = Front(held[t])
      /\ Len(held'[t]) = Len(held[t]) - 1
      /\ held'[t][1] = "W"
      /\ \A u \in Thread \ {t} : held'[u] = held[u]
  <2>1. held' = [held EXCEPT ![t] = Front(@)] /\ held[t] # <<>>
    OBVIOUS
  <2>2. /\ Front(held[t]) \in Seq(Kind)
        /\ Len(Front(held[t])) = Len(held[t]) - 1
        /\ \A i \in 1 .. Len(held[t]) - 1 : Front(held[t])[i] = held[t][i]
    <3>1. FrontIs(held[t], Front(held[t]))
      BY <1>0, <2>1, FrontOfSeq, Zenon
    <3> QED BY <3>1 DEF FrontIs
  <2>3. held'[t] = Front(held[t]) /\ \A u \in Thread \ {t} : held'[u] = held[u]
    BY <1>0, <2>1
  <2> QED BY <1>0, <2>1, <2>2, <2>3
<1>2. TypeOK' /\ MonitorInv'
  BY <1>1 DEF TypeOK, syncMon!TypeOK, MonitorInv, Kind
<1>3. Writers' = Writers
  BY <1>0, <1>1 DEF Writers, Contains
<1>4. Holds("W")' = Holds("W")
  <2>1. "R" \in Kind /\ "W" \in Kind \ {"R"}
    BY DEF Kind
  <2>2. held[t] # <<>> /\ Len(held[t]) <= MaxHold /\ Last(held[t]) = "R"
    BY <1>0
  <2> HIDE DEF IInv, ExitReadAsWriter
  <2>3. IsPop(held, held', t, "R")
    BY <1>0, <1>1, <2>1, <2>2 DEF IsPop
  <2>4. CountsBy(held, held', "R", -1)
    BY <2>3, PopCounts, Zenon
  <2> QED BY <2>1, <2>4 DEF Holds, CountsBy
<1>5. HeldInv'
  BY <1>0, <1>1, <1>3, RWMutexAssumption DEF HeldInv, ReadEntry, WriteEntry
<1>6. WriterInv'
  BY <1>3 DEF WriterInv
<1>7. Writers = {t}
  BY <1>0, OnlyWriter
<1>8. StatusCountsHolders' /\ WriterExcludesAll'
  BY <1>1, <1>3, <1>4, <1>7 DEF StatusCountsHolders, WriterExcludesAll
<1> QED BY <1>2, <1>5, <1>6, <1>8

(* Notifying one waiter leaves a wait list without duplicates, whose       *)
(* members were on it before.                                              *)
LEMMA NotifyKeeps ==
    ASSUME NEW w \in Seq(Thread), NEW v, v = w \/ (w # <<>> /\ v = Tail(w)),
           \A i, j \in DOMAIN w : w[i] = w[j] => i = j
    PROVE  /\ \A i, j \in DOMAIN v : v[i] = v[j] => i = j
           /\ \A i \in DOMAIN v : \E j \in DOMAIN w : v[i] = w[j]
<1>1. CASE v = w
  BY <1>1
<1>2. CASE w # <<>> /\ v = Tail(w)
  <2>1. /\ Len(v) = Len(w) - 1 /\ v \in Seq(Thread)
        /\ \A i \in 1 .. Len(v) : v[i] = w[i + 1]
    BY <1>2, HeadTailProperties
  <2>2. Len(w) \in Nat /\ DOMAIN v = 1 .. Len(v) /\ DOMAIN w = 1 .. Len(w)
    BY <2>1
  <2>3. \A i \in DOMAIN v : i \in Int /\ i + 1 \in DOMAIN w /\ v[i] = w[i + 1]
    BY <2>1, <2>2
  <2>4. ASSUME NEW i \in DOMAIN v, NEW j \in DOMAIN v, v[i] = v[j] PROVE i = j
    <3>1. w[i + 1] = w[j + 1] /\ i + 1 \in DOMAIN w /\ j + 1 \in DOMAIN w
      BY <2>3, <2>4
    <3>2. i + 1 = j + 1
      BY <3>1
    <3> QED BY <2>3, <3>2
  <2> QED BY <2>3, <2>4
<1> QED BY <1>1, <1>2

(* A reader leaves; the last one notifies one waiter. *)
LEMMA ExitReadUpdateStep ==
    ASSUME IInv, NEW t \in Thread, ExitReadUpdate(t)
    PROVE  IInv'
<1> USE DEF IInv, ExitReadUpdate, Pop, Goto
<1>0. /\ held \in [Thread -> Seq(Kind)] /\ held[t] \in Seq(Kind)
      /\ held[t] # <<>> /\ t \notin Writers /\ Len(held[t]) <= MaxHold
  BY DEF TypeOK, Kind, HeldInv
<1>1. Last(held[t]) = "R" /\ "R" \in Kind
  BY <1>0 DEF Kind, Last, Writers, Contains
<1>2. /\ held' \in [Thread -> Seq(Kind)]
      /\ held'[t] = Front(held[t])
      /\ Len(held'[t]) = Len(held[t]) - 1
      /\ \A i \in 1 .. Len(held[t]) - 1 : held'[t][i] = held[t][i]
      /\ \A u \in Thread \ {t} : held'[u] = held[u]
  <2>1. held' = [held EXCEPT ![t] = Front(@)]
    OBVIOUS
  <2>2. /\ Front(held[t]) \in Seq(Kind)
        /\ Len(Front(held[t])) = Len(held[t]) - 1
        /\ \A i \in 1 .. Len(held[t]) - 1 : Front(held[t])[i] = held[t][i]
    <3>1. FrontIs(held[t], Front(held[t]))
      BY <1>0, FrontOfSeq, Zenon
    <3> QED BY <3>1 DEF FrontIs
  <2> HIDE DEF IInv, ExitReadUpdate
  <2> QED BY <1>0, <2>1, <2>2
<1>3. Writers = {}
  BY <1>0 DEF WriterExcludesAll, Writers
<1>4. Writers' = {}
  <2>1. \A u \in Thread : \A i \in 1 .. Len(held[u]) : held[u][i] # "W"
    BY <1>3 DEF Writers, Contains
  <2>2. \A u \in Thread : \A i \in 1 .. Len(held'[u]) : held'[u][i] # "W"
    BY <1>0, <1>2, <2>1
  <2> QED BY <2>2 DEF Writers, Contains
<1>5. Cardinality(Holds("R")') = Cardinality(Holds("R")) - 1
  <2> HIDE DEF IInv, ExitReadUpdate
  <2>1. IsPop(held, held', t, "R")
    BY <1>0, <1>1, <1>2 DEF IsPop
  <2>2. CountsBy(held, held', "R", -1)
    BY <2>1, PopCounts, Zenon
  <2> QED BY <2>2, HoldsFinite DEF Holds, CountsBy
<1>6. /\ waiting' = waiting \/ (waiting # <<>> /\ waiting' = Tail(waiting))
      /\ owner' = owner /\ count' = count /\ saved' = saved
  BY DEF syncMon!Notify, monVars
<1>7. TypeOK'
  <2>1. waiting' \in Seq(Thread)
    <3>1. waiting \in Seq(Thread)
      BY DEF TypeOK, syncMon!TypeOK
    <3> HIDE DEF IInv, ExitReadUpdate
    <3> QED BY <1>6, <3>1, HeadTailProperties
  <2> QED BY <1>2, <1>6, <2>1 DEF TypeOK, syncMon!TypeOK, Place, Kind
<1>8. MonitorInv'
  <2>1. /\ waiting \in Seq(Thread)
        /\ \A i \in DOMAIN waiting : pc[waiting[i]] \in WaitPlaces
        /\ \A i, j \in DOMAIN waiting : waiting[i] = waiting[j] => i = j
        /\ \A u \in Thread : pc[u] \in WaitPlaces => pc'[u] \in WaitPlaces
    BY DEF TypeOK, syncMon!TypeOK, MonitorInv, WaitPlaces
  <2>2. /\ \A i, j \in DOMAIN waiting' : waiting'[i] = waiting'[j] => i = j
        /\ \A i \in DOMAIN waiting' : pc'[waiting'[i]] \in WaitPlaces
    <3>1. /\ \A i, j \in DOMAIN waiting' : waiting'[i] = waiting'[j] => i = j
          /\ \A i \in DOMAIN waiting' : \E j \in DOMAIN waiting : waiting'[i] = waiting[j]
      <4> HIDE DEF IInv, ExitReadUpdate
      <4> QED BY <1>6, <2>1, NotifyKeeps
    <3>2. \A j \in DOMAIN waiting : waiting[j] \in Thread
      BY <2>1
    <3> HIDE DEF IInv, ExitReadUpdate
    <3> QED BY <2>1, <3>1, <3>2
  <2>4. /\ \A u \in Thread : owner' = u <=> pc'[u] \in Inside
        /\ owner' # NoThread => count' = 1
        /\ \A u \in Thread : saved'[u] = IF pc'[u] \in WaitPlaces THEN 1 ELSE 0
    BY <1>6 DEF MonitorInv, TypeOK, Inside, WaitPlaces
  <2> QED BY <2>2, <2>4 DEF MonitorInv
<1>9. HeldInv'
  BY <1>0, <1>2, <1>4, RWMutexAssumption DEF TypeOK, HeldInv, ReadEntry, WriteEntry
<1>10. WriterInv'
  BY <1>3, <1>4 DEF TypeOK, WriterInv, MonitorInv, Inside
<1>11. StatusCountsHolders' /\ WriterExcludesAll'
  BY <1>3, <1>4, <1>5 DEF StatusCountsHolders, WriterExcludesAll, TypeOK
<1> QED BY <1>7, <1>8, <1>9, <1>10, <1>11

(* The writer leaves one level; status is 0 exactly when it was the last. *)
LEMMA ExitWriteUpdateStep ==
    ASSUME IInv, NEW t \in Thread, ExitWriteUpdate(t)
    PROVE  IInv'
<1> USE DEF IInv, ExitWriteUpdate, Pop, Goto, monVars
<1>0. /\ held \in [Thread -> Seq(Kind)] /\ held[t] \in Seq(Kind)
      /\ held[t] # <<>> /\ Len(held[t]) <= MaxHold
      /\ Last(held[t]) = "W" /\ "W" \in Kind
  BY DEF TypeOK, Kind, HeldInv
<1>1. t \in Writers /\ held[t][1] = "W" /\ writer = t
  <2>1. t \in Writers
    BY <1>0 DEF Writers, Contains, Last
  <2> QED BY <2>1 DEF HeldInv, WriterInv
<1>2. Writers = {t} /\ \A u \in Thread \ {t} : held[u] = <<>>
  BY <1>1, OnlyWriter DEF WriterExcludesAll
<1>3. /\ held' \in [Thread -> Seq(Kind)]
      /\ held'[t] = Front(held[t])
      /\ Len(held'[t]) = Len(held[t]) - 1
      /\ \A i \in 1 .. Len(held[t]) - 1 : held'[t][i] = held[t][i]
      /\ \A u \in Thread \ {t} : held'[u] = held[u]
  <2>1. held' = [held EXCEPT ![t] = Front(@)]
    OBVIOUS
  <2>2. /\ Front(held[t]) \in Seq(Kind)
        /\ Len(Front(held[t])) = Len(held[t]) - 1
        /\ \A i \in 1 .. Len(held[t]) - 1 : Front(held[t])[i] = held[t][i]
    <3>1. FrontIs(held[t], Front(held[t]))
      BY <1>0, FrontOfSeq, Zenon
    <3> QED BY <3>1 DEF FrontIs
  <2> HIDE DEF IInv, ExitWriteUpdate
  <2> QED BY <1>0, <2>1, <2>2
<1>4. status' = - Cardinality(HoldsOf(held', "W"))
  <2>1. Cardinality(HoldsOf(held', "W")) = Cardinality(HoldsOf(held, "W")) - 1
    <3> HIDE DEF IInv, ExitWriteUpdate
    <3>1. IsPop(held, held', t, "W")
      BY <1>0, <1>3 DEF IsPop
    <3>2. CountsBy(held, held', "W", -1)
      BY <3>1, PopCounts, Zenon
    <3> QED BY <3>2, HoldsFinite DEF CountsBy
  <2>2. status = - Cardinality(HoldsOf(held, "W"))
    BY <1>2 DEF StatusCountsHolders, Holds
  <2>3. Cardinality(HoldsOf(held, "W")) \in Nat
    BY HoldsFinite
  <2> QED BY <2>1, <2>2, <2>3
<1>5. CASE Len(held[t]) = 1
  <2>1. \A u \in Thread : held'[u] = <<>>
    BY <1>0, <1>2, <1>3, <1>5
  <2>2. status' = 0 /\ Cardinality(Holds("R")') = 0
    <3> HIDE DEF IInv, ExitWriteUpdate
    <3>1. "R" \in Kind
      BY DEF Kind
    <3>2. \A k \in Kind : Cardinality(HoldsOf(held', k)) = 0
      BY <1>3, <2>1, HeldCounts
    <3> QED BY <1>0, <1>4, <3>1, <3>2 DEF Holds
  <2>3. Writers' = {}
    BY <2>1 DEF Writers, Contains
  <2>4. TypeOK'
    BY <1>3 DEF TypeOK, syncMon!TypeOK, Place, Kind
  <2>5. MonitorInv'
    BY <2>2 DEF TypeOK, syncMon!TypeOK, MonitorInv, Inside, WaitPlaces
  <2>6. HeldInv'
    BY <2>1, <2>2, <2>3, <1>2, RWMutexAssumption DEF TypeOK, HeldInv, ReadEntry, WriteEntry
  <2>7. WriterInv'
    BY <1>1, <2>2, <2>3 DEF TypeOK, WriterInv, MonitorInv, Inside
  <2>8. StatusCountsHolders' /\ WriterExcludesAll'
    BY <2>2, <2>3 DEF StatusCountsHolders, WriterExcludesAll
  <2> QED BY <2>4, <2>5, <2>6, <2>7, <2>8
<1>6. CASE Len(held[t]) # 1
  <2>1. Len(held'[t]) > 0 /\ held'[t][1] = "W" /\ held'[t] # <<>>
    BY <1>0, <1>1, <1>3, <1>6
  <2>2. Writers' = {t}
    BY <1>2, <1>3, <2>1 DEF Writers, Contains
  <2>3. status' # 0
    <3> HIDE DEF IInv, ExitWriteUpdate
    <3>1. 1 \in 1 .. MaxHold /\ 1 <= Len(held'[t])
      BY <1>0, <1>3, <2>1, RWMutexAssumption
    <3>2. Cardinality(HoldsOf(held', "W")) > 0
      BY <1>0, <1>3, <2>1, <3>1, HeldCounts
    <3>3. Cardinality(HoldsOf(held', "W")) \in Nat
      BY HoldsFinite
    <3> QED BY <1>4, <3>2, <3>3
  <2>4. TypeOK'
    BY <1>3 DEF TypeOK, syncMon!TypeOK, Place, Kind
  <2>5. MonitorInv'
    BY <2>3 DEF TypeOK, syncMon!TypeOK, MonitorInv, Inside, WaitPlaces
  <2>6. HeldInv'
    BY <1>0, <1>2, <1>3, <2>1, <2>2, <2>3, RWMutexAssumption
    DEF TypeOK, HeldInv, ReadEntry, WriteEntry
  <2>7. WriterInv'
    BY <1>1, <1>2, <2>2, <2>3 DEF TypeOK, WriterInv, MonitorInv, Inside
  <2>8. StatusCountsHolders' /\ WriterExcludesAll'
    BY <1>2, <1>3, <1>4, <2>2 DEF StatusCountsHolders, WriterExcludesAll, Holds
  <2> QED BY <2>4, <2>5, <2>6, <2>7, <2>8
<1> QED BY <1>5, <1>6

(* After a fork the child holds what the forking thread held, or aborts. *)
LEMMA ForkResetStep ==
    ASSUME IInv, NEW t \in Thread, ForkReset(t)
    PROVE  IInv'
<1> USE DEF IInv
<1>0. /\ pc[t] = "idle" /\ owner' = NoThread /\ waiting' = <<>> /\ count' = count
      /\ saved' = [u \in Thread |-> 0] /\ clients' = clients
      /\ held' = [u \in Thread |-> IF u = t THEN held[t] ELSE <<>>]
      /\ pc' = [u \in Thread |-> IF u = t /\ status <= 0 THEN "idle" ELSE "gone"]
      /\ IF status <= 0 /\ writer # t
         THEN writer' = NoThread /\ status' = 0
         ELSE writer' = writer /\ status' = status
  BY DEF ForkReset
<1>1. held \in [Thread -> Seq(Kind)] /\ status \in Int /\ held[t] \in Seq(Kind)
  BY DEF TypeOK, Kind
<1>2. TypeOK'
  <2>1. held' \in [Thread -> Seq({"R", "W"})]
    BY <1>0, <1>1 DEF Kind
  <2>2. pc' \in [Thread -> Place]
    BY <1>0 DEF Place
  <2>3. writer' \in Thread \cup {NoThread} /\ status' \in Int
    BY <1>0 DEF TypeOK
  <2> QED BY <1>0, <2>1, <2>2, <2>3 DEF TypeOK, syncMon!TypeOK
<1>3. MonitorInv'
  BY <1>0, RWMutexAssumption DEF MonitorInv, Inside, WaitPlaces
<1>4. Writers' = Writers \cap {t} /\ \A u \in Thread \ {t} : u \notin Writers'
  BY <1>0 DEF Writers, Contains
<1>5. /\ t \in Writers <=> writer = t
      /\ Writers # {} => status < 0
      /\ status < 0 => Writers # {}
      /\ status = 0 => held[t] = <<>>
  BY <1>0, StatusTells DEF WriterInv
<1>6. HeldInv'
  <2>1. \A u \in Thread : pc'[u] \in {"idle", "gone"}
    BY <1>0
  <2>2. \A u \in Thread : pc'[u] \notin ReadEntry \cup WriteEntry \cup
           {"release", "exit_read", "exit_read_update", "exit_write", "exit_write_update"}
    BY <2>1 DEF ReadEntry, WriteEntry
  <2>3. held'[t] = held[t] /\ \A u \in Thread \ {t} : held'[u] = <<>>
    BY <1>0
  <2>4. Len(held'[t]) <= MaxHold /\ (t \in Writers' => held'[t][1] = "W")
    BY <1>4, <2>3 DEF HeldInv
  <2>5. \A u \in Thread \ {t} : Len(held'[u]) <= MaxHold
    BY <2>3, RWMutexAssumption
  <2> HIDE DEF IInv
  <2>6. \A u \in Thread :
           Len(held'[u]) <= MaxHold /\ (u \in Writers' => held'[u][1] = "W")
    BY <1>4, <2>4, <2>5, Zenon
  <2> QED BY <2>2, <2>6, Zenon DEF HeldInv
<1>7. WriterExcludesAll'
  BY <1>0, <1>4 DEF WriterExcludesAll
<1>8. WriterInv'
  <2>1. \A u \in Thread : pc'[u] # "claim" /\ pc'[u] # "release"
    BY <1>0
  <2>2. ASSUME NEW u \in Thread, writer' = u PROVE u = t /\ t \in Writers
    <3>1. CASE writer = t
      BY <1>0, <1>5, <2>2, <3>1
    <3>2. CASE status <= 0 /\ writer # t
      BY <1>0, <2>2, <3>2, RWMutexAssumption
    <3>3. CASE status > 0
      BY <1>0, <1>1, <1>5, <2>2, <3>3 DEF WriterInv
    <3> QED BY <1>1, <3>1, <3>2, <3>3
  <2>3. t \in Writers => writer' = t
    BY <1>0, <1>5
  <2> QED BY <1>4, <2>1, <2>2, <2>3 DEF WriterInv
<1>9. StatusCountsHolders'
  <2>1. CASE status > 0
    BY <1>0, <1>1, <2>1 DEF StatusCountsHolders
  <2>2. CASE status <= 0 /\ writer = t
    <3>1. Writers = {t} /\ Writers' = {t}
      BY <1>4, <1>5, <2>2, OnlyWriter
    <3>2. held' = held
      BY <1>0, <1>1, <3>1 DEF WriterExcludesAll
    <3>3. Holds("W")' = Holds("W")
      BY <3>2 DEF Holds
    <3> QED BY <1>0, <2>2, <3>1, <3>3 DEF StatusCountsHolders
  <2>3. CASE status <= 0 /\ writer # t
    <3>1. held[t] = <<>>
      <4>1. CASE status = 0
        BY <1>5, <4>1
      <4>2. CASE status < 0
        <5>1. PICK u \in Writers : u # t
          BY <1>5, <2>3, <4>2
        <5> QED BY <5>1 DEF WriterExcludesAll
      <4> QED BY <1>1, <2>3, <4>1, <4>2
    <3>2. \A u \in Thread : held'[u] = <<>>
      BY <1>0, <3>1
    <3>3. held' \in [Thread -> Seq(Kind)] /\ "R" \in Kind
      BY <1>0, <1>1 DEF Kind
    <3>4. Cardinality(HoldsOf(held', "R")) = 0
      BY <3>2, <3>3, HeldCounts
    <3>5. Writers' = {}
      BY <3>2 DEF Writers, Contains
    <3> QED BY <1>0, <2>3, <3>4, <3>5 DEF StatusCountsHolders, Holds
  <2> QED BY <1>1, <2>1, <2>2, <2>3
<1> QED BY <1>2, <1>3, <1>6, <1>7, <1>8, <1>9

---------------------------------------------------------------------------
(* The invariant is inductive. *)
THEOREM Inductive == IInv /\ [Next]_vars => IInv'
<1> SUFFICES ASSUME IInv, [Next]_vars PROVE IInv'
  OBVIOUS
<1>1. ASSUME NEW t \in Thread, EnterRead(t) PROVE IInv'
  BY <1>1, EnterReadAsWriterStep, CallStep, EnterMonitorStep, EnterReadTakeStep,
     WaitMonitorStep, ResumeMonitorStep DEF EnterRead, EnterReadWait
<1>2. ASSUME NEW t \in Thread, ExitRead(t) PROVE IInv'
  BY <1>2, ExitReadAsWriterStep, CallStep, EnterMonitorStep, ExitReadUpdateStep
  DEF ExitRead
<1>3. ASSUME NEW t \in Thread, EnterWrite(t) PROVE IInv'
  BY <1>3, RecurseStep, CallStep, EnterMonitorStep, TakeStep, ClaimStep,
     WaitMonitorStep, ResumeMonitorStep DEF EnterWrite, EnterWriteWait
<1>4. ASSUME NEW t \in Thread, TryEnterWrite(t) PROVE IInv'
  BY <1>4, CallStep, EnterMonitorStep, TakeStep DEF TryEnterWrite
<1>5. ASSUME NEW t \in Thread, ExitWrite(t) PROVE IInv'
  BY <1>5, CallStep, EnterMonitorStep, ExitWriteUpdateStep, ReleaseStep
  DEF ExitWrite
<1>6. ASSUME NEW t \in Thread, LeaveMonitor(t) \/ ForkReset(t) PROVE IInv'
  BY <1>6, LeaveMonitorStep, ForkResetStep
<1> QED BY <1>1, <1>2, <1>3, <1>4, <1>5, <1>6, ClientStep DEF Next, Call

(* The invariant holds in every reachable state. *)
THEOREM Invariance == Spec => []IInv
  BY Initially, Inductive, PTL DEF Spec

(* Every reachable state of the mutex is well typed. *)
THEOREM TypeCorrect == Spec => []TypeOK
  BY Invariance, PTL DEF IInv

(* Write access excludes every other access, for any number of threads,    *)
(* any nesting, and across a fork.                                         *)
THEOREM Exclusion == Spec => []WriterExcludesAll
  BY Invariance, PTL DEF IInv

(* status is always the count of what the clients hold. *)
THEOREM StatusCorrect == Spec => []StatusCountsHolders
  BY Invariance, PTL DEF IInv

(* is_writelocked, which reads status and writer without syncMon, never    *)
(* misses a writer.                                                        *)
THEOREM WriterSeen == Spec => []WriterIsSeen
<1>1. IInv => WriterIsSeen
  <2> SUFFICES ASSUME IInv, NEW t \in Writers PROVE IsWriteLocked
    BY DEF WriterIsSeen
  <2>1. CASE writer = t
    BY <2>1, RWMutexAssumption DEF IsWriteLocked, Writers
  <2>2. CASE pc[t] = "claim"
    <3>1. t \in Thread /\ pc[t] # "gone"
      BY <2>2 DEF Writers
    <3> QED BY <3>1, StatusTells DEF IInv, IsWriteLocked
  <2> QED BY <2>1, <2>2 DEF IInv, WriterInv, Writers
<1> QED BY <1>1, Invariance, PTL

(* writer, which the recursive paths compare with the caller without       *)
(* syncMon, never names a thread without write access, but for the one     *)
(* that is about to clear it; nor a thread that a fork has lost.           *)
THEOREM WriterHolds == Spec => []WriterIsHolder
<1>1. IInv => WriterIsHolder
  BY DEF IInv, TypeOK, WriterInv, WriterIsHolder
<1> QED BY <1>1, Invariance, PTL

(* No step forgets a waiter. *)
LEMMA WaiterStep ==
    ASSUME IInv, NoWaiterForgotten, [Next]_vars
    PROVE  NoWaiterForgotten'
<1> USE DEF IInv
<1>0. /\ waiting \in Seq(Thread) /\ status \in Int /\ pc \in [Thread -> Place]
      /\ ToSet(waiting) \subseteq Thread
      /\ \A u \in ToSet(waiting) : pc[u] \in WaitPlaces
  <2>1. waiting \in Seq(Thread) /\ status \in Int /\ pc \in [Thread -> Place]
    BY DEF TypeOK, syncMon!TypeOK
  <2>2. \A i \in DOMAIN waiting : pc[waiting[i]] \in WaitPlaces
    BY Zenon DEF MonitorInv
  <2> HIDE DEF IInv
  <2>3. ToSet(waiting) \subseteq Thread
    BY <2>1 DEF ToSet
  <2>4. \A u \in ToSet(waiting) : pc[u] \in WaitPlaces
    BY <2>2, Zenon DEF ToSet
  <2> QED BY <2>1, <2>3, <2>4
<1>a. ASSUME waiting' = waiting, status' = status, NEW t \in Thread,
             NEW to, pc' = [pc EXCEPT ![t] = to], pc[t] \notin WaitPlaces,
             pc[t] # "release", pc[t] # "enter_write_test"
      PROVE  NoWaiterForgotten'
  BY <1>0, <1>a DEF NoWaiterForgotten, WaitPlaces
<1>1. ASSUME NEW t \in Thread, NEW from, NEW to, EnterMonitor(t, from, to),
             from \in {"enter_read", "exit_read", "enter_write",
                       "try_enter_write", "exit_write"}
      PROVE  NoWaiterForgotten'
  BY <1>1, <1>a, Zenon DEF EnterMonitor, syncMon!Enter, Goto, WaitPlaces
<1>2. ASSUME NEW t \in Thread,
             \/ EnterReadCall(t) \/ ExitReadCall(t) \/ EnterWriteCall(t)
             \/ TryEnterWriteCall(t) \/ TryEnterWriteFail(t) \/ ExitWriteCall(t)
      PROVE  NoWaiterForgotten'
  BY <1>2, <1>a DEF EnterReadCall, ExitReadCall, EnterWriteCall, TryEnterWriteCall,
     TryEnterWriteFail, ExitWriteCall, MayEnter, MayExit, Goto, monVars, WaitPlaces
<1>3. ASSUME NEW t \in Thread, LeaveMonitor(t) \/ Claim(t) PROVE NoWaiterForgotten'
  BY <1>3, <1>a DEF LeaveMonitor, Claim, syncMon!Exit, Goto, monVars, WaitPlaces
<1>4. ASSUME NEW t \in Thread, Release(t) \/ ForkReset(t) PROVE NoWaiterForgotten'
  <2>1. waiting' = <<>>
    BY <1>4 DEF Release, syncMon!NotifyAll, ForkReset
  <2> QED BY <2>1 DEF NoWaiterForgotten, ToSet
<1>5. ASSUME pc' = pc, waiting' = waiting, status' = status \/ (status < 0 /\ status' < 0)
      PROVE  NoWaiterForgotten'
  BY <1>5 DEF NoWaiterForgotten
<1>6. ASSUME NEW t \in Thread,
             EnterReadAsWriter(t) \/ ExitReadAsWriter(t) \/ Recurse(t)
      PROVE  NoWaiterForgotten'
  <2>1. pc[t] = "idle" /\ writer = t
    BY <1>6 DEF EnterReadAsWriter, ExitReadAsWriter, Recurse, MayEnter, MayExit
  <2>2. status < 0
    BY <2>1, StatusTells DEF WriterInv
  <2> QED BY <1>0, <1>5, <1>6, <2>2 DEF EnterReadAsWriter, ExitReadAsWriter, Recurse, monVars
<1>7. ASSUME Quiesce \/ Restart \/ UNCHANGED vars PROVE NoWaiterForgotten'
  BY <1>5, <1>7 DEF Quiesce, Restart, vars, monVars
<1>8. ASSUME NEW t \in Thread, pc[t] \in Inside \ {"release"}
      PROVE  \A u \in Thread : pc[u] # "release"
  BY <1>8 DEF MonitorInv, Inside
<1>9. ASSUME NEW t \in Thread, EnterReadTake(t) PROVE NoWaiterForgotten'
  <2>1. /\ pc[t] = "enter_read_test" /\ status >= 0 /\ status' = status + 1
        /\ waiting' = waiting /\ pc' = [pc EXCEPT ![t] = "leave"]
    BY <1>9 DEF EnterReadTake, Goto, monVars
  <2>2. \A u \in ToSet(waiting) : pc[u] # "enter_read_wait" /\ u # t
    BY <1>0, <1>8, <2>1 DEF NoWaiterForgotten, Inside, WaitPlaces
  <2> QED BY <1>0, <2>1, <2>2 DEF NoWaiterForgotten
<1>10. ASSUME NEW t \in Thread, NEW from, Take(t, from) PROVE NoWaiterForgotten'
  <2>1. /\ status' < 0 /\ waiting' = waiting
    BY <1>10 DEF Take, monVars
  <2> QED BY <2>1, <1>0 DEF NoWaiterForgotten
<1>11. ASSUME NEW t \in Thread, ExitWriteUpdate(t) PROVE NoWaiterForgotten'
  <2>1. /\ pc[t] = "exit_write_update" /\ status' = status + 1 /\ waiting' = waiting
        /\ pc' = [pc EXCEPT ![t] = IF status' = 0 THEN "release" ELSE "leave"]
    BY <1>11 DEF ExitWriteUpdate, Goto, monVars
  <2>2. status < 0
    <3>1. t \in Writers
      BY <2>1 DEF HeldInv, TypeOK, Writers, Contains, Last
    <3> QED BY <2>1, <3>1, StatusTells
  <2>3. CASE status' = 0
    BY <1>0, <2>1, <2>3 DEF NoWaiterForgotten
  <2>4. CASE status' # 0
    BY <1>0, <2>1, <2>2, <2>4 DEF NoWaiterForgotten
  <2> QED BY <2>3, <2>4
<1>12. ASSUME NEW t \in Thread, ExitReadUpdate(t) PROVE NoWaiterForgotten'
  <2>1. /\ pc[t] = "exit_read_update" /\ status' = status - 1
        /\ pc' = [pc EXCEPT ![t] = "leave"]
    BY <1>12 DEF ExitReadUpdate, Goto
  <2>2. status > 0
    <3>1. held[t] # <<>> /\ t \notin Writers
      BY <2>1 DEF HeldInv
    <3>2. Writers = {}
      BY <3>1 DEF WriterExcludesAll, Writers
    <3> QED BY <1>0, <2>1, <3>1, <3>2, StatusTells
  <2>3. \A u \in ToSet(waiting) : pc[u] = "enter_write_wait" /\ u # t
    BY <1>0, <1>8, <2>1, <2>2 DEF NoWaiterForgotten, Inside, WaitPlaces
  <2>4. CASE status' # 0
    <3>1. waiting' = waiting
      BY <1>12, <2>4 DEF ExitReadUpdate, monVars
    <3> QED BY <1>0, <2>1, <2>3, <2>4, <3>1 DEF NoWaiterForgotten
  <2>5. CASE status' = 0 /\ waiting = <<>>
    <3>1. waiting' = <<>>
      BY <1>12, <2>5, Zenon DEF ExitReadUpdate, syncMon!Notify
    <3> QED BY <3>1 DEF NoWaiterForgotten, ToSet
  <2>6. CASE status' = 0 /\ waiting # <<>>
    <3>1. waiting' = Tail(waiting)
      BY <1>12, <2>6, Zenon DEF ExitReadUpdate, syncMon!Notify
    <3>2. /\ Head(waiting) = waiting[1] /\ 1 \in DOMAIN waiting
          /\ \A i \in DOMAIN waiting' : i \in Nat \ {0} /\ i + 1 \in DOMAIN waiting
                                      /\ waiting'[i] = waiting[i + 1]
      BY <1>0, <2>6, <3>1, HeadTailProperties
    <3>3. waiting[1] \in Thread \ ToSet(waiting')
      BY <1>0, <3>2 DEF MonitorInv, ToSet
    <3>4. pc'[waiting[1]] = "enter_write_wait"
      BY <1>0, <2>1, <2>3, <3>2 DEF ToSet
    <3>5. ToSet(waiting') \subseteq ToSet(waiting)
      BY <3>2 DEF ToSet
    <3> QED BY <1>0, <2>1, <2>3, <3>3, <3>4, <3>5 DEF NoWaiterForgotten
  <2> QED BY <2>4, <2>5, <2>6
<1>13. ASSUME NEW t \in Thread, EnterReadWait(t) \/ EnterWriteWait(t)
       PROVE  NoWaiterForgotten'
  <2>1. /\ waiting' = Append(waiting, t) /\ status' = status
        /\ \/ pc[t] = "enter_read_test" /\ status < 0
              /\ pc' = [pc EXCEPT ![t] = "enter_read_wait"]
           \/ pc[t] = "enter_write_test" /\ status # 0
              /\ pc' = [pc EXCEPT ![t] = "enter_write_wait"]
    BY <1>13 DEF EnterReadWait, EnterWriteWait, WaitMonitor, syncMon!Wait, Goto
  <2>2. ToSet(waiting') = ToSet(waiting) \cup {t} /\ t \notin ToSet(waiting)
    BY <1>0, <2>1 DEF ToSet, WaitPlaces
  <2>3. \A u \in Thread : pc[u] # "release"
    BY <1>8, <2>1 DEF Inside
  <2> QED BY <1>0, <2>1, <2>2, <2>3 DEF NoWaiterForgotten
<1>14. ASSUME NEW t \in Thread,
              \/ ResumeMonitor(t, "enter_read_wait", "enter_read_test")
              \/ ResumeMonitor(t, "enter_write_wait", "enter_write_test")
       PROVE  NoWaiterForgotten'
  <2>1. /\ waiting' = waiting /\ status' = status
        /\ \/ pc' = [pc EXCEPT ![t] = "enter_read_test"] /\ pc[t] = "enter_read_wait"
           \/ pc' = [pc EXCEPT ![t] = "enter_write_test"] /\ pc[t] = "enter_write_wait"
    BY <1>14 DEF ResumeMonitor, syncMon!Resume, Goto
  <2>2. t \notin ToSet(waiting)
    BY <1>0, <1>14 DEF ResumeMonitor, syncMon!Resume, syncMon!Woken, ToSet
  <2> QED BY <1>0, <2>1, <2>2 DEF NoWaiterForgotten
<1> QED
  BY <1>1, <1>2, <1>3, <1>4, <1>6, <1>7, <1>9, <1>10, <1>11, <1>12, <1>13, <1>14
  DEF Next, Call, EnterRead, ExitRead, EnterWrite, TryEnterWrite, ExitWrite

(* No waiter is forgotten, although the last reader wakes only one. *)
THEOREM NoWaiterLost == Spec => []NoWaiterForgotten
<1>1. Init => NoWaiterForgotten
  BY DEF Init, syncMon!Init, NoWaiterForgotten, ToSet
<1> QED BY <1>1, WaiterStep, Invariance, PTL DEF Spec
=============================================================================
