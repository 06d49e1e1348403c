---------------------------- MODULE RWMutexSteps ----------------------------
(***************************************************************************)
(* The calls that enter a read/write mutex keep the invariant of RWMutex.  *)
(* RWMutexProofs adds those that leave it, and concludes.                  *)
(***************************************************************************)
EXTENDS RWMutex, FiniteSetTheorems, SequenceTheorems, TLAPS

Kind == {"R", "W"}

---------------------------------------------------------------------------
(* How the number of held accesses follows what the clients push and pop. *)

(* Only finitely many accesses are held. *)
LEMMA HoldsFinite ==
    ASSUME NEW h, NEW kind
    PROVE  /\ IsFiniteSet(HoldsOf(h, kind))
           /\ Cardinality(HoldsOf(h, kind)) \in Nat
<1>1. IsFiniteSet(1 .. MaxHold)
  BY FS_Interval, RWMutexAssumption
<1>2. IsFiniteSet(Thread \X (1 .. MaxHold))
  BY <1>1, FS_Product, RWMutexAssumption
<1>3. IsFiniteSet(HoldsOf(h, kind))
  BY <1>2, FS_Subset DEF HoldsOf
<1> QED BY <1>3, FS_CardinalityType

(* From h to g, t's accesses get a k more. *)
IsPush(h, g, t, k) ==
    /\ h \in [Thread -> Seq(Kind)] /\ g \in [Thread -> Seq(Kind)]
    /\ t \in Thread /\ k \in Kind /\ Len(h[t]) < MaxHold
    /\ g[t] = Append(h[t], k)
    /\ \A u \in Thread \ {t} : g[u] = h[u]

(* From h to g, t's accesses lose the last, a k. *)
IsPop(h, g, t, k) ==
    /\ h \in [Thread -> Seq(Kind)] /\ g \in [Thread -> Seq(Kind)]
    /\ t \in Thread /\ k \in Kind
    /\ h[t] # <<>> /\ Len(h[t]) <= MaxHold /\ Last(h[t]) = k
    /\ g[t] = Front(h[t])
    /\ \A u \in Thread \ {t} : g[u] = h[u]

(* g has as many accesses of kind k as h and d more, the others as h has. *)
CountsBy(h, g, k, d) ==
    /\ Cardinality(HoldsOf(g, k)) = Cardinality(HoldsOf(h, k)) + d
    /\ \A j \in Kind \ {k} : HoldsOf(g, j) = HoldsOf(h, j)

(* Entering adds one access of the kind entered. *)
LEMMA PushCounts ==
    ASSUME NEW h, NEW g, NEW t, NEW k, IsPush(h, g, t, k)
    PROVE  CountsBy(h, g, k, 1)
<1> USE DEF IsPush, CountsBy
<1> DEFINE x == <<t, Len(h[t]) + 1>>
<1>1. Len(h[t]) \in Nat /\ Len(h[t]) + 1 \in 1 .. MaxHold
  BY RWMutexAssumption
<1>2. g = [h EXCEPT ![t] = Append(@, k)] /\ Len(g[t]) = Len(h[t]) + 1
  OBVIOUS
<1>3. HoldsOf(g, k) = HoldsOf(h, k) \cup {x}
  BY <1>1, <1>2 DEF HoldsOf
<1>4. x \notin HoldsOf(h, k)
  BY <1>1 DEF HoldsOf
<1>5. Cardinality(HoldsOf(g, k)) = Cardinality(HoldsOf(h, k)) + 1
  BY <1>3, <1>4, HoldsFinite, FS_AddElement, Zenon
<1>6. ASSUME NEW j \in Kind \ {k} PROVE HoldsOf(g, j) = HoldsOf(h, j)
  BY <1>1, <1>2 DEF HoldsOf
<1> QED BY <1>5, <1>6, Zenon

(* What is left of s without its last element. *)
FrontIs(s, f) ==
    /\ f \in Seq(Kind)
    /\ Len(f) = Len(s) - 1
    /\ \A i \in 1 .. Len(s) - 1 : f[i] = s[i]

(* The client's innermost access is the last one. *)
LEMMA FrontOfSeq ==
    ASSUME NEW s \in Seq(Kind), s # <<>>
    PROVE  FrontIs(s, Front(s))
<1>1. Len(s) \in Nat /\ Len(s) > 0
  OBVIOUS
<1>2. Front(s) = [i \in 1 .. Len(s) - 1 |-> s[i]]
  BY <1>1 DEF Front
<1>3. Front(s) \in Seq(Kind)
  BY <1>1, <1>2
<1> QED BY <1>1, <1>2, <1>3 DEF FrontIs

(* Leaving removes one access of the kind left. *)
LEMMA PopCounts ==
    ASSUME NEW h, NEW g, NEW t, NEW k, IsPop(h, g, t, k)
    PROVE  CountsBy(h, g, k, -1)
<1> USE DEF IsPop
<1> DEFINE x == <<t, Len(h[t])>>
<1>0. g = [h EXCEPT ![t] = Front(@)] /\ h[t] \in Seq(Kind)
  OBVIOUS
<1>1. Len(h[t]) \in 1 .. MaxHold
  BY RWMutexAssumption
<1>a. FrontIs(h[t], g[t])
  BY <1>0, FrontOfSeq
<1>2. Len(g[t]) = Len(h[t]) - 1
  BY <1>a DEF FrontIs
<1>3. \A i \in 1 .. Len(h[t]) - 1 : g[t][i] = h[t][i]
  BY <1>a DEF FrontIs
<1>4. HoldsOf(g, k) = HoldsOf(h, k) \ {x}
  BY <1>0, <1>1, <1>2, <1>3 DEF HoldsOf
<1>5. x \in HoldsOf(h, k)
  BY <1>1 DEF HoldsOf, Last
<1>6. Cardinality(HoldsOf(g, k)) = Cardinality(HoldsOf(h, k)) - 1
  <2> HIDE DEF x
  <2>1. IsFiniteSet(HoldsOf(h, k))
    BY HoldsFinite
  <2>2. Cardinality(HoldsOf(h, k) \ {x}) = Cardinality(HoldsOf(h, k)) - 1
    BY <1>5, <2>1, FS_RemoveElement, Zenon
  <2> QED BY <1>4, <2>2
<1>7. ASSUME NEW j \in Kind \ {k} PROVE HoldsOf(g, j) = HoldsOf(h, j)
  <2>1. h[t][Len(h[t])] # j
    BY DEF Last
  <2>2. x \notin HoldsOf(h, j)
    BY <2>1 DEF HoldsOf
  <2>3. HoldsOf(g, j) = HoldsOf(h, j) \ {x}
    BY <1>0, <1>1, <1>2, <1>3 DEF HoldsOf
  <2> HIDE DEF x
  <2> QED BY <2>2, <2>3
<1>8. Cardinality(HoldsOf(g, k)) = Cardinality(HoldsOf(h, k)) + (-1)
  BY <1>6, HoldsFinite
<1> QED BY <1>7, <1>8, Zenon DEF CountsBy

(* A held access counts, and where nothing is held nothing counts. *)
LEMMA HeldCounts ==
    ASSUME NEW h \in [Thread -> Seq(Kind)], NEW k \in Kind
    PROVE  /\ \A t \in Thread, i \in 1 .. MaxHold :
                  i <= Len(h[t]) /\ h[t][i] = k => Cardinality(HoldsOf(h, k)) > 0
           /\ (\A t \in Thread : h[t] = <<>>) => Cardinality(HoldsOf(h, k)) = 0
<1>1. ASSUME NEW t \in Thread, NEW i \in 1 .. MaxHold, i <= Len(h[t]), h[t][i] = k
      PROVE  Cardinality(HoldsOf(h, k)) > 0
  <2>1. <<t, i>> \in HoldsOf(h, k)
    BY <1>1 DEF HoldsOf
  <2> QED BY <2>1, HoldsFinite, FS_EmptySet
<1>2. ASSUME \A t \in Thread : h[t] = <<>> PROVE HoldsOf(h, k) = {}
  BY <1>2 DEF HoldsOf
<1> QED BY <1>1, <1>2, FS_EmptySet, Zenon

(* status tells who is in, as the clients see it. *)
LEMMA StatusTells ==
    ASSUME TypeOK, HeldInv, StatusCountsHolders,
           \E t \in Thread : pc[t] # "gone"
    PROVE  /\ Writers # {} => status < 0
           /\ status < 0 => Writers # {}
           /\ status = 0 => \A t \in Thread : held[t] = <<>>
<1> USE DEF TypeOK
<1>1. \A k : /\ IsFiniteSet(Holds(k))
             /\ Cardinality(Holds(k)) \in Nat
             /\ Holds(k) # {} => Cardinality(Holds(k)) > 0
  BY HoldsFinite, FS_EmptySet DEF Holds
<1>2. ASSUME NEW t \in Writers PROVE Holds("W") # {}
  <2>1. held[t] \in Seq({"R", "W"}) /\ Len(held[t]) <= MaxHold
    BY DEF Writers, HeldInv
  <2>2. PICK i \in 1 .. Len(held[t]) : held[t][i] = "W"
    BY DEF Writers, Contains
  <2>3. <<t, i>> \in HoldsOf(held, "W")
    BY <2>1, <2>2, RWMutexAssumption DEF HoldsOf, Writers
  <2> QED BY <2>3 DEF Holds
<1>3. Writers # {} => status < 0
  BY <1>1, <1>2 DEF StatusCountsHolders
<1>4. status < 0 => Writers # {}
  BY <1>1 DEF StatusCountsHolders
<1>5. ASSUME status = 0, NEW t \in Thread, held[t] # <<>> PROVE FALSE
  <2>1. Writers = {} /\ Holds("R") = {}
    <3>1. Writers = {}
      BY <1>3, <1>5
    <3>2. Cardinality(Holds("R")) = 0
      BY <1>5, <3>1 DEF StatusCountsHolders
    <3> QED BY <1>1, <3>1, <3>2
  <2>2. held[t] \in Seq({"R", "W"}) /\ 1 \in 1 .. Len(held[t]) /\ 1 \in 1 .. MaxHold
    BY <1>5, RWMutexAssumption DEF HeldInv
  <2>3. held[t][1] = "R"
    BY <2>1, <2>2 DEF Writers, Contains
  <2>4. <<t, 1>> \in HoldsOf(held, "R")
    BY <2>2, <2>3 DEF HoldsOf
  <2> QED BY <2>1, <2>4 DEF Holds
<1> QED BY <1>3, <1>4, <1>5

(* There is at most one writer. *)
LEMMA OnlyWriter ==
    ASSUME WriterExcludesAll, NEW t \in Writers
    PROVE  Writers = {t}
<1>1. ASSUME NEW u \in Writers, u # t PROVE FALSE
  <2>1. held[u] = <<>>
    BY <1>1 DEF WriterExcludesAll, Writers
  <2> QED BY <2>1 DEF Writers, Contains
<1> QED BY <1>1

(* The invariant holds at the start. *)
THEOREM Initially == Init => IInv
<1> SUFFICES ASSUME Init PROVE IInv
  OBVIOUS
<1>1. TypeOK
  BY RWMutexAssumption DEF Init, syncMon!Init, TypeOK, syncMon!TypeOK, Place
<1>2. MonitorInv
  BY RWMutexAssumption DEF Init, syncMon!Init, MonitorInv, Inside, WaitPlaces
<1>3. Writers = {}
  BY DEF Init, Writers, Contains
<1>4. HeldInv
  BY <1>3, RWMutexAssumption DEF Init, HeldInv, ReadEntry, WriteEntry
<1>5. WriterInv
  BY <1>3, RWMutexAssumption DEF Init, WriterInv
<1>6. Holds("R") = {}
  BY DEF Init, Holds, HoldsOf
<1>7. StatusCountsHolders
  BY <1>3, <1>6, FS_EmptySet DEF Init, StatusCountsHolders
<1>8. WriterExcludesAll
  BY <1>3 DEF WriterExcludesAll
<1> QED BY <1>1, <1>2, <1>4, <1>5, <1>7, <1>8 DEF IInv

---------------------------------------------------------------------------
(* Every step preserves the invariant: first the steps that only move a    *)
(* thread along its call, then those that change what somebody holds.      *)

(* What holds of the counts is kept by a step that leaves them alone. *)
LEMMA SameHolders ==
    ASSUME IInv, status' = status, held' = held,
           \E t \in Thread : pc[t] # "gone"
    PROVE  Writers' = Writers /\ StatusCountsHolders' /\ WriterExcludesAll'
<1>1. Writers' = Writers /\ \A k : Holds(k)' = Holds(k)
  BY DEF Writers, Holds
<1> QED BY <1>1 DEF IInv, StatusCountsHolders, WriterExcludesAll

(* Entering syncMon, from the first step of any call. *)
LEMMA EnterMonitorStep ==
    ASSUME IInv, NEW t \in Thread, NEW from, NEW to,
           <<from, to>> \in {<<"enter_read", "enter_read_test">>,
                             <<"exit_read", "exit_read_update">>,
                             <<"enter_write", "enter_write_test">>,
                             <<"try_enter_write", "try_enter_write_test">>,
                             <<"exit_write", "exit_write_update">>},
           EnterMonitor(t, from, to)
    PROVE  IInv'
<1> USE DEF IInv, EnterMonitor, syncMon!Enter, Goto
<1>1. TypeOK'
  BY DEF TypeOK, syncMon!TypeOK, Place
<1>2. MonitorInv'
  BY RWMutexAssumption DEF TypeOK, syncMon!TypeOK, MonitorInv, Inside, WaitPlaces
<1>3. Writers' = Writers /\ StatusCountsHolders' /\ WriterExcludesAll'
  BY SameHolders
<1>4. HeldInv'
  BY <1>3 DEF TypeOK, HeldInv, ReadEntry, WriteEntry
<1>5. WriterInv'
  BY <1>3 DEF TypeOK, WriterInv
<1> QED BY <1>1, <1>2, <1>3, <1>4, <1>5

(* Waiting on syncMon. *)
LEMMA WaitMonitorStep ==
    ASSUME IInv, NEW t \in Thread, NEW from, NEW to,
           <<from, to>> \in {<<"enter_read_test", "enter_read_wait">>,
                             <<"enter_write_test", "enter_write_wait">>},
           WaitMonitor(t, from, to)
    PROVE  IInv'
<1> USE DEF IInv, WaitMonitor, syncMon!Wait, Goto
<1>1. TypeOK'
  BY RWMutexAssumption DEF TypeOK, syncMon!TypeOK, Place
<1>2. MonitorInv'
  <2> USE DEF TypeOK, syncMon!TypeOK, Inside, WaitPlaces
  <2>1. /\ waiting' = Append(waiting, t)
        /\ Len(waiting') = Len(waiting) + 1
        /\ \A i \in 1 .. Len(waiting) : waiting'[i] = waiting[i]
        /\ waiting'[Len(waiting) + 1] = t
    OBVIOUS
  <2>2. \A i \in DOMAIN waiting : waiting[i] # t
    BY Zenon DEF MonitorInv
  <2>3. ASSUME NEW i \in DOMAIN waiting', NEW j \in DOMAIN waiting',
               waiting'[i] = waiting'[j]
        PROVE  i = j
    <3>0. /\ DOMAIN waiting = 1 .. Len(waiting) /\ Len(waiting) \in Nat
          /\ DOMAIN waiting' = 1 .. Len(waiting) + 1
      BY <2>1
    <3>1. CASE i \in 1 .. Len(waiting) /\ j \in 1 .. Len(waiting)
      <4>1. waiting[i] = waiting[j]
        BY <2>1, <2>3, <3>1
      <4> QED BY <3>0, <3>1, <4>1, Zenon DEF MonitorInv
    <3>2. CASE i = Len(waiting) + 1 /\ j \in 1 .. Len(waiting)
      BY <2>1, <2>2, <2>3, <3>0, <3>2
    <3>3. CASE i \in 1 .. Len(waiting) /\ j = Len(waiting) + 1
      BY <2>1, <2>2, <2>3, <3>0, <3>3
    <3>4. CASE i = Len(waiting) + 1 /\ j = Len(waiting) + 1
      BY <3>4
    <3> HIDE DEF IInv, WaitMonitor
    <3> QED BY <3>0, <3>1, <3>2, <3>3, <3>4
  <2>4. \A i \in DOMAIN waiting' : pc'[waiting'[i]] \in WaitPlaces
    BY <2>1, <2>2 DEF MonitorInv
  <2>5. /\ \A u \in Thread : owner' = u <=> pc'[u] \in Inside
        /\ owner' # NoThread => count' = 1
    BY RWMutexAssumption DEF MonitorInv
  <2>6. \A u \in Thread : saved'[u] = IF pc'[u] \in WaitPlaces THEN 1 ELSE 0
    BY RWMutexAssumption DEF MonitorInv
  <2> QED BY <2>3, <2>4, <2>5, <2>6 DEF MonitorInv
<1>3. Writers' = Writers /\ StatusCountsHolders' /\ WriterExcludesAll'
  BY SameHolders
<1>4. HeldInv'
  BY <1>3 DEF TypeOK, HeldInv, ReadEntry, WriteEntry
<1>5. WriterInv'
  BY <1>3 DEF TypeOK, WriterInv
<1> QED BY <1>1, <1>2, <1>3, <1>4, <1>5

(* Coming back from the wait. *)
LEMMA ResumeMonitorStep ==
    ASSUME IInv, NEW t \in Thread, NEW from, NEW to,
           <<from, to>> \in {<<"enter_read_wait", "enter_read_test">>,
                             <<"enter_write_wait", "enter_write_test">>},
           ResumeMonitor(t, from, to)
    PROVE  IInv'
<1> USE DEF IInv, ResumeMonitor, syncMon!Resume, Goto
<1>1. TypeOK'
  BY RWMutexAssumption DEF TypeOK, syncMon!TypeOK, Place
<1>2. MonitorInv'
  <2>1. \A i \in DOMAIN waiting : waiting[i] # t
    BY DEF syncMon!Woken, TypeOK, syncMon!TypeOK
  <2> QED
    BY <2>1, RWMutexAssumption DEF TypeOK, syncMon!TypeOK, MonitorInv, Inside, WaitPlaces
<1>3. Writers' = Writers /\ StatusCountsHolders' /\ WriterExcludesAll'
  BY SameHolders
<1>4. HeldInv'
  BY <1>3 DEF TypeOK, HeldInv, ReadEntry, WriteEntry
<1>5. WriterInv'
  BY <1>3 DEF TypeOK, WriterInv
<1> QED BY <1>1, <1>2, <1>3, <1>4, <1>5

(* The steps that move a thread without waiting on or entering syncMon. *)
LEMMA CallStep ==
    ASSUME IInv, NEW t \in Thread,
           \/ EnterReadCall(t) \/ ExitReadCall(t) \/ EnterWriteCall(t)
           \/ TryEnterWriteCall(t) \/ TryEnterWriteFail(t) \/ ExitWriteCall(t)
    PROVE  IInv'
<1> USE DEF IInv, EnterReadCall, ExitReadCall, EnterWriteCall,
            TryEnterWriteCall, TryEnterWriteFail, ExitWriteCall,
            MayEnter, MayExit, Goto, monVars
<1>1. TypeOK'
  BY Zenon DEF TypeOK, syncMon!TypeOK, Place
<1>2. MonitorInv'
  <2>1. /\ pc[t] \in Inside <=> pc'[t] \in Inside
        /\ pc[t] \notin WaitPlaces /\ pc'[t] \notin WaitPlaces
        /\ \A u \in Thread \ {t} : pc'[u] = pc[u]
    BY DEF TypeOK, Inside, WaitPlaces
  <2>2. owner' = owner /\ count' = count /\ waiting' = waiting /\ saved' = saved
    OBVIOUS
  <2>3. \A i \in DOMAIN waiting : waiting[i] \in Thread
    BY DEF TypeOK, syncMon!TypeOK
  <2> HIDE DEF EnterReadCall, ExitReadCall, EnterWriteCall,
               TryEnterWriteCall, TryEnterWriteFail, ExitWriteCall
  <2> QED BY <2>1, <2>2, <2>3 DEF MonitorInv
<1>3. Writers' = Writers /\ StatusCountsHolders' /\ WriterExcludesAll'
  BY SameHolders
<1>4. writer # t /\ pc[t] = "idle" => t \notin Writers
  BY DEF WriterInv
<1>5. HeldInv'
  BY <1>3, <1>4 DEF TypeOK, HeldInv, ReadEntry, WriteEntry
<1>6. WriterInv'
  BY <1>3 DEF TypeOK, WriterInv
<1> QED BY <1>1, <1>2, <1>3, <1>5, <1>6

(* Leaving syncMon at the end of a call. *)
LEMMA LeaveMonitorStep ==
    ASSUME IInv, NEW t \in Thread, LeaveMonitor(t)
    PROVE  IInv'
<1> USE DEF IInv, LeaveMonitor, syncMon!Exit, Goto
<1>0. count = 1
  BY RWMutexAssumption DEF MonitorInv
<1>1. TypeOK'
  BY <1>0 DEF TypeOK, syncMon!TypeOK, Place
<1>2. MonitorInv'
  BY <1>0, RWMutexAssumption DEF TypeOK, syncMon!TypeOK, MonitorInv, Inside, WaitPlaces
<1>3. Writers' = Writers /\ StatusCountsHolders' /\ WriterExcludesAll'
  BY SameHolders
<1>4. HeldInv'
  BY <1>3 DEF TypeOK, HeldInv, ReadEntry, WriteEntry
<1>5. WriterInv'
  BY <1>3 DEF TypeOK, WriterInv
<1> QED BY <1>1, <1>2, <1>3, <1>4, <1>5

(* Setting writer, after status, under syncMon. *)
LEMMA ClaimStep ==
    ASSUME IInv, NEW t \in Thread, Claim(t)
    PROVE  IInv'
<1> USE DEF IInv, Claim, Goto, monVars
<1>1. TypeOK'
  BY DEF TypeOK, syncMon!TypeOK, Place
<1>2. MonitorInv'
  BY DEF TypeOK, syncMon!TypeOK, MonitorInv, Inside, WaitPlaces
<1>3. Writers' = Writers /\ StatusCountsHolders' /\ WriterExcludesAll'
  BY SameHolders
<1>4. HeldInv'
  BY <1>3 DEF TypeOK, HeldInv, ReadEntry, WriteEntry
<1>5. WriterInv'
  <2>1. t \in Writers
    BY DEF WriterInv
  <2>2. \A u \in Thread \ {t} : u \notin Writers /\ pc[u] # "release" /\ pc[u] # "claim"
    BY <2>1 DEF WriterExcludesAll, Writers, Contains, MonitorInv, Inside
  <2> QED BY <1>3, <2>1, <2>2 DEF TypeOK, WriterInv
<1> QED BY <1>1, <1>2, <1>3, <1>4, <1>5

(* Clearing writer and notifying every waiter, under syncMon. *)
LEMMA ReleaseStep ==
    ASSUME IInv, NEW t \in Thread, Release(t)
    PROVE  IInv'
<1> USE DEF IInv, Release, syncMon!NotifyAll, Goto
<1>1. TypeOK'
  BY DEF TypeOK, syncMon!TypeOK, Place
<1>2. MonitorInv'
  BY DEF TypeOK, syncMon!TypeOK, MonitorInv, Inside, WaitPlaces
<1>3. Writers' = Writers /\ StatusCountsHolders' /\ WriterExcludesAll'
  BY SameHolders
<1>4. HeldInv'
  BY <1>3 DEF TypeOK, HeldInv, ReadEntry, WriteEntry
<1>5. WriterInv'
  <2>1. Writers = {}
    BY StatusTells DEF WriterInv, TypeOK
  <2>2. \A u \in Thread \ {t} : pc[u] # "release" /\ pc[u] # "claim"
    BY DEF MonitorInv, Inside
  <2> QED BY <1>3, <2>1, <2>2, RWMutexAssumption DEF TypeOK, WriterInv
<1> QED BY <1>1, <1>2, <1>3, <1>4, <1>5

(* The clients stop, or start, entering. *)
LEMMA ClientStep ==
    ASSUME IInv, Quiesce \/ Restart \/ UNCHANGED vars
    PROVE  IInv'
<1> USE DEF IInv, Quiesce, Restart, vars, monVars
<1>1. TypeOK' /\ MonitorInv'
  BY DEF TypeOK, syncMon!TypeOK, MonitorInv
<1>2. Writers' = Writers /\ \A k : Holds(k)' = Holds(k)
  BY DEF Writers, Holds
<1>3. HeldInv' /\ WriterInv' /\ StatusCountsHolders' /\ WriterExcludesAll'
  BY <1>2 DEF HeldInv, WriterInv, StatusCountsHolders, WriterExcludesAll
<1> QED BY <1>1, <1>3

---------------------------------------------------------------------------
(* The writer enters as a reader: nothing is counted. *)
LEMMA EnterReadAsWriterStep ==
    ASSUME IInv, NEW t \in Thread, EnterReadAsWriter(t)
    PROVE  IInv'
<1> USE DEF IInv, EnterReadAsWriter, MayEnter, Push, monVars
<1>0. held \in [Thread -> Seq(Kind)] /\ held[t] \in Seq(Kind) /\ t \in Writers
  BY DEF TypeOK, Kind, WriterInv
<1>1. TypeOK' /\ MonitorInv'
  BY DEF TypeOK, syncMon!TypeOK, MonitorInv
<1>2. /\ Len(held'[t]) = Len(held[t]) + 1
      /\ \A i \in 1 .. Len(held[t]) : held'[t][i] = held[t][i]
      /\ \A u \in Thread \ {t} : held'[u] = held[u]
  BY <1>0
<1>3. Writers' = Writers
  BY <1>0, <1>2 DEF Writers, Contains
<1>4. Holds("W")' = Holds("W")
  <2>1. "R" \in Kind /\ "W" \in Kind \ {"R"}
    BY DEF Kind
  <2>2. /\ held' \in [Thread -> Seq(Kind)] /\ Len(held[t]) < MaxHold
        /\ held'[t] = Append(held[t], "R")
    BY <1>0, <2>1
  <2> HIDE DEF IInv, EnterReadAsWriter
  <2>3. IsPush(held, held', t, "R")
    BY <1>0, <1>2, <2>1, <2>2 DEF IsPush
  <2>4. CountsBy(held, held', "R", 1)
    BY <2>3, PushCounts, Zenon
  <2> QED BY <2>1, <2>4 DEF Holds, CountsBy
<1>5. HeldInv'
  BY <1>0, <1>2, <1>3, RWMutexAssumption DEF HeldInv, ReadEntry, WriteEntry, Writers, Contains
<1>6. WriterInv'
  BY <1>3 DEF WriterInv
<1>7. StatusCountsHolders' /\ WriterExcludesAll'
  <2>1. Writers = {t}
    BY <1>0, OnlyWriter
  <2>2. WriterExcludesAll'
    BY <1>2, <1>3, <2>1 DEF WriterExcludesAll
  <2>3. StatusCountsHolders'
    BY <1>3, <1>4, <2>1 DEF StatusCountsHolders
  <2> QED BY <2>2, <2>3
<1> QED BY <1>1, <1>5, <1>6, <1>7

(* A reader gets in, counted by status. *)
LEMMA EnterReadTakeStep ==
    ASSUME IInv, NEW t \in Thread, EnterReadTake(t)
    PROVE  IInv'
<1> USE DEF IInv, EnterReadTake, Push, Goto, monVars
<1>0. /\ held \in [Thread -> Seq(Kind)] /\ held[t] \in Seq(Kind)
      /\ Len(held[t]) < MaxHold
      /\ Writers = {}
  BY StatusTells DEF TypeOK, Kind, HeldInv, ReadEntry
<1>1. TypeOK'
  BY DEF TypeOK, syncMon!TypeOK, Place
<1>2. MonitorInv'
  BY DEF TypeOK, syncMon!TypeOK, MonitorInv, Inside, WaitPlaces
<1>3. /\ Len(held'[t]) = Len(held[t]) + 1
      /\ held'[t][Len(held[t]) + 1] = "R"
      /\ \A i \in 1 .. Len(held[t]) : held'[t][i] = held[t][i]
      /\ \A u \in Thread \ {t} : held'[u] = held[u]
  BY <1>0
<1>4. Writers' = {}
  BY <1>0, <1>3 DEF Writers, Contains
<1>5. Cardinality(Holds("R")') = Cardinality(Holds("R")) + 1
  <2>1. /\ held' \in [Thread -> Seq(Kind)] /\ "R" \in Kind
        /\ held'[t] = Append(held[t], "R")
    BY <1>0 DEF Kind
  <2> HIDE DEF IInv, EnterReadTake
  <2>2. IsPush(held, held', t, "R")
    BY <1>0, <1>3, <2>1 DEF IsPush
  <2>3. CountsBy(held, held', "R", 1)
    BY <2>2, PushCounts, Zenon
  <2> QED BY <2>3 DEF Holds, CountsBy
<1>6. HeldInv'
  BY <1>0, <1>3, <1>4, RWMutexAssumption DEF TypeOK, HeldInv, ReadEntry, WriteEntry
<1>7. WriterInv'
  BY <1>0, <1>4 DEF TypeOK, WriterInv, MonitorInv, Inside
<1>8. StatusCountsHolders' /\ WriterExcludesAll'
  BY <1>0, <1>4, <1>5 DEF StatusCountsHolders, WriterExcludesAll, TypeOK
<1> QED BY <1>1, <1>2, <1>6, <1>7, <1>8

(* The writer enters again, updating status outside syncMon. *)
LEMMA RecurseStep ==
    ASSUME IInv, NEW t \in Thread, Recurse(t)
    PROVE  IInv'
<1> USE DEF IInv, Recurse, MayEnter, Push, monVars
<1>0. held \in [Thread -> Seq(Kind)] /\ held[t] \in Seq(Kind) /\ t \in Writers
  BY DEF TypeOK, Kind, WriterInv
<1>1. TypeOK' /\ MonitorInv'
  BY DEF TypeOK, syncMon!TypeOK, MonitorInv
<1>2. /\ Len(held'[t]) = Len(held[t]) + 1
      /\ \A i \in 1 .. Len(held[t]) : held'[t][i] = held[t][i]
      /\ \A u \in Thread \ {t} : held'[u] = held[u]
  BY <1>0
<1>3. Writers' = Writers
  BY <1>0, <1>2 DEF Writers, Contains
<1>4. Cardinality(Holds("W")') = Cardinality(Holds("W")) + 1
      /\ Cardinality(Holds("W")) \in Nat
  <2>1. /\ held' \in [Thread -> Seq(Kind)] /\ "W" \in Kind
        /\ held'[t] = Append(held[t], "W") /\ Len(held[t]) < MaxHold
    BY <1>0 DEF Kind
  <2> HIDE DEF IInv, Recurse
  <2>2. IsPush(held, held', t, "W")
    BY <1>0, <1>2, <2>1 DEF IsPush
  <2>3. CountsBy(held, held', "W", 1)
    BY <2>2, PushCounts, Zenon
  <2> QED BY <2>3, HoldsFinite DEF Holds, CountsBy
<1>5. HeldInv'
  BY <1>0, <1>2, <1>3, RWMutexAssumption DEF HeldInv, ReadEntry, WriteEntry, Writers, Contains
<1>6. WriterInv'
  <2>1. \A u \in Thread : pc[u] # "release"
    BY <1>0, StatusTells DEF WriterInv
  <2> QED BY <1>3, <2>1 DEF WriterInv
<1>7. StatusCountsHolders' /\ WriterExcludesAll'
  <2>1. Writers = {t}
    BY <1>0, OnlyWriter
  <2>2. WriterExcludesAll'
    BY <1>2, <1>3, <2>1 DEF WriterExcludesAll
  <2>3. StatusCountsHolders'
    BY <1>3, <1>4, <2>1 DEF StatusCountsHolders, TypeOK
  <2> QED BY <2>2, <2>3
<1> QED BY <1>1, <1>5, <1>6, <1>7

(* A writer gets in: the mutex was free, so nobody holds anything. *)
LEMMA TakeStep ==
    ASSUME IInv, NEW t \in Thread,
           NEW from \in {"enter_write_test", "try_enter_write_test"},
           Take(t, from)
    PROVE  IInv'
<1> USE DEF IInv, Take, Push, Goto, monVars
<1>0. /\ held \in [Thread -> Seq(Kind)]
      /\ \A u \in Thread : held[u] = <<>>
      /\ Len(held[t]) < MaxHold
  BY StatusTells DEF TypeOK, Kind, HeldInv, ReadEntry, WriteEntry
<1>1. TypeOK'
  BY DEF TypeOK, syncMon!TypeOK, Place
<1>2. MonitorInv'
  BY DEF TypeOK, syncMon!TypeOK, MonitorInv, Inside, WaitPlaces
<1>3. held'[t] = <<"W">> /\ \A u \in Thread \ {t} : held'[u] = <<>>
  <2>1. held' = [held EXCEPT ![t] = Append(<<>>, "W")]
    BY <1>0, Zenon
  <2>2. Append(<<>>, "W") = <<"W">>
    OBVIOUS
  <2> QED BY <1>0, <2>1, <2>2, Zenon
<1>4. Writers' = {t} /\ Writers = {}
  BY <1>0, <1>3 DEF Writers, Contains
<1>5. Cardinality(Holds("W")') = 1
  <2>1. Cardinality(Holds("W")) = 0
    BY <1>0, HeldCounts DEF Holds, Kind
  <2>2. /\ held' \in [Thread -> Seq(Kind)] /\ "W" \in Kind
        /\ held'[t] = Append(held[t], "W")
        /\ \A u \in Thread \ {t} : held'[u] = held[u]
        /\ held \in [Thread -> Seq(Kind)] /\ Len(held[t]) < MaxHold
    BY <1>0 DEF Kind
  <2> HIDE DEF IInv, Take
  <2>3. IsPush(held, held', t, "W")
    BY <2>2 DEF IsPush
  <2>4. CountsBy(held, held', "W", 1)
    BY <2>3, PushCounts, Zenon
  <2> QED BY <2>1, <2>4 DEF Holds, CountsBy
<1>6. HeldInv'
  BY <1>0, <1>3, <1>4, RWMutexAssumption DEF TypeOK, HeldInv, ReadEntry, WriteEntry
<1>7. WriterInv'
  <2>1. \A u \in Thread \ {t} : pc[u] # "release" /\ pc[u] # "claim"
    BY DEF MonitorInv, Inside
  <2>2. \A u \in Thread : writer # u
    BY <1>4, <2>1 DEF WriterInv
  <2> QED BY <1>4, <2>1, <2>2 DEF TypeOK, WriterInv
<1>8. StatusCountsHolders' /\ WriterExcludesAll'
  BY <1>3, <1>4, <1>5 DEF StatusCountsHolders, WriterExcludesAll
<1> QED BY <1>1, <1>2, <1>6, <1>7, <1>8
=============================================================================
