------------------------- MODULE MonitorLockProofs -------------------------
(* Proofs about MonitorLock, for any finite set of threads. *)
EXTENDS MonitorLock, FiniteSetTheorems, SequenceTheorems, TLAPS

CallType == [mode : {"try", "enter", "abortable"}, ok : {"idle"}, fail : {"idle"}]

-----------------------------------------------------------------------------
(* Facts the steps share. *)

(* A call that returns leaves control and call records well-typed. *)
LEMMA ReturnType ==
    ASSUME pc \in [Thread -> LockPlace], call \in [Thread -> CallType],
           NEW t \in Thread, NEW place \in LockPlace,
           \/ Return(t, place)
           \/ Goto(t, place) /\ UNCHANGED call
    PROVE  pc' \in [Thread -> LockPlace] /\ call' \in [Thread -> CallType]
<1>1. IdleCall \in CallType
  BY DEF IdleCall, CallType
<1> QED BY <1>1 DEF Return, Goto

(* threadDequeue gives a queue of threads that still holds the others. *)
LEMMA DequeueKeepsOthers ==
    ASSUME NEW q \in Seq(Thread), NEW t \in Thread
    PROVE  /\ threadDequeue(q, t) \in Seq(Thread)
           /\ \A u \in Thread \ {t} :
                 (\E i \in DOMAIN q : q[i] = u) =>
                     \E i \in DOMAIN threadDequeue(q, t) : threadDequeue(q, t)[i] = u
<1>1. CASE \A i \in DOMAIN q : q[i] # t
  BY <1>1 DEF threadDequeue
<1>2. CASE \E i \in DOMAIN q : q[i] = t
  <2> DEFINE k == CHOOSE i \in DOMAIN q : q[i] = t
             r == [i \in 1..(Len(q) - 1) |-> IF i < k THEN q[i] ELSE q[i + 1]]
  <2>1. k \in 1..Len(q) /\ q[k] = t /\ Len(q) \in Nat
    BY <1>2
  <2>2. threadDequeue(q, t) = r
    BY <1>2, Zenon DEF threadDequeue
  <2> HIDE DEF k
  <2>3. r \in Seq(Thread) /\ DOMAIN r = 1..(Len(q) - 1)
    BY <2>1
  <2>4. ASSUME NEW u \in Thread \ {t}, NEW i \in DOMAIN q, q[i] = u
        PROVE  \E j \in DOMAIN r : r[j] = u
    <3>1. CASE i < k
      BY <2>1, <2>3, <2>4, <3>1
    <3>2. CASE i > k
      <4>1. i - 1 \in DOMAIN r /\ r[i - 1] = u
        BY <2>1, <2>3, <2>4, <3>2
      <4> QED BY <4>1
    <3> QED BY <2>1, <2>4, <3>1, <3>2
  <2> QED BY <2>2, <2>3, <2>4
<1> QED BY <1>1, <1>2

(* A thread is linked at the tail, and nobody is lost. *)
LEMMA EnqueueKeepsAll ==
    ASSUME NEW q \in Seq(Thread), NEW t \in Thread
    PROVE  /\ threadEnqueue(q, t) \in Seq(Thread)
           /\ \A u \in Thread :
                 u = t \/ (\E i \in DOMAIN q : q[i] = u) =>
                     \E i \in DOMAIN threadEnqueue(q, t) : threadEnqueue(q, t)[i] = u
<1> DEFINE r == Append(q, t)
<1>1. /\ r \in Seq(Thread) /\ Len(q) \in Nat
      /\ DOMAIN r = 1..(Len(q) + 1) /\ r[Len(q) + 1] = t
      /\ \A i \in 1..Len(q) : r[i] = q[i]
  OBVIOUS
<1>2. DOMAIN q = 1..Len(q)
  OBVIOUS
<1> HIDE DEF r
<1>3. \E i \in DOMAIN r : r[i] = t
  BY <1>1
<1>4. ASSUME NEW u \in Thread, NEW i \in DOMAIN q, q[i] = u
      PROVE  \E j \in DOMAIN r : r[j] = u
  BY <1>1, <1>2, <1>4
<1> QED BY <1>1, <1>3, <1>4, Zenon DEF threadEnqueue, r

(* The threads counted as spinning are finitely many. *)
LEMMA SpinnersFinite ==
    IsFiniteSet(Spinners) /\ Cardinality(Spinners) \in Nat
<1>1. Spinners \subseteq Thread
  BY DEF Spinners
<1> QED BY <1>1, FS_Subset, FS_CardinalityType, LockAssumption

(* The count stays right when nobody starts or stops spinning. *)
LEMMA SpinnersStay ==
    ASSUME SpinInv, Spinners' = Spinners, spinThreads' = spinThreads
    PROVE  SpinInv'
BY DEF SpinInv, SpinnersCounted, Spinners

-----------------------------------------------------------------------------
(* Each step keeps the inductive invariant. *)

(* The owner enters again: only count changes. *)
LEMMA EnterAgainKeeps ==
    ASSUME LockInv, NEW t \in Thread, EnterAgain(t)
    PROVE  LockInv'
<1> USE LockAssumption DEF LockInv, LockTypeOK, LockPlace, SpinlockState, IdleCall,
        EnterAgain, ownership, queueVars, threadVars
<1>1. LockTypeOK'
  OBVIOUS
<1>2. Exclusion'
  BY DEF Exclusion, Holds, OwnerInv
<1>3. OwnerInv'
  BY DEF OwnerInv, Exclusion, Holds
<1>4. MutexInv'
  BY DEF MutexInv
<1>5. AnnouncedInv'
  BY DEF AnnouncedInv, Sleeps, MutexInv
<1>6. SpinInv'
  <2>1. Spinners' = Spinners
    BY DEF Spinners
  <2> QED BY <2>1, SpinnersStay
<1> QED BY <1>1, <1>2, <1>3, <1>4, <1>5, <1>6

(* A call starts; nothing is taken yet. *)
LEMMA EnterCallKeeps ==
    ASSUME LockInv, NEW t \in Thread, NEW mode \in Modes, EnterCall(t, mode)
    PROVE  LockInv'
<1> USE LockAssumption DEF LockInv, LockTypeOK, LockPlace, SpinlockState, IdleCall,
        EnterCall, Start, Goto, ownership, queueVars, threadVars
<1>1. LockTypeOK'
  <2>1. [mode |-> mode, ok |-> "idle", fail |-> "idle"] \in CallType
    BY DEF CallType
  <2>2. call' \in [Thread -> CallType]
    BY <2>1 DEF CallType
  <2>3. pc' \in [Thread -> LockPlace]
    OBVIOUS
  <2> QED BY <2>2, <2>3 DEF CallType
<1>2. Exclusion'
  BY DEF Exclusion, Holds, OwnerInv
<1>3. OwnerInv'
  BY DEF OwnerInv, Exclusion, Holds
<1>4. MutexInv'
  BY DEF MutexInv
<1>5. AnnouncedInv'
  BY DEF AnnouncedInv, Sleeps, MutexInv
<1>6. SpinInv'
  <2>1. Spinners' = Spinners
    BY DEF Spinners
  <2> QED BY <2>1, SpinnersStay
<1> QED BY <1>1, <1>2, <1>3, <1>4, <1>5, <1>6

(* The owner leaves: with the last exit it still has the spinlock. *)
LEMMA ExitCallKeeps ==
    ASSUME LockInv, NEW t \in Thread, ExitCall(t)
    PROVE  LockInv'
<1> USE LockAssumption DEF LockInv, LockTypeOK, LockPlace, SpinlockState, IdleCall,
        ExitCall, DropOwner, Goto, ownership, queueVars, threadVars
<1>1. LockTypeOK'
  BY DEF OwnerInv
<1>2. Exclusion'
  BY DEF Exclusion, Holds, OwnerInv
<1>3. OwnerInv'
  BY DEF OwnerInv, Exclusion, Holds
<1>4. MutexInv'
  BY DEF MutexInv
<1>5. AnnouncedInv'
  BY DEF AnnouncedInv, Sleeps, MutexInv
<1>6. SpinInv'
  <2>1. Spinners' = Spinners
    BY DEF Spinners
  <2> QED BY <2>1, SpinnersStay
<1> QED BY <1>1, <1>2, <1>3, <1>4, <1>5, <1>6

(* The decision to spin changes nothing that is shared. *)
LEMMA SpinStartKeeps ==
    ASSUME LockInv, NEW t \in Thread, SpinStart(t)
    PROVE  LockInv'
<1> USE LockAssumption DEF LockInv, LockTypeOK, LockPlace, SpinlockState, IdleCall,
        SpinStart, Goto, ownership, queueVars, threadVars
<1>1. LockTypeOK'
  OBVIOUS
<1>2. Exclusion'
  BY DEF Exclusion, Holds, OwnerInv
<1>3. OwnerInv'
  BY DEF OwnerInv, Exclusion, Holds
<1>4. MutexInv'
  BY DEF MutexInv
<1>5. AnnouncedInv'
  BY DEF AnnouncedInv, Sleeps, MutexInv
<1>6. SpinInv'
  <2>1. Spinners' = Spinners
    BY DEF Spinners
  <2> QED BY <2>1, SpinnersStay
<1> QED BY <1>1, <1>2, <1>3, <1>4, <1>5, <1>6

(* A thread joins the count of spinning threads. *)
LEMMA SpinAddKeeps ==
    ASSUME LockInv, NEW t \in Thread, SpinAdd(t)
    PROVE  LockInv'
<1> USE LockAssumption DEF LockInv, LockTypeOK, LockPlace, SpinlockState, IdleCall,
        SpinAdd, Goto, ownership, queueVars, threadVars
<1>1. LockTypeOK'
  OBVIOUS
<1>2. Exclusion'
  BY DEF Exclusion, Holds, OwnerInv
<1>3. OwnerInv'
  BY DEF OwnerInv, Exclusion, Holds
<1>4. MutexInv'
  BY DEF MutexInv
<1>5. AnnouncedInv'
  BY DEF AnnouncedInv, Sleeps, MutexInv
<1>6. SpinInv'
  <2>1. Spinners' = Spinners \cup {t} /\ t \notin Spinners
    BY DEF Spinners
  <2>2. Cardinality(Spinners') = Cardinality(Spinners) + 1
    BY <2>1, SpinnersFinite, FS_AddElement, Zenon
  <2> QED BY <2>2, SpinnersFinite DEF SpinInv, SpinnersCounted, Spinners
<1> QED BY <1>1, <1>2, <1>3, <1>4, <1>5, <1>6

(* The compare-and-exchange takes a lock nobody holds. *)
LEMMA CasWinsKeeps ==
    ASSUME LockInv, NEW t \in Thread, CasWins(t)
    PROVE  LockInv'
<1> USE LockAssumption DEF LockInv, LockTypeOK, LockPlace, SpinlockState, IdleCall,
        CasWins, Goto, ownership, queueVars, threadVars
<1>1. LockTypeOK'
  OBVIOUS
<1>2. Exclusion'
  BY DEF Exclusion, Holds, OwnerInv
<1>3. OwnerInv'
  BY DEF OwnerInv, Exclusion, Holds
<1>4. MutexInv'
  BY DEF MutexInv
<1>5. AnnouncedInv'
  BY DEF AnnouncedInv, Sleeps, MutexInv
<1>6. SpinInv'
  <2>1. Spinners' = Spinners
    BY DEF Spinners
  <2> QED BY <2>1, SpinnersStay
<1> QED BY <1>1, <1>2, <1>3, <1>4, <1>5, <1>6

(* A failed attempt changes nothing that is shared. *)
LEMMA CasLosesKeeps ==
    ASSUME LockInv, NEW t \in Thread, CasLoses(t)
    PROVE  LockInv'
<1> USE LockAssumption DEF LockInv, LockTypeOK, LockPlace, SpinlockState, IdleCall,
        CasLoses, Goto, ownership, queueVars, threadVars
<1>1. LockTypeOK'
  OBVIOUS
<1>2. Exclusion'
  BY DEF Exclusion, Holds, OwnerInv
<1>3. OwnerInv'
  BY DEF OwnerInv, Exclusion, Holds
<1>4. MutexInv'
  BY DEF MutexInv
<1>5. AnnouncedInv'
  BY DEF AnnouncedInv, Sleeps, MutexInv
<1>6. SpinInv'
  <2>1. Spinners' = Spinners
    BY DEF Spinners
  <2> QED BY <2>1, SpinnersStay
<1> QED BY <1>1, <1>2, <1>3, <1>4, <1>5, <1>6

(* A thread leaves the count of spinning threads. *)
LEMMA SpinSubKeeps ==
    ASSUME LockInv, NEW t \in Thread, SpinSub(t)
    PROVE  LockInv'
<1> USE LockAssumption DEF LockInv, LockTypeOK, LockPlace, SpinlockState, IdleCall,
        SpinSub, Goto, ownership, queueVars, threadVars
<1>1. LockTypeOK'
  <2>1. Cardinality(Spinners) > 0
    <3>1. t \in Spinners
      BY DEF Spinners
    <3> QED BY <3>1, SpinnersFinite, FS_EmptySet
  <2>2. spinThreads - 1 \in Nat
    BY <2>1, SpinnersFinite DEF SpinInv
  <2> QED BY <2>2
<1>2. Exclusion'
  BY DEF Exclusion, Holds, OwnerInv
<1>3. OwnerInv'
  BY DEF OwnerInv, Exclusion, Holds
<1>4. MutexInv'
  BY DEF MutexInv
<1>5. AnnouncedInv'
  BY DEF AnnouncedInv, Sleeps, MutexInv
<1>6. SpinInv'
  <2>1. Spinners' = Spinners \ {t} /\ t \in Spinners
    BY DEF Spinners
  <2>2. Cardinality(Spinners') = Cardinality(Spinners) - 1
    BY <2>1, SpinnersFinite, FS_RemoveElement, Zenon
  <2> QED BY <2>2, SpinnersFinite DEF SpinInv, SpinnersCounted, Spinners
<1> QED BY <1>1, <1>2, <1>3, <1>4, <1>5, <1>6

(* The holder of the spinlock becomes the owner. *)
LEMMA OwnKeeps ==
    ASSUME LockInv, NEW t \in Thread, Own(t)
    PROVE  LockInv'
<1> USE LockAssumption DEF LockInv, LockTypeOK, LockPlace, SpinlockState, IdleCall,
        Own, Return, Goto, MonitorSet, ownership, queueVars, threadVars
<1>1. LockTypeOK'
  <2>1. pc' \in [Thread -> LockPlace] /\ call' \in [Thread -> CallType]
    BY ReturnType DEF CallType
  <2> QED BY <2>1 DEF CallType
<1>2. Exclusion'
  BY DEF Exclusion, Holds, OwnerInv
<1>3. OwnerInv'
  BY DEF OwnerInv, Exclusion, Holds
<1>4. MutexInv'
  BY DEF MutexInv
<1>5. AnnouncedInv'
  BY DEF AnnouncedInv, Sleeps, MutexInv
<1>6. SpinInv'
  <2>1. Spinners' = Spinners
    BY DEF Spinners
  <2> QED BY <2>1, SpinnersStay
<1> QED BY <1>1, <1>2, <1>3, <1>4, <1>5, <1>6

(* A failed try_enter leaves without a trace. *)
LEMMA TryFailsKeeps ==
    ASSUME LockInv, NEW t \in Thread, TryFails(t)
    PROVE  LockInv'
<1> USE LockAssumption DEF LockInv, LockTypeOK, LockPlace, SpinlockState, IdleCall,
        TryFails, Return, Goto, ownership, queueVars, threadVars
<1>1. LockTypeOK'
  OBVIOUS
<1>2. Exclusion'
  BY DEF Exclusion, Holds, OwnerInv
<1>3. OwnerInv'
  BY DEF OwnerInv, Exclusion, Holds
<1>4. MutexInv'
  BY DEF MutexInv
<1>5. AnnouncedInv'
  BY DEF AnnouncedInv, Sleeps, MutexInv
<1>6. SpinInv'
  <2>1. Spinners' = Spinners
    BY DEF Spinners
  <2> QED BY <2>1, SpinnersStay
<1> QED BY <1>1, <1>2, <1>3, <1>4, <1>5, <1>6

(* monitor->mutex is taken. *)
LEMMA LockMutexKeeps ==
    ASSUME LockInv, NEW t \in Thread, LockMutex(t)
    PROVE  LockInv'
<1> USE LockAssumption DEF LockInv, LockTypeOK, LockPlace, SpinlockState, IdleCall,
        LockMutex, Goto, ownership, queueVars, threadVars
<1>1. LockTypeOK'
  OBVIOUS
<1>2. Exclusion'
  BY DEF Exclusion, Holds, OwnerInv
<1>3. OwnerInv'
  BY DEF OwnerInv, Exclusion, Holds
<1>4. MutexInv'
  BY DEF MutexInv
<1>5. AnnouncedInv'
  BY DEF AnnouncedInv, Sleeps, MutexInv
<1>6. SpinInv'
  <2>1. Spinners' = Spinners
    BY DEF Spinners
  <2> QED BY <2>1, SpinnersStay
<1> QED BY <1>1, <1>2, <1>3, <1>4, <1>5, <1>6

(* The swap takes a free lock, or announces a sleeper. *)
LEMMA SwapExceededKeeps ==
    ASSUME LockInv, NEW t \in Thread, SwapExceeded(t)
    PROVE  LockInv'
<1> USE LockAssumption DEF LockInv, LockTypeOK, LockPlace, SpinlockState, IdleCall,
        SwapExceeded, Goto, ownership, queueVars, threadVars
<1>1. LockTypeOK'
  OBVIOUS
<1>2. Exclusion'
  BY DEF Exclusion, Holds, OwnerInv
<1>3. OwnerInv'
  BY DEF OwnerInv, Exclusion, Holds
<1>4. MutexInv'
  BY DEF MutexInv
<1>5. AnnouncedInv'
  BY DEF AnnouncedInv, Sleeps, MutexInv
<1>6. SpinInv'
  <2>1. Spinners' = Spinners
    BY DEF Spinners
  <2> QED BY <2>1, SpinnersStay
<1> QED BY <1>1, <1>2, <1>3, <1>4, <1>5, <1>6

(* A thread marks itself as blocked. *)
LEMMA BlockKeeps ==
    ASSUME LockInv, NEW t \in Thread, Block(t)
    PROVE  LockInv'
<1> USE LockAssumption DEF LockInv, LockTypeOK, LockPlace, SpinlockState, IdleCall,
        Block, Goto, SetFlags, Aborted, ownership, queueVars, threadVars
<1>1. LockTypeOK'
  OBVIOUS
<1>2. Exclusion'
  BY DEF Exclusion, Holds, OwnerInv
<1>3. OwnerInv'
  BY DEF OwnerInv, Exclusion, Holds
<1>4. MutexInv'
  BY DEF MutexInv
<1>5. AnnouncedInv'
  BY DEF AnnouncedInv, Sleeps, MutexInv
<1>6. SpinInv'
  <2>1. Spinners' = Spinners
    BY DEF Spinners
  <2> QED BY <2>1, SpinnersStay
<1> QED BY <1>1, <1>2, <1>3, <1>4, <1>5, <1>6

(* A thread queues up and sleeps; its announcement still stands. *)
LEMMA BlockSleepKeeps ==
    ASSUME LockInv, NEW t \in Thread, BlockSleep(t)
    PROVE  LockInv'
<1> USE LockAssumption DEF LockInv, LockTypeOK, LockPlace, SpinlockState, IdleCall,
        BlockSleep, Goto, ownership, queueVars, threadVars
<1>1. LockTypeOK'
  BY EnqueueKeepsAll
<1>2. Exclusion'
  BY DEF Exclusion, Holds, OwnerInv
<1>3. OwnerInv'
  BY DEF OwnerInv, Exclusion, Holds
<1>4. MutexInv'
  <2>1. ASSUME NEW u \in Thread, pc'[u] = "blocked"
        PROVE  \E i \in DOMAIN blocking' : blocking'[i] = u
    <3>1. u = t \/ \E i \in DOMAIN blocking : blocking[i] = u
      BY <2>1 DEF MutexInv
    <3>2. blocking' = threadEnqueue(blocking, t) /\ blocking \in Seq(Thread)
      OBVIOUS
    <3>3. \E i \in DOMAIN threadEnqueue(blocking, t) : threadEnqueue(blocking, t)[i] = u
      BY ONLY <3>1, <3>2, EnqueueKeepsAll, t \in Thread, u \in Thread, Zenon
    <3> QED BY ONLY <3>2, <3>3, Zenon
  <2>2. ASSUME NEW u \in Thread
        PROVE  /\ mutex' = u <=> pc'[u] \in {"swap", "block", "enqueue", "woken"}
               /\ cond'[u] # "awake" => pc'[u] = "blocked"
    BY DEF MutexInv
  <2> QED BY <2>1, <2>2, Zenon DEF MutexInv
<1>5. AnnouncedInv'
  BY DEF AnnouncedInv, Sleeps, MutexInv
<1>6. SpinInv'
  <2>1. Spinners' = Spinners
    BY DEF Spinners
  <2> QED BY <2>1, SpinnersStay
<1> QED BY <1>1, <1>2, <1>3, <1>4, <1>5, <1>6

(* A woken thread leaves the queue, the others stay. *)
LEMMA BlockWakeKeeps ==
    ASSUME LockInv, NEW t \in Thread, BlockWake(t)
    PROVE  LockInv'
<1> USE LockAssumption DEF LockInv, LockTypeOK, LockPlace, SpinlockState, IdleCall,
        BlockWake, Goto, ownership, queueVars, threadVars
<1>1. LockTypeOK'
  BY DequeueKeepsOthers
<1>2. Exclusion'
  BY DEF Exclusion, Holds, OwnerInv
<1>3. OwnerInv'
  BY DEF OwnerInv, Exclusion, Holds
<1>4. MutexInv'
  <2>1. ASSUME NEW u \in Thread, pc'[u] = "blocked"
        PROVE  \E i \in DOMAIN blocking' : blocking'[i] = u
    <3>1. u # t /\ \E i \in DOMAIN blocking : blocking[i] = u
      BY <2>1 DEF MutexInv
    <3>2. blocking' = threadDequeue(blocking, t) /\ blocking \in Seq(Thread)
      OBVIOUS
    <3>3. \E i \in DOMAIN threadDequeue(blocking, t) : threadDequeue(blocking, t)[i] = u
      BY ONLY <3>1, <3>2, DequeueKeepsOthers, t \in Thread, u \in Thread, Zenon
    <3> QED BY ONLY <3>2, <3>3, Zenon
  <2>2. ASSUME NEW u \in Thread
        PROVE  /\ mutex' = u <=> pc'[u] \in {"swap", "block", "enqueue", "woken"}
               /\ cond'[u] # "awake" => pc'[u] = "blocked"
    BY DEF MutexInv
  <2> QED BY <2>1, <2>2, Zenon DEF MutexInv
<1>5. AnnouncedInv'
  BY DEF AnnouncedInv, Sleeps, MutexInv
<1>6. SpinInv'
  <2>1. Spinners' = Spinners
    BY DEF Spinners
  <2> QED BY <2>1, SpinnersStay
<1> QED BY <1>1, <1>2, <1>3, <1>4, <1>5, <1>6

(* A woken thread starts over or returns because of an abort. *)
LEMMA BlockAgainKeeps ==
    ASSUME LockInv, NEW t \in Thread, BlockAgain(t)
    PROVE  LockInv'
<1> USE LockAssumption DEF LockInv, LockTypeOK, LockPlace, SpinlockState, IdleCall,
        BlockAgain, Return, Goto, SetFlags, Aborted, ownership, queueVars, threadVars
<1>1. LockTypeOK'
  <2>1. pc' \in [Thread -> LockPlace] /\ call' \in [Thread -> CallType]
    <3>1. call[t].fail = "idle"
      OBVIOUS
    <3>2. /\ pc' = [pc EXCEPT ![t] = "idle"] \/ pc' = [pc EXCEPT ![t] = "spin"]
          /\ call' = [call EXCEPT ![t] = IdleCall] \/ call' = call
      BY <3>1
    <3>3. /\ pc \in [Thread -> LockPlace] /\ {"idle", "spin"} \subseteq LockPlace
          /\ call \in [Thread -> CallType] /\ IdleCall \in CallType
      BY DEF CallType
    <3> QED BY ONLY <3>2, <3>3
  <2> QED BY <2>1 DEF CallType
<1>2. Exclusion'
  BY DEF Exclusion, Holds, OwnerInv
<1>3. OwnerInv'
  BY DEF OwnerInv, Exclusion, Holds
<1>4. MutexInv'
  BY DEF MutexInv
<1>5. AnnouncedInv'
  BY DEF AnnouncedInv, Sleeps, MutexInv
<1>6. SpinInv'
  <2>1. Spinners' = Spinners
    BY DEF Spinners
  <2> QED BY <2>1, SpinnersStay
<1> QED BY <1>1, <1>2, <1>3, <1>4, <1>5, <1>6

(* The owner is no longer blocked, or gives the monitor back. *)
LEMMA ClearKeeps ==
    ASSUME LockInv, NEW t \in Thread, Clear(t)
    PROVE  LockInv'
<1> USE LockAssumption DEF LockInv, LockTypeOK, LockPlace, SpinlockState, IdleCall,
        Clear, Return, Goto, SetFlags, Aborted, DropOwner, ownership, queueVars, threadVars
<1>1. LockTypeOK'
  <2>1. count - 1 \in Nat
    BY DEF OwnerInv
  <2>2. pc' \in [Thread -> LockPlace]
    <3>1. call[t].ok = "idle"
      OBVIOUS
    <3>2. pc' = [pc EXCEPT ![t] = "release"] \/ pc' = [pc EXCEPT ![t] = "idle"]
      BY <3>1
    <3>3. pc \in [Thread -> LockPlace] /\ {"release", "idle"} \subseteq LockPlace
      OBVIOUS
    <3> QED BY ONLY <3>2, <3>3
  <2>3. [call[t] EXCEPT !.ok = call[t].fail] \in CallType /\ IdleCall \in CallType
    BY DEF CallType
  <2>4. call' \in [Thread -> CallType]
    BY <2>3 DEF CallType
  <2> QED BY <2>1, <2>2, <2>4 DEF CallType
<1>2. Exclusion'
  BY DEF Exclusion, Holds, OwnerInv
<1>3. OwnerInv'
  BY DEF OwnerInv, Exclusion, Holds
<1>4. MutexInv'
  BY DEF MutexInv
<1>5. AnnouncedInv'
  BY DEF AnnouncedInv, Sleeps, MutexInv
<1>6. SpinInv'
  <2>1. Spinners' = Spinners
    BY DEF Spinners
  <2> QED BY <2>1, SpinnersStay
<1> QED BY <1>1, <1>2, <1>3, <1>4, <1>5, <1>6

(* The lock becomes free, and a promised wake-up is under way. *)
LEMMA ReleaseKeeps ==
    ASSUME LockInv, NEW t \in Thread, Release(t)
    PROVE  LockInv'
<1> USE LockAssumption DEF LockInv, LockTypeOK, LockPlace, SpinlockState, IdleCall,
        Release, Return, Goto, ownership, queueVars, threadVars
<1>1. LockTypeOK'
  <2>1. pc' \in [Thread -> LockPlace] /\ call' \in [Thread -> CallType]
    BY ReturnType DEF CallType
  <2> QED BY <2>1 DEF CallType
<1>2. Exclusion'
  BY DEF Exclusion, Holds, OwnerInv
<1>3. OwnerInv'
  BY DEF OwnerInv, Exclusion, Holds
<1>4. MutexInv'
  BY DEF MutexInv
<1>5. AnnouncedInv'
  BY DEF AnnouncedInv, Sleeps, MutexInv
<1>6. SpinInv'
  <2>1. Spinners' = Spinners
    BY DEF Spinners
  <2> QED BY <2>1, SpinnersStay
<1> QED BY <1>1, <1>2, <1>3, <1>4, <1>5, <1>6

(* Without spin-wake control the whole queue is awake afterwards. *)
LEMMA UnblockKeeps ==
    ASSUME LockInv, NEW t \in Thread, Unblock(t)
    PROVE  LockInv'
<1> USE LockAssumption DEF LockInv, LockTypeOK, LockPlace, SpinlockState, IdleCall,
        Unblock, Return, Goto, Signalled, ownership, queueVars, threadVars
<1>1. LockTypeOK'
  OBVIOUS
<1>2. Exclusion'
  BY DEF Exclusion, Holds, OwnerInv
<1>3. OwnerInv'
  BY DEF OwnerInv, Exclusion, Holds
<1>4. MutexInv'
  BY DEF MutexInv
<1>5. AnnouncedInv'
  <2>1. ASSUME ~SpinWakeControl, NEW u \in Thread,
               pc'[u] \in {"block", "enqueue"} \/ Sleeps(u)'
        PROVE  FALSE
    <3>1. mutex # u /\ (u # t => pc'[u] = pc[u]) /\ pc'[t] = "idle"
      OBVIOUS
    <3>2. pc[u] = "blocked" /\ cond[u] = "asleep" /\ cond'[u] = "asleep"
      BY <2>1, <3>1 DEF MutexInv, Sleeps
    <3>3. PICK i \in DOMAIN blocking : blocking[i] = u
      BY <3>2 DEF MutexInv
    <3>4. u \in ToUnblock
      BY <2>1, <3>3 DEF ToUnblock
    <3> QED BY <2>1, <3>2, <3>4
  <2> QED BY <2>1 DEF AnnouncedInv
<1>6. SpinInv'
  <2>1. Spinners' = Spinners
    BY DEF Spinners
  <2> QED BY <2>1, SpinnersStay
<1> QED BY <1>1, <1>2, <1>3, <1>4, <1>5, <1>6

(* A wake-up without a signal takes nobody out of the queue. *)
LEMMA SpuriousWakeKeeps ==
    ASSUME LockInv, NEW t \in Thread, SpuriousWake(t)
    PROVE  LockInv'
<1> USE LockAssumption DEF LockInv, LockTypeOK, LockPlace, SpinlockState, IdleCall,
        SpuriousWake, ownership, queueVars, threadVars
<1>1. LockTypeOK'
  OBVIOUS
<1>2. Exclusion'
  BY DEF Exclusion, Holds, OwnerInv
<1>3. OwnerInv'
  BY DEF OwnerInv, Exclusion, Holds
<1>4. MutexInv'
  BY DEF MutexInv
<1>5. AnnouncedInv'
  BY DEF AnnouncedInv, Sleeps, MutexInv
<1>6. SpinInv'
  <2>1. Spinners' = Spinners
    BY DEF Spinners
  <2> QED BY <2>1, SpinnersStay
<1> QED BY <1>1, <1>2, <1>3, <1>4, <1>5, <1>6

(* In the child of a fork the survivor alone may hold the monitor. *)
LEMMA ForkChildKeeps ==
    ASSUME LockInv, NEW t \in Thread, ForkChild(t)
    PROVE  LockInv'
<1> USE LockAssumption DEF LockInv, LockTypeOK, LockPlace, SpinlockState, IdleCall,
        ForkChild, ResetMonitor, ChildThreads, ownership, queueVars, threadVars
<1>1. LockTypeOK'
  OBVIOUS
<1>2. Exclusion'
  BY DEF Exclusion, Holds, OwnerInv
<1>3. OwnerInv'
  BY DEF OwnerInv, Exclusion, Holds
<1>4. MutexInv'
  BY DEF MutexInv
<1>5. AnnouncedInv'
  BY DEF AnnouncedInv, Sleeps, MutexInv
<1>6. SpinInv'
  <2>1. Spinners' = {}
    BY DEF Spinners
  <2>2. Cardinality(Spinners') = 0
    BY <2>1, FS_EmptySet
  <2> QED BY <2>2 DEF SpinInv
<1> QED BY <1>1, <1>2, <1>3, <1>4, <1>5, <1>6

(* The clients stop calling. *)
LEMMA ClientsLeaveKeeps ==
    ASSUME LockInv, ClientsLeave
    PROVE  LockInv'
<1> USE LockAssumption DEF LockInv, LockTypeOK, LockPlace, SpinlockState, IdleCall,
        ClientsLeave, ownership, queueVars, threadVars
<1>1. LockTypeOK'
  OBVIOUS
<1>2. Exclusion'
  BY DEF Exclusion, Holds, OwnerInv
<1>3. OwnerInv'
  BY DEF OwnerInv, Exclusion, Holds
<1>4. MutexInv'
  BY DEF MutexInv
<1>5. AnnouncedInv'
  BY DEF AnnouncedInv, Sleeps, MutexInv
<1>6. SpinInv'
  <2>1. Spinners' = Spinners
    BY DEF Spinners
  <2> QED BY <2>1, SpinnersStay
<1> QED BY <1>1, <1>2, <1>3, <1>4, <1>5, <1>6

-----------------------------------------------------------------------------
(* The inductive invariant holds initially ... *)
LEMMA LockInitially == LockInit => LockInv
<1> SUFFICES ASSUME LockInit PROVE LockInv
  OBVIOUS
<1> USE LockAssumption DEF LockInit
<1>1. LockTypeOK
  BY DEF LockTypeOK, LockPlace, SpinlockState, IdleCall
<1>2. Exclusion /\ OwnerInv /\ MutexInv /\ AnnouncedInv
  BY DEF Exclusion, Holds, OwnerInv, MutexInv, AnnouncedInv, Sleeps
<1>3. SpinInv
  <2>1. Spinners = {}
    BY DEF Spinners
  <2>2. Cardinality(Spinners) = 0
    BY <2>1, FS_EmptySet
  <2> QED BY <2>2 DEF SpinInv, SpinnersCounted, Spinners
<1> QED BY <1>1, <1>2, <1>3 DEF LockInv

(* ... and every step keeps it. *)
LEMMA LockInductive ==
    LockInv /\ [LockNext \/ ClientsLeave]_lockVars => LockInv'
<1> SUFFICES ASSUME LockInv, [LockNext \/ ClientsLeave]_lockVars PROVE LockInv'
  OBVIOUS
<1>1. CASE UNCHANGED lockVars
  <2> USE <1>1 DEF LockInv, lockVars, ownership, queueVars, threadVars
  <2>1. LockTypeOK'
    BY DEF LockTypeOK
  <2>2. Exclusion' /\ OwnerInv' /\ MutexInv'
    BY DEF Exclusion, Holds, OwnerInv, MutexInv
  <2>3. AnnouncedInv'
    BY DEF AnnouncedInv, Sleeps
  <2>4. Spinners' = Spinners
    BY DEF Spinners
  <2> QED BY <2>1, <2>2, <2>3, <2>4, SpinnersStay
<1>2. CASE ClientsLeave
  BY <1>2, ClientsLeaveKeeps
<1>3. ASSUME NEW t \in Thread, LockCall(t) PROVE LockInv'
  BY <1>3, EnterAgainKeeps, EnterCallKeeps, ExitCallKeeps DEF LockCall
<1>4. ASSUME NEW t \in Thread, LockStep(t) PROVE LockInv'
  BY <1>4, SpinStartKeeps, SpinAddKeeps, CasWinsKeeps, CasLosesKeeps,
     SpinSubKeeps, OwnKeeps, TryFailsKeeps, LockMutexKeeps, SwapExceededKeeps,
     BlockKeeps, BlockSleepKeeps, BlockWakeKeeps,
     BlockAgainKeeps, ClearKeeps, ReleaseKeeps, UnblockKeeps
     DEF LockStep
<1>5. ASSUME NEW t \in Thread, SpuriousWake(t) PROVE LockInv'
  BY <1>5, SpuriousWakeKeeps
<1>6. ASSUME NEW t \in Thread, ForkChild(t) PROVE LockInv'
  BY <1>6, ForkChildKeeps
<1> QED BY <1>1, <1>2, <1>3, <1>4, <1>5, <1>6 DEF LockNext

-----------------------------------------------------------------------------
(* Every behaviour of monitor_enter, try_enter, monitor_exit and fork keeps
   the inductive invariant. *)
THEOREM LockInvariance == LockSpec => []LockInv
<1>1. LockInv /\ [LockNext]_lockVars => LockInv'
  BY LockInductive
<1> QED BY LockInitially, <1>1, PTL DEF LockSpec

(* Type correctness of the three-tier lock. *)
THEOREM LockTypeCorrect == LockSpec => []LockTypeOK
<1>1. LockInv => LockTypeOK
  BY DEF LockInv
<1> QED BY <1>1, LockInvariance, PTL

(* At most one thread holds the monitor, and spinlockState says UNOWNED exactly
   when none does, whatever compare-and-exchanges, swaps and forks interleave. *)
THEOREM LockExclusion == LockSpec => []Exclusion
<1>1. LockInv => Exclusion
  BY DEF LockInv
<1> QED BY <1>1, LockInvariance, PTL

(* Without spin-wake control a sleeper has EXCEEDED or a wake-up on its side. *)
THEOREM LockAnnounced == LockSpec => []SleeperAnnounced
<1>1. LockInv => SleeperAnnounced
  BY DEF LockInv, AnnouncedInv, SleeperAnnounced
<1> QED BY <1>1, LockInvariance, PTL

(* Without spin-wake control unblock_spinlock_threads is enough: nobody sleeps
   on a free monitor that no other thread is about to take or to hand on. *)
THEOREM LockNobodyStranded ==
    ASSUME ~SpinWakeControl
    PROVE  LockSpec => []NobodySleepsOnFreeMonitor
<1>1. LockInv => NobodySleepsOnFreeMonitor
  <2> SUFFICES ASSUME LockInv, spinlockState = "UNOWNED",
                      NEW t \in Thread, Sleeps(t)
               PROVE  \E u \in Thread : Carries(u)
    BY DEF NobodySleepsOnFreeMonitor
  <2>1. PICK u \in Thread : pc[u] = "unblock"
    BY DEF LockInv, AnnouncedInv
  <2> QED BY <2>1 DEF Carries
<1> QED BY <1>1, LockInvariance, PTL

(* Without forks spinThreads is the exact number of threads between the add
   and the subtract of omrthread_spinlock_acquire. *)
THEOREM LockSpinnersCounted ==
    ASSUME ~ForkAllowed
    PROVE  LockSpec => []SpinnersCounted
<1>1. LockInv => SpinnersCounted
  BY DEF LockInv, SpinInv
<1> QED BY <1>1, LockInvariance, PTL

=============================================================================
