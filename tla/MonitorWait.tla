----------------------------- MODULE MonitorWait -----------------------------
(***************************************************************************)
(* Wait and notify on a three-tier monitor, on top of MonitorLock.  Two    *)
(* implementations are in the code: the original one (a notified thread    *)
(* stays on its wait list until it wakes; notify_all moves the whole list  *)
(* to a second one, told apart by wait numbers) and, with FAST_NOTIFY, the *)
(* three-tier one (a notified thread moves to the blocking queue and is    *)
(* woken by a later exit).                                                 *)
(*                                                                         *)
(* Either implements the abstract monitor of module Monitor.               *)
(***************************************************************************)
EXTENDS MonitorLock

CONSTANTS
    FastNotify,     \* J9THREAD_LIB_FLAG_FAST_NOTIFY is set
    WaitKinds,      \* the values of interruptible that the clients' waits pass
    TimedWaits,     \* whether clients call wait with a timeout
    MaxWaitNumber   \* bound: the highest wait number

ASSUME WaitAssumption ==
    /\ FastNotify \in BOOLEAN /\ TimedWaits \in BOOLEAN
    /\ WaitKinds \subseteq {{}, {"ABORTABLE"}, {"INTERRUPTABLE", "ABORTABLE"}}
    /\ MaxWaitNumber \in Nat \ {0}

VARIABLES
    waiting,            \* monitor->waiting, head first
    notifyAllWaiting,   \* monitor->notifyAllWaiting, head first
    waitNumber,         \* thread->waitNumber
    saved               \* the local count of wait; 0 outside

waitLists == <<waiting, notifyAllWaiting, waitNumber>>
waitVars == <<waitLists, saved>>
monitorVars == <<lockVars, waitVars>>

WaitInit ==
    /\ LockInit
    /\ waiting = <<>> /\ notifyAllWaiting = <<>>
    /\ waitNumber = [t \in Thread |-> 0]
    /\ saved = [t \in Thread |-> 0]

LastNumber(queue) == waitNumber[queue[Len(queue)]]

(* Mutant: the threads that notify_all moved away do not count. *)
WaitingNumberOnly == IF waiting # <<>> THEN LastNumber(waiting) ELSE 0

monitor_maximum_wait_number ==
    IF waiting # <<>> THEN LastNumber(waiting)
    ELSE IF notifyAllWaiting # <<>> THEN LastNumber(notifyAllWaiting)
    ELSE 0

(* omrthread_monitor_destroy refuses to free the monitor. *)
InUse == owner # NoThread \/ monitor_maximum_wait_number # 0

monitor_on_notify_all_wait_list(t) ==
    notifyAllWaiting # <<>> /\ waitNumber[t] <= LastNumber(notifyAllWaiting)

check_notified(t) ==
    \/ "NOTIFIED" \in flags[t]
    \/ ~FastNotify /\ monitor_on_notify_all_wait_list(t)

(* intrFlags: the interrupts that the wait of t responds to.  The flags
   INTERRUPTABLE and ABORTABLE are the argument interruptible during a wait. *)
IntrFlags(t, interruptible) ==
    flags[t] \cap ((IF "INTERRUPTABLE" \in interruptible
                    THEN {"INTERRUPTED", "PRIORITY_INTERRUPTED"} ELSE {})
                   \cup
                   (IF "ABORTABLE" \in interruptible THEN {"ABORTED"} ELSE {}))

-----------------------------------------------------------------------------
(* monitor_wait. *)

(* An interrupt that is already pending ends the call, and is consumed unless
   it is an abort. *)
WaitRefused(t, interruptible) ==
    LET intr == IntrFlags(t, interruptible)
    IN /\ clients = "coming"
       /\ pc[t] = "idle" /\ owner = t /\ t \notin threadLock
       /\ intr # {}
       /\ SetFlags(t, flags[t] \ IF "INTERRUPTED" \in intr THEN {"INTERRUPTED"}
                                 ELSE {"PRIORITY_INTERRUPTED"} \cap intr)
       /\ UNCHANGED <<spinlockState, ownership, queueVars, spinThreads,
                      threadLock, cond, clients, pc, call, waitVars>>

(* Record the wait in the flags and give up the ownership. *)
WaitCall(t, interruptible, timer) ==
    /\ clients = "coming"
    /\ pc[t] = "idle" /\ owner = t /\ t \notin threadLock
    /\ monitor_maximum_wait_number < MaxWaitNumber
    /\ IntrFlags(t, interruptible) = {}
    /\ SetFlags(t, flags[t] \cup {"WAITING"} \cup interruptible \cup timer)
    /\ saved' = [saved EXCEPT ![t] = count]
    /\ owner' = NoThread /\ count' = 0
    /\ Goto(t, "wait_lock")
    /\ UNCHANGED <<spinlockState, queueVars, spinThreads, threadLock, cond,
                   clients, call, waitLists>>

(* MONITOR_LOCK. *)
WaitLock(t) ==
    /\ pc[t] = "wait_lock"
    /\ mutex = NoThread
    /\ mutex' = t
    /\ Goto(t, "wait_swap")
    /\ UNCHANGED <<spinlockState, ownership, blocking, spinThreads, threadVars,
                   call, waitVars>>

(* Give the spinlock back. *)
WaitSwap(t) ==
    /\ pc[t] = "wait_swap"
    /\ spinlockState' = "UNOWNED"
    /\ Goto(t, IF SpinWakeControl \/ spinlockState = "EXCEEDED"
               THEN "wait_unblock" ELSE "wait_enqueue")
    /\ UNCHANGED <<ownership, queueVars, spinThreads, threadVars, call, waitVars>>

(* Wake the blocked threads, join the wait list and wait on the condition,
   which lets monitor->mutex go. *)
WaitSleep(t) ==
    /\ pc[t] \in {"wait_unblock", "wait_enqueue"}
    /\ cond' = [(IF pc[t] = "wait_enqueue" \/ (SpinWakeControl /\ spinThreads # 0)
                 THEN cond ELSE Signalled(ToUnblock)) EXCEPT ![t] = "asleep"]
    /\ waitNumber' = IF FastNotify THEN waitNumber
                     ELSE [waitNumber EXCEPT ![t] = monitor_maximum_wait_number + 1]
    /\ waiting' = threadEnqueue(waiting, t)
    /\ mutex' = NoThread
    /\ Goto(t, "waiting")
    /\ UNCHANGED <<spinlockState, ownership, blocking, spinThreads, flags,
                   threadLock, clients, call, notifyAllWaiting, saved>>

(* The timeout of the wait expires. *)
TimeOut(t) ==
    /\ pc[t] = "waiting" /\ cond[t] = "asleep" /\ "TIMER_SET" \in flags[t]
    /\ cond' = [cond EXCEPT ![t] = "timedout"]
    /\ UNCHANGED <<spinlockState, ownership, queueVars, spinThreads, flags,
                   threadLock, clients, pc, call, waitVars>>

(* The wait on the condition returns, with monitor->mutex locked again. *)
WaitWake(t) ==
    /\ pc[t] = "waiting" /\ cond[t] \in {"signalled", "timedout"}
    /\ mutex = NoThread
    /\ mutex' = t
    /\ Goto(t, "wait_check")
    /\ UNCHANGED <<spinlockState, ownership, blocking, spinThreads, threadVars,
                   call, waitVars>>

(* The THREAD_LOCK section after the wake-up, no reason to stop waiting. *)
WaitAgain(t) ==
    /\ pc[t] = "wait_check" /\ t \notin threadLock
    /\ cond[t] = "signalled"
    /\ IntrFlags(t, flags[t]) = {} /\ ~check_notified(t)
    /\ cond' = [cond EXCEPT ![t] = "asleep"]
    /\ mutex' = NoThread
    /\ Goto(t, "waiting")
    /\ UNCHANGED <<spinlockState, ownership, blocking, spinThreads, flags,
                   threadLock, clients, call, waitVars>>

(* The flags at the end of a wait.  A notification or a priority interrupt
   leaves a plain interrupt pending; the abort flags stay set. *)
FlagsAfterWait(t) ==
    LET intr == IntrFlags(t, flags[t])
        consumed == IF intr = {"INTERRUPTED"} /\ ~check_notified(t)
                    THEN {"INTERRUPTED"} ELSE {}
        priority == IF "INTERRUPTABLE" \in flags[t]
                    THEN {"PRIORITY_INTERRUPTED"} ELSE {}
        blocked == IF intr = {} /\ ~check_notified(t) THEN {"BLOCKED"} ELSE {}
    IN (flags[t] \cup blocked)
         \ ({"WAITING", "TIMER_SET", "INTERRUPTABLE", "NOTIFIED"}
            \cup consumed \cup priority)

(* The same section, the wait is over: leave the list the thread finds itself
   on, cancel a thread that is on its way to interrupt the wait, then enter
   the monitor again. *)
WaitDone(t, canceled) ==
    /\ pc[t] = "wait_check" /\ t \notin threadLock
    /\ cond[t] = "timedout" \/ IntrFlags(t, flags[t]) # {} \/ check_notified(t)
    /\ IF FastNotify
       THEN /\ blocking' = IF check_notified(t) THEN threadDequeue(blocking, t)
                           ELSE blocking
            /\ waiting' = IF check_notified(t) THEN waiting
                          ELSE threadDequeue(waiting, t)
            /\ UNCHANGED notifyAllWaiting
       ELSE /\ waiting' = IF monitor_on_notify_all_wait_list(t) THEN waiting
                          ELSE threadDequeue(waiting, t)
            /\ notifyAllWaiting' = IF monitor_on_notify_all_wait_list(t)
                                   THEN threadDequeue(notifyAllWaiting, t)
                                   ELSE notifyAllWaiting
            /\ UNCHANGED blocking
    /\ waitNumber' = [waitNumber EXCEPT ![t] = 0]
    /\ flags' = [u \in Thread |->
          IF u = t THEN FlagsAfterWait(t)
          ELSE IF u \in canceled THEN flags[u] \cup {"CANCELED"} ELSE flags[u]]
    /\ cond' = [cond EXCEPT ![t] = "awake"]
    /\ mutex' = NoThread
    /\ Start(t, IF "ABORTABLE" \in flags[t] THEN "abortable" ELSE "enter",
             "wait_return", "wait_failed")
    /\ UNCHANGED <<spinlockState, ownership, spinThreads, threadLock, clients,
                   saved>>

(* Mutant: the recursion count is not restored. *)
WaitReturnOnce(t) ==
    /\ pc[t] = "wait_return"
    /\ saved' = [saved EXCEPT ![t] = 0]
    /\ Goto(t, "idle")
    /\ UNCHANGED <<spinlockState, ownership, queueVars, spinThreads, threadVars,
                   call, waitLists>>

(* Mutant: the restored recursion count is one too low. *)
WaitReturnShort(t) ==
    /\ pc[t] = "wait_return"
    /\ count' = saved[t] - 1
    /\ saved' = [saved EXCEPT ![t] = 0]
    /\ Goto(t, "idle")
    /\ UNCHANGED <<spinlockState, owner, queueVars, spinThreads, threadVars,
                   call, waitLists>>

(* The monitor is ours again, with the recursion count it had. *)
WaitReturn(t) ==
    /\ pc[t] = "wait_return"
    /\ count' = saved[t]
    /\ saved' = [saved EXCEPT ![t] = 0]
    /\ Goto(t, "idle")
    /\ UNCHANGED <<spinlockState, owner, queueVars, spinThreads, threadVars,
                   call, waitLists>>

(* J9THREAD_INTERRUPTED_MONITOR_ENTER: the thread does not own the monitor. *)
WaitFailed(t) ==
    /\ pc[t] = "wait_failed"
    /\ saved' = [saved EXCEPT ![t] = 0]
    /\ Goto(t, "idle")
    /\ UNCHANGED <<spinlockState, ownership, queueVars, spinThreads, threadVars,
                   call, waitLists>>

-----------------------------------------------------------------------------
(* monitor_notify_one_or_all. *)

(* MONITOR_LOCK; notifyall is where the call continues. *)
NotifyCall(t, notifyall) ==
    /\ clients = "coming"
    /\ pc[t] = "idle" /\ owner = t
    /\ mutex = NoThread
    /\ mutex' = t
    /\ Goto(t, notifyall)
    /\ UNCHANGED <<spinlockState, ownership, blocking, spinThreads, threadVars,
                   call, waitVars>>

(* The places of the wait list whose threads are still waiting. *)
StillWaiting == {i \in DOMAIN waiting : "WAITING" \in flags[waiting[i]]}

(* The threads a notify visits under their THREAD_LOCK, and the ones of them
   it notifies: the first one still waiting, or all of them. *)
Visited(notifyall) ==
    {waiting[i] : i \in {j \in DOMAIN waiting :
        notifyall = "notify" => \A k \in StillWaiting : j <= k}}

(* Mutant: notify does not stop after the first thread. *)
ToNotifyEvery(notifyall) == {waiting[i] : i \in StillWaiting}

ToNotify(notifyall) ==
    {u \in Visited(notifyall) : "WAITING" \in flags[u]}

(* Mutant: the NOTIFIED flag is not set. *)
SetBlockedOnly(S) ==
    flags' = [u \in Thread |->
        IF u \in S THEN (flags[u] \ {"WAITING"}) \cup {"BLOCKED"} ELSE flags[u]]

(* The flags of a notified thread. *)
SetNotified(S) ==
    flags' = [u \in Thread |->
        IF u \in S THEN (flags[u] \ {"WAITING"}) \cup {"BLOCKED", "NOTIFIED"}
        ELSE flags[u]]

(* Mutant: the threads are marked and not signalled. *)
NotifyQuietly(S) == SetNotified(S) /\ UNCHANGED cond

threadNotify(S) == SetNotified(S) /\ cond' = Signalled(S)

(* monitor_notify_original; notify_all moves the list first. *)
NotifyOriginal(t) ==
    /\ ~FastNotify
    /\ pc[t] \in {"notify", "notify_all"}
    /\ Visited(pc[t]) \cap threadLock = {}
    /\ threadNotify(ToNotify(pc[t]))
    /\ IF pc[t] = "notify_all"
       THEN /\ notifyAllWaiting' = notifyAllWaiting \o waiting
            /\ waiting' = <<>>
       ELSE UNCHANGED <<waiting, notifyAllWaiting>>
    /\ mutex' = NoThread
    /\ Goto(t, "idle")
    /\ UNCHANGED <<spinlockState, ownership, blocking, spinThreads, threadLock,
                   clients, call, waitNumber, saved>>

(* Move the first n waiting threads to the blocking queue. *)
MoveQueue(n) ==
    /\ {waiting[i] : i \in 1..n} \cap threadLock = {}
    /\ SetNotified({waiting[i] : i \in 1..n})
    /\ blocking' = blocking \o SubSeq(waiting, 1, n)
    /\ waiting' = SubSeq(waiting, n + 1, Len(waiting))

(* The moved threads are announced to the exit of this owner by EXCEEDED. *)
MoveToBlocking(n) == MoveQueue(n) /\ spinlockState' = "EXCEEDED"

(* monitor_notify_three_tier. *)
NotifyThreeTier(t) ==
    /\ FastNotify
    /\ pc[t] \in {"notify", "notify_all"}
    /\ IF waiting = <<>> THEN UNCHANGED <<spinlockState, blocking, flags, waiting>>
       ELSE MoveToBlocking(IF pc[t] = "notify_all" THEN Len(waiting) ELSE 1)
    /\ mutex' = NoThread
    /\ Goto(t, "idle")
    /\ UNCHANGED <<ownership, spinThreads, threadLock, cond, clients, call,
                   notifyAllWaiting, waitNumber, saved>>

-----------------------------------------------------------------------------
Timers == IF TimedWaits THEN {{}, {"TIMER_SET"}} ELSE {{}}

WaitStart(t) ==
    \/ \E interruptible \in WaitKinds, timer \in Timers :
          WaitCall(t, interruptible, timer)
    \/ \E notifyall \in {"notify", "notify_all"} : NotifyCall(t, notifyall)

(* The steps of a wait or a notify under way.  WaitRefused and WaitFailed are
   steps where threads are interrupted (MonitorInterrupt). *)
WaitStep(t) ==
    \/ WaitLock(t) \/ WaitSwap(t) \/ WaitSleep(t)
    \/ WaitWake(t) \/ WaitAgain(t)
    \/ WaitReturn(t)
    \/ NotifyOriginal(t) \/ NotifyThreeTier(t)

(* A wait on a condition ends without a signal finitely often: once the clients
   only leave, no more. *)
LockOnly(t) == LockStep(t) \/ (clients = "coming" /\ SpuriousWake(t))

WaitNext ==
    \E t \in Thread :
        \/ (LockCall(t) \/ LockOnly(t)) /\ UNCHANGED waitVars
        \/ WaitStart(t) \/ WaitStep(t) \/ WaitDone(t, {}) \/ TimeOut(t)

WaitSpec == WaitInit /\ [][WaitNext]_monitorVars

(* Threads are scheduled, timers expire, owners that are leaving exit. *)
FairWaitSpec ==
    /\ WaitInit /\ [][WaitNext \/ (ClientsLeave /\ UNCHANGED waitVars)]_monitorVars
    /\ \A t \in Thread :
          /\ WF_monitorVars((LockStep(t) \/ ExitCall(t)) /\ UNCHANGED waitVars)
          /\ WF_monitorVars(WaitStep(t) \/ WaitDone(t, {}))
          /\ WF_monitorVars(TimeOut(t))
    /\ WF_monitorVars(ClientsLeave /\ UNCHANGED waitVars)

-----------------------------------------------------------------------------
(* Properties. *)

Members(queue) == {queue[i] : i \in DOMAIN queue}

InWait == {"waiting", "wait_check"}

WaitTypeOK ==
    /\ spinlockState \in SpinlockState
    /\ owner \in Thread \cup {NoThread} /\ mutex \in Thread \cup {NoThread}
    /\ count \in Nat /\ spinThreads \in Nat
    /\ blocking \in Seq(Thread) /\ waiting \in Seq(Thread)
    /\ notifyAllWaiting \in Seq(Thread)
    /\ waitNumber \in [Thread -> Nat] /\ saved \in [Thread -> Nat]
    /\ threadLock \subseteq Thread
    /\ cond \in [Thread -> {"awake", "asleep", "signalled", "timedout"}]

(* The queue that threadDequeue takes a waking thread from, chosen by its
   wait number or its NOTIFIED flag, is the queue the thread is really on;
   and no thread is on two queues, nor twice on one.  In the original mode
   omrthread_monitor_destroy, which looks at the wait numbers alone, takes a
   monitor with waiters to be in use. *)
QueuesAgree ==
    /\ WaitTypeOK
    /\ \A t \in Thread : pc[t] \in InWait =>
          IF FastNotify
          THEN t \in Members(IF check_notified(t) THEN blocking ELSE waiting)
          ELSE t \in Members(IF monitor_on_notify_all_wait_list(t)
                             THEN notifyAllWaiting ELSE waiting)
    /\ Len(blocking) + Len(waiting) + Len(notifyAllWaiting) =
          Cardinality({t \in Thread : pc[t] \in InWait \cup {"blocked"}})
    /\ ~FastNotify /\ Members(waiting) \cup Members(notifyAllWaiting) # {} => InUse

(* The abstract wait list: the threads still waiting, then those that gave up
   the monitor and have yet to queue, the one inside monitor->mutex first. *)
AbstractWaiting ==
    LET at(places) == SelectSeq(<<mutex>>, LAMBDA u : u # NoThread /\ pc[u] \in places)
        releasing == {u \in Thread : pc[u] \in {"wait_lock", "wait_swap"}}
    IN SelectSeq(waiting, LAMBDA u : "WAITING" \in flags[u])
         \o at({"wait_unblock", "wait_enqueue"})
         \o (IF releasing = {} THEN <<>>
             ELSE <<CHOOSE u \in releasing : TRUE>>)

(* Between the re-entry and the restored count, the abstract thread is still
   coming back. *)
Returning(t) == saved[t] > 0

AbstractOwner ==
    IF owner # NoThread /\ Returning(owner) THEN NoThread ELSE owner

Abstract == INSTANCE Monitor WITH
    owner <- AbstractOwner,
    count <- IF AbstractOwner = NoThread THEN 0 ELSE count,
    waiting <- AbstractWaiting

(* The three-tier monitor implements the abstract one: FIFO notification, one
   owner, and waits that give the recursion count back. *)
ImplementsMonitor == Abstract!Spec

(* omrthread_monitor_notify ends the wait of exactly one thread, the one that
   has waited longest, although the wait list still holds threads that are
   notified, timed out or interrupted and have yet to leave it. *)
NotifyIsFifo ==
    [][\A t \in Thread : pc[t] = "notify" /\ pc'[t] = "idle" =>
          AbstractWaiting' = SubSeq(AbstractWaiting, 2, Len(AbstractWaiting))
      ]_monitorVars

(* The assertion of monitor_wait_three_tier after a wake-up: nobody signals a
   thread in a FAST_NOTIFY wait without a reason to end that wait. *)
WakeHasReason ==
    \A t \in Thread : pc[t] = "wait_check" /\ cond[t] = "signalled" =>
        IntrFlags(t, flags[t]) # {} \/ check_notified(t)

(* Once the clients only leave, every call returns but the waits that nobody
   notified: no notification and no wake-up of a blocked thread is lost. *)
NotifiedWaitReturns ==
    clients = "leaving" ~>
        \A t \in Thread : \/ pc[t] = "idle" /\ owner # t
                          \/ pc[t] = "waiting" /\ "WAITING" \in flags[t]
=============================================================================
