----------------------------- MODULE MonitorLock -----------------------------
(***************************************************************************)
(* The lock of a three-tier omrthread monitor: spin on spinlockState, then *)
(* announce contention by swapping EXCEEDED in, then sleep on the queue    *)
(* monitor->blocking until an exit wakes the sleeper to try again.         *)
(*                                                                         *)
(* A step is one atomic instruction (a compare-and-exchange, a swap, an    *)
(* add) or one critical section of monitor->mutex (MONITOR_LOCK) or of a   *)
(* thread's own mutex (THREAD_LOCK).  An unlock belongs to the step before *)
(* it.  monitor_enter, try_enter and monitor_exit are also called by wait  *)
(* and by the interrupt code, so a call records where it returns to.       *)
(***************************************************************************)
EXTENDS Naturals, Sequences, FiniteSets

CONSTANTS
    Thread, NoThread,
    SpinWakeControl,    \* OMR_THR_SPIN_WAKE_CONTROL is defined
    MaxSpinThreads,     \* lib->maxSpinThreads; 0 is IGNORE_SPIN_THREAD_BOUND
    MaxWakeThreads,     \* lib->maxWakeThreads
    TryEnterSpin,       \* J9THREAD_MONITOR_TRY_ENTER_SPIN is set
    Modes,              \* the entry calls the clients make
    SpuriousWakes,      \* whether waits end without a signal
    ForkAllowed,        \* whether a client forks (OMR_THR_FORK_SUPPORT)
    MaxCount            \* bound: the recursion depth of the clients

ASSUME LockAssumption ==
    /\ IsFiniteSet(Thread) /\ NoThread \notin Thread
    /\ SpinWakeControl \in BOOLEAN /\ TryEnterSpin \in BOOLEAN
    /\ Modes \subseteq {"try", "enter", "abortable"}
    /\ SpuriousWakes \in BOOLEAN /\ ForkAllowed \in BOOLEAN
    /\ MaxSpinThreads \in Nat /\ MaxWakeThreads \in Nat \ {0}
    /\ MaxCount \in Nat \ {0}

VARIABLES
    spinlockState,  \* monitor->spinlockState
    owner, count,   \* monitor->owner, monitor->count
    mutex,          \* the thread inside monitor->mutex
    blocking,       \* monitor->blocking, head first
    spinThreads,    \* monitor->spinThreads
    flags,          \* thread->flags
    threadLock,     \* the threads whose own mutex somebody else keeps locked
    cond,           \* thread->condition: is the thread in a wait on it, woken?
    pc, call,       \* control of each thread, and the lock call it executes
    clients         \* whether the clients still start new calls

ownership == <<owner, count>>
queueVars == <<mutex, blocking>>
threadVars == <<flags, threadLock, cond, clients>>
lockVars == <<spinlockState, ownership, queueVars, spinThreads, threadVars,
              pc, call>>

SpinlockState == {"UNOWNED", "OWNED", "EXCEEDED"}
IdleCall == [mode |-> "enter", ok |-> "idle", fail |-> "idle"]

Goto(t, place) == pc' = [pc EXCEPT ![t] = place]
Return(t, place) == Goto(t, place) /\ call' = [call EXCEPT ![t] = IdleCall]
SetFlags(t, new) == flags' = [flags EXCEPT ![t] = new]

(* omrthread_spinlock_acquire counts the spinning threads. *)
Counting == SpinWakeControl /\ MaxSpinThreads # 0

Aborted(t) == call[t].mode = "abortable" /\ "ABORTED" \in flags[t]

(* NOTIFY_WRAPPER: the signal reaches a thread that is in its wait, and is
   lost on any other. *)
Signalled(S) ==
    [t \in Thread |-> IF t \in S /\ cond[t] = "asleep" THEN "signalled"
                      ELSE cond[t]]

(* Mutant: the loop of unblock_spinlock_threads ends one thread early. *)
ToUnblockFewer ==
    {blocking[i] : i \in {j \in DOMAIN blocking :
                             SpinWakeControl => j < MaxWakeThreads}}

(* The threads unblock_spinlock_threads signals: the first maxWakeThreads of
   the queue under spin-wake control, the whole queue otherwise. *)
ToUnblock ==
    {blocking[i] : i \in {j \in DOMAIN blocking :
                             SpinWakeControl => j <= MaxWakeThreads}}

(* threadEnqueue: link t at the tail. *)
threadEnqueue(queue, t) == Append(queue, t)

(* threadDequeue: unlink t. *)
threadDequeue(queue, t) ==
    LET k == CHOOSE i \in DOMAIN queue : queue[i] = t
    IN IF \A i \in DOMAIN queue : queue[i] # t THEN queue
       ELSE [i \in 1..(Len(queue) - 1) |-> IF i < k THEN queue[i] ELSE queue[i + 1]]

LockInit ==
    /\ spinlockState = "UNOWNED"
    /\ owner = NoThread /\ count = 0
    /\ mutex = NoThread
    /\ blocking = <<>>
    /\ spinThreads = 0
    /\ flags = [t \in Thread |-> {}]
    /\ threadLock = {}
    /\ cond = [t \in Thread |-> "awake"]
    /\ pc = [t \in Thread |-> "idle"]
    /\ call = [t \in Thread |-> IdleCall]
    /\ clients = "coming"

-----------------------------------------------------------------------------
(* Calls of the clients. *)

(* The recursive branch of omrthread_monitor_enter and of try_enter. *)
EnterAgain(t) ==
    /\ clients = "coming"
    /\ pc[t] = "idle" /\ owner = t /\ count < MaxCount
    /\ count' = count + 1
    /\ UNCHANGED <<spinlockState, owner, queueVars, spinThreads, threadVars,
                   pc, call>>

(* Start monitor_enter_three_tier or try_enter; the latter makes a single
   attempt when the monitor does not have TRY_ENTER_SPIN. *)
Start(t, mode, ok, fail) ==
    /\ call' = [call EXCEPT ![t] = [mode |-> mode, ok |-> ok, fail |-> fail]]
    /\ Goto(t, IF mode = "try" /\ ~TryEnterSpin THEN "cas" ELSE "spin")

(* omrthread_monitor_enter, _enter_abortable, _try_enter, by a non-owner. *)
EnterCall(t, mode) ==
    /\ clients = "coming"
    /\ pc[t] = "idle" /\ owner # t
    /\ Start(t, mode, "idle", "idle")
    /\ UNCHANGED <<spinlockState, ownership, queueVars, spinThreads, threadVars>>

(* Mutant: the owner is not reset. *)
DropOwnerStale(t) == count' = count - 1 /\ owner' = owner

(* monitor_exit up to the release of the spinlock. *)
DropOwner(t) ==
    /\ count' = count - 1
    /\ owner' = IF count = 1 THEN NoThread ELSE owner

(* omrthread_monitor_exit. *)
ExitCall(t) ==
    /\ pc[t] = "idle" /\ owner = t
    /\ DropOwner(t)
    /\ Goto(t, IF count = 1 THEN "release" ELSE "idle")
    /\ UNCHANGED <<spinlockState, queueVars, spinThreads, threadVars, call>>

-----------------------------------------------------------------------------
(* omrthread_spinlock_acquire. *)

(* Read monitor->spinThreads: spin counted, or attempt once uncounted. *)
SpinStart(t) ==
    /\ pc[t] = "spin"
    /\ Goto(t, IF Counting /\ spinThreads < MaxSpinThreads THEN "spin_add"
               ELSE "cas")
    /\ UNCHANGED <<spinlockState, ownership, queueVars, spinThreads, threadVars,
                   call>>

SpinAdd(t) ==
    /\ pc[t] = "spin_add"
    /\ spinThreads' = spinThreads + 1
    /\ Goto(t, "cas_counted")
    /\ UNCHANGED <<spinlockState, ownership, queueVars, threadVars, call>>

(* The compare-and-exchange succeeds. *)
CasWins(t) ==
    /\ pc[t] \in {"cas", "cas_counted"}
    /\ spinlockState = "UNOWNED"
    /\ spinlockState' = "OWNED"
    /\ Goto(t, IF pc[t] = "cas" THEN "won" ELSE "sub_won")
    /\ UNCHANGED <<ownership, queueVars, spinThreads, threadVars, call>>

(* The last compare-and-exchange of the loop fails.  Earlier failures only
   spin, and are stuttering steps. *)
CasLoses(t) ==
    /\ pc[t] \in {"cas", "cas_counted"}
    /\ spinlockState # "UNOWNED"
    /\ Goto(t, IF pc[t] = "cas" THEN "lost" ELSE "sub_lost")
    /\ UNCHANGED <<spinlockState, ownership, queueVars, spinThreads, threadVars,
                   call>>

(* Mutant: a thread that gives up does not leave the count. *)
SpinSubWon(t) ==
    /\ pc[t] \in {"sub_won", "sub_lost"}
    /\ spinThreads' = IF pc[t] = "sub_won" THEN spinThreads - 1 ELSE spinThreads
    /\ Goto(t, IF pc[t] = "sub_won" THEN "won" ELSE "lost")
    /\ UNCHANGED <<spinlockState, ownership, queueVars, threadVars, call>>

(* Leave the count, whatever the outcome. *)
SpinSub(t) ==
    /\ pc[t] \in {"sub_won", "sub_lost"}
    /\ spinThreads' = spinThreads - 1
    /\ Goto(t, IF pc[t] = "sub_won" THEN "won" ELSE "lost")
    /\ UNCHANGED <<spinlockState, ownership, queueVars, threadVars, call>>

-----------------------------------------------------------------------------
(* monitor_enter_three_tier, and the end of try_enter. *)

(* thread->monitor is set: t blocked in this call or comes out of a wait. *)
MonitorSet(t) == "BLOCKED" \in flags[t] \/ call[t].ok = "wait_return"

(* The spinlock is ours: become the owner. *)
Own(t) ==
    /\ pc[t] = "won"
    /\ owner' = t /\ count' = 1
    /\ IF call[t].mode = "abortable" \/ MonitorSet(t)
       THEN Goto(t, "clear") /\ UNCHANGED call
       ELSE Return(t, call[t].ok)
    /\ UNCHANGED <<spinlockState, queueVars, spinThreads, threadVars>>

(* try_enter gives up. *)
TryFails(t) ==
    /\ pc[t] = "lost" /\ call[t].mode = "try"
    /\ Return(t, call[t].fail)
    /\ UNCHANGED <<spinlockState, ownership, queueVars, spinThreads, threadVars>>

(* MONITOR_LOCK. *)
LockMutex(t) ==
    /\ pc[t] = "lost" /\ call[t].mode # "try"
    /\ mutex = NoThread
    /\ mutex' = t
    /\ Goto(t, "swap")
    /\ UNCHANGED <<spinlockState, ownership, blocking, spinThreads, threadVars,
                   call>>

(* Swap EXCEEDED in: it asks the owner to wake us, or takes a free lock. *)
SwapExceeded(t) ==
    /\ pc[t] = "swap"
    /\ spinlockState' = "EXCEEDED"
    /\ mutex' = IF spinlockState = "UNOWNED" THEN NoThread ELSE mutex
    /\ Goto(t, IF spinlockState = "UNOWNED" THEN "won" ELSE "block")
    /\ UNCHANGED <<ownership, blocking, spinThreads, threadVars, call>>

(* The THREAD_LOCK section before blocking, an earlier abort found. *)
BlockAborted(t) ==
    /\ pc[t] = "block" /\ t \notin threadLock
    /\ Aborted(t)
    /\ SetFlags(t, flags[t] \ {"BLOCKED", "ABORTABLE"})
    /\ mutex' = NoThread
    /\ Return(t, call[t].fail)
    /\ UNCHANGED <<spinlockState, ownership, blocking, spinThreads, threadLock,
                   cond, clients>>

(* The same section, no abort found. *)
Block(t) ==
    /\ pc[t] = "block" /\ t \notin threadLock
    /\ ~Aborted(t)
    /\ SetFlags(t, flags[t] \cup {"BLOCKED"} \cup
                   IF call[t].mode = "abortable" THEN {"ABORTABLE"} ELSE {})
    /\ Goto(t, "enqueue")
    /\ UNCHANGED <<spinlockState, ownership, queueVars, spinThreads, threadLock,
                   cond, clients, call>>

(* threadEnqueue and OMROSCOND_WAIT, which lets monitor->mutex go. *)
BlockSleep(t) ==
    /\ pc[t] = "enqueue"
    /\ blocking' = threadEnqueue(blocking, t)
    /\ cond' = [cond EXCEPT ![t] = "asleep"]
    /\ mutex' = NoThread
    /\ Goto(t, "blocked")
    /\ UNCHANGED <<spinlockState, ownership, spinThreads, flags, threadLock,
                   clients, call>>

(* Awake, monitor->mutex locked again: leave the queue. *)
BlockWake(t) ==
    /\ pc[t] = "blocked" /\ cond[t] = "signalled"
    /\ mutex = NoThread
    /\ mutex' = t
    /\ cond' = [cond EXCEPT ![t] = "awake"]
    /\ blocking' = threadDequeue(blocking, t)
    /\ Goto(t, "woken")
    /\ UNCHANGED <<spinlockState, ownership, spinThreads, flags, threadLock,
                   clients, call>>

(* Return because of an abort, or start over. *)
BlockAgain(t) ==
    /\ pc[t] = "woken"
    /\ call[t].mode = "abortable" => t \notin threadLock
    /\ mutex' = NoThread
    /\ IF Aborted(t)
       THEN /\ SetFlags(t, flags[t] \ {"BLOCKED", "ABORTABLE"})
            /\ Return(t, call[t].fail)
       ELSE /\ Goto(t, "spin")
            /\ UNCHANGED <<flags, call>>
    /\ UNCHANGED <<spinlockState, ownership, blocking, spinThreads, threadLock,
                   cond, clients>>

(* The monitor is owned: no longer blocked.  A late abort gives it back with
   monitor_exit and fails the call. *)
Clear(t) ==
    /\ pc[t] = "clear" /\ t \notin threadLock
    /\ SetFlags(t, flags[t] \ {"BLOCKED", "ABORTABLE"})
    /\ IF Aborted(t)
       THEN /\ DropOwner(t)
            /\ call' = [call EXCEPT ![t].ok = call[t].fail]
            /\ Goto(t, "release")
       ELSE /\ Return(t, call[t].ok)
            /\ UNCHANGED ownership
    /\ UNCHANGED <<spinlockState, queueVars, spinThreads, threadLock, cond,
                   clients>>

-----------------------------------------------------------------------------
(* The rest of monitor_exit. *)

(* Mutant: the blocked threads are forgotten. *)
ReleaseSilent(t) ==
    /\ pc[t] = "release"
    /\ spinlockState' = "UNOWNED"
    /\ Return(t, call[t].ok)
    /\ UNCHANGED <<ownership, queueVars, spinThreads, threadVars>>

(* Swap UNOWNED in.  Without spin-wake control, only a lock that was
   EXCEEDED has somebody to wake. *)
Release(t) ==
    /\ pc[t] = "release"
    /\ spinlockState' = "UNOWNED"
    /\ IF SpinWakeControl \/ spinlockState = "EXCEEDED"
       THEN Goto(t, "unblock") /\ UNCHANGED call
       ELSE Return(t, call[t].ok)
    /\ UNCHANGED <<ownership, queueVars, spinThreads, threadVars>>

(* unblock_spinlock_threads inside monitor->mutex.  Under spin-wake control
   nobody is woken while another thread is counted as spinning. *)
Unblock(t) ==
    /\ pc[t] = "unblock"
    /\ mutex = NoThread
    /\ cond' = IF SpinWakeControl /\ spinThreads # 0 THEN cond
               ELSE Signalled(ToUnblock)
    /\ Return(t, call[t].ok)
    /\ UNCHANGED <<spinlockState, ownership, queueVars, spinThreads, flags,
                   threadLock, clients>>

-----------------------------------------------------------------------------
(* fork() in thread t, seen from the child: omrthread_lib_postForkChild.  The
   other threads are gone; their names stand for threads the child creates. *)

ChildThreads(t) ==
    /\ pc' = [u \in Thread |-> "idle"]
    /\ call' = [u \in Thread |-> IdleCall]
    /\ flags' = [u \in Thread |-> IF u = t THEN flags[t] ELSE {}]
    /\ cond' = [u \in Thread |-> "awake"]
    /\ threadLock' = {}
    /\ UNCHANGED clients

(* Mutant: the spinlock of a thread that is gone stays taken. *)
ResetMonitorNotSpinlock(t) ==
    /\ mutex' = NoThread /\ blocking' = <<>>
    /\ owner' = IF owner = t THEN t ELSE NoThread
    /\ spinThreads' = IF owner = t THEN spinThreads ELSE 0
    /\ UNCHANGED <<spinlockState, count>>

(* Mutant: monitor->mutex is not initialized again. *)
ResetMonitorNotMutex(t) ==
    /\ blocking' = <<>>
    /\ owner' = IF owner = t THEN t ELSE NoThread
    /\ spinThreads' = IF owner = t THEN spinThreads ELSE 0
    /\ spinlockState' = IF owner = t THEN "OWNED" ELSE "UNOWNED"
    /\ UNCHANGED <<mutex, count>>

(* postForkResetMonitors.  A monitor of the survivor keeps spinThreads, and
   any monitor keeps count. *)
ResetMonitor(t) ==
    /\ mutex' = NoThread /\ blocking' = <<>>
    /\ IF owner = t
       THEN /\ spinlockState' = IF spinlockState = "EXCEEDED" THEN "OWNED"
                                ELSE spinlockState
            /\ UNCHANGED <<owner, spinThreads>>
       ELSE spinlockState' = "UNOWNED" /\ owner' = NoThread /\ spinThreads' = 0
    /\ UNCHANGED count

ForkChild(t) ==
    /\ ForkAllowed
    /\ pc[t] = "idle"
    /\ ResetMonitor(t)
    /\ ChildThreads(t)

-----------------------------------------------------------------------------
(* A wait on a condition variable may end without a signal. *)
SpuriousWake(t) ==
    /\ SpuriousWakes
    /\ cond[t] = "asleep"
    /\ cond' = [cond EXCEPT ![t] = "signalled"]
    /\ UNCHANGED <<spinlockState, ownership, queueVars, spinThreads, flags,
                   threadLock, clients, pc, call>>

(* From here on the clients only leave: nobody enters again. *)
ClientsLeave ==
    /\ clients = "coming"
    /\ clients' = "leaving"
    /\ UNCHANGED <<spinlockState, ownership, queueVars, spinThreads, flags,
                   threadLock, cond, pc, call>>

(* The steps of a lock call under way.  BlockAborted is a step where threads
   are aborted (MonitorInterrupt). *)
LockStep(t) ==
    \/ SpinStart(t) \/ SpinAdd(t) \/ CasWins(t) \/ CasLoses(t) \/ SpinSub(t)
    \/ Own(t) \/ TryFails(t) \/ LockMutex(t) \/ SwapExceeded(t)
    \/ Block(t) \/ BlockSleep(t) \/ BlockWake(t) \/ BlockAgain(t)
    \/ Clear(t) \/ Release(t) \/ Unblock(t)

LockCall(t) ==
    \/ EnterAgain(t)
    \/ \E mode \in Modes : EnterCall(t, mode)
    \/ ExitCall(t)

LockNext ==
    \E t \in Thread :
        LockCall(t) \/ LockStep(t) \/ SpuriousWake(t) \/ ForkChild(t)

LockSpec == LockInit /\ [][LockNext]_lockVars

(* Every thread is scheduled, an owner that is leaving exits, and the clients
   stop calling at some point. *)
FairLockSpec ==
    /\ LockInit /\ [][LockNext \/ ClientsLeave]_lockVars
    /\ \A t \in Thread : WF_lockVars(LockStep(t)) /\ WF_lockVars(ExitCall(t))
    /\ WF_lockVars(ClientsLeave)

-----------------------------------------------------------------------------
(* Properties. *)

LockPlace == {"idle", "spin", "spin_add", "cas", "cas_counted", "sub_won",
              "sub_lost", "won", "lost", "swap", "block", "enqueue", "blocked",
              "woken", "clear", "release", "unblock"}

LockTypeOK ==
    /\ spinlockState \in SpinlockState
    /\ owner \in Thread \cup {NoThread} /\ count \in Nat
    /\ mutex \in Thread \cup {NoThread}
    /\ blocking \in Seq(Thread)
    /\ spinThreads \in Nat
    /\ flags \in [Thread -> SUBSET {"BLOCKED", "ABORTABLE", "ABORTED"}]
    /\ threadLock \subseteq Thread
    /\ cond \in [Thread -> {"awake", "asleep", "signalled"}]
    /\ pc \in [Thread -> LockPlace]
    /\ call \in [Thread -> [mode : {"try", "enter", "abortable"},
                            ok : {"idle"}, fail : {"idle"}]]
    /\ clients \in {"coming", "leaving"}

(* A thread holds the spinlock from the instruction that takes it, through
   its time as owner, to the swap that gives it back. *)
Holds(t) == owner = t \/ pc[t] \in {"sub_won", "won", "clear", "release"}

(* monitor_enter, try_enter and monitor_exit keep the monitor exclusive, and
   spinlockState says UNOWNED exactly when no thread holds it: a swap of
   EXCEEDED by a contender never lets two threads in nor loses the lock. *)
Exclusion ==
    /\ \A t, u \in Thread : Holds(t) /\ Holds(u) => t = u
    /\ spinlockState = "UNOWNED" <=> \A t \in Thread : ~Holds(t)

(* spinThreads counts the threads between the add and the subtract of
   omrthread_spinlock_acquire, so it is 0 whenever nobody spins. *)
SpinnersCounted ==
    spinThreads = Cardinality({t \in Thread :
                      pc[t] \in {"cas_counted", "sub_won", "sub_lost"}})

(* t sleeps on the blocking queue. *)
Sleeps(t) == pc[t] = "blocked" /\ cond[t] = "asleep"

(* t is about to wake the blocked threads, or is awake in a call that takes
   the monitor if it stays free. *)
Carries(t) ==
    \/ pc[t] \in {"unblock", "spin", "spin_add", "cas", "cas_counted", "swap",
                "woken"}
    \/ pc[t] = "blocked" /\ cond[t] = "signalled"
    \/ pc[t] \in {"sub_lost", "lost"} /\ call[t].mode # "try"

(* unblock_spinlock_threads: no thread sleeps on a free monitor unless
   somebody is on the way who will take the monitor or wake the sleeper. *)
NobodySleepsOnFreeMonitor ==
    spinlockState = "UNOWNED" /\ (\E t \in Thread : Sleeps(t))
        => \E t \in Thread : Carries(t)

(* Without spin-wake control EXCEEDED is a promise: while a thread sleeps on
   the queue, the holder's exit will see EXCEEDED and wake the whole queue,
   or that wake-up is already under way. *)
SleeperAnnounced ==
    ~SpinWakeControl =>
        \A t \in Thread : Sleeps(t) =>
            \/ spinlockState = "EXCEEDED"
            \/ \E u \in Thread : pc[u] = "unblock"

(* Once the clients only leave, every call of monitor_enter returns and the
   monitor becomes free: no wake-up is lost. *)
EveryEnterReturns ==
    clients = "leaving" ~> \A t \in Thread : pc[t] = "idle" /\ owner # t

-----------------------------------------------------------------------------
(* The inductive invariant of the lock. *)

(* Where a thread may be that owns the monitor, or has its spinlock but is
   not yet, or no longer, its owner. *)
OwnerInv ==
    /\ \A t \in Thread :
          /\ owner = t => pc[t] \in {"idle", "clear"}
          /\ pc[t] = "clear" => owner = t /\ count = 1
          /\ pc[t] \in {"sub_won", "won", "release"} => owner = NoThread
    /\ owner # NoThread => count > 0

(* Who is inside monitor->mutex, and who is queued. *)
MutexInv ==
    \A t \in Thread :
        /\ mutex = t <=> pc[t] \in {"swap", "block", "enqueue", "woken"}
        /\ cond[t] # "awake" => pc[t] = "blocked"
        /\ pc[t] = "blocked" => \E i \in DOMAIN blocking : blocking[i] = t

(* SleeperAnnounced holds from the swap on, before the thread sleeps. *)
AnnouncedInv ==
    ~SpinWakeControl =>
        \A t \in Thread : pc[t] \in {"block", "enqueue"} \/ Sleeps(t) =>
            \/ spinlockState = "EXCEEDED"
            \/ \E u \in Thread : pc[u] = "unblock"

(* The threads counted in spinThreads. *)
Spinners == {t \in Thread : pc[t] \in {"cas_counted", "sub_won", "sub_lost"}}

(* A fork may leave threads in the count that are gone, never one too few. *)
SpinInv ==
    /\ Cardinality(Spinners) <= spinThreads
    /\ ~ForkAllowed => SpinnersCounted

(* The inductive invariant of monitor_enter, try_enter and monitor_exit: the
   properties above, and the places and queues they depend on. *)
LockInv ==
    /\ LockTypeOK /\ Exclusion
    /\ OwnerInv /\ MutexInv /\ AnnouncedInv /\ SpinInv

=============================================================================
