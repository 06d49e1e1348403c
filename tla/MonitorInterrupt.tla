--------------------------- MODULE MonitorInterrupt ---------------------------
(***************************************************************************)
(* Interrupts and aborts of threads that wait on, or are blocked on, a     *)
(* three-tier monitor, on top of MonitorWait.  The interrupting thread     *)
(* holds the library's global mutex.  It wakes a waiter itself if it can   *)
(* enter the monitor without blocking, and otherwise spawns a thread that  *)
(* runs interruptServer: enter the monitor, wake the waiter, die.          *)
(***************************************************************************)
EXTENDS MonitorWait

CONSTANTS
    Server,         \* the threads that run interruptServer
    Kinds,          \* the interrupts the clients send
    MaxInterrupts   \* bound: how many interrupts are sent

ASSUME InterruptAssumption ==
    /\ Server \subseteq Thread
    /\ Kinds \subseteq {"INTERRUPTED", "PRIORITY_INTERRUPTED", "ABORTED"}
    /\ MaxInterrupts \in Nat

VARIABLES
    globalLock,     \* the thread inside lib->globalLock
    interrupter,    \* thread->interrupter
    target,         \* the argument threadToInterrupt of a call under way
    pins,           \* the threads that pin the monitor (monitor->pinCount)
    interrupts      \* how many interrupts were sent

interruptVars == <<globalLock, interrupter, target, pins, interrupts>>
vars == <<monitorVars, interruptVars>>

Client == Thread \ Server

Init ==
    /\ WaitInit
    /\ globalLock = NoThread
    /\ interrupter = [t \in Thread |-> NoThread]
    /\ target = [t \in Thread |-> NoThread]
    /\ pins = {}
    /\ interrupts = 0

(* Mutant: an abort is taken for an ordinary interrupt. *)
WakesInterruptable(kind, curr) == "INTERRUPTABLE" \in curr

(* threadInterrupt wakes a thread whose flags are curr. *)
Wakes(kind, curr) ==
    \/ "INTERRUPTABLE" \in curr
    \/ kind = "ABORTED" /\ "ABORTABLE" \in curr

-----------------------------------------------------------------------------
(* threadInterrupt, called by i to interrupt v. *)

(* GLOBAL_LOCK, THREAD_LOCK(v) and the new flag. *)
Flagged(i, v, kind) ==
    /\ clients = "coming"
    /\ pc[i] = "idle"
    /\ interrupts < MaxInterrupts
    /\ globalLock = NoThread /\ v \notin threadLock
    /\ kind \notin flags[v]
    /\ SetFlags(v, flags[v] \cup {kind})
    /\ interrupts' = interrupts + 1

(* v is not in a state that the interrupt ends. *)
InterruptRunning(i, v, kind) ==
    /\ Flagged(i, v, kind)
    /\ ~Wakes(kind, flags[v]) \/ {"WAITING", "BLOCKED"} \cap flags[v] = {}
    /\ UNCHANGED <<spinlockState, ownership, queueVars, spinThreads, threadLock,
                   cond, clients, pc, call, waitVars, globalLock, interrupter,
                   target, pins>>

(* interrupt_waiting_thread: try to enter the monitor, holding THREAD_LOCK. *)
InterruptWaiting(i, v, kind) ==
    /\ Flagged(i, v, kind)
    /\ Wakes(kind, flags[v]) /\ "WAITING" \in flags[v]
    /\ globalLock' = i
    /\ threadLock' = threadLock \cup {v}
    /\ target' = [target EXCEPT ![i] = v]
    /\ IF owner = i
       THEN /\ count' = count + 1
            /\ Goto(i, "intr_entered")
            /\ UNCHANGED call
       ELSE /\ Start(i, "try", "intr_entered", "intr_spawn")
            /\ UNCHANGED count
    /\ UNCHANGED <<spinlockState, owner, queueVars, spinThreads, cond, clients,
                   waitVars, interrupter, pins>>

(* The monitor is entered: THREAD_UNLOCK, to lock monitor->mutex first. *)
InterruptUnlock(i) ==
    /\ pc[i] = "intr_entered"
    /\ threadLock' = threadLock \ {target[i]}
    /\ Goto(i, "intr_lock")
    /\ UNCHANGED <<spinlockState, ownership, queueVars, spinThreads, flags, cond,
                   clients, call, waitVars, interruptVars>>

InterruptLock(i) ==
    /\ pc[i] \in {"intr_lock", "intr_blocked"}
    /\ mutex = NoThread
    /\ mutex' = i
    /\ Goto(i, IF pc[i] = "intr_lock" THEN "intr_wake" ELSE "intr_blocked_wake")
    /\ UNCHANGED <<spinlockState, ownership, blocking, spinThreads, threadVars,
                   call, waitVars, interruptVars>>

(* Mutant: a waiter that can only be aborted is passed over. *)
WakeOnlyInterruptable(v, really) ==
    IF really /\ {"WAITING", "INTERRUPTABLE"} \subseteq flags[v]
    THEN /\ SetFlags(v, flags[v] \cup {"BLOCKED"})
         /\ cond' = Signalled({v})
    ELSE UNCHANGED <<flags, cond>>

(* threadInterruptWake, if v still waits. *)
WakeWaiting(v, really) ==
    IF really /\ "WAITING" \in flags[v]
    THEN /\ SetFlags(v, flags[v] \cup {"BLOCKED"})
         /\ cond' = Signalled({v})
    ELSE UNCHANGED <<flags, cond>>

InterruptWake(i) ==
    /\ pc[i] = "intr_wake" /\ target[i] \notin threadLock
    /\ WakeWaiting(target[i], TRUE)
    /\ mutex' = NoThread
    /\ Goto(i, "intr_exit")
    /\ UNCHANGED <<spinlockState, ownership, blocking, spinThreads, threadLock,
                   clients, call, waitVars, interruptVars>>

(* omrthread_monitor_exit_using_threadId. *)
InterruptExit(i) ==
    /\ pc[i] = "intr_exit"
    /\ DropOwner(i)
    /\ IF count = 1
       THEN /\ call' = [call EXCEPT ![i] = [IdleCall EXCEPT !.ok = "intr_done"]]
            /\ Goto(i, "release")
       ELSE /\ Goto(i, "intr_done")
            /\ UNCHANGED call
    /\ UNCHANGED <<spinlockState, queueVars, spinThreads, threadVars, waitVars,
                   interruptVars>>

(* GLOBAL_UNLOCK. *)
InterruptDone(i) ==
    /\ pc[i] = "intr_done"
    /\ globalLock' = NoThread
    /\ target' = [target EXCEPT ![i] = NoThread]
    /\ Goto(i, "idle")
    /\ UNCHANGED <<spinlockState, ownership, queueVars, spinThreads, threadVars,
                   call, waitVars, interrupter, pins, interrupts>>

(* The monitor is not free: threadCreate starts s to interrupt v. *)
InterruptSpawn(i, s) ==
    /\ pc[i] = "intr_spawn"
    /\ pc[s] = "idle"           \* not created yet, or freed
    /\ interrupter' = [interrupter EXCEPT ![target[i]] = s]
    /\ target' = [target EXCEPT ![s] = target[i], ![i] = NoThread]
    /\ pc' = [pc EXCEPT ![s] = "server", ![i] = "idle"]
    /\ threadLock' = threadLock \ {target[i]}
    /\ globalLock' = NoThread
    /\ UNCHANGED <<spinlockState, ownership, queueVars, spinThreads, flags, cond,
                   clients, call, waitVars, pins, interrupts>>

(* interrupt_blocked_thread: signal v at once if monitor->mutex is free, else
   pin the monitor, let THREAD_LOCK go and wait for the mutex. *)
InterruptBlocked(i, v, kind) ==
    /\ Flagged(i, v, kind)
    /\ Wakes(kind, flags[v])
    /\ "WAITING" \notin flags[v] /\ "BLOCKED" \in flags[v]
    /\ IF mutex = NoThread
       THEN /\ cond' = Signalled({v})
            /\ UNCHANGED <<pc, globalLock, target, pins>>
       ELSE /\ globalLock' = i
            /\ target' = [target EXCEPT ![i] = v]
            /\ pins' = pins \cup {i}
            /\ Goto(i, "intr_blocked")
            /\ UNCHANGED cond
    /\ UNCHANGED <<spinlockState, ownership, queueVars, spinThreads, threadLock,
                   clients, call, waitVars, interrupter>>

InterruptBlockedWake(i) ==
    LET v == target[i]
    IN /\ pc[i] = "intr_blocked_wake" /\ v \notin threadLock
       /\ cond' = IF {"BLOCKED", "ABORTABLE", "ABORTED"} \subseteq flags[v]
                  THEN Signalled({v}) ELSE cond
       /\ pins' = pins \ {i}
       /\ mutex' = NoThread
       /\ Goto(i, "intr_done")
       /\ UNCHANGED <<spinlockState, ownership, blocking, spinThreads, flags,
                      threadLock, clients, call, waitVars, globalLock,
                      interrupter, target, interrupts>>

-----------------------------------------------------------------------------
(* interruptServer, run by s. *)

(* threadInternalExit: a server thread is neither attached nor joinable, so
   threadDestroy follows at once and the structure may be used again.  Nobody
   interrupts it, so that it has no interrupter to cancel. *)
Dies(s) ==
    /\ Goto(s, "idle")
    /\ SetFlags(s, {})
    /\ target' = [target EXCEPT ![s] = NoThread]

(* Die at once if canceled or replaced; else pin the monitor and enter it. *)
ServerStart(s) ==
    LET v == target[s]
    IN /\ pc[s] = "server"
       /\ globalLock = NoThread /\ v \notin threadLock
       /\ IF "CANCELED" \in flags[s] \/ interrupter[v] # s
          THEN /\ Dies(s)
               /\ UNCHANGED <<call, pins>>
          ELSE /\ pins' = pins \cup {s}
               /\ Start(s, "enter", "server_entered", "server_entered")
               /\ UNCHANGED <<flags, target>>
       /\ UNCHANGED <<spinlockState, ownership, queueVars, spinThreads,
                      threadLock, cond, clients, waitVars, globalLock,
                      interrupter, interrupts>>

(* The monitor is ours: wake v unless canceled or replaced meanwhile. *)
ServerWake(s) ==
    LET v == target[s]
    IN /\ pc[s] = "server_entered"
       /\ globalLock = NoThread /\ v \notin threadLock
       /\ pins' = pins \ {s}
       /\ IF "CANCELED" \in flags[s]
          THEN UNCHANGED <<flags, cond, interrupter>>
          ELSE /\ WakeWaiting(v, interrupter[v] = s)
               /\ interrupter' = [interrupter EXCEPT ![v] = NoThread]
       /\ Goto(s, "server_exit")
       /\ UNCHANGED <<spinlockState, ownership, queueVars, spinThreads,
                      threadLock, clients, call, waitVars, globalLock, target,
                      interrupts>>

(* omrthread_exit(monitor): GLOBAL_LOCK, then monitor_exit. *)
ServerExit(s) ==
    /\ pc[s] = "server_exit"
    /\ globalLock = NoThread
    /\ globalLock' = s
    /\ DropOwner(s)
    /\ call' = [call EXCEPT ![s] = [IdleCall EXCEPT !.ok = "server_exited"]]
    /\ Goto(s, "release")
    /\ UNCHANGED <<spinlockState, queueVars, spinThreads, threadVars, waitVars,
                   interrupter, target, pins, interrupts>>

(* The monitor is exited: die, and GLOBAL_UNLOCK. *)
ServerDies(s) ==
    /\ pc[s] = "server_exited"
    /\ globalLock' = NoThread
    /\ Dies(s)
    /\ UNCHANGED <<spinlockState, ownership, queueVars, spinThreads, threadLock,
                   cond, clients, call, waitVars, interrupter, pins, interrupts>>

-----------------------------------------------------------------------------
(* omrthread_clear_interrupted, omrthread_clear_priority_interrupted. *)
ClearInterrupted(t, kind) ==
    /\ clients = "coming"
    /\ pc[t] = "idle" /\ t \notin threadLock
    /\ kind \in flags[t]
    /\ SetFlags(t, flags[t] \ {kind})
    /\ UNCHANGED <<spinlockState, ownership, queueVars, spinThreads, threadLock,
                   cond, clients, pc, call, waitVars, interruptVars>>

(* Mutant: the interrupter is canceled and not forgotten. *)
WaitDoneRemember(t) ==
    WaitDone(t, {interrupter[t]} \ {NoThread}) /\ UNCHANGED interruptVars

(* The end of a wait cancels the thread that is on its way to interrupt it. *)
WaitDoneCancel(t) ==
    /\ WaitDone(t, {interrupter[t]} \ {NoThread})
    /\ interrupter' = [interrupter EXCEPT ![t] = NoThread]
    /\ UNCHANGED <<globalLock, target, pins, interrupts>>

InterruptCall(i) ==
    \/ \E v \in Client, kind \in Kinds :
          \/ InterruptRunning(i, v, kind)
          \/ InterruptWaiting(i, v, kind)
          \/ InterruptBlocked(i, v, kind)
    \/ \E kind \in {"INTERRUPTED", "PRIORITY_INTERRUPTED"} :
          ClearInterrupted(i, kind)

InterruptStep(i) ==
    \/ InterruptUnlock(i) \/ InterruptLock(i) \/ InterruptWake(i)
    \/ InterruptExit(i) \/ InterruptDone(i)
    \/ InterruptBlockedWake(i)
    \/ \E s \in Server : InterruptSpawn(i, s)

ServerStep(s) ==
    ServerStart(s) \/ ServerWake(s) \/ ServerExit(s) \/ ServerDies(s)

(* What a client calls, and what a thread does by itself. *)
ClientCall(t) ==
    \/ LockCall(t) /\ UNCHANGED <<waitVars, interruptVars>>
    \/ WaitStart(t) /\ UNCHANGED interruptVars
    \/ \E interruptible \in WaitKinds :
          WaitRefused(t, interruptible) /\ UNCHANGED interruptVars
    \/ InterruptCall(t)

ThreadStep(t) ==
    \/ LockStep(t) /\ UNCHANGED <<waitVars, interruptVars>>
    \/ BlockAborted(t) /\ UNCHANGED <<waitVars, interruptVars>>
    \/ (WaitStep(t) \/ WaitFailed(t)) /\ UNCHANGED interruptVars
    \/ WaitDoneCancel(t)
    \/ InterruptStep(t)

Environment(t) ==
    \/ SpuriousWake(t) /\ UNCHANGED <<waitVars, interruptVars>>
    \/ TimeOut(t) /\ UNCHANGED interruptVars

Next ==
    \/ \E t \in Client : ClientCall(t) \/ Environment(t)
    \/ \E t \in Thread : ThreadStep(t)
    \/ \E s \in Server : ServerStep(s)

Spec == Init /\ [][Next]_vars

Leave == ClientsLeave /\ UNCHANGED <<waitVars, interruptVars>>

(* Threads are scheduled and are not starved by a mutex that is unlocked again
   and again.  Only an owner that is leaving has to exit. *)
FairSpec ==
    /\ Init /\ [][Next \/ Leave]_vars
    /\ \A t \in Thread : SF_vars(ThreadStep(t))
    /\ \A t \in Client : WF_vars(/\ clients = "leaving" /\ ExitCall(t)
                                /\ UNCHANGED <<waitVars, interruptVars>>)
    /\ \A s \in Server : SF_vars(ServerStep(s))

-----------------------------------------------------------------------------
(* Properties. *)

TypeOK ==
    /\ WaitTypeOK
    /\ globalLock \in Thread \cup {NoThread}
    /\ interrupter \in [Thread -> Server \cup {NoThread}]
    /\ target \in [Thread -> Thread \cup {NoThread}]
    /\ pins \subseteq Thread
    /\ interrupts \in 0..MaxInterrupts

(* The assertion of interrupt_blocked_thread: the thread it interrupts is
   abortable, although a notified waiter of wait_interruptable is also found
   BLOCKED, with the flags of its wait. *)
BlockedIsAbortable ==
    [][\A i, v \in Client, kind \in Kinds :
          InterruptBlocked(i, v, kind) => "ABORTABLE" \in flags[v]]_vars

(* The assertion of monitor_wait where it cancels its interrupter: a wait that
   ends while an interruptServer thread is under way was interrupted. *)
CanceledForAReason ==
    \A t \in Client :
        pc[t] \in InWait /\ interrupter[t] # NoThread => IntrFlags(t, flags[t]) # {}

(* The assertion of interruptServer after the wake-up, with the flag that it
   forgets (omrthread.c:3127 fails for a priority interrupt): the thread that
   it is about to wake still has an interrupt to respond to. *)
ServedForAReason ==
    \A s \in Server :
        pc[s] = "server_entered" /\ "CANCELED" \notin flags[s] =>
            {"INTERRUPTED", "PRIORITY_INTERRUPTED", "ABORTED"} \cap flags[target[s]] # {}

(* Three assertions of the interrupt code: whoever is blocked, waited for or
   served by an interrupter has the flags that justify it, whatever races with
   the interrupt.  The assertions at omrthread.c:2926 and 2975, that no
   interruptServer thread is under way yet, are not part of it: they fail when
   a second interrupt, of another kind, comes before the first is served. *)
InterruptFlagsAgree ==
    /\ [](TypeOK /\ CanceledForAReason /\ ServedForAReason)
    /\ BlockedIsAbortable

(* omrthread_interrupt and the two like it: a thread whose wait responds to
   the interrupt does not stay in the wait once the monitor is free to take. *)
InterruptEndsWait ==
    \A t \in Client :
        /\ clients = "leaving"
        /\ pc[t] = "waiting" /\ IntrFlags(t, flags[t]) # {}
        ~> pc[t] # "waiting"

(* omrthread_abort: a thread blocked in an abortable enter returns from it,
   even if the owner never exits the monitor. *)
AbortEndsBlocking ==
    \A t \in Client :
        pc[t] = "blocked" /\ Aborted(t) ~> pc[t] # "blocked"

(* Once the clients only leave, nobody keeps the global mutex, and no
   interrupter, server or blocked thread is stuck.  A thread may stay in its
   wait if no interrupt is to end it, or if the wake-up has been given, which
   marks it BLOCKED: interruptServer can give it too early, and then it is lost
   (InterruptEndsWait).  No abort fails to reach its waiter. *)
EveryoneFinishes ==
    clients = "leaving" ~>
        /\ globalLock = NoThread
        /\ \A t \in Thread :
             \/ pc[t] = "idle" /\ owner # t
             \/ /\ pc[t] = "waiting" /\ "WAITING" \in flags[t]
                /\ IntrFlags(t, flags[t]) # {} => "BLOCKED" \in flags[t]
=============================================================================
