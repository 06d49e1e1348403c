------------------------------ MODULE Monitor ------------------------------
(***************************************************************************)
(* What an omrthread monitor promises to its clients: one owner at a time, *)
(* recursive entry, wait/notify with a FIFO wait list, and a wait that     *)
(* gives the whole recursion count back when it ends.                      *)
(*                                                                         *)
(* The module is used twice.  The clients of the thread library conjoin    *)
(* its actions with their own.  The three-tier monitor (MonitorWait, and   *)
(* with interrupts MonitorInterrupt) is shown to implement Spec.           *)
(***************************************************************************)
EXTENDS Naturals, Sequences

CONSTANTS Thread, NoThread

VARIABLES
    owner,      \* monitor->owner, NoThread when the monitor is free
    count,      \* monitor->count, the owner's recursion depth
    waiting,    \* monitor->waiting, the wait list, head first
    saved       \* the count each thread gave up in wait; 0 when not in wait

monitorVars == <<owner, count, waiting, saved>>

TypeOK ==
    /\ owner \in Thread \cup {NoThread}
    /\ count \in Nat
    /\ waiting \in Seq(Thread)
    /\ saved \in [Thread -> Nat]

Init ==
    /\ owner = NoThread
    /\ count = 0
    /\ waiting = <<>>
    /\ saved = [t \in Thread |-> 0]

(* A thread that is inside wait and no longer on the wait list. *)
Woken(t) == saved[t] > 0 /\ \A i \in DOMAIN waiting : waiting[i] # t

(* omrthread_monitor_enter, by a thread that does not own the monitor. *)
Enter(t) ==
    /\ owner = NoThread
    /\ saved[t] = 0
    /\ owner' = t
    /\ count' = 1
    /\ UNCHANGED <<waiting, saved>>

(* omrthread_monitor_enter, by its owner. *)
EnterAgain(t) ==
    /\ owner = t
    /\ count' = count + 1
    /\ UNCHANGED <<owner, waiting, saved>>

(* omrthread_monitor_exit. *)
Exit(t) ==
    /\ owner = t
    /\ count' = count - 1
    /\ owner' = IF count = 1 THEN NoThread ELSE t
    /\ UNCHANGED <<waiting, saved>>

(* The first half of omrthread_monitor_wait: give the monitor up, queue up. *)
Wait(t) ==
    /\ owner = t
    /\ owner' = NoThread
    /\ count' = 0
    /\ saved' = [saved EXCEPT ![t] = count]
    /\ waiting' = Append(waiting, t)

(* omrthread_monitor_notify: the head of the wait list, if any, is released. *)
Notify(t) ==
    /\ owner = t
    /\ waiting' = IF waiting = <<>> THEN <<>> ELSE Tail(waiting)
    /\ UNCHANGED <<owner, count, saved>>

(* omrthread_monitor_notify_all. *)
NotifyAll(t) ==
    /\ owner = t
    /\ waiting' = <<>>
    /\ UNCHANGED <<owner, count, saved>>

(* The second half of omrthread_monitor_wait: own the monitor again. *)
Resume(t) ==
    /\ Woken(t)
    /\ owner = NoThread
    /\ owner' = t
    /\ count' = saved[t]
    /\ saved' = [saved EXCEPT ![t] = 0]
    /\ UNCHANGED waiting

(* A waiter times out, is interrupted or is aborted. *)
Leave(t) ==
    /\ \E i \in DOMAIN waiting : waiting[i] = t
    /\ waiting' = SelectSeq(waiting, LAMBDA u : u # t)
    /\ UNCHANGED <<owner, count, saved>>

(* An aborted thread returns from wait without the monitor. *)
Abandon(t) ==
    /\ Woken(t)
    /\ saved' = [saved EXCEPT ![t] = 0]
    /\ UNCHANGED <<owner, count, waiting>>

Next ==
    \E t \in Thread :
        \/ Enter(t) \/ EnterAgain(t) \/ Exit(t)
        \/ Wait(t) \/ Notify(t) \/ NotifyAll(t)
        \/ Resume(t) \/ Leave(t) \/ Abandon(t)

Spec == Init /\ [][Next]_monitorVars
=============================================================================
