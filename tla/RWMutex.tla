------------------------------ MODULE RWMutex ------------------------------
(***************************************************************************)
(* The read/write mutex of the thread library (thread/common/rwmutex.c).   *)
(*                                                                         *)
(* Every thread is a client that calls the mutex again and again.  A call  *)
(* is a path through pc: one step per call on syncMon and one per access   *)
(* to status and writer that another thread can observe.  syncMon is the   *)
(* abstract Monitor.  held is what the client believes it holds, innermost *)
(* last; the client obeys the rules the header comments lay down.          *)
(***************************************************************************)
EXTENDS Integers, Sequences, SequencesExt, FiniteSets

CONSTANTS
    Thread, NoThread,
    MaxHold,        \* bound on the nesting of one client
    ForkAllowed     \* may a client fork? (OMR_THR_FORK_SUPPORT)

ASSUME RWMutexAssumption ==
    /\ IsFiniteSet(Thread)
    /\ NoThread \notin Thread
    /\ MaxHold \in Nat
    /\ ForkAllowed \in BOOLEAN

VARIABLES
    status,     \* mutex->status: readers if > 0, minus the write depth if < 0
    writer,     \* mutex->writer
    pc,         \* where each thread is; "gone" once lost in a fork
    held,       \* what each client holds: a sequence of "R" and "W"
    clients,    \* "entering", or only "leaving" what they hold
    owner, count, waiting, saved    \* mutex->syncMon

syncMon == INSTANCE Monitor

monVars == <<owner, count, waiting, saved>>
vars == <<status, writer, pc, held, clients, owner, count, waiting, saved>>

Place ==
    {"idle", "gone", "leave",
     "enter_read", "enter_read_test", "enter_read_wait",
     "exit_read", "exit_read_update",
     "enter_write", "enter_write_test", "enter_write_wait", "claim",
     "try_enter_write", "try_enter_write_test",
     "exit_write", "exit_write_update", "release"}

Init ==
    /\ status = 0
    /\ writer = NoThread
    /\ pc = [t \in Thread |-> "idle"]
    /\ held = [t \in Thread |-> <<>>]
    /\ clients = "entering"
    /\ syncMon!Init

Goto(t, place) == pc' = [pc EXCEPT ![t] = place]
Push(t, kind) == held' = [held EXCEPT ![t] = Append(@, kind)]
Pop(t) == held' = [held EXCEPT ![t] = Front(@)]

MayEnter(t) == pc[t] = "idle" /\ clients = "entering" /\ Len(held[t]) < MaxHold
MayExit(t, kind) == pc[t] = "idle" /\ held[t] # <<>> /\ Last(held[t]) = kind

---------------------------------------------------------------------------
(* Steps every call is made of: entering, waiting on and leaving syncMon. *)

EnterMonitor(t, from, to) ==
    /\ pc[t] = from
    /\ syncMon!Enter(t)
    /\ Goto(t, to)
    /\ UNCHANGED <<status, writer, held, clients>>

WaitMonitor(t, from, to) ==
    /\ pc[t] = from
    /\ syncMon!Wait(t)
    /\ Goto(t, to)
    /\ UNCHANGED <<status, writer, held, clients>>

ResumeMonitor(t, from, to) ==
    /\ pc[t] = from
    /\ syncMon!Resume(t)
    /\ Goto(t, to)
    /\ UNCHANGED <<status, writer, held, clients>>

LeaveMonitor(t) ==
    /\ pc[t] = "leave"
    /\ syncMon!Exit(t)
    /\ Goto(t, "idle")
    /\ UNCHANGED <<status, writer, held, clients>>

---------------------------------------------------------------------------
(* omrthread_rwmutex_enter_read.  The writer's own reads are not counted. *)

EnterReadAsWriter(t) ==
    /\ MayEnter(t)
    /\ writer = t
    /\ Push(t, "R")
    /\ UNCHANGED <<status, writer, pc, clients, monVars>>

EnterReadCall(t) ==
    /\ MayEnter(t)
    /\ writer # t
    /\ Goto(t, "enter_read")
    /\ UNCHANGED <<status, writer, held, clients, monVars>>

EnterReadTake(t) ==
    /\ pc[t] = "enter_read_test"
    /\ status >= 0
    /\ status' = status + 1
    /\ Push(t, "R")
    /\ Goto(t, "leave")
    /\ UNCHANGED <<writer, clients, monVars>>

EnterReadWait(t) ==
    status < 0 /\ WaitMonitor(t, "enter_read_test", "enter_read_wait")

EnterRead(t) ==
    \/ EnterReadAsWriter(t)
    \/ EnterReadCall(t)
    \/ EnterMonitor(t, "enter_read", "enter_read_test")
    \/ EnterReadTake(t)
    \/ EnterReadWait(t)
    \/ ResumeMonitor(t, "enter_read_wait", "enter_read_test")

---------------------------------------------------------------------------
(* omrthread_rwmutex_exit_read: the last reader notifies one waiter. *)

ExitReadAsWriter(t) ==
    /\ MayExit(t, "R")
    /\ writer = t
    /\ Pop(t)
    /\ UNCHANGED <<status, writer, pc, clients, monVars>>

ExitReadCall(t) ==
    /\ MayExit(t, "R")
    /\ writer # t
    /\ Goto(t, "exit_read")
    /\ UNCHANGED <<status, writer, held, clients, monVars>>

(* Mutant: the last reader leaves without a notification. *)
ExitReadSilent(t) ==
    /\ pc[t] = "exit_read_update"
    /\ status' = status - 1
    /\ Pop(t)
    /\ Goto(t, "leave")
    /\ UNCHANGED <<writer, clients, monVars>>

ExitReadUpdate(t) ==
    /\ pc[t] = "exit_read_update"
    /\ status' = status - 1
    /\ IF status' = 0 THEN syncMon!Notify(t) ELSE UNCHANGED monVars
    /\ Pop(t)
    /\ Goto(t, "leave")
    /\ UNCHANGED <<writer, clients>>

ExitRead(t) ==
    \/ ExitReadAsWriter(t)
    \/ ExitReadCall(t)
    \/ EnterMonitor(t, "exit_read", "exit_read_update")
    \/ ExitReadUpdate(t)

---------------------------------------------------------------------------
(* omrthread_rwmutex_enter_write and omrthread_rwmutex_try_enter_write.    *)
(* The recursive entry updates status outside syncMon.                     *)

(* Mutant: the recursive entry leaves status alone. *)
RecurseUncounted(t) ==
    /\ MayEnter(t)
    /\ writer = t
    /\ Push(t, "W")
    /\ UNCHANGED <<status, writer, pc, clients, monVars>>

Recurse(t) ==
    /\ MayEnter(t)
    /\ writer = t
    /\ status' = status - 1
    /\ Push(t, "W")
    /\ UNCHANGED <<writer, pc, clients, monVars>>

(* A reader must not ask for write access and wait. *)
EnterWriteCall(t) ==
    /\ MayEnter(t)
    /\ held[t] = <<>>
    /\ writer # t
    /\ Goto(t, "enter_write")
    /\ UNCHANGED <<status, writer, held, clients, monVars>>

(* Mutant: a writer is let in beside readers. *)
TakeBesideReaders(t, from) ==
    /\ pc[t] = from
    /\ status >= 0
    /\ status' = status - 1
    /\ Push(t, "W")
    /\ Goto(t, "claim")
    /\ UNCHANGED <<writer, clients, monVars>>

Take(t, from) ==
    /\ pc[t] = from
    /\ status = 0
    /\ status' = status - 1
    /\ Push(t, "W")
    /\ Goto(t, "claim")
    /\ UNCHANGED <<writer, clients, monVars>>

Claim(t) ==
    /\ pc[t] = "claim"
    /\ writer' = t
    /\ Goto(t, "leave")
    /\ UNCHANGED <<status, held, clients, monVars>>

EnterWriteWait(t) ==
    status # 0 /\ WaitMonitor(t, "enter_write_test", "enter_write_wait")

EnterWrite(t) ==
    \/ Recurse(t)
    \/ EnterWriteCall(t)
    \/ EnterMonitor(t, "enter_write", "enter_write_test")
    \/ Take(t, "enter_write_test")
    \/ Claim(t)
    \/ EnterWriteWait(t)
    \/ ResumeMonitor(t, "enter_write_wait", "enter_write_test")

TryEnterWriteCall(t) ==
    /\ MayEnter(t)
    /\ writer # t
    /\ Goto(t, "try_enter_write")
    /\ UNCHANGED <<status, writer, held, clients, monVars>>

TryEnterWriteFail(t) ==
    /\ pc[t] = "try_enter_write_test"
    /\ status # 0
    /\ Goto(t, "leave")
    /\ UNCHANGED <<status, writer, held, clients, monVars>>

TryEnterWrite(t) ==
    \/ TryEnterWriteCall(t)
    \/ EnterMonitor(t, "try_enter_write", "try_enter_write_test")
    \/ Take(t, "try_enter_write_test")
    \/ TryEnterWriteFail(t)

---------------------------------------------------------------------------
(* omrthread_rwmutex_exit_write: the last exit notifies every waiter. *)

ExitWriteCall(t) ==
    /\ MayExit(t, "W")
    /\ Goto(t, "exit_write")
    /\ UNCHANGED <<status, writer, held, clients, monVars>>

ExitWriteUpdate(t) ==
    /\ pc[t] = "exit_write_update"
    /\ status' = status + 1
    /\ Pop(t)
    /\ Goto(t, IF status' = 0 THEN "release" ELSE "leave")
    /\ UNCHANGED <<writer, clients, monVars>>

(* Mutant: the last exit of the writer notifies one waiter only. *)
ReleaseOne(t) ==
    /\ pc[t] = "release"
    /\ writer' = NoThread
    /\ syncMon!Notify(t)
    /\ Goto(t, "leave")
    /\ UNCHANGED <<status, held, clients>>

Release(t) ==
    /\ pc[t] = "release"
    /\ writer' = NoThread
    /\ syncMon!NotifyAll(t)
    /\ Goto(t, "leave")
    /\ UNCHANGED <<status, held, clients>>

ExitWrite(t) ==
    \/ ExitWriteCall(t)
    \/ EnterMonitor(t, "exit_write", "exit_write_update")
    \/ ExitWriteUpdate(t)
    \/ Release(t)

---------------------------------------------------------------------------
(* fork() in thread t, seen from the child.  No other thread survives.     *)
(* postForkResetMonitors frees syncMon and empties its wait list (the      *)
(* recursion count keeps its stale value), then omrthread_rwmutex_reset    *)
(* aborts the child if the mutex is read-locked.                           *)
ForkReset(t) ==
    /\ ForkAllowed
    /\ pc[t] = "idle"
    /\ owner' = NoThread /\ waiting' = <<>>
    /\ saved' = [u \in Thread |-> 0]
    /\ held' = [u \in Thread |-> IF u = t THEN held[t] ELSE <<>>]
    /\ pc' = [u \in Thread |-> IF u = t /\ status <= 0 THEN "idle" ELSE "gone"]
    /\ IF status <= 0 /\ writer # t
       THEN writer' = NoThread /\ status' = 0
       ELSE UNCHANGED <<writer, status>>
    /\ UNCHANGED <<count, clients>>

(* The clients stop entering, and start again once every call is over. *)
Quiesce ==
    /\ clients = "entering"
    /\ clients' = "leaving"
    /\ UNCHANGED <<status, writer, pc, held, monVars>>

Drained == \A t \in Thread : pc[t] = "gone" \/ (pc[t] = "idle" /\ held[t] = <<>>)

Restart ==
    /\ clients = "leaving" /\ Drained
    /\ clients' = "entering"
    /\ UNCHANGED <<status, writer, pc, held, monVars>>

Call(t) ==
    EnterRead(t) \/ ExitRead(t) \/ EnterWrite(t) \/ TryEnterWrite(t)
    \/ ExitWrite(t) \/ LeaveMonitor(t)

Next ==
    \/ \E t \in Thread : Call(t) \/ ForkReset(t)
    \/ Quiesce
    \/ Restart

Spec == Init /\ [][Next]_vars

(* The scheduler runs every thread, and a client leaves what it entered. *)
FairSpec == Spec /\ \A t \in Thread : WF_vars(Call(t))

---------------------------------------------------------------------------
TypeOK ==
    /\ status \in Int
    /\ writer \in Thread \cup {NoThread}
    /\ pc \in [Thread -> Place]
    /\ held \in [Thread -> Seq({"R", "W"})]
    /\ clients \in {"entering", "leaving"}
    /\ syncMon!TypeOK

(* The accesses of one kind in h, each as a thread and a nesting level. *)
HoldsOf(h, kind) ==
    {x \in Thread \X (1 .. MaxHold) :
        x[2] <= Len(h[x[1]]) /\ h[x[1]][x[2]] = kind}

Holds(kind) == HoldsOf(held, kind)

Writers == {t \in Thread : Contains(held[t], "W")}

(* status counts what the clients hold: the depth of the one writer as a   *)
(* negative number, else the reads of all readers.  It has to survive the  *)
(* recursive update made outside syncMon and the post-fork reset, which    *)
(* must forget the threads that did not survive.                           *)
StatusCountsHolders ==
    (\E t \in Thread : pc[t] # "gone") =>
        status = IF Writers # {} THEN - Cardinality(Holds("W"))
                                 ELSE Cardinality(Holds("R"))

(* While one client holds write access no other client holds anything. *)
WriterExcludesAll ==
    \A t \in Writers : \A u \in Thread \ {t} : held[u] = <<>>

(* No waiter is forgotten, although exit_read notifies only one thread: a  *)
(* reader is on the wait list only while a writer is in, and a writer only *)
(* while the mutex is taken or another writer is about to try and will     *)
(* wake it later.                                                          *)
NoWaiterForgotten ==
    \A t \in ToSet(waiting) :
        \/ \E u \in Thread : pc[u] = "release"
        \/ IF pc[t] = "enter_read_wait"
           THEN status < 0
           ELSE \/ status # 0
                \/ \E u \in Thread \ ToSet(waiting) :
                       pc[u] \in {"enter_write_wait", "enter_write_test"}

(* omrthread_rwmutex_is_writelocked, read without syncMon. *)
IsWriteLocked == status < 0 \/ writer # NoThread

(* is_writelocked may answer TRUE for a mutex that is just being released, *)
(* but a writer is never missed, in any of the steps that set and clear    *)
(* status and writer one after the other.                                  *)
WriterIsSeen == Writers # {} => IsWriteLocked

(* writer is the identity the recursive paths trust without syncMon: it    *)
(* never names a thread that has neither write access nor syncMon.         *)
WriterIsHolder ==
    writer # NoThread =>
        \/ writer \in Writers
        \/ pc[writer] = "release"

(* What the calls in progress know: who is inside syncMon, who waits on it *)
(* and what each of them gave up, and what a thread at each place holds.   *)
Inside ==
    {"leave", "enter_read_test", "exit_read_update", "enter_write_test",
     "claim", "try_enter_write_test", "exit_write_update", "release"}

WaitPlaces == {"enter_read_wait", "enter_write_wait"}
ReadEntry == {"enter_read", "enter_read_test", "enter_read_wait",
              "try_enter_write", "try_enter_write_test"}
WriteEntry == {"enter_write", "enter_write_test", "enter_write_wait"}

MonitorInv ==
    /\ \A t \in Thread : owner = t <=> pc[t] \in Inside
    /\ owner # NoThread => count = 1
    /\ \A t \in Thread : saved[t] = IF pc[t] \in WaitPlaces THEN 1 ELSE 0
    /\ \A i \in DOMAIN waiting : pc[waiting[i]] \in WaitPlaces
    /\ \A i, j \in DOMAIN waiting : waiting[i] = waiting[j] => i = j

HeldInv ==
    \A t \in Thread :
        /\ Len(held[t]) <= MaxHold
        /\ t \in Writers => held[t][1] = "W"
        /\ pc[t] \in ReadEntry \cup WriteEntry =>
               Len(held[t]) < MaxHold /\ t \notin Writers
        /\ pc[t] \in WriteEntry \cup {"release"} => held[t] = <<>>
        /\ pc[t] \in {"exit_read", "exit_read_update"} =>
               held[t] # <<>> /\ t \notin Writers
        /\ pc[t] \in {"exit_write", "exit_write_update"} =>
               held[t] # <<>> /\ Last(held[t]) = "W"

WriterInv ==
    \A t \in Thread :
        /\ t \in Writers => writer = t \/ pc[t] = "claim"
        /\ writer = t => t \in Writers \/ pc[t] = "release"
        /\ pc[t] = "claim" => t \in Writers
        /\ pc[t] = "release" => writer = t /\ status = 0

(* The inductive invariant: the properties above rest on it. *)
IInv ==
    /\ TypeOK
    /\ MonitorInv
    /\ HeldInv
    /\ WriterInv
    /\ StatusCountsHolders
    /\ WriterExcludesAll

(* Once the clients stop entering and release what they hold, every call   *)
(* returns, in the child of a fork too unless it was aborted: no lost       *)
(* notification leaves a thread on the wait list.                          *)
EveryCallReturns == clients = "leaving" ~> Drained
=============================================================================
