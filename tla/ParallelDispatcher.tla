------------------------- MODULE ParallelDispatcher -------------------------
(***************************************************************************)
(* MM_ParallelDispatcher (gc/base/ParallelDispatcher.cpp): the pool of GC  *)
(* worker threads, from start-up to shutdown, and the dispatch of tasks to *)
(* them.  The actors are                                                   *)
(*   - vm, the thread that starts the pool, contracts and expands it around*)
(*     a checkpoint, and shuts it down;                                    *)
(*   - main, the thread that runs a collection, with worker id 0.  It is a *)
(*     thread of the VM, or a worker that collects during its own detach;  *)
(*   - the workers, with ids from 1 up.                                    *)
(* One step is one critical section of _workerThreadMutex or of            *)
(* _dispatcherMonitor, from enter to exit or wait, or the code between two *)
(* of them.  A task is its kind and the number of threads that have not    *)
(* completed it: ParallelTask says why that is enough.                     *)
(***************************************************************************)
EXTENDS Naturals, Sequences, SequencesExt, FiniteSetsExt

CONSTANTS
    MaxThreads,     \* the most threads a pool has, main included
    HybridBound,    \* dispatcherHybridNotifyThreadBound
    MaxTasks        \* how many tasks are dispatched

ASSUME DispatcherAssumption ==
    /\ MaxThreads \in Nat \ {0}
    /\ HybridBound \in Nat
    /\ MaxTasks \in Nat

ID == 0 .. MaxThreads - 1
Main == 0
Worker == ID \ {Main}
VM == MaxThreads        \* vm on the wait list of _workerThreadMutex

VARIABLES
    vm,             \* where vm is
    index, limit,   \* internalStartupThreads: the thread to create, and the end
    workerFlags,    \* what the thread just created says of itself
    vmWaits,        \* vm is on the wait list of _dispatcherMonitor
    main, caller,   \* where main is, and the id of the worker it is, or 0
    dispatched,     \* the number of tasks dispatched; the last is the current one
    kind,           \* "synced" when the task has a synchronisation point
    taskThreads,    \* _threadCount of the task
    pc,             \* where each worker is
    waiting,        \* the wait list of _workerThreadMutex
    task, taskTable, statusTable, threadTable,
    workerThreadsReservedForGC, threadsToReserve, inShutdown,
    threadShutdownCount, threadCount, threadCountMaximum, poolMaxCapacity

startVars == <<index, limit, workerFlags>>
mainVars == <<main, caller, dispatched, kind>>
dispatchVars == <<task, workerThreadsReservedForGC>>
poolVars == <<threadCount, threadCountMaximum, poolMaxCapacity>>
vars == <<vm, startVars, vmWaits, mainVars, taskThreads, pc, waiting, dispatchVars,
          threadsToReserve, taskTable, statusTable, threadTable, inShutdown,
          threadShutdownCount, poolVars>>

(* The constructor and initialize. *)
Init ==
    /\ vm = "new" /\ vmWaits = FALSE
    /\ index = 0 /\ limit = 0 /\ workerFlags = "none"
    /\ main = "idle" /\ caller = Main /\ dispatched = 0 /\ kind = "free"
    /\ taskThreads = 0
    /\ pc = [w \in Worker |-> "none"]
    /\ waiting = <<>>
    /\ task = 0 /\ taskTable = [i \in ID |-> 0]
    /\ statusTable = [i \in ID |-> "inactive"]
    /\ threadTable = [i \in ID |-> FALSE]
    /\ workerThreadsReservedForGC = FALSE /\ threadsToReserve = 0
    /\ inShutdown = FALSE
    /\ threadShutdownCount = 0 /\ threadCount = 1
    /\ threadCountMaximum \in 1 .. MaxThreads
    /\ poolMaxCapacity = threadCountMaximum

---------------------------------------------------------------------------
(* internalStartupThreads, called with the place to wait at and the places *)
(* to go on at.  The creation of a thread may fail.  The test of           *)
(* _inShutdown is part of the code, although one thread both starts and    *)
(* shuts down the pool.                                                    *)

Fork(i, end, wait, done, failed) ==
    /\ index' = i /\ limit' = end
    /\ \/ /\ i < end
          /\ workerFlags' = "none"
          /\ threadTable' = [threadTable EXCEPT ![i] = TRUE]
          /\ pc' = [pc EXCEPT ![i] = "attach"]
          /\ vmWaits' = ~inShutdown
          /\ vm' = IF inShutdown THEN failed ELSE wait
       \/ /\ vm' = IF i < end THEN failed ELSE done
          /\ UNCHANGED <<workerFlags, threadTable, pc, vmWaits>>

(* The thread just created has ended the wait. *)
ForkNext(wait, done, failed) ==
    /\ vm = wait /\ ~vmWaits
    /\ IF workerFlags = "ok"
       THEN /\ threadShutdownCount' = threadShutdownCount + 1
            /\ Fork(index + 1, limit, wait, done, failed)
       ELSE /\ vm' = failed
            /\ UNCHANGED <<startVars, threadShutdownCount, threadTable, pc, vmWaits>>

startUpThreads ==
    /\ \/ /\ vm = "new"
          /\ threadShutdownCount' = 0
          /\ Fork(1, threadCountMaximum, "startup", "started", "failed")
       \/ ForkNext("startup", "started", "failed")
    /\ UNCHANGED <<mainVars, taskThreads, waiting, dispatchVars, threadsToReserve,
                   taskTable, statusTable, inShutdown, poolVars>>

(* vm sets the counts of the pool outside any monitor. *)
SetCounts(place, count, maximum) ==
    /\ vm' = place
    /\ threadCount' = count
    /\ threadCountMaximum' = maximum
    /\ UNCHANGED <<startVars, vmWaits, mainVars, taskThreads, pc, waiting, dispatchVars,
                   threadsToReserve, taskTable, statusTable, threadTable, inShutdown,
                   threadShutdownCount, poolMaxCapacity>>

Started ==
    /\ vm = "started"
    /\ SetCounts("up", threadCountMaximum, threadCountMaximum)

---------------------------------------------------------------------------
(* dispatcher_thread_proc2 up to workerEntryPoint: the attach may fail. *)

Attach(w) ==
    /\ pc[w] = "attach"
    /\ \E flag \in {"ok", "failed"} :
           workerFlags' = flag /\ pc' = [pc EXCEPT ![w] = flag]
    /\ UNCHANGED <<vm, index, limit, vmWaits, mainVars, taskThreads, waiting,
                   dispatchVars, threadsToReserve, taskTable, statusTable, threadTable,
                   inShutdown, threadShutdownCount, poolVars>>

(* setThreadInitializationComplete, or startup_failed. *)
Report(w) ==
    /\ \/ /\ pc[w] = "ok"
          /\ pc' = [pc EXCEPT ![w] = "enter"]
          /\ statusTable' = [statusTable EXCEPT ![w] = "waiting"]
       \/ /\ pc[w] = "failed"
          /\ pc' = [pc EXCEPT ![w] = "gone"]
          /\ UNCHANGED statusTable
    /\ vmWaits' = FALSE
    /\ UNCHANGED <<vm, startVars, mainVars, taskThreads, waiting, dispatchVars,
                   threadsToReserve, taskTable, threadTable, inShutdown,
                   threadShutdownCount, poolVars>>

---------------------------------------------------------------------------
(* workerEntryPoint, in _workerThreadMutex. *)

CanTake == workerThreadsReservedForGC /\ threadsToReserve > 0

(* Mutant: the slot that a worker takes is not counted. *)
TakeUncounted(w) ==
    IF CanTake
    THEN /\ statusTable' = [statusTable EXCEPT ![w] = "active"]
         /\ taskTable' = [taskTable EXCEPT ![w] = task]
         /\ pc' = [pc EXCEPT ![w] = "run"]
         /\ UNCHANGED <<threadsToReserve, waiting>>
    ELSE /\ statusTable' = [statusTable EXCEPT ![w] = "waiting"]
         /\ taskTable' = [taskTable EXCEPT ![w] = 0]
         /\ pc' = [pc EXCEPT ![w] = "wait"]
         /\ waiting' = Append(waiting, w)
         /\ UNCHANGED threadsToReserve

(* A worker that waits for a task takes the one being dispatched, with     *)
(* acceptTask, or goes on waiting.                                         *)
TakeOrWait(w) ==
    IF CanTake
    THEN /\ threadsToReserve' = threadsToReserve - 1
         /\ statusTable' = [statusTable EXCEPT ![w] = "active"]
         /\ taskTable' = [taskTable EXCEPT ![w] = task]
         /\ pc' = [pc EXCEPT ![w] = "run"]
         /\ UNCHANGED waiting
    ELSE /\ statusTable' = [statusTable EXCEPT ![w] = "waiting"]
         /\ taskTable' = [taskTable EXCEPT ![w] = 0]
         /\ pc' = [pc EXCEPT ![w] = "wait"]
         /\ waiting' = Append(waiting, w)
         /\ UNCHANGED threadsToReserve

Woken(w) == pc[w] = "wait" /\ w \notin Range(waiting)

Loop(w) ==
    /\ pc[w] = "enter" \/ Woken(w)
    /\ IF statusTable[w] = "dying"
       THEN /\ pc' = [pc EXCEPT ![w] = "detach"]
            /\ UNCHANGED <<threadsToReserve, statusTable, taskTable, waiting>>
       ELSE TakeOrWait(w)
    /\ UNCHANGED <<vm, startVars, vmWaits, mainVars, taskThreads, dispatchVars,
                   threadTable, inShutdown, threadShutdownCount, poolVars>>

(* At a synchronisation point a thread waits for the whole team. *)
TeamIsIn == kind = "synced" => threadsToReserve = 0 /\ main # "accept"

(* The worker returns from the task, completes it and is back in the loop. *)
Complete(w) ==
    /\ pc[w] = "run" /\ TeamIsIn
    /\ taskThreads' = taskThreads - 1
    /\ TakeOrWait(w)
    /\ UNCHANGED <<vm, startVars, vmWaits, mainVars, dispatchVars, threadTable,
                   inShutdown, threadShutdownCount, poolVars>>

(* The end of dispatcher_thread_proc2, after the detach. *)
Die(w) ==
    /\ pc[w] = "detach" /\ caller # w
    /\ threadShutdownCount' = threadShutdownCount - 1
    /\ vmWaits' = FALSE
    /\ pc' = [pc EXCEPT ![w] = "gone"]
    /\ UNCHANGED <<vm, startVars, mainVars, taskThreads, waiting, dispatchVars,
                   threadsToReserve, taskTable, statusTable, threadTable, inShutdown,
                   poolVars>>

---------------------------------------------------------------------------
(* run: main dispatches a task. *)

Least(i, j) == IF i < j THEN i ELSE j

(* Mutant: one notification too few. *)
wakeUpThreadsFewer(count) ==
    waiting' = IF count < Least(threadCountMaximum \div 2, HybridBound)
               THEN SubSeq(waiting, IF count = 0 THEN 1 ELSE count, Len(waiting))
               ELSE <<>>

(* Individual notifies for few threads of a large pool. *)
wakeUpThreads(count) ==
    waiting' = IF count < Least(threadCountMaximum \div 2, HybridBound)
               THEN SubSeq(waiting, count + 1, Len(waiting))
               ELSE <<>>

(* A worker may collect while it detaches.  Nobody else does while the     *)
(* pool is contracted or expanded (ParallelDispatcher.hpp:105, 120).       *)
Resizing == {"contract", "contract_wait", "contract_end", "expand", "expanded",
             "expand_failed"}

Callers ==
    (IF vm \in Resizing THEN {} ELSE {Main}) \cup {w \in Worker : pc[w] = "detach"}

(* adjustThreadCount and the recommendation of the task only lower the     *)
(* number of threads.                                                      *)
prepareThreadsForTask ==
    /\ main = "idle" /\ dispatched < MaxTasks
    /\ \E active \in 1 .. threadCount :
           /\ taskThreads' = active
           /\ threadsToReserve' = active - 1
           /\ wakeUpThreads(active - 1)
    /\ main' = "accept" /\ caller' \in Callers
    /\ dispatched' = dispatched + 1
    /\ kind' \in {"free", "synced"}
    /\ task' = dispatched' /\ workerThreadsReservedForGC' = TRUE
    /\ statusTable' = [statusTable EXCEPT ![Main] = "reserved"]
    /\ taskTable' = [taskTable EXCEPT ![Main] = dispatched']
    /\ UNCHANGED <<vm, startVars, vmWaits, pc, threadTable, inShutdown,
                   threadShutdownCount, poolVars>>

(* acceptTask of main, outside the monitor. *)
acceptTask ==
    /\ main = "accept"
    /\ main' = "run"
    /\ statusTable' = [statusTable EXCEPT ![Main] = "active"]
    /\ UNCHANGED <<vm, startVars, vmWaits, caller, dispatched, kind, taskThreads, pc,
                   waiting, dispatchVars, threadsToReserve, taskTable, threadTable,
                   inShutdown, threadShutdownCount, poolVars>>

completeTask ==
    /\ main = "run" /\ TeamIsIn
    /\ main' = "complete"
    /\ statusTable' = [statusTable EXCEPT ![Main] = "waiting"]
    /\ taskTable' = [taskTable EXCEPT ![Main] = 0]
    /\ taskThreads' = taskThreads - 1
    /\ UNCHANGED <<vm, startVars, vmWaits, caller, dispatched, kind, pc, waiting,
                   dispatchVars, threadsToReserve, threadTable, inShutdown,
                   threadShutdownCount, poolVars>>

(* Mutant: main does not wait for the workers to complete the task. *)
completedEarly == main = "complete"

(* The wait for the other threads, inside complete. *)
completed == main = "complete" /\ taskThreads = 0

cleanupAfterTask ==
    /\ completed
    /\ main' = "idle" /\ caller' = Main
    /\ workerThreadsReservedForGC' = FALSE /\ task' = 0
    /\ waiting' = IF inShutdown THEN <<>> ELSE waiting
    /\ UNCHANGED <<vm, startVars, vmWaits, dispatched, kind, taskThreads, pc,
                   threadsToReserve, taskTable, statusTable, threadTable, inShutdown,
                   threadShutdownCount, poolVars>>

---------------------------------------------------------------------------
(* shutDownThreads and contractThreadPool begin alike: they announce       *)
(* themselves, wait until no task is running and let workers die.          *)

Announce(place) ==
    /\ vm' = place
    /\ inShutdown' = TRUE
    /\ vmWaits' = FALSE         \* notify_all on _dispatcherMonitor
    /\ UNCHANGED <<startVars, mainVars, taskThreads, pc, waiting, dispatchVars,
                   threadsToReserve, taskTable, statusTable, threadTable,
                   threadShutdownCount, poolVars>>

VMWaitsForTask ==
    /\ vm \in {"shutdown", "contract"} /\ VM \notin Range(waiting)
    /\ workerThreadsReservedForGC
    /\ waiting' = Append(waiting, VM)
    /\ UNCHANGED <<vm, startVars, vmWaits, mainVars, taskThreads, pc, dispatchVars,
                   threadsToReserve, taskTable, statusTable, threadTable, inShutdown,
                   threadShutdownCount, poolVars>>

LetDie(first, place) ==
    /\ VM \notin Range(waiting)
    /\ statusTable' = [i \in ID |-> IF i \in first .. threadCountMaximum - 1
                                    THEN "dying" ELSE statusTable[i]]
    /\ threadCount' = 1
    /\ vm' = place
    /\ UNCHANGED <<startVars, vmWaits, mainVars, taskThreads, pc, dispatchVars,
                   threadsToReserve, taskTable, threadTable, inShutdown,
                   threadShutdownCount, threadCountMaximum, poolMaxCapacity>>

(* Mutant: shutdown does not wait for the task that runs. *)
ShutdownAtOnce ==
    /\ vm = "shutdown"
    /\ wakeUpThreads(threadShutdownCount)
    /\ LetDie(0, "shutdown_wait")

Shutdown ==
    /\ vm = "shutdown" /\ ~workerThreadsReservedForGC
    /\ wakeUpThreads(threadShutdownCount)
    /\ LetDie(0, "shutdown_wait")

shutDownThreads ==
    \/ vm \in {"up", "contracted", "restored", "failed"} /\ Announce("shutdown")
    \/ Shutdown

(* Mutant: vm waits once and does not look at the count again. *)
WaitForDeathOnce(place, count, next) ==
    /\ vm = place /\ ~vmWaits
    /\ IF \E w \in Worker : pc[w] = "gone"
       THEN vm' = next /\ UNCHANGED vmWaits
       ELSE vmWaits' = TRUE /\ UNCHANGED vm
    /\ UNCHANGED <<startVars, mainVars, taskThreads, pc, waiting, dispatchVars,
                   threadsToReserve, taskTable, statusTable, threadTable, inShutdown,
                   threadShutdownCount, poolVars>>

(* The wait in _dispatcherMonitor for the workers to die. *)
WaitForDeath(place, count, next) ==
    /\ vm = place /\ ~vmWaits
    /\ IF threadShutdownCount = count
       THEN vm' = next /\ UNCHANGED vmWaits
       ELSE vmWaits' = TRUE /\ UNCHANGED vm
    /\ UNCHANGED <<startVars, mainVars, taskThreads, pc, waiting, dispatchVars,
                   threadsToReserve, taskTable, statusTable, threadTable, inShutdown,
                   threadShutdownCount, poolVars>>

ShutdownWait == WaitForDeath("shutdown_wait", 0, "down")

---------------------------------------------------------------------------
(* contractThreadPool, before a checkpoint, while no task is dispatched:   *)
(* `limit' is the number of threads to keep, main included.                *)

Contract ==
    /\ vm = "up" /\ main = "idle"
    /\ limit' \in 1 .. threadCountMaximum
    /\ IF limit' < threadCountMaximum
       THEN vm' = "contract" /\ inShutdown' = TRUE
       ELSE vm' = "contracted" /\ UNCHANGED inShutdown
    /\ UNCHANGED <<index, workerFlags, vmWaits, mainVars, taskThreads, pc, waiting,
                   dispatchVars, threadsToReserve, taskTable, statusTable, threadTable,
                   threadShutdownCount, poolVars>>

ContractSet ==
    /\ vm = "contract" /\ ~workerThreadsReservedForGC
    /\ waiting' = <<>>
    /\ LetDie(limit, "contract_wait")

ContractWait == WaitForDeath("contract_wait", limit - 1, "contract_end")

ContractEnd ==
    /\ vm = "contract_end"
    /\ statusTable' = [i \in ID |-> IF i \in limit .. threadCountMaximum - 1
                                    THEN "inactive" ELSE statusTable[i]]
    /\ threadTable' = [i \in ID |-> i < limit /\ threadTable[i]]
    /\ threadCount' = limit /\ threadCountMaximum' = limit
    /\ inShutdown' = FALSE
    /\ vm' = "contracted"
    /\ UNCHANGED <<startVars, vmWaits, mainVars, taskThreads, pc, waiting, dispatchVars,
                   threadsToReserve, taskTable, threadShutdownCount, poolMaxCapacity>>

contractThreadPool == Contract \/ ContractSet \/ ContractWait \/ ContractEnd

---------------------------------------------------------------------------
(* expandThreadPool, after the restore, while no task is dispatched.  The  *)
(* tables grow if they must (reinitializeThreadPool, which may fail for    *)
(* want of memory), and as many threads are started as can be.             *)

Expand ==
    /\ vm = "contracted" /\ main = "idle"
    /\ \E new \in threadCountMaximum .. MaxThreads :
           \/ /\ new > poolMaxCapacity
              /\ vm' = "restored"
              /\ UNCHANGED <<startVars, vmWaits, pc, threadTable, poolMaxCapacity>>
           \/ /\ poolMaxCapacity' = IF new > poolMaxCapacity THEN new ELSE poolMaxCapacity
              /\ Fork(threadCountMaximum, new, "expand",
                      IF new > threadCountMaximum THEN "expanded" ELSE "restored",
                      "expand_failed")
    /\ UNCHANGED <<mainVars, taskThreads, waiting, dispatchVars, threadsToReserve,
                   taskTable, statusTable, inShutdown, threadShutdownCount, threadCount,
                   threadCountMaximum>>

ExpandNext ==
    /\ ForkNext("expand", "expanded", "expand_failed")
    /\ UNCHANGED <<mainVars, taskThreads, waiting, dispatchVars, threadsToReserve,
                   taskTable, statusTable, inShutdown, poolVars>>

Expanded ==
    \/ vm = "expanded" /\ SetCounts("restored", limit, limit)
    \/ /\ vm = "expand_failed"
       /\ SetCounts("restored", threadShutdownCount + 1, threadShutdownCount + 1)

expandThreadPool == Expand \/ ExpandNext \/ Expanded

---------------------------------------------------------------------------
WorkerStep(w) == Attach(w) \/ Report(w) \/ Loop(w) \/ Complete(w) \/ Die(w)

MainStep == acceptTask \/ completeTask \/ cleanupAfterTask

(* What vm does once it has begun. *)
VMStep ==
    \/ startUpThreads \/ Started
    \/ VMWaitsForTask \/ Shutdown \/ ShutdownWait
    \/ ContractSet \/ ContractWait \/ ContractEnd
    \/ ExpandNext \/ Expanded

Next ==
    \/ \E w \in Worker : WorkerStep(w)
    \/ prepareThreadsForTask \/ MainStep
    \/ startUpThreads \/ Started \/ VMWaitsForTask
    \/ shutDownThreads \/ ShutdownWait
    \/ contractThreadPool \/ expandThreadPool

Spec == Init /\ [][Next]_vars

(* Every thread that is inside the dispatcher runs. *)
FairSpec ==
    /\ Spec
    /\ \A w \in Worker : WF_vars(WorkerStep(w))
    /\ WF_vars(MainStep)
    /\ WF_vars(VMStep)

---------------------------------------------------------------------------
Status == {"inactive", "waiting", "reserved", "active", "dying"}
WorkerPlace == {"none", "attach", "ok", "failed", "enter", "wait", "run", "detach", "gone"}
Resting == {"up", "contracted", "restored", "failed", "down"}

TypeOK ==
    /\ vm \in Resting \cup Resizing
              \cup {"new", "startup", "started", "shutdown", "shutdown_wait"}
    /\ index \in 0 .. MaxThreads /\ limit \in 0 .. MaxThreads
    /\ workerFlags \in {"none", "ok", "failed"} /\ vmWaits \in BOOLEAN
    /\ main \in {"idle", "accept", "run", "complete"} /\ caller \in ID
    /\ dispatched \in 0 .. MaxTasks /\ kind \in {"free", "synced"}
    /\ taskThreads \in 0 .. MaxThreads
    /\ pc \in [Worker -> WorkerPlace]
    /\ Range(waiting) \subseteq Worker \cup {VM}
    /\ task \in 0 .. MaxTasks /\ taskTable \in [ID -> 0 .. MaxTasks]
    /\ statusTable \in [ID -> Status] /\ threadTable \in [ID -> BOOLEAN]
    /\ workerThreadsReservedForGC \in BOOLEAN /\ inShutdown \in BOOLEAN
    /\ threadsToReserve \in 0 .. MaxThreads - 1
    /\ threadShutdownCount \in 0 .. MaxThreads - 1
    /\ threadCount \in 1 .. MaxThreads
    /\ threadCountMaximum \in 1 .. MaxThreads
    /\ poolMaxCapacity \in 1 .. MaxThreads

(* The assertions of ParallelDispatcher.cpp.  A worker leaves its wait with *)
(* a task, or because it dies in a shutdown (lines 176, 179); a dispatch    *)
(* finds neither a task nor slots of an earlier one (536, 546), and its     *)
(* slots are all taken when it is over (584); a thread is created in an     *)
(* empty entry (339, 340); a pool is resized when all its workers, and no   *)
(* others, are there (646-650, 697-702, 721-724, 744).                      *)
AssertionsHold ==
    /\ TypeOK
    /\ \A w \in Worker : Woken(w) /\ statusTable[w] # "waiting" =>
           /\ statusTable[w] = "dying"
           /\ IF workerThreadsReservedForGC THEN threadsToReserve = 0 ELSE inShutdown
    /\ main = "idle" => task = 0 /\ threadsToReserve = 0
    /\ completed => threadsToReserve = 0
    /\ vm = "new" \/ vm = "contracted" =>
           \A i \in threadCountMaximum .. MaxThreads - 1 :
               ~threadTable[i] /\ statusTable[i] = "inactive"
    /\ vm = "up" =>
           /\ ~inShutdown
           /\ threadShutdownCount = poolMaxCapacity - 1
           /\ threadCountMaximum = poolMaxCapacity
    /\ vm = "contract_end" =>
           /\ threadShutdownCount = limit - 1
           /\ \A i \in limit .. threadCountMaximum - 1 : statusTable[i] = "dying"
    /\ vm = "contracted" =>
           /\ ~inShutdown
           /\ threadShutdownCount = threadCountMaximum - 1
    /\ vm = "expanded" => threadShutdownCount = limit - 1

(* A task outlives the work on it: while a worker has a task, it is the one *)
(* main dispatched, and main is still inside MM_Task::complete or before.   *)
TaskOutlivesWorkers ==
    \A w \in Worker : taskTable[w] # 0 =>
        taskTable[w] = dispatched /\ main \in {"accept", "run", "complete"} /\ taskThreads > 0

(* Every thread the task was set up for has a slot to take, is at work on   *)
(* it, or has completed it: none is missing and none is counted twice.      *)
SlotsAccounted ==
    taskThreads = threadsToReserve
                    + Cardinality({w \in Worker : pc[w] = "run"})
                    + (IF main \in {"accept", "run"} THEN 1 ELSE 0)

(* shutDownThreads and contractThreadPool return when, and only when, every *)
(* worker they wait for has left: the dispatcher may be freed.              *)
Alive == {w \in Worker : pc[w] \notin {"none", "failed", "gone"}}
NobodyLeft ==
    /\ vm = "down" => Alive = {}
    /\ vm = "contract_end" => Alive = 1 .. limit - 1

(* No notification is missing: every dispatch ends, and so does every       *)
(* operation on the pool.                                                   *)
EveryOperationEnds ==
    /\ main # "idle" ~> main = "idle"
    /\ vm # "new" ~> vm \in Resting
=============================================================================
