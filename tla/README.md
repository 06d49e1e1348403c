# TLA+ verification of Eclipse OMR

This directory holds TLA+ models of parts of OMR, the TLC configurations that
check them on small instances, and proofs that TLAPS checks for every instance.
`PROJECT.json` is the index: components, runs, mutants, the map from definitions
to source lines, findings, hazards and theorems.

## The system and what is modelled

OMR is a toolkit for building language runtimes. Its parts use each other from
the bottom up:

| part | directory | what it does | here |
|---|---|---|---|
| port library | `port/` | operating-system calls behind one interface | not modelled (I/O) |
| thread library | `thread/` | threads, monitors, interrupts, read/write mutexes, fork | **monitors, interrupts, mutexes, fork** |
| util | `util/` | pools, hash tables, AVL trees, hooks, character sets | planned, last |
| VM glue | `omr/` | VM and thread attach, initialisation order | not modelled |
| trace | `omrtrace/` | trace buffers and their publication | not modelled |
| GC | `gc/` | heap, collectors, parallel dispatcher, tasks, work packets, locks | **dispatcher, tasks, work packets, locks** |
| compiler | `compiler/`, `jitbuilder/` | optimising JIT | out of reach |
| tools | `ddr/`, `nls/`, `tools/`, `third_party/`, `omrsigcompat/` | build-time tools, imported code | not modelled |

Everything concurrent above the port library rests on the monitors of the thread
library, in `thread/common/omrthread.c`, `threadhelpers.cpp` and `rwmutex.c`.
They are modelled first, because every later module is a client of them. The second
part is what the threads of a parallel collection use to work together: the dispatcher
that hands them a task, the barriers and work units inside the task, the packets of
marking work they pass to each other, and the two lightweight locks of `gc/base`.

### Modules

| module | models | extends / uses |
|---|---|---|
| `Monitor` | what a monitor promises: one owner, recursion, FIFO wait list, a wait that restores the recursion count | |
| `RWMutex` | `rwmutex.c`, every operation, over one `Monitor` | conjoins the actions of `Monitor` |
| `RWMutexSteps`, `RWMutexProofs` | the TLAPS proofs about `RWMutex` | `RWMutex` |
| `MonitorLock` | entry, try-entry, exit, spinning, blocking and waking of a three-tier monitor; fork | |
| `MonitorLockProofs` | the TLAPS proofs about `MonitorLock` | `MonitorLock` |
| `MonitorWait` | wait, timed wait, notify, notify_all, destroy, in both notify modes | `MonitorLock`, implements `Monitor` |
| `MonitorInterrupt` | interrupt, priority interrupt, abort, `interruptServer` threads | `MonitorWait`, implements `Monitor` |
| `Barrier` | what a parallel task promises: nobody passes a synchronisation point early, a released thread is alone, the main thread finishes last | |
| `ParallelTask` | `ParallelTask.cpp`: the three kinds of synchronisation point, work units, completion | implements `Barrier` |
| `ParallelTaskSteps`, `ParallelTaskPlaces`, `ParallelTaskUnits`, `ParallelTaskProofs` | the TLAPS proofs about `ParallelTask`, each module extending the one before | `ParallelTask`, `Barrier` |
| `ParallelDispatcher` | `ParallelDispatcher.cpp`: the pool of workers, its start-up, shutdown, contraction and expansion, and the dispatch of tasks | |
| `WorkPackets` | `WorkPackets.cpp`, `WorkStack.cpp`, the packet lists and the overflow handlers, as `completeScan` drives them | |
| `GCSpinlock` | `gcspinlock.cpp` | `GCThreads` |
| `LightweightRWLock` | `LightweightNonReentrantRWLock.cpp` | `GCThreads` |
| `GCLockProofs` | the TLAPS proofs about the two locks | `GCSpinlock`, `LightweightRWLock` |
| `MC*` | the instances for TLC: symmetry sets, the set of scripts, the choice of a lock | |

`Monitor` is the seam. From above, `RWMutex` uses it as its `syncMon`. From below,
`MonitorWait` and `MonitorInterrupt` are shown to implement it (property
`ImplementsMonitor`), so what is checked of a client over `Monitor` holds of that
client over the real monitor, as far as safety goes.

The collector's modules are clients of monitors too. They go one step further and make a
critical section one step, from the enter to the exit or to the wait, with the wait list
as a set; what the code reads or writes outside the monitor is a step of its own. Each
leans on what the one before shows: `ParallelDispatcher` keeps of a task only the number of
threads that have not completed it, because `ParallelTask` implements `Barrier`; `WorkPackets`
opens the synchronisation points of the overflow handlers when all threads have come,
for the same reason.

## How the models correspond to the code

**Steps.** One step is one atomic instruction (a compare-and-exchange, a swap, an
atomic add) or one critical section of `monitor->mutex` (`MONITOR_LOCK`), of a
thread's own mutex (`THREAD_LOCK`) or of the library's global lock. An unlock is
part of the step before it: nothing happens between the last access of a section
and its unlock that another thread could see. Reads outside any lock are steps of
their own where another thread can change what they read.

**Control.** `pc[t]` is the place of thread `t` inside the library, "idle" outside
it. `monitor_enter`, `try_enter` and `monitor_exit` are called by clients, by wait
and by the interrupt code, so `call[t]` records the mode of the entry and the places
to continue at on success and on failure.

**Condition variables.** `cond[t]` says whether `t` is inside a wait on its own
condition and whether it has been signalled. A `NOTIFY` on a thread that is not in
such a wait is lost, exactly as with POSIX conditions. Where `SpuriousWakes` is
TRUE the operating system may also end a wait without a signal.

**`MonitorLock`.** `spinlockState` has the three values of the lock word. Spinning
(three nested loops of compare-and-exchange) is a bounded choice: a spinner takes the
lock if it is free, or gives up at any time; how long it spins (and adaptive
spinning, which only changes that) decides nothing else. With spin-wake control
`spinThreads` counts spinners, at most `MaxSpinThreads` spin, and an exit wakes at
most `MaxWakeThreads` sleepers, none when somebody spins. `ForkReset` is
`preFork` to `postForkResetMonitors` in the child: every thread but the
caller is gone.

**`MonitorWait`.** The original implementation numbers waits; FAST_NOTIFY moves a
notified thread from `waiting` to `blocking` and leaves its wake-up to the next
exit. Both modes are in the module, chosen by the constant `FastNotify`, as the
library flag does.

**`MonitorInterrupt`.** An interrupter that cannot take the monitor creates an
`interruptServer` thread to do it. Server threads are the elements of `Server`;
their creation succeeds while one is left. The lock order (global lock, thread mutex,
monitor) is explicit, so a lock-order deadlock would be a behaviour of the model.

**`RWMutex`.** `status`, `writer` and the monitor are the C structure. `held[t]` is
what thread `t` has entered and not left, a stack, and gives the properties something
to compare `status` with. Clients use the mutex as its documentation asks: exits
match entries in reverse order, and a reader does not block on a write entry (it may
try one). After a fork the child aborts if the mutex was read-locked, as
`omrthread_rwmutex_reset` does; all its threads are then "gone".

**`ParallelTask`.** `script` is the sequence of calls that a task's `run` makes: work units
and the three kinds of synchronisation point. All threads of the team run the same script, as
all subclasses do, and the position in it stands for the unique id of the call site. `handled`
records who was told to handle which unit. What a released thread does alone, work units
included, is one step (`AloneUnit`).

**`ParallelDispatcher`.** `vm` starts, contracts, expands and shuts down the pool; `main`
runs collections; the workers have ids from 1 up. `statusTable`, `taskTable` and
`threadTable` are the arrays of the dispatcher (a worker's `env->_currentTask` always agrees
with its `taskTable` entry and is left out, and so is `_activeThreadCount`, which only
reports a number). `main` may be a worker that collects during its own detach. How many
threads a task gets (`recomputeActiveThreadCount`) is a choice. A worker can take two of the slots of
a task that has no synchronisation points; the code allows that and the model does.

**`WorkPackets`.** A packet is the number of its used slots. The list a packet belongs
to depends on that number alone, so the lists are a count per number, and a pop may return
any packet of its list, which includes what the head of the list could be. An object is one slot; marking it
pushes it, scanning it may mark others while `unmarked` ones are left. An overflow empties
a packet and marks its objects in the heap (a bit of the object with the standard handler, a dirty
card with the concurrent one), and a walk finds them again: by the main thread alone with the first
handler, by all threads, each with a share, with the second. An object that overflows
during a walk falls ahead of the walkers or behind them, by choice. The initial states are those of
a mark task at its start (with packets left over when the concurrent collector has
run before) and those of a task that resumes after an overflow. A condition that is
evaluated without a lock is one step although it reads up to three counts: they only
answer whether to look for a packet, and the pop itself tests again.

**`GCSpinlock`, `LightweightRWLock`.** One step is one access to the word, or one operation
of the semaphore. The packed word of the readers-writer lock is a record of its three
fields; every compare-and-swap compares the whole of it.

## The runs

Passing runs, with what each is for. `t` is the number of client threads.

| run | instance | question |
|---|---|---|
| `rwmutex` | t = 3, nesting 2, fork, fair | is `status` the account of what is held, is a writer alone, is no waiter forgotten although the last reader notifies one thread, is the child's mutex right after the reset, does every call return |
| `lock` | t = 3, recursion 2, spurious wake-ups, fork, no spin-wake control, fair | one holder, no sleeper on a free monitor, every entry returns, all in the child of a fork too |
| `lock_swc` | t = 3, recursion 2, spin-wake control, try_enter does not spin, spurious wake-ups, fair | is the spinner count exact, does every entry return although an exit skips the wake-up when somebody spins |
| `wait` | t = 3, original notify, timed waits, fair | refinement of `Monitor`, FIFO notification, the wait numbers name the right list and the destroy test sees all waiters, every notified wait returns |
| `wait_fast` | t = 3, FAST_NOTIFY, spin-wake control, timed waits, spurious wake-ups, fair | refinement of `Monitor`, queues and flags agree, every notified wait returns |
| `interrupt` | t = 2, one server, two interrupts of two kinds, timed waits, spurious wake-ups | refinement; the flags of a thread justify what its interrupters do (three of the assertions) |
| `abort` | t = 2, recursion 2, one server, FAST_NOTIFY, fair | refinement, no wake-up without a reason, an abort ends a blocked entry and reaches every waiter it is meant for, nobody is stuck |
| `gc_locks` | t = 3, one of the two locks per behaviour, fair | one holder or many readers, no new reader while a writer waits, every call ends |
| `parallel_task` | teams of 1 to 3, every script of up to 3 operations, fair | refinement of `Barrier`, the assertions of the code, every work unit handled by exactly one thread, the task ends |
| `dispatcher` | 4 threads, 3 tasks, failing threads, contraction, expansion, shutdown, fair | the assertions of the code, no worker has a task that is gone, the slots of a task add up, nobody is left after a shutdown, every dispatch and every operation on the pool ends |
| `work_packets` | t = 2, 4 to 5 packets of 4 slots, 7 objects from the roots or 13 after an overflow, both handlers, fair | no packet and no object is lost, the wait count is exact, the end is declared only when there is no work, an output packet has room for two, everyone leaves |

Type correctness is part of an invariant of each run, or of a theorem. The inductive
invariants are not listed in the runs, since they are proved; `IInv`, `LockInv`, `SpinInv`, `RWInv` and
`TaskInv` can be added to the run of their module as an INVARIANT, and hold there.

Every property of a passing run has a mutant in `PROJECT.json`: a plausible bug in
one definition, defined just before it, under which TLC finds the property violated.

### Findings

The run `interrupt_lost` expects a violation of one property that the documentation states
(`omrthread.c:2741`, and the comment at `:3001`): the `interruptServer` thread can signal
the waiter before it sleeps, and the interrupted thread stays in its wait. The same happens to
an abort: `EveryoneFinishes` of `abort` excepts the waiter that has had its wake-up (BLOCKED is
set), and TLC finds a violation without that exception. Nothing else keeps an aborted waiter
asleep.

More observations have no run of their own. The first four are reproduced by a run with other
constants or one more invariant, as given.

- *A failed try_enter and the exit.* With spin-wake control and a spinning try_enter, a thread
  that has lost its last attempt is still counted as a spinner; the exit relies on it and wakes
  nobody, so a thread sleeps on a free monitor (`omrthread.c:4363`; the duty is at `:4121`). Run
  `lock_swc` with `TryEnterSpin = TRUE` and the invariant `NobodySleepsOnFreeMonitor`.
- *An aborted entry and the exit.* The one thread that is woken returns because it was aborted,
  and the next sleeper is not woken (`omrthread.c:4070`). Run `abort` with three clients,
  `SpinWakeControl = TRUE`, `Modes = {"enter", "abortable"}`, `WaitKinds = {}` and the invariant
  `NobodySleepsOnFreeMonitor`. These two need spin-wake control, which the build configurations
  in `cmake/caches` turn on, and the default limits of one spinner and one wake-up.
  The sleeper is not lost for good: the next exit of the monitor wakes it.
- *Destroying a monitor.* FAST_NOTIFY waits are invisible to the in-use test that
  `omrthread.c:3425` documents: the last conjunct of `QueuesAgree` fails in `wait_fast` without
  its condition.
- `lock_swc` with `ForkAllowed = TRUE`: the fork handler leaves
  `spinThreads` of the survivor's own monitor (`omrthread.c:961` is in the other
  branch), and `SpinnersCounted` and `NobodySleepsOnFreeMonitor` fail.
- The same handler leaves `count` of a lost thread's
  monitor, so that the next try_enter finds `count` # 0 against the assertion at `omrthread.c:4233`.
- Three assertions of the interrupt code fail in `interrupt` as they are written. A priority
  interrupt sets neither of the flags asserted at `omrthread.c:3127`; `ServedForAReason`
  adds the one that is missing, and holds. A second interrupt of another kind can come before
  the first is served, and finds an `interrupter` where `omrthread.c:2926` (a blocked thread)
  and `:2975` (a waiting one) assert that there is none. With two servers the refinement still holds.
- `LightweightNonReentrantRWLock.hpp:33` gives the mode bit as ":0=Reader Mode, :1=Writer Mode",
  the constants are the other way round; `:35` allows 32767 readers, the assertion
  (`LightweightNonReentrantRWLock.cpp:70`) fires for the 32767th.
- `ParallelDispatcher.cpp:352` says "for safety sake, set the shutdown flag to true" and does
  not; the documentation of `setThreadInitializationComplete` (`:614`) says that it notifies
  on `_workerThreadMutex`, the code notifies `_dispatcherMonitor`.
- `reinitializeThreadPool` replaces the tables of the dispatcher without `_workerThreadMutex`;
  a retained worker that `contractThreadPool` woke may not yet have gone back to its wait.

The assertions are compiled only with `THREAD_ASSERTS`.

### Bounds, and why they are enough

- `Thread`: the hardest interleavings have an owner, a sleeper, and a third thread
  that comes in between. All findings need three threads at most, and the safety
  properties of `RWMutex`, `MonitorLock` and `ParallelTask` are proved for any number.
- `MaxCount`, `MaxHold`: recursion needs depth 2 to tell a saved count from 1
  (`lock`, `lock_swc`, `abort`). `wait`, `wait_fast` and `interrupt` use 1 to stay
  small; the code that saves and restores the count is shared with `abort`.
- `MaxSpinThreads` and `MaxWakeThreads` are 1, the library's defaults. They are also
  the values where a wrongly counted or wasted one hurts.
- `MaxWaitNumber` = 3 lets every thread wait at once. Numbers start again when the
  list is empty, and grow while it is not; at the bound no new wait starts until the
  highest-numbered waiter has left, so overtaking sequences longer than that are cut.
- `MaxInterrupts` = 2 where two interrupts can meet, else 1. There is one server; an
  interrupter that needs a second one waits until the first has died.
- `SpuriousWakes`: no fairness makes a spurious wake-up happen, so they never hide a
  lost wake-up from a liveness property; they are FALSE only to keep `wait`,
  `abort` and `interrupt_lost` small.
- `MaxReaders` = 4, the least that the assumption allows with three threads.
- `MaxLen` = 3: a script can have a unit, or another synchronisation point, on each side of a
  point, and two points in a row, where a slow thread is still leaving the first. `Thread` has
  three elements, so a point has a first, a middle and a last thread; the team may be smaller.
- `MaxThreads` = 4, `MaxTasks` = 3: three workers, of which a contraction keeps some and drops
  some, and a task before, during and after a change of the pool. `HybridBound` = 16 is the
  default; in a pool of four a task for one worker uses a single notification, one for two or
  three the broadcast.
- Packets: `Slots` = 4, with a threshold of 3, has empty, relatively empty, non-empty and full
  packets, and the search of `getLeastFullPacket` finds a relatively full one that it may take; with
  `MaxPacketSearch` = 3 both ends of the search are reached, though not the one for satisfactory
  capacity, which is 4. `Packets` = 4 is the least the code allows for two threads (two each), `MaxPackets` = 5
  lets the pool grow once. With 7 objects a packet is
  filled, split between the threads and given back; overflow needs more objects than packets can hold, hence the second
  kind of initial state, which has one overflow behind it and, with 13 objects left, another to come
  during the walk. Three threads with 6 to 7 packets of 3 slots and 4 objects pass as well.

`CHECK_DEADLOCK FALSE` is used where the system may really stop: every client
waiting for a notification nobody is left to give, all threads gone after the abort of
a forked child, or all clients done in the fair specifications.

### Fairness

A thread inside the library is not stopped for ever by the scheduler: weak fairness
of its steps. In `MonitorInterrupt` the steps that take an OS mutex have strong
fairness: a mutex that is free again and again is finally given to a thread that
asks for it, which is what the pthread and Windows implementations provide in
practice. Timed waits end. In the collector's modules every thread that is inside a call has weak fairness,
because the operating system runs it; monitors are not fair there either, and no property needs that.
The synchronisation points in `WorkPackets` open when all have come, which is `TaskEnds` of `ParallelTask`.
A task's work takes finite time. Nothing makes a client start a call; `ClientsLeave` stops new
calls at some moment, and from then on clients only give back what they hold. Without
this a monitor that is not fair by design (a barging lock) may starve a thread, and
no property says otherwise.

## What is proved

### The read/write mutex

TLC checks instances; `RWMutexProofs` proves, for any finite set of threads, any nesting
bound and with or without forks:

| theorem | property | what it says |
|---|---|---|
| `Invariance` | `IInv` | the inductive invariant holds in every reachable state |
| `TypeCorrect` | `TypeOK` | |
| `Exclusion` | `WriterExcludesAll` | a thread that holds the mutex for writing is the only holder |
| `StatusCorrect` | `StatusCountsHolders` | `status` is the number of read accesses, or minus the number of write accesses held |
| `WriterSeen` | `WriterIsSeen` | `omrthread_rwmutex_is_writelocked` is true while a writer is in |
| `WriterHolds` | `WriterIsHolder` | `writer` names nobody without write access, but the thread about to clear it |
| `NoWaiterLost` | `NoWaiterForgotten` | the single notification of the last reader is enough |

*Assumptions* (`RWMutexAssumption`): `Thread` is finite, `NoThread` is not in it,
`MaxHold` is a natural number.

*Argument.* The properties are not inductive as they stand: that exclusion survives
a step depends on which places of the code hold the monitor, on who is on the wait
list, and on how `writer` lags behind `status` between the two assignments of a write
entry (`claim`) and of the last exit (`release`). `IInv` adds these: `MonitorInv` (the
owner of the monitor is the thread at a place inside it, waiters are at wait places and
queued once), `HeldInv` (what a thread may hold at each place) and `WriterInv` (how
`writer` and the holders relate at each place). Each action has a lemma that it
preserves `IInv`, `Inductive` combines them, and counting is done with the cardinality
of the set of read accesses (`Holds("R")`), which grows or shrinks by one element. `NoWaiterLost` needs its own induction on top of
`IInv`.

### The three-tier lock

`MonitorLockProofs` proves, about `LockSpec`, for any finite set of threads, any limits,
with or without spin-wake control, spinning try_enter, spurious wake-ups and forks
unless a condition is given:

| theorem | property | condition |
|---|---|---|
| `LockInvariance` | `LockInv`, the inductive invariant | |
| `LockTypeCorrect` | `LockTypeOK` (`spinThreads` and `count` never go below 0) | |
| `LockExclusion` | `Exclusion` | |
| `LockAnnounced` | `SleeperAnnounced` (which speaks of builds without spin-wake control) | |
| `LockNobodyStranded` | `NobodySleepsOnFreeMonitor` | no spin-wake control |
| `LockSpinnersCounted` | `SpinnersCounted` | no forks |

The two conditions are needed: the observations on try_enter and on forks above are
the counterexamples without them.

*Assumptions* (`LockAssumption`): `Thread` is finite and without `NoThread`, the build
options are Booleans, the limits natural numbers.

*Argument.* `Exclusion` depends on `OwnerInv`: a thread that has the spinlock but is not
yet, or no longer, the owner finds `owner` NULL, so the `owner` field and the lock word
cannot name two threads. `SleeperAnnounced` is not inductive because the promise is
made by the swap, before the thread marks itself blocked and sleeps: `AnnouncedInv` extends it to
those steps, and `MutexInv` says that nobody is between the swap and the sleep while
another thread is inside `unblock_spinlock_threads`, and that a sleeper is in the queue
that it walks. `SpinInv` is the count, as an inequality after a fork. There is one
lemma per action, with one step per conjunct; `LockInductive` combines them.

### The locks of the collector

`GCLockProofs` proves, for any finite set of threads:

| theorem | property | what it says |
|---|---|---|
| `SpinInvariance` | `SpinInv` | the inductive invariant of the spinlock |
| `SpinExcludes` | `SpinExclusion` | one thread has the spinlock |
| `RWInvariance` | `RWInv` | the inductive invariant of the readers-writer lock |
| `RWExcludes` | `RWExclusion` | a writer is alone |
| `RWAssertion` | `ReaderCountFits` | the assertion on the number of readers |
| `RWWriterPriority` | `WriterPriority` | no thread becomes a reader while a writer waits |

*Assumptions*: `Thread` is finite (`FinitelyManyThreads`) and, for the readers-writer lock, has
fewer elements than the reader count has values (`ThreadsFitTheWord`), without which the code's own
assertion fails.

*Argument.* Exclusion of the spinlock depends on where the lock is while it is handed over:
`InOneHand` says that a lock that is not free is with a holder, with a thread that is
about to post the semaphore, or in the semaphore, and `TargetCounts` that the word is the number of
holders and sleepers less one, so that a release knows whether to post. For the other lock
`WordInv` says that the word is the account of the threads; a swap that
succeeds replaces the word it was computed from, so it does not matter how long ago that was read.
A lemma counts the threads at a set of places when one thread moves; each action then has one step
or lemma.

### The parallel task

`ParallelTaskProofs` proves, for any finite set of threads, any team of them with the main
thread in it, and any script of work units and synchronisation points, of any length:

| theorem | property | what it says |
|---|---|---|
| `TaskInvariance` | `TaskInv` | the inductive invariant |
| `TaskAssertions` | `AssertionsHold` | the assertions of `ParallelTask.cpp` |
| `UnitsHandledOnce` | `EveryUnitOnce` | no work unit is handled twice, none is left when all have finished |
| `TaskImplementsBarrier` | `ImplementsBarrier` | every behaviour of the task is one of `Barrier` |

*Assumptions* (`TaskAssumption`): `Thread` is finite and has `Main` in it, the scripts are sequences
of operations. The counters are natural numbers: that `_synchronizeIndex` wraps around
is left out.

*Argument.* What makes a point safe is that the thread that opens it finds all others held at
the same one. The counters say this only if they count the right threads, so `CountInv` says whom
they count, and `PointInv` that those who are counted are at one point. Two facts about the
script make that inductive: `SegmentInv`, no two threads have a point between them, where a thread
that has been let go but has not woken up counts as past the point (`Reach`), and
`LaggingInv`, such a thread has somebody ahead of it. `PlaceInv`, `SectionInv` and `OneThreadInv` say what
each place of the code implies. For the units, `UnitInv` says that every thread has counted the units
before its position and that no number is claimed twice, `ClaimInv` that no number is dropped.

In a team of several threads, a step is one of four kinds for the barrier (lemma `Kinds`): a thread
travels between two points, stays where it is held, arrives, or opens the point. The counts,
the segments and the point are proved once per kind (`ParallelTaskSteps`), types, places and sections
once per action (`ParallelTaskPlaces`), units in `ParallelTaskUnits`. The step that
matters most is lemma `AllHeld`: when the last thread arrives, the cardinality of the held threads is one
less than that of the team, so all others are held there. The refinement maps `pos`
to the position in the script and `place` to the kind of place; a step that ends a
work unit, arrives, passes or opens a point, goes alone or finishes is the step of `Barrier` of that name; a step
that changes neither position nor kind of place stutters.

### Only model-checked

Wait, notify and interrupts (`MonitorWait`, `MonitorInterrupt`), their refinement of
`Monitor`, the behaviour with spin-wake control beyond the theorems above,
the dispatcher, work packets, and every liveness property, that of the parallel task (`TaskEnds`)
included: fairness and ENABLED are outside the prover's reach.

## What is not modelled

- Failure to create an `interruptServer` thread, and memory exhaustion in general.
- Weak memory: atomic instructions and mutexes are sequentially consistent here; the
  barriers in the code are not checked.
- MCS locks (`OMR_THR_MCS_LOCKS`, off in all build configurations), the variant without
  three-tier locking, JLM statistics, hold times, tracing, adaptive spinning.
- The interrupt of a sleeping or parked thread: sleep, park and suspend are planned.
- The monitor pool, thread creation, exit, join and detach: planned.
- A fork while its caller is inside a library call; the library does not support it.

- `ParallelTask`: `shouldYieldFromTask`, which the base class answers with FALSE.
- `ParallelDispatcher`: start-up and shutdown at the same time. They are calls of one thread
  in `omrgcstartup.cpp`.
- `WorkPackets`: the lists are not split into sublists (a pop would try them in turn); deferred
  packets, the push of a pair, `popNoWait`, `resetAllPackets`, `clearCardsForNewSpace`, callers
  without a current task, and the subclass for snapshot-at-the-beginning marking.
- The heap, the marking and copying algorithms and the phases of the concurrent collector: object
  graphs and address ranges.

The other parts of OMR, with reasons, are in the `components` list of `PROJECT.json`.

## Plan

In this order. Each new module is a client of `Monitor` or shares the thread state of
`MonitorInterrupt`.

1. Proofs: `NobodySleepsOnFreeMonitor` with spin-wake control while try_enter does not
   spin; the refinement step of `MonitorWait`.
2. `ThreadPark` (park, unpark, sleep, suspend, resume, interrupts of them),
   `ThreadLifecycle` (create, attach, cancel, exit, join, detach) and `MonitorPool`
   (allocate, free, local lists, the pool walks after a fork and at shutdown).
3. `Hookable`: lock-free dispatch against registration and unregistration.
4. `WorkPackets` with split lists and deferred packets.
5. `pool` and `hashtable` as operators against a reference definition.
