---------------------------- MODULE ParallelTask ----------------------------
(***************************************************************************)
(* A parallel GC task (gc/base/ParallelTask.cpp): its three kinds of       *)
(* synchronisation point, the distribution of work units, and completion.  *)
(*                                                                         *)
(* The threads of the team run the same script, as every MM_ParallelTask   *)
(* subclass has them do; an operation of the script stands for its call    *)
(* site, so its position is the id of a synchronisation point.  A critical *)
(* section of _synchronizeMutex is one step, from enter to exit or wait;   *)
(* what the code reads and writes outside it is a step of its own.         *)
(***************************************************************************)
EXTENDS Naturals, Sequences, FiniteSets

CONSTANTS
    Thread, Main,   \* Main is the thread with worker id 0
    Scripts         \* the programs a task may run

Op == {"unit", "sync", "main", "single"}

ASSUME TaskAssumption ==
    /\ IsFiniteSet(Thread)
    /\ Main \in Thread
    /\ Scripts \subseteq Seq(Op)

VARIABLES
    script, team,   \* what run(env) does, and the threads it is dispatched to
    pc,             \* where each thread is
    ip,             \* the operation it is at, or about to begin
    index,          \* its local copy of _synchronizeIndex
    workUnit,       \* env->_workUnitIndex
    toHandle,       \* env->_workUnitToHandle
    synchronized, syncPointUniqueId, syncPointWorkUnitIndex,
    threadCount, workUnitIndex, synchronizeIndex, synchronizeCount,
    waiting,        \* the threads on the wait list of _synchronizeMutex
    handled         \* who was told to handle the work unit at which position

envVars == <<workUnit, toHandle>>
pointVars == <<syncPointUniqueId, syncPointWorkUnitIndex>>
countVars == <<threadCount, synchronizeIndex, synchronizeCount, waiting>>
unitVars == <<workUnitIndex, handled>>
vars == <<script, team, pc, ip, index, envVars, synchronized, pointVars,
          countVars, unitVars>>

Place == {"out", "run", "claim", "enter", "wait", "mark", "alone", "unmark",
          "release", "complete_wait", "done"}

(* The constructor, setThreadCount and the dispatch of the task. *)
Init ==
    /\ script \in Scripts
    /\ team \in {S \cup {Main} : S \in SUBSET Thread}
    /\ pc = [t \in Thread |-> IF t \in team THEN "run" ELSE "out"]
    /\ ip = [t \in Thread |-> 1]
    /\ index = [t \in Thread |-> 0]
    /\ workUnit = [t \in Thread |-> 1]
    /\ toHandle = [t \in Thread |-> 0]
    /\ synchronized = FALSE
    /\ syncPointUniqueId = 0 /\ syncPointWorkUnitIndex = 0
    /\ threadCount = Cardinality(team)
    /\ workUnitIndex = 0
    /\ synchronizeIndex = 0 /\ synchronizeCount = 0
    /\ waiting = {}
    /\ handled = {}

totalThreadCount == Cardinality(team)

At(t, ops) == ip[t] \in DOMAIN script /\ script[ip[t]] \in ops
Ended(t) == ip[t] = Len(script) + 1

Goto(t, place) == pc' = [pc EXCEPT ![t] = place] /\ UNCHANGED ip
Advance(t) == pc' = [pc EXCEPT ![t] = "run"] /\ ip' = [ip EXCEPT ![t] = @ + 1]

---------------------------------------------------------------------------
(* handleNextWorkUnit.  _synchronized is read first, outside any lock. *)

UnitTest(t) == totalThreadCount = 1 \/ synchronized

Handle(t) == handled' = handled \cup {<<ip[t], t>>}

UnitMine(t) ==
    /\ pc[t] = "run" /\ At(t, {"unit"})
    /\ UnitTest(t)
    /\ Handle(t)
    /\ Advance(t)
    /\ UNCHANGED <<script, team, index, envVars, synchronized, pointVars,
                   countVars, workUnitIndex>>

UnitShared(t) ==
    /\ pc[t] = "run" /\ At(t, {"unit"})
    /\ ~UnitTest(t)
    /\ Goto(t, "claim")
    /\ UNCHANGED <<script, team, index, envVars, synchronized, pointVars,
                   countVars, unitVars>>

(* Mutant: the next unit is claimed one index too late. *)
NextUnitLate(t) ==
    /\ workUnit' = [workUnit EXCEPT ![t] = @ + 1]
    /\ IF workUnit[t] > toHandle[t] + 1
       THEN /\ workUnitIndex' = workUnitIndex + 1
            /\ toHandle' = [toHandle EXCEPT ![t] = workUnitIndex + 1]
       ELSE UNCHANGED <<workUnitIndex, toHandle>>

(* The atomic add gives every unit number to one thread. *)
NextUnit(t) ==
    /\ workUnit' = [workUnit EXCEPT ![t] = @ + 1]
    /\ IF workUnit[t] > toHandle[t]
       THEN /\ workUnitIndex' = workUnitIndex + 1
            /\ toHandle' = [toHandle EXCEPT ![t] = workUnitIndex + 1]
       ELSE UNCHANGED <<workUnitIndex, toHandle>>

UnitClaim(t) ==
    /\ pc[t] = "claim"
    /\ NextUnit(t)
    /\ IF workUnit[t] = toHandle'[t] THEN Handle(t) ELSE UNCHANGED handled
    /\ Advance(t)
    /\ UNCHANGED <<script, team, index, synchronized, pointVars, countVars>>

HandleNextWorkUnit(t) == UnitMine(t) \/ UnitShared(t) \/ UnitClaim(t)

---------------------------------------------------------------------------
(* The first thread at a synchronisation point signs it; the others assert *)
(* that they are at the same one (AssertionsHold).                         *)
SignPoint(t) ==
    IF synchronizeCount = 0
    THEN syncPointUniqueId' = ip[t] /\ syncPointWorkUnitIndex' = workUnit[t]
    ELSE UNCHANGED pointVars

OpenBarrier ==
    /\ synchronizeCount' = 0
    /\ synchronizeIndex' = synchronizeIndex + 1
    /\ waiting' = {}

(* synchronizeGCThreads. *)

SyncLast(t) ==
    /\ pc[t] = "run" /\ At(t, {"sync"}) /\ totalThreadCount > 1
    /\ synchronizeCount + 1 = threadCount
    /\ SignPoint(t)
    /\ OpenBarrier
    /\ Advance(t)
    /\ UNCHANGED <<script, team, index, envVars, synchronized, threadCount, unitVars>>

SyncWait(t) ==
    /\ pc[t] = "run" /\ At(t, {"sync"}) /\ totalThreadCount > 1
    /\ synchronizeCount + 1 # threadCount
    /\ SignPoint(t)
    /\ synchronizeCount' = synchronizeCount + 1
    /\ index' = [index EXCEPT ![t] = synchronizeIndex]
    /\ waiting' = waiting \cup {t}
    /\ Goto(t, "wait")
    /\ UNCHANGED <<script, team, envVars, synchronized, threadCount,
                   synchronizeIndex, unitVars>>

(* A thread alone in its team passes. *)
SyncOneThread(t) ==
    /\ pc[t] = "run" /\ At(t, {"sync"}) /\ totalThreadCount = 1
    /\ Advance(t)
    /\ UNCHANGED <<script, team, index, envVars, synchronized, pointVars,
                   countVars, unitVars>>

---------------------------------------------------------------------------
(* synchronizeGCThreadsAndReleaseMain and ...AndReleaseOneThreadThread.  The  *)
(* index is read before the mutex is entered.                              *)

ReadIndex(t) ==
    /\ pc[t] = "run" /\ At(t, {"main", "single"}) /\ totalThreadCount > 1
    /\ index' = [index EXCEPT ![t] = synchronizeIndex]
    /\ Goto(t, "enter")
    /\ UNCHANGED <<script, team, envVars, synchronized, pointVars, countVars,
                   unitVars>>

(* The thread a releasing point lets go on when it is the last to arrive. *)
Released(t) == At(t, {"single"}) \/ t = Main

EnterRelease(t) ==
    /\ pc[t] = "enter"
    /\ synchronizeCount + 1 = threadCount /\ Released(t)
    /\ SignPoint(t)
    /\ synchronizeCount' = synchronizeCount + 1
    /\ Goto(t, "mark")
    /\ UNCHANGED <<script, team, index, envVars, synchronized, threadCount,
                   synchronizeIndex, waiting, unitVars>>

(* A thread that is not released waits.  At a point that releases the main *)
(* thread the last one to arrive wakes all waiters first, and the index is *)
(* tested before the wait.                                                 *)
EnterWait(t) ==
    /\ pc[t] = "enter"
    /\ ~(synchronizeCount + 1 = threadCount /\ Released(t))
    /\ SignPoint(t)
    /\ synchronizeCount' = synchronizeCount + 1
    /\ LET woken == IF synchronizeCount + 1 = threadCount THEN waiting ELSE {}
       IN  IF At(t, {"single"}) \/ index[t] = synchronizeIndex
           THEN waiting' = (waiting \ woken) \cup {t} /\ Goto(t, "wait")
           ELSE waiting' = waiting \ woken /\ Advance(t)
    /\ UNCHANGED <<script, team, index, envVars, synchronized, threadCount,
                   synchronizeIndex, unitVars>>

(* Mutant: the releasing thread never says that the others are held. *)
MarkNot(t) ==
    /\ pc[t] = "mark"
    /\ Goto(t, "alone")
    /\ UNCHANGED <<script, team, index, envVars, synchronized, pointVars,
                   countVars, unitVars>>

Mark(t) ==
    /\ pc[t] = "mark"
    /\ synchronized' = TRUE
    /\ Goto(t, "alone")
    /\ UNCHANGED <<script, team, index, envVars, pointVars, countVars, unitVars>>

ReleaseOneThread(t) ==
    /\ pc[t] = "run" /\ At(t, {"main", "single"}) /\ totalThreadCount = 1
    /\ synchronized' = TRUE
    /\ Goto(t, "alone")
    /\ UNCHANGED <<script, team, index, envVars, pointVars, countVars, unitVars>>

(* The section that the released thread executes: it may hold work units,  *)
(* all of which fall to this thread.                                       *)
AloneUnit(t) ==
    /\ pc[t] = "alone"
    /\ IF UnitTest(t) THEN UNCHANGED <<envVars, workUnitIndex>> ELSE NextUnit(t)
    /\ Goto(t, "unmark")
    /\ UNCHANGED <<script, team, index, synchronized, pointVars, countVars, handled>>

(* releaseSynchronizedGCThreads. *)
Unmark(t) ==
    /\ pc[t] = "unmark"
    /\ synchronized' = FALSE
    /\ IF totalThreadCount = 1 THEN Advance(t) ELSE Goto(t, "release")
    /\ UNCHANGED <<script, team, index, envVars, pointVars, countVars, unitVars>>

Release(t) ==
    /\ pc[t] = "release"
    /\ OpenBarrier
    /\ Advance(t)
    /\ UNCHANGED <<script, team, index, envVars, synchronized, pointVars,
                   threadCount, unitVars>>

---------------------------------------------------------------------------
(* The return from a wait, for the three kinds of point. *)

MainMayGo(t) == At(t, {"main"}) /\ t = Main /\ synchronizeCount = threadCount

(* Mutant: a woken thread does not look at the index. *)
WakePassBlind(t) ==
    /\ pc[t] = "wait" /\ t \notin waiting
    /\ ~MainMayGo(t)
    /\ Advance(t)
    /\ UNCHANGED <<script, team, index, envVars, synchronized, pointVars,
                   countVars, unitVars>>

WakePass(t) ==
    /\ pc[t] = "wait" /\ t \notin waiting
    /\ index[t] # synchronizeIndex
    /\ Advance(t)
    /\ UNCHANGED <<script, team, index, envVars, synchronized, pointVars,
                   countVars, unitVars>>

WakeRelease(t) ==
    /\ pc[t] = "wait" /\ t \notin waiting
    /\ index[t] = synchronizeIndex /\ MainMayGo(t)
    /\ Goto(t, "mark")
    /\ UNCHANGED <<script, team, index, envVars, synchronized, pointVars,
                   countVars, unitVars>>

WakeAgain(t) ==
    /\ pc[t] = "wait" /\ t \notin waiting
    /\ index[t] = synchronizeIndex /\ ~MainMayGo(t)
    /\ waiting' = waiting \cup {t}
    /\ UNCHANGED <<script, team, pc, ip, index, envVars, synchronized, pointVars,
                   threadCount, synchronizeIndex, synchronizeCount, unitVars>>

---------------------------------------------------------------------------
(* complete: the main thread waits for all others to be through. *)

CompleteOneThread(t) ==
    /\ pc[t] = "run" /\ Ended(t) /\ totalThreadCount = 1
    /\ threadCount' = threadCount - 1
    /\ Goto(t, "done")
    /\ UNCHANGED <<script, team, index, envVars, synchronized, pointVars,
                   synchronizeIndex, synchronizeCount, waiting, unitVars>>

(* Mutant: the last worker to complete notifies nobody. *)
CompleteSilent(t) ==
    /\ pc[t] = "run" /\ Ended(t) /\ totalThreadCount > 1
    /\ SignPoint(t)
    /\ synchronizeCount' = synchronizeCount + 1
    /\ threadCount' = threadCount - 1
    /\ IF t = Main /\ threadCount' # 0
       THEN waiting' = waiting \cup {t} /\ Goto(t, "complete_wait")
       ELSE UNCHANGED waiting /\ Goto(t, "done")
    /\ UNCHANGED <<script, team, index, envVars, synchronized, synchronizeIndex,
                   unitVars>>

Complete(t) ==
    /\ pc[t] = "run" /\ Ended(t) /\ totalThreadCount > 1
    /\ SignPoint(t)
    /\ synchronizeCount' = synchronizeCount + 1
    /\ threadCount' = threadCount - 1
    /\ IF t = Main /\ threadCount' # 0
       THEN waiting' = waiting \cup {t} /\ Goto(t, "complete_wait")
       ELSE /\ waiting' = IF t # Main /\ threadCount' = 0 THEN {} ELSE waiting
            /\ Goto(t, "done")
    /\ UNCHANGED <<script, team, index, envVars, synchronized, synchronizeIndex,
                   unitVars>>

CompleteWake(t) ==
    /\ pc[t] = "complete_wait" /\ t \notin waiting
    /\ IF threadCount = 0
       THEN Goto(t, "done") /\ UNCHANGED waiting
       ELSE waiting' = waiting \cup {t} /\ UNCHANGED <<pc, ip>>
    /\ UNCHANGED <<script, team, index, envVars, synchronized, pointVars,
                   threadCount, synchronizeIndex, synchronizeCount, unitVars>>

---------------------------------------------------------------------------
Step(t) ==
    \/ HandleNextWorkUnit(t)
    \/ SyncLast(t) \/ SyncWait(t) \/ SyncOneThread(t)
    \/ ReadIndex(t) \/ EnterRelease(t) \/ EnterWait(t)
    \/ Mark(t) \/ ReleaseOneThread(t) \/ AloneUnit(t) \/ Unmark(t) \/ Release(t)
    \/ WakePass(t) \/ WakeRelease(t) \/ WakeAgain(t)
    \/ CompleteOneThread(t) \/ Complete(t) \/ CompleteWake(t)

Next == \E t \in team : Step(t)

Spec == Init /\ [][Next]_vars

(* The scheduler runs every thread of the team. *)
FairSpec == Spec /\ \A t \in Thread : WF_vars(t \in team /\ Step(t))

---------------------------------------------------------------------------
TypeOK ==
    /\ script \in Scripts
    /\ team \in SUBSET Thread /\ Main \in team
    /\ pc \in [Thread -> Place]
    /\ ip \in [Thread -> Nat \ {0}]
    /\ index \in [Thread -> Nat]
    /\ workUnit \in [Thread -> Nat]
    /\ toHandle \in [Thread -> Nat]
    /\ synchronized \in BOOLEAN
    /\ syncPointUniqueId \in Nat /\ syncPointWorkUnitIndex \in Nat
    /\ threadCount \in Nat /\ workUnitIndex \in Nat
    /\ synchronizeIndex \in Nat /\ synchronizeCount \in Nat
    /\ waiting \in SUBSET team
    /\ handled \in SUBSET (Nat \X team)

(* The assertions of ParallelTask.cpp: a thread that comes to a point where *)
(* others wait is at the same one and has counted as many work units, and   *)
(* releaseSynchronizedGCThreads is called while the others are held.        *)
AssertionsHold ==
    \A t \in team :
        /\ /\ totalThreadCount > 1 /\ synchronizeCount # 0
           /\ \/ pc[t] = "enter"
              \/ pc[t] = "run" /\ (At(t, {"sync"}) \/ Ended(t))
           => /\ syncPointUniqueId = ip[t]
              /\ Ended(t) \/ syncPointWorkUnitIndex = workUnit[t]
        /\ pc[t] = "unmark" => synchronized

UnitAt == {k \in DOMAIN script : script[k] = "unit"}

(* handleNextWorkUnit tells exactly one thread of the team to handle each   *)
(* work unit, although every thread counts the units for itself.            *)
EveryUnitOnce ==
    /\ \A x, y \in handled : x[1] = y[1] => x[2] = y[2]
    /\ (\A t \in team : pc[t] = "done") =>
           \A k \in UnitAt : \E t \in team : <<k, t>> \in handled

(* The synchronisation points keep the promise of Barrier: nobody passes    *)
(* early, a released thread is alone, the main thread completes last.       *)
PlaceOf(p) ==
    CASE p \in {"run", "claim", "enter", "complete_wait"} -> "running"
      [] p = "wait" -> "held"
      [] p \in {"mark", "alone", "unmark", "release"} -> "alone"
      [] p = "done" -> "finished"
      [] p = "out" -> "out"

B == INSTANCE Barrier WITH pos <- ip, place <- [t \in Thread |-> PlaceOf(pc[t])]

ImplementsBarrier == B!Spec

---------------------------------------------------------------------------
(* The inductive invariant. *)

InSection == {"mark", "alone", "unmark", "release"}
Completed == {"complete_wait", "done"}

(* What each place knows of the script and of the index read on the way. *)
PlaceKnows(t) ==
    /\ pc[t] = "out" <=> t \notin team
    /\ t \notin team => toHandle[t] = 0
    /\ ip[t] <= Len(script) + 1
    /\ pc[t] = "claim" => At(t, {"unit"})
    /\ pc[t] = "enter" => At(t, {"main", "single"}) /\ index[t] = synchronizeIndex
    /\ pc[t] = "wait" => At(t, {"sync", "main", "single"})
    /\ pc[t] \in InSection => At(t, {"main", "single"}) /\ Released(t)
    /\ pc[t] \in Completed => Ended(t)
    /\ pc[t] = "complete_wait" => t = Main
    /\ t \in waiting => pc[t] \in {"wait", "complete_wait"}

PlaceInv == \A t \in Thread : PlaceKnows(t)

(* A team of one never comes to the mutex. *)
OneThreadInv ==
    totalThreadCount = 1 =>
        /\ \A t \in team : pc[t] \in {"run", "alone", "unmark", "done"}
        /\ synchronizeCount = 0

(* A thread that has been let go but has not noticed is as good as past. *)
Lagging(t) == pc[t] = "wait" /\ index[t] # synchronizeIndex
Reach(t) == IF Lagging(t) THEN ip[t] + 1 ELSE ip[t]

(* No two threads of the team have a synchronisation point between them. *)
SegmentInv ==
    \A t, u \in team : \A j \in DOMAIN script :
        Reach(t) <= j /\ j < Reach(u) => script[j] = "unit"

(* The thread that let it go is ahead. *)
LaggingInv == \A t \in team : Lagging(t) => \E u \in team : ip[u] > ip[t]

Counted(t) ==
    \/ pc[t] = "wait" /\ index[t] = synchronizeIndex
    \/ pc[t] \in InSection \cup Completed

(* The counts are those of the threads held here, and of those not through. *)
CountInv ==
    /\ totalThreadCount > 1 =>
           synchronizeCount = Cardinality({t \in team : Counted(t)})
    /\ threadCount = Cardinality({t \in team : pc[t] \notin Completed})
    /\ pc[Main] = "done" => threadCount = 0

(* The point was signed for all that are held at it. *)
PointInv ==
    totalThreadCount > 1 => \A t \in team : Counted(t) =>
        /\ syncPointUniqueId = ip[t]
        /\ Ended(t) \/ syncPointWorkUnitIndex = workUnit[t]

SectionInv ==
    /\ \A t \in team : pc[t] \in InSection =>
           \A u \in team \ {t} : pc[u] = "wait" /\ index[u] = synchronizeIndex
    /\ synchronized <=> \E t \in team : pc[t] \in {"alone", "unmark"}

(* Every thread counts the units of the script in the same way. *)
UnitsBefore(k) == Cardinality({j \in UnitAt : j < k})

UnitInv ==
    totalThreadCount > 1 =>
        /\ \A t \in team : workUnit[t] = UnitsBefore(ip[t]) + 1
        /\ \A t \in team : toHandle[t] <= workUnitIndex
        /\ \A t, u \in team : toHandle[t] = toHandle[u] /\ toHandle[t] # 0 => t = u
        /\ \A x \in handled :
               /\ x[1] \in UnitAt
               /\ UnitsBefore(x[1]) + 1 <= workUnitIndex
               /\ \A u \in team \ {x[2]} : toHandle[u] # UnitsBefore(x[1]) + 1

(* No unit is dropped: its number awaits a thread, or has been handled. *)
ClaimInv ==
    /\ totalThreadCount > 1 =>
           /\ \A t \in team : workUnit[t] <= workUnitIndex + 1
           /\ \A n \in 1 .. workUnitIndex :
                  \/ \E t \in team : toHandle[t] = n /\ workUnit[t] <= n
                  \/ \E x \in handled : UnitsBefore(x[1]) + 1 = n
    /\ totalThreadCount = 1 =>
           \A k \in UnitAt : k < ip[Main] => <<k, Main>> \in handled

TaskInv ==
    /\ TypeOK /\ PlaceInv /\ OneThreadInv /\ SegmentInv /\ LaggingInv
    /\ CountInv /\ PointInv /\ SectionInv /\ UnitInv /\ ClaimInv
    /\ \A x, y \in handled : x[1] = y[1] => x[2] = y[2]

(* No wake-up is lost: the task ends, and the main thread with it. *)
TaskEnds == <>(pc[Main] = "done")
=============================================================================
