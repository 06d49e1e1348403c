---------------------------- MODULE WorkPackets ----------------------------
(***************************************************************************)
(* The distribution of marking work (gc/base/WorkPackets.cpp, WorkStack.cpp *)
(* and PacketList.hpp) as MM_MarkingScheme::completeScan drives it: work    *)
(* stacks with an input and an output packet, the shared lists of packets,  *)
(* overflow, and the detection that no work is left.                       *)
(*                                                                         *)
(* A packet is the number of its used slots.  The list it belongs to        *)
(* depends on that number alone, so the lists are a count per number, and   *)
(* a pop may return any packet of the list.  One operation of a list is one *)
(* step, and so is one condition that is read without a lock.               *)
(***************************************************************************)
EXTENDS Integers, Sequences, FiniteSets, SequencesExt, FiniteSetsExt

CONSTANTS
    Thread, Main,           \* the GC threads of the mark task
    Slots,                  \* _slotsInPacket
    FullPacketThreshold, SatisfactoryCapacity, MaxPacketSearch,
    Packets,                \* the packets initialize allocates
    PacketsPerBlock, MaxPackets,
    Objects,                \* live objects to mark, from the roots on
    ObjectsLeft             \* live objects to mark, from an overflow on

ASSUME PacketAssumption ==
    /\ Main \in Thread
    /\ Slots > FullPacketThreshold /\ FullPacketThreshold > 0
    /\ Packets >= 2 * Cardinality(Thread) /\ Packets <= MaxPackets

None == -1                  \* no packet
Nobody == "nobody"          \* a monitor without an owner

VARIABLES
    lists,          \* lists[f]: the shared packets with f used slots
    activePackets,
    unmarked,       \* live objects not marked yet
    toScan,         \* marked objects not scanned yet
    handler,        \* the overflow handler: MM_OverflowStandard or ...Concurrent
    overflow,       \* its flag
    behind, ahead,  \* overflowed objects; those the walk under way will meet
    walking,        \* handleOverflow is looking for them
    inputList,      \* the owner of _inputListMonitor
    inputListWaitCount, inputListDoneIndex,
    allocating,     \* the owner of _allocatingPackets
    env             \* the state of each thread

objVars == <<unmarked, toScan>>
overflowVars == <<overflow, behind, ahead, walking>>
waitVars == <<inputList, inputListWaitCount, inputListDoneIndex>>
vars == <<lists, activePackets, objVars, handler, overflowVars, waitVars,
          allocating, env>>

(* The four shared lists, as the packets that belong to them. *)
Empty == {0}
Full == {Slots}
RelativelyFull == {f \in 1 .. Slots - 1 : Slots - f < FullPacketThreshold}
NonEmpty == (1 .. Slots - 1) \ RelativelyFull

ListOf(f) == CHOOSE l \in {Empty, Full, RelativelyFull, NonEmpty} : f \in l
isEmpty(list) == \A f \in list : lists[f] = 0
inputPacketAvailable == ~(isEmpty(Full) /\ isEmpty(RelativelyFull) /\ isEmpty(NonEmpty))

Items(ls) == MapThenSumSet(LAMBDA f : f * ls[f], 0 .. Slots)
Count(ls) == MapThenSumSet(LAMBDA f : ls[f], 0 .. Slots)

Stack(place, scan, output, index) ==
    [pc |-> place, scan |-> scan, input |-> None, output |-> output, hand |-> None,
     notify |-> FALSE, ret |-> "", temps |-> <<>>, stage |-> 1, lists |-> <<>>,
     wait |-> FALSE, doneIndex |-> index]

(* The mark task begins.  A concurrent phase leaves partly filled packets   *)
(* behind; without one they are empty.                                      *)
Begin ==
    /\ lists \in [0 .. Slots -> 0 .. Packets]
    /\ Count(lists) = Packets
    /\ Items(lists) <= IF handler = "standard" THEN 0 ELSE Objects
    /\ unmarked = Objects - Items(lists) /\ toScan = Items(lists)
    /\ overflow = FALSE /\ behind = 0
    /\ inputListDoneIndex = 0
    /\ env = [t \in Thread |-> Stack("scan", "roots", None, 0)]

(* The packets have been used up once, and an object has overflowed. *)
Resume ==
    /\ \E outputs \in [Thread -> {None, 0}] :
           /\ env = [t \in Thread |-> Stack("ended", "none", outputs[t], 0)]
           /\ lists = [f \in 0 .. Slots |->
                          IF f = 0 THEN Packets - Cardinality({t \in Thread : outputs[t] = 0})
                          ELSE 0]
    /\ unmarked = ObjectsLeft /\ toScan = 1
    /\ overflow = TRUE /\ behind = 1
    /\ inputListDoneIndex = 1

Init ==
    /\ handler \in {"standard", "concurrent"}
    /\ Begin \/ Resume
    /\ activePackets = Packets
    /\ ahead = 0 /\ walking = FALSE
    /\ inputList = Nobody /\ inputListWaitCount = 0
    /\ allocating = Nobody

At(t, place) == env[t].pc = place
Goto(t, place) == env' = [env EXCEPT ![t].pc = place]

Push(f) == lists' = [lists EXCEPT ![f] = @ + 1]
PopFrom(list, f) == f \in list /\ lists[f] > 0 /\ lists' = [lists EXCEPT ![f] = @ - 1]

---------------------------------------------------------------------------
(* putPacket: whether the list is empty is read before the packet is pushed. *)

StartPut(t, e, f, ret) ==
    env' = [env EXCEPT ![t] = [e EXCEPT !.hand = f, !.ret = ret,
                                        !.pc = IF f = 0 THEN "link" ELSE "put"]]

PutLook(t) ==
    /\ At(t, "put")
    /\ env' = [env EXCEPT ![t].notify = isEmpty(ListOf(env[t].hand)), ![t].pc = "link"]
    /\ UNCHANGED <<lists, activePackets, objVars, handler, overflowVars, waitVars,
                   allocating>>

Return(e) == [e EXCEPT !.pc = e.ret, !.ret = ""]

PutLink(t) ==
    /\ At(t, "link")
    /\ Push(env[t].hand)
    /\ LET e == [env[t] EXCEPT !.hand = None, !.notify = FALSE]
       IN  env' = [env EXCEPT ![t] = IF env[t].notify THEN [e EXCEPT !.pc = "notify"]
                                                      ELSE Return(e)]
    /\ UNCHANGED <<activePackets, objVars, handler, overflowVars, waitVars, allocating>>

(* notifyWaitingThreads: nobody is told when the monitor is busy.  The count *)
(* is read before the monitor is tried and again inside: a step that sees it *)
(* 0 has nothing to do in either order.                                      *)
notifyWaitingThreads(t) ==
    /\ At(t, "notify")
    /\ IF inputListWaitCount > 0 /\ inputList = Nobody
       THEN inputList' = t /\ Goto(t, "signal")
       ELSE env' = [env EXCEPT ![t] = Return(@)] /\ UNCHANGED inputList
    /\ UNCHANGED <<lists, activePackets, objVars, handler, overflowVars,
                   inputListWaitCount, inputListDoneIndex, allocating>>

(* getPacketByOverflowing waits for the monitor instead. *)
Alert(t) ==
    /\ At(t, "alert")
    /\ inputList = Nobody
    /\ inputList' = t
    /\ Goto(t, "signal")
    /\ UNCHANGED <<lists, activePackets, objVars, handler, overflowVars,
                   inputListWaitCount, inputListDoneIndex, allocating>>

Asleep == {u \in Thread : env[u].pc = "asleep"}

Signal(t) ==
    /\ At(t, "signal")
    /\ LET back == [env EXCEPT ![t] = Return(@)]
       IN  IF inputListWaitCount > 0 /\ Asleep # {}
           THEN \E u \in Asleep : env' = [back EXCEPT ![u].pc = "awake"]
           ELSE env' = back
    /\ inputList' = Nobody
    /\ UNCHANGED <<lists, activePackets, objVars, handler, overflowVars,
                   inputListWaitCount, inputListDoneIndex, allocating>>

---------------------------------------------------------------------------
(* MM_WorkStack::push of an object that has just been marked, while the    *)
(* thread scans the roots or an object.                                    *)
Mark(t) ==
    /\ At(t, "scan") /\ unmarked > 0
    /\ unmarked' = unmarked - 1 /\ toScan' = toScan + 1
    /\ LET out == env[t].output IN
       IF out = None THEN Goto(t, "empty")
       ELSE IF out < Slots THEN env' = [env EXCEPT ![t].output = @ + 1]
       ELSE StartPut(t, [env[t] EXCEPT !.output = None], out, "empty")
    /\ UNCHANGED <<lists, activePackets, handler, overflowVars, waitVars,
                   allocating>>

ScanEnd(t) ==
    /\ At(t, "scan")
    /\ toScan' = toScan - IF env[t].scan = "roots" THEN 0 ELSE 1
    /\ env' = [env EXCEPT ![t].scan = "none",
                          ![t].pc = IF env[t].scan = "walk" THEN "walk" ELSE "pop"]
    /\ UNCHANGED <<lists, activePackets, unmarked, handler, overflowVars, waitVars,
                   allocating>>

---------------------------------------------------------------------------
(* getOutputPacket.  The packet found takes the object that did not fit. *)

Output(e, f) == [e EXCEPT !.output = f + 1, !.stage = 1, !.temps = <<>>, !.pc = "scan"]

TakeEmpty(t, otherwise) ==
    IF isEmpty(Empty)
    THEN env' = [env EXCEPT ![t] = otherwise] /\ UNCHANGED lists
    ELSE env' = [env EXCEPT ![t] = Output(@, 0)] /\ PopFrom(Empty, 0)

OutputEmpty(t) ==
    /\ At(t, "empty")
    /\ TakeEmpty(t, [env[t] EXCEPT !.pc = "least"])
    /\ UNCHANGED <<activePackets, objVars, handler, overflowVars, waitVars, allocating>>

(* getLeastFullPacket, which getOutputPacket calls with 2 required slots. *)
RequiredSlots == 2
freeSlots(f) == Slots - f
maxCapacity(temps) == Max({RequiredSlots - 1} \cup {freeSlots(temps[i]) : i \in DOMAIN temps})

Satisfied(temps, f) ==
    \/ Len(temps) + 1 = MaxPacketSearch
    \/ IF freeSlots(f) > maxCapacity(temps)
       THEN freeSlots(f) >= Max({SatisfactoryCapacity, RequiredSlots})
       ELSE maxCapacity(temps) >= FullPacketThreshold /\ freeSlots(f) < FullPacketThreshold

LeastFrom(t, list, otherwise) ==
    IF isEmpty(list)
    THEN Goto(t, otherwise) /\ UNCHANGED lists
    ELSE \E f \in list :
             /\ PopFrom(list, f)
             /\ env' = [env EXCEPT ![t].temps = Append(@, f),
                            ![t].pc = IF Satisfied(env[t].temps, f) THEN "back" ELSE "least"]

LeastFull(t) ==
    /\ \/ At(t, "least") /\ LeastFrom(t, NonEmpty, "least_full")
       \/ At(t, "least_full") /\ LeastFrom(t, RelativelyFull, "back")
    /\ UNCHANGED <<activePackets, objVars, handler, overflowVars, waitVars, allocating>>

(* Mutant: the packet found last is selected, whatever its capacity. *)
selectedLast(temps) == Len(temps)

(* The index of the first packet with the greatest capacity, 0 if no packet *)
(* has the slots required.                                                  *)
selected(temps) ==
    LET best == {i \in DOMAIN temps : freeSlots(temps[i]) = maxCapacity(temps)}
    IN  IF maxCapacity(temps) < RequiredSlots THEN 0 ELSE Min(best)

(* overflowItem and emptyToOverflow.  During a walk an object may be put    *)
(* ahead of it or behind it.                                                *)
Overflowed(n) ==
    /\ overflow' = TRUE
    /\ \E k \in 0 .. n : /\ ~walking => k = 0
                         /\ ahead' = ahead + k
                         /\ behind' = behind + (n - k)
    /\ UNCHANGED walking

(* What getOutputPacket tries after its first, second and third search. *)
Unsuccessful(t) ==
    LET e == [env[t] EXCEPT !.stage = (@ % 3) + 1]
    IN  /\ env' = [env EXCEPT ![t] =
                      [e EXCEPT !.pc = <<"grow", "overflowing", "scan">>[env[t].stage]]]
        /\ IF env[t].stage = 3 THEN Overflowed(1) ELSE UNCHANGED overflowVars

(* Mutant: they are forgotten. *)
LeastBackDrops(t) ==
    /\ At(t, "back")
    /\ LET temps == env[t].temps
       IN  IF selected(temps) # 0
           THEN env' = [env EXCEPT ![t] = Output(@, temps[selected(temps)])]
                /\ UNCHANGED overflowVars
           ELSE Unsuccessful(t)
    /\ UNCHANGED <<lists, activePackets, objVars, handler, waitVars, allocating>>

(* The packets not selected go back one by one, the last first. *)
LeastBack(t) ==
    /\ At(t, "back")
    /\ LET temps == env[t].temps
           rest == DOMAIN temps \ {selected(temps)}
           e == [env[t] EXCEPT !.temps = RemoveAt(temps, Max(rest))]
       IN  IF rest # {} THEN StartPut(t, e, temps[Max(rest)], "back") /\ UNCHANGED overflowVars
           ELSE IF temps # <<>>
                THEN env' = [env EXCEPT ![t] = Output(@, temps[1])] /\ UNCHANGED overflowVars
                ELSE Unsuccessful(t)
    /\ UNCHANGED <<lists, activePackets, objVars, handler, waitVars, allocating>>

(* getPacketByAdddingWorkPacketBlock and initWorkPacketsBlock. *)
Grow(t) ==
    /\ At(t, "grow") /\ allocating = Nobody
    /\ TakeEmpty(t, [env[t] EXCEPT !.pc = IF activePackets < MaxPackets THEN "block"
                                                                       ELSE "least"])
    /\ allocating' = IF env'[t].pc = "block" THEN t ELSE Nobody
    /\ UNCHANGED <<activePackets, objVars, handler, overflowVars, waitVars>>

initWorkPacketsBlock(t) ==
    /\ At(t, "block")
    /\ \/ /\ lists' = [lists EXCEPT ![0] = @ + PacketsPerBlock]
          /\ activePackets' = activePackets + PacketsPerBlock
          /\ Goto(t, "fetch") /\ UNCHANGED allocating
       \/ Goto(t, "least") /\ allocating' = Nobody /\ UNCHANGED <<lists, activePackets>>
    /\ UNCHANGED <<objVars, handler, overflowVars, waitVars>>

Fetch(t) ==
    /\ At(t, "fetch")
    /\ TakeEmpty(t, [env[t] EXCEPT !.pc = "least"])
    /\ allocating' = Nobody
    /\ UNCHANGED <<activePackets, objVars, handler, overflowVars, waitVars>>

(* getPacketByOverflowing: a full packet is emptied, or another searched. *)
Overflowing(t) ==
    /\ At(t, "overflowing")
    /\ IF isEmpty(Full)
       THEN Goto(t, "spare") /\ UNCHANGED <<lists, overflowVars>>
       ELSE /\ PopFrom(Full, Slots)
            /\ Overflowed(Slots)
            /\ env' = [env EXCEPT ![t] = [Output(@, 0) EXCEPT !.pc = "alert", !.ret = "scan"]]
    /\ UNCHANGED <<activePackets, objVars, handler, waitVars, allocating>>

Spare(t) ==
    /\ At(t, "spare")
    /\ TakeEmpty(t, [env[t] EXCEPT !.pc = "least"])
    /\ UNCHANGED <<activePackets, objVars, handler, overflowVars, waitVars, allocating>>

---------------------------------------------------------------------------
(* MM_WorkStack::pop, popFailed and retrieveInputPacket. *)

Pop(t) ==
    /\ At(t, "pop")
    /\ LET e == env[t] IN
       IF e.input > 0
       THEN env' = [env EXCEPT ![t] = [e EXCEPT !.input = @ - 1, !.scan = "packet", !.pc = "scan"]]
       ELSE IF e.input = 0 THEN StartPut(t, [e EXCEPT !.input = None], 0, "look")
       ELSE Goto(t, "look")
    /\ UNCHANGED <<lists, activePackets, objVars, handler, overflowVars, waitVars,
                   allocating>>

(* Mutant: the output packet is not looked at. *)
NoInputKeeps(t) ==
    IF env[t].wait THEN Goto(t, "look")
    ELSE env' = [env EXCEPT ![t] = [@ EXCEPT !.wait = TRUE, !.pc = "look",
                                             !.doneIndex = inputListDoneIndex]]

(* There is no input packet: the output packet takes its place, or the      *)
(* thread goes to wait for one (getInputPacket), and looks again first.     *)
NoInput(t) ==
    LET e == env[t] IN
    IF e.wait THEN Goto(t, "look")
    ELSE IF e.output > 0
         THEN env' = [env EXCEPT ![t] = [e EXCEPT !.input = e.output, !.output = None, !.pc = "pop"]]
         ELSE env' = [env EXCEPT ![t] = [e EXCEPT !.wait = TRUE, !.pc = "look",
                                                  !.doneIndex = inputListDoneIndex]]

(* getInputPacketNoWait. *)
Look(t) ==
    /\ At(t, "look")
    /\ IF inputPacketAvailable THEN Goto(t, "choose")
       ELSE IF env[t].wait THEN Goto(t, "enter") ELSE NoInput(t)
    /\ UNCHANGED <<lists, activePackets, objVars, handler, overflowVars, waitVars,
                   allocating>>

Choose(t) ==
    /\ At(t, "choose")
    /\ LET order == <<Full, RelativelyFull, NonEmpty>>
           scarce == ~isEmpty(NonEmpty) /\ lists[0] < activePackets \div 4
       IN  env' = [env EXCEPT ![t].lists = IF scarce THEN Reverse(order) ELSE order,
                              ![t].pc = "get"]
    /\ UNCHANGED <<lists, activePackets, objVars, handler, overflowVars, waitVars,
                   allocating>>

Get(t) ==
    /\ At(t, "get")
    /\ LET ls == env[t].lists IN
       IF ls = <<>> THEN NoInput(t) /\ UNCHANGED lists
       ELSE IF isEmpty(Head(ls))
            THEN env' = [env EXCEPT ![t].lists = Tail(@)] /\ UNCHANGED lists
            ELSE \E f \in Head(ls) :
                     /\ PopFrom(Head(ls), f)
                     /\ env' = [env EXCEPT ![t] = [@ EXCEPT !.input = f, !.wait = FALSE,
                                                            !.lists = <<>>, !.pc = "more"]]
    /\ UNCHANGED <<activePackets, objVars, handler, overflowVars, waitVars, allocating>>

More(t) ==
    /\ At(t, "more")
    /\ IF inputListWaitCount > 0 /\ inputPacketAvailable
       THEN env' = [env EXCEPT ![t].pc = "notify", ![t].ret = "pop"]
       ELSE Goto(t, "pop")
    /\ UNCHANGED <<lists, activePackets, objVars, handler, overflowVars, waitVars,
                   allocating>>

---------------------------------------------------------------------------
(* getInputPacket, from the entry of its monitor on. *)

getThreadCount == Cardinality(Thread)
Done(t) == inputListDoneIndex # env[t].doneIndex
Exit(e) == [e EXCEPT !.wait = FALSE, !.pc = "ended"]

Enter(t) ==
    /\ At(t, "enter") /\ inputList = Nobody
    /\ IF Done(t)
       THEN env' = [env EXCEPT ![t] = Exit(@)] /\ UNCHANGED <<inputList, inputListWaitCount>>
       ELSE /\ inputList' = t
            /\ inputListWaitCount' = inputListWaitCount + 1
            /\ Goto(t, "last")
    /\ UNCHANGED <<lists, activePackets, objVars, handler, overflowVars,
                   inputListDoneIndex, allocating>>

(* Mutant: the waiting threads are not told. *)
DeclareEndSilent(t) ==
    /\ At(t, "last")
    /\ IF inputListWaitCount = getThreadCount /\ ~inputPacketAvailable
       THEN /\ inputListDoneIndex' = inputListDoneIndex + 1
            /\ inputListWaitCount' = 0
            /\ inputList' = Nobody
            /\ env' = [env EXCEPT ![t] = Exit(@)]
       ELSE Goto(t, "test") /\ UNCHANGED waitVars
    /\ UNCHANGED <<lists, activePackets, objVars, handler, overflowVars, allocating>>

(* The last thread to come declares the end of the work, if none is left. *)
DeclareEnd(t) ==
    /\ At(t, "last")
    /\ IF inputListWaitCount = getThreadCount /\ ~inputPacketAvailable
       THEN /\ inputListDoneIndex' = inputListDoneIndex + 1
            /\ inputListWaitCount' = 0
            /\ inputList' = Nobody
            /\ env' = [u \in Thread |-> IF u = t THEN Exit(env[t])
                                        ELSE IF u \in Asleep THEN [env[u] EXCEPT !.pc = "awake"]
                                        ELSE env[u]]
       ELSE Goto(t, "test") /\ UNCHANGED waitVars
    /\ UNCHANGED <<lists, activePackets, objVars, handler, overflowVars, allocating>>

(* The wait loop: a thread waits, or leaves with the end or for a packet. *)
Test(t) ==
    /\ At(t, "test")
    /\ IF ~inputPacketAvailable /\ ~Done(t)
       THEN Goto(t, "sleep") /\ UNCHANGED <<inputList, inputListWaitCount>>
       ELSE /\ inputList' = Nobody
            /\ IF Done(t)
               THEN env' = [env EXCEPT ![t] = Exit(@)] /\ UNCHANGED inputListWaitCount
               ELSE Goto(t, "look") /\ inputListWaitCount' = inputListWaitCount - 1
    /\ UNCHANGED <<lists, activePackets, objVars, handler, overflowVars,
                   inputListDoneIndex, allocating>>

Sleep(t) ==
    /\ At(t, "sleep")
    /\ inputList' = Nobody
    /\ Goto(t, "asleep")
    /\ UNCHANGED <<lists, activePackets, objVars, handler, overflowVars,
                   inputListWaitCount, inputListDoneIndex, allocating>>

Awake(t) ==
    /\ At(t, "awake") /\ inputList = Nobody
    /\ inputList' = t
    /\ Goto(t, "test")
    /\ UNCHANGED <<lists, activePackets, objVars, handler, overflowVars,
                   inputListWaitCount, inputListDoneIndex, allocating>>

---------------------------------------------------------------------------
(* The loop of completeScan: handleWorkPacketOverflow reads the flag, and   *)
(* handleOverflow begins with a synchronisation point of the task.          *)
handleWorkPacketOverflow(t) ==
    /\ At(t, "ended")
    /\ Goto(t, IF overflow THEN "sync" ELSE "flush")
    /\ UNCHANGED <<lists, activePackets, objVars, handler, overflowVars, waitVars,
                   allocating>>

AllAt(S, place) == \A u \in S : At(u, place)
Send(S, place) == env' = [u \in Thread |-> IF u \in S THEN [env[u] EXCEPT !.pc = place]
                                                      ELSE env[u]]

(* The main thread clears the flag before the walk; the standard handler    *)
(* lets it walk alone, the concurrent one releases the others first.        *)
WalkBegin ==
    /\ AllAt(Thread, "sync") /\ ~walking
    /\ overflow' = FALSE
    /\ ahead' = behind /\ behind' = 0
    /\ walking' = TRUE
    /\ Send(IF handler = "standard" THEN {Main} ELSE Thread, "walk")
    /\ UNCHANGED <<lists, activePackets, objVars, handler, waitVars, allocating>>

WalkNext(t) ==
    /\ At(t, "walk") /\ ahead > 0
    /\ ahead' = ahead - 1
    /\ env' = [env EXCEPT ![t].pc = "scan", ![t].scan = "walk"]
    /\ UNCHANGED <<lists, activePackets, objVars, handler, overflow, behind, walking,
                   waitVars, allocating>>

(* A thread that has cleaned its share of the heap waits for the others. *)
WalkEnd(t) ==
    /\ At(t, "walk")
    /\ ahead = 0 \/ (handler = "concurrent" /\ ~AllAt(Thread \ {t}, "walked"))
    /\ Goto(t, "walked")
    /\ UNCHANGED <<lists, activePackets, objVars, handler, overflowVars, waitVars,
                   allocating>>

(* Mutant: the flag is cleared after the walk. *)
ReleaseClears ==
    /\ walking
    /\ AllAt(IF handler = "standard" THEN {Main} ELSE Thread, "walked")
    /\ walking' = FALSE /\ overflow' = FALSE
    /\ Send(Thread, "pop")
    /\ UNCHANGED <<lists, activePackets, objVars, handler, behind, ahead,
                   waitVars, allocating>>

(* The synchronisation point after the walk opens. *)
Release ==
    /\ walking
    /\ AllAt(IF handler = "standard" THEN {Main} ELSE Thread, "walked")
    /\ walking' = FALSE
    /\ Send(Thread, "pop")
    /\ UNCHANGED <<lists, activePackets, objVars, handler, overflow, behind, ahead,
                   waitVars, allocating>>

(* MM_WorkStack::flush, at the end of the mark task. *)
Flush(t) ==
    /\ At(t, "flush")
    /\ LET e == env[t] IN
       IF e.input # None THEN StartPut(t, [e EXCEPT !.input = None], e.input, "flush")
       ELSE IF e.output # None THEN StartPut(t, [e EXCEPT !.output = None], e.output, "done")
       ELSE Goto(t, "done")
    /\ UNCHANGED <<lists, activePackets, objVars, handler, overflowVars, waitVars,
                   allocating>>

---------------------------------------------------------------------------
Step(t) ==
    \/ PutLook(t) \/ PutLink(t) \/ notifyWaitingThreads(t) \/ Alert(t) \/ Signal(t)
    \/ Mark(t) \/ ScanEnd(t)
    \/ OutputEmpty(t) \/ LeastFull(t) \/ LeastBack(t)
    \/ Grow(t) \/ initWorkPacketsBlock(t) \/ Fetch(t) \/ Overflowing(t) \/ Spare(t)
    \/ Pop(t) \/ Look(t) \/ Choose(t) \/ Get(t) \/ More(t)
    \/ Enter(t) \/ DeclareEnd(t) \/ Test(t) \/ Sleep(t) \/ Awake(t)
    \/ handleWorkPacketOverflow(t) \/ WalkNext(t) \/ WalkEnd(t) \/ Flush(t)

Next == (\E t \in Thread : Step(t)) \/ WalkBegin \/ Release

Spec == Init /\ [][Next]_vars

(* The scheduler runs every GC thread; the synchronisation points open when *)
(* all threads have come (ParallelTask).                                    *)
FairSpec == /\ Spec
            /\ \A t \in Thread : WF_vars(Step(t))
            /\ WF_vars(WalkBegin) /\ WF_vars(Release)

---------------------------------------------------------------------------
TypeOK ==
    /\ lists \in [0 .. Slots -> Nat] /\ activePackets \in Nat
    /\ unmarked \in Nat /\ toScan \in Nat
    /\ behind \in Nat /\ ahead \in Nat
    /\ inputList \in Thread \cup {Nobody} /\ allocating \in Thread \cup {Nobody}
    /\ inputListWaitCount \in 0 .. getThreadCount
    /\ \A t \in Thread : env[t].input \in None .. Slots /\ env[t].output \in None .. Slots

HeldBy(t) ==
    LET one(f) == IF f = None THEN 0 ELSE 1
    IN  one(env[t].input) + one(env[t].output) + one(env[t].hand) + Len(env[t].temps)

(* No packet is lost or doubled, however many threads move packets between  *)
(* their stacks and the lists; and the wait count is the number of threads  *)
(* in getInputPacket's monitor section or wait, woken ones included, that   *)
(* have not been told of an end.                                            *)
CountersExact ==
    /\ TypeOK
    /\ activePackets = Count(lists) + MapThenSumSet(HeldBy, Thread)
    /\ inputListWaitCount =
          Cardinality({t \in Thread : /\ env[t].pc \in {"last", "test", "sleep", "asleep", "awake"}
                                      /\ ~Done(t)})

(* completeScan is left only when every object that was marked has been     *)
(* scanned, overflowed ones included ("a thread will not exit this method   *)
(* until all threads have entered and all work packets are empty").         *)
NoWorkLost ==
    \A t \in Thread : env[t].pc \in {"flush", "done"} => toScan = 0

(* The end is declared only when no packet anywhere holds work.             *)
DoneIsDone ==
    [][inputListDoneIndex' # inputListDoneIndex =>
          /\ ~inputPacketAvailable
          /\ \A t \in Thread : /\ env[t].scan = "none"
                               /\ env[t].input <= 0 /\ env[t].output <= 0
                               /\ env[t].hand <= 0 /\ env[t].temps = <<>>]_vars

(* "Output packets must guarantee at least 2 free entries": a packet found  *)
(* for output has room for two, so that the push that follows cannot fail.  *)
RoomForTwo ==
    [][\A t \in Thread :
          env[t].pc # "scan" /\ env'[t].output \notin {None, env[t].output}
              => env'[t].output - 1 <= Slots - 2]_vars

(* Every thread leaves completeScan, although notifications are dropped.    *)
EveryoneLeaves == <>(\A t \in Thread : env[t].pc = "done")
=============================================================================
