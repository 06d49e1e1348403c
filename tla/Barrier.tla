------------------------------ MODULE Barrier ------------------------------
(***************************************************************************)
(* What a parallel task promises to the threads that run it.  Each of them *)
(* executes the same script of work units and synchronisation points.      *)
(* Nobody gets past a synchronisation point before all have reached it; at *)
(* a releasing one a single thread goes on, and the others stay until it   *)
(* opens the way; the main thread finishes last.                           *)
(*                                                                         *)
(* ParallelTask is shown to implement Spec.                                *)
(***************************************************************************)
EXTENDS Naturals, Sequences

CONSTANTS
    Thread, Main,
    Scripts     \* the programs a task may run

VARIABLES
    script,     \* the program of this task
    team,       \* the threads that run it
    pos,        \* the operation each thread is at, or about to begin
    place       \* "running", "held" at a synchronisation point, "alone" in
                \* the section it guards, "finished", or "out" of the team

barrierVars == <<script, team, pos, place>>

Init ==
    /\ script \in Scripts
    /\ team \in {S \cup {Main} : S \in SUBSET Thread}
    /\ pos = [t \in Thread |-> 1]
    /\ place = [t \in Thread |-> IF t \in team THEN "running" ELSE "out"]

At(t, ops) == pos[t] \in DOMAIN script /\ script[pos[t]] \in ops

Move(t, p) ==
    /\ pos' = [pos EXCEPT ![t] = @ + 1]
    /\ place' = [place EXCEPT ![t] = p]
    /\ UNCHANGED <<script, team>>

Stay(t, p) ==
    /\ place' = [place EXCEPT ![t] = p]
    /\ UNCHANGED <<script, team, pos>>

HeldAt(u, k) == pos[u] = k /\ place[u] = "held"

Work(t) == place[t] = "running" /\ At(t, {"unit"}) /\ Move(t, "running")

Arrive(t) ==
    place[t] = "running" /\ At(t, {"sync", "main", "single"}) /\ Stay(t, "held")

(* The last thread to arrive may go on at once. *)
Pass(t) ==
    /\ place[t] \in {"running", "held"}
    /\ At(t, {"sync"})
    /\ \A u \in team \ {t} : HeldAt(u, pos[t]) \/ pos[u] > pos[t]
    /\ Move(t, "running")

GoAlone(t) ==
    /\ place[t] \in {"running", "held"}
    /\ At(t, IF t = Main THEN {"main", "single"} ELSE {"single"})
    /\ \A u \in team \ {t} : HeldAt(u, pos[t])
    /\ Stay(t, "alone")

Open(t) == place[t] = "alone" /\ Move(t, "running")

PassOpened(t) ==
    /\ place[t] = "held"
    /\ At(t, {"main", "single"})
    /\ \E u \in team : pos[u] > pos[t]
    /\ Move(t, "running")

Finish(t) ==
    /\ place[t] = "running"
    /\ pos[t] = Len(script) + 1
    /\ t = Main => \A u \in team \ {t} : place[u] = "finished"
    /\ Stay(t, "finished")

Next ==
    \E t \in team :
        \/ Work(t) \/ Arrive(t) \/ Pass(t)
        \/ GoAlone(t) \/ Open(t) \/ PassOpened(t) \/ Finish(t)

Spec == Init /\ [][Next]_barrierVars
=============================================================================
