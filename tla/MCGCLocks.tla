----------------------------- MODULE MCGCLocks -----------------------------
(***************************************************************************)
(* The collector's two lightweight locks.  They share no state, so each    *)
(* behaviour uses one of them: `lock' says which.                          *)
(***************************************************************************)
EXTENDS GCSpinlock, LightweightRWLock

VARIABLES
    lock,       \* the lock this behaviour is about
    clients     \* "coming": a thread may call; "leaving": it may only finish

vars == <<spinVars, rwVars, lock, clients>>

Init ==
    /\ SpinInit
    /\ RWInit
    /\ lock \in {"spinlock", "rwlock"}
    /\ clients = "coming"

Call(t) ==
    /\ clients = "coming"
    /\ \/ lock = "spinlock" /\ SpinCall(t) /\ UNCHANGED rwVars
       \/ lock = "rwlock" /\ RWCall(t) /\ UNCHANGED spinVars
    /\ UNCHANGED <<lock, clients>>

Step(t) ==
    /\ \/ SpinStep(t) /\ UNCHANGED rwVars
       \/ RWStep(t) /\ UNCHANGED spinVars
    /\ UNCHANGED <<lock, clients>>

Close ==
    /\ clients = "coming"
    /\ clients' = "leaving"
    /\ UNCHANGED <<spinVars, rwVars, lock>>

Next == (\E t \in Thread : Call(t) \/ Step(t)) \/ Close

(***************************************************************************)
(* Every thread runs, and a lock that is held is released.                 *)
(***************************************************************************)
FairSpec == Init /\ [][Next]_vars /\ \A t \in Thread : WF_vars(Step(t))

(***************************************************************************)
(* No call waits for ever: once the threads make no new calls, every       *)
(* thread that was spinning, sleeping on the semaphore or retrying a swap  *)
(* gets its lock and gives it back.  A release that found a sleeper and    *)
(* did not post, or a writer that stayed counted as waiting, would leave   *)
(* somebody behind.                                                        *)
(***************************************************************************)
EveryLockCallEnds ==
    clients = "leaving"
      ~> \A t \in Thread : spinPc[t] = "idle" /\ rwPc[t] = "idle"
=============================================================================
