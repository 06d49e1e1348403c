SPECIFICATION FairSpec
CONSTANTS
    Thread = {t1, t2, s1}
    NoThread = NoThread
    SpinWakeControl = FALSE
    MaxSpinThreads = 1
    MaxWakeThreads = 1
    TryEnterSpin = FALSE
    Modes = {"abortable"}
    SpuriousWakes = FALSE
    ForkAllowed = FALSE
    MaxCount = 2
    FastNotify = TRUE
    WaitKinds = {{"ABORTABLE"}}
    TimedWaits = FALSE
    MaxWaitNumber = 3
    Server = {s1}
    Kinds = {"ABORTED"}
    MaxInterrupts = 1
CHECK_DEADLOCK FALSE
INVARIANT WakeHasReason
PROPERTY ImplementsMonitor
PROPERTY AbortEndsBlocking
PROPERTY EveryoneFinishes
