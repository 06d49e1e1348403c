SPECIFICATION FairWaitSpec
CONSTANTS
    Thread = {t1, t2, t3}
    NoThread = NoThread
    SpinWakeControl = TRUE
    MaxSpinThreads = 1
    MaxWakeThreads = 1
    TryEnterSpin = FALSE
    Modes = {"enter"}
    SpuriousWakes = TRUE
    ForkAllowed = FALSE
    MaxCount = 1
    FastNotify = TRUE
    WaitKinds = {{}}
    TimedWaits = TRUE
    MaxWaitNumber = 3
CHECK_DEADLOCK FALSE
INVARIANT QueuesAgree
PROPERTY ImplementsMonitor
PROPERTY NotifiedWaitReturns
