SPECIFICATION FairLockSpec
CONSTANTS
    Thread = {t1, t2, t3}
    NoThread = NoThread
    SpinWakeControl = FALSE
    MaxSpinThreads = 1
    MaxWakeThreads = 1
    TryEnterSpin = TRUE
    Modes = {"try", "enter"}
    SpuriousWakes = TRUE
    ForkAllowed = TRUE
    MaxCount = 2
CHECK_DEADLOCK FALSE
INVARIANT Exclusion
INVARIANT NobodySleepsOnFreeMonitor
PROPERTY EveryEnterReturns
