SPECIFICATION FairLockSpec
CONSTANTS
    Thread = {t1, t2, t3}
    NoThread = NoThread
    SpinWakeControl = TRUE
    MaxSpinThreads = 1
    MaxWakeThreads = 1
    TryEnterSpin = FALSE
    Modes = {"try", "enter"}
    SpuriousWakes = TRUE
    ForkAllowed = FALSE
    MaxCount = 2
CHECK_DEADLOCK FALSE
INVARIANT SpinnersCounted
PROPERTY EveryEnterReturns
