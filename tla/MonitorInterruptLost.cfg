SPECIFICATION FairSpec
CONSTANTS
    Thread = {t1, t2, s1}
    NoThread = NoThread
    SpinWakeControl = FALSE
    MaxSpinThreads = 1
    MaxWakeThreads = 1
    TryEnterSpin = FALSE
    Modes = {"enter"}
    SpuriousWakes = FALSE
    ForkAllowed = FALSE
    MaxCount = 1
    FastNotify = FALSE
    WaitKinds = {{"INTERRUPTABLE", "ABORTABLE"}}
    TimedWaits = FALSE
    MaxWaitNumber = 3
    Server = {s1}
    Kinds = {"INTERRUPTED"}
    MaxInterrupts = 1
CHECK_DEADLOCK FALSE
PROPERTY InterruptEndsWait
