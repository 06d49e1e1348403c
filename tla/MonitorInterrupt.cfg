SPECIFICATION Spec
CONSTANTS
    Thread = {t1, t2, s1}
    NoThread = NoThread
    SpinWakeControl = FALSE
    MaxSpinThreads = 1
    MaxWakeThreads = 1
    TryEnterSpin = FALSE
    Modes = {"enter"}
    SpuriousWakes = TRUE
    ForkAllowed = FALSE
    MaxCount = 1
    FastNotify = FALSE
    WaitKinds = {{"INTERRUPTABLE", "ABORTABLE"}}
    TimedWaits = TRUE
    MaxWaitNumber = 3
    Server = {s1}
    Kinds = {"INTERRUPTED", "PRIORITY_INTERRUPTED"}
    MaxInterrupts = 2
SYMMETRY Symmetry
CHECK_DEADLOCK FALSE
PROPERTY InterruptFlagsAgree
PROPERTY ImplementsMonitor
