SPECIFICATION FairSpec
CONSTANTS
    MaxThreads = 4
    HybridBound = 16
    MaxTasks = 3
INVARIANTS
    AssertionsHold
    TaskOutlivesWorkers
    SlotsAccounted
    NobodyLeft
PROPERTIES
    EveryOperationEnds
CHECK_DEADLOCK FALSE
