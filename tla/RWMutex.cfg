SPECIFICATION FairSpec
CONSTANTS
    Thread = {t1, t2, t3}
    NoThread = NoThread
    MaxHold = 2
    ForkAllowed = TRUE
INVARIANTS
    StatusCountsHolders
    WriterExcludesAll
    NoWaiterForgotten
PROPERTIES
    EveryCallReturns
CHECK_DEADLOCK FALSE
