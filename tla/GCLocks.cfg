\* Three threads that use the spinlock, or the readers-writer lock.
SPECIFICATION FairSpec
CONSTANTS
    Thread = {t1, t2, t3}
    MaxReaders = 4
INVARIANTS
    SpinExclusion
    RWExclusion
PROPERTIES
    WriterPriority
    EveryLockCallEnds
CHECK_DEADLOCK FALSE
