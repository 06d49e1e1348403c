SPECIFICATION FairSpec
CONSTANTS
    Thread = {m, w1, w2}
    Main = m
    MaxLen = 3
    Scripts <- MCScripts
INVARIANTS
    AssertionsHold
    EveryUnitOnce
PROPERTIES
    ImplementsBarrier
    TaskEnds
CHECK_DEADLOCK FALSE
