CONSTANTS
    t1 = t1
    t2 = t2
    t3 = t3
    Tasks <- ThreeTasks
    Kinds = {"concurrent", "sequential", "options"}
    Limits <- OneOrTwoSlots
    MaxStarts = 2
    MaxAborts = 2
SPECIFICATION FairSpec
INVARIANTS
    EachTaskHasItsPlace
    FinishesOnce
    PolicyKept
PROPERTIES
    SuccessIsEarned
    EventuallyEnds
    PoolSpec
CHECK_DEADLOCK FALSE
