\* The read/write lock: four threads, two levels of nesting.
SPECIFICATION FairSpec
CONSTANTS
    Threads = {t1, t2, t3, t4}
    NoThread = none
    MaxDepth = 2
INVARIANTS MutualExclusion OwnerKnown CountersExact NoLostWakeup
PROPERTIES ImplementsHolds NoStall
