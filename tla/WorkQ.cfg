\* Three elements, two workers by configuration and a third by workq_remove.
SPECIFICATION Spec
CONSTANTS
    Items = {i1, i2, i3}
    NoItem = NoItem
    Workers = {w1, w2, w3}
    Callers = {c1}
    max_workers = 2
    Removable = {i3}
INVARIANTS EachOnce WorkersForWork DestroyedAllDone
PROPERTIES WaitIdleCovers Progress
CHECK_DEADLOCK FALSE
