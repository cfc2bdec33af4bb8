\* The lock of a transfer and that of the list, taken in both orders (see README).
SPECIFICATION XferSpec
CONSTANTS
    p1 = p1
    Items = {1, 2}
    NoItem = 0
    Workers = {w1, w2}
    Callers = {}
    max_workers = 2
    Jobs = {j1, j2}
    Part <- SamePart
    Download = {p1}
    Viewers = {v1}
    NoThread = NoThread
    MaxRetries = 1
    MaxViews = 1
INVARIANTS NoLockCycle
CHECK_DEADLOCK FALSE
