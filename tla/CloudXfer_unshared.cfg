\* Each job moves a part of its own: j1 downloads, j2 uploads.
SPECIFICATION XferSpec
CONSTANTS
    p1 = p1
    Items = {1, 2}
    NoItem = 0
    Workers = {w1, w2}
    Callers = {}
    max_workers = 2
    Jobs = {j1, j2}
    Part <- OwnPart
    Download = {j1}
    Viewers = {v1}
    NoThread = NoThread
    MaxRetries = 1
    MaxViews = 1
INVARIANTS DeletedUnshared NoLockCycle CancelOwnOnly
CHECK_DEADLOCK FALSE
