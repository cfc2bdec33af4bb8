\* Two jobs share a part that is downloaded.
SPECIFICATION XferSpec
CONSTANTS
    p1 = p1
    Items = {1, 2}
    NoItem = 0
    Workers = {w1, w2}
    Callers = {}
    max_workers = 2
    Jobs = {j1, j2}
    Part <- SamePart
    Download = {p1}
    Viewers = {v1}
    NoThread = NoThread
    MaxRetries = 1
    MaxViews = 1
INVARIANTS QueuedOnce UseCounts StatsExact
PROPERTIES JobsEnd
CHECK_DEADLOCK FALSE
