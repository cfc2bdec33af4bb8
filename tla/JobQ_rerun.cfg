\* Start times, Queued scripts, failures, re-runs, stop, watchdog, shutdown.
SPECIFICATION Spec
CONSTANTS
    j1 = j1  j2 = j2  j3 = j3  j4 = j4
    client = client  disk = disk  tape = tape  jobres = jobres
    NoJob = NoJob  NoRes = NoRes
    Jobs = {j1, j4}
    Workers = {w1, w2}
    Resources = {client, disk, tape, jobres}
    Limit <- Limits
    RStore <- Reads
    WStore <- Writes
    Client <- Clients
    JobRes <- OneJobRes
    JobPriority <- TwoPriorities
    AllowMixed = {}
    Uncounted = {j4}
    Arrivals = {j1}
    Delays = {TRUE, FALSE}
    Scripted = {j1}
    ScriptCodes = {0, 1, 2, 3}
    Outcomes = {"Terminated", "ErrorTerminated", "Incomplete"}
    RescheduleTimes <- Once
    RescheduleOnError = {j1}
    Clone <- CloneOfJ1
    Commands = {"cancel", "stop"}
    Stoppable = {j1}
    Watched = {j4}
    NewPriorities = {30}
    MayTerminate = TRUE
INVARIANTS UseCounts
PROPERTIES DestroyedQuiet
SYMMETRY WorkerSymmetry
CHECK_DEADLOCK FALSE
