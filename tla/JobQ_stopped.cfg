\* A stop of a job that its Queued script has canceled.
SPECIFICATION Spec
CONSTANTS
    j1 = j1  j2 = j2  j3 = j3  j4 = j4
    client = client  disk = disk  tape = tape  jobres = jobres
    NoJob = NoJob  NoRes = NoRes
    Jobs = {j1, j4}
    Workers = {w1, w2}
    Resources = {client, disk, tape, jobres}
    Limit <- Limits
    RStore <- Reads
    WStore <- Writes
    Client <- Clients
    JobRes <- OneJobRes
    JobPriority <- TwoPriorities
    AllowMixed = {}
    Uncounted = {j4}
    Arrivals = {j1}
    Delays = {FALSE}
    Scripted = {j1}
    ScriptCodes = {0, 2}
    Outcomes = {"Terminated"}
    RescheduleTimes <- Once
    RescheduleOnError = {}
    Clone <- CloneOfJ1
    Commands = {"stop"}
    Stoppable = {j1, j4}
    Watched = {}
    NewPriorities = {}
    MayTerminate = FALSE
INVARIANTS RunsWithResources
SYMMETRY WorkerSymmetry
CHECK_DEADLOCK FALSE
