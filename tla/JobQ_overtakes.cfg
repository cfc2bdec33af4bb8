\* A better job joins a mix and is overtaken by one in between (see README).
SPECIFICATION Spec
CONSTANTS
    j1 = j1  j2 = j2  j3 = j3  j4 = j4
    client = client  disk = disk  tape = tape  jobres = jobres
    NoJob = NoJob  NoRes = NoRes
    Jobs = {j1, j2, j3}
    Workers = {w1, w2}
    Resources = {client, disk, tape, jobres}
    Limit <- Limits
    RStore <- Reads
    WStore <- Writes
    Client <- Clients
    JobRes <- OneJobRes
    JobPriority <- Between
    AllowMixed = {j1, j3}
    Uncounted = {}
    Arrivals = {j1, j2, j3}
    Delays = {FALSE}
    Scripted = {}
    ScriptCodes = {}
    Outcomes = {"Terminated"}
    RescheduleTimes <- Once
    RescheduleOnError = {}
    Clone <- NoClone
    Commands = {"cancel"}
    Stoppable = {j1, j2, j3}
    Watched = {}
    NewPriorities = {}
    MayTerminate = FALSE
PROPERTIES HigherPriorityFirst
SYMMETRY WorkerSymmetry
CHECK_DEADLOCK FALSE
