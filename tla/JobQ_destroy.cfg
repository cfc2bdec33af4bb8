\* Shutdown of the queue returns.
SPECIFICATION FairSpec
CONSTANTS
    j1 = j1  j2 = j2  j3 = j3  j4 = j4
    client = client  disk = disk  tape = tape  jobres = jobres
    NoJob = NoJob  NoRes = NoRes
    Jobs = {j1, j2}
    Workers = {w1, w2}
    Resources = {client, disk, tape, jobres}
    Limit <- Limits
    RStore <- Reads
    WStore <- Writes
    Client <- Clients
    JobRes <- OneJobRes
    JobPriority <- TwoPriorities
    AllowMixed = {}
    Uncounted = {}
    Arrivals = {j1, j2}
    Delays = {FALSE}
    Scripted = {}
    ScriptCodes = {}
    Outcomes = {"Terminated"}
    RescheduleTimes <- Once
    RescheduleOnError = {}
    Clone <- NoClone
    Commands = {}
    Stoppable = {j1, j2}
    Watched = {}
    NewPriorities = {}
    MayTerminate = TRUE
PROPERTIES DestroyCompletes
CHECK_DEADLOCK FALSE
