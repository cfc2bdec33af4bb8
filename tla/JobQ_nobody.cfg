\* Comment: at least one server looks at the queue; with Queued scripts.
SPECIFICATION Spec
CONSTANTS
    j1 = j1  j2 = j2  j3 = j3  j4 = j4
    client = client  disk = disk  tape = tape  jobres = jobres
    NoJob = NoJob  NoRes = NoRes
    Jobs = {j1, j2}
    Workers = {w1}
    Resources = {client, disk, tape, jobres}
    Limit <- Limits
    RStore <- Reads
    WStore <- Writes
    Client <- Clients
    JobRes <- OneJobRes
    JobPriority <- TwoPriorities
    AllowMixed = {}
    Uncounted = {}
    Arrivals = {j1, j2}
    Delays = {FALSE}
    Scripted = {j2}
    ScriptCodes = {0, 1}
    Outcomes = {"Terminated"}
    RescheduleTimes <- Once
    RescheduleOnError = {}
    Clone <- NoClone
    Commands = {}
    Stoppable = {j1, j2}
    Watched = {}
    NewPriorities = {}
    MayTerminate = FALSE
INVARIANTS SomeServerLooks
SYMMETRY WorkerSymmetry
CHECK_DEADLOCK FALSE
