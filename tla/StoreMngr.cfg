\* Two backups, a restore and a copy on two storages.
SPECIFICATION Spec
CONSTANTS
    b1 = b1  b2 = b2  r = r  c = c
    disk = disk  tape = tape  NoStore = NoStore
    Jobs = {b1, b2, r, c}
    Storages = {disk, tape}
    MaxConcurrentJobs <- Limits
    MaxConcurrentReadJobs <- ReadLimits
    Kind <- KindOf
    RGroup <- ReadGroups
    WGroup <- WriteGroups
    Policy <- Policies
    Bootstrap <- Volumes
    Silent = {}
    Reschedulable = {b1}
INVARIANTS StoresCounted LimitRespected NoneUncounted
CHECK_DEADLOCK FALSE
