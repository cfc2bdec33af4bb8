\* A restore keeps a selected storage that acquire_resources found full.
SPECIFICATION Spec
CONSTANTS
    b1 = b1  b2 = b2  r = r  c = c
    disk = disk  tape = tape  NoStore = NoStore
    Jobs = {b1, r}
    Storages = {disk, tape}
    MaxConcurrentJobs <- Limits
    MaxConcurrentReadJobs <- ReadLimits
    Kind <- KindOf
    RGroup <- ReadGroups
    WGroup <- WriteGroups
    Policy <- Policies
    Bootstrap <- Volumes
    Silent = {}
    Reschedulable = {b1}
INVARIANT SelectedIsListed
CHECK_DEADLOCK FALSE
