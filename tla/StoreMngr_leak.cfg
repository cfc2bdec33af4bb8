\* A storage whose free space cannot be queried is dropped from the list
\* after it was counted.
SPECIFICATION Spec
CONSTANTS
    b1 = b1  b2 = b2  r = r  c = c
    disk = disk  tape = tape  NoStore = NoStore
    Jobs = {b1, b2}
    Storages = {disk, tape}
    MaxConcurrentJobs <- Limits
    MaxConcurrentReadJobs <- ReadLimits
    Kind <- KindOf
    RGroup <- ReadGroups
    WGroup <- WriteGroups
    Policy <- Policies
    Bootstrap <- Volumes
    Silent = {disk}
    Reschedulable = {b1}
INVARIANT AllReleased
CHECK_DEADLOCK FALSE
