----------------------------- MODULE MCCloudXfer -----------------------------
(* Small instances of the cloud transfer manager: all jobs want part p1,   *)
(* or each a part of its own, named like the job.                          *)
EXTENDS CloudXfer

CONSTANTS p1

SamePart == [j \in Jobs |-> p1]
OwnPart == [j \in Jobs |-> j]
=============================================================================
