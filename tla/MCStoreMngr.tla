----------------------------- MODULE MCStoreMngr -----------------------------
(* Instances of StoreMngr for TLC. *)
EXTENDS StoreMngr

CONSTANTS b1, b2, r, c, disk, tape

Limits     == [s \in Storages |-> IF s = tape THEN 1 ELSE 2]
ReadLimits == [s \in Storages |-> IF s = disk THEN 1 ELSE 0]

KindOf ==
    [j \in Jobs |-> CASE j = r -> "restore" [] j = c -> "copy" [] OTHER -> "backup"]

\* The backups and the copy may write to either storage, the restore reads
\* either, the copy reads from disk.
ReadGroups ==
    [j \in Jobs |-> CASE j = r -> <<tape, disk>> [] j = c -> <<disk>> [] OTHER -> <<>>]
WriteGroups ==
    [j \in Jobs |-> CASE j = r -> <<>> [] j = c -> <<tape, disk>> [] OTHER -> <<disk, tape>>]

Policies ==
    [j \in Jobs |-> CASE j = b1 -> "FreeSpace" [] j = b2 -> "LeastUsed" [] OTHER -> "ListedOrder"]
Volumes == [j \in Jobs |-> Storages]
==============================================================================
