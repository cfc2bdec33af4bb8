------------------------------ MODULE JobStatus -----------------------------
(***************************************************************************)
(* Job statuses of the Director and how lib/jcr.c combines them.  A status *)
(* names the JS_ constant of jcr.h; statuses the job queue cannot tell     *)
(* apart from the ones below are left out.                                 *)
(***************************************************************************)
EXTENDS Integers

WaitStatuses == {"Created", "WaitStartTime", "WaitPriority", "WaitStoreRes",
                 "WaitClientRes", "WaitJobRes"}

Statuses == WaitStatuses \union
    {"WaitUser", "Running", "Terminated", "Error", "Differences",
     "ErrorTerminated", "FatalError", "Canceled", "Incomplete"}

get_status_priority(s) ==
    CASE s = "Incomplete" -> 10
      [] s \in {"ErrorTerminated", "FatalError", "Canceled"} -> 9
      [] s = "Error" -> 8
      [] s = "Differences" -> 7
      [] OTHER -> 0

(* The status that survives when a job in status old is given status new.  *)
compareJobStatus_lastWins(old, new) == new
compareJobStatus(old, new) ==
    LET priority == get_status_priority(new)
        old_priority == get_status_priority(old)
    IN  IF priority > old_priority \/ (priority = 0 /\ old_priority = 0)
        THEN new ELSE old

job_canceled_errorsOnly(s) == s \in {"ErrorTerminated", "FatalError"}
job_canceled(s) == s \in {"Canceled", "ErrorTerminated", "FatalError"}

(* The statuses for which cancel_job takes the job to be in the queue.     *)
not_running_priorityMissed(s) == s \in WaitStatuses \ {"WaitPriority"}
not_running(s) == s \in WaitStatuses
=============================================================================
