----------------------------- MODULE JobQProofs -----------------------------
(***************************************************************************)
(* Proofs about the Director's job queue, for any jobs, workers, resources *)
(* and limits.  IInv says where each JCR is: in one list, with its         *)
(* sched_wait thread, or in the hands of one worker; which JCRs have not   *)
(* been used yet; and what a worker at each of its steps may rely on.      *)
(***************************************************************************)
EXTENDS JobQ, CollectionLemmas

CancelSteps == {"none", "thread", "mark", "remove", "daemons", "true", "false"}

Types ==
    /\ waiting \in Seq(Jobs) /\ ready \in Seq(Jobs) /\ running \in Seq(Jobs)
    /\ todo \in Seq(Jobs)
    /\ sched \subseteq Jobs
    /\ pc \in [Workers -> WorkerSteps]
    /\ cur \in [Workers -> Jobs \union {NoJob}]
    /\ status \in [Jobs -> Statuses \union {"none"}]
    /\ acquired \in [Jobs -> BOOLEAN]
    /\ num \in [Resources -> Int]
    /\ use \in [Jobs -> Int] /\ restart \in [Jobs -> BOOLEAN]
    /\ cancel \in [Jobs -> [step : CancelSteps, cmd : {"cancel", "stop"}, queued : BOOLEAN]]

(* The stages of a worker: its engine is on the running list; it decides   *)
(* about a re-run; its last reference is still to be dropped, perhaps      *)
(* after the jobq_add it waits for.                                        *)
Engine == {"engine", "run", "done"}
Deciding == {"resched", "requeue", "respawn"}
Dropping == {"free", "requeued", "requeuing", "respawning"}
Stages == Engine \union Deciding \union Dropping

(* No job is in two lists, or in one list twice.                           *)
Lists ==
    /\ IsInjective(waiting) /\ IsInjective(ready) /\ IsInjective(running)
    /\ Range(waiting) \intersect Range(ready) = {}
    /\ Range(waiting) \intersect Range(running) = {}
    /\ Range(ready) \intersect Range(running) = {}
    /\ sched \intersect (Range(waiting) \union Range(ready) \union Range(running)) = {}

Placed == Range(waiting) \union Range(ready) \union Range(running) \union sched

(* jq->mutex has one holder, and the scan of the waiting list is its own.  *)
Scanning == {"scan", "refused"}

OneHolder ==
    /\ \A v, w \in Workers : pc[v] \in Locked /\ pc[w] \in Locked => v = w
    /\ IsInjective(todo) /\ Range(todo) \subseteq Range(waiting)
    /\ todo # <<>> => \E w \in Workers : pc[w] \in Scanning
    /\ \A w \in Workers : pc[w] = "refused" => todo # <<>>

(* A job is with one worker at most, until that one only drops it.         *)
WorkersKept ==
    /\ \A w \in Workers : cur[w] \in Jobs <=> pc[w] \in Stages
    /\ \A w \in Workers : pc[w] \in Engine => cur[w] \in Range(running)
    /\ \A j \in Range(running) : \E w \in Workers : pc[w] \in Engine /\ cur[w] = j
    /\ \A w \in Workers : pc[w] \in Deciding => cur[w] \notin Placed
    /\ \A v, w \in Workers :
          pc[v] \in Engine \union Deciding /\ pc[w] \in Engine \union Deciding /\ cur[v] = cur[w]
             => v = w

(* A JCR that was never started is nowhere; one that was started to re-run *)
(* another took its place for good.                                        *)
JobsKept ==
    /\ \A j \in Jobs : status[j] = "none" =>
          j \notin Placed /\ cancel[j].step = "none" /\ \A w \in Workers : cur[w] # j
    /\ \A j \in Jobs : Clone[j] \in Jobs /\ status[Clone[j]] # "none" =>
          /\ status[j] # "none" /\ j \notin Placed
          /\ \A w \in Workers : cur[w] = j => pc[w] \in Dropping
    /\ \A j \in Jobs : acquired[j] => j \in Range(ready) \union Range(running)

Uses(A, r) ==
    {u \in A \X (1..4) :
        r = <<RStore[u[1]], WStore[u[1]], ClientCounter(u[1]), JobRes[u[1]]>>[u[2]]}

Holders == {j \in Jobs : acquired[j]}

Counters == \A r \in Resources : /\ num[r] = Cardinality(Uses(Holders, r))
                                 /\ num[r] <= Limit[r]

(* The workers that hold a reference of their own.                         *)
Droppers(j) == {w \in Workers : cur[w] = j /\ pc[w] \notin Engine}

References == \A j \in Jobs : use[j] = In(j \in Placed) + Cardinality(Droppers(j))

(* A job goes to the ready list without resources because it is canceled.  *)
(* It would run all the same if it were not canceled any more: a re-run    *)
(* wipes out the mark of a cancel_job that has still to call jobq_remove   *)
(* (jobq.c:713), and a "stop" marks a job Incomplete that its own Queued   *)
(* script has canceled (job.c:764).  These are the cases without either.   *)
NoCancels == Commands = {} /\ Watched = {}
NoReruns == RescheduleOnError = {} /\ "Incomplete" \notin Outcomes
ScriptCancels == Scripted # {} /\ 2 \in ScriptCodes
NoneRevived == NoCancels \/ (NoReruns /\ ("stop" \notin Commands \/ ~ScriptCancels))

(* The jobs whose engine has not begun.                                    *)
Pending == Range(waiting) \union Range(ready) \union sched
           \union {cur[w] : w \in {v \in Workers : pc[v] = "engine"}}

Stopping(j) == cancel[j].step = "mark" /\ cancel[j].cmd = "stop"

CancelsKept ==
    /\ "stop" \notin Commands => \A j \in Jobs : cancel[j].cmd # "stop"
    /\ NoCancels => \A j \in Jobs : cancel[j].step = "none"
    /\ NoReruns =>
          /\ \A w \in Workers : pc[w] \notin Deciding
          /\ \A j \in Jobs : status[j] = "Incomplete" =>
                ~restart[j] /\ cancel[j].step \in {"daemons", "true", "false"}
          /\ \A j \in Jobs : cancel[j].step = "remove" => Canceled(j)
    /\ NoReruns /\ ~ScriptCancels =>
          \A j \in Pending : Canceled(j) => cancel[j].step # "none" /\ ~Stopping(j)

StartsWithResources ==
    NoneRevived =>
        /\ \A j \in Range(ready) : acquired[j] \/ Canceled(j)
        /\ \A w \in Workers : pc[w] = "engine" => acquired[cur[w]] \/ Canceled(cur[w])
        /\ \A w \in Workers : pc[w] = "run" => acquired[cur[w]]

(* num_workers counts the threads; jobq_destroy comes after the last call   *)
(* that finds the queue valid.                                             *)
Threads == {w \in Workers : pc[w] # "none"}
Shutdown ==
    /\ num_workers = Cardinality(Threads)
    /\ valid \in BOOLEAN
    /\ destroy # "no" => ~valid

IInv == /\ Types /\ Lists /\ OneHolder /\ WorkersKept /\ JobsKept
        /\ Counters /\ References /\ CancelsKept /\ StartsWithResources /\ Shutdown
-----------------------------------------------------------------------------
(* The statuses.                                                           *)
LEMMA StatusStep ==
    ASSUME NEW a \in Statuses \union {"none"}, NEW b \in Statuses
    PROVE  /\ compareJobStatus(a, b) \in {a, b}
           /\ compareJobStatus(a, b) \in Statuses
           /\ job_canceled(a) /\ b # "Incomplete" => job_canceled(compareJobStatus(a, b))
           /\ job_canceled(compareJobStatus(a, b)) => job_canceled(a) \/ job_canceled(b)
           /\ job_canceled(b) /\ a # "Incomplete" => job_canceled(compareJobStatus(a, b))
           /\ compareJobStatus(a, "Incomplete") = "Incomplete"
BY DEF compareJobStatus, get_status_priority, job_canceled, Statuses, WaitStatuses

LEMMA NotNone == "none" \notin Statuses /\ {"Running", "Canceled", "Incomplete", "WaitUser",
    "FatalError", "Created", "WaitStartTime", "WaitPriority", "WaitStoreRes", "WaitClientRes",
    "WaitJobRes", "Terminated", "ErrorTerminated"} \subseteq Statuses
BY DEF Statuses, WaitStatuses

LEMMA InitInv == Init => IInv
<1> SUFFICES ASSUME Init PROVE IInv
  OBVIOUS
<1> USE DEF Init, Idle
<1>0. Cardinality({}) = 0
  BY FS_EmptySet
<1>1. /\ Range(<<>>) = {} /\ IsInjective(<<>>) /\ <<>> \in Seq(Jobs)
  BY EmptyList
<1>2. Types
  BY <1>1, JobsAssumption DEF Types, CancelSteps, WorkerSteps, Locked
<1>3. Lists
  BY <1>1 DEF Lists
<1>4. Placed = {}
  BY <1>1 DEF Placed
<1>5. OneHolder
  BY <1>1 DEF OneHolder, Locked, Scanning
<1>6. WorkersKept
  BY <1>1, <1>4, JobsAssumption DEF WorkersKept, Stages, Engine, Deciding, Dropping
<1>7. JobsKept
  BY <1>4, JobsAssumption DEF JobsKept
<1>8. Counters
  <2>1. Holders = {}
    BY DEF Holders
  <2>2. \A r \in Resources : Uses(Holders, r) = {}
    BY <2>1 DEF Uses
  <2>3. \A r \in Resources : num[r] = 0 /\ Limit[r] \in Nat
    BY JobsAssumption
  <2>4. \A r \in Resources : Cardinality(Uses(Holders, r)) = 0
    BY <1>0, <2>2, Zenon
  <2>5. QED BY <2>3, <2>4 DEF Counters
<1>9. References
  <2>1. \A j \in Jobs : Droppers(j) = {}
    BY JobsAssumption DEF Droppers
  <2>2. \A j \in Jobs : Cardinality(Droppers(j)) = 0
    BY <1>0, <2>1, Zenon
  <2>3. QED BY <1>4, <2>2 DEF References, In
<1>10. CancelsKept
  <2>1. Pending = {}
    BY <1>1 DEF Pending
  <2>2. QED BY <2>1 DEF CancelsKept, Deciding, Canceled, job_canceled
<1>11. StartsWithResources
  BY <1>1 DEF StartsWithResources
<1>12. Shutdown
  <2>1. Threads = {}
    BY DEF Threads
  <2>2. QED BY <2>1, FS_EmptySet DEF Shutdown
<1>13. QED BY <1>2, <1>3, <1>5, <1>6, <1>7, <1>8, <1>9, <1>10, <1>11, <1>12 DEF IInv

-----------------------------------------------------------------------------
(* Steps that leave the queues and the workers alone.                      *)
Unmoved == UNCHANGED <<waiting, ready, running, sched, pc, cur, num_workers, todo,
                       acquired, num, use, valid, destroy>>

LEMMA UnmovedKeeps ==
    ASSUME IInv, Unmoved
    PROVE  Lists' /\ OneHolder' /\ WorkersKept' /\ Counters' /\ References' /\ Shutdown'
<1> USE DEF IInv, Unmoved
<1>1. Lists'
  BY DEF Lists
<1>2. OneHolder'
  BY DEF OneHolder
<1>3. WorkersKept'
  BY DEF WorkersKept, Placed
<1>4. Counters'
  BY DEF Counters, Uses, Holders
<1>5. References'
  BY DEF References, Placed, Droppers
<1>6. Shutdown'
  BY DEF Shutdown, Threads
<1>7. QED BY <1>1, <1>2, <1>3, <1>4, <1>5, <1>6

(* A job that is in use, or that cancel_job works on, was started.         *)
LEMMA ActiveStarted ==
    ASSUME IInv, NEW j \in Jobs, Active(j) \/ cancel[j].step # "none"
    PROVE  status[j] # "none"
<1> SUFFICES ASSUME status[j] = "none", Active(j) PROVE FALSE
  BY DEF IInv, JobsKept
<1>1. j \notin Placed /\ \A w \in Workers : cur[w] # j
  BY DEF IInv, JobsKept
<1>2. Droppers(j) = {}
  BY <1>1 DEF Droppers
<1>3. use[j] = 0
  BY <1>1, <1>2, FS_EmptySet DEF IInv, References, In
<1>4. QED BY <1>3 DEF Active

(* One job's status, cancel_job call or restart flag changes.              *)
Marks(j) ==
    /\ status[j] # "none"
    /\ \A i \in Jobs : i # j => status'[i] = status[i] /\ cancel'[i] = cancel[i]
                                /\ restart'[i] = restart[i]
    /\ status'[j] # "none"

LEMMA PendingJobs == ASSUME IInv PROVE Pending \subseteq Jobs
<1>1. \A w \in Workers : pc[w] = "engine" => cur[w] \in Jobs
  BY DEF IInv, WorkersKept, Stages, Engine
<1>2. Range(waiting) \subseteq Jobs /\ Range(ready) \subseteq Jobs /\ sched \subseteq Jobs
  BY RangeElements DEF IInv, Types
<1>3. QED BY <1>1, <1>2 DEF Pending

LEMMA MarksKeep ==
    ASSUME IInv, Types', Unmoved, NEW j \in Jobs, Marks(j),
           "stop" \notin Commands => cancel'[j].cmd # "stop",
           NoCancels => cancel'[j].step = "none",
           NoReruns => /\ status'[j] = "Incomplete" =>
                             ~restart'[j] /\ cancel'[j].step \in {"daemons", "true", "false"}
                       /\ cancel'[j].step = "remove" => Canceled(j)',
           NoReruns /\ ~ScriptCancels /\ j \in Pending =>
              (Canceled(j)' => cancel'[j].step # "none" /\ ~Stopping(j)'),
           NoneRevived /\ j \in Pending /\ Canceled(j) => Canceled(j)'
    PROVE  IInv'
<1>1. JobsKept'
  <2>1. \A i \in Jobs : (status'[i] = "none" => status[i] = "none" /\ cancel'[i] = cancel[i])
                        /\ (status[i] = "none" => status'[i] = "none")
    BY DEF Marks
  <2>2. Placed' = Placed
    BY DEF Placed, Unmoved
  <2>3. QED BY <2>1, <2>2 DEF IInv, JobsKept, Unmoved
<1>2. Pending' = Pending /\ Pending \subseteq Jobs
  BY PendingJobs DEF Pending, Unmoved
<1>3. \A i \in Jobs : i # j => (Canceled(i)' <=> Canceled(i)) /\ (Stopping(i)' <=> Stopping(i))
  BY DEF Canceled, Stopping, Marks
<1>4. CancelsKept'
  <2>1. "stop" \notin Commands => \A i \in Jobs : cancel'[i].cmd # "stop"
    BY DEF IInv, CancelsKept, Marks
  <2>2. NoCancels => \A i \in Jobs : cancel'[i].step = "none"
    BY DEF IInv, CancelsKept, Marks
  <2>3. NoReruns => \A w \in Workers : pc'[w] \notin Deciding
    BY DEF IInv, CancelsKept, Unmoved
  <2>4. ASSUME NoReruns, NEW i \in Jobs
        PROVE  /\ status'[i] = "Incomplete" =>
                     ~restart'[i] /\ cancel'[i].step \in {"daemons", "true", "false"}
               /\ cancel'[i].step = "remove" => Canceled(i)'
    <3>1. CASE i = j
      BY <2>4, <3>1
    <3>2. CASE i # j
      <4>1. status'[i] = status[i] /\ cancel'[i] = cancel[i] /\ restart'[i] = restart[i]
        BY <3>2 DEF Marks
      <4>2. /\ status[i] = "Incomplete" =>
                  ~restart[i] /\ cancel[i].step \in {"daemons", "true", "false"}
            /\ cancel[i].step = "remove" => Canceled(i)
        BY <2>4, Zenon DEF IInv, CancelsKept
      <4>3. QED BY <1>3, <3>2, <4>1, <4>2, Zenon
    <3>3. QED BY <3>1, <3>2
  <2>5. ASSUME NoReruns, ~ScriptCancels, NEW i \in Pending', Canceled(i)'
        PROVE  cancel'[i].step # "none" /\ ~Stopping(i)'
    <3>1. CASE i = j
      BY <1>2, <2>5, <3>1
    <3>2. CASE i # j
      BY <1>2, <1>3, <2>5, <3>2 DEF IInv, CancelsKept, Marks
    <3>3. QED BY <3>1, <3>2
  <2>6. QED BY <2>1, <2>2, <2>3, <2>4, <2>5, Zenon DEF CancelsKept
<1>5. StartsWithResources'
  <2>1. \A i \in Range(ready) : i \in Pending /\ i \in Jobs
    BY <1>2 DEF Pending
  <2>2. \A w \in Workers : pc[w] = "engine" => cur[w] \in Pending /\ cur[w] \in Jobs
    BY <1>2 DEF Pending
  <2>3. NoneRevived => \A i \in Pending : Canceled(i) => Canceled(i)'
    BY <1>2, <1>3
  <2>4. QED BY <2>1, <2>2, <2>3 DEF IInv, StartsWithResources, Unmoved
<1>6. QED BY <1>1, <1>4, <1>5, UnmovedKeeps DEF IInv

LEMMA Watchdog == ASSUME IInv, NEW j \in Jobs, job_monitor_watchdog(j) PROVE IInv'
<1> USE DEF queues, adders, workers, scan, life
<1>1. Unmoved /\ restart' = restart
  BY DEF job_monitor_watchdog, Unmoved
<1>2. status[j] # "none"
  BY ActiveStarted DEF job_monitor_watchdog
<1>3. /\ status' = [status EXCEPT ![j] = compareJobStatus(status[j], "Canceled")]
      /\ cancel' = [cancel EXCEPT ![j].step = "thread"] /\ cancel[j].step = "none"
  BY DEF job_monitor_watchdog, setJobStatus, NewStatus, Step
<1>4. /\ compareJobStatus(status[j], "Canceled") \in Statuses
      /\ compareJobStatus(status[j], "Canceled") \in {status[j], "Canceled"}
      /\ job_canceled(status[j]) => job_canceled(compareJobStatus(status[j], "Canceled"))
  BY StatusStep, NotNone DEF IInv, Types
<1>5. Types'
  <2>1. status' \in [Jobs -> Statuses \union {"none"}]
    BY <1>3, <1>4 DEF IInv, Types
  <2>2. cancel' \in [Jobs -> [step : CancelSteps, cmd : {"cancel", "stop"}, queued : BOOLEAN]]
    BY <1>3, ZenonT(30) DEF IInv, Types, CancelSteps
  <2>3. QED BY <1>1, <2>1, <2>2 DEF IInv, Types, Unmoved
<1>6. /\ status'[j] = compareJobStatus(status[j], "Canceled")
      /\ cancel'[j].step = "thread" /\ cancel'[j].cmd = cancel[j].cmd
      /\ \A i \in Jobs : i # j => status'[i] = status[i] /\ cancel'[i] = cancel[i]
  BY <1>3 DEF IInv, Types
<1>7. Marks(j)
  BY <1>1, <1>2, <1>4, <1>6, NotNone DEF Marks
<1>8. ~NoCancels
  BY DEF NoCancels, job_monitor_watchdog
<1>9. "stop" \notin Commands => cancel'[j].cmd # "stop"
  BY <1>6 DEF IInv, CancelsKept
<1>10. NoReruns => status'[j] # "Incomplete"
  BY <1>3, <1>4, <1>6 DEF IInv, CancelsKept
<1>11. QED BY <1>1, <1>4, <1>5, <1>6, <1>7, <1>8, <1>9, <1>10, MarksKeep DEF Canceled, Stopping

LEMMA CancelJob == ASSUME IInv, NEW j \in Jobs, cancel_job(j) PROVE IInv'
<1> USE DEF queues, adders, workers, scan, life, jcr
<1>1. Unmoved /\ restart' = restart /\ status' = status
  BY DEF cancel_job, Unmoved
<1>2. status[j] # "none"
  BY ActiveStarted DEF cancel_job
<1>3. PICK c \in {"cancel"} \union Commands :
         /\ cancel' = [cancel EXCEPT ![j] =
                          [step |-> "mark", cmd |-> c, queued |-> not_running(status[j])]]
         /\ \/ cancel[j].step = "thread" /\ c = "cancel"
            \/ cancel[j].step = "none" /\ c \in Commands
  BY DEF cancel_job
<1>4. c \in {"cancel", "stop"} /\ not_running(status[j]) \in BOOLEAN
  BY <1>3, JobsAssumption DEF not_running
<1>5. Types'
  <2>1. [step |-> "mark", cmd |-> c, queued |-> not_running(status[j])]
           \in [step : CancelSteps, cmd : {"cancel", "stop"}, queued : BOOLEAN]
    BY <1>4 DEF CancelSteps
  <2>2. cancel' \in [Jobs -> [step : CancelSteps, cmd : {"cancel", "stop"}, queued : BOOLEAN]]
    BY <1>3, <2>1 DEF IInv, Types
  <2>3. QED BY <1>1, <2>2 DEF IInv, Types, Unmoved
<1>6. /\ cancel'[j].step = "mark" /\ cancel'[j].cmd = c
      /\ \A i \in Jobs : i # j => cancel'[i] = cancel[i]
  BY <1>3 DEF IInv, Types
<1>7. Marks(j)
  BY <1>1, <1>2, <1>6 DEF Marks
<1>8. ~NoCancels
  BY <1>3 DEF NoCancels, IInv, CancelsKept
<1>9. NoReruns => status'[j] # "Incomplete"
  BY <1>1, <1>3 DEF IInv, CancelsKept
<1>10. Canceled(j)' <=> Canceled(j)
  BY <1>1 DEF Canceled
<1>11. NoReruns /\ ~ScriptCancels /\ j \in Pending => (Canceled(j) => ~Stopping(j)')
  BY <1>3, <1>6 DEF IInv, CancelsKept, Stopping
<1>12. QED BY <1>1, <1>3, <1>5, <1>6, <1>7, <1>8, <1>9, <1>10, <1>11, MarksKeep

LEMMA CancelMark == ASSUME IInv, NEW j \in Jobs, cancel_job_mark(j) PROVE IInv'
<1> DEFINE c == cancel[j]
           stops == c.cmd = "stop" /\ ~c.queued
           new == IF stops THEN "Incomplete" ELSE "Canceled"
           next == IF ~c.queued THEN "daemons" ELSE IF valid THEN "remove" ELSE "false"
<1> USE DEF queues, adders, workers, scan, life
<1>1. Unmoved
  BY DEF cancel_job_mark, Unmoved
<1>2. c.step = "mark"
  BY DEF cancel_job_mark
<1>3. status[j] # "none"
  BY <1>2, ActiveStarted
<1>4. /\ status' = [status EXCEPT ![j] = compareJobStatus(status[j], new)]
      /\ cancel' = [cancel EXCEPT ![j].step = next]
      /\ restart' = [restart EXCEPT ![j] = restart[j] /\ ~stops]
  BY DEF cancel_job_mark, setJobStatus, NewStatus, Step
<1>5. new \in Statuses /\ next \in CancelSteps \ {"none", "mark"}
  BY NotNone DEF CancelSteps
<1>6. /\ compareJobStatus(status[j], new) \in Statuses
      /\ compareJobStatus(status[j], new) \in {status[j], new}
      /\ job_canceled(status[j]) /\ ~stops => job_canceled(compareJobStatus(status[j], new))
      /\ ~stops /\ status[j] # "Incomplete" => job_canceled(compareJobStatus(status[j], new))
  <2>1. job_canceled("Canceled")
    BY DEF job_canceled
  <2>2. QED BY <1>5, <2>1, StatusStep DEF IInv, Types
<1>7. /\ status'[j] = compareJobStatus(status[j], new)
      /\ cancel'[j].step = next /\ cancel'[j].cmd = cancel[j].cmd
      /\ \A i \in Jobs : i # j => status'[i] = status[i] /\ cancel'[i] = cancel[i]
                                  /\ restart'[i] = restart[i]
      /\ stops => ~restart'[j]
  <2> HIDE DEF c, stops, new, next
  <2>1. QED BY <1>4 DEF IInv, Types
<1>8. Types'
  <2>1. status' \in [Jobs -> Statuses \union {"none"}]
    BY <1>4, <1>6 DEF IInv, Types
  <2>2. cancel' \in [Jobs -> [step : CancelSteps, cmd : {"cancel", "stop"}, queued : BOOLEAN]]
    BY <1>4, <1>5, ZenonT(30) DEF IInv, Types
  <2>3. restart' \in [Jobs -> BOOLEAN]
    BY <1>4 DEF IInv, Types
  <2>4. QED BY <1>1, <2>1, <2>2, <2>3 DEF IInv, Types, Unmoved
<1>9. Marks(j)
  BY <1>3, <1>6, <1>7, NotNone DEF Marks
<1>10. ~NoCancels
  BY <1>2 DEF NoCancels, IInv, CancelsKept
<1>11. "stop" \notin Commands => cancel'[j].cmd # "stop" /\ ~stops
  BY <1>7 DEF IInv, CancelsKept
<1>12. NoReruns => status[j] # "Incomplete"
  BY <1>2 DEF IInv, CancelsKept
<1>13. NoReruns => /\ status'[j] = "Incomplete" =>
                         ~restart'[j] /\ cancel'[j].step \in {"daemons", "true", "false"}
                   /\ cancel'[j].step = "remove" => Canceled(j)'
  <2>1. CASE stops
    BY <1>7, <2>1
  <2>2. CASE ~stops
    BY <1>6, <1>7, <1>12, <2>2 DEF Canceled, job_canceled
  <2>3. QED BY <2>1, <2>2
<1>14. NoneRevived /\ j \in Pending /\ Canceled(j) => Canceled(j)'
  <2> SUFFICES ASSUME NoneRevived, j \in Pending, Canceled(j) PROVE ~stops
    BY <1>6, <1>7 DEF Canceled
  <2>1. NoReruns /\ ("stop" \notin Commands \/ ~ScriptCancels)
    BY <1>10 DEF NoneRevived
  <2>2. "stop" \in Commands => ~Stopping(j)
    BY <2>1 DEF IInv, CancelsKept
  <2>3. QED BY <1>2, <1>11, <2>2 DEF Stopping
<1> HIDE DEF c, stops, new, next
<1>15. cancel'[j].step # "none" /\ ~Stopping(j)'
  BY <1>5, <1>7 DEF Stopping
<1>16. QED BY <1>1, <1>8, <1>9, <1>10, <1>11, <1>13, <1>14, <1>15, MarksKeep

LEMMA Daemons == ASSUME IInv, NEW j \in Jobs, CancelDaemons(j) PROVE IInv'
<1> USE DEF queues, adders, workers, scan, life, jcr
<1>1. Unmoved /\ restart' = restart /\ status' = status
  BY DEF CancelDaemons, Unmoved
<1>2. cancel[j].step = "daemons" /\ status[j] # "none"
  BY ActiveStarted DEF CancelDaemons
<1>3. PICK s \in {"true", "false"} : cancel' = [cancel EXCEPT ![j].step = s]
  BY DEF CancelDaemons, Step
<1>4. Types'
  <2>1. cancel' \in [Jobs -> [step : CancelSteps, cmd : {"cancel", "stop"}, queued : BOOLEAN]]
    BY <1>3 DEF IInv, Types, CancelSteps
  <2>2. QED BY <1>1, <2>1 DEF IInv, Types, Unmoved
<1>5. /\ cancel'[j].step = s /\ cancel'[j].cmd = cancel[j].cmd
      /\ \A i \in Jobs : i # j => cancel'[i] = cancel[i]
  BY <1>3 DEF IInv, Types
<1>6. Marks(j)
  BY <1>1, <1>2, <1>5 DEF Marks
<1>7. ~NoCancels /\ ("stop" \notin Commands => cancel'[j].cmd # "stop")
  BY <1>2, <1>5 DEF NoCancels, IInv, CancelsKept
<1>8. NoReruns => (status'[j] = "Incomplete" => ~restart'[j])
  <2>1. NoReruns => (status[j] = "Incomplete" => ~restart[j])
    BY Zenon DEF IInv, CancelsKept
  <2>2. QED BY <1>1, <2>1, Zenon
<1>9. Canceled(j)' <=> Canceled(j)
  BY <1>1 DEF Canceled
<1>10. QED BY <1>1, <1>4, <1>5, <1>6, <1>7, <1>8, <1>9, MarksKeep DEF Stopping

(* Nothing changes that the invariant speaks of.                           *)
LEMMA Stutters ==
    ASSUME IInv, Unmoved, UNCHANGED <<restart, status, cancel>>
    PROVE  IInv'
<1>1. Unmoved /\ UNCHANGED <<restart, status, cancel>>
  OBVIOUS
<1>2. Types'
  BY <1>1 DEF IInv, Types, Unmoved
<1>3. Pending' = Pending /\ Pending \subseteq Jobs /\ Placed' = Placed
  BY <1>1, PendingJobs DEF Pending, Placed, Unmoved
<1>4. JobsKept'
  BY <1>1, <1>3 DEF IInv, JobsKept, Unmoved
<1>5. CancelsKept'
  BY <1>1, <1>3 DEF IInv, CancelsKept, Unmoved, Canceled, Stopping
<1>6. StartsWithResources'
  BY <1>1 DEF IInv, StartsWithResources, Unmoved, Canceled
<1>7. QED BY <1>1, <1>2, <1>4, <1>5, <1>6, UnmovedKeeps DEF IInv

LEMMA Update == ASSUME IInv, NEW j \in Jobs, update_priority(j) PROVE IInv'
<1>1. Unmoved /\ UNCHANGED <<restart, status, cancel>>
  BY DEF update_priority, Unmoved, queues, adders, workers, scan, life
<1>2. QED BY <1>1, Stutters

LEMMA Destroy == ASSUME IInv, jobq_destroy \/ DestroyReturns PROVE IInv'
<1> USE DEF queues, adders, workers, scan, jcr
<1>1. /\ UNCHANGED <<waiting, ready, running, sched, pc, cur, num_workers, todo, status,
                     acquired, num, use, restart, cancel>>
      /\ ~valid'
  BY DEF jobq_destroy, DestroyReturns, IInv, Shutdown
<1>2. Types' /\ Lists' /\ OneHolder' /\ WorkersKept' /\ JobsKept'
  BY <1>1 DEF IInv, Types, Lists, OneHolder, WorkersKept, JobsKept, Placed
<1>3. Counters' /\ References'
  BY <1>1 DEF IInv, Counters, Uses, Holders, References, Placed, Droppers
<1>4. CancelsKept'
  BY <1>1 DEF IInv, CancelsKept, Canceled, Stopping, Pending
<1>5. StartsWithResources'
  BY <1>1 DEF IInv, StartsWithResources, Canceled
<1>6. Shutdown'
  <2>1. valid' \in BOOLEAN
    BY DEF jobq_destroy, DestroyReturns, IInv, Shutdown
  <2>2. QED BY <1>1, <2>1 DEF IInv, Shutdown, Threads
<1>7. QED BY <1>2, <1>3, <1>4, <1>5, <1>6 DEF IInv

-----------------------------------------------------------------------------
(* Steps of a worker that has no job.                                      *)
LEMMA IdleStep ==
    ASSUME IInv, NEW w \in Workers, NEW p \in WorkerSteps \ Stages, pc[w] \notin Stages,
           pc' = [pc EXCEPT ![w] = p], todo' \in Seq(Jobs),
           UNCHANGED <<waiting, ready, running, sched, cur, status, acquired, num, use,
                       restart, cancel>>
    PROVE  /\ Types' /\ Lists' /\ WorkersKept' /\ JobsKept' /\ Counters' /\ References'
           /\ CancelsKept' /\ StartsWithResources'
           /\ pc'[w] = p /\ \A v \in Workers : v # w => pc'[v] = pc[v]
<1>1. pc'[w] = p /\ \A v \in Workers : v # w => pc'[v] = pc[v]
  BY DEF IInv, Types
<1>2. Types'
  BY DEF IInv, Types
<1>3. Lists' /\ Placed' = Placed
  BY DEF IInv, Lists, Placed
<1>4. \A v \in Workers : /\ pc'[v] \in Engine <=> pc[v] \in Engine
                         /\ pc'[v] \in Deciding <=> pc[v] \in Deciding
                         /\ pc'[v] \in Stages <=> pc[v] \in Stages
                         /\ pc'[v] \in Dropping <=> pc[v] \in Dropping
                         /\ pc'[v] = "engine" <=> pc[v] = "engine"
                         /\ pc'[v] = "run" <=> pc[v] = "run"
  BY <1>1 DEF Stages, Engine, Deciding, Dropping
<1>5. WorkersKept'
  BY <1>3, <1>4 DEF IInv, WorkersKept
<1>6. JobsKept'
  BY <1>3, <1>4 DEF IInv, JobsKept
<1>7. Counters'
  BY DEF IInv, Counters, Uses, Holders
<1>8. References'
  <2>1. \A j \in Jobs : Droppers(j)' = Droppers(j)
    BY <1>4 DEF Droppers
  <2>2. QED BY <1>3, <2>1 DEF IInv, References
<1>9. CancelsKept'
  <2>1. Pending' = Pending
    BY <1>4 DEF Pending
  <2>2. QED BY <1>4, <2>1 DEF IInv, CancelsKept, Canceled, Stopping
<1>10. StartsWithResources'
  BY <1>4 DEF IInv, StartsWithResources, Canceled
<1>11. QED BY <1>1, <1>2, <1>3, <1>5, <1>6, <1>7, <1>8, <1>9, <1>10

(* A worker that gets the mutex.                                           *)
LEMMA FreeNoScan == ASSUME IInv, MutexFree PROVE todo = <<>>
BY DEF IInv, OneHolder, MutexFree, Locked, Scanning

LEMMA Enters ==
    ASSUME IInv, NEW w \in Workers, ServerStart(w) \/ TimedWait(w) \/ Pause(w)
    PROVE  IInv'
<1> USE DEF queues, adders, scan, jcr, life
<1>1. PICK p \in {"ready", "wait"} : pc' = [pc EXCEPT ![w] = p]
  BY DEF ServerStart, TimedWait, Pause
<1>2. pc[w] \in {"start", "wait", "sleep"} /\ MutexFree
  BY DEF ServerStart, TimedWait, Pause, Enter
<1>3. UNCHANGED <<waiting, ready, running, sched, cur, num_workers, todo, status, acquired, num,
                  use, restart, cancel, valid, destroy>>
  BY DEF ServerStart, TimedWait, Pause
<1>4. p \in WorkerSteps \ Stages /\ pc[w] \notin Stages
  BY <1>1, <1>2 DEF WorkerSteps, Locked, Stages, Engine, Deciding, Dropping
<1>5. todo' \in Seq(Jobs)
  BY <1>3 DEF IInv, Types
<1>6. /\ Types' /\ Lists' /\ WorkersKept' /\ JobsKept' /\ Counters' /\ References'
      /\ CancelsKept' /\ StartsWithResources'
      /\ pc'[w] = p /\ \A v \in Workers : v # w => pc'[v] = pc[v]
  BY <1>1, <1>3, <1>4, <1>5, IdleStep
<1>7. OneHolder'
  <2>1. todo = <<>>
    BY <1>2, FreeNoScan
  <2>2. p # "refused"
    BY <1>1
  <2>3. QED BY <1>2, <1>3, <1>6, <2>1, <2>2 DEF IInv, OneHolder, MutexFree, Locked
<1>8. Shutdown'
  <2>1. Threads' = Threads
    BY <1>2, <1>6 DEF Threads
  <2>2. QED BY <1>3, <2>1 DEF IInv, Shutdown
<1>9. QED BY <1>6, <1>7, <1>8 DEF IInv

LEMMA Scan == ASSUME IInv, NEW w \in Workers, StartScan(w) PROVE IInv'
<1> USE DEF queues, adders, jcr, life
<1>1. pc[w] = "ready" /\ pc' = [pc EXCEPT ![w] = "scan"] /\ todo' = waiting
  BY DEF StartScan
<1>2. UNCHANGED <<waiting, ready, running, sched, cur, num_workers, status, acquired, num,
                  use, restart, cancel, valid, destroy>>
  BY DEF StartScan
<1>3. "scan" \in WorkerSteps \ Stages /\ pc[w] \notin Stages
  BY <1>1 DEF WorkerSteps, Locked, Stages, Engine, Deciding, Dropping
<1>4. todo' \in Seq(Jobs)
  BY <1>1 DEF IInv, Types
<1>5. /\ Types' /\ Lists' /\ WorkersKept' /\ JobsKept' /\ Counters' /\ References'
      /\ CancelsKept' /\ StartsWithResources'
      /\ pc'[w] = "scan" /\ \A v \in Workers : v # w => pc'[v] = pc[v]
  BY <1>1, <1>2, <1>3, <1>4, IdleStep
<1>6. OneHolder'
  <2>1. \A v \in Workers : pc[v] # "refused"
    BY <1>1 DEF IInv, OneHolder, Locked
  <2>2. QED BY <1>1, <1>2, <1>5, <2>1 DEF IInv, OneHolder, Lists, Locked, Scanning
<1>7. Shutdown'
  <2>1. Threads' = Threads
    BY <1>1, <1>5 DEF Threads
  <2>2. QED BY <1>2, <2>1 DEF IInv, Shutdown
<1>8. QED BY <1>5, <1>6, <1>7 DEF IInv

LEMMA Ends == ASSUME IInv, NEW w \in Workers, LoopEnd(w) PROVE IInv'
<1> USE DEF queues, adders, jcr
<1>1. PICK p \in {"none", "sleep", "wait"} :
         /\ pc' = [pc EXCEPT ![w] = p]
         /\ num_workers' = IF p = "none" THEN num_workers - 1 ELSE num_workers
         /\ destroy' \in {destroy} \union (IF destroy = "wait" THEN {"woken"} ELSE {})
  BY DEF LoopEnd
<1>2. pc[w] \in {"scan", "ready"}
  BY DEF LoopEnd
<1>3. UNCHANGED <<waiting, ready, running, sched, cur, todo, status, acquired, num,
                  use, restart, cancel, valid>>
  BY DEF LoopEnd
<1>4. p \in WorkerSteps \ Stages /\ pc[w] \notin Stages
  BY <1>1, <1>2 DEF WorkerSteps, Locked, Stages, Engine, Deciding, Dropping
<1>5. todo' \in Seq(Jobs)
  BY <1>3 DEF IInv, Types
<1>6. /\ Types' /\ Lists' /\ WorkersKept' /\ JobsKept' /\ Counters' /\ References'
      /\ CancelsKept' /\ StartsWithResources'
      /\ pc'[w] = p /\ \A v \in Workers : v # w => pc'[v] = pc[v]
  BY <1>1, <1>3, <1>4, <1>5, IdleStep
<1>7. OneHolder'
  <2>1. todo = <<>>
    BY <1>2 DEF LoopEnd, IInv, OneHolder, Locked, Scanning
  <2>2. \A v \in Workers : pc'[v] # "refused"
    BY <1>1, <1>6, <2>1 DEF IInv, OneHolder
  <2>3. QED BY <1>1, <1>3, <1>6, <2>1, <2>2 DEF IInv, OneHolder, Locked
<1>8. Shutdown'
  <2>1. w \in Threads /\ IsFiniteSet(Threads)
    BY <1>2, JobsAssumption, FS_Subset DEF Threads
  <2>2. num_workers \in Nat /\ num_workers > 0
    BY <2>1, CountStep DEF IInv, Shutdown
  <2>3. Threads' = IF p = "none" THEN Threads \ {w} ELSE Threads
    BY <1>1, <1>2, <1>6 DEF Threads
  <2>4. num_workers' = Cardinality(Threads')
    BY <1>1, <2>1, <2>3, CountStep DEF IInv, Shutdown
  <2>5. QED BY <1>1, <1>3, <2>4 DEF IInv, Shutdown
<1>9. QED BY <1>6, <1>7, <1>8 DEF IInv

-----------------------------------------------------------------------------
(* Steps of a worker and its job that leave the queues alone.              *)
LEMMA JobStep ==
    ASSUME IInv, NEW w \in Workers, NEW p \in WorkerSteps \ Locked, NEW s \in Statuses,
           \/ pc[w] \in Engine /\ p \in Engine
           \/ pc[w] \in Deciding /\ p \in Deciding,
           p # "engine",
           pc' = [pc EXCEPT ![w] = p], status' = [status EXCEPT ![cur[w]] = s],
           UNCHANGED <<waiting, ready, running, sched, cur, num_workers, todo, acquired, num, use,
                       restart, cancel, valid, destroy>>,
           NoReruns => /\ s = "Incomplete" => status[cur[w]] = "Incomplete"
                       /\ Canceled(cur[w]) => job_canceled(s),
           p = "run" => pc[w] = "engine" /\ (NoneRevived => acquired[cur[w]])
    PROVE  IInv'
<1> DEFINE j == cur[w]
<1>1. /\ j \in Jobs
      /\ pc'[w] = p /\ \A v \in Workers : v # w => pc'[v] = pc[v]
      /\ status'[j] = s /\ \A i \in Jobs : i # j => status'[i] = status[i]
  BY DEF IInv, Types, WorkersKept, Stages
<1>2. Types'
  BY <1>1 DEF IInv, Types
<1>3. Lists' /\ Placed' = Placed
  BY DEF IInv, Lists, Placed
<1>4. \A v \in Workers : /\ pc'[v] \in Engine <=> pc[v] \in Engine
                         /\ pc'[v] \in Deciding <=> pc[v] \in Deciding
                         /\ pc'[v] \in Stages <=> pc[v] \in Stages
                         /\ pc'[v] \in Dropping <=> pc[v] \in Dropping
                         /\ pc'[v] = "none" <=> pc[v] = "none"
                         /\ pc'[v] \in Scanning <=> pc[v] \in Scanning
                         /\ pc'[v] = "refused" <=> pc[v] = "refused"
                         /\ pc'[v] \in Locked => pc[v] \in Locked
                         /\ pc'[v] = "engine" => v # w /\ pc[v] = "engine"
  BY <1>1 DEF Stages, Engine, Deciding, Dropping, Locked, Scanning
<1>5. OneHolder'
  BY <1>4 DEF IInv, OneHolder
<1>6. WorkersKept'
  BY <1>3, <1>4 DEF IInv, WorkersKept
<1>7. JobsKept'
  <2>1. status[j] # "none" /\ status'[j] # "none"
    BY <1>1, NotNone DEF IInv, JobsKept
  <2>2. \A i \in Jobs : status'[i] = "none" <=> status[i] = "none"
    BY <1>1, <2>1
  <2>3. QED BY <1>3, <1>4, <2>2 DEF IInv, JobsKept
<1>8. Counters'
  BY DEF IInv, Counters, Uses, Holders
<1>9. References'
  <2>1. \A i \in Jobs : Droppers(i)' = Droppers(i)
    BY <1>4 DEF Droppers
  <2>2. QED BY <1>3, <2>1 DEF IInv, References
<1>10. \A v \in Workers : pc[v] \in Engine /\ v # w => cur[v] # j
  BY <1>1 DEF IInv, WorkersKept
<1>11. j \notin Range(waiting) \union Range(ready) \union sched
  BY <1>1 DEF IInv, WorkersKept, Lists, Placed
<1>12. Pending' \subseteq Pending \ {j}
  BY <1>4, <1>10, <1>11 DEF Pending, Engine
<1>13. \A i \in Jobs : i # j => (Canceled(i)' <=> Canceled(i))
  BY <1>1 DEF Canceled
<1>14. CancelsKept'
  <2>1. \A i \in Jobs : Stopping(i)' <=> Stopping(i)
    BY DEF Stopping
  <2>2. NoReruns => \A v \in Workers : pc'[v] \notin Deciding
    BY <1>4 DEF IInv, CancelsKept
  <2>3. ASSUME NoReruns, NEW i \in Jobs
        PROVE  /\ status'[i] = "Incomplete" =>
                     ~restart'[i] /\ cancel'[i].step \in {"daemons", "true", "false"}
               /\ cancel'[i].step = "remove" => Canceled(i)'
    <3>1. status'[i] = "Incomplete" => status[i] = "Incomplete"
      BY <1>1, <2>3
    <3>2. Canceled(i) => Canceled(i)'
      BY <1>1, <1>13, <2>3 DEF Canceled
    <3>3. /\ status[i] = "Incomplete" =>
                  ~restart[i] /\ cancel[i].step \in {"daemons", "true", "false"}
          /\ cancel[i].step = "remove" => Canceled(i)
      BY <2>3, Zenon DEF IInv, CancelsKept
    <3>4. restart' = restart /\ cancel' = cancel
      OBVIOUS
    <3>5. QED BY <3>1, <3>2, <3>3, <3>4, Zenon
  <2>4. ASSUME NoReruns, ~ScriptCancels, NEW i \in Pending', Canceled(i)'
        PROVE  cancel'[i].step # "none" /\ ~Stopping(i)'
    BY <1>12, <1>13, <2>1, <2>4, PendingJobs DEF IInv, CancelsKept
  <2>5. /\ "stop" \notin Commands => \A i \in Jobs : cancel'[i].cmd # "stop"
        /\ NoCancels => \A i \in Jobs : cancel'[i].step = "none"
    BY DEF IInv, CancelsKept
  <2>6. QED BY <2>2, <2>3, <2>4, <2>5, Zenon DEF CancelsKept
<1>15. StartsWithResources'
  <2>1. Range(ready) \subseteq Jobs \ {j}
    BY <1>11, RangeElements DEF IInv, Types
  <2>2. \A v \in Workers : pc'[v] = "engine" => pc[v] = "engine" /\ cur[v] \in Jobs \ {j}
    BY <1>1, <1>4, <1>10 DEF IInv, WorkersKept, Engine, Stages
  <2>3. \A v \in Workers : pc'[v] = "run" =>
           pc[v] = "run" \/ (v = w /\ (NoneRevived => acquired[cur[w]]))
    BY <1>1
  <2>4. QED BY <1>13, <2>1, <2>2, <2>3 DEF IInv, StartsWithResources
<1>16. Shutdown'
  <2>1. Threads' = Threads
    BY <1>4 DEF Threads
  <2>2. QED BY <2>1 DEF IInv, Shutdown
<1>17. QED BY <1>2, <1>3, <1>5, <1>6, <1>7, <1>8, <1>9, <1>14, <1>15, <1>16 DEF IInv

LEMMA MarksRunning == ASSUME IInv, NEW w \in Workers, MarkRunning(w) PROVE IInv'
<1> USE DEF queues, adders, workers, scan, life
<1> DEFINE s == compareJobStatus(status[cur[w]], "Running")
<1>1. Unmoved /\ UNCHANGED <<restart, cancel>> /\ pc[w] = "engine"
  BY DEF MarkRunning, Unmoved
<1>0. PICK j : j = cur[w]
  OBVIOUS
<1>2. j \in Jobs /\ j \in Placed
  BY <1>0, <1>1 DEF IInv, WorkersKept, Stages, Engine, Placed
<1>3. status[j] # "none" /\ status[j] \in Statuses
  BY <1>2 DEF IInv, JobsKept, Types
<1>4. /\ s \in Statuses /\ s \in {status[j], "Running"}
      /\ job_canceled(status[j]) => job_canceled(s)
  BY <1>0, <1>3, StatusStep, NotNone
<1>5. status' = [status EXCEPT ![j] = s]
  BY <1>0 DEF MarkRunning, setJobStatus, NewStatus
<1> HIDE DEF s
<1>6. /\ status'[j] = s /\ \A i \in Jobs : i # j => status'[i] = status[i]
      /\ status' \in [Jobs -> Statuses \union {"none"}]
  BY <1>2, <1>4, <1>5 DEF IInv, Types
<1>7. Types'
  BY <1>1, <1>6 DEF IInv, Types, Unmoved
<1>8. Marks(j)
  BY <1>1, <1>3, <1>4, <1>6, NotNone DEF Marks
<1>9. Canceled(j)' <=> Canceled(j)
  BY <1>4, <1>6 DEF Canceled, job_canceled
<1>10. status'[j] = "Incomplete" => status[j] = "Incomplete"
  BY <1>4, <1>6
<1>11. NoReruns => /\ status'[j] = "Incomplete" =>
                         ~restart'[j] /\ cancel'[j].step \in {"daemons", "true", "false"}
                   /\ cancel'[j].step = "remove" => Canceled(j)'
  <2>1. NoReruns => /\ status[j] = "Incomplete" =>
                          ~restart[j] /\ cancel[j].step \in {"daemons", "true", "false"}
                    /\ cancel[j].step = "remove" => Canceled(j)
    BY <1>2, Zenon DEF IInv, CancelsKept
  <2>2. QED BY <1>1, <1>9, <1>10, <2>1
<1>12. NoReruns /\ ~ScriptCancels /\ j \in Pending =>
          (Canceled(j)' => cancel'[j].step # "none" /\ ~Stopping(j)')
  BY <1>1, <1>9 DEF IInv, CancelsKept, Stopping
<1>13. /\ "stop" \notin Commands => cancel'[j].cmd # "stop"
       /\ NoCancels => cancel'[j].step = "none"
  BY <1>1, <1>2 DEF IInv, CancelsKept
<1>14. QED BY <1>1, <1>2, <1>7, <1>8, <1>9, <1>11, <1>12, <1>13, MarksKeep

LEMMA Thread == ASSUME IInv, NEW w \in Workers, job_thread(w) PROVE IInv'
<1> USE DEF queues, adders, scan, life
<1>1. /\ UNCHANGED <<waiting, ready, running, sched, cur, num_workers, todo, acquired, num, use,
                     restart, cancel, valid, destroy>>
      /\ pc[w] = "engine"
  BY DEF job_thread
<1>2. cur[w] \in Jobs /\ status[cur[w]] \in Statuses
  BY <1>1 DEF IInv, WorkersKept, Stages, Engine, JobsKept, Types
<1>3. /\ status' \in {status, [status EXCEPT ![cur[w]] = compareJobStatus(status[cur[w]], "Canceled")]}
      /\ pc' = [pc EXCEPT ![w] = IF job_canceled(status'[cur[w]]) THEN "done" ELSE "run"]
  BY DEF job_thread, setJobStatus, NewStatus, Canceled
<1>4. PICK s \in Statuses : /\ status' = [status EXCEPT ![cur[w]] = s]
                            /\ s \in {status[cur[w]], compareJobStatus(status[cur[w]], "Canceled")}
  <2>1. compareJobStatus(status[cur[w]], "Canceled") \in Statuses
    BY <1>2, StatusStep, NotNone
  <2>2. status = [status EXCEPT ![cur[w]] = status[cur[w]]]
    BY DEF IInv, Types
  <2>3. QED BY <1>2, <1>3, <2>1, <2>2
<1>5. /\ job_canceled(status[cur[w]]) => job_canceled(s)
      /\ s = "Incomplete" => status[cur[w]] = "Incomplete"
  BY <1>2, <1>4, StatusStep, NotNone
<1> DEFINE p == IF job_canceled(s) THEN "done" ELSE "run"
<1>6. pc' = [pc EXCEPT ![w] = p]
  <2>1. status'[cur[w]] = s
    BY <1>2, <1>4 DEF IInv, Types
  <2>2. QED BY <1>3, <2>1
<1>7. NoneRevived /\ ~job_canceled(s) => acquired[cur[w]]
  BY <1>1, <1>5 DEF IInv, StartsWithResources, Canceled
<1>8. p \in WorkerSteps \ Locked /\ p \in Engine /\ pc[w] \in Engine /\ p # "engine"
  BY <1>1 DEF WorkerSteps, Locked, Engine
<1>9. p = "run" => pc[w] = "engine" /\ (NoneRevived => acquired[cur[w]])
  BY <1>1, <1>7
<1> HIDE DEF p
<1>10. QED BY <1>1, <1>4, <1>5, <1>6, <1>8, <1>9, JobStep DEF Canceled

LEMMA ThreadEnd == ASSUME IInv, NEW w \in Workers, job_thread_end(w) PROVE IInv'
<1> USE DEF queues, adders, scan, life
<1>1. /\ UNCHANGED <<waiting, ready, running, sched, cur, num_workers, todo, acquired, num, use,
                     restart, cancel, valid, destroy>>
      /\ pc[w] = "run" /\ pc' = [pc EXCEPT ![w] = "done"]
  BY DEF job_thread_end
<1>2. PICK t \in Outcomes : status' = [status EXCEPT ![cur[w]] = compareJobStatus(status[cur[w]], t)]
  BY DEF job_thread_end, setJobStatus, NewStatus
<1>3. cur[w] \in Jobs /\ t \in Statuses
  BY <1>1, JobsAssumption, NotNone DEF IInv, WorkersKept, Stages, Engine
<1> DEFINE s == compareJobStatus(status[cur[w]], t)
<1>4. /\ s \in Statuses /\ s \in {status[cur[w]], t}
      /\ job_canceled(status[cur[w]]) /\ t # "Incomplete" => job_canceled(s)
  BY <1>3, StatusStep DEF IInv, Types
<1>5. NoReruns => t # "Incomplete"
  BY DEF NoReruns
<1>6. status' = [status EXCEPT ![cur[w]] = s]
  BY <1>2
<1> HIDE DEF s
<1>7. "done" \in WorkerSteps \ Locked /\ "done" \in Engine /\ pc[w] \in Engine
  BY <1>1 DEF WorkerSteps, Locked, Engine
<1>8. QED BY <1>1, <1>4, <1>5, <1>6, <1>7, JobStep DEF Canceled

LEMMA Reschedule == ASSUME IInv, NEW w \in Workers, reschedule_job(w) PROVE IInv'
<1> USE DEF queues, adders, scan, life
<1>1. /\ UNCHANGED <<waiting, ready, running, sched, cur, num_workers, todo, acquired, num, use,
                     restart, cancel, valid, destroy>>
      /\ pc[w] = "resched"
      /\ status' = [status EXCEPT ![cur[w]] = "WaitStartTime"]
  BY DEF reschedule_job
<1>2. PICK p \in {"requeue", "respawn"} : pc' = [pc EXCEPT ![w] = p]
  BY DEF reschedule_job
<1>3. /\ p \in WorkerSteps \ Locked /\ p \in Deciding /\ pc[w] \in Deciding
      /\ p # "engine" /\ p # "run"
  BY <1>1, <1>2 DEF WorkerSteps, Locked, Deciding
<1>4. ~NoReruns /\ "WaitStartTime" \in Statuses
  BY <1>3, NotNone DEF IInv, CancelsKept
<1>5. QED BY <1>1, <1>2, <1>3, <1>4, JobStep

LEMMA Frees == ASSUME IInv, NEW w \in Workers, FreeJcr(w) PROVE IInv'
<1> USE DEF queues, adders, scan, life
<1> DEFINE j == cur[w]
<1>1. /\ UNCHANGED <<waiting, ready, running, sched, num_workers, todo, status, acquired, num,
                     restart, cancel, valid, destroy>>
      /\ pc[w] \in Dropping /\ MutexFree
      /\ pc' = [pc EXCEPT ![w] = "ready"] /\ cur' = [cur EXCEPT ![w] = NoJob]
      /\ use' = [use EXCEPT ![j] = use[j] - 1]
  BY DEF FreeJcr, Dropping
<1>2. j \in Jobs
  BY <1>1 DEF IInv, WorkersKept, Stages
<1>3. /\ pc'[w] = "ready" /\ cur'[w] = NoJob
      /\ \A v \in Workers : v # w => pc'[v] = pc[v] /\ cur'[v] = cur[v]
      /\ use'[j] = use[j] - 1 /\ \A i \in Jobs : i # j => use'[i] = use[i]
  BY <1>1, <1>2 DEF IInv, Types
<1>4. Types'
  <2>1. pc' \in [Workers -> WorkerSteps]
    BY <1>1 DEF IInv, Types, WorkerSteps, Locked
  <2>2. cur' \in [Workers -> Jobs \union {NoJob}]
    BY <1>1 DEF IInv, Types
  <2>3. use' \in [Jobs -> Int]
    BY <1>1, <1>2 DEF IInv, Types
  <2>4. QED BY <1>1, <2>1, <2>2, <2>3 DEF IInv, Types
<1>5. Lists' /\ Placed' = Placed
  BY <1>1 DEF IInv, Lists, Placed
<1>6. OneHolder'
  <2>1. todo = <<>>
    BY <1>1, FreeNoScan
  <2>2. QED BY <1>1, <1>3, <2>1 DEF IInv, OneHolder, MutexFree, Locked
<1>7. \A v \in Workers : /\ pc'[v] \in Engine <=> pc[v] \in Engine
                         /\ pc'[v] \in Deciding <=> pc[v] \in Deciding
                         /\ pc'[v] \in Engine \union Deciding => v # w
                         /\ pc'[v] = "engine" <=> pc[v] = "engine"
                         /\ pc'[v] = "run" <=> pc[v] = "run"
                         /\ pc'[v] = "none" <=> pc[v] = "none"
  BY <1>1, <1>3 DEF Engine, Deciding, Dropping
<1>8. WorkersKept'
  <2>1. \A v \in Workers : cur'[v] \in Jobs <=> pc'[v] \in Stages
    BY <1>3, JobsAssumption DEF IInv, WorkersKept, Stages, Engine, Deciding, Dropping
  <2>2. \A i \in Range(running) : \E v \in Workers : pc'[v] \in Engine /\ cur'[v] = i
    BY <1>3, <1>7 DEF IInv, WorkersKept
  <2>3. QED BY <1>1, <1>3, <1>5, <1>7, <2>1, <2>2 DEF IInv, WorkersKept
<1>9. JobsKept'
  <2>1. \A v \in Workers : \A i \in Jobs : cur'[v] = i => cur[v] = i /\ pc'[v] = pc[v]
    BY <1>3, JobsAssumption
  <2>2. QED BY <1>1, <1>5, <2>1 DEF IInv, JobsKept
<1>10. Counters'
  BY <1>1 DEF IInv, Counters, Uses, Holders
<1>11. References'
  <2> SUFFICES ASSUME NEW i \in Jobs
               PROVE  use'[i] = In(i \in Placed) + Cardinality(Droppers(i)')
    BY <1>5 DEF References
  <2>1. use[i] = In(i \in Placed) + Cardinality(Droppers(i)) /\ In(i \in Placed) \in Int
    BY DEF IInv, References, In
  <2>2. CASE i # cur[w]
    <3>1. Droppers(i)' = Droppers(i)
      BY <1>3, <2>2, JobsAssumption DEF Droppers
    <3>2. QED BY <1>3, <2>1, <2>2, <3>1
  <2>3. CASE i = cur[w]
    <3>1. w \in Droppers(i) /\ w \notin Droppers(i)'
      BY <1>1, <1>3, <2>3, JobsAssumption DEF Droppers, Dropping, Engine
    <3>2. Droppers(i)' = Droppers(i) \ {w}
      BY <1>3, <3>1 DEF Droppers
    <3>3. IsFiniteSet(Droppers(i))
      BY JobsAssumption, FS_Subset DEF Droppers
    <3>4. /\ Cardinality(Droppers(i) \ {w}) = Cardinality(Droppers(i)) - 1
          /\ Cardinality(Droppers(i)) \in Nat
      BY <3>1, <3>3, CountStep
    <3>5. QED BY <1>3, <2>1, <2>3, <3>2, <3>4
  <2>4. QED BY <2>2, <2>3
<1>12. CancelsKept'
  <2>1. Pending' = Pending
    BY <1>1, <1>3, <1>7 DEF Pending, Engine
  <2>2. QED BY <1>1, <1>7, <2>1 DEF IInv, CancelsKept, Canceled, Stopping
<1>13. StartsWithResources'
  BY <1>1, <1>3, <1>7 DEF IInv, StartsWithResources, Canceled, Engine
<1>14. Shutdown'
  <2>1. Threads' = Threads
    BY <1>7 DEF Threads
  <2>2. QED BY <1>1, <2>1 DEF IInv, Shutdown
<1>15. QED BY <1>4, <1>5, <1>6, <1>8, <1>9, <1>10, <1>11, <1>12, <1>13, <1>14 DEF IInv

-----------------------------------------------------------------------------
(* The resource counters.                                                  *)
LEMMA UsesFinite ==
    ASSUME NEW A, A \subseteq Jobs, NEW r
    PROVE  IsFiniteSet(Uses(A, r)) /\ Cardinality(Uses(A, r)) \in Nat
<1>0. IsFiniteSet(1..4)
  <2>1. 1 \in Int /\ 4 \in Int
    OBVIOUS
  <2>2. QED BY <2>1, FS_Interval, Zenon
<1>1. IsFiniteSet(A)
  BY JobsAssumption, FS_Subset
<1>2. IsFiniteSet(A \X (1..4))
  BY <1>0, <1>1, FS_Product
<1>3. Uses(A, r) \subseteq A \X (1..4)
  BY DEF Uses
<1>4. QED BY <1>2, <1>3, FS_Subset, FS_CardinalityType

(* What job j uses of r.                                                   *)
Share(j, r) == In(RStore[j] = r) + In(WStore[j] = r) + In(ClientCounter(j) = r) + In(JobRes[j] = r)

LEMMA ShareType == ASSUME NEW j, NEW r PROVE Share(j, r) \in Nat
BY DEF Share, In

LEMMA OneMore ==
    ASSUME NEW S, IsFiniteSet(S), NEW x, x \notin S, NEW b
    PROVE  /\ IsFiniteSet(IF b THEN S \union {x} ELSE S)
           /\ Cardinality(IF b THEN S \union {x} ELSE S) = Cardinality(S) + In(b)
           /\ Cardinality(S) \in Nat /\ In(b) \in Nat
<1>1. IsFiniteSet(S \union {x}) /\ Cardinality(S \union {x}) = Cardinality(S) + 1 /\ Cardinality(S) \in Nat
  BY CountStep
<1>2. CASE b
  BY <1>1, <1>2 DEF In
<1>3. CASE ~b
  BY <1>1, <1>3 DEF In
<1>4. QED BY <1>2, <1>3

LEMMA UsesStep ==
    ASSUME NEW A, A \subseteq Jobs, NEW j \in Jobs, j \notin A, NEW r
    PROVE  Cardinality(Uses(A \union {j}, r)) = Cardinality(Uses(A, r)) + Share(j, r)
<1> DEFINE U0 == Uses(A, r)
           U1 == IF RStore[j] = r THEN U0 \union {<<j, 1>>} ELSE U0
           U2 == IF WStore[j] = r THEN U1 \union {<<j, 2>>} ELSE U1
           U3 == IF ClientCounter(j) = r THEN U2 \union {<<j, 3>>} ELSE U2
           U4 == IF JobRes[j] = r THEN U3 \union {<<j, 4>>} ELSE U3
<1>1. \A k : <<j, k>> \notin U0
  BY DEF Uses
<1>2. Uses(A \union {j}, r) = U4
  <2>1. \A i \in A \union {j} : \A k \in 1..4 : <<i, k>> \in U4 <=> <<i, k>> \in Uses(A \union {j}, r)
    <3> SUFFICES ASSUME NEW i \in A \union {j}, NEW k \in 1..4
                 PROVE  <<i, k>> \in U4 <=> <<i, k>> \in Uses(A \union {j}, r)
      OBVIOUS
    <3>1. CASE i # j
      BY <3>1 DEF Uses
    <3>2. CASE i = j
      <4>1. <<i, k>> \in Uses(A \union {j}, r)
               <=> r = <<RStore[j], WStore[j], ClientCounter(j), JobRes[j]>>[k]
        BY <3>2 DEF Uses
      <4>2. CASE k = 1
        BY <1>1, <3>2, <4>1, <4>2
      <4>3. CASE k = 2
        BY <1>1, <3>2, <4>1, <4>3
      <4>4. CASE k = 3
        BY <1>1, <3>2, <4>1, <4>4
      <4>5. CASE k = 4
        BY <1>1, <3>2, <4>1, <4>5
      <4>6. QED BY <4>2, <4>3, <4>4, <4>5
    <3>3. QED BY <3>1, <3>2
  <2>2. Uses(A \union {j}, r) \subseteq (A \union {j}) \X (1..4)
    BY DEF Uses
  <2>3. U4 \subseteq (A \union {j}) \X (1..4)
    <3>1. U0 \subseteq (A \union {j}) \X (1..4)
      BY DEF Uses
    <3>2. {<<j, 1>>, <<j, 2>>, <<j, 3>>, <<j, 4>>} \subseteq (A \union {j}) \X (1..4)
      OBVIOUS
    <3>3. QED BY <3>1, <3>2
  <2> HIDE DEF U4
  <2>4. ASSUME NEW u \in (A \union {j}) \X (1..4) PROVE u \in U4 <=> u \in Uses(A \union {j}, r)
    <3>1. u = <<u[1], u[2]>> /\ u[1] \in A \union {j} /\ u[2] \in 1..4
      OBVIOUS
    <3>2. <<u[1], u[2]>> \in U4 <=> <<u[1], u[2]>> \in Uses(A \union {j}, r)
      BY <2>1, <3>1
    <3>3. QED BY <3>1, <3>2
  <2>5. QED BY <2>2, <2>3, <2>4, Zenon
<1>3. IsFiniteSet(U0) /\ Cardinality(U0) \in Nat
  BY UsesFinite
<1>4. <<j, 1>> \notin U0 /\ <<j, 2>> \notin U1 /\ <<j, 3>> \notin U2 /\ <<j, 4>> \notin U3
  BY <1>1
<1> HIDE DEF U0
<1>5. IsFiniteSet(U1) /\ Cardinality(U1) = Cardinality(U0) + In(RStore[j] = r)
  BY <1>3, <1>4, OneMore
<1> HIDE DEF U1
<1>6. IsFiniteSet(U2) /\ Cardinality(U2) = Cardinality(U1) + In(WStore[j] = r)
  BY <1>4, <1>5, OneMore
<1> HIDE DEF U2
<1>7. IsFiniteSet(U3) /\ Cardinality(U3) = Cardinality(U2) + In(ClientCounter(j) = r)
  BY <1>4, <1>6, OneMore
<1> HIDE DEF U3
<1>8. IsFiniteSet(U4) /\ Cardinality(U4) = Cardinality(U3) + In(JobRes[j] = r)
  BY <1>4, <1>7, OneMore
<1> HIDE DEF U4
<1>9. /\ In(RStore[j] = r) \in Nat /\ In(WStore[j] = r) \in Nat
      /\ In(ClientCounter(j) = r) \in Nat /\ In(JobRes[j] = r) \in Nat
  BY DEF In
<1>10. Cardinality(U4) = Cardinality(U0) + Share(j, r)
  BY <1>3, <1>5, <1>6, <1>7, <1>8, <1>9 DEF Share
<1>11. QED BY <1>2, <1>10 DEF U0

LEMMA IncDec ==
    ASSUME NEW n \in [Resources -> Int], NEW x \in Resources \union {NoRes}
    PROVE  /\ Inc(n, x) \in [Resources -> Int] /\ Dec(n, x) \in [Resources -> Int]
           /\ \A r \in Resources : /\ Inc(n, x)[r] = n[r] + In(x = r)
                                   /\ Dec(n, x)[r] = n[r] - In(x = r)
BY JobsAssumption DEF Inc, Dec, In

LEMMA JobResources ==
    ASSUME NEW j \in Jobs
    PROVE  /\ RStore[j] \in Resources \union {NoRes} /\ WStore[j] \in Resources \union {NoRes}
           /\ ClientCounter(j) \in Resources \union {NoRes}
           /\ JobRes[j] \in Resources \union {NoRes} /\ Client[j] \in Resources \union {NoRes}
           /\ ClientCounter(j) \in {NoRes, Client[j]}
BY JobsAssumption DEF ClientCounter

LEMMA ReleaseAll ==
    ASSUME NEW j \in Jobs, num \in [Resources -> Int], acquired[j]
    PROVE  /\ Released(j) \in [Resources -> Int]
           /\ \A r \in Resources : Released(j)[r] = num[r] - Share(j, r)
<1> DEFINE n1 == Dec(num, RStore[j])
           n2 == Dec(n1, WStore[j])
           n3 == Dec(n2, ClientCounter(j))
           n4 == Dec(n3, JobRes[j])
<1>1. n1 \in [Resources -> Int] /\ \A r \in Resources : n1[r] = num[r] - In(RStore[j] = r)
  BY IncDec, JobResources
<1>2. n2 \in [Resources -> Int] /\ \A r \in Resources : n2[r] = n1[r] - In(WStore[j] = r)
  <2> HIDE DEF n1
  <2>1. QED BY <1>1, IncDec, JobResources
<1>3. n3 \in [Resources -> Int] /\ \A r \in Resources : n3[r] = n2[r] - In(ClientCounter(j) = r)
  <2> HIDE DEF n2
  <2>1. QED BY <1>2, IncDec, JobResources
<1>4. n4 \in [Resources -> Int] /\ \A r \in Resources : n4[r] = n3[r] - In(JobRes[j] = r)
  <2> HIDE DEF n3
  <2>1. QED BY <1>3, IncDec, JobResources
<1>5. Released(j) = n4
  BY DEF Released
<1> HIDE DEF n1, n2, n3, n4
<1>6. ASSUME NEW r \in Resources PROVE n4[r] = num[r] - Share(j, r)
  <2>1. /\ In(RStore[j] = r) \in Nat /\ In(WStore[j] = r) \in Nat
        /\ In(ClientCounter(j) = r) \in Nat /\ In(JobRes[j] = r) \in Nat
    BY DEF In
  <2>2. /\ n4[r] = n3[r] - In(JobRes[j] = r) /\ n3[r] = n2[r] - In(ClientCounter(j) = r)
        /\ n2[r] = n1[r] - In(WStore[j] = r) /\ n1[r] = num[r] - In(RStore[j] = r)
        /\ num[r] \in Int
    BY <1>1, <1>2, <1>3, <1>4
  <2>3. QED BY <2>1, <2>2 DEF Share
<1>7. QED BY <1>4, <1>5, <1>6

(* A failed acquisition leaves the counters as they were, a successful one *)
(* takes the job's share and finds room for it.                            *)
LEMMA AcquireAll ==
    ASSUME NEW j \in Jobs, num \in [Resources -> Int], \A r \in Resources : num[r] <= Limit[r]
    PROVE  LET got == acquire_resources(j)
           IN  /\ got.wait \in {"none", "WaitStoreRes", "WaitClientRes", "WaitJobRes"}
               /\ got.wait # "none" => got.num = num
               /\ got.wait = "none" => /\ got.num \in [Resources -> Int]
                                       /\ \A r \in Resources : /\ got.num[r] = num[r] + Share(j, r)
                                                               /\ got.num[r] <= Limit[r]
<1> DEFINE R == RStore[j]
           W == WStore[j]
           C == ClientCounter(j)
           J == JobRes[j]
           n1 == Inc(num, R)
           n2 == Inc(n1, W)
           n3 == Inc(n2, C)
           n4 == Inc(n3, J)
           b1 == Dec(n1, R)
           b2 == Dec(Dec(n2, W), R)
           b3 == Dec(Dec(Dec(n3, W), R), C)
<1>1. /\ R \in Resources \union {NoRes} /\ W \in Resources \union {NoRes}
      /\ C \in Resources \union {NoRes} /\ J \in Resources \union {NoRes}
      /\ Client[j] \in Resources \union {NoRes} /\ C \in {NoRes, Client[j]}
  BY JobResources
<1> DEFINE got == acquire_resources(j)
<1>2. got = IF ~HasRoom(num, R) THEN [wait |-> "WaitStoreRes", num |-> num]
            ELSE IF ~HasRoom(n1, W) THEN [wait |-> "WaitStoreRes", num |-> b1]
            ELSE IF ~HasRoom(n2, Client[j]) THEN [wait |-> "WaitClientRes", num |-> b2]
            ELSE IF ~HasRoom(n3, J) THEN [wait |-> "WaitJobRes", num |-> b3]
            ELSE [wait |-> "none", num |-> n4]
  BY DEF acquire_resources
<1> HIDE DEF got, R, W, C, J
<1>3. n1 \in [Resources -> Int] /\ \A r \in Resources : n1[r] = num[r] + In(R = r)
  BY <1>1, IncDec
<1>4. n2 \in [Resources -> Int] /\ \A r \in Resources : n2[r] = n1[r] + In(W = r)
  <2> HIDE DEF n1
  <2>1. QED BY <1>1, <1>3, IncDec
<1>5. n3 \in [Resources -> Int] /\ \A r \in Resources : n3[r] = n2[r] + In(C = r)
  <2> HIDE DEF n2
  <2>1. QED BY <1>1, <1>4, IncDec
<1>6. n4 \in [Resources -> Int] /\ \A r \in Resources : n4[r] = n3[r] + In(J = r)
  <2> HIDE DEF n3
  <2>1. QED BY <1>1, <1>5, IncDec
<1>7. ASSUME NEW r
      PROVE  In(R = r) \in Nat /\ In(W = r) \in Nat /\ In(C = r) \in Nat /\ In(J = r) \in Nat
  BY DEF In
<1> HIDE DEF n1, n2, n3, n4
<1>8. b1 = num
  <2>1. b1 \in [Resources -> Int] /\ \A r \in Resources : b1[r] = n1[r] - In(R = r)
    BY <1>1, <1>3, IncDec
  <2> HIDE DEF b1
  <2>2. ASSUME NEW r \in Resources PROVE b1[r] = num[r]
    <3>1. In(R = r) \in Nat
      BY <1>7
    <3>2. QED BY <1>3, <2>1, <3>1
  <2>3. QED BY <2>1, <2>2
<1>9. b2 = num
  <2> DEFINE d1 == Dec(n2, W)
  <2>1. d1 \in [Resources -> Int] /\ \A r \in Resources : d1[r] = n2[r] - In(W = r)
    BY <1>1, <1>4, IncDec
  <2> HIDE DEF d1
  <2>2. b2 = Dec(d1, R)
    BY DEF d1
  <2> HIDE DEF b2
  <2>3. b2 \in [Resources -> Int] /\ \A r \in Resources : b2[r] = d1[r] - In(R = r)
    BY <1>1, <2>1, <2>2, IncDec
  <2>4. ASSUME NEW r \in Resources PROVE b2[r] = num[r]
    <3>1. /\ b2[r] = d1[r] - In(R = r) /\ d1[r] = n2[r] - In(W = r)
          /\ n2[r] = n1[r] + In(W = r) /\ n1[r] = num[r] + In(R = r) /\ num[r] \in Int
      BY <1>3, <1>4, <2>1, <2>3
    <3>2. In(R = r) \in Nat /\ In(W = r) \in Nat /\ In(C = r) \in Nat
      BY <1>7
    <3>3. QED BY <3>1, <3>2
  <2>5. QED BY <2>3, <2>4
<1>10. b3 = num
  <2> DEFINE d1 == Dec(n3, W)
             d2 == Dec(d1, R)
  <2>1. d1 \in [Resources -> Int] /\ \A r \in Resources : d1[r] = n3[r] - In(W = r)
    BY <1>1, <1>5, IncDec
  <2>2. d2 \in [Resources -> Int] /\ \A r \in Resources : d2[r] = d1[r] - In(R = r)
    <3> HIDE DEF d1
    <3>1. QED BY <1>1, <2>1, IncDec
  <2>3. b3 = Dec(d2, C)
    OBVIOUS
  <2> HIDE DEF b3, d1, d2
  <2>4. b3 \in [Resources -> Int] /\ \A r \in Resources : b3[r] = d2[r] - In(C = r)
    BY <1>1, <2>2, <2>3, IncDec
  <2>5. ASSUME NEW r \in Resources PROVE b3[r] = num[r]
    <3>1. /\ b3[r] = d2[r] - In(C = r) /\ d2[r] = d1[r] - In(R = r) /\ d1[r] = n3[r] - In(W = r)
          /\ n3[r] = n2[r] + In(C = r)
          /\ n2[r] = n1[r] + In(W = r) /\ n1[r] = num[r] + In(R = r) /\ num[r] \in Int
      BY <1>3, <1>4, <1>5, <2>1, <2>2, <2>4
    <3>2. In(R = r) \in Nat /\ In(W = r) \in Nat /\ In(C = r) \in Nat
      BY <1>7
    <3>3. QED BY <3>1, <3>2
  <2>6. QED BY <2>4, <2>5
<1> HIDE DEF b1, b2, b3
<1>11. ASSUME HasRoom(num, R), HasRoom(n1, W), HasRoom(n2, Client[j]), HasRoom(n3, J),
              NEW r \in Resources
       PROVE  n4[r] = num[r] + Share(j, r) /\ n4[r] <= Limit[r]
  <2>1. /\ n4[r] = n3[r] + In(J = r) /\ n3[r] = n2[r] + In(C = r)
        /\ n2[r] = n1[r] + In(W = r) /\ n1[r] = num[r] + In(R = r) /\ num[r] \in Int
        /\ Limit[r] \in Int
    BY <1>3, <1>4, <1>5, <1>6, JobsAssumption
  <2>2. n4[r] = num[r] + Share(j, r)
    <3>1. In(R = r) \in Nat /\ In(W = r) \in Nat /\ In(C = r) \in Nat /\ In(J = r) \in Nat
      BY <1>7
    <3>2. Share(j, r) = In(R = r) + In(W = r) + In(C = r) + In(J = r)
      BY DEF Share, R, W, C, J
    <3>3. QED BY <2>1, <3>1, <3>2
  <2>3. n1[r] <= Limit[r]
    BY <1>11, <2>1, JobsAssumption DEF HasRoom, In
  <2>4. n2[r] <= Limit[r]
    BY <1>11, <2>1, <2>3, JobsAssumption DEF HasRoom, In
  <2>5. n3[r] <= Limit[r]
    BY <1>1, <1>11, <2>1, <2>4, JobsAssumption DEF HasRoom, In
  <2>6. n4[r] <= Limit[r]
    BY <1>11, <2>1, <2>5, JobsAssumption DEF HasRoom, In
  <2>7. QED BY <2>2, <2>6
<1>12. /\ got.wait \in {"none", "WaitStoreRes", "WaitClientRes", "WaitJobRes"}
       /\ got.wait # "none" => got.num = num
       /\ got.wait = "none" => /\ HasRoom(num, R) /\ HasRoom(n1, W) /\ HasRoom(n2, Client[j])
                               /\ HasRoom(n3, J) /\ got.num = n4
  BY <1>2, <1>8, <1>9, <1>10
<1>13. got.wait = "none" => /\ got.num \in [Resources -> Int]
                            /\ \A r \in Resources : /\ got.num[r] = num[r] + Share(j, r)
                                                    /\ got.num[r] <= Limit[r]
  BY <1>6, <1>11, <1>12
<1>14. QED BY <1>12, <1>13 DEF got

-----------------------------------------------------------------------------
(* start_server: the workers other than those in p stay, one may start.    *)
StartsOnly(p) ==
    /\ pc' \in [Workers -> WorkerSteps]
    /\ \A v \in Workers : pc'[v] = p[v] \/ (p[v] = "none" /\ pc'[v] = "start")
    /\ num_workers' = Cardinality(Threads')

LEMMA Starts ==
    ASSUME IInv, NEW p \in [Workers -> WorkerSteps], start_server(p),
           \A v \in Workers : p[v] = "none" <=> pc[v] = "none"
    PROVE  StartsOnly(p)
<1>1. IsFiniteSet(Threads) /\ num_workers = Cardinality(Threads)
  BY JobsAssumption, FS_Subset DEF Threads, IInv, Shutdown
<1>2. CASE CanStart
  <2>1. PICK u \in Workers : /\ pc[u] = "none" /\ pc' = [p EXCEPT ![u] = "start"]
                             /\ num_workers' = num_workers + 1
    BY <1>2 DEF start_server
  <2>2. /\ pc' \in [Workers -> WorkerSteps] /\ pc'[u] = "start"
        /\ \A v \in Workers : v # u => pc'[v] = p[v]
    BY <2>1 DEF WorkerSteps
  <2>3. Threads' = Threads \union {u} /\ u \notin Threads
    BY <2>1, <2>2 DEF Threads
  <2>4. Cardinality(Threads \union {u}) = Cardinality(Threads) + 1
    BY <1>1, <2>3, CountStep
  <2>5. QED BY <1>1, <2>1, <2>2, <2>3, <2>4 DEF StartsOnly
<1>3. CASE ~CanStart
  <2>1. pc' = p /\ num_workers' = num_workers
    BY <1>3 DEF start_server
  <2>2. Threads' = Threads
    BY <2>1 DEF Threads
  <2>3. QED BY <1>1, <2>1, <2>2 DEF StartsOnly
<1>4. QED BY <1>2, <1>3

LEMMA Takes == ASSUME IInv, NEW w \in Workers, TakeReady(w) PROVE IInv'
<1> USE DEF adders, scan, jcr, life
<1> DEFINE j == Head(ready)
           p == [pc EXCEPT ![w] = "engine"]
<1>1. /\ UNCHANGED <<waiting, sched, todo, status, acquired, num, use, restart, cancel, valid, destroy>>
      /\ pc[w] = "ready" /\ ready # <<>>
      /\ cur' = [cur EXCEPT ![w] = j]
      /\ ready' = Tail(ready) /\ running' = Append(running, j)
  BY DEF TakeReady
<1>2. /\ ready \in Seq(Jobs) /\ running \in Seq(Jobs) /\ IsInjective(ready) /\ IsInjective(running)
      /\ Range(ready) \intersect Range(running) = {}
  BY DEF IInv, Types, Lists
<1>3. /\ j \in Jobs /\ j \in Range(ready) /\ ready' \in Seq(Jobs)
      /\ IsInjective(ready') /\ Range(ready') = Range(ready) \ {j}
  BY <1>1, <1>2, TailList
<1>4. /\ running' \in Seq(Jobs) /\ Range(running') = Range(running) \union {j}
      /\ IsInjective(running')
  <2>1. j \notin Range(running)
    BY <1>2, <1>3
  <2> HIDE DEF j
  <2>2. QED BY <1>1, <1>2, <1>3, <2>1, AppendList
<1>5. StartsOnly(p)
  <2>1. p \in [Workers -> WorkerSteps] /\ \A v \in Workers : p[v] = "none" <=> pc[v] = "none"
    BY <1>1 DEF IInv, Types, WorkerSteps
  <2>2. CASE Tail(ready) # <<>>
    <3>1. start_server(p)
      BY <2>2 DEF TakeReady
    <3>2. QED BY <2>1, <3>1, Starts
  <2>3. CASE Tail(ready) = <<>>
    <3>1. pc' = p /\ num_workers' = num_workers
      BY <2>3 DEF TakeReady
    <3>2. Threads' = Threads
      BY <2>1, <3>1 DEF Threads
    <3>3. QED BY <2>1, <3>1, <3>2 DEF StartsOnly, IInv, Shutdown
  <2>4. QED BY <2>2, <2>3
<1>6. /\ pc'[w] = "engine" /\ cur'[w] = j
      /\ \A v \in Workers : v # w =>
            /\ cur'[v] = cur[v]
            /\ pc'[v] = pc[v] \/ (pc[v] = "none" /\ pc'[v] = "start")
  BY <1>1, <1>5 DEF StartsOnly, IInv, Types
<1> HIDE DEF j, p
<1>7. Types'
  <2>1. cur' \in [Workers -> Jobs \union {NoJob}]
    BY <1>1, <1>3 DEF IInv, Types
  <2>2. QED BY <1>1, <1>3, <1>4, <1>5, <2>1 DEF IInv, Types, StartsOnly
<1>8. Lists'
  BY <1>1, <1>3, <1>4 DEF IInv, Lists
<1>9. Placed' = Placed
  BY <1>1, <1>3, <1>4 DEF Placed
<1>10. OneHolder'
  <2>1. \A v \in Workers : pc'[v] \in Locked => pc[v] \in Locked
    BY <1>6 DEF Locked
  <2>2. \A v \in Workers : pc[v] \in Scanning => pc'[v] \in Scanning
    BY <1>1, <1>6 DEF Scanning
  <2>3. \A v \in Workers : pc'[v] = "refused" => pc[v] = "refused"
    BY <1>6
  <2>4. QED BY <1>1, <2>1, <2>2, <2>3 DEF IInv, OneHolder
<1>11. \A v \in Workers : v # w => /\ pc'[v] \in Engine <=> pc[v] \in Engine
                                   /\ pc'[v] \in Deciding <=> pc[v] \in Deciding
                                   /\ pc'[v] \in Dropping <=> pc[v] \in Dropping
                                   /\ pc'[v] \in Stages <=> pc[v] \in Stages
                                   /\ pc'[v] = "engine" <=> pc[v] = "engine"
                                   /\ pc'[v] = "run" <=> pc[v] = "run"
  BY <1>6 DEF Engine, Deciding, Dropping, Stages
<1>12. pc'[w] \in Engine /\ pc'[w] \in Stages /\ pc'[w] \notin Deciding /\ pc[w] \notin Stages
       /\ pc[w] \notin Engine /\ cur[w] \notin Jobs
  BY <1>1, <1>6 DEF Engine, Deciding, Dropping, Stages, IInv, WorkersKept
<1>13. \A v \in Workers : pc[v] \in Engine \union Deciding => cur[v] # j
  BY <1>2, <1>3 DEF IInv, WorkersKept, Placed
<1>14. WorkersKept'
  <2>1. \A v \in Workers : cur'[v] \in Jobs <=> pc'[v] \in Stages
    BY <1>3, <1>6, <1>11, <1>12 DEF IInv, WorkersKept
  <2>2. \A v \in Workers : pc'[v] \in Engine => cur'[v] \in Range(running')
    BY <1>4, <1>6, <1>11 DEF IInv, WorkersKept
  <2>3. \A i \in Range(running') : \E v \in Workers : pc'[v] \in Engine /\ cur'[v] = i
    BY <1>4, <1>6, <1>11, <1>12 DEF IInv, WorkersKept
  <2>4. \A v \in Workers : pc'[v] \in Deciding => cur'[v] \notin Placed'
    BY <1>6, <1>9, <1>11, <1>12 DEF IInv, WorkersKept
  <2>5. \A u, v \in Workers :
           pc'[u] \in Engine \union Deciding /\ pc'[v] \in Engine \union Deciding /\ cur'[u] = cur'[v]
              => u = v
    BY <1>6, <1>11, <1>13 DEF IInv, WorkersKept
  <2>6. QED BY <2>1, <2>2, <2>3, <2>4, <2>5 DEF WorkersKept
<1>15. JobsKept'
  <2>1. j \in Placed
    BY <1>3 DEF Placed
  <2>2. QED BY <1>1, <1>3, <1>4, <1>6, <1>9, <1>11, <2>1 DEF IInv, JobsKept
<1>16. Counters'
  BY <1>1 DEF IInv, Counters, Uses, Holders
<1>17. References'
  <2>1. \A i \in Jobs : Droppers(i)' = Droppers(i)
    BY <1>6, <1>11, <1>12 DEF Droppers
  <2>2. QED BY <1>1, <1>9, <2>1 DEF IInv, References
<1>18. CancelsKept'
  <2>1. Pending' = Pending
    BY <1>1, <1>3, <1>6, <1>11, <1>12 DEF Pending, Engine
  <2>2. QED BY <1>1, <1>11, <1>12, <2>1 DEF IInv, CancelsKept, Canceled, Stopping
<1>19. StartsWithResources'
  BY <1>1, <1>3, <1>6, <1>11 DEF IInv, StartsWithResources, Canceled, Engine
<1>20. Shutdown'
  <2>1. w \in Threads /\ IsFiniteSet(Threads)
    BY <1>1, JobsAssumption, FS_Subset DEF Threads
  <2>2. num_workers > 0
    BY <2>1, CountStep DEF IInv, Shutdown
  <2>3. QED BY <1>1, <1>5, <2>2 DEF IInv, Shutdown, StartsOnly
<1>21. QED BY <1>7, <1>8, <1>10, <1>14, <1>15, <1>16, <1>17, <1>18, <1>19, <1>20 DEF IInv

LEMMA Done == ASSUME IInv, NEW w \in Workers, JobDone(w) PROVE IInv'
<1> USE DEF adders, scan, life
<1>0. PICK j : j = cur[w]
  OBVIOUS
<1>1. /\ UNCHANGED <<waiting, ready, sched, cur, num_workers, todo, status, use, restart, cancel,
                     valid, destroy>>
      /\ pc[w] = "done" /\ MutexFree
      /\ running' = RemoveFirst(running, j)
      /\ num' = Released(j)
      /\ acquired' = [acquired EXCEPT ![j] = FALSE]
  BY <1>0 DEF JobDone, Enter, ClearLocks
<1>2. PICK p \in {"resched", "free"} :
         pc' = [pc EXCEPT ![w] = p] /\ (p = "resched" => Reschedules(j))
  BY <1>0 DEF JobDone
<1>3. j \in Jobs /\ j \in Range(running)
  BY <1>0, <1>1 DEF IInv, WorkersKept, Stages, Engine
<1>4. /\ running' \in Seq(Jobs) /\ IsInjective(running') /\ Range(running') = Range(running) \ {j}
  BY <1>1, RemoveFirstList DEF IInv, Types, Lists
<1>5. /\ pc'[w] = p /\ \A v \in Workers : v # w => pc'[v] = pc[v]
      /\ ~acquired'[j] /\ \A i \in Jobs : i # j => acquired'[i] = acquired[i]
  BY <1>1, <1>2, <1>3 DEF IInv, Types
<1>6. j \notin Range(waiting) \union Range(ready) \union sched
  BY <1>3 DEF IInv, Lists
<1>7. \A v \in Workers : v # w /\ pc[v] \in Engine \union Deciding => cur[v] # j
  BY <1>0, <1>1 DEF IInv, WorkersKept, Engine
<1>8. Types'
  <2>1. pc' \in [Workers -> WorkerSteps]
    BY <1>2 DEF IInv, Types, WorkerSteps, Locked
  <2>2. acquired' \in [Jobs -> BOOLEAN]
    BY <1>1 DEF IInv, Types
  <2>3. num' \in [Resources -> Int]
    <3>1. CASE acquired[j]
      BY <1>1, <1>3, <3>1, ReleaseAll DEF IInv, Types
    <3>2. CASE ~acquired[j]
      BY <1>1, <3>2 DEF Released, IInv, Types
    <3>3. QED BY <3>1, <3>2
  <2>4. QED BY <1>1, <1>4, <2>1, <2>2, <2>3 DEF IInv, Types
<1>9. Lists'
  BY <1>1, <1>4 DEF IInv, Lists
<1>10. Placed' = Placed \ {j}
  BY <1>1, <1>4, <1>6 DEF Placed
<1>11. OneHolder'
  <2>1. todo = <<>>
    BY <1>1, FreeNoScan
  <2>2. QED BY <1>1, <1>5, <2>1 DEF IInv, OneHolder, MutexFree, Locked
<1>12. /\ pc[w] \in Engine /\ pc[w] \in Stages /\ pc[w] \notin Deciding
       /\ pc'[w] \notin Engine /\ pc'[w] \in Stages /\ pc'[w] \in Deciding \union Dropping
  BY <1>1, <1>5 DEF Engine, Deciding, Dropping, Stages
<1>13. WorkersKept'
  <2>1. \A v \in Workers : cur'[v] \in Jobs <=> pc'[v] \in Stages
    BY <1>1, <1>5, <1>12 DEF IInv, WorkersKept
  <2>2. \A v \in Workers : pc'[v] \in Engine => cur'[v] \in Range(running')
    BY <1>1, <1>4, <1>5, <1>7, <1>12 DEF IInv, WorkersKept
  <2>3. \A i \in Range(running') : \E v \in Workers : pc'[v] \in Engine /\ cur'[v] = i
    BY <1>0, <1>1, <1>4, <1>5 DEF IInv, WorkersKept
  <2>4. \A v \in Workers : pc'[v] \in Deciding => cur'[v] \notin Placed'
    BY <1>0, <1>1, <1>5, <1>10 DEF IInv, WorkersKept
  <2>5. \A u, v \in Workers :
           pc'[u] \in Engine \union Deciding /\ pc'[v] \in Engine \union Deciding /\ cur'[u] = cur'[v]
              => u = v
    BY <1>1, <1>5, <1>12 DEF IInv, WorkersKept
  <2>6. QED BY <2>1, <2>2, <2>3, <2>4, <2>5 DEF WorkersKept
<1>14. JobsKept'
  <2>1. \A i \in Jobs : status'[i] = "none" =>
           i \notin Placed' /\ cancel'[i].step = "none" /\ \A v \in Workers : cur'[v] # i
    BY <1>1, <1>10 DEF IInv, JobsKept
  <2>2. \A i \in Jobs : Clone[i] \in Jobs /\ status'[Clone[i]] # "none" => i # j
    BY <1>1, <1>3 DEF IInv, JobsKept, Placed
  <2>3. \A i \in Jobs : Clone[i] \in Jobs /\ status'[Clone[i]] # "none" =>
           /\ status'[i] # "none" /\ i \notin Placed'
           /\ \A v \in Workers : cur'[v] = i => pc'[v] \in Dropping
    BY <1>0, <1>1, <1>5, <1>10, <2>2 DEF IInv, JobsKept
  <2>4. \A i \in Jobs : acquired'[i] => i \in Range(ready') \union Range(running')
    BY <1>1, <1>4, <1>5 DEF IInv, JobsKept
  <2>5. QED BY <2>1, <2>3, <2>4 DEF JobsKept
<1>15. Counters'
  <2>1. CASE acquired[j]
    <3>1. Holders = Holders' \union {j} /\ j \notin Holders' /\ Holders' \subseteq Jobs
      BY <1>3, <1>5, <2>1 DEF Holders
    <3>2. \A r \in Resources : num'[r] = num[r] - Share(j, r)
      BY <1>1, <1>3, <2>1, ReleaseAll DEF IInv, Types
    <3>3. ASSUME NEW r \in Resources
          PROVE  num'[r] = Cardinality(Uses(Holders', r)) /\ num'[r] <= Limit[r]
      <4>1. Cardinality(Uses(Holders' \union {j}, r)) = Cardinality(Uses(Holders', r)) + Share(j, r)
        BY <1>3, <3>1, UsesStep
      <4>2. num[r] = Cardinality(Uses(Holders' \union {j}, r)) /\ num[r] <= Limit[r]
        BY <3>1 DEF IInv, Counters
      <4>3. Cardinality(Uses(Holders', r)) \in Nat /\ Share(j, r) \in Nat /\ Limit[r] \in Nat
        BY <3>1, UsesFinite, ShareType, JobsAssumption
      <4>4. QED BY <3>2, <4>1, <4>2, <4>3
    <3>4. QED BY <3>3 DEF Counters, Uses
  <2>2. CASE ~acquired[j]
    <3>1. Holders' = Holders /\ num' = num
      BY <1>1, <1>5, <2>2 DEF Holders, Released
    <3>2. QED BY <3>1 DEF IInv, Counters, Uses
  <2>3. QED BY <2>1, <2>2
<1>16. References'
  <2> SUFFICES ASSUME NEW i \in Jobs
               PROVE  use'[i] = In(i \in Placed') + Cardinality(Droppers(i)')
    BY DEF References
  <2>1. use[i] = In(i \in Placed) + Cardinality(Droppers(i)) /\ use' = use
    BY <1>1 DEF IInv, References
  <2>2. CASE i # j
    <3>1. Droppers(i)' = Droppers(i)
      BY <1>0, <1>1, <1>5, <2>2 DEF Droppers
    <3>2. (i \in Placed') = (i \in Placed)
      BY <1>10, <2>2
    <3>3. QED BY <2>1, <3>1, <3>2
  <2>3. CASE i = j
    <3>1. Droppers(i)' = Droppers(i) \union {w} /\ w \notin Droppers(i)
      BY <1>0, <1>1, <1>5, <1>12, <2>3 DEF Droppers
    <3>2. IsFiniteSet(Droppers(i))
      BY JobsAssumption, FS_Subset DEF Droppers
    <3>3. /\ Cardinality(Droppers(i) \union {w}) = Cardinality(Droppers(i)) + 1
          /\ Cardinality(Droppers(i)) \in Nat
      BY <3>1, <3>2, CountStep
    <3>4. In(i \in Placed) = 1 /\ In(i \in Placed') = 0
      BY <1>3, <1>10, <2>3 DEF In, Placed
    <3>5. QED BY <2>1, <3>1, <3>3, <3>4
  <2>4. QED BY <2>2, <2>3
<1>17. CancelsKept'
  <2>1. Pending' = Pending
    BY <1>1, <1>5 DEF Pending
  <2>2. NoReruns => ~Reschedules(j)
    <3>1. NoReruns /\ status[j] = "Incomplete" => ~restart[j]
      BY <1>3, Zenon DEF IInv, CancelsKept
    <3>2. QED BY <3>1 DEF NoReruns, Reschedules
  <2>3. NoReruns => \A v \in Workers : pc'[v] \notin Deciding
    BY <1>2, <1>5, <2>2 DEF IInv, CancelsKept, Deciding
  <2>4. QED BY <1>1, <2>1, <2>3 DEF IInv, CancelsKept, Canceled, Stopping
<1>18. StartsWithResources'
  <2>1. Range(ready) \subseteq Jobs \ {j}
    BY <1>6, RangeElements DEF IInv, Types
  <2>2. \A v \in Workers : pc'[v] \in Engine => pc'[v] = pc[v] /\ cur[v] \in Jobs \ {j}
    BY <1>5, <1>7, <1>12 DEF IInv, WorkersKept, Stages
  <2>3. QED BY <1>1, <1>5, <2>1, <2>2 DEF IInv, StartsWithResources, Canceled, Engine
<1>19. Shutdown'
  <2>1. Threads' = Threads
    BY <1>1, <1>2, <1>5 DEF Threads
  <2>2. QED BY <1>1, <2>1 DEF IInv, Shutdown
<1>20. QED BY <1>8, <1>9, <1>11, <1>13, <1>14, <1>15, <1>16, <1>17, <1>18, <1>19 DEF IInv

-----------------------------------------------------------------------------
(* A waiting job goes to the ready list.                                   *)
MovesUp(j) ==
    /\ waiting' \in Seq(Jobs) /\ ready' \in Seq(Jobs) /\ running' = running /\ sched' = sched
    /\ IsInjective(waiting') /\ IsInjective(ready')
    /\ j \in Range(waiting)
    /\ Range(waiting') = Range(waiting) \ {j} /\ Range(ready') = Range(ready) \union {j}

LEMMA ToReady ==
    ASSUME IInv, NEW j \in Range(waiting), running' = running, sched' = sched,
           MoveToReady(j, <<j>> \o ready) \/ MoveToReady(j, Append(ready, j))
    PROVE  MovesUp(j)
<1>1. /\ waiting \in Seq(Jobs) /\ ready \in Seq(Jobs) /\ IsInjective(waiting) /\ IsInjective(ready)
      /\ j \notin Range(ready)
  BY DEF IInv, Types, Lists
<1>2. j \in Jobs
  BY <1>1, RangeElements
<1>3. waiting' = RemoveFirst(waiting, j) /\ ready' \in {<<j>> \o ready, Append(ready, j)}
  BY DEF MoveToReady
<1>4. /\ waiting' \in Seq(Jobs) /\ IsInjective(waiting') /\ Range(waiting') = Range(waiting) \ {j}
  BY <1>1, <1>3, RemoveFirstList
<1>5. /\ ready' \in Seq(Jobs) /\ IsInjective(ready') /\ Range(ready') = Range(ready) \union {j}
  <2>1. CASE ready' = <<j>> \o ready
    BY <1>1, <1>2, <2>1, PrependList
  <2>2. CASE ready' = Append(ready, j)
    BY <1>1, <1>2, <2>2, AppendList
  <2>3. QED BY <1>3, <2>1, <2>2
<1>6. QED BY <1>4, <1>5 DEF MovesUp

(* No worker moves but in its scan, and one may start.                     *)
WorkersStay ==
    /\ cur' = cur
    /\ \A v \in Workers : \/ pc'[v] = pc[v]
                          \/ pc[v] = "none" /\ pc'[v] = "start"
                          \/ pc[v] \in Scanning /\ pc'[v] \in Scanning

LEMMA StayStages ==
    ASSUME WorkersStay, NEW v \in Workers
    PROVE  /\ pc'[v] \in Engine <=> pc[v] \in Engine
           /\ pc'[v] \in Deciding <=> pc[v] \in Deciding
           /\ pc'[v] \in Dropping <=> pc[v] \in Dropping
           /\ pc'[v] \in Stages <=> pc[v] \in Stages
           /\ pc'[v] \in Locked <=> pc[v] \in Locked
           /\ pc'[v] \in Scanning <=> pc[v] \in Scanning
           /\ pc'[v] = "engine" <=> pc[v] = "engine"
           /\ pc'[v] = "run" <=> pc[v] = "run"
BY DEF WorkersStay, Engine, Deciding, Dropping, Stages, Locked, Scanning

LEMMA UpKeeps ==
    ASSUME IInv, NEW j \in Jobs, MovesUp(j), WorkersStay, use' = use
    PROVE  /\ Lists' /\ WorkersKept' /\ References'
           /\ Placed' = Placed /\ Pending' = Pending
<1>1. Lists'
  BY DEF IInv, Lists, MovesUp
<1>2. Placed' = Placed
  BY DEF Placed, MovesUp
<1>3. WorkersKept'
  BY <1>2, StayStages DEF IInv, WorkersKept, MovesUp, WorkersStay
<1>4. References'
  <2>1. \A i \in Jobs : Droppers(i)' = Droppers(i)
    BY StayStages DEF Droppers, WorkersStay
  <2>2. QED BY <1>2, <2>1 DEF IInv, References
<1>5. Pending' = Pending
  BY StayStages DEF Pending, MovesUp, WorkersStay
<1>6. QED BY <1>1, <1>2, <1>3, <1>4, <1>5

LEMMA RemovesQueued ==
    ASSUME IInv, NEW j \in Jobs, jobq_remove(j)
    PROVE  IInv'
<1> USE DEF queues, adders, workers, scan, jcr, life
<1>1. /\ UNCHANGED <<running, sched, cur, todo, status, acquired, num, use, restart, valid, destroy>>
      /\ cancel[j].step = "remove"
  BY DEF jobq_remove
<1>2. PICK t \in {"true", "false"} :
         /\ cancel' = [cancel EXCEPT ![j].step = t]
         /\ t = "true" => /\ MutexFree /\ Contains(waiting, j) /\ start_server(pc)
                          /\ MoveToReady(j, <<j>> \o ready)
         /\ t = "false" => UNCHANGED <<waiting, ready, pc, num_workers>>
  BY DEF jobq_remove, Step
<1>3. /\ cancel'[j].step = t /\ cancel'[j].cmd = cancel[j].cmd
      /\ \A i \in Jobs : i # j => cancel'[i] = cancel[i]
      /\ cancel' \in [Jobs -> [step : CancelSteps, cmd : {"cancel", "stop"}, queued : BOOLEAN]]
  BY <1>2 DEF IInv, Types, CancelSteps
<1>4. status[j] # "none" /\ ~NoCancels
  BY <1>1, ActiveStarted DEF IInv, CancelsKept
<1>5. NoReruns => Canceled(j)
  BY <1>1 DEF IInv, CancelsKept
<1>6. CASE t = "false"
  <2>1. Unmoved
    BY <1>1, <1>2, <1>6 DEF Unmoved
  <2>2. Types'
    BY <1>1, <1>3, <2>1 DEF IInv, Types, Unmoved
  <2>3. Marks(j)
    BY <1>1, <1>3, <1>4 DEF Marks
  <2>4. "stop" \notin Commands => cancel'[j].cmd # "stop"
    BY <1>3 DEF IInv, CancelsKept
  <2>5. NoReruns => status'[j] # "Incomplete"
    BY <1>1 DEF IInv, CancelsKept
  <2>6. Canceled(j)' <=> Canceled(j)
    BY <1>1 DEF Canceled
  <2>7. QED BY <1>3, <1>4, <1>6, <2>1, <2>2, <2>3, <2>4, <2>5, <2>6, MarksKeep DEF Stopping
<1>7. CASE t = "true"
  <2>1. /\ MutexFree /\ Contains(waiting, j) /\ start_server(pc)
        /\ MoveToReady(j, <<j>> \o ready)
    BY <1>2, <1>7
  <2>2. j \in Range(waiting)
    BY <2>1, RangeElements DEF IInv, Types
  <2>3. MovesUp(j)
    BY <1>1, <2>1, <2>2, ToReady
  <2>4. StartsOnly(pc)
    BY <2>1, Starts DEF IInv, Types
  <2>5. WorkersStay
    BY <1>1, <2>4 DEF WorkersStay, StartsOnly
  <2>6. Lists' /\ WorkersKept' /\ References' /\ Placed' = Placed /\ Pending' = Pending
    BY <1>1, <2>3, <2>5, UpKeeps
  <2>7. Types'
    BY <1>1, <1>3, <2>3, <2>4 DEF IInv, Types, MovesUp, StartsOnly
  <2>8. OneHolder'
    <3>1. todo = <<>>
      BY <2>1, FreeNoScan
    <3>2. \A v \in Workers : pc'[v] # "refused"
      BY <2>1, <2>4 DEF StartsOnly, MutexFree, Locked
    <3>3. QED BY <1>1, <2>5, <3>1, <3>2, EmptyList, StayStages DEF IInv, OneHolder
  <2>9. JobsKept'
    <3>1. \A i \in Jobs : status'[i] = "none" => cancel'[i].step = "none"
      BY <1>1, <1>3, <1>4 DEF IInv, JobsKept
    <3>2. \A i \in Jobs : acquired'[i] => i \in Range(ready') \union Range(running')
      BY <1>1, <2>3 DEF IInv, JobsKept, MovesUp
    <3>3. QED BY <1>1, <2>5, <2>6, <3>1, <3>2, StayStages DEF IInv, JobsKept
  <2>10. Counters'
    BY <1>1 DEF IInv, Counters, Uses, Holders
  <2>11. CancelsKept'
    <3>1. "stop" \notin Commands => \A i \in Jobs : cancel'[i].cmd # "stop"
      BY <1>3 DEF IInv, CancelsKept
    <3>2. NoReruns => \A v \in Workers : pc'[v] \notin Deciding
      BY <2>5, StayStages DEF IInv, CancelsKept
    <3>3. NoReruns => \A i \in Jobs : cancel'[i].step = "remove" => Canceled(i)'
      BY <1>1, <1>3, <1>7 DEF IInv, CancelsKept, Canceled
    <3>4. ASSUME NoReruns, NEW i \in Jobs, status'[i] = "Incomplete"
          PROVE  ~restart'[i] /\ cancel'[i].step \in {"daemons", "true", "false"}
      <4>1. ~restart[i] /\ cancel[i].step \in {"daemons", "true", "false"}
        BY <1>1, <3>4, Zenon DEF IInv, CancelsKept
      <4>2. restart' = restart
        BY <1>1
      <4>3. QED BY <1>3, <1>7, <4>1, <4>2
    <3>5. NoReruns /\ ~ScriptCancels =>
             \A i \in Pending' : Canceled(i)' => cancel'[i].step # "none" /\ ~Stopping(i)'
      BY <1>1, <1>3, <1>7, <2>6, PendingJobs DEF IInv, CancelsKept, Canceled, Stopping
    <3>6. QED BY <1>4, <3>1, <3>2, <3>3, <3>4, <3>5, Zenon DEF CancelsKept
  <2>12. StartsWithResources'
    <3>1. NoneRevived => Canceled(j)
      BY <1>4, <1>5 DEF NoneRevived
    <3>2. QED BY <1>1, <2>3, <2>5, <3>1, StayStages
              DEF IInv, StartsWithResources, Canceled, MovesUp
  <2>13. Shutdown'
    BY <1>1, <2>1, <2>4 DEF IInv, Shutdown, StartsOnly
  <2>14. QED BY <2>6, <2>7, <2>8, <2>9, <2>10, <2>11, <2>12, <2>13 DEF IInv
<1>8. QED BY <1>6, <1>7

-----------------------------------------------------------------------------
(* One turn of the scan.                                                   *)
LEMMA ScriptResult ==
    ASSUME IInv, NEW j \in Jobs, status[j] # "none", NEW s \in QueuedScript(j)
    PROVE  /\ s.status \in Statuses
           /\ Canceled(j) => job_canceled(s.status)
           /\ s.status = "Incomplete" => status[j] = "Incomplete"
           /\ ~ScriptCancels => (job_canceled(s.status) => Canceled(j))
<1>1. \/ s.status = status[j]
      \/ s.status = NewStatus(j, "WaitUser")
      \/ ScriptCancels /\ s.status = compareJobStatus(NewStatus(j, "Canceled"), "FatalError")
  <2>1. CASE j \notin Scripted
    BY <2>1 DEF QueuedScript
  <2>2. CASE j \in Scripted
    <3> DEFINE same == [qrun |-> qrun[j], status |-> status[j], prio |-> prio[j], go |-> TRUE]
               ran == [same EXCEPT !.qrun = "later"]
               v1 == [ran EXCEPT !.status = NewStatus(j, "WaitUser"), !.go = Canceled(j)]
               v2 == [ran EXCEPT !.status = compareJobStatus(NewStatus(j, "Canceled"), "FatalError")]
               v3 == [ran EXCEPT !.prio = 9999]
               notYet == [same EXCEPT !.go = Canceled(j)]
               verdict(c) == CASE c = 0 -> ran [] c = 1 -> v1 [] c = 2 -> v2 [] c = 3 -> v3
    <3>0. QueuedScript(j) = {verdict(c) : c \in ScriptCodes}
                               \union (IF qrun[j] = "later" THEN {notYet} ELSE {})
      <4> DEFINE All == {verdict(c) : c \in ScriptCodes}
                           \union (IF qrun[j] = "later" THEN {notYet} ELSE {})
                 None == {[same EXCEPT !.qrun = "never"]}
      <4>1. QueuedScript(j) = IF j \in Scripted THEN All ELSE None
        BY DEF QueuedScript
      <4> HIDE DEF All, None
      <4>2. QueuedScript(j) = All
        BY <2>2, <4>1
      <4>3. QED BY <4>2 DEF All
    <3>1. s = notYet \/ \E c \in ScriptCodes : s = verdict(c)
      <4> HIDE DEF verdict, notYet
      <4>1. QED BY <3>0
    <3>2. s \in {notYet, ran, v1, v3} \/ (2 \in ScriptCodes /\ s = v2)
      <4>1. ASSUME NEW c \in ScriptCodes, s = verdict(c)
            PROVE  s \in {ran, v1, v3} \/ (2 \in ScriptCodes /\ s = v2)
        <5> HIDE DEF ran, v1, v2, v3
        <5>1. c \in 0..3
          BY <4>1, JobsAssumption
        <5>2. QED BY <4>1, <5>1
      <4> HIDE DEF ran, v1, v2, v3, notYet, verdict
      <4>2. QED BY <3>1, <4>1
    <3>3. /\ notYet.status = status[j] /\ ran.status = status[j] /\ v3.status = status[j]
          /\ v1.status = NewStatus(j, "WaitUser")
          /\ v2.status = compareJobStatus(NewStatus(j, "Canceled"), "FatalError")
      OBVIOUS
    <3> HIDE DEF notYet, ran, v1, v2, v3
    <3>4. QED BY <2>2, <3>2, <3>3 DEF ScriptCancels
  <2>3. QED BY <2>1, <2>2
<1>2. status[j] \in Statuses
  BY DEF IInv, Types
<1>3. ASSUME s.status = NewStatus(j, "WaitUser")
      PROVE  /\ s.status \in Statuses /\ s.status \in {status[j], "WaitUser"}
             /\ Canceled(j) => job_canceled(s.status)
             /\ job_canceled(s.status) => Canceled(j)
  BY <1>2, <1>3, StatusStep, NotNone DEF NewStatus, Canceled, job_canceled
<1>4. ASSUME s.status = compareJobStatus(NewStatus(j, "Canceled"), "FatalError")
      PROVE  /\ s.status \in Statuses /\ s.status \in {status[j], "Canceled", "FatalError"}
             /\ Canceled(j) => job_canceled(s.status)
  <2>1. /\ NewStatus(j, "Canceled") \in Statuses
        /\ NewStatus(j, "Canceled") \in {status[j], "Canceled"}
        /\ Canceled(j) => job_canceled(NewStatus(j, "Canceled"))
    BY <1>2, StatusStep, NotNone DEF NewStatus, Canceled
  <2>2. QED BY <1>4, <2>1, StatusStep, NotNone
<1>5. QED BY <1>1, <1>2, <1>3, <1>4 DEF Canceled

(* What a turn does: the job stays, with a new status perhaps, or goes to  *)
(* the ready list, canceled or with its resources.  A job that is refused  *)
(* them may have been canceled when the turn ends.                         *)
Stays(w, j) ==
    /\ UNCHANGED <<waiting, ready, acquired, num>>
    /\ \/ pc' = [pc EXCEPT ![w] = "scan"] /\ todo' \in {Tail(todo), <<>>}
       \/ pc' = [pc EXCEPT ![w] = "refused"] /\ todo' = todo
Goes(w, j) == MovesUp(j) /\ todo' = Tail(todo) /\ pc' = [pc EXCEPT ![w] = "scan"]
GoesCanceled(w, j) ==
    Goes(w, j) /\ job_canceled(status'[j]) /\ UNCHANGED <<acquired, num>>
GoesWithResources(w, j) ==
    /\ Goes(w, j)
    /\ acquired' = [acquired EXCEPT ![j] = TRUE]
    /\ num' = acquire_resources(j).num /\ acquire_resources(j).wait = "none"

LEMMA ExamineDoes ==
    ASSUME IInv, NEW w \in Workers, Examine(w)
    PROVE  \E j \in Range(waiting) : \E t \in Statuses :
             /\ j \in Jobs /\ j = Head(todo) /\ ~acquired[j]
             /\ status' = [status EXCEPT ![j] = t]
             /\ Canceled(j) => job_canceled(t)
             /\ t = "Incomplete" => status[j] = "Incomplete"
             /\ ~ScriptCancels => (job_canceled(t) => Canceled(j))
             /\ Stays(w, j) \/ GoesCanceled(w, j) \/ GoesWithResources(w, j)
<1> DEFINE j == Head(todo)
           got == acquire_resources(j)
<1>1. todo # <<>>
  BY DEF Examine
<1>2. j \in Jobs /\ j \in Range(waiting)
  BY <1>1, TailList DEF IInv, Types, OneHolder
<1>3. ~acquired[j] /\ status[j] # "none"
  BY <1>2 DEF IInv, JobsKept, Lists, Placed
<1>4. /\ got.wait \in {"none", "WaitStoreRes", "WaitClientRes", "WaitJobRes"}
      /\ got.wait # "none" => got.num = num
  BY <1>2, AcquireAll DEF IInv, Types, Counters
<1>5. running' = running /\ sched' = sched
  BY DEF Examine, adders
<1>6. PICK s \in QueuedScript(j) :
        \/ /\ UNCHANGED <<waiting, ready, pc>> /\ todo' \in {Tail(todo), <<>>}
           /\ status' = [status EXCEPT ![j] = s.status] /\ UNCHANGED <<acquired, num>>
        \/ /\ todo' = <<>>
           /\ status' = [status EXCEPT ![j] = compareJobStatus(s.status, "WaitPriority")]
           /\ UNCHANGED <<waiting, ready, acquired, num, pc>>
        \/ /\ job_canceled(s.status)
           /\ MoveToReady(j, Append(ready, j)) /\ todo' = Tail(todo) /\ pc' = pc
           /\ status' = [status EXCEPT ![j] = s.status] /\ UNCHANGED <<acquired, num>>
        \/ /\ got.wait = "none" /\ num' = got.num
           /\ acquired' = [acquired EXCEPT ![j] = (got.wait = "none")]
           /\ MoveToReady(j, Append(ready, j)) /\ todo' = Tail(todo) /\ pc' = pc
           /\ status' = [status EXCEPT ![j] = s.status]
        \/ /\ got.wait # "none" /\ num' = got.num
           /\ acquired' = [acquired EXCEPT ![j] = (got.wait = "none")]
           /\ UNCHANGED <<waiting, ready>> /\ todo' = todo /\ pc' = [pc EXCEPT ![w] = "refused"]
           /\ status' = [status EXCEPT ![j] = compareJobStatus(s.status, got.wait)]
  BY DEF Examine
<1>7. /\ s.status \in Statuses
      /\ Canceled(j) => job_canceled(s.status)
      /\ s.status = "Incomplete" => status[j] = "Incomplete"
      /\ ~ScriptCancels => (job_canceled(s.status) => Canceled(j))
  BY <1>2, <1>3, ScriptResult
<1>8. ASSUME NEW x \in {"WaitPriority", "WaitStoreRes", "WaitClientRes", "WaitJobRes"}
      PROVE  /\ compareJobStatus(s.status, x) \in Statuses
             /\ job_canceled(compareJobStatus(s.status, x)) <=> job_canceled(s.status)
             /\ compareJobStatus(s.status, x) = "Incomplete" => s.status = "Incomplete"
  BY <1>7, StatusStep, NotNone DEF job_canceled
<1>9. acquired = [acquired EXCEPT ![j] = FALSE] /\ pc = [pc EXCEPT ![w] = "scan"]
  BY <1>2, <1>3 DEF IInv, Types, Examine
<1>10. \E t \in Statuses :
          /\ status' = [status EXCEPT ![j] = t]
          /\ Canceled(j) => job_canceled(t)
          /\ t = "Incomplete" => status[j] = "Incomplete"
          /\ ~ScriptCancels => (job_canceled(t) => Canceled(j))
          /\ Stays(w, j) \/ GoesCanceled(w, j) \/ GoesWithResources(w, j)
  <2> HIDE DEF j, got
  <2>1. ASSUME MoveToReady(j, Append(ready, j)) PROVE MovesUp(j)
    BY <1>2, <1>5, <2>1, ToReady
  <2>2. CASE /\ UNCHANGED <<waiting, ready, pc>> /\ todo' \in {Tail(todo), <<>>}
             /\ status' = [status EXCEPT ![j] = s.status] /\ UNCHANGED <<acquired, num>>
    BY <1>7, <1>9, <2>2 DEF Stays
  <2>3. CASE /\ todo' = <<>>
             /\ status' = [status EXCEPT ![j] = compareJobStatus(s.status, "WaitPriority")]
             /\ UNCHANGED <<waiting, ready, acquired, num, pc>>
    BY <1>7, <1>8, <1>9, <2>3 DEF Stays
  <2>4. CASE /\ job_canceled(s.status)
             /\ MoveToReady(j, Append(ready, j)) /\ todo' = Tail(todo) /\ pc' = pc
             /\ status' = [status EXCEPT ![j] = s.status] /\ UNCHANGED <<acquired, num>>
    <3>1. status'[j] = s.status
      BY <1>2, <2>4 DEF IInv, Types
    <3>2. GoesCanceled(w, j)
      BY <1>9, <2>1, <2>4, <3>1 DEF Goes, GoesCanceled
    <3>3. QED BY <1>7, <2>4, <3>2
  <2>5. CASE /\ got.wait = "none" /\ num' = got.num
             /\ acquired' = [acquired EXCEPT ![j] = (got.wait = "none")]
             /\ MoveToReady(j, Append(ready, j)) /\ todo' = Tail(todo) /\ pc' = pc
             /\ status' = [status EXCEPT ![j] = s.status]
    <3>1. (got.wait = "none") = TRUE
      BY <2>5
    <3>2. acquired' = [acquired EXCEPT ![j] = TRUE]
      BY <2>5, <3>1, Zenon
    <3>3. GoesWithResources(w, j)
      BY <1>9, <2>1, <2>5, <3>2 DEF Goes, GoesWithResources, got
    <3>4. QED BY <1>7, <2>5, <3>3
  <2>6. CASE /\ got.wait # "none" /\ num' = got.num
             /\ acquired' = [acquired EXCEPT ![j] = (got.wait = "none")]
             /\ UNCHANGED <<waiting, ready>> /\ todo' = todo /\ pc' = [pc EXCEPT ![w] = "refused"]
             /\ status' = [status EXCEPT ![j] = compareJobStatus(s.status, got.wait)]
    <3>1. (got.wait = "none") = FALSE
      BY <2>6
    <3>2. acquired' = acquired
      BY <1>9, <2>6, <3>1, Zenon
    <3>3. got.wait \in {"WaitPriority", "WaitStoreRes", "WaitClientRes", "WaitJobRes"}
      BY <1>4, <2>6
    <3>4. Stays(w, j)
      BY <1>4, <2>6, <3>2 DEF Stays
    <3>5. QED BY <1>7, <1>8, <2>6, <3>3, <3>4
  <2>7. QED BY <1>6, <2>2, <2>3, <2>4, <2>5, <2>6
<1> HIDE DEF j
<1>11. j = Head(todo)
  BY DEF j
<1>12. QED BY <1>2, <1>3, <1>10, <1>11

LEMMA RefusedDoes ==
    ASSUME IInv, NEW w \in Workers, Refused(w)
    PROVE  \E j \in Range(waiting) : \E t \in Statuses :
             /\ j \in Jobs /\ j = Head(todo) /\ ~acquired[j] /\ t = status[j]
             /\ status' = [status EXCEPT ![j] = t]
             /\ Stays(w, j) \/ GoesCanceled(w, j)
<1> USE DEF jcr
<1> DEFINE j == Head(todo)
<1>1. todo # <<>> /\ UNCHANGED <<running, sched, acquired, num, status>>
  BY DEF Refused, IInv, OneHolder, adders
<1>2. j \in Jobs /\ j \in Range(waiting)
  BY <1>1, TailList DEF IInv, Types, OneHolder
<1>3. ~acquired[j] /\ status[j] \in Statuses
  BY <1>2 DEF IInv, JobsKept, Lists, Placed, Types
<1>4. status' = [status EXCEPT ![j] = status[j]]
  BY <1>1 DEF IInv, Types
<1>5. Stays(w, j) \/ GoesCanceled(w, j)
  <2>1. ASSUME Canceled(j), MoveToReady(j, Append(ready, j)) PROVE GoesCanceled(w, j)
    <3>1. MovesUp(j)
      BY <1>1, <1>2, <2>1, ToReady
    <3>2. QED BY <1>1, <2>1, <3>1 DEF GoesCanceled, Goes, Refused, Canceled
  <2>2. QED BY <1>1, <2>1 DEF Refused, Stays
<1>6. QED BY <1>2, <1>3, <1>4, <1>5

LEMMA Examines == ASSUME IInv, NEW w \in Workers, Examine(w) \/ Refused(w) PROVE IInv'
<1> USE DEF adders, workers, life
<1>1. /\ UNCHANGED <<running, sched, cur, num_workers, use, restart, cancel, valid, destroy>>
      /\ pc[w] \in Scanning /\ todo # <<>>
  BY DEF Examine, Refused, jcr, Scanning, IInv, OneHolder
<1>2. PICK j \in Range(waiting), t \in Statuses :
             /\ j \in Jobs /\ j = Head(todo) /\ ~acquired[j]
             /\ status' = [status EXCEPT ![j] = t]
             /\ Canceled(j) => job_canceled(t)
             /\ t = "Incomplete" => status[j] = "Incomplete"
             /\ ~ScriptCancels => (job_canceled(t) => Canceled(j))
             /\ Stays(w, j) \/ GoesCanceled(w, j) \/ GoesWithResources(w, j)
  BY ExamineDoes, RefusedDoes DEF Canceled
<1>3. /\ status'[j] = t /\ \A i \in Jobs : i # j => status'[i] = status[i]
      /\ status' \in [Jobs -> Statuses \union {"none"}]
  BY <1>2 DEF IInv, Types
<1>4. /\ Tail(todo) \in Seq(Jobs) /\ <<>> \in Seq(Jobs)
      /\ IsInjective(Tail(todo)) /\ IsInjective(<<>>)
      /\ Range(Tail(todo)) = Range(todo) \ {j} /\ Range(<<>>) = {}
  BY <1>1, <1>2, TailList, EmptyList DEF IInv, Types, OneHolder
<1>5. /\ WorkersStay /\ pc' \in [Workers -> WorkerSteps]
      /\ \A v \in Workers : v # w => pc'[v] = pc[v]
      /\ pc'[w] \in Scanning /\ (pc'[w] = "refused" => todo' = todo)
  <2>1. PICK p \in Scanning : pc' = [pc EXCEPT ![w] = p] /\ (p = "refused" => todo' = todo)
    BY <1>2 DEF Stays, Goes, GoesCanceled, GoesWithResources, Scanning
  <2>2. pc \in [Workers -> WorkerSteps] /\ Scanning \subseteq WorkerSteps
    BY DEF IInv, Types, Scanning, WorkerSteps, Locked
  <2>3. QED BY <1>1, <2>1, <2>2 DEF WorkersStay
<1>6. /\ Lists' /\ WorkersKept' /\ References'
      /\ Placed' = Placed /\ Pending' = Pending
  <2>1. CASE Stays(w, j)
    <3>1. UNCHANGED <<waiting, ready, running, sched, cur, use>>
      BY <1>1, <2>1 DEF Stays
    <3>2. Lists' /\ Placed' = Placed
      BY <3>1 DEF IInv, Lists, Placed
    <3>3. WorkersKept' /\ Pending' = Pending
      BY <1>5, <3>1, <3>2, StayStages DEF IInv, WorkersKept, Pending
    <3>4. References'
      <4>1. \A i \in Jobs : Droppers(i)' = Droppers(i)
        BY <1>5, <3>1, StayStages DEF Droppers
      <4>2. QED BY <3>1, <3>2, <4>1 DEF IInv, References
    <3>5. QED BY <3>2, <3>3, <3>4
  <2>2. CASE MovesUp(j)
    BY <1>1, <1>2, <1>5, <2>2, UpKeeps
  <2>3. QED BY <1>2, <2>1, <2>2 DEF Goes, GoesCanceled, GoesWithResources
<1>7. /\ waiting' \in Seq(Jobs) /\ ready' \in Seq(Jobs)
      /\ Range(waiting) \ {j} \subseteq Range(waiting')
      /\ Stays(w, j) => Range(waiting') = Range(waiting) /\ Range(ready') = Range(ready)
      /\ ~Stays(w, j) => Range(ready') = Range(ready) \union {j}
  BY <1>2 DEF Stays, Goes, GoesCanceled, GoesWithResources, MovesUp, IInv, Types
<1>8. acquired' \in [Jobs -> BOOLEAN] /\ \A i \in Jobs : i # j => acquired'[i] = acquired[i]
  BY <1>2 DEF Stays, Goes, GoesCanceled, GoesWithResources, IInv, Types
<1>9. Counters' /\ num' \in [Resources -> Int]
  <2>1. CASE UNCHANGED <<acquired, num>>
    <3>1. Counters'
      BY <2>1 DEF IInv, Counters, Uses, Holders
    <3>2. num' \in [Resources -> Int]
      BY <2>1 DEF IInv, Types
    <3>3. QED BY <3>1, <3>2
  <2>2. CASE GoesWithResources(w, j)
    <3>1. /\ num' \in [Resources -> Int]
          /\ \A r \in Resources : num'[r] = num[r] + Share(j, r) /\ num'[r] <= Limit[r]
      BY <1>2, <2>2, AcquireAll DEF IInv, Types, Counters, GoesWithResources
    <3>2. Holders' = Holders \union {j} /\ j \notin Holders /\ Holders \subseteq Jobs
      BY <1>2, <1>8, <2>2 DEF Holders, GoesWithResources, IInv, Types
    <3>3. ASSUME NEW r \in Resources PROVE num'[r] = Cardinality(Uses(Holders', r))
      <4>1. Cardinality(Uses(Holders \union {j}, r)) = Cardinality(Uses(Holders, r)) + Share(j, r)
        BY <1>2, <3>2, UsesStep
      <4>2. num[r] = Cardinality(Uses(Holders, r))
        BY DEF IInv, Counters
      <4>3. QED BY <3>1, <3>2, <4>1, <4>2
    <3>4. QED BY <3>1, <3>3 DEF Counters, Uses
  <2>3. QED BY <1>2, <2>1, <2>2 DEF Stays, GoesCanceled
<1>10. todo' \in {Tail(todo), <<>>, todo} /\ (Stays(w, j) \/ todo' = Tail(todo))
  BY <1>2 DEF Stays, Goes, GoesCanceled, GoesWithResources
<1>11. Types'
  BY <1>1, <1>3, <1>4, <1>5, <1>7, <1>8, <1>9, <1>10 DEF IInv, Types
<1>12. OneHolder'
  <2>1. IsInjective(todo') /\ todo' \in Seq(Jobs) /\ Range(todo') \subseteq Range(waiting')
    BY <1>4, <1>7, <1>10 DEF IInv, OneHolder, Types
  <2>2. \A v \in Workers : pc'[v] \in Locked <=> pc[v] \in Locked
    BY <1>5, StayStages
  <2>3. \A v \in Workers : pc'[v] = "refused" => todo' # <<>>
    <3>1. pc[w] \in Locked
      BY <1>1 DEF Scanning, Locked
    <3>2. \A v \in Workers : pc'[v] = "refused" => v = w
      BY <2>2, <3>1 DEF IInv, OneHolder, Locked
    <3>3. QED BY <1>1, <1>5, <3>2
  <2>4. QED BY <1>1, <1>5, <2>1, <2>2, <2>3 DEF IInv, OneHolder
<1>13. status[j] # "none" /\ status'[j] # "none"
  BY <1>2, <1>3, NotNone DEF IInv, JobsKept, Placed
<1>14. JobsKept'
  <2>1. \A i \in Jobs : status'[i] = "none" <=> status[i] = "none"
    BY <1>3, <1>13
  <2>2. \A i \in Jobs : acquired'[i] => i \in Range(ready') \union Range(running')
    <3>1. CASE Stays(w, j)
      BY <1>1, <1>7, <3>1 DEF Stays, IInv, JobsKept
    <3>2. CASE ~Stays(w, j)
      BY <1>1, <1>7, <1>8, <3>2 DEF IInv, JobsKept
    <3>3. QED BY <3>1, <3>2
  <2>3. QED BY <1>1, <1>5, <1>6, StayStages, <2>1, <2>2 DEF IInv, JobsKept
<1>15. \A i \in Jobs : /\ i # j => (Canceled(i)' <=> Canceled(i))
                       /\ Canceled(i) => Canceled(i)'
                       /\ ~ScriptCancels => (Canceled(i)' => Canceled(i))
  BY <1>2, <1>3 DEF Canceled
<1>16. CancelsKept'
  <2>1. /\ "stop" \notin Commands => \A i \in Jobs : cancel'[i].cmd # "stop"
        /\ NoCancels => \A i \in Jobs : cancel'[i].step = "none"
        /\ NoReruns => \A v \in Workers : pc'[v] \notin Deciding
    BY <1>1, <1>5, StayStages DEF IInv, CancelsKept
  <2>2. ASSUME NoReruns, NEW i \in Jobs
        PROVE  /\ status'[i] = "Incomplete" =>
                     ~restart'[i] /\ cancel'[i].step \in {"daemons", "true", "false"}
               /\ cancel'[i].step = "remove" => Canceled(i)'
    <3>1. status'[i] = "Incomplete" => status[i] = "Incomplete"
      BY <1>2, <1>3
    <3>2. Canceled(i) => Canceled(i)'
      BY <1>15
    <3>3. /\ status[i] = "Incomplete" =>
                  ~restart[i] /\ cancel[i].step \in {"daemons", "true", "false"}
          /\ cancel[i].step = "remove" => Canceled(i)
      BY <2>2, Zenon DEF IInv, CancelsKept
    <3>4. restart' = restart /\ cancel' = cancel
      BY <1>1
    <3>5. QED BY <3>1, <3>2, <3>3, <3>4, Zenon
  <2>3. NoReruns /\ ~ScriptCancels =>
           \A i \in Pending' : Canceled(i)' => cancel'[i].step # "none" /\ ~Stopping(i)'
    BY <1>1, <1>6, <1>15, PendingJobs DEF IInv, CancelsKept, Stopping
  <2>4. QED BY <2>1, <2>2, <2>3, Zenon DEF CancelsKept
<1>17. StartsWithResources'
  <2>1. \A v \in Workers : pc[v] \in Engine => cur[v] \in Jobs /\ cur[v] # j
    BY <1>2 DEF IInv, WorkersKept, Stages, Lists
  <2>2. Range(ready) \subseteq Jobs \ {j}
    <3>1. Range(ready) \subseteq Jobs
      BY RangeElements DEF IInv, Types
    <3>2. j \notin Range(ready)
      BY <1>2 DEF IInv, Lists
    <3>3. QED BY <3>1, <3>2
  <2>3. ~Stays(w, j) => acquired'[j] \/ Canceled(j)'
    BY <1>2, <1>3, <1>8 DEF Goes, GoesCanceled, GoesWithResources, Canceled, IInv, Types
  <2>4. NoneRevived => \A i \in Range(ready') : acquired'[i] \/ Canceled(i)'
    BY <1>7, <1>8, <1>15, <2>2, <2>3 DEF IInv, StartsWithResources
  <2>5. QED BY <1>1, <1>5, StayStages, <1>8, <1>15, <2>1, <2>4 DEF IInv, StartsWithResources, Engine
<1>18. Shutdown'
  <2>1. Threads' = Threads
    BY <1>1, <1>5 DEF Threads, Scanning
  <2>2. QED BY <1>1, <2>1 DEF IInv, Shutdown
<1>19. QED BY <1>6, <1>9, <1>11, <1>12, <1>14, <1>16, <1>17, <1>18 DEF IInv

-----------------------------------------------------------------------------
(* A job enters: it goes to a sched_wait thread or into a queue.           *)
LEMMA Inserted ==
    ASSUME IInv, NEW j \in Jobs, j \notin Range(waiting)
    PROVE  LET q == InsertByPriority(waiting, j)
           IN  /\ q \in Seq(Jobs) /\ IsInjective(q) /\ Range(q) = Range(waiting) \union {j}
<1> DEFINE behind == {i \in DOMAIN waiting : prio[waiting[i]] > prio[j]}
<1>1. waiting \in Seq(Jobs) /\ IsInjective(waiting) /\ Len(waiting) \in Nat /\ DOMAIN waiting = 1..Len(waiting)
  BY LenProperties DEF IInv, Types, Lists
<1>2. CASE behind = {}
  <2>1. InsertByPriority(waiting, j) = Append(waiting, j)
    BY <1>2 DEF InsertByPriority
  <2>2. QED BY <1>1, <2>1, AppendList
<1>3. CASE behind # {}
  <2>1. InsertByPriority(waiting, j) = InsertAt(waiting, Min(behind), j)
    BY <1>3 DEF InsertByPriority
  <2>2. behind \subseteq Nat
    BY <1>1
  <2>3. Min(behind) \in behind
    <3> HIDE DEF behind
    <3>1. QED BY <1>3, <2>2, MinInSet
  <2>4. Min(behind) \in 1..Len(waiting)
    BY <1>1, <2>3
  <2> HIDE DEF behind
  <2>5. QED BY <1>1, <2>1, <2>4, InsertAtList
<1>4. QED BY <1>2, <1>3

(* j is put in place.                                                      *)
Placing(j) ==
    /\ waiting' \in Seq(Jobs) /\ ready' \in Seq(Jobs) /\ sched' \subseteq Jobs /\ running' = running
    /\ Lists'
    /\ Range(waiting) \subseteq Range(waiting')
    /\ Range(ready) \subseteq Range(ready') /\ Range(ready') \subseteq Range(ready) \union {j}
    /\ j \in Range(ready') => Canceled(j)
    /\ Range(waiting') \union Range(ready') \union sched'
          = Range(waiting) \union Range(ready) \union sched \union {j}

LEMMA Enqueues ==
    ASSUME IInv, NEW j \in Jobs, Enqueue(j), sched' = sched \ {j},
           j \notin Range(waiting) \union Range(ready) \union Range(running)
    PROVE  Placing(j)
<1>1. running' = running
  BY DEF Enqueue
<1>2. CASE Canceled(j)
  <2>1. ready' = <<j>> \o ready /\ waiting' = waiting
    BY <1>2 DEF Enqueue
  <2>2. /\ ready' \in Seq(Jobs) /\ IsInjective(ready') /\ Range(ready') = Range(ready) \union {j}
    BY <2>1, PrependList DEF IInv, Types, Lists
  <2>3. Lists'
    BY <1>1, <2>1, <2>2 DEF IInv, Lists
  <2>4. QED BY <1>1, <1>2, <2>1, <2>2, <2>3 DEF Placing, IInv, Types
<1>3. CASE ~Canceled(j)
  <2>1. waiting' = InsertByPriority(waiting, j) /\ ready' = ready
    BY <1>3 DEF Enqueue
  <2>2. /\ waiting' \in Seq(Jobs) /\ IsInjective(waiting') /\ Range(waiting') = Range(waiting) \union {j}
    BY <2>1, Inserted
  <2>3. Lists'
    BY <1>1, <2>1, <2>2 DEF IInv, Lists
  <2>4. QED BY <1>1, <2>1, <2>2, <2>3 DEF Placing, IInv, Types
<1>4. QED BY <1>2, <1>3

LEMMA Delayed ==
    ASSUME IInv, NEW j \in Jobs, j \notin Placed, UNCHANGED <<waiting, ready, running>>,
           sched' = sched \union {j}
    PROVE  Placing(j)
BY DEF Placing, IInv, Types, Lists, Placed

(* No worker moves but those with a re-run, and one may start.             *)
WorkersLeave ==
    /\ cur' = cur
    /\ \A v \in Workers : \/ pc'[v] = pc[v]
                          \/ pc[v] = "none" /\ pc'[v] = "start"
                          \/ pc[v] \in (Deciding \ Locked) \union Dropping /\ pc'[v] \in Dropping

LEMMA LeaveStages ==
    ASSUME WorkersLeave, NEW v \in Workers
    PROVE  /\ pc'[v] \in Engine <=> pc[v] \in Engine
           /\ pc'[v] \in Deciding => pc[v] \in Deciding
           /\ pc[v] \in Dropping => pc'[v] \in Dropping
           /\ pc'[v] \in Stages <=> pc[v] \in Stages
           /\ pc'[v] \in Locked <=> pc[v] \in Locked
           /\ pc'[v] \in Scanning <=> pc[v] \in Scanning
           /\ pc'[v] = "refused" <=> pc[v] = "refused"
           /\ pc'[v] = "engine" <=> pc[v] = "engine"
           /\ pc'[v] = "run" <=> pc[v] = "run"
BY DEF WorkersLeave, Engine, Deciding, Dropping, Stages, Locked, Scanning

(* j gets status s and perhaps a place; nothing else leaves its own.       *)
Settling(j, s) ==
    /\ waiting' \in Seq(Jobs) /\ ready' \in Seq(Jobs) /\ sched' \subseteq Jobs /\ running' = running
    /\ Lists'
    /\ Range(waiting) \subseteq Range(waiting')
    /\ Range(ready) \subseteq Range(ready') /\ Range(ready') \subseteq Range(ready) \union {j}
    /\ Placed' \subseteq Placed \union {j}
    /\ status' = [status EXCEPT ![j] = s]
    /\ UNCHANGED <<todo, acquired, num, restart, cancel, valid, destroy>>

(* j is not under a re-run decision, and no other JCR has taken its place. *)
FreeToPlace(j) ==
    /\ \A v \in Workers : pc'[v] \in Deciding => cur[v] # j
    /\ Clone[j] \in Jobs => Clone[j] # j /\ status[Clone[j]] = "none"
    /\ status[j] = "none" => \A i \in Jobs : Clone[i] = j =>
          /\ status[i] # "none" /\ i \notin Placed
          /\ \A v \in Workers : cur[v] = i => pc'[v] \in Dropping

LEMMA Settles ==
    ASSUME IInv, NEW j \in Jobs, NEW s \in Statuses, Settling(j, s), WorkersLeave, FreeToPlace(j),
           pc' \in [Workers -> WorkerSteps], num_workers' = Cardinality(Threads'),
           use' \in [Jobs -> Int],
           \A i \in Jobs : use'[i] = use[i] - In(i \in Placed) + In(i \in Placed'),
           s = "Incomplete" => status[j] = "Incomplete",
           Canceled(j) => job_canceled(s),
           j \in Range(ready') => j \in Range(ready) \/ job_canceled(s),
           NoReruns /\ j \in Pending' /\ job_canceled(s) => j \in Pending /\ Canceled(j)
    PROVE  IInv'
<1>1. /\ cur' = cur /\ running' = running
      /\ UNCHANGED <<todo, acquired, num, restart, cancel, valid, destroy>>
  BY DEF Settling, WorkersLeave
<1>2. status'[j] = s /\ \A i \in Jobs : i # j => status'[i] = status[i]
  BY DEF Settling, IInv, Types
<1>3. status'[j] # "none" /\ \A i \in Jobs : status'[i] = "none" => i # j /\ status[i] = "none"
  BY <1>2, NotNone
<1>4. Types'
  <2>1. status' \in [Jobs -> Statuses \union {"none"}]
    BY DEF Settling, IInv, Types
  <2>2. QED BY <1>1, <2>1 DEF Settling, IInv, Types
<1>5. Lists'
  BY DEF Settling
<1>6. OneHolder'
  BY <1>1, LeaveStages DEF IInv, OneHolder, Settling
<1>7. WorkersKept'
  <2>1. \A w \in Workers : pc'[w] \in Deciding => cur'[w] \notin Placed'
    BY <1>1, LeaveStages DEF IInv, WorkersKept, Settling, FreeToPlace
  <2>2. /\ \A w \in Workers : cur'[w] \in Jobs <=> pc'[w] \in Stages
        /\ \A w \in Workers : pc'[w] \in Engine => cur'[w] \in Range(running')
        /\ \A i \in Range(running') : \E w \in Workers : pc'[w] \in Engine /\ cur'[w] = i
    BY <1>1, LeaveStages DEF IInv, WorkersKept
  <2>3. \A v, w \in Workers :
           pc'[v] \in Engine \union Deciding /\ pc'[w] \in Engine \union Deciding /\ cur'[v] = cur'[w]
              => v = w
    BY <1>1, LeaveStages DEF IInv, WorkersKept
  <2>4. QED BY <2>1, <2>2, <2>3 DEF WorkersKept
<1>8. JobsKept'
  <2>1. \A i \in Jobs : status'[i] = "none" =>
          i \notin Placed' /\ cancel'[i].step = "none" /\ \A w \in Workers : cur'[w] # i
    BY <1>1, <1>3 DEF IInv, JobsKept, Settling
  <2>2. ASSUME NEW i \in Jobs, Clone[i] \in Jobs, status'[Clone[i]] # "none"
        PROVE  /\ status'[i] # "none" /\ i \notin Placed'
               /\ \A w \in Workers : cur'[w] = i => pc'[w] \in Dropping
    <3>1. i # j
      BY <1>2, <2>2 DEF FreeToPlace
    <3>2. /\ status[i] # "none" /\ i \notin Placed
          /\ \A w \in Workers : cur[w] = i => pc'[w] \in Dropping
      <4>1. CASE status[Clone[i]] # "none"
        BY <2>2, <4>1, LeaveStages DEF IInv, JobsKept
      <4>2. CASE status[Clone[i]] = "none"
        BY <1>2, <2>2, <4>2 DEF FreeToPlace
      <4>3. QED BY <4>1, <4>2
    <3>3. QED BY <1>1, <1>2, <3>1, <3>2 DEF Settling
  <2>3. \A i \in Jobs : acquired'[i] => i \in Range(ready') \union Range(running')
    BY <1>1 DEF IInv, JobsKept, Settling
  <2>4. QED BY <2>1, <2>2, <2>3 DEF JobsKept
<1>9. Counters'
  <2>1. num' = num /\ Holders' = Holders
    BY <1>1 DEF Holders
  <2>2. \A r \in Resources : Uses(Holders, r)' = Uses(Holders, r)
    BY <2>1 DEF Uses, ClientCounter
  <2>3. QED BY <2>1, <2>2 DEF IInv, Counters
<1>10. References'
  <2> SUFFICES ASSUME NEW i \in Jobs
               PROVE  use'[i] = In(i \in Placed') + Cardinality(Droppers(i)')
    BY DEF References
  <2>1. Droppers(i)' = Droppers(i)
    BY <1>1, LeaveStages DEF Droppers
  <2>2. /\ use[i] = In(i \in Placed) + Cardinality(Droppers(i))
        /\ In(i \in Placed) \in Int /\ In(i \in Placed') \in Int
    BY DEF IInv, References, In
  <2>3. Cardinality(Droppers(i)) \in Nat
    BY JobsAssumption, FS_Subset, FS_CardinalityType DEF Droppers
  <2>4. QED BY <2>1, <2>2, <2>3
<1>11. Pending' \subseteq Pending \union {j}
  <2>1. \A v \in Workers : (pc'[v] = "engine" <=> pc[v] = "engine")
    BY LeaveStages
  <2>2. \A i \in Range(waiting') \union Range(ready') \union sched' :
           i \in Range(waiting) \union Range(ready) \union sched \union {j}
    BY DEF Settling, Lists, Placed
  <2>3. QED BY <1>1, <2>1, <2>2 DEF Pending
<1>12. \A i \in Jobs : /\ Canceled(i) => Canceled(i)'
                       /\ i # j => (Canceled(i)' <=> Canceled(i))
  BY <1>2 DEF Canceled
<1>13. CancelsKept'
  <2>1. /\ "stop" \notin Commands => \A i \in Jobs : cancel'[i].cmd # "stop"
        /\ NoCancels => \A i \in Jobs : cancel'[i].step = "none"
        /\ NoReruns => \A v \in Workers : pc'[v] \notin Deciding
    BY <1>1, LeaveStages DEF IInv, CancelsKept
  <2>2. ASSUME NoReruns, NEW i \in Jobs
        PROVE  /\ status'[i] = "Incomplete" =>
                     ~restart'[i] /\ cancel'[i].step \in {"daemons", "true", "false"}
               /\ cancel'[i].step = "remove" => Canceled(i)'
    <3>1. status'[i] = "Incomplete" => status[i] = "Incomplete"
      BY <1>2
    <3>2. /\ status[i] = "Incomplete" =>
                  ~restart[i] /\ cancel[i].step \in {"daemons", "true", "false"}
          /\ cancel[i].step = "remove" => Canceled(i)
      BY <2>2, Zenon DEF IInv, CancelsKept
    <3>3. restart' = restart /\ cancel' = cancel
      BY <1>1
    <3>4. QED BY <1>12, <3>1, <3>2, <3>3, Zenon
  <2>3. ASSUME NoReruns, ~ScriptCancels, NEW i \in Pending', Canceled(i)'
        PROVE  cancel'[i].step # "none" /\ ~Stopping(i)'
    <3>1. i \in Pending /\ Canceled(i)
      <4>1. CASE i = j
        BY <1>2, <2>3, <4>1 DEF Canceled
      <4>2. CASE i # j
        BY <1>11, <1>12, <2>3, <4>2, PendingJobs
      <4>3. QED BY <4>1, <4>2
    <3>2. QED BY <1>1, <2>3, <3>1 DEF IInv, CancelsKept, Stopping
  <2>4. QED BY <2>1, <2>2, <2>3, Zenon DEF CancelsKept
<1>14. StartsWithResources'
  <2>1. Range(ready) \subseteq Jobs
    BY RangeElements DEF IInv, Types
  <2>2. NoneRevived => \A i \in Range(ready') : acquired'[i] \/ Canceled(i)'
    BY <1>1, <1>2, <1>12, <2>1 DEF IInv, StartsWithResources, Settling, Canceled
  <2>3. \A w \in Workers : pc[w] \in Engine => cur[w] \in Jobs
    BY DEF IInv, WorkersKept, Stages
  <2>4. NoneRevived => \A w \in Workers : pc'[w] = "engine" => acquired'[cur'[w]] \/ Canceled(cur[w])'
    BY <1>1, <1>12, <2>3, LeaveStages DEF IInv, StartsWithResources, Engine
  <2>5. QED BY <1>1, <2>2, <2>4, LeaveStages DEF IInv, StartsWithResources
<1>15. Shutdown'
  BY <1>1 DEF IInv, Shutdown
<1>16. QED BY <1>4, <1>5, <1>6, <1>7, <1>8, <1>9, <1>10, <1>13, <1>14, <1>15 DEF IInv

(* One reference more for a job that is placed, none for the others.       *)
LEMMA PlaceCounted ==
    ASSUME IInv, NEW j \in Jobs, j \notin Placed, AddReference(j), Placed' = Placed \union {j}
    PROVE  /\ use' \in [Jobs -> Int]
           /\ \A i \in Jobs : use'[i] = use[i] - In(i \in Placed) + In(i \in Placed')
BY DEF IInv, Types, AddReference, In

LEMMA UseStays ==
    ASSUME IInv, use' = use, Placed' = Placed
    PROVE  /\ use' \in [Jobs -> Int]
           /\ \A i \in Jobs : use'[i] = use[i] - In(i \in Placed) + In(i \in Placed')
BY DEF IInv, Types, In

LEMMA Arrives == ASSUME IInv, NEW j \in Jobs, run_job(j) PROVE IInv'
<1> USE DEF queues, adders, workers, scan, life
<1>1. /\ j \in Arrivals /\ status[j] = "none"
      /\ UNCHANGED <<todo, acquired, num, restart, cancel, valid, destroy, cur>>
  BY DEF run_job
<1>2. ~Canceled(j) /\ status[j] # "Incomplete"
  BY <1>1 DEF Canceled, job_canceled
<1>3. j \notin Placed /\ \A w \in Workers : cur[w] # j
  BY <1>1 DEF IInv, JobsKept
<1>4. FreeToPlace(j)
  <2>1. Clone[j] \in Jobs => Clone[j] # j /\ status[Clone[j]] = "none"
    BY <1>1, CloneAssumption, JobsAssumption DEF IInv, JobsKept
  <2>2. \A i \in Jobs : Clone[i] # j
    BY <1>1, CloneAssumption, JobsAssumption
  <2>3. QED BY <1>3, <2>1, <2>2 DEF FreeToPlace
<1>5. CASE /\ ~valid /\ status' = [status EXCEPT ![j] = "FatalError"]
           /\ UNCHANGED <<waiting, ready, running, sched, pc, num_workers, use>>
  <2>1. Lists' /\ Placed' = Placed /\ Pending' = Pending /\ Threads' = Threads
    BY <1>1, <1>5 DEF IInv, Lists, Placed, Pending, Threads
  <2>2. Settling(j, "FatalError")
    BY <1>1, <1>5, <2>1 DEF Settling, IInv, Types
  <2>3. WorkersLeave
    BY <1>1, <1>5 DEF WorkersLeave
  <2>4. j \notin Pending
    <3>1. \A w \in Workers : pc[w] = "engine" => cur[w] # j
      BY <1>3
    <3>2. QED BY <1>3, <3>1 DEF Pending, Placed
  <2>5. pc' \in [Workers -> WorkerSteps] /\ num_workers' = Cardinality(Threads')
    BY <1>5, <2>1 DEF IInv, Types, Shutdown
  <2>6. QED BY <1>2, <1>4, <1>5, <2>1, <2>2, <2>3, <2>4, <2>5, Settles, UseStays, NotNone DEF job_canceled
<1>6. ASSUME NEW s \in {"WaitStartTime", "Created"}, status' = [status EXCEPT ![j] = s],
             sched' = sched \union {j}, AddReference(j),
             UNCHANGED <<waiting, ready, running, pc, num_workers>>
      PROVE  IInv'
  <2>1. Placing(j)
    BY <1>3, <1>6, Delayed
  <2>2. Placed' = Placed \union {j} /\ Threads' = Threads
    BY <1>6, <2>1 DEF Placing, Placed, Threads
  <2>3. Settling(j, s) /\ s \in Statuses /\ ~job_canceled(s) /\ s # "Incomplete"
    BY <1>1, <1>6, <2>1, <2>2, NotNone DEF Settling, Placing, job_canceled
  <2>4. WorkersLeave
    BY <1>1, <1>6 DEF WorkersLeave
  <2>5. pc' \in [Workers -> WorkerSteps] /\ num_workers' = Cardinality(Threads')
    BY <1>6, <2>2 DEF IInv, Types, Shutdown
  <2>6. j \in Range(ready') => j \in Range(ready)
    BY <1>6
  <2>7. QED BY <1>2, <1>3, <1>4, <1>6, <2>2, <2>3, <2>4, <2>5, <2>6, Settles, PlaceCounted
<1>7. QED BY <1>5, <1>6 DEF run_job, PassTest

(* A job that has a place may be moved: nothing has taken it over.         *)
LEMMA SchedFree ==
    ASSUME IInv, NEW j \in Jobs, j \in sched, WorkersLeave
    PROVE  FreeToPlace(j) /\ status[j] # "none" /\ status[j] \in Statuses
<1>1. j \in Placed
  BY DEF Placed
<1>2. status[j] # "none" /\ status[j] \in Statuses
  BY <1>1 DEF IInv, JobsKept, Types
<1>3. Clone[j] \in Jobs => Clone[j] # j /\ status[Clone[j]] = "none"
  BY <1>1, <1>2 DEF IInv, JobsKept
<1>4. \A v \in Workers : pc'[v] \in Deciding => cur[v] # j
  BY <1>1, LeaveStages DEF IInv, WorkersKept
<1>5. QED BY <1>2, <1>3, <1>4 DEF FreeToPlace

LEMMA SchedWaits == ASSUME IInv, NEW j \in Jobs, sched_wait(j) PROVE IInv'
<1> USE DEF queues, adders, workers, scan, life
<1>1. /\ j \in sched
      /\ UNCHANGED <<waiting, ready, running, pc, num_workers, cur, todo, status, acquired, num,
                     restart, cancel, valid, destroy>>
  BY DEF sched_wait
<1>2. CASE sched' = sched /\ use' = use
  BY <1>1, <1>2, Stutters DEF Unmoved
<1>3. CASE sched' = sched \ {j} /\ use' = [use EXCEPT ![j] = @ - 1]
  <2>1. /\ status[j] # "none" /\ status[j] \in Statuses
        /\ status' = [status EXCEPT ![j] = status[j]]
    BY <1>1 DEF IInv, JobsKept, Placed, Types
  <2>2. j \in Pending /\ j \in Placed /\ j \notin Range(waiting) \union Range(ready) \union Range(running)
    BY <1>1 DEF Pending, Placed, IInv, Lists
  <2>3. Lists' /\ Placed' = Placed \ {j} /\ Threads' = Threads
    BY <1>1, <1>3, <2>2 DEF IInv, Lists, Placed, Threads
  <2>4. Settling(j, status[j])
    BY <1>1, <1>3, <2>1, <2>3 DEF Settling, IInv, Types
  <2>5. WorkersLeave
    BY <1>1 DEF WorkersLeave
  <2>6. FreeToPlace(j)
    BY <1>1, <2>5, SchedFree
  <2>7. /\ use' \in [Jobs -> Int]
        /\ \A i \in Jobs : use'[i] = use[i] - In(i \in Placed) + In(i \in Placed')
    BY <1>3, <2>2, <2>3 DEF IInv, Types, In
  <2>8. pc' \in [Workers -> WorkerSteps] /\ num_workers' = Cardinality(Threads')
    BY <1>1, <2>3 DEF IInv, Types, Shutdown
  <2>9. j \in Range(ready') => j \in Range(ready)
    BY <1>1
  <2>10. QED BY <2>1, <2>2, <2>4, <2>5, <2>6, <2>7, <2>8, <2>9, Settles DEF Canceled
<1>4. QED BY <1>1, <1>2, <1>3 DEF sched_wait, PassTest

(* Whoever has passed the test of jq->valid is still to add its job.       *)
Tested == tested \subseteq sched

(* The workers when jobq_add returns to the one that called it.            *)
LEMMA Returns ==
    ASSUME IInv, NEW j
    PROVE  /\ Returned(j) \in [Workers -> WorkerSteps]
           /\ \A v \in Workers : \/ Returned(j)[v] = pc[v]
                                 \/ /\ pc[v] \in {"requeuing", "respawning"}
                                    /\ Returned(j)[v] \in {"requeued", "free"}
<1>1. \A v \in Workers : pc[v] \in WorkerSteps
  BY DEF IInv, Types
<1>2. {"requeued", "free"} \subseteq WorkerSteps
  BY DEF WorkerSteps
<1>3. \A v \in Workers : Returned(j)[v] = pc[v] \/ (/\ pc[v] \in {"requeuing", "respawning"}
                                                   /\ Returned(j)[v] \in {"requeued", "free"})
  BY DEF Returned
<1>4. QED BY <1>1, <1>2, <1>3 DEF Returned

LEMMA Adds == ASSUME IInv, Tested, NEW j \in Jobs, jobq_add(j) PROVE IInv'
<1>1. /\ j \in sched /\ sched' = sched \ {j} /\ Enqueue(j) /\ start_server(Returned(j))
      /\ UNCHANGED <<cur, todo, status, acquired, num, use, restart, cancel, valid, destroy>>
  BY DEF jobq_add, Tested, scan, jcr, life
<1>2. /\ status[j] # "none" /\ status[j] \in Statuses
      /\ status' = [status EXCEPT ![j] = status[j]]
  BY <1>1 DEF IInv, JobsKept, Placed, Types
<1>3. j \in Pending /\ j \in Placed /\ j \notin Range(waiting) \union Range(ready) \union Range(running)
  BY <1>1 DEF Pending, Placed, IInv, Lists
<1>4. Placing(j)
  BY <1>1, <1>3, Enqueues
<1>5. Placed' = Placed
  BY <1>3, <1>4 DEF Placing, Placed
<1>6. Settling(j, status[j])
  BY <1>1, <1>2, <1>4, <1>5 DEF Settling, Placing
<1>7. StartsOnly(Returned(j))
  <2>1. \A v \in Workers : Returned(j)[v] = "none" <=> pc[v] = "none"
    BY Returns
  <2>2. QED BY <1>1, <2>1, Returns, Starts
<1>8. WorkersLeave
  <2>1. ASSUME NEW v \in Workers
        PROVE  \/ pc'[v] = pc[v]
               \/ pc[v] = "none" /\ pc'[v] = "start"
               \/ pc[v] \in Dropping /\ pc'[v] \in Dropping
    <3>1. pc'[v] = Returned(j)[v] \/ (Returned(j)[v] = "none" /\ pc'[v] = "start")
      BY <1>7 DEF StartsOnly
    <3>2. QED BY <3>1, Returns DEF Dropping
  <2>2. QED BY <1>1, <2>1 DEF WorkersLeave
<1>9. FreeToPlace(j)
  BY <1>1, <1>8, SchedFree
<1>10. j \in Range(ready') => job_canceled(status[j])
  BY <1>4 DEF Placing, Canceled
<1>11. pc' \in [Workers -> WorkerSteps] /\ num_workers' = Cardinality(Threads')
  BY <1>7 DEF StartsOnly
<1>12. /\ use' \in [Jobs -> Int]
       /\ \A i \in Jobs : use'[i] = use[i] - In(i \in Placed) + In(i \in Placed')
  BY <1>1, <1>5, UseStays
<1>13. QED BY <1>2, <1>3, <1>6, <1>8, <1>9, <1>10, <1>11, <1>12, Settles DEF Canceled

(* jobq_add for a re-run, by the worker that has decided about it.         *)
LEMMA AddsAgain ==
    ASSUME IInv, NEW w \in Workers, NEW j \in Jobs, NEW s \in Statuses,
           NEW adding \in Dropping, NEW next \in Dropping,
           pc[w] \in {"requeue", "respawn"}, JobqAddAgain(w, j, s, adding, next), restart' = restart,
           j \notin Placed, s = status[j] \/ (status[j] = "none" /\ s = "Created"),
           WorkersLeave /\ pc'[w] \in Dropping => FreeToPlace(j)
    PROVE  IInv'
<1> USE DEF queues, adders, scan, life
<1>1. UNCHANGED <<waiting, ready, running, num_workers, todo, acquired, num, cancel, valid, destroy,
                  cur, restart>>
  BY DEF JobqAddAgain, workers
<1>2. PICK p \in {adding, next} : pc' = [pc EXCEPT ![w] = p]
  BY DEF JobqAddAgain
<1>3. /\ pc' \in [Workers -> WorkerSteps] /\ pc'[w] \in Dropping /\ pc[w] \in Deciding \ Locked
      /\ \A v \in Workers : v # w => pc'[v] = pc[v]
  BY <1>2 DEF IInv, Types, Dropping, Deciding, WorkerSteps, Locked
<1>4. WorkersLeave /\ FreeToPlace(j)
  <2>1. WorkersLeave
    BY <1>1, <1>3 DEF WorkersLeave
  <2>2. QED BY <1>3, <2>1
<1>5. num_workers' = Cardinality(Threads')
  <2>1. Threads' = Threads
    BY <1>3 DEF Threads, Dropping, Deciding
  <2>2. QED BY <1>1, <2>1 DEF IInv, Shutdown
<1>6. ~NoReruns
  BY <1>3 DEF IInv, CancelsKept
<1>7. /\ Canceled(j) => job_canceled(s)
      /\ s = "Incomplete" => status[j] = "Incomplete"
  BY DEF Canceled, job_canceled
<1>8. j \in Range(ready') => j \in Range(ready)
  BY <1>1
<1>9. CASE ~valid /\ status' = [status EXCEPT ![j] = IF cur[w] = j THEN s ELSE "FatalError"]
            /\ UNCHANGED <<use, sched>>
  <2>1. PICK t \in Statuses : t = (IF cur[w] = j THEN s ELSE "FatalError")
    BY NotNone
  <2>2. /\ Canceled(j) => job_canceled(t)
        /\ t = "Incomplete" => status[j] = "Incomplete"
    BY <1>7, <2>1 DEF job_canceled
  <2>3. Lists' /\ Placed' = Placed
    BY <1>1, <1>9 DEF IInv, Lists, Placed
  <2>4. Settling(j, t)
    BY <1>1, <1>9, <2>1, <2>3 DEF Settling, IInv, Types
  <2>5. /\ use' \in [Jobs -> Int]
        /\ \A i \in Jobs : use'[i] = use[i] - In(i \in Placed) + In(i \in Placed')
    BY <1>9, <2>3, UseStays
  <2>6. QED BY <1>3, <1>4, <1>5, <1>6, <1>8, <2>2, <2>4, <2>5, Settles
<1>10. ASSUME NEW t \in Statuses, sched' = sched \union {j}, AddReference(j),
              status' = [status EXCEPT ![j] = t],
              Canceled(j) => job_canceled(t), t = "Incomplete" => status[j] = "Incomplete"
       PROVE  IInv'
  <2>1. Placing(j)
    BY <1>1, <1>10, Delayed
  <2>2. Placed' = Placed \union {j}
    BY <2>1 DEF Placing, Placed
  <2>3. Settling(j, t)
    BY <1>1, <1>10, <2>1, <2>2 DEF Settling, Placing
  <2>4. /\ use' \in [Jobs -> Int]
        /\ \A i \in Jobs : use'[i] = use[i] - In(i \in Placed) + In(i \in Placed')
    BY <1>10, <2>2, PlaceCounted
  <2>5. QED BY <1>3, <1>4, <1>5, <1>6, <1>8, <1>10, <2>3, <2>4, Settles
<1>11. CASE /\ sched' = sched \union {j} /\ AddReference(j)
            /\ \/ status' = [status EXCEPT ![j] = s]
               \/ /\ ~Canceled(j)
                  /\ status' = [[status EXCEPT ![j] = s] EXCEPT ![j] = "WaitStartTime"]
  <2>1. CASE status' = [status EXCEPT ![j] = s]
    BY <1>7, <1>10, <1>11, <2>1
  <2>2. CASE /\ ~Canceled(j)
             /\ status' = [[status EXCEPT ![j] = s] EXCEPT ![j] = "WaitStartTime"]
    <3>1. status' = [status EXCEPT ![j] = "WaitStartTime"]
      BY <2>2 DEF IInv, Types
    <3>2. QED BY <1>10, <1>11, <2>2, <3>1, NotNone
  <2>3. QED BY <1>11, <2>1, <2>2
<1>12. QED BY <1>9, <1>11 DEF JobqAddAgain, PassTest

LEMMA Requeues == ASSUME IInv, NEW w \in Workers, Requeue(w) PROVE IInv'
<1>1. PICK j : j = cur[w]
  OBVIOUS
<1>2. PICK s : s = status[j]
  OBVIOUS
<1>3. pc[w] = "requeue" /\ JobqAddAgain(w, j, s, "requeuing", "requeued") /\ restart' = restart
  BY <1>1, <1>2 DEF Requeue
<1>4. pc[w] \in Deciding /\ "requeued" \in Dropping /\ "requeuing" \in Dropping
  BY <1>3 DEF Deciding, Dropping
<1>5. j \in Jobs /\ j \notin Placed
  BY <1>1, <1>4 DEF IInv, WorkersKept, Stages
<1>6. status[j] # "none" /\ s \in Statuses
  BY <1>1, <1>2, <1>5 DEF IInv, JobsKept, Types
<1>7. ASSUME WorkersLeave, pc'[w] \in Dropping PROVE FreeToPlace(j)
  <2>1. \A v \in Workers : pc'[v] \in Deciding => cur[v] # j
    <3>1. pc'[w] \notin Deciding
      BY <1>7 DEF Dropping, Deciding
    <3>2. QED BY <1>1, <1>4, <1>7, <3>1, LeaveStages DEF IInv, WorkersKept
  <2>2. Clone[j] \in Jobs => Clone[j] # j /\ status[Clone[j]] = "none"
    <3>1. pc[w] \notin Dropping
      BY <1>3 DEF Dropping
    <3>2. Clone[j] \in Jobs => status[Clone[j]] = "none"
      BY <1>1, <1>5, <3>1 DEF IInv, JobsKept
    <3>3. QED BY <1>6, <3>2
  <2>3. QED BY <1>6, <2>1, <2>2 DEF FreeToPlace
<1>8. QED BY <1>2, <1>3, <1>4, <1>5, <1>6, <1>7, AddsAgain

LEMMA Respawns == ASSUME IInv, NEW w \in Workers, Respawn(w), Clone[cur[w]] \in Jobs PROVE IInv'
<1>1. PICK i : i = cur[w]
  OBVIOUS
<1>2. PICK j \in Jobs : j = Clone[i]
  BY <1>1
<1>3. pc[w] = "respawn" /\ JobqAddAgain(w, j, "Created", "respawning", "free") /\ restart' = restart
  BY <1>1, <1>2 DEF Respawn
<1>4. /\ pc[w] \in Deciding /\ pc[w] \notin Dropping
      /\ "free" \in Dropping /\ "respawning" \in Dropping
  BY <1>3 DEF Deciding, Dropping
<1>5. i \in Jobs /\ i \notin Placed
  BY <1>1, <1>4 DEF IInv, WorkersKept, Stages
<1>6. status[i] # "none" /\ status[j] = "none"
  BY <1>1, <1>2, <1>4, <1>5 DEF IInv, JobsKept
<1>7. j \notin Placed /\ \A v \in Workers : cur[v] # j
  BY <1>6 DEF IInv, JobsKept
<1>8. ASSUME WorkersLeave, pc'[w] \in Dropping PROVE FreeToPlace(j)
  <2>1. Clone[j] \in Jobs => Clone[j] # j /\ status[Clone[j]] = "none"
    <3>1. Clone[j] \in Jobs => status[Clone[j]] = "none"
      BY <1>6 DEF IInv, JobsKept
    <3>2. Clone[j] # j
      BY <1>2, <1>5, <1>6, CloneAssumption, JobsAssumption
    <3>3. QED BY <3>1, <3>2
  <2>2. ASSUME NEW k \in Jobs, Clone[k] = j
        PROVE  /\ status[k] # "none" /\ k \notin Placed
               /\ \A v \in Workers : cur[v] = k => pc'[v] \in Dropping
    <3>1. k = i
      BY <1>2, <1>5, <2>2, CloneAssumption, JobsAssumption
    <3>2. ASSUME NEW v \in Workers, cur[v] = i PROVE pc'[v] \in Dropping
      <4>1. CASE v = w
        BY <1>8, <4>1
      <4>2. CASE v # w
        <5>1. pc[v] \in Stages /\ pc[v] \notin Engine \union Deciding
          BY <1>1, <1>4, <1>5, <3>2, <4>2 DEF IInv, WorkersKept
        <5>2. QED BY <1>8, <5>1, LeaveStages DEF Stages
      <4>3. QED BY <4>1, <4>2
    <3>3. QED BY <1>5, <1>6, <3>1, <3>2
  <2>3. QED BY <1>7, <2>1, <2>2 DEF FreeToPlace
<1>9. QED BY <1>2, <1>3, <1>4, <1>6, <1>7, <1>8, AddsAgain, NotNone

(* A worker is told to start another JCR only if there is one.             *)
Respawning == \A w \in Workers : pc[w] = "respawn" => Clone[cur[w]] \in Jobs

LEMMA StartsNew ==
    ASSUME NEW p \in [Workers -> WorkerSteps], start_server(p), NEW v \in Workers, pc'[v] = "respawn"
    PROVE  p[v] = "respawn"
BY DEF start_server

LEMMA RespawnKept == ASSUME IInv, Respawning, [Next]_vars PROVE Respawning'
<1> SUFFICES ASSUME NEW v \in Workers, pc'[v] = "respawn" PROVE Clone[cur'[v]] \in Jobs
  BY DEF Respawning
<1> USE DEF queues, adders, workers, scan, life
<1>1. pc \in [Workers -> WorkerSteps] /\ cur \in [Workers -> Jobs \union {NoJob}]
  BY DEF IInv, Types
<1>2. ASSUME pc[v] = "respawn", cur'[v] = cur[v] PROVE Clone[cur'[v]] \in Jobs
  BY <1>2 DEF Respawning
<1>3. CASE pc' = pc /\ cur' = cur
  BY <1>2, <1>3
<1>4. ASSUME NEW j \in Jobs, jobq_add(j) \/ jobq_remove(j) PROVE Clone[cur'[v]] \in Jobs
  <2>1. cur' = cur
    BY <1>4 DEF jobq_add, jobq_remove
  <2>2. pc[v] = "respawn"
    <3>1. CASE pc' = pc
      BY <3>1
    <3>2. CASE start_server(pc)
      BY <1>1, <3>2, StartsNew
    <3>3. CASE start_server(Returned(j))
      <4>1. Returned(j)[v] = "respawn"
        BY <3>3, Returns, StartsNew
      <4>2. QED BY <4>1, Returns
    <3>4. QED BY <1>4, <3>1, <3>2, <3>3 DEF jobq_add, jobq_remove
  <2>3. QED BY <1>2, <2>1, <2>2
<1>5. ASSUME NEW j \in Jobs, \/ run_job(j) \/ sched_wait(j) \/ job_monitor_watchdog(j) \/ cancel_job(j)
                             \/ cancel_job_mark(j) \/ CancelDaemons(j) \/ update_priority(j)
      PROVE  pc' = pc /\ cur' = cur
  BY <1>5 DEF run_job, sched_wait, job_monitor_watchdog, cancel_job, cancel_job_mark, CancelDaemons, update_priority
<1>6. ASSUME NEW w \in Workers, jobq_server(w) PROVE Clone[cur'[v]] \in Jobs
  <2>1. CASE \/ ServerStart(w) \/ TimedWait(w) \/ job_thread(w) \/ job_thread_end(w)
             \/ JobDone(w) \/ StartScan(w) \/ Refused(w) \/ LoopEnd(w) \/ Pause(w) \/ Requeue(w) \/ Respawn(w)
    <3>1. cur' = cur
      BY <2>1 DEF ServerStart, TimedWait, job_thread, job_thread_end, JobDone, StartScan, Refused,
                  LoopEnd, Pause, Requeue, Respawn, JobqAddAgain
    <3>2. \E p \in {"requeuing", "requeued", "respawning", "ready", "run", "done", "resched", "free", "scan", "none", "sleep", "wait"} :
             pc' = [pc EXCEPT ![w] = p]
      BY <2>1 DEF ServerStart, TimedWait, job_thread, job_thread_end, JobDone, StartScan, Refused,
                  LoopEnd, Pause, Requeue, Respawn, JobqAddAgain
    <3>3. QED BY <1>1, <1>2, <3>1, <3>2
  <2>2. CASE TakeReady(w)
    <3>1. /\ pc[w] = "ready" /\ cur' = [cur EXCEPT ![w] = Head(ready)]
          /\ start_server([pc EXCEPT ![w] = "engine"]) \/ pc' = [pc EXCEPT ![w] = "engine"]
      BY <2>2 DEF TakeReady
    <3>2. PICK p \in [Workers -> WorkerSteps] : p = [pc EXCEPT ![w] = "engine"]
      BY <1>1 DEF WorkerSteps
    <3>3. p[v] = "respawn"
      BY <3>1, <3>2, StartsNew
    <3>4. QED BY <1>1, <1>2, <3>1, <3>2, <3>3
  <2>3. CASE reschedule_job(w)
    <3>1. /\ cur' = cur /\ pc[w] = "resched"
          /\ \/ pc' = [pc EXCEPT ![w] = "requeue"]
             \/ Clone[cur[w]] # NoJob /\ pc' = [pc EXCEPT ![w] = "respawn"]
      BY <2>3 DEF reschedule_job
    <3>2. cur[w] \in Jobs
      BY <3>1 DEF IInv, WorkersKept, Stages, Deciding
    <3>3. CASE v = w
      BY <1>1, <3>1, <3>2, <3>3, CloneAssumption
    <3>4. CASE v # w
      BY <1>1, <1>2, <3>1, <3>4
    <3>5. QED BY <3>3, <3>4
  <2>4. CASE FreeJcr(w)
    BY <1>1, <1>2, <2>4 DEF FreeJcr
  <2>5. CASE Examine(w)
    <3>1. cur' = cur /\ (pc' = pc \/ pc' = [pc EXCEPT ![w] = "refused"])
      BY <2>5 DEF Examine
    <3>2. QED BY <1>1, <1>2, <3>1
  <2>6. CASE MarkRunning(w)
    BY <1>3, <2>6 DEF MarkRunning
  <2>7. QED BY <1>6, <2>1, <2>2, <2>3, <2>4, <2>5, <2>6 DEF jobq_server
<1>7. CASE jobq_destroy \/ DestroyReturns
  BY <1>3, <1>7 DEF jobq_destroy, DestroyReturns
<1>8. CASE UNCHANGED vars
  BY <1>3, <1>8 DEF vars
<1>9. QED BY <1>3, <1>4, <1>5, <1>6, <1>7, <1>8 DEF Next, Cancels

-----------------------------------------------------------------------------
(* jobq_add goes on only for a job that is still with the thread or worker *)
(* that tested jq->valid for it.                                           *)
LEMMA TestedKept == ASSUME Tested, [Next]_vars PROVE Tested'
<1> USE DEF Tested, adders
<1>1. ASSUME NEW j \in Jobs, \/ run_job(j) \/ sched_wait(j) \/ jobq_add(j) \/ job_monitor_watchdog(j)
                             \/ Cancels(j) \/ update_priority(j)
      PROVE  Tested'
  <2>1. CASE run_job(j)
    BY <2>1 DEF run_job, PassTest
  <2>2. CASE sched_wait(j)
    BY <2>2 DEF sched_wait, PassTest
  <2>3. CASE jobq_add(j)
    BY <2>3 DEF jobq_add
  <2>4. CASE job_monitor_watchdog(j) \/ Cancels(j) \/ update_priority(j)
    BY <2>4 DEF job_monitor_watchdog, Cancels, cancel_job, cancel_job_mark, jobq_remove,
       CancelDaemons, update_priority
  <2>5. QED BY <1>1, <2>1, <2>2, <2>3, <2>4
<1>2. ASSUME NEW w \in Workers, jobq_server(w) PROVE Tested'
  <2>1. adders' = adders \/ \E j : PassTest(j) \/ (sched' = sched \union {j} /\ UNCHANGED tested)
    BY <1>2 DEF jobq_server, ServerStart, TimedWait, TakeReady, MarkRunning, job_thread, job_thread_end,
       JobDone, reschedule_job, Requeue, Respawn, JobqAddAgain, FreeJcr, StartScan, Examine, Refused,
       LoopEnd, Pause
  <2>2. QED BY <2>1 DEF PassTest
<1>3. CASE jobq_destroy \/ DestroyReturns \/ UNCHANGED vars
  BY <1>3 DEF jobq_destroy, DestroyReturns, vars
<1>4. QED BY <1>1, <1>2, <1>3 DEF Next

LEMMA NextInv == ASSUME IInv, Respawning, Tested, [Next]_vars PROVE IInv'
<1>1. ASSUME NEW j \in Jobs, \/ run_job(j) \/ sched_wait(j) \/ jobq_add(j) \/ job_monitor_watchdog(j)
                             \/ Cancels(j) \/ update_priority(j)
      PROVE  IInv'
  BY <1>1, Arrives, SchedWaits, Adds, Watchdog, CancelJob, CancelMark, RemovesQueued, Daemons, Update
     DEF Cancels
<1>2. ASSUME NEW w \in Workers, jobq_server(w) PROVE IInv'
  <2>1. Respawn(w) => Clone[cur[w]] \in Jobs
    BY DEF Respawning, Respawn
  <2>2. QED BY <1>2, <2>1, Enters, Takes, MarksRunning, Thread, ThreadEnd, Done, Reschedule, Requeues, Respawns,
               Frees, Scan, Examines, Ends DEF jobq_server
<1>3. CASE jobq_destroy \/ DestroyReturns
  BY <1>3, Destroy
<1>4. CASE UNCHANGED vars
  <2>1. /\ Unmoved /\ UNCHANGED <<restart, status, cancel>>
    BY <1>4 DEF vars, queues, adders, workers, scan, jcr, life, Unmoved
  <2>2. QED BY <2>1, Stutters
<1>5. QED BY <1>1, <1>2, <1>3, <1>4 DEF Next

(* The inductive invariant of the job queue (jobq.c, job.c): JCRs are in   *)
(* one place, with one worker, counted once, and a worker's step says      *)
(* where its job is.                                                       *)
THEOREM JobQInvariant == Spec => [](IInv /\ Respawning /\ Tested)
<1>1. Init => IInv /\ Respawning /\ Tested
  <2>1. Init => Respawning /\ Tested
    BY DEF Init, Respawning, Tested
  <2>2. QED BY <2>1, InitInv
<1>2. IInv /\ Respawning /\ Tested /\ [Next]_vars => (IInv /\ Respawning /\ Tested)'
  BY NextInv, RespawnKept, TestedKept
<1>3. QED BY <1>1, <1>2, PTL DEF Spec

-----------------------------------------------------------------------------
LEMMA SeqSet == ASSUME NEW s PROVE ToSet(s) = Range(s)
BY DEF ToSet, Range

(* The engines are as many as the running jobs.                            *)
LEMMA EnginesCounted ==
    ASSUME IInv
    PROVE  LET engines == {w \in Workers : pc[w] \in {"engine", "run", "done"}}
           IN  /\ Range(running) = {cur[w] : w \in engines}
               /\ Cardinality(engines) = Len(running)
<1> DEFINE engines == {w \in Workers : pc[w] \in {"engine", "run", "done"}}
           f == [w \in engines |-> cur[w]]
<1>1. engines = {w \in Workers : pc[w] \in Engine}
  BY DEF Engine
<1>2. Range(running) = {cur[w] : w \in engines}
  BY <1>1 DEF IInv, WorkersKept
<1>3. f \in Bijection(engines, Range(running))
  <2>1. f \in [engines -> Range(running)] /\ \A e \in Range(running) : \E w \in engines : f[w] = e
    BY <1>2
  <2>2. \A v, w \in engines : f[v] = f[w] => v = w
    BY <1>1 DEF IInv, WorkersKept
  <2>3. QED BY <2>1, <2>2 DEF Bijection, Injection, Surjection, IsInjective
<1>4. IsFiniteSet(engines)
  BY JobsAssumption, FS_Subset
<1> HIDE DEF engines, f
<1>5. Cardinality(Range(running)) = Cardinality(engines)
  BY <1>3, <1>4, FS_Bijection DEF ExistsBijection
<1>6. Cardinality(Range(running)) = Len(running)
  BY RangeCount DEF IInv, Types, Lists
<1>7. QED BY <1>2, <1>5, <1>6 DEF engines

(* A JCR is in one list, once, or with its sched_wait thread, and the      *)
(* running list is exactly the jobs of the workers' engines, whatever the  *)
(* interleaving of jobq_add, jobq_remove and the workers of jobq.c.        *)
THEOREM JobQOnePlace == Spec => []OnePlace
<1>1. IInv => OnePlace
  <2> SUFFICES ASSUME IInv PROVE OnePlace
    OBVIOUS
  <2>1. /\ waiting \in Seq(Jobs) /\ ready \in Seq(Jobs) /\ running \in Seq(Jobs)
        /\ Lists
    BY DEF IInv, Types
  <2>2. /\ waiting \o ready \in Seq(Jobs) /\ IsInjective(waiting \o ready)
        /\ Range(waiting \o ready) = Range(waiting) \union Range(ready)
    BY <2>1, ConcatList DEF Lists
  <2>3. Range(waiting \o ready) \intersect Range(running) = {} /\ IsInjective(running)
    BY <2>1, <2>2 DEF Lists
  <2>4. /\ IsInjective((waiting \o ready) \o running)
        /\ Range((waiting \o ready) \o running) = Range(waiting) \union Range(ready) \union Range(running)
    <3>1. PICK u \in Seq(Jobs) : u = waiting \o ready
      BY <2>2
    <3>2. IsInjective(u) /\ Range(u) \intersect Range(running) = {}
      BY <2>2, <2>3, <3>1
    <3>3. IsInjective(u \o running) /\ Range(u \o running) = Range(u) \union Range(running)
      BY <2>1, <2>3, <3>2, ConcatList
    <3>4. QED BY <2>2, <3>1, <3>3
  <2>5. Range((waiting \o ready) \o running) \intersect sched = {}
    BY <2>1, <2>4 DEF Lists
  <2>6. QED BY <2>4, <2>5, EnginesCounted, SeqSet DEF OnePlace
<1>2. QED BY <1>1, JobQInvariant, PTL

(* No counter leaks: each NumConcurrentJobs of a storage, client or Job    *)
(* resource is the number of uses by the jobs that hold their resource     *)
(* locks (acquire_resources, jobq.c).                                      *)
THEOREM JobQCounters == Spec => []CountersExact
<1>1. IInv => CountersExact
  BY DEF IInv, Counters, Uses, Holders, CountersExact
<1>2. QED BY <1>1, JobQInvariant, PTL

(* The jobs that hold resource locks never use more of a storage, client   *)
(* or Job resource than its MaxConcurrentJobs, canceled, stopped, re-run   *)
(* or not (acquire_resources, jobq.c).                                     *)
THEOREM JobQHeldWithinLimits ==
    Spec => [](\A r \in Resources : 0 <= num[r] /\ num[r] <= Limit[r])
<1>1. IInv => \A r \in Resources : 0 <= num[r] /\ num[r] <= Limit[r]
  <2> SUFFICES ASSUME IInv, NEW r \in Resources PROVE 0 <= num[r] /\ num[r] <= Limit[r]
    OBVIOUS
  <2>1. num[r] = Cardinality(Uses(Holders, r)) /\ num[r] <= Limit[r]
    BY DEF IInv, Counters
  <2>2. Cardinality(Uses(Holders, r)) \in Nat
    BY UsesFinite DEF Holders
  <2>3. QED BY <2>1, <2>2
<1>2. QED BY <1>1, JobQInvariant, PTL

(* The body of a job runs only with its resources, as long as no canceled  *)
(* job can lose its mark (NoneRevived, jobq.c:713 and job.c:764).          *)
THEOREM JobQRunsWithResources == ASSUME NoneRevived PROVE Spec => []RunsWithResources
<1>1. IInv => RunsWithResources
  BY DEF IInv, StartsWithResources, RunsWithResources, Executing
<1>2. QED BY <1>1, JobQInvariant, PTL

(* Under the same hypothesis no more jobs run on a storage, client or Job  *)
(* resource than its MaxConcurrentJobs.                                    *)
THEOREM JobQLimits == ASSUME NoneRevived PROVE Spec => []LimitsRespected
<1>1. IInv => LimitsRespected
  <2> DEFINE On(r) == {j \in Executing : r \in {RStore[j], WStore[j], ClientCounter(j), JobRes[j]}}
  <2> SUFFICES ASSUME IInv, NEW r \in Resources PROVE Cardinality(On(r)) <= Limit[r]
    BY DEF LimitsRespected
  <2>1. Executing \subseteq Holders
    <3>1. \A w \in Workers : pc[w] = "run" => cur[w] \in Jobs /\ acquired[cur[w]]
      BY DEF IInv, StartsWithResources, WorkersKept, Stages, Engine
    <3>2. QED BY <3>1 DEF Executing, Holders
  <2> DEFINE f == [j \in On(r) |-> CHOOSE u \in Uses(Holders, r) : u[1] = j]
  <2>2. ASSUME NEW j \in On(r) PROVE f[j] \in Uses(Holders, r) /\ f[j][1] = j
    <3>1. PICK k \in 1..4 : r = <<RStore[j], WStore[j], ClientCounter(j), JobRes[j]>>[k]
      <4>1. CASE r = RStore[j]
        BY <4>1
      <4>2. CASE r = WStore[j]
        BY <4>2
      <4>3. CASE r = ClientCounter(j)
        BY <4>3
      <4>4. CASE r = JobRes[j]
        BY <4>4
      <4>5. QED BY <2>2, <4>1, <4>2, <4>3, <4>4
    <3>2. <<j, k>> \in Uses(Holders, r)
      BY <2>1, <2>2, <3>1 DEF Uses
    <3>3. QED BY <2>2, <3>2
  <2>3. f \in Injection(On(r), Uses(Holders, r))
    <3>1. f \in [On(r) -> Uses(Holders, r)]
      BY <2>2
    <3>2. \A i, j \in On(r) : f[i] = f[j] => i = j
      BY <2>2
    <3>3. QED BY <3>1, <3>2 DEF Injection, IsInjective
  <2>4. IsFiniteSet(Uses(Holders, r)) /\ Cardinality(Uses(Holders, r)) \in Nat
    BY UsesFinite DEF Holders
  <2> HIDE DEF f, On
  <2>5. IsFiniteSet(On(r)) /\ Cardinality(On(r)) <= Cardinality(Uses(Holders, r))
    BY <2>3, <2>4, FS_Injection
  <2>6. Cardinality(On(r)) \in Nat
    BY <2>5, FS_CardinalityType
  <2>7. num[r] = Cardinality(Uses(Holders, r)) /\ num[r] <= Limit[r] /\ Limit[r] \in Nat
    BY JobsAssumption DEF IInv, Counters
  <2>8. QED BY <2>4, <2>5, <2>6, <2>7
<1>2. QED BY <1>1, JobQInvariant, PTL

(* A JCR has one reference for its place in the queues or its sched_wait   *)
(* thread and one for each worker that has still to free it: it is freed   *)
(* exactly when nothing refers to it (jobq_add, free_jcr).                 *)
THEOREM JobQReferences == Spec => []UseCounts
<1>1. IInv => UseCounts
  <2> SUFFICES ASSUME IInv, NEW j \in Jobs
               PROVE  use[j] = (IF j \in ToSet(waiting \o ready \o running) \union sched THEN 1 ELSE 0)
                           + Cardinality({w \in Workers : cur[w] = j /\ pc[w] \notin {"engine", "run", "done"}})
    BY DEF UseCounts
  <2>1. waiting \in Seq(Jobs) /\ ready \in Seq(Jobs) /\ running \in Seq(Jobs)
    BY DEF IInv, Types
  <2>2. waiting \o ready \in Seq(Jobs) /\ Range(waiting \o ready) = Range(waiting) \union Range(ready)
    BY <2>1, ConcatList
  <2>3. Range((waiting \o ready) \o running) = Range(waiting) \union Range(ready) \union Range(running)
    <3>1. PICK u \in Seq(Jobs) : u = waiting \o ready
      BY <2>2
    <3>2. Range(u \o running) = Range(u) \union Range(running)
      BY <2>1, <3>1, ConcatList
    <3>3. QED BY <2>2, <3>1, <3>2
  <2>4. Placed = ToSet(waiting \o ready \o running) \union sched
    BY <2>3, SeqSet DEF Placed
  <2>5. Droppers(j) = {w \in Workers : cur[w] = j /\ pc[w] \notin {"engine", "run", "done"}}
    BY DEF Droppers, Engine
  <2>6. use[j] = In(j \in Placed) + Cardinality(Droppers(j))
    BY DEF IInv, References
  <2>7. QED BY <2>4, <2>5, <2>6 DEF In
<1>2. QED BY <1>1, JobQInvariant, PTL

(* Without workers no job is executing.                                    *)
LEMMA NobodyLeft == ASSUME IInv, num_workers = 0 PROVE Quiet
<1>1. Threads = {}
  <2>1. IsFiniteSet(Threads)
    BY JobsAssumption, FS_Subset DEF Threads
  <2>2. QED BY <2>1, FS_EmptySet DEF IInv, Shutdown
<1>2. \A w \in Workers : pc[w] = "none"
  BY <1>1 DEF Threads
<1>3. Range(running) = {}
  BY <1>2 DEF IInv, WorkersKept, Engine
<1>4. running = <<>>
  BY <1>3, RangeElements DEF IInv, Types
<1>5. QED BY <1>2, <1>4 DEF Quiet

LEMMA QuietKept == ASSUME Quiet, UNCHANGED <<queues, workers>> PROVE Quiet'
BY DEF Quiet, queues, workers

(* When jobq_destroy returns no worker is left and no job is executing.    *)
(* From then on no thread that tests jq->valid changes that: only one that *)
(* tested it before the shutdown, in jobq_add (jobq.c:241) or jobq_remove. *)
THEOREM JobQDestroyed == Spec => DestroyedQuiet
<1>1. ASSUME IInv, Next, destroy' = "done", destroy # "done" PROVE Quiet'
  <2>1. \A j \in Jobs : ~(\/ run_job(j) \/ sched_wait(j) \/ jobq_add(j) \/ job_monitor_watchdog(j)
                          \/ Cancels(j) \/ update_priority(j))
    BY <1>1 DEF life, run_job, sched_wait, jobq_add, job_monitor_watchdog, Cancels, cancel_job,
       cancel_job_mark, jobq_remove, CancelDaemons, update_priority
  <2>2. \A w \in Workers : ~jobq_server(w)
    <3>1. ASSUME NEW w \in Workers, LoopEnd(w) PROVE FALSE
      BY <1>1, <3>1 DEF LoopEnd
    <3>2. ASSUME NEW w \in Workers, jobq_server(w), ~LoopEnd(w) PROVE FALSE
      BY <1>1, <3>2 DEF life, jobq_server, ServerStart, TimedWait, TakeReady, MarkRunning, job_thread,
         job_thread_end, JobDone, reschedule_job, Requeue, Respawn, JobqAddAgain, FreeJcr, StartScan,
         Examine, Refused, Pause
    <3>3. QED BY <3>1, <3>2
  <2>3. jobq_destroy \/ DestroyReturns
    BY <1>1, <2>1, <2>2 DEF Next
  <2>4. num_workers = 0 /\ UNCHANGED <<queues, workers>>
    BY <1>1, <2>3 DEF jobq_destroy, DestroyReturns, AllGone
  <2>5. QED BY <1>1, <2>4, NobodyLeft, QuietKept
<1>2. ASSUME IInv, Next, destroy = "done", Quiet PROVE Quiet' \/ LateOperation
  <2>1. ~valid
    BY <1>2 DEF IInv, Shutdown
  <2>2. ASSUME NEW j \in Jobs, \/ run_job(j) \/ sched_wait(j) \/ job_monitor_watchdog(j) \/ cancel_job(j)
                               \/ cancel_job_mark(j) \/ CancelDaemons(j) \/ update_priority(j)
        PROVE  Quiet'
    <3>1. UNCHANGED <<queues, workers>>
      BY <2>1, <2>2 DEF run_job, sched_wait, job_monitor_watchdog, cancel_job, cancel_job_mark,
         CancelDaemons, update_priority
    <3>2. QED BY <1>2, <3>1, QuietKept
  <2>3. ASSUME NEW j \in Jobs, jobq_add(j) PROVE LateOperation
    BY <1>2, <2>3 DEF jobq_add, LateOperation
  <2>4. ASSUME NEW j \in Jobs, jobq_remove(j) PROVE Quiet' \/ LateOperation
    <3>1. CASE UNCHANGED <<queues, workers>>
      BY <1>2, <3>1, QuietKept
    <3>2. CASE Step(j, "true")
      <4>1. cancel'[j].step = "true"
        BY <1>2, <3>2 DEF Step, IInv, Types
      <4>2. j \in Removing /\ j \notin Removing'
        BY <2>4, <4>1 DEF jobq_remove, Removing
      <4>3. QED BY <1>2, <4>2 DEF LateOperation
    <3>3. QED BY <2>4, <3>1, <3>2 DEF jobq_remove, queues, workers
  <2>5. \A w \in Workers : ~jobq_server(w)
    BY <1>2 DEF Quiet, jobq_server, ServerStart, TimedWait, Enter, TakeReady, MarkRunning, job_thread,
       job_thread_end, JobDone, reschedule_job, Requeue, Respawn, FreeJcr, StartScan, Examine, Refused,
       LoopEnd, Pause
  <2>6. ASSUME jobq_destroy \/ DestroyReturns PROVE Quiet'
    <3>1. UNCHANGED <<queues, workers>>
      BY <2>6 DEF jobq_destroy, DestroyReturns
    <3>2. QED BY <1>2, <3>1, QuietKept
  <2>7. QED BY <1>2, <2>2, <2>3, <2>4, <2>5, <2>6 DEF Next, Cancels
<1>3. IInv /\ [Next]_vars =>
        [destroy' = "done" => Quiet' \/ LateOperation \/ (destroy = "done" /\ ~Quiet)]_vars
  BY <1>1, <1>2
<1>4. QED BY <1>3, JobQInvariant, PTL DEF Spec, DestroyedQuiet

-----------------------------------------------------------------------------
(* What cancel_job promises, where no job is run again.                    *)
LEMMA NoRerunSteps ==
    ASSUME IInv, NoReruns, NEW w \in Workers
    PROVE  ~reschedule_job(w) /\ ~Requeue(w) /\ ~Respawn(w)
BY DEF IInv, CancelsKept, Deciding, reschedule_job, Requeue, Respawn

(* A status that is canceled stays so, but for a stop.                     *)
LEMMA StaysCanceled ==
    ASSUME IInv, NoReruns, [Next]_vars, NEW j \in Jobs, Canceled(j), ~Stopping(j)
    PROVE  Canceled(j)'
<1> USE DEF queues, adders, workers, scan, jcr, life
<1>1. status[j] \in Statuses /\ job_canceled(status[j]) /\ status[j] # "none"
  BY NotNone DEF Canceled, job_canceled, IInv, Types
<1>2. ASSUME status'[j] = status[j] PROVE Canceled(j)'
  BY <1>1, <1>2 DEF Canceled
<1>3. status \in [Jobs -> Statuses \union {"none"}]
  BY DEF IInv, Types
<1>4. ASSUME NEW i \in Jobs, NEW s \in Statuses \ {"Incomplete"},
             status' = [status EXCEPT ![i] = compareJobStatus(status[i], s)]
      PROVE  Canceled(j)'
  <2>1. job_canceled(compareJobStatus(status[j], s))
    BY <1>1, <1>4, StatusStep
  <2>2. QED BY <1>1, <1>3, <1>4, <2>1 DEF Canceled
<1>5. ASSUME NEW i \in Jobs, run_job(i) PROVE Canceled(j)'
  BY <1>1, <1>2, <1>3, <1>5 DEF run_job
<1>0. "Canceled" \in Statuses \ {"Incomplete"}
  BY NotNone
<1>6. ASSUME NEW i \in Jobs, job_monitor_watchdog(i) PROVE Canceled(j)'
  <2>1. status' = [status EXCEPT ![i] = compareJobStatus(status[i], "Canceled")]
    BY <1>6 DEF job_monitor_watchdog, setJobStatus, NewStatus
  <2>2. QED BY <1>0, <1>4, <2>1, Zenon
<1>7. ASSUME NEW i \in Jobs, cancel_job_mark(i) PROVE Canceled(j)'
  <2>1. CASE i = j
    <3>1. status' = [status EXCEPT ![i] = compareJobStatus(status[i], "Canceled")]
      BY <1>7, <2>1 DEF cancel_job_mark, Stopping, setJobStatus, NewStatus
    <3>2. QED BY <1>0, <1>4, <3>1, Zenon
  <2>2. CASE i # j
    BY <1>2, <1>3, <1>7, <2>2 DEF cancel_job_mark, setJobStatus
  <2>3. QED BY <2>1, <2>2
<1>8. ASSUME NEW i \in Jobs, \/ sched_wait(i) \/ jobq_add(i) \/ cancel_job(i) \/ jobq_remove(i)
                             \/ CancelDaemons(i) \/ update_priority(i)
      PROVE  Canceled(j)'
  BY <1>2, <1>8 DEF sched_wait, jobq_add, cancel_job, jobq_remove, CancelDaemons, update_priority
<1>9. ASSUME NEW w \in Workers, jobq_server(w) PROVE Canceled(j)'
  <2>1. CASE MarkRunning(w) \/ job_thread(w)
    <3>1. \/ status' = status
          \/ \E s \in {"Running", "Canceled"} :
                status' = [status EXCEPT ![cur[w]] = compareJobStatus(status[cur[w]], s)]
      BY <2>1 DEF MarkRunning, job_thread, setJobStatus, NewStatus
    <3>2. {"Running", "Canceled"} \subseteq Statuses \ {"Incomplete"}
      BY NotNone
    <3>3. cur[w] \in Jobs
      BY <2>1 DEF MarkRunning, job_thread, IInv, WorkersKept, Stages, Engine
    <3>4. QED BY <1>2, <1>4, <3>1, <3>2, <3>3
  <2>2. CASE job_thread_end(w)
    <3>1. PICK s \in Outcomes : status' = [status EXCEPT ![cur[w]] = compareJobStatus(status[cur[w]], s)]
      BY <2>2 DEF job_thread_end, setJobStatus, NewStatus
    <3>2. s \in Statuses \ {"Incomplete"}
      BY <3>1, JobsAssumption, NotNone DEF NoReruns
    <3>3. cur[w] \in Jobs
      BY <2>2 DEF job_thread_end, IInv, WorkersKept, Stages, Engine
    <3>4. QED BY <1>4, <3>1, <3>2, <3>3
  <2>3. CASE Examine(w)
    <3>1. PICK i \in Range(waiting), t \in Statuses :
             /\ i \in Jobs /\ status' = [status EXCEPT ![i] = t]
             /\ Canceled(i) => job_canceled(t)
      BY <2>3, ExamineDoes
    <3>2. QED BY <1>1, <1>3, <3>1 DEF Canceled
  <2>4. CASE \/ ServerStart(w) \/ TimedWait(w) \/ TakeReady(w) \/ JobDone(w) \/ FreeJcr(w)
             \/ StartScan(w) \/ Refused(w) \/ LoopEnd(w) \/ Pause(w)
    BY <1>2, <2>4 DEF ServerStart, TimedWait, TakeReady, JobDone, FreeJcr, StartScan, Refused, LoopEnd, Pause
  <2>5. QED BY <1>9, <2>1, <2>2, <2>3, <2>4, NoRerunSteps DEF jobq_server
<1>10. CASE jobq_destroy \/ DestroyReturns \/ UNCHANGED vars
  BY <1>2, <1>10 DEF jobq_destroy, DestroyReturns, vars
<1>11. QED BY <1>5, <1>6, <1>7, <1>8, <1>9, <1>10 DEF Next, Cancels

(* What a step does to a cancel_job call.                                  *)
LEMMA CancelMoves ==
    ASSUME IInv, [Next]_vars, NEW j \in Jobs
    PROVE  \/ cancel'[j] = cancel[j]
           \/ job_monitor_watchdog(j) /\ cancel'[j].step = "thread"
           \/ cancel_job(j) /\ cancel'[j].step = "mark"
           \/ cancel_job_mark(j)
           \/ /\ jobq_remove(j) \/ CancelDaemons(j)
              /\ cancel'[j].cmd = cancel[j].cmd /\ cancel[j].step \in {"remove", "daemons"}
              /\ cancel'[j].step \in {"true", "false"} /\ status' = status
<1> USE DEF queues, adders, workers, scan, jcr, life, Step
<1>1. cancel \in [Jobs -> [step : CancelSteps, cmd : {"cancel", "stop"}, queued : BOOLEAN]]
  BY DEF IInv, Types
<1>2. ASSUME NEW i \in Jobs, run_job(i) \/ sched_wait(i) \/ jobq_add(i) \/ update_priority(i)
      PROVE  cancel' = cancel
  BY <1>2 DEF run_job, sched_wait, jobq_add, update_priority
<1>3. ASSUME NEW i \in Jobs, job_monitor_watchdog(i)
      PROVE  cancel'[j] = cancel[j] \/ (i = j /\ cancel'[j].step = "thread")
  BY <1>1, <1>3 DEF job_monitor_watchdog
<1>4. ASSUME NEW i \in Jobs, cancel_job(i)
      PROVE  cancel'[j] = cancel[j] \/ (i = j /\ cancel'[j].step = "mark")
  <2>1. PICK c, q : cancel' = [cancel EXCEPT ![i] = [step |-> "mark", cmd |-> c, queued |-> q]]
    BY <1>4 DEF cancel_job
  <2>2. QED BY <1>1, <2>1
<1>5. ASSUME NEW i \in Jobs, cancel_job_mark(i), i # j PROVE cancel'[j] = cancel[j]
  BY <1>1, <1>5 DEF cancel_job_mark
<1>6. ASSUME NEW i \in Jobs, jobq_remove(i) \/ CancelDaemons(i)
      PROVE  \/ cancel'[j] = cancel[j]
             \/ /\ i = j /\ cancel'[j].cmd = cancel[j].cmd /\ cancel[j].step \in {"remove", "daemons"}
                /\ cancel'[j].step \in {"true", "false"} /\ status' = status
  <2>1. PICK t \in {"true", "false"} : cancel' = [cancel EXCEPT ![i].step = t]
    BY <1>6 DEF jobq_remove, CancelDaemons
  <2>2. status' = status /\ cancel[i].step \in {"remove", "daemons"}
    BY <1>6 DEF jobq_remove, CancelDaemons
  <2>3. QED BY <1>1, <2>1, <2>2
<1>7. ASSUME NEW w \in Workers, jobq_server(w) PROVE cancel' = cancel
  BY <1>7 DEF jobq_server, ServerStart, TimedWait, TakeReady, MarkRunning, job_thread, job_thread_end,
     JobDone, reschedule_job, Requeue, Respawn, JobqAddAgain, FreeJcr, StartScan, Examine, Refused,
     LoopEnd, Pause
<1>8. CASE jobq_destroy \/ DestroyReturns \/ UNCHANGED vars
  BY <1>8 DEF jobq_destroy, DestroyReturns, vars
<1>9. QED BY <1>2, <1>3, <1>4, <1>5, <1>6, <1>7, <1>8 DEF Next, Cancels

(* Past its mark a cancel leaves the job canceled.                         *)
Marked == \A j \in Jobs : cancel[j].step \in {"remove", "daemons", "true", "false"}
                             /\ cancel[j].cmd = "cancel" => Canceled(j)

LEMMA MarkedKept == ASSUME IInv, NoReruns, Marked, [Next]_vars PROVE Marked'
<1> SUFFICES ASSUME NEW j \in Jobs, cancel'[j].step \in {"remove", "daemons", "true", "false"},
                    cancel'[j].cmd = "cancel"
             PROVE  Canceled(j)'
  BY DEF Marked
<1>1. CASE cancel'[j] = cancel[j]
  BY <1>1, StaysCanceled DEF Marked, Stopping
<1>2. CASE cancel_job_mark(j)
  <2>1. cancel[j].step = "mark" /\ \E next : cancel' = [cancel EXCEPT ![j].step = next]
    BY <1>2 DEF cancel_job_mark, Step
  <2>2. cancel[j].cmd = "cancel"
    BY <2>1 DEF IInv, Types
  <2>3. status' = [status EXCEPT ![j] = compareJobStatus(status[j], "Canceled")]
    BY <1>2, <2>2 DEF cancel_job_mark, setJobStatus, NewStatus
  <2>4. status[j] # "Incomplete"
    BY <2>1, Zenon DEF IInv, CancelsKept
  <2>5. job_canceled(compareJobStatus(status[j], "Canceled"))
    BY <2>4, StatusStep, NotNone, ZenonT(30) DEF IInv, Types, job_canceled
  <2>6. QED BY <2>3, <2>5 DEF Canceled, IInv, Types
<1>3. CASE /\ cancel'[j].cmd = cancel[j].cmd /\ cancel[j].step \in {"remove", "daemons"}
           /\ status' = status
  BY <1>3 DEF Marked, Canceled
<1>4. QED BY <1>1, <1>2, <1>3, CancelMoves

(* A job that cancel_job reported canceled does not start to run later, as *)
(* long as no job is run again (a re-run wipes the mark, jobq.c:713).      *)
THEOREM JobQCanceledNeverStarts == ASSUME NoReruns PROVE Spec => CanceledNeverStarts
<1>1. Init => Marked
  BY DEF Init, Idle, Marked
<1>2. IInv /\ Marked /\ [Next]_vars => Marked'
  BY MarkedKept
<1>3. IInv /\ Marked /\ [Next]_vars =>
        [\A w \in Workers : (pc[w] = "engine" /\ pc'[w] = "run") =>
            ~(cancel[cur[w]].step = "true" /\ cancel[cur[w]].cmd = "cancel")]_vars
  <2> SUFFICES ASSUME IInv, Marked, Next, NEW w \in Workers, pc[w] = "engine", pc'[w] = "run",
                      cancel[cur[w]].step = "true", cancel[cur[w]].cmd = "cancel"
               PROVE  FALSE
    OBVIOUS
  <2> USE DEF queues, adders, workers, scan, jcr, life
  <2>1. pc \in [Workers -> WorkerSteps]
    BY DEF IInv, Types
  <2>2. job_thread(w)
    <3>1. ASSUME NEW p \in [Workers -> WorkerSteps], start_server(p) \/ pc' = p, p[w] = "engine" PROVE FALSE
      BY <3>1 DEF start_server
    <3>2. ASSUME NEW j \in Jobs, \/ run_job(j) \/ sched_wait(j) \/ jobq_add(j)
                                 \/ job_monitor_watchdog(j) \/ Cancels(j) \/ update_priority(j)
          PROVE  FALSE
      <4>1. ~jobq_add(j)
        <5>1. Returned(j)[w] = "engine"
          BY Returns
        <5>2. QED BY <3>1, <5>1, Returns DEF jobq_add
      <4>2. QED BY <2>1, <3>1, <3>2, <4>1 DEF run_job, sched_wait, job_monitor_watchdog, Cancels,
           cancel_job, cancel_job_mark, jobq_remove, CancelDaemons, update_priority
    <3>3. ASSUME NEW v \in Workers, jobq_server(v), v # w PROVE FALSE
      <4>1. CASE Requeue(v) \/ Respawn(v)
        BY <4>1, NoRerunSteps
      <4>2. CASE TakeReady(v)
        <5>1. PICK p \in [Workers -> WorkerSteps] : p = [pc EXCEPT ![v] = "engine"]
          BY <2>1 DEF WorkerSteps
        <5>2. p[w] = "engine" /\ (start_server(p) \/ pc' = p)
          BY <2>1, <3>3, <4>2, <5>1 DEF TakeReady
        <5>3. QED BY <3>1, <5>2
      <4>3. \/ \E p : pc' = [pc EXCEPT ![v] = p]
            \/ pc' = pc
        BY <3>3, <4>1, <4>2 DEF jobq_server, ServerStart, TimedWait, MarkRunning, job_thread,
             job_thread_end, JobDone, reschedule_job, FreeJcr, StartScan, Examine, Refused, LoopEnd, Pause
      <4>4. QED BY <2>1, <3>3, <4>3
    <3>4. ASSUME jobq_server(w), ~job_thread(w) PROVE FALSE
      BY <3>4 DEF jobq_server, ServerStart, TimedWait, Enter, TakeReady, MarkRunning, job_thread_end,
           JobDone, reschedule_job, Requeue, Respawn, FreeJcr, StartScan, Examine, Refused, LoopEnd, Pause
    <3>5. ~jobq_destroy /\ ~DestroyReturns
      BY DEF jobq_destroy, DestroyReturns
    <3>6. QED BY <3>2, <3>3, <3>4, <3>5 DEF Next
  <2>3. PICK j : j = cur[w]
    OBVIOUS
  <2>4. j \in Jobs
    BY <2>3 DEF IInv, WorkersKept, Stages, Engine
  <2>5. Canceled(j)
    BY <2>3, <2>4 DEF Marked
  <2>6. Canceled(j)'
    BY <2>3, <2>4, <2>5, StaysCanceled DEF Stopping
  <2>7. pc' = [pc EXCEPT ![w] = "done"]
    BY <2>2, <2>3, <2>6 DEF job_thread, Canceled
  <2>8. QED BY <2>1, <2>7
<1>4. QED BY <1>1, <1>2, <1>3, JobQInvariant, PTL DEF Spec, CanceledNeverStarts

-----------------------------------------------------------------------------
(* Where no script and no watchdog marks a job either, cancel_job takes a  *)
(* job that waits for one that waits.                                      *)
OnlyCommands == NoReruns /\ Scripted = {} /\ Watched = {}

Queued == Range(waiting) \union sched

Deferred(j) == \/ cancel[j].step \in {"none", "remove", "false"}
               \/ cancel[j].step = "mark" /\ cancel[j].queued = TRUE

InQueue == \A j \in Queued : (status[j] \in WaitStatuses \/ Canceled(j)) /\ Deferred(j)

(* A job that waits gets a status to wait with.                            *)
LEMMA QueuedStatus ==
    ASSUME IInv, Respawning, Tested, OnlyCommands, InQueue, [Next]_vars, NEW j \in Queued'
    PROVE  /\ status'[j] \in WaitStatuses \/ Canceled(j)'
           /\ j \in Queued \/ (status[j] = "none" /\ cancel'[j] = cancel[j])
           /\ j \in Jobs
<1> DEFINE Good == /\ status'[j] \in WaitStatuses \/ Canceled(j)'
                   /\ j \in Queued \/ (status[j] = "none" /\ cancel'[j] = cancel[j])
<1> USE DEF queues, adders, workers, scan, jcr, life
<1>1. IInv' => j \in Jobs
  BY RangeElements DEF IInv, Types, Queued
<1>2. /\ waiting \in Seq(Jobs) /\ sched \subseteq Jobs /\ Queued \subseteq Jobs
      /\ status \in [Jobs -> Statuses \union {"none"}]
      /\ Range(waiting) \intersect Range(running) = {} /\ sched \intersect Range(running) = {}
  BY RangeElements DEF IInv, Types, Queued, Lists
<1>3. ASSUME Queued' \subseteq Queued, status'[j] = status[j] PROVE Good
  BY <1>3 DEF InQueue, Canceled
<1>4. ASSUME Queued' \subseteq Queued, NEW i, NEW s, status' = [status EXCEPT ![i] = s], i # j PROVE Good
  BY <1>2, <1>3, <1>4
<1>5. ASSUME NEW i \in Jobs, run_job(i) PROVE Good
  <2>1. status[i] = "none" /\ cancel' = cancel /\ i \notin Queued
    BY <1>5 DEF run_job, IInv, JobsKept, Placed, Queued
  <2>2. CASE Queued' \subseteq Queued
    BY <1>2, <1>4, <1>5, <2>1, <2>2 DEF run_job
  <2>3. CASE /\ \E s \in {"WaitStartTime", "Created"} : status' = [status EXCEPT ![i] = s]
             /\ sched' = sched \union {i} /\ UNCHANGED waiting
    <3>1. Queued' \subseteq Queued \union {i}
      BY <2>3 DEF Queued
    <3>2. CASE j = i
      BY <1>2, <2>1, <2>3, <3>2 DEF WaitStatuses
    <3>3. CASE j # i
      <4>1. j \in Queued /\ status'[j] = status[j]
        BY <1>2, <2>3, <3>1, <3>3
      <4>2. QED BY <4>1 DEF InQueue, Canceled
    <3>4. QED BY <3>2, <3>3
  <2>4. QED BY <1>5, <2>2, <2>3 DEF run_job, PassTest, Queued
<1>6. ASSUME NEW i \in Jobs, sched_wait(i) PROVE Good
  <2>1. Queued' \subseteq Queued /\ status' = status
    BY <1>6 DEF sched_wait, PassTest, Queued
  <2>2. QED BY <1>3, <2>1
<1>7. ASSUME NEW i \in Jobs, jobq_add(i) PROVE Good
  <2>1. i \in sched /\ sched' = sched \ {i} /\ status' = status /\ Enqueue(i)
    BY <1>7 DEF jobq_add, Tested
  <2>2. i \notin Range(waiting)
    BY <2>1 DEF IInv, Lists
  <2>3. Range(waiting') \subseteq Range(waiting) \union {i}
    BY <2>1, <2>2, Inserted DEF Enqueue
  <2>4. Queued' \subseteq Queued
    BY <2>1, <2>3 DEF Queued
  <2>5. QED BY <1>3, <2>1, <2>4
<1>8. ASSUME NEW i \in Jobs, cancel_job_mark(i) PROVE Good
  <2>1. Queued' = Queued
    BY <1>8 DEF cancel_job_mark, Queued
  <2>2. CASE i = j
    <3>1. cancel[i].queued = TRUE
      BY <1>8, <2>1, <2>2 DEF cancel_job_mark, InQueue, Deferred
    <3>2. status' = [status EXCEPT ![i] = compareJobStatus(status[i], "Canceled")]
      BY <1>8, <3>1 DEF cancel_job_mark, setJobStatus, NewStatus
    <3>3. compareJobStatus(status[i], "Canceled") \in {status[i], "Canceled"}
      BY <1>2, StatusStep, NotNone
    <3>4. QED BY <1>2, <2>1, <2>2, <3>2, <3>3 DEF InQueue, Canceled, job_canceled
  <2>3. CASE i # j
    BY <1>4, <1>8, <2>1, <2>3 DEF cancel_job_mark, setJobStatus
  <2>4. QED BY <2>2, <2>3
<1>9. ASSUME NEW i \in Jobs, cancel_job(i) \/ CancelDaemons(i) \/ update_priority(i) PROVE Good
  <2>1. Queued' = Queued /\ status' = status
    BY <1>9 DEF cancel_job, CancelDaemons, update_priority, Queued
  <2>2. QED BY <1>3, <2>1
<1>10. ASSUME NEW i \in Jobs, jobq_remove(i) PROVE Good
  <2>1. waiting' = waiting \/ waiting' = RemoveFirst(waiting, i)
    BY <1>10 DEF jobq_remove, MoveToReady
  <2>2. Range(waiting') \subseteq Range(waiting)
    BY <1>2, <2>1, RemoveFirstList DEF IInv, Lists
  <2>3. Queued' \subseteq Queued /\ status' = status
    BY <1>10, <2>2 DEF jobq_remove, Queued
  <2>4. QED BY <1>3, <2>3
<1>11. ASSUME NEW w \in Workers, jobq_server(w) PROVE Good
  <2>1. CASE MarkRunning(w) \/ job_thread(w) \/ job_thread_end(w)
    <3>1. Queued' = Queued /\ (status' = status \/ \E s : status' = [status EXCEPT ![cur[w]] = s])
      BY <2>1 DEF MarkRunning, job_thread, job_thread_end, setJobStatus, Queued
    <3>2. cur[w] \in Range(running)
      BY <2>1 DEF MarkRunning, job_thread, job_thread_end, IInv, WorkersKept, Engine
    <3>3. cur[w] # j
      BY <1>2, <3>1, <3>2 DEF Queued
    <3>4. QED BY <1>3, <1>4, <3>1, <3>3
  <2>2. CASE Examine(w)
    <3>1. PICK i \in Jobs : i = Head(todo)
      BY <2>2, ExamineDoes
    <3>2. sched' = sched
      BY <2>2 DEF Examine
    <3>3. Range(waiting') \subseteq Range(waiting)
      BY <2>2, ExamineDoes DEF Stays, Goes, GoesCanceled, GoesWithResources, MovesUp
    <3>4. Queued' \subseteq Queued
      BY <3>2, <3>3 DEF Queued
    <3>5. /\ acquire_resources(i).wait \in {"none", "WaitStoreRes", "WaitClientRes", "WaitJobRes"}
          /\ i \in Queued
      <4>1. i \in Range(waiting)
        BY <2>2, <3>1, ExamineDoes
      <4>2. QED BY <4>1, AcquireAll DEF IInv, Types, Counters, Queued
    <3>6. PICK s \in QueuedScript(i), x \in {"WaitPriority", "WaitStoreRes", "WaitClientRes", "WaitJobRes"} :
             \/ status' = [status EXCEPT ![i] = s.status]
             \/ status' = [status EXCEPT ![i] = compareJobStatus(s.status, x)]
      <4> DEFINE g == acquire_resources(i)
      <4> HIDE DEF g
      <4>1. g.wait \in {"none", "WaitStoreRes", "WaitClientRes", "WaitJobRes"}
        BY <3>5 DEF g
      <4>2. PICK s \in QueuedScript(i) :
               \/ status' = [status EXCEPT ![i] = s.status]
               \/ status' = [status EXCEPT ![i] = compareJobStatus(s.status, "WaitPriority")]
               \/ g.wait # "none" /\ status' = [status EXCEPT ![i] = compareJobStatus(s.status, g.wait)]
        BY <2>2, <3>1 DEF Examine, g
      <4>3. QED BY <4>1, <4>2
    <3>7. s.status = status[i]
      BY DEF QueuedScript, OnlyCommands
    <3>8. status[i] \in Statuses /\ compareJobStatus(status[i], x) \in {status[i], x}
      <4>1. i \in Placed
        BY <3>5 DEF Queued, Placed
      <4>2. status[i] # "none"
        BY <4>1 DEF IInv, JobsKept
      <4>3. QED BY <1>2, <4>2, StatusStep, NotNone
    <3>9. status' = [status EXCEPT ![i] = status[i]] \/ status' = [status EXCEPT ![i] = x]
      BY <3>6, <3>7, <3>8
    <3>10. CASE i # j
      BY <1>4, <3>4, <3>9, <3>10
    <3>11. CASE i = j
      BY <1>2, <3>4, <3>9, <3>11 DEF InQueue, Canceled, WaitStatuses
    <3>12. QED BY <3>10, <3>11
  <2>3. CASE \/ ServerStart(w) \/ TimedWait(w) \/ TakeReady(w) \/ JobDone(w) \/ FreeJcr(w)
             \/ StartScan(w) \/ LoopEnd(w) \/ Pause(w)
    <3>1. Queued' = Queued /\ status' = status
      BY <2>3 DEF ServerStart, TimedWait, TakeReady, JobDone, FreeJcr, StartScan, LoopEnd, Pause, Queued
    <3>2. QED BY <1>3, <3>1
  <2>4. CASE Refused(w)
    <3>1. Range(waiting') \subseteq Range(waiting)
      BY <2>4, RefusedDoes DEF Stays, Goes, GoesCanceled, MovesUp
    <3>2. Queued' \subseteq Queued /\ status' = status
      BY <2>4, <3>1 DEF Refused, Queued
    <3>3. QED BY <1>3, <3>2
  <2>5. QED BY <1>11, <2>1, <2>2, <2>3, <2>4, NoRerunSteps DEF jobq_server, OnlyCommands
<1>12. ASSUME jobq_destroy \/ DestroyReturns \/ UNCHANGED vars PROVE Good
  <2>1. Queued' = Queued /\ status' = status
    BY <1>12 DEF jobq_destroy, DestroyReturns, vars, Queued
  <2>2. QED BY <1>3, <2>1
<1>13. \A i \in Jobs : ~job_monitor_watchdog(i)
  BY DEF job_monitor_watchdog, OnlyCommands
<1>14. Good
  BY <1>5, <1>7, <1>6, <1>8, <1>9, <1>10, <1>11, <1>12, <1>13 DEF Next, Cancels
<1>15. j \in Jobs
  BY <1>1, NextInv
<1>16. QED BY <1>14, <1>15

LEMMA InQueueKept == ASSUME IInv, Respawning, Tested, OnlyCommands, InQueue, [Next]_vars PROVE InQueue'
<1> SUFFICES ASSUME NEW j \in Queued' PROVE (status'[j] \in WaitStatuses \/ Canceled(j)') /\ Deferred(j)'
  BY DEF InQueue
<1>1. /\ status'[j] \in WaitStatuses \/ Canceled(j)'
      /\ j \in Queued \/ (status[j] = "none" /\ cancel'[j] = cancel[j])
      /\ j \in Jobs
  BY QueuedStatus
<1>2. cancel \in [Jobs -> [step : CancelSteps, cmd : {"cancel", "stop"}, queued : BOOLEAN]]
  BY DEF IInv, Types
<1>3. Deferred(j)'
  <2>1. CASE cancel'[j] = cancel[j]
    <3>1. CASE j \in Queued
      BY <2>1, <3>1 DEF InQueue, Deferred
    <3>2. CASE status[j] = "none"
      BY <1>1, <2>1, <3>2 DEF IInv, JobsKept, Deferred
    <3>3. QED BY <1>1, <3>1, <3>2
  <2>2. CASE cancel'[j] # cancel[j]
    <3>1. j \in Queued /\ Deferred(j) /\ (status[j] \in WaitStatuses \/ Canceled(j))
      BY <1>1, <2>2 DEF InQueue
    <3>2. ~job_monitor_watchdog(j)
      BY DEF job_monitor_watchdog, OnlyCommands
    <3>3. ASSUME cancel_job(j) PROVE Deferred(j)'
      <4>1. cancel[j].step = "none"
        BY <3>1, <3>3 DEF cancel_job, Deferred
      <4>2. ~Canceled(j)
        <5>1. j \in Pending
          BY <3>1 DEF Queued, Pending
        <5>2. NoReruns /\ ~ScriptCancels
          BY DEF OnlyCommands, ScriptCancels
        <5>3. QED BY <4>1, <5>1, <5>2 DEF IInv, CancelsKept
      <4>3. not_running(status[j]) = TRUE
        BY <3>1, <4>2 DEF not_running
      <4>4. PICK c : cancel' = [cancel EXCEPT ![j] = [step |-> "mark", cmd |-> c, queued |-> not_running(status[j])]]
        BY <3>3, <4>1 DEF cancel_job
      <4>5. cancel'[j].step = "mark" /\ cancel'[j].queued = TRUE
        BY <1>1, <1>2, <4>3, <4>4
      <4>6. QED BY <4>5 DEF Deferred
    <3>4. ASSUME cancel_job_mark(j) PROVE Deferred(j)'
      <4>1. cancel[j].step = "mark" /\ cancel[j].queued = TRUE
        BY <3>1, <3>4 DEF cancel_job_mark, Deferred
      <4>2. PICK next \in {"remove", "false"} : cancel' = [cancel EXCEPT ![j].step = next]
        BY <3>4, <4>1 DEF cancel_job_mark, Step
      <4>3. cancel'[j].step \in {"remove", "false"}
        BY <1>1, <1>2, <4>2
      <4>4. QED BY <4>3 DEF Deferred
    <3>5. ASSUME jobq_remove(j) PROVE Deferred(j)'
      <4>1. PICK t \in {"true", "false"} :
               /\ cancel' = [cancel EXCEPT ![j].step = t]
               /\ t = "true" => waiting' = RemoveFirst(waiting, j) /\ Contains(waiting, j)
        BY <3>5 DEF jobq_remove, Step, MoveToReady
      <4>2. cancel'[j].step = t
        BY <1>1, <1>2, <4>1
      <4>3. CASE t = "true"
        <5>1. j \notin Range(waiting')
          BY <4>1, <4>3, RemoveFirstList DEF IInv, Types, Lists
        <5>2. j \in Range(waiting)
          BY <4>1, <4>3, RangeElements DEF IInv, Types
        <5>3. j \notin sched /\ sched' = sched
          BY <3>5, <5>2 DEF IInv, Lists, jobq_remove, adders
        <5>4. QED BY <5>1, <5>3 DEF Queued
      <4>4. CASE t = "false"
        BY <4>2, <4>4 DEF Deferred
      <4>5. QED BY <4>1, <4>3, <4>4
    <3>6. ~CancelDaemons(j)
      BY <3>1 DEF CancelDaemons, Deferred
    <3>7. QED BY <1>1, <2>2, <3>2, <3>3, <3>4, <3>5, <3>6, CancelMoves
  <2>3. QED BY <2>1, <2>2
<1>4. QED BY <1>1, <1>3

(* A job that cancel_job reported canceled is not in the waiting list any  *)
(* more, where only console commands cancel jobs and none is run again: a  *)
(* Queued script or the watchdog changes the status cancel_job goes by     *)
(* (job.c:736), and a re-run puts the job back (jobq.c:713).               *)
THEOREM JobQCancelLeaves == ASSUME OnlyCommands PROVE Spec => []CancelLeavesQueue
<1>1. Init => InQueue
  <2> SUFFICES ASSUME Init PROVE Queued = {}
    BY DEF InQueue
  <2>1. QED BY EmptyList DEF Init, Queued
<1>2. IInv /\ Respawning /\ Tested /\ InQueue /\ [Next]_vars => InQueue'
  BY InQueueKept
<1>3. IInv /\ InQueue => CancelLeavesQueue
  <2> SUFFICES ASSUME IInv, InQueue, NEW j \in Jobs, cancel[j].step = "true", Contains(waiting, j)
               PROVE  FALSE
    BY DEF CancelLeavesQueue
  <2>1. j \in Queued
    BY RangeElements DEF IInv, Types, Queued
  <2>2. QED BY <2>1 DEF InQueue, Deferred
<1>4. QED BY <1>1, <1>2, <1>3, JobQInvariant, PTL DEF Spec

-----------------------------------------------------------------------------
(* Somebody looks at the queue, where every waiting job could run alone    *)
(* and nothing but its turn keeps it: no Queued script, no priority        *)
(* changed during a scan, and no resource that a job needs twice.          *)
NothingElseWaits ==
    /\ Scripted = {} /\ NewPriorities = {}
    /\ \A j \in Jobs : /\ RStore[j] \notin {WStore[j], Client[j], JobRes[j]} \ {NoRes}
                       /\ WStore[j] \notin {Client[j], JobRes[j]} \ {NoRes}
                       /\ Client[j] # JobRes[j] \/ Client[j] = NoRes

(* A scan that starts with nothing ready or running begins with a job that *)
(* it is going to move, and that is not refused anything.                  *)
Looks ==
    /\ quit => ~valid
    /\ valid /\ (waiting # <<>> \/ ready # <<>>) => \E w \in Workers : pc[w] # "none"
    /\ \A w \in Workers : pc[w] \in Scanning /\ running = <<>> /\ ready = <<>> =>
          pc[w] = "scan" /\ todo = waiting /\ waiting # <<>> /\ Priority = prio[Head(waiting)]

LEMMA LooksStep ==
    ASSUME IInv, Looks, quit' => ~valid', valid' => valid,
           \/ \A v \in Workers : pc'[v] \notin Scanning
           \/ /\ \A v \in Workers : pc'[v] \in Scanning => pc'[v] = pc[v]
              /\ UNCHANGED <<waiting, ready, running, todo, Priority, prio>>,
           \/ \E v \in Workers : pc'[v] # "none"
           \/ /\ UNCHANGED <<waiting, ready>>
              /\ \A v \in Workers : pc'[v] = "none" => pc[v] = "none"
    PROVE  Looks'
<1>1. valid' /\ (waiting' # <<>> \/ ready' # <<>>) => \E w \in Workers : pc'[w] # "none"
  BY DEF Looks
<1>2. ASSUME NEW w \in Workers, pc'[w] \in Scanning, running' = <<>>, ready' = <<>>
      PROVE  pc'[w] = "scan" /\ todo' = waiting' /\ waiting' # <<>> /\ Priority' = prio'[Head(waiting')]
  BY <1>2 DEF Looks
<1>3. QED BY <1>1, <1>2 DEF Looks

(* After start_server there is a worker.                                   *)
LEMMA StartsOne ==
    ASSUME IInv, NEW p \in [Workers -> WorkerSteps], start_server(p),
           \A v \in Workers : p[v] = "none" <=> pc[v] = "none"
    PROVE  \E v \in Workers : pc'[v] # "none"
<1>1. IsFiniteSet(Threads) /\ num_workers = Cardinality(Threads) /\ Threads \subseteq Workers
  BY JobsAssumption, FS_Subset DEF Threads, IInv, Shutdown
<1>2. StartsOnly(p)
  BY Starts
<1>3. CASE Threads # {}
  BY <1>2, <1>3 DEF Threads, StartsOnly
<1>4. CASE Threads = {}
  <2>1. num_workers = 0
    BY <1>1, <1>4, FS_EmptySet
  <2>2. Cardinality(Workers) \in Nat /\ Cardinality(Workers) > 0
    <3>1. PICK u : u \in Workers
      BY JobsAssumption
    <3>2. QED BY <3>1, JobsAssumption, CountStep
  <2>3. CanStart
    BY <2>1, <2>2 DEF CanStart
  <2>4. PICK u \in Workers : pc' = [p EXCEPT ![u] = "start"]
    BY <2>3 DEF start_server
  <2>5. QED BY <2>4
<1>5. QED BY <1>3, <1>4

(* With nothing acquired a job gets all it needs.                          *)
LEMMA RoomAlone ==
    ASSUME NothingElseWaits, NEW j \in Jobs, num \in [Resources -> Int], \A r \in Resources : num[r] = 0
    PROVE  acquire_resources(j).wait = "none"
<1> DEFINE R == RStore[j] W == WStore[j] C == ClientCounter(j) D == Client[j] J == JobRes[j]
           n1 == Inc(num, R) n2 == Inc(n1, W) n3 == Inc(n2, C)
<1>1. /\ R \in Resources \union {NoRes} /\ W \in Resources \union {NoRes}
      /\ D \in Resources \union {NoRes} /\ J \in Resources \union {NoRes}
      /\ C \in {D, NoRes}
      /\ NoRes \notin Resources /\ \A r \in Resources : Limit[r] \in Nat /\ Limit[r] > 0
  BY JobsAssumption DEF ClientCounter
<1>2. /\ R = NoRes \/ (R # W /\ R # D /\ R # J)
      /\ W = NoRes \/ (W # D /\ W # J)
      /\ D = NoRes \/ D # J
  BY DEF NothingElseWaits
<1> HIDE DEF R, W, C, D, J
<1>3. HasRoom(num, R)
  BY <1>1 DEF HasRoom
<1>4. n1 \in [Resources -> Int] /\ \A r \in Resources : r # R => n1[r] = 0
  BY <1>1 DEF Inc
<1> HIDE DEF n1
<1>5. HasRoom(n1, W)
  BY <1>1, <1>2, <1>4 DEF HasRoom
<1>6. n2 \in [Resources -> Int] /\ \A r \in Resources : r # R /\ r # W => n2[r] = 0
  BY <1>1, <1>4 DEF Inc
<1> HIDE DEF n2
<1>7. HasRoom(n2, D)
  BY <1>1, <1>2, <1>6 DEF HasRoom
<1>8. \A r \in Resources : r # R /\ r # W /\ r # D => n3[r] = 0
  BY <1>1, <1>6 DEF Inc
<1> HIDE DEF n3
<1>9. HasRoom(n3, J)
  BY <1>1, <1>2, <1>8 DEF HasRoom
<1>10. QED BY <1>3, <1>5, <1>7, <1>9 DEF acquire_resources, n1, n2, n3, R, W, C, D, J

LEMMA LooksKept == ASSUME IInv, NothingElseWaits, Looks, [Next]_vars PROVE Looks'
<1> USE DEF queues, adders, workers, scan, jcr, life
<1>1. pc \in [Workers -> WorkerSteps] /\ valid \in BOOLEAN
  BY DEF IInv, Types, Shutdown
<1>2. ASSUME NEW p \in [Workers -> WorkerSteps], start_server(p), MutexFree,
             \A v \in Workers : p[v] = pc[v] \/ (pc[v] # "none" /\ p[v] \in Dropping),
             quit' = quit, valid' = valid
      PROVE  Looks'
  <2>1. \A v \in Workers : p[v] = "none" <=> pc[v] = "none"
    BY <1>2 DEF Dropping
  <2>2. StartsOnly(p) /\ \E v \in Workers : pc'[v] # "none"
    BY <1>2, <2>1, Starts, StartsOne
  <2>3. \A v \in Workers : pc'[v] \notin Scanning
    BY <1>2, <2>2 DEF StartsOnly, MutexFree, Locked, Dropping, Scanning
  <2>4. QED BY <1>2, <2>2, <2>3, LooksStep DEF Looks
<1>3. ASSUME UNCHANGED <<waiting, ready, running, todo, Priority, prio, quit, valid>>,
             \A v \in Workers : \/ pc'[v] = pc[v]
                                \/ pc[v] # "none" /\ pc'[v] \notin {"scan", "refused", "none"}
      PROVE  Looks'
  BY <1>3, LooksStep DEF Looks, Scanning
<1>4. ASSUME NEW j \in Jobs, jobq_add(j) PROVE Looks'
  <2>1. \A v \in Workers : Returned(j)[v] = pc[v] \/ (pc[v] # "none" /\ Returned(j)[v] \in Dropping)
    BY Returns DEF Dropping
  <2>2. QED BY <1>2, <1>4, <2>1, Returns DEF jobq_add, Enqueue
<1>5. ASSUME NEW j \in Jobs, jobq_remove(j) PROVE Looks'
  <2>1. CASE UNCHANGED <<waiting, ready, pc>>
    BY <1>3, <1>5, <2>1 DEF jobq_remove
  <2>2. CASE MutexFree /\ start_server(pc)
    BY <1>1, <1>2, <1>5, <2>2 DEF jobq_remove
  <2>3. QED BY <1>5, <2>1, <2>2 DEF jobq_remove
<1>6. ASSUME NEW j \in Jobs, \/ run_job(j) \/ sched_wait(j) \/ job_monitor_watchdog(j) \/ cancel_job(j)
                             \/ cancel_job_mark(j) \/ CancelDaemons(j)
      PROVE  Looks'
  BY <1>3, <1>6 DEF run_job, sched_wait, job_monitor_watchdog, cancel_job, cancel_job_mark, CancelDaemons
<1>7. \A j \in Jobs : ~update_priority(j)
  BY DEF update_priority, NothingElseWaits
<1>8. ASSUME NEW w \in Workers, jobq_server(w) PROVE Looks'
  <2>1. CASE ServerStart(w) \/ TimedWait(w) \/ Pause(w)
    <3>1. /\ UNCHANGED <<waiting, ready, running, todo, Priority, prio, quit, valid>>
          /\ pc[w] # "none" /\ \E p \in {"ready", "wait"} : pc' = [pc EXCEPT ![w] = p]
      BY <2>1 DEF ServerStart, TimedWait, Pause, Enter
    <3>2. QED BY <1>1, <1>3, <3>1
  <2>2. CASE TakeReady(w)
    <3>1. PICK p \in [Workers -> WorkerSteps] : p = [pc EXCEPT ![w] = "engine"]
      BY <1>1 DEF WorkerSteps
    <3>2. pc[w] = "ready" /\ (start_server(p) \/ pc' = p)
      BY <2>2, <3>1 DEF TakeReady
    <3>3. pc'[w] = "engine" /\ \A v \in Workers : v # w => pc'[v] \in {pc[v], "start"}
      <4>1. CASE pc' = p
        BY <1>1, <3>1, <4>1
      <4>2. CASE start_server(p)
        <5>1. \A v \in Workers : p[v] = "none" <=> pc[v] = "none"
          BY <1>1, <3>1, <3>2
        <5>2. StartsOnly(p)
          BY <4>2, <5>1, Starts
        <5>3. QED BY <1>1, <3>1, <5>2 DEF StartsOnly
      <4>3. QED BY <3>2, <4>1, <4>2
    <3>4. \A v \in Workers : pc'[v] \notin Scanning
      BY <3>2, <3>3 DEF IInv, OneHolder, Locked, Scanning
    <3>5. UNCHANGED <<quit, valid>>
      BY <2>2 DEF TakeReady
    <3>6. QED BY <3>3, <3>4, <3>5, LooksStep DEF Looks
  <2>3. CASE \/ MarkRunning(w) \/ job_thread(w) \/ job_thread_end(w) \/ reschedule_job(w)
             \/ Requeue(w) \/ Respawn(w) \/ FreeJcr(w)
    <3>1. /\ UNCHANGED <<waiting, ready, running, todo, Priority, prio, quit, valid>>
          /\ pc[w] # "none"
          /\ \/ pc' = pc
             \/ \E p \in {"run", "done", "requeue", "requeuing", "requeued", "respawn", "respawning",
                         "free", "ready"} : pc' = [pc EXCEPT ![w] = p]
      BY <2>3 DEF MarkRunning, job_thread, job_thread_end, reschedule_job, Requeue, Respawn,
                  JobqAddAgain, FreeJcr
    <3>2. QED BY <1>1, <1>3, <3>1
  <2>4. CASE JobDone(w)
    <3>1. /\ UNCHANGED <<waiting, ready, quit, valid>> /\ MutexFree
          /\ \E p \in {"resched", "free"} : pc' = [pc EXCEPT ![w] = p]
      BY <2>4 DEF JobDone, Enter
    <3>2. \A v \in Workers : pc'[v] \notin Scanning
      BY <1>1, <3>1 DEF MutexFree, Locked, Scanning
    <3>3. pc'[w] # "none"
      BY <1>1, <3>1
    <3>4. QED BY <3>1, <3>2, <3>3, LooksStep DEF Looks
  <2>5. CASE StartScan(w)
    <3>1. /\ UNCHANGED <<waiting, ready, running, prio, quit, valid>> /\ pc' = [pc EXCEPT ![w] = "scan"]
          /\ waiting # <<>> /\ todo' = waiting /\ pc[w] = "ready"
          /\ Priority' = prio[Head(IF running # <<>> THEN running ELSE waiting)]
      BY <2>5 DEF StartScan
    <3>2. pc'[w] # "none"
      BY <1>1, <3>1
    <3>3. running = <<>> => Priority' = prio[Head(waiting)]
      BY <3>1
    <3>4. \A v \in Workers : pc'[v] \in Scanning => pc'[v] = "scan"
      BY <1>1, <3>1 DEF IInv, OneHolder, Locked, Scanning
    <3>5. QED BY <3>1, <3>2, <3>3, <3>4 DEF Looks
  <2>6. CASE LoopEnd(w)
    <3>1. /\ UNCHANGED <<waiting, ready, running, quit, valid>>
          /\ \/ pc[w] = "scan" /\ todo = <<>>
             \/ pc[w] = "ready" /\ (quit \/ (ready = <<>> /\ waiting = <<>>))
      BY <2>6 DEF LoopEnd
    <3>0. /\ pc'[w] \in {"none", "sleep", "wait"} /\ (pc'[w] = "none" => ready = <<>>)
          /\ \A v \in Workers : v # w => pc'[v] = pc[v]
      <4>1. PICK p \in {"none", "sleep", "wait"} :
               pc' = [pc EXCEPT ![w] = p] /\ (p = "none" => ready = <<>>)
        BY <2>6 DEF LoopEnd, Exits
      <4>2. QED BY <1>1, <4>1
    <3>2. \A v \in Workers : pc'[v] \notin Scanning
      <4>1. pc[w] \in Locked
        BY <3>1 DEF Locked
      <4>2. QED BY <3>0, <4>1 DEF IInv, OneHolder, Locked, Scanning
    <3>3. ASSUME valid, waiting # <<>> \/ ready # <<>> PROVE \E v \in Workers : pc'[v] # "none"
      <4>1. CASE pc'[w] # "none"
        BY <4>1
      <4>2. CASE pc'[w] = "none"
        <5>1. ready = <<>> /\ ~quit
          BY <1>1, <3>0, <3>3, <4>2 DEF Looks
        <5>2. pc[w] = "scan" /\ todo = <<>>
          BY <3>1, <3>3, <5>1
        <5>3. running # <<>>
          BY <5>1, <5>2 DEF Looks, Scanning
        <5>4. Range(running) # {}
          BY <5>3, RangeElements DEF IInv, Types
        <5>5. PICK v \in Workers : pc[v] \in Engine
          BY <5>4 DEF IInv, WorkersKept
        <5>6. pc'[v] # "none"
          BY <3>0, <5>2, <5>5 DEF Engine
        <5>7. QED BY <5>6
      <4>3. QED BY <4>1, <4>2
    <3>4. QED BY <3>1, <3>2, <3>3 DEF Looks
  <2>7. CASE Examine(w)
    <3>1. UNCHANGED <<running, quit, valid>> /\ pc[w] = "scan"
      BY <2>7 DEF Examine
    <3>2. pc'[w] # "none"
      <4>1. pc' = pc \/ pc' = [pc EXCEPT ![w] = "refused"]
        BY <2>7 DEF Examine
      <4>2. QED BY <1>1, <3>1, <4>1
    <3>3. PICK j \in Range(waiting) :
             /\ j \in Jobs /\ j = Head(todo)
             /\ Stays(w, j) \/ GoesCanceled(w, j) \/ GoesWithResources(w, j)
      BY <2>7, ExamineDoes
    <3>4. ready # <<>> => ready' # <<>>
      <4>1. CASE ready' = ready
        BY <4>1
      <4>2. CASE MovesUp(j)
        BY <4>2, EmptyList DEF MovesUp
      <4>3. QED BY <3>3, <4>1, <4>2 DEF Stays, Goes, GoesCanceled, GoesWithResources
    <3>5. ASSUME running = <<>>, ready = <<>> PROVE ready' # <<>>
      <4>1. j = Head(waiting) /\ Priority = prio[j]
        BY <3>1, <3>3, <3>5 DEF Looks, Scanning
      <4>2. Holders = {}
        BY <3>5, EmptyList DEF IInv, JobsKept, Holders
      <4>3. \A r \in Resources : num[r] = 0
        <5>1. \A r \in Resources : Uses(Holders, r) = {}
          BY <4>2 DEF Uses
        <5>2. \A r \in Resources : Cardinality(Uses(Holders, r)) = 0
          BY <5>1, FS_EmptySet, Zenon
        <5>3. QED BY <5>2 DEF IInv, Counters
      <4> DEFINE g == acquire_resources(j)
      <4>4. g.wait = "none"
        BY <3>3, <4>3, RoomAlone DEF IInv, Types
      <4> HIDE DEF g
      <4>5. PICK s \in QueuedScript(j) :
               \/ ~s.go
               \/ ~RightPriority(j, s.prio)
               \/ MoveToReady(j, Append(ready, j))
               \/ g.wait # "none"
        BY <2>7, <3>3 DEF Examine, g
      <4>6. s.go = TRUE /\ s.prio = prio[j]
        BY DEF QueuedScript, NothingElseWaits
      <4>7. RightPriority(j, s.prio)
        BY <4>1, <4>6 DEF RightPriority
      <4>8. ready' = Append(ready, j)
        BY <4>4, <4>5, <4>6, <4>7 DEF MoveToReady
      <4>9. QED BY <3>3, <4>8, AppendList, SMTT(30) DEF IInv, Types
    <3>6. QED BY <3>1, <3>2, <3>4, <3>5 DEF Looks
  <2>8. CASE Refused(w)
    <3>1. UNCHANGED <<running, quit, valid>> /\ pc[w] = "refused" /\ pc' = [pc EXCEPT ![w] = "scan"]
      BY <2>8 DEF Refused
    <3>2. running # <<>> \/ ready # <<>>
      BY <3>1 DEF Looks, Scanning
    <3>3. PICK j \in Jobs : Stays(w, j) \/ GoesCanceled(w, j)
      BY <2>8, RefusedDoes
    <3>4. ready # <<>> => ready' # <<>>
      BY <3>3, EmptyList DEF Stays, Goes, GoesCanceled, MovesUp
    <3>5. pc'[w] # "none"
      BY <1>1, <3>1
    <3>6. QED BY <3>1, <3>2, <3>4, <3>5 DEF Looks
  <2>9. QED BY <1>8, <2>1, <2>2, <2>3, <2>4, <2>8, <2>5, <2>6, <2>7 DEF jobq_server
<1>9. CASE jobq_destroy
  <2>1. valid' = FALSE /\ MutexFree /\ UNCHANGED <<waiting, ready, pc>>
    BY <1>9 DEF jobq_destroy
  <2>2. \A v \in Workers : pc'[v] \notin Scanning
    BY <2>1 DEF MutexFree, Locked, Scanning
  <2>3. QED BY <2>1, <2>2, LooksStep
<1>10. CASE DestroyReturns \/ UNCHANGED vars
  BY <1>3, <1>10 DEF DestroyReturns, vars
<1>11. QED BY <1>4, <1>5, <1>6, <1>7, <1>8, <1>9, <1>10 DEF Next, Cancels

(* While the queue is open no job is left in it with no worker to find it  *)
(* (start_server, the end of jobq_server's loop), in the cases of          *)
(* NothingElseWaits: otherwise a worker that once timed out may leave jobs *)
(* behind (jobq.c:648).                                                    *)
THEOREM JobQSomeServerLooks == ASSUME NothingElseWaits PROVE Spec => []SomeServerLooks
<1>1. Init => Looks
  BY DEF Init, Looks, Scanning
<1>2. IInv /\ Looks /\ [Next]_vars => Looks'
  BY LooksKept
<1>3. IInv /\ Looks => SomeServerLooks
  <2> SUFFICES ASSUME IInv, Looks, valid, waiting # <<>> \/ ready # <<>>
               PROVE  num_workers > 0 /\ num_workers = Cardinality({w \in Workers : pc[w] # "none"})
    BY DEF SomeServerLooks
  <2>1. num_workers = Cardinality(Threads)
    BY DEF IInv, Shutdown
  <2>2. PICK w \in Workers : w \in Threads
    BY DEF Looks, Threads
  <2>3. IsFiniteSet(Threads)
    BY JobsAssumption, FS_Subset DEF Threads
  <2>4. Cardinality(Threads) > 0
    BY <2>2, <2>3, CountStep
  <2>5. QED BY <2>1, <2>4 DEF Threads
<1>4. QED BY <1>1, <1>2, <1>3, JobQInvariant, PTL DEF Spec

-----------------------------------------------------------------------------
(* The order in which waiting jobs start.  A better job that is passed     *)
(* over in a scan lacks a resource; the jobs after it in the same scan may *)
(* start only if theirs is the same priority.  That takes that no script   *)
(* puts a job off, that no priority changes, and that a job which joins a  *)
(* running mix because it is better leaves no job in between.              *)
NoneInBetween ==
    /\ Scripted = {} /\ NewPriorities = {}
    /\ \A k, r \in Jobs \intersect AllowMixed : \A j \in Jobs \ {r} :
          ~(JobPriority[k] < JobPriority[j] /\ JobPriority[j] <= JobPriority[r])

Sorted(q) == \A a, b \in DOMAIN q : a < b => prio[q[a]] <= prio[q[b]]

(* The waiting list is sorted; during a scan the jobs passed over had the  *)
(* right priority, which is that of a running job if priorities mix.       *)
Scanned ==
    /\ Sorted(todo) /\ Priority \in Nat
    /\ todo # <<>> => \A k \in Range(waiting) \ Range(todo) : RightPriority(k, prio[k])
    /\ mix => \E r \in Range(running) \intersect AllowMixed : prio[r] = Priority

Ordered ==
    /\ prio = JobPriority
    /\ Sorted(waiting)
    /\ (\E w \in Workers : pc[w] \in Scanning) => Scanned
    /\ \A w \in Workers : pc[w] = "refused" => RightPriority(Head(todo), prio[Head(todo)])

(* jobq_add puts a job behind the last one that is not worse.              *)
LEMMA SortedInsert ==
    ASSUME IInv, prio \in [Jobs -> Nat], NEW j \in Jobs, Sorted(waiting)
    PROVE  Sorted(InsertByPriority(waiting, j))
<1> DEFINE behind == {i \in DOMAIN waiting : prio[waiting[i]] > prio[j]}
           n == Len(waiting)
           q == InsertByPriority(waiting, j)
<1>1. waiting \in Seq(Jobs) /\ n \in Nat /\ DOMAIN waiting = 1..n
  BY LenProperties DEF IInv, Types
<1>2. prio[j] \in Nat /\ \A i \in 1..n : prio[waiting[i]] \in Nat
  BY <1>1, ElementOfSeq
<1>3. CASE behind = {}
  <2>1. q = Append(waiting, j)
    BY <1>3 DEF InsertByPriority
  <2>2. DOMAIN q = 1..(n + 1) /\ \A i \in 1..(n + 1) : q[i] = IF i <= n THEN waiting[i] ELSE j
    BY <1>1, <2>1, AppendProperties
  <2>3. \A i \in 1..n : prio[waiting[i]] <= prio[j]
    BY <1>1, <1>2, <1>3
  <2> HIDE DEF behind, q, n
  <2>4. QED BY <1>1, <1>2, <2>2, <2>3 DEF Sorted, q
<1>4. CASE behind # {}
  <2> DEFINE k == Min(behind)
  <2>1. q = InsertAt(waiting, k, j)
    BY <1>4 DEF InsertByPriority
  <2>2. behind \subseteq Nat
    BY <1>1
  <2>3. k \in behind /\ \A i \in behind : k <= i
    <3> HIDE DEF behind
    <3>1. QED BY <1>4, <2>2, MinInSet
  <2> HIDE DEF k, q, n
  <2>4. k \in 1..n /\ prio[waiting[k]] > prio[j]
    BY <1>1, <2>3
  <2>10. ASSUME NEW i \in 1..n, i < k PROVE prio[waiting[i]] <= prio[j]
    <3>1. i \notin behind
      <4> HIDE DEF behind
      <4>1. QED BY <2>3, <2>4, <2>10
    <3>2. ~(prio[waiting[i]] > prio[j])
      BY <1>1, <3>1
    <3>3. QED BY <1>2, <3>2
  <2> HIDE DEF behind
  <2>5. ASSUME NEW i \in 1..n, k <= i PROVE prio[j] <= prio[waiting[i]]
    <3>1. prio[waiting[k]] <= prio[waiting[i]]
      <4>1. CASE i = k
        BY <1>2, <2>4, <4>1
      <4>2. CASE k < i
        BY <1>1, <2>4, <4>2 DEF Sorted
      <4>3. QED BY <2>4, <2>5, <4>1, <4>2
    <3>2. QED BY <1>2, <2>4, <3>1
  <2>6. /\ q \in Seq(Jobs) /\ Len(q) = n + 1
        /\ \A i \in 1..(n + 1) :
              q[i] = IF i < k THEN waiting[i] ELSE IF i = k THEN j ELSE waiting[i - 1]
    <3>1. k \in 1..Len(waiting)
      BY <2>4 DEF n
    <3>2. /\ InsertAt(waiting, k, j) \in Seq(Jobs)
          /\ Len(InsertAt(waiting, k, j)) = Len(waiting) + 1
          /\ \A i \in 1..(Len(waiting) + 1) : InsertAt(waiting, k, j)[i] =
                IF i < k THEN waiting[i] ELSE IF i = k THEN j ELSE waiting[i - 1]
      <4>1. waiting \in Seq(Jobs)
        BY <1>1
      <4>2. QED BY <3>1, <4>1, InsertAtList
    <3>3. QED BY <2>1, <3>2 DEF n
  <2>7. DOMAIN q = 1..(n + 1)
    BY <2>6, LenProperties
  <2>8. ASSUME NEW a \in 1..(n + 1), NEW b \in 1..(n + 1), a < b
        PROVE  prio[q[a]] <= prio[q[b]]
    <3>1. CASE b < k
      <4>1. q[a] = waiting[a] /\ q[b] = waiting[b] /\ a \in 1..n /\ b \in 1..n
        BY <1>1, <2>4, <2>6, <2>8, <3>1
      <4>2. QED BY <1>1, <2>8, <4>1 DEF Sorted
    <3>2. CASE b = k
      <4>1. q[a] = waiting[a] /\ q[b] = j /\ a \in 1..n /\ a < k
        BY <1>1, <2>4, <2>6, <2>8, <3>2
      <4>2. QED BY <2>10, <4>1
    <3>3. CASE b > k
      <4>1. q[b] = waiting[b - 1] /\ b - 1 \in 1..n /\ k <= b - 1
        BY <1>1, <2>4, <2>6, <3>3
      <4>2. CASE a < k
        <5>1. q[a] = waiting[a] /\ a \in 1..n /\ a < b - 1
          BY <1>1, <2>4, <2>6, <4>1, <4>2
        <5>2. QED BY <1>1, <4>1, <5>1 DEF Sorted
      <4>3. CASE a = k
        BY <2>5, <2>6, <4>1, <4>3
      <4>4. CASE a > k
        <5>1. q[a] = waiting[a - 1] /\ a - 1 \in 1..n /\ a - 1 < b - 1
          BY <1>1, <2>4, <2>6, <2>8, <4>4
        <5>2. QED BY <1>1, <4>1, <5>1 DEF Sorted
      <4>5. QED BY <2>4, <4>2, <4>3, <4>4
    <3>4. QED BY <2>4, <3>1, <3>2, <3>3
  <2>9. QED BY <2>7, <2>8 DEF Sorted, q
<1>5. QED BY <1>3, <1>4

(* The list stays sorted when a job leaves it.                             *)
LEMMA SortedRemove ==
    ASSUME NEW s \in Seq(Jobs), IsInjective(s), Sorted(s), NEW e
    PROVE  Sorted(RemoveFirst(s, e))
<1>1. CASE \E i \in 1..Len(s) : s[i] = e
  <2> DEFINE I == {i \in 1..Len(s) : s[i] = e}
  <2>1. PICK k \in 1..Len(s) : s[k] = e
    BY <1>1
  <2>2. I = {k}
    BY <2>1, LenProperties DEF IsInjective
  <2>3. Min(I) = k
    BY <2>2 DEF Min
  <2> DEFINE t == RemoveFirst(s, e)
             n == Len(s)
  <2>4. t = RemoveAt(s, k)
    BY <1>1, <2>2, <2>3 DEF RemoveFirst, SelectInSeq
  <2>5. n \in Nat /\ DOMAIN s = 1..n
    BY LenProperties
  <2>6. /\ t \in Seq(Jobs) /\ Len(t) = n - 1
        /\ \A i \in 1..(n - 1) : t[i] = IF i < k THEN s[i] ELSE s[i + 1]
    <3>1. k \in 1..Len(s)
      BY <2>1
    <3> HIDE DEF I
    <3>2. QED BY <2>4, <3>1, RemoveAtList
  <2>7. DOMAIN t = 1..(n - 1)
    BY <2>6, LenProperties
  <2> HIDE DEF t, n, I
  <2>8. ASSUME NEW a \in 1..(n - 1), NEW b \in 1..(n - 1), a < b
        PROVE  prio[t[a]] <= prio[t[b]]
    <3>1. PICK c, d \in 1..n : c < d /\ t[a] = s[c] /\ t[b] = s[d]
      <4>1. CASE b < k
        BY <2>5, <2>6, <2>8, <4>1
      <4>2. CASE a < k /\ k <= b
        BY <2>5, <2>6, <2>8, <4>2
      <4>3. CASE k <= a
        BY <2>5, <2>6, <2>8, <4>3
      <4>4. k \in Int
        BY <2>1
      <4>5. QED BY <2>8, <4>1, <4>2, <4>3, <4>4
    <3>2. QED BY <2>5, <3>1 DEF Sorted
  <2>9. QED BY <2>7, <2>8 DEF Sorted, t
<1>2. CASE ~(\E i \in 1..Len(s) : s[i] = e)
  BY <1>2 DEF RemoveFirst
<1>3. QED BY <1>1, <1>2

(* A sorted list begins with its best job.                                 *)
LEMMA SortedTail ==
    ASSUME NEW s \in Seq(Jobs), s # <<>>, Sorted(s), prio \in [Jobs -> Nat]
    PROVE  /\ Sorted(Tail(s))
           /\ \A k \in Range(s) : prio[Head(s)] <= prio[k]
<1> DEFINE t == Tail(s)
           n == Len(s)
<1>1. /\ t \in Seq(Jobs) /\ Len(t) = n - 1 /\ \A i \in 1..(n - 1) : t[i] = s[i + 1]
      /\ Head(s) = s[1] /\ s[1] \in Jobs
  BY HeadTailProperties
<1>2. n \in Nat \ {0} /\ DOMAIN s = 1..n /\ DOMAIN t = 1..(n - 1)
  BY <1>1, LenProperties, EmptySeq
<1> HIDE DEF t, n
<1>3. Sorted(t)
  <2> SUFFICES ASSUME NEW a \in 1..(n - 1), NEW b \in 1..(n - 1), a < b PROVE prio[t[a]] <= prio[t[b]]
    BY <1>2 DEF Sorted
  <2>1. /\ t[a] = s[a + 1] /\ t[b] = s[b + 1]
        /\ a + 1 \in DOMAIN s /\ b + 1 \in DOMAIN s /\ a + 1 < b + 1
    BY <1>1, <1>2
  <2>2. QED BY <2>1 DEF Sorted
<1>4. ASSUME NEW k \in Range(s) PROVE prio[Head(s)] <= prio[k]
  <2>1. PICK i \in DOMAIN s : k = s[i]
    BY DEF Range
  <2>2. CASE i = 1
    BY <1>1, <2>1, <2>2
  <2>3. CASE i > 1
    <3>1. 1 \in DOMAIN s /\ 1 < i
      BY <1>2, <2>1, <2>3
    <3>2. QED BY <1>1, <2>1, <3>1 DEF Sorted
  <2>4. QED BY <1>2, <2>1, <2>2, <2>3
<1>5. QED BY <1>3, <1>4 DEF t

(* What a step of the scan does: it ends, or the first job has the right   *)
(* priority and is passed over, leaves the waiting list or was refused.    *)
LEMMA TurnInOrder ==
    ASSUME IInv, NoneInBetween, Ordered, prio \in [Jobs -> Nat], NEW w \in Workers,
           Examine(w) \/ Refused(w)
    PROVE  LET j == Head(todo)
           IN  /\ todo # <<>> /\ j \in Jobs /\ j \in Range(waiting)
               /\ UNCHANGED <<prio, running, Priority, mix>> /\ pc[w] \in Scanning
               /\ \A i \in Jobs : i # j => acquired'[i] = acquired[i]
               /\ \/ /\ todo' = <<>> /\ pc' = [pc EXCEPT ![w] = "scan"]
                     /\ UNCHANGED <<waiting, acquired>>
                  \/ /\ RightPriority(j, prio[j])
                     /\ todo' = Tail(todo) /\ pc' = [pc EXCEPT ![w] = "scan"]
                     /\ waiting' \in {waiting, RemoveFirst(waiting, j)}
                  \/ /\ RightPriority(j, prio[j])
                     /\ todo' = todo /\ pc' = [pc EXCEPT ![w] = "refused"]
                     /\ UNCHANGED waiting
<1> USE DEF workers
<1>1. PICK j : j = Head(todo)
  OBVIOUS
<1>2. /\ todo # <<>> /\ pc[w] \in Scanning /\ UNCHANGED <<running, Priority, mix>>
      /\ pc \in [Workers -> WorkerSteps]
  BY DEF Examine, Refused, Scanning, IInv, Types, OneHolder
<1>3. j \in Jobs /\ j \in Range(waiting)
  BY <1>1, <1>2, TailList DEF IInv, Types, OneHolder
<1>4. CASE Examine(w)
  <2>1. PICK s \in QueuedScript(j) :
          /\ prio' = [prio EXCEPT ![j] = s.prio]
          /\ \/ ~s.go
             \/ todo' = <<>> /\ UNCHANGED <<waiting, acquired, pc>>
             \/ /\ RightPriority(j, s.prio) /\ todo' = Tail(todo) /\ pc' = pc
                /\ MoveToReady(j, Append(ready, j))
                /\ acquired' = acquired \/ \E b : acquired' = [acquired EXCEPT ![j] = b]
             \/ /\ RightPriority(j, s.prio) /\ todo' = todo /\ pc' = [pc EXCEPT ![w] = "refused"]
                /\ UNCHANGED waiting
                /\ acquired' = acquired \/ \E b : acquired' = [acquired EXCEPT ![j] = b]
    BY <1>1, <1>4 DEF Examine
  <2>2. s.go = TRUE /\ s.prio = prio[j]
    BY DEF QueuedScript, NoneInBetween
  <2>3. prio' = prio
    BY <1>3, <2>1, <2>2
  <2>4. pc = [pc EXCEPT ![w] = "scan"]
    BY <1>2, <1>4 DEF Examine
  <2>5. \A i \in Jobs : i # j => acquired'[i] = acquired[i]
    BY <2>1, <2>2 DEF IInv, Types
  <2>6. QED BY <1>1, <1>2, <1>3, <2>1, <2>2, <2>3, <2>4, <2>5 DEF MoveToReady
<1>5. CASE Refused(w)
  <2>1. /\ RightPriority(j, prio[j]) /\ UNCHANGED <<prio, acquired>>
        /\ todo' = Tail(todo) /\ pc' = [pc EXCEPT ![w] = "scan"]
        /\ waiting' \in {waiting, RemoveFirst(waiting, j)}
    BY <1>1, <1>5 DEF Refused, jcr, Ordered, MoveToReady
  <2>2. QED BY <1>1, <1>2, <1>3, <2>1
<1>6. QED BY <1>4, <1>5

(* Steps of no scan, or of none that changes what it relies on.            *)
LEMMA OrderStep ==
    ASSUME Ordered, prio' = prio, Sorted(waiting'),
           \/ \A v \in Workers : pc'[v] \notin Scanning
           \/ /\ \A v \in Workers : pc'[v] \in Scanning => pc'[v] = pc[v]
              /\ UNCHANGED <<waiting, running, todo, Priority, mix>>
    PROVE  Ordered'
<1>1. Sorted(waiting)'
  BY DEF Sorted
<1>2. ASSUME NEW w \in Workers, pc'[w] \in Scanning
      PROVE  Scanned' /\ (pc'[w] = "refused" => RightPriority(Head(todo), prio[Head(todo)])')
  <2>1. pc'[w] = pc[w] /\ UNCHANGED <<waiting, running, todo, Priority, mix>>
    BY <1>2
  <2>2. Scanned /\ (pc'[w] = "refused" => RightPriority(Head(todo), prio[Head(todo)]))
    BY <1>2, <2>1 DEF Ordered
  <2>3. QED BY <2>1, <2>2 DEF Scanned, Sorted, RightPriority
<1>3. \A w \in Workers : pc'[w] = "refused" => pc'[w] \in Scanning
  BY DEF Scanning
<1>4. QED BY <1>1, <1>2, <1>3 DEF Ordered

LEMMA EnqueueSorted ==
    ASSUME IInv, Ordered, prio \in [Jobs -> Nat], NEW j \in Jobs, Enqueue(j)
    PROVE  Sorted(waiting')
BY SortedInsert DEF Enqueue, Ordered

LEMMA OrderKept ==
    ASSUME IInv, Tested, NoneInBetween, Ordered, [Next]_vars
    PROVE  Ordered'
<1> USE DEF queues, adders, workers, scan, jcr, life
<1>0. /\ pc \in [Workers -> WorkerSteps] /\ prio \in [Jobs -> Nat]
      /\ Sorted(waiting)
  BY JobsAssumption DEF IInv, Types, Ordered
<1>1. ASSUME NEW p \in [Workers -> WorkerSteps], start_server(p), MutexFree,
             \A v \in Workers : p[v] = pc[v] \/ (pc[v] # "none" /\ p[v] \in Dropping),
             prio' = prio, Sorted(waiting')
      PROVE  Ordered'
  <2>1. \A v \in Workers : p[v] = "none" <=> pc[v] = "none"
    BY <1>1 DEF Dropping
  <2>2. StartsOnly(p)
    BY <1>1, <2>1, Starts
  <2>3. \A v \in Workers : pc'[v] \notin Scanning
    BY <1>1, <2>2 DEF StartsOnly, MutexFree, Locked, Dropping, Scanning
  <2>4. QED BY <1>1, <2>3, OrderStep
<1>2. ASSUME UNCHANGED <<waiting, running, todo, Priority, mix, prio>>,
             \A v \in Workers : pc'[v] = pc[v] \/ pc'[v] \notin Scanning
      PROVE  Ordered'
  BY <1>0, <1>2, OrderStep
<1>3. ASSUME NEW j \in Jobs, jobq_add(j) PROVE Ordered'
  <2>1. MutexFree /\ prio' = prio /\ Sorted(waiting')
    BY <1>0, <1>3, EnqueueSorted DEF jobq_add, Enqueue
  <2>2. \A v \in Workers : Returned(j)[v] = pc[v] \/ (pc[v] # "none" /\ Returned(j)[v] \in Dropping)
    BY Returns DEF Dropping
  <2>3. QED BY <1>1, <1>3, <2>1, <2>2, Returns DEF jobq_add
<1>4. ASSUME NEW j \in Jobs, jobq_remove(j) PROVE Ordered'
  <2>1. UNCHANGED <<running, todo, Priority, mix, prio>>
    BY <1>4 DEF jobq_remove
  <2>2. CASE UNCHANGED <<waiting, pc>>
    BY <1>2, <2>1, <2>2
  <2>3. CASE MutexFree /\ start_server(pc) /\ MoveToReady(j, <<j>> \o ready)
    <3>1. Sorted(waiting')
      BY <1>0, <2>3, SortedRemove DEF MoveToReady, IInv, Types, Lists
    <3>2. QED BY <1>0, <1>1, <2>1, <2>3, <3>1
  <2>4. QED BY <1>4, <2>2, <2>3 DEF jobq_remove
<1>5. ASSUME NEW j \in Jobs, \/ run_job(j) \/ sched_wait(j) \/ job_monitor_watchdog(j) \/ cancel_job(j)
                             \/ cancel_job_mark(j) \/ CancelDaemons(j)
      PROVE  Ordered'
  BY <1>2, <1>5 DEF run_job, sched_wait, job_monitor_watchdog, cancel_job, cancel_job_mark, CancelDaemons
<1>6. \A j \in Jobs : ~update_priority(j)
  BY DEF update_priority, NoneInBetween
<1>7. ASSUME NEW w \in Workers, jobq_server(w) PROVE Ordered'
  <2>1. CASE \/ ServerStart(w) \/ TimedWait(w) \/ Pause(w) \/ MarkRunning(w) \/ job_thread(w)
             \/ job_thread_end(w) \/ reschedule_job(w) \/ Requeue(w) \/ Respawn(w) \/ FreeJcr(w)
    <3>1. /\ UNCHANGED <<waiting, running, todo, Priority, mix, prio>>
          /\ \/ pc' = pc
             \/ \E p \in WorkerSteps \ Scanning : pc' = [pc EXCEPT ![w] = p]
      BY <2>1 DEF ServerStart, TimedWait, Pause, MarkRunning, job_thread, job_thread_end, reschedule_job,
                  Requeue, Respawn, JobqAddAgain, FreeJcr, WorkerSteps, Locked, Scanning
    <3>2. QED BY <1>0, <1>2, <3>1
  <2>2. CASE TakeReady(w) \/ JobDone(w)
    <3>1. UNCHANGED <<waiting, prio>>
      BY <2>2 DEF TakeReady, JobDone
    <3>2. \A v \in Workers : pc[v] \in Scanning => v = w
      BY <2>2 DEF TakeReady, JobDone, Enter, MutexFree, IInv, OneHolder, Locked, Scanning
    <3>3. PICK p \in [Workers -> WorkerSteps] :
             /\ \E t \in WorkerSteps \ {"scan", "refused", "none"} : p = [pc EXCEPT ![w] = t]
             /\ start_server(p) \/ pc' = p
      <4>1. {"engine", "resched", "free"} \subseteq WorkerSteps \ {"scan", "refused", "none"}
        BY DEF WorkerSteps, Locked
      <4>2. \E t \in {"engine", "resched", "free"} :
               start_server([pc EXCEPT ![w] = t]) \/ pc' = [pc EXCEPT ![w] = t]
        BY <2>2 DEF TakeReady, JobDone
      <4>3. QED BY <1>0, <4>1, <4>2
    <3>4. pc[w] # "none"
      BY <2>2 DEF TakeReady, JobDone, Enter
    <3>5. \A v \in Workers : pc'[v] \notin Scanning
      <4>1. \A v \in Workers : p[v] \notin Scanning /\ (p[v] = "none" <=> pc[v] = "none")
        BY <1>0, <3>2, <3>3, <3>4 DEF Scanning
      <4>2. CASE pc' = p
        BY <4>1, <4>2
      <4>3. CASE start_server(p)
        BY <4>1, <4>3, Starts DEF StartsOnly, Scanning
      <4>4. QED BY <3>3, <4>2, <4>3
    <3>6. QED BY <1>0, <3>1, <3>5, OrderStep
  <2>3. CASE StartScan(w)
    <3>1. /\ UNCHANGED <<waiting, running, prio>> /\ waiting # <<>> /\ todo' = waiting
          /\ Priority' = prio[Head(IF running # <<>> THEN running ELSE waiting)]
          /\ mix' = (running # <<>> /\ ToSet(running) \subseteq AllowMixed)
      BY <2>3 DEF StartScan
    <3>2. /\ Head(waiting) \in Jobs
          /\ running # <<>> => Head(running) \in Jobs /\ Head(running) \in Range(running)
      BY <3>1, TailList DEF IInv, Types
    <3>3. Priority' \in Nat
      BY <1>0, <3>1, <3>2
    <3>4. mix' => Head(running) \in Range(running) \intersect AllowMixed /\ prio[Head(running)] = Priority'
      BY <3>1, <3>2, SeqSet
    <3>5. Sorted(todo)' /\ Sorted(waiting)'
      BY <1>0, <3>1 DEF Sorted
    <3>6. Scanned'
      BY <3>1, <3>3, <3>4, <3>5 DEF Scanned
    <3>7. \A v \in Workers : pc'[v] # "refused"
      BY <1>0, <2>3 DEF StartScan, IInv, OneHolder, Locked
    <3>8. QED BY <1>0, <3>1, <3>5, <3>6, <3>7 DEF Ordered
  <2>4. CASE LoopEnd(w)
    <3>1. /\ UNCHANGED <<waiting, prio>> /\ pc[w] \in {"scan", "ready"}
          /\ \E t \in {"none", "sleep", "wait"} : pc' = [pc EXCEPT ![w] = t]
      BY <2>4 DEF LoopEnd
    <3>2. \A v \in Workers : pc'[v] \notin Scanning
      BY <1>0, <3>1 DEF IInv, OneHolder, Locked, Scanning
    <3>3. QED BY <1>0, <3>1, <3>2, OrderStep
  <2>5. CASE Examine(w) \/ Refused(w)
    <3>1. PICK j \in Jobs :
             /\ todo # <<>> /\ j = Head(todo) /\ j \in Range(waiting)
             /\ UNCHANGED <<prio, running, Priority, mix>> /\ pc[w] \in Scanning
             /\ \/ todo' = <<>> /\ pc' = [pc EXCEPT ![w] = "scan"] /\ UNCHANGED waiting
                \/ /\ RightPriority(j, prio[j])
                   /\ todo' = Tail(todo) /\ pc' = [pc EXCEPT ![w] = "scan"]
                   /\ waiting' \in {waiting, RemoveFirst(waiting, j)}
                \/ /\ RightPriority(j, prio[j])
                   /\ todo' = todo /\ pc' = [pc EXCEPT ![w] = "refused"]
                   /\ UNCHANGED waiting
      BY <1>0, <2>5, TurnInOrder
    <3>2. /\ Scanned /\ IInv /\ todo \in Seq(Jobs) /\ waiting \in Seq(Jobs) /\ IsInjective(waiting)
          /\ IsInjective(todo)
      BY <3>1 DEF Ordered, IInv, Types, Lists, OneHolder
    <3>3. Sorted(waiting') /\ Range(waiting') \subseteq Range(waiting)
      BY <1>0, <3>1, <3>2, SortedRemove, RemoveFirstList
    <3>4. /\ Sorted(Tail(todo)) /\ Range(Tail(todo)) = Range(todo) \ {j}
      BY <1>0, <3>1, <3>2, SortedTail, TailList DEF Scanned
    <3>5. Sorted(todo')
      <4>1. Sorted(<<>>)
        BY EmptySeq DEF Sorted
      <4>2. Sorted(todo)
        BY <3>2 DEF Scanned
      <4>3. QED BY <3>1, <3>4, <4>1, <4>2
    <3>6. ASSUME todo' # <<>>, NEW k \in Range(waiting') \ Range(todo')
          PROVE  RightPriority(k, prio[k])
      <4>1. CASE k = j
        BY <3>1, <3>6, <4>1
      <4>2. CASE k # j
        BY <3>1, <3>2, <3>3, <3>4, <3>6, <4>2 DEF Scanned
      <4>3. QED BY <4>1, <4>2
    <3>7. Sorted(todo)' /\ Sorted(waiting)'
      BY <3>1, <3>3, <3>5 DEF Sorted
    <3>8. \A k \in Range(waiting') \ Range(todo') : RightPriority(k, prio[k])' = RightPriority(k, prio[k])
      BY <3>1 DEF RightPriority
    <3>9. Scanned'
      BY <3>1, <3>2, <3>6, <3>7, <3>8 DEF Scanned
    <3>10. ASSUME NEW v \in Workers, pc'[v] = "refused" PROVE RightPriority(Head(todo), prio[Head(todo)])'
      <4>1. v = w
        BY <1>0, <3>1, <3>10 DEF IInv, OneHolder, Locked, Scanning
      <4>2. todo' = todo /\ RightPriority(j, prio[j])
        BY <1>0, <3>1, <3>10, <4>1
      <4>3. QED BY <3>1, <4>2 DEF RightPriority
    <3>11. QED BY <3>1, <3>7, <3>9, <3>10 DEF Ordered
  <2>6. QED BY <1>7, <2>1, <2>2, <2>3, <2>3, <2>4, <2>5 DEF jobq_server
<1>8. CASE jobq_destroy \/ DestroyReturns \/ UNCHANGED vars
  BY <1>2, <1>8 DEF jobq_destroy, DestroyReturns, vars
<1>9. QED BY <1>3, <1>4, <1>5, <1>6, <1>7, <1>8 DEF Next, Cancels

(* Only the scan gives a job its resources.                                *)
LEMMA AcquiredInScan ==
    ASSUME IInv, Next, NEW j \in Jobs, acquired'[j], ~acquired[j]
    PROVE  \E w \in Workers : Examine(w)
<1> USE DEF queues, adders, workers, scan, jcr, life
<1>1. ASSUME UNCHANGED acquired \/ \E w : ClearLocks(cur[w]) PROVE FALSE
  BY <1>1 DEF ClearLocks, IInv, Types
<1>2. ASSUME NEW i \in Jobs, \/ run_job(i) \/ sched_wait(i) \/ jobq_add(i) \/ job_monitor_watchdog(i)
                             \/ Cancels(i) \/ update_priority(i)
      PROVE  FALSE
  BY <1>1, <1>2 DEF run_job, sched_wait, jobq_add, job_monitor_watchdog, Cancels, cancel_job,
       cancel_job_mark, jobq_remove, CancelDaemons, update_priority
<1>3. ASSUME NEW w \in Workers, jobq_server(w), ~Examine(w) PROVE FALSE
  BY <1>1, <1>3 DEF jobq_server, ServerStart, TimedWait, TakeReady, MarkRunning, job_thread, job_thread_end,
       JobDone, reschedule_job, Requeue, Respawn, JobqAddAgain, FreeJcr, StartScan, Refused, LoopEnd, Pause
<1>4. ~jobq_destroy /\ ~DestroyReturns
  BY <1>1 DEF jobq_destroy, DestroyReturns
<1>5. QED BY <1>2, <1>3, <1>4 DEF Next

(* A waiting job does not start while one of a better priority waits, in   *)
(* the cases of NoneInBetween: jobq_add keeps the list sorted (jobq.c:280) *)
(* and the scan stops at the first job of another priority (jobq.c:600).   *)
THEOREM JobQHigherPriorityFirst == ASSUME NoneInBetween PROVE Spec => HigherPriorityFirst
<1>1. Init => Ordered
  <2> SUFFICES ASSUME Init PROVE Ordered
    OBVIOUS
  <2>1. waiting = <<>> /\ prio = JobPriority /\ \A w \in Workers : pc[w] = "none"
    BY DEF Init
  <2>2. QED BY <2>1, EmptySeq DEF Ordered, Sorted, Scanning
<1>2. IInv /\ Tested /\ Ordered /\ [Next]_vars => Ordered'
  BY OrderKept
<1>3. IInv /\ Ordered /\ [Next]_vars =>
        [\A j \in Jobs : (acquired'[j] /\ ~acquired[j]) =>
            \A k \in ToSet(waiting) : prio[k] >= prio[j]]_vars
  <2> SUFFICES ASSUME IInv, Ordered, Next, NEW j \in Jobs, acquired'[j], ~acquired[j],
                      NEW k \in Range(waiting)
               PROVE  prio[k] >= prio[j]
    BY SeqSet
  <2>1. PICK w \in Workers : Examine(w)
    BY AcquiredInScan
  <2>2. /\ prio = JobPriority /\ prio \in [Jobs -> Nat] /\ waiting \in Seq(Jobs) /\ running \in Seq(Jobs)
        /\ todo \in Seq(Jobs)
    BY JobsAssumption DEF Ordered, IInv, Types
  <2>3. /\ todo # <<>> /\ pc[w] \in Scanning /\ Head(todo) \in Range(waiting)
        /\ j = Head(todo) /\ RightPriority(j, prio[j])
    BY <2>1, <2>2, TurnInOrder
  <2>4. Scanned
    BY <2>3 DEF Ordered
  <2>5. k \in Jobs /\ prio[k] \in Nat /\ prio[j] \in Nat
    BY <2>2, RangeElements
  <2>6. CASE k \in Range(todo)
    BY <2>2, <2>3, <2>4, <2>5, <2>6, SortedTail DEF Scanned
  <2>7. CASE k \notin Range(todo)
    <3>1. RightPriority(k, prio[k])
      BY <2>3, <2>4, <2>7 DEF Scanned
    <3>2. CASE prio[k] = Priority
      BY <2>3, <2>4, <2>5, <3>2 DEF RightPriority, Scanned
    <3>3. CASE prio[k] < Priority /\ k \in AllowMixed /\ mix
      <4>1. PICK r \in Range(running) \intersect AllowMixed : prio[r] = Priority
        BY <2>4, <3>3 DEF Scanned
      <4>2. r \in Jobs /\ j # r
        BY <2>2, <2>3, <4>1, RangeElements DEF IInv, Lists
      <4>3. prio[j] <= prio[r]
        BY <2>3, <2>4, <2>5, <4>1 DEF RightPriority, Scanned
      <4>4. ~(prio[k] < prio[j])
        BY <2>2, <2>5, <3>3, <4>1, <4>2, <4>3 DEF NoneInBetween
      <4>5. QED BY <2>5, <4>4
    <3>4. QED BY <3>1, <3>2, <3>3 DEF RightPriority
  <2>8. QED BY <2>6, <2>7
<1>4. QED BY <1>1, <1>2, <1>3, JobQInvariant, PTL DEF Spec, HigherPriorityFirst
=============================================================================
