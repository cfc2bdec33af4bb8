-------------------------------- MODULE JobQ --------------------------------
(***************************************************************************)
(* The Director's job queue: dird/jobq.c with the parts of dird/job.c that *)
(* feed it (run_job), run a job (job_thread), cancel one (cancel_job, the  *)
(* job monitor watchdog) and of ua_update.c that changes a priority.       *)
(*                                                                         *)
(* Worker threads hold jq->mutex exactly while their pc is in Locked; an   *)
(* action that takes and releases the mutex at once needs MutexFree.       *)
(* Threads that do not take it (cancel_job marking a job, job_thread, the  *)
(* watchdog, the console) interleave with the scan of the waiting list.    *)
(*                                                                         *)
(* Storage is one counter per storage here; StoreMngr has the details.     *)
(***************************************************************************)
EXTENDS JobStatus, FiniteSets, Sequences, SequencesExt, TLC

CONSTANTS
    Jobs,               \* the JCRs
    Workers,            \* max_workers threads
    Resources,          \* storages, clients and Job resources with a counter
    Limit,              \* MaxConcurrentJobs of each resource
    RStore, WStore,     \* read and write storage of a job, or NoRes
    Client, JobRes,     \* client and Job resource of a job, or NoRes
    JobPriority,        \* priority a job is created with
    AllowMixed,         \* jobs with AllowMixedPriority
    Uncounted,          \* jobs that skip the client counter (admin, copy, VirtualFull)
    Arrivals,           \* jobs started by the scheduler or the console
    Delays,             \* may a start time lie in the future?  subset of BOOLEAN
    Scripted,           \* jobs with a Queued RunScript
    ScriptCodes,        \* exit codes of that script
    Outcomes,           \* how a job that ran may end
    RescheduleTimes,    \* of each job (at least 1: a bound on re-runs)
    RescheduleOnError,  \* jobs with that directive
    Clone,              \* the JCR a job that wrote data is re-run under, or NoJob
    Commands,           \* console commands on a job: subset of {"cancel", "stop"}
    Stoppable,          \* backup jobs that are no VirtualFull (JCR::can_be_stopped)
    Watched,            \* jobs with a MaxWaitTime, MaxRunTime or MaxStartDelay
    NewPriorities,      \* priorities the console may give a job
    MayTerminate,       \* may the Director shut down?
    NoJob, NoRes

ASSUME JobsAssumption ==
    /\ IsFiniteSet(Jobs) /\ NoJob \notin Jobs
    /\ IsFiniteSet(Workers) /\ Workers # {}
    /\ NoRes \notin Resources
    /\ Limit \in [Resources -> Nat \ {0}]
    /\ \A f \in {RStore, WStore, Client, JobRes} : f \in [Jobs -> Resources \union {NoRes}]
    /\ JobPriority \in [Jobs -> Nat] /\ NewPriorities \subseteq Nat
    /\ Arrivals \subseteq Jobs
    /\ ScriptCodes \subseteq 0..3
    /\ Commands \subseteq {"cancel", "stop"}
    /\ Outcomes \subseteq {"Terminated", "ErrorTerminated", "Incomplete"}

(* The JCR for a re-run is a new one (new_jcr in reschedule_job).          *)
ASSUME CloneAssumption ==
    /\ Clone \in [Jobs -> (Jobs \ Arrivals) \union {NoJob}]
    /\ \A i, j \in Jobs : Clone[i] = Clone[j] => i = j \/ Clone[i] = NoJob

VARIABLES
    waiting, ready, running,    \* the three queues of jobq_t
    sched,                      \* jobs whose thread is in sched_wait or jobq_add
    tested,                     \* those of them that found jq->valid set
    pc, cur, timedout,          \* of each worker: where, its job, its timedout flag
    num_workers,
    todo, Priority, mix,        \* the scan of the mutex holder: rest of the
                                \* list, priority wanted, running_allow_mix
    status, prio,               \* JobStatus and JobPriority of each JCR
    acquired, num,              \* acquired_resource_locks; the NumConcurrentJobs
    qrun,                       \* next_qrunscript_execution: first, never, later
    use,                        \* references to the JCR held by this machinery
    count, restart,             \* reschedule_count, RescheduleIncompleteJobs
    cancel,                     \* progress of a cancel_job call on each job
    valid, quit, destroy        \* of jobq_t; progress of jobq_destroy

queues == <<waiting, ready, running>>
adders == <<sched, tested>>
workers == <<pc, cur, timedout, num_workers>>
scan == <<todo, Priority, mix>>
life == <<valid, quit, destroy>>
jcr == <<status, prio, acquired, num, qrun, use, count, restart>>
vars == <<queues, adders, workers, scan, jcr, cancel, life>>

Idle == [step |-> "none", cmd |-> "cancel", queued |-> FALSE]

Init ==
    /\ waiting = <<>> /\ ready = <<>> /\ running = <<>>
    /\ sched = {} /\ tested = {}
    /\ pc = [w \in Workers |-> "none"]
    /\ cur = [w \in Workers |-> NoJob]
    /\ timedout = [w \in Workers |-> FALSE]
    /\ num_workers = 0
    /\ todo = <<>> /\ Priority = 0 /\ mix = FALSE
    /\ status = [j \in Jobs |-> "none"]
    /\ prio = JobPriority
    /\ acquired = [j \in Jobs |-> FALSE]
    /\ num = [r \in Resources |-> 0]
    /\ qrun = [j \in Jobs |-> "first"]
    /\ use = [j \in Jobs |-> 0]
    /\ count = [j \in Jobs |-> 0]
    /\ restart = [j \in Jobs |-> TRUE]
    /\ cancel = [j \in Jobs |-> Idle]
    /\ valid = TRUE /\ quit = FALSE /\ destroy = "no"

Locked == {"ready", "scan", "refused", "resched"}

MutexFree == \A w \in Workers : pc[w] \notin Locked

Canceled(j) == job_canceled(status[j])

NewStatus(j, s) == compareJobStatus(status[j], s)

setJobStatus(j, s) == status' = [status EXCEPT ![j] = NewStatus(j, s)]

-----------------------------------------------------------------------------
(* Resource counters. *)

Inc(n, r) == IF r = NoRes THEN n ELSE [n EXCEPT ![r] = @ + 1]
Dec(n, r) == IF r = NoRes THEN n ELSE [n EXCEPT ![r] = @ - 1]

HasRoom_offByOne(n, r) == r = NoRes \/ n[r] <= Limit[r]
HasRoom(n, r) == r = NoRes \/ n[r] < Limit[r]

(* update_client_numconcurrentjobs: some jobs never touch the counter.     *)
ClientCounter(j) == IF j \in Uncounted THEN NoRes ELSE Client[j]

acquire_resources_noBackout(j) ==
    LET n1 == Inc(num, RStore[j])
        n2 == Inc(n1, WStore[j])
        n3 == Inc(n2, ClientCounter(j))
    IN  IF ~HasRoom(num, RStore[j]) THEN [wait |-> "WaitStoreRes", num |-> num]
        ELSE IF ~HasRoom(n1, WStore[j]) THEN [wait |-> "WaitStoreRes", num |-> n1]
        ELSE IF ~HasRoom(n2, Client[j]) THEN [wait |-> "WaitClientRes", num |-> n2]
        ELSE IF ~HasRoom(n3, JobRes[j]) THEN [wait |-> "WaitJobRes", num |-> n3]
        ELSE [wait |-> "none", num |-> Inc(n3, JobRes[j])]

(* Counters are taken in this order and backed out when a later one is     *)
(* full; wait is the status a failure leaves, "none" on success.           *)
acquire_resources(j) ==
    LET n1 == Inc(num, RStore[j])
        n2 == Inc(n1, WStore[j])
        n3 == Inc(n2, ClientCounter(j))
        freed(n) == Dec(Dec(n, WStore[j]), RStore[j])
    IN  IF ~HasRoom(num, RStore[j])
        THEN [wait |-> "WaitStoreRes", num |-> num]
        ELSE IF ~HasRoom(n1, WStore[j])
        THEN [wait |-> "WaitStoreRes", num |-> Dec(n1, RStore[j])]
        ELSE IF ~HasRoom(n2, Client[j])
        THEN [wait |-> "WaitClientRes", num |-> freed(n2)]
        ELSE IF ~HasRoom(n3, JobRes[j])
        THEN [wait |-> "WaitJobRes", num |-> Dec(freed(n3), ClientCounter(j))]
        ELSE [wait |-> "none", num |-> Inc(n3, JobRes[j])]

(* What is left when the engine returns: a job that was canceled before it *)
(* got its resources has none to give back.                                *)
Released(j) ==
    IF acquired[j]
    THEN Dec(Dec(Dec(Dec(num, RStore[j]), WStore[j]), ClientCounter(j)), JobRes[j])
    ELSE num

-----------------------------------------------------------------------------
(* Queue insertion and worker creation, under jq->mutex. *)

InsertByPriority_append(q, j) == Append(q, j)
InsertByPriority(q, j) ==
    LET behind == {i \in DOMAIN q : prio[q[i]] > prio[j]}
    IN  IF behind = {} THEN Append(q, j) ELSE InsertAt(q, Min(behind), j)

(* A job leaves the waiting list for one end of the ready list.            *)
MoveToReady_notRemoved(j, newReady) == UNCHANGED waiting /\ ready' = newReady
MoveToReady(j, newReady) == waiting' = RemoveFirst(waiting, j) /\ ready' = newReady

(* jobq_add marks the JCR in use.                                          *)
AddReference_forgotten(j) == UNCHANGED use
AddReference(j) == use' = [use EXCEPT ![j] = @ + 1]

(* start_server.  idle_workers is never incremented, so a waiting worker   *)
(* is never signalled: a thread is created, or nothing happens.            *)
CanStart == num_workers < Cardinality(Workers)

start_server(p) ==
    IF CanStart
    THEN \E w \in {v \in Workers : pc[v] = "none"} :
            /\ pc' = [p EXCEPT ![w] = "start"]
            /\ timedout' = [timedout EXCEPT ![w] = FALSE]
            /\ num_workers' = num_workers + 1
    ELSE pc' = p /\ UNCHANGED <<timedout, num_workers>>

(* The job enters a queue: the middle of jobq_add.                         *)
Enqueue(j) ==
    /\ MutexFree
    /\ IF Canceled(j)
       THEN ready' = <<j>> \o ready /\ UNCHANGED waiting
       ELSE waiting' = InsertByPriority(waiting, j) /\ UNCHANGED ready
    /\ UNCHANGED running

-----------------------------------------------------------------------------
(* Jobs arrive.  jobq_add tests jq->valid without the mutex and takes a    *)
(* reference; only later does it lock the queue and insert the job.        *)

PassTest(j) == sched' = sched \union {j} /\ tested' = tested \union {j}

(* run_job for a new JCR: setup_job, then jobq_add as far as the mutex, or *)
(* as far as the sched_wait thread it starts for a later start time.       *)
run_job(j) ==
    /\ j \in Arrivals /\ status[j] = "none"
    /\ \/ /\ ~valid
          /\ status' = [status EXCEPT ![j] = "FatalError"]
          /\ UNCHANGED <<adders, use>>
       \/ /\ valid /\ TRUE \in Delays
          /\ status' = [status EXCEPT ![j] = "WaitStartTime"]
          /\ sched' = sched \union {j}
          /\ AddReference(j)
          /\ UNCHANGED tested
       \/ /\ valid /\ FALSE \in Delays
          /\ status' = [status EXCEPT ![j] = "Created"]
          /\ PassTest(j)
          /\ AddReference(j)
    /\ UNCHANGED <<queues, workers, scan, prio, acquired, num, qrun, count, restart>>
    /\ UNCHANGED <<cancel, life>>

(* The start time arrives, or the 30 second poll sees the job canceled:    *)
(* jobq_add begins.  It takes a reference before this thread drops its own.*)
sched_wait(j) ==
    /\ j \in sched \ tested
    /\ \/ valid /\ PassTest(j) /\ UNCHANGED use
       \/ /\ ~valid
          /\ sched' = sched \ {j} /\ UNCHANGED tested
          /\ use' = [use EXCEPT ![j] = @ - 1]
    /\ UNCHANGED <<queues, workers, scan, status, prio, acquired, num, qrun, count, restart>>
    /\ UNCHANGED <<cancel, life>>

(* A worker that re-runs a job goes on when jobq_add returns to it.        *)
Returned(j) ==
    [w \in Workers |->
        CASE pc[w] = "requeuing" /\ cur[w] = j -> "requeued"
          [] pc[w] = "respawning" /\ Clone[cur[w]] = j -> "free"
          [] OTHER -> pc[w]]

(* The rest of jobq_add, for a thread that found the queue valid, however  *)
(* long ago.  When jobq_destroy has returned meanwhile, this thread goes   *)
(* on with the destroyed mutex and the freed lists: undefined, and what a  *)
(* build does unless P() fails on the mutex is an insertion and a thread.  *)
jobq_add(j) ==
    /\ j \in tested
    /\ Enqueue(j)
    /\ start_server(Returned(j))
    /\ sched' = sched \ {j} /\ tested' = tested \ {j}
    /\ UNCHANGED <<cur, scan, jcr, cancel, life>>

-----------------------------------------------------------------------------
(* jobq_server: the worker loop. *)

Enter(w, from) ==
    /\ pc[w] = from /\ MutexFree

(* A new worker starts with work = true: it looks at the queues first.     *)
ServerStart(w) ==
    /\ Enter(w, "start")
    /\ pc' = [pc EXCEPT ![w] = "ready"]
    /\ UNCHANGED <<queues, adders, cur, timedout, num_workers, scan, jcr, cancel, life>>

(* pthread_cond_timedwait returns after 4 seconds, or without a timeout    *)
(* (a spurious wake-up).  timedout stays set from then on.                 *)
TimedWait(w) ==
    /\ Enter(w, "wait")
    /\ pc' = [pc EXCEPT ![w] = "ready"]
    /\ \/ timedout' = [timedout EXCEPT ![w] = TRUE]
       \/ UNCHANGED timedout
    /\ UNCHANGED <<queues, adders, cur, num_workers, scan, jcr, cancel, life>>

TakeReady(w) ==
    /\ pc[w] = "ready"
    /\ ready # <<>> /\ ~quit
    /\ cur' = [cur EXCEPT ![w] = Head(ready)]
    /\ ready' = Tail(ready)
    /\ running' = Append(running, Head(ready))
    /\ IF Tail(ready) # <<>>
       THEN start_server([pc EXCEPT ![w] = "engine"])
       ELSE /\ pc' = [pc EXCEPT ![w] = "engine"]
            /\ UNCHANGED <<timedout, num_workers>>
    /\ UNCHANGED <<waiting, adders, scan, jcr, cancel, life>>

(* The engine.  job_thread marks the job running first, which leaves a     *)
(* status that says canceled or incomplete alone.                          *)
MarkRunning(w) ==
    /\ pc[w] = "engine"
    /\ status[cur[w]] # NewStatus(cur[w], "Running")
    /\ setJobStatus(cur[w], "Running")
    /\ UNCHANGED <<queues, adders, workers, scan, cancel, life>>
    /\ UNCHANGED <<prio, acquired, num, qrun, use, count, restart>>

(* A job canceled before this point, by MaxStartDelay too, only cleans up. *)
job_thread(w) ==
    /\ pc[w] = "engine"
    /\ status[cur[w]] = NewStatus(cur[w], "Running")
    /\ \/ UNCHANGED status
       \/ cur[w] \in Watched /\ setJobStatus(cur[w], "Canceled")
    /\ pc' = [pc EXCEPT ![w] = IF job_canceled(status'[cur[w]]) THEN "done" ELSE "run"]
    /\ UNCHANGED <<queues, adders, cur, timedout, num_workers, scan, cancel, life>>
    /\ UNCHANGED <<prio, acquired, num, qrun, use, count, restart>>

job_thread_end(w) ==
    /\ pc[w] = "run"
    /\ \E s \in Outcomes : setJobStatus(cur[w], s)
    /\ pc' = [pc EXCEPT ![w] = "done"]
    /\ UNCHANGED <<queues, adders, cur, timedout, num_workers, scan, cancel, life>>
    /\ UNCHANGED <<prio, acquired, num, qrun, use, count, restart>>

(* The first half of reschedule_job: is the job to be run again?           *)
Reschedules(j) ==
    /\ count[j] < RescheduleTimes[j]
    /\ IF status[j] = "Incomplete"
       THEN restart[j]
       ELSE j \in RescheduleOnError /\ status[j] \notin {"Terminated", "Canceled"}

ClearLocks(j) == acquired' = [acquired EXCEPT ![j] = FALSE]

(* Back from the engine: the job leaves the running list and gives its     *)
(* resources back.                                                         *)
JobDone(w) ==
    /\ Enter(w, "done")
    /\ running' = RemoveFirst(running, cur[w])
    /\ num' = Released(cur[w])
    /\ ClearLocks(cur[w])
    /\ pc' = [pc EXCEPT ![w] = IF Reschedules(cur[w]) THEN "resched" ELSE "free"]
    /\ UNCHANGED <<waiting, ready, adders, cur, timedout, num_workers, scan>>
    /\ UNCHANGED <<status, prio, qrun, use, count, restart, cancel, life>>

(* The second half: the status is wiped without status_lock, then the same *)
(* JCR is queued again if it wrote nothing or is incomplete, or else a new *)
(* one takes its place.                                                    *)
reschedule_job(w) ==
    LET j == cur[w] IN
    /\ pc[w] = "resched"
    /\ count' = [count EXCEPT ![j] = @ + 1]
    /\ status' = [status EXCEPT ![j] = "WaitStartTime"]
    /\ \/ pc' = [pc EXCEPT ![w] = "requeue"]
       \/ /\ status[j] # "Incomplete" /\ Clone[j] # NoJob
          /\ pc' = [pc EXCEPT ![w] = "respawn"]
    /\ UNCHANGED <<queues, adders, cur, timedout, num_workers, scan>>
    /\ UNCHANGED <<prio, acquired, num, qrun, use, restart, cancel, life>>

(* jobq_add of a job that is to run again, without jq->mutex held.         *)
JobqAddAgain(w, j, s, adding, next) ==
    LET added == [status EXCEPT ![j] = s]
        goesTo(step) == pc' = [pc EXCEPT ![w] = step]
    IN  /\ \/ /\ ~valid
              /\ goesTo(next)
              /\ status' = [status EXCEPT ![j] = IF cur[w] = j THEN s ELSE "FatalError"]
              /\ UNCHANGED <<use, adders>>
           \/ /\ valid /\ TRUE \in Delays /\ ~Canceled(j)
              /\ goesTo(next)
              /\ status' = [added EXCEPT ![j] = "WaitStartTime"]
              /\ sched' = sched \union {j} /\ UNCHANGED tested
              /\ AddReference(j)
           \/ /\ valid /\ (FALSE \in Delays \/ Canceled(j))
              /\ goesTo(adding)
              /\ status' = added
              /\ PassTest(j)
              /\ AddReference(j)
        /\ UNCHANGED <<queues, cur, timedout, num_workers, scan, prio, acquired, num, qrun>>
        /\ UNCHANGED <<cancel, life>>

Requeue(w) ==
    /\ pc[w] = "requeue"
    /\ JobqAddAgain(w, cur[w], status[cur[w]], "requeuing", "requeued")
    /\ UNCHANGED <<count, restart>>

Respawn(w) ==
    /\ pc[w] = "respawn"
    /\ JobqAddAgain(w, Clone[cur[w]], "Created", "respawning", "free")
    /\ count' = [count EXCEPT ![Clone[cur[w]]] = count[cur[w]]]
    /\ UNCHANGED restart

(* free_jcr, then back into the ready loop with the mutex.                 *)
FreeJcr(w) ==
    /\ pc[w] \in {"free", "requeued"} /\ MutexFree
    /\ use' = [use EXCEPT ![cur[w]] = @ - 1]
    /\ cur' = [cur EXCEPT ![w] = NoJob]
    /\ pc' = [pc EXCEPT ![w] = "ready"]
    /\ UNCHANGED <<queues, adders, timedout, num_workers, scan, cancel, life>>
    /\ UNCHANGED <<status, prio, acquired, num, qrun, count, restart>>

(* The ready loop is over: look at the waiting jobs.  The priority wanted  *)
(* is that of the first running job, or of the first waiting one.          *)
StartScan(w) ==
    /\ pc[w] = "ready"
    /\ ready = <<>> /\ waiting # <<>> /\ ~quit
    /\ todo' = waiting
    /\ Priority' = prio[Head(IF running # <<>> THEN running ELSE waiting)]
    /\ mix' = (running # <<>> /\ ToSet(running) \subseteq AllowMixed)
    /\ pc' = [pc EXCEPT ![w] = "scan"]
    /\ UNCHANGED <<queues, adders, cur, timedout, num_workers, jcr, cancel, life>>

(* What the Queued RunScript section may leave behind: the job's status    *)
(* and priority, and whether the job is looked at any further.  A script   *)
(* that ran runs again only after its interval: either may be the case.    *)
QueuedScript(j) ==
    LET same == [qrun |-> qrun[j], status |-> status[j], prio |-> prio[j], go |-> TRUE]
        ran == [same EXCEPT !.qrun = "later"]
        verdict(code) ==
            CASE code = 0 -> ran
              [] code = 1 -> [ran EXCEPT !.status = NewStatus(j, "WaitUser"), !.go = Canceled(j)]
              [] code = 2 -> [ran EXCEPT !.status =
                                 compareJobStatus(NewStatus(j, "Canceled"), "FatalError")]
              [] code = 3 -> [ran EXCEPT !.prio = 9999]
        notYet == [same EXCEPT !.go = Canceled(j)]
    IN  IF j \in Scripted
        THEN {verdict(c) : c \in ScriptCodes} \union (IF qrun[j] = "later" THEN {notYet} ELSE {})
        ELSE {[same EXCEPT !.qrun = "never"]}

RightPriority(j, p) == p = Priority \/ (p < Priority /\ j \in AllowMixed /\ mix)

(* One turn of the loop over the waiting jobs, as far as a refusal.  A     *)
(* cancel_job that marks the job inside this step has the outcome of one   *)
(* just before it: all that is tested here is whether the job is canceled, *)
(* and the statuses set here never hide that.                              *)
Examine(w) ==
    /\ pc[w] = "scan" /\ todo # <<>>
    /\ LET j == Head(todo)
           got == acquire_resources(j)
       IN  \E s \in QueuedScript(j) :
           LET stat(new) == status' = [status EXCEPT ![j] = compareJobStatus(s.status, new)]
               asIs == status' = [status EXCEPT ![j] = s.status]
               move == MoveToReady(j, Append(ready, j)) /\ todo' = Tail(todo)
               stays == UNCHANGED <<waiting, ready>>
           IN  /\ qrun' = [qrun EXCEPT ![j] = s.qrun]
               /\ prio' = [prio EXCEPT ![j] = s.prio]
               /\ \/ /\ ~s.go
                     /\ stays /\ todo' = Tail(todo)
                     /\ asIs /\ UNCHANGED <<pc, acquired, num>>
                  \/ /\ s.go /\ ~RightPriority(j, s.prio)
                     /\ stays /\ todo' = <<>>
                     /\ stat("WaitPriority") /\ UNCHANGED <<pc, acquired, num>>
                  \/ /\ s.go /\ RightPriority(j, s.prio)
                     /\ job_canceled(s.status)
                     /\ move /\ asIs /\ UNCHANGED <<pc, acquired, num>>
                  \/ /\ s.go /\ RightPriority(j, s.prio)
                     /\ ~job_canceled(s.status)
                     /\ num' = got.num
                     /\ acquired' = [acquired EXCEPT ![j] = (got.wait = "none")]
                     /\ \/ got.wait = "none" /\ move /\ asIs /\ UNCHANGED pc
                        \/ /\ got.wait # "none" /\ stays /\ UNCHANGED todo
                           /\ stat(got.wait)
                           /\ pc' = [pc EXCEPT ![w] = "refused"]
    /\ UNCHANGED <<running, adders, cur, timedout, num_workers, Priority, mix>>
    /\ UNCHANGED <<use, count, restart, cancel, life>>

(* The turn of a job that did not get its resources: it goes to the ready  *)
(* list all the same if it is canceled by now.                             *)
Refused(w) ==
    /\ pc[w] = "refused"
    /\ pc' = [pc EXCEPT ![w] = "scan"]
    /\ todo' = Tail(todo)
    /\ \/ Canceled(Head(todo)) /\ MoveToReady(Head(todo), Append(ready, Head(todo)))
       \/ ~Canceled(Head(todo)) /\ UNCHANGED <<waiting, ready>>
    /\ UNCHANGED <<running, adders, cur, timedout, num_workers, Priority, mix, jcr, cancel, life>>

(* The end of the big loop: quit, give up after a timeout, pause, or wait. *)
Exits_readyLeft(w) == quit \/ timedout[w]
Exits(w) == ready = <<>> /\ (quit \/ timedout[w])

LoopEnd(w) ==
    /\ \/ pc[w] = "scan" /\ todo = <<>>
       \/ pc[w] = "ready" /\ (quit \/ (ready = <<>> /\ waiting = <<>>))
    /\ IF Exits(w)
       THEN /\ pc' = [pc EXCEPT ![w] = "none"]
            /\ num_workers' = num_workers - 1
            /\ destroy' = IF quit /\ num_workers' = 0 /\ destroy = "wait" THEN "woken" ELSE destroy
       ELSE /\ pc' = [pc EXCEPT ![w] = IF ready # <<>> \/ waiting # <<>> THEN "sleep" ELSE "wait"]
            /\ UNCHANGED <<num_workers, destroy>>
    /\ Priority' = 0 /\ mix' = FALSE    \* locals of the scan go out of scope
    /\ UNCHANGED <<queues, adders, cur, timedout, todo, jcr, cancel, valid, quit>>

(* After the 2 second pause work is recomputed.                            *)
Pause(w) ==
    /\ Enter(w, "sleep")
    /\ pc' = [pc EXCEPT ![w] =
                 IF ready # <<>> \/ waiting # <<>> \/ quit THEN "ready" ELSE "wait"]
    /\ UNCHANGED <<queues, adders, cur, timedout, num_workers, scan, jcr, cancel, life>>

jobq_server(w) ==
    \/ ServerStart(w) \/ TimedWait(w) \/ TakeReady(w)
    \/ MarkRunning(w) \/ job_thread(w) \/ job_thread_end(w)
    \/ JobDone(w) \/ reschedule_job(w) \/ Requeue(w) \/ Respawn(w) \/ FreeJcr(w)
    \/ StartScan(w) \/ Examine(w) \/ Refused(w) \/ LoopEnd(w) \/ Pause(w)

-----------------------------------------------------------------------------
(* Canceling.  cancel_job reads the status, later marks the job, and only  *)
(* then goes for the queue or for the daemons.  A stop of a job that       *)
(* cannot be stopped changes nothing.                                      *)

Active(j) == use[j] > 0

Step(j, s) == cancel' = [cancel EXCEPT ![j].step = s]

(* The watchdog marks the job itself before its cancel_thread calls        *)
(* cancel_job.                                                             *)
job_monitor_watchdog(j) ==
    /\ j \in Watched /\ Active(j) /\ ~Canceled(j)
    /\ cancel[j].step = "none"
    /\ setJobStatus(j, "Canceled")
    /\ Step(j, "thread")
    /\ UNCHANGED <<queues, adders, workers, scan, life>>
    /\ UNCHANGED <<prio, acquired, num, qrun, use, count, restart>>

cancel_job(j) ==
    /\ \/ cancel[j].step = "thread" /\ cancel' = [cancel EXCEPT ![j] =
              [step |-> "mark", cmd |-> "cancel", queued |-> not_running(status[j])]]
       \/ /\ cancel[j].step = "none" /\ Active(j)
          /\ \E c \in Commands \ (IF j \in Stoppable THEN {} ELSE {"stop"}) :
              cancel' = [cancel EXCEPT ![j] =
              [step |-> "mark", cmd |-> c, queued |-> not_running(status[j])]]
    /\ UNCHANGED <<queues, adders, workers, scan, jcr, life>>

cancel_job_mark(j) ==
    LET c == cancel[j]
        stops == c.cmd = "stop" /\ ~c.queued
    IN  /\ c.step = "mark"
        /\ setJobStatus(j, IF stops THEN "Incomplete" ELSE "Canceled")
        /\ restart' = [restart EXCEPT ![j] = @ /\ ~stops]
        /\ Step(j, IF ~c.queued THEN "daemons" ELSE IF valid THEN "remove" ELSE "false")
        /\ UNCHANGED <<queues, adders, workers, scan, life>>
        /\ UNCHANGED <<prio, acquired, num, qrun, use, count>>

(* A call that was marked while the queue was valid may have passed the    *)
(* unlocked test of jq->valid before a shutdown, or fail it after one.     *)
jobq_remove(j) ==
    /\ cancel[j].step = "remove"
    /\ \/ /\ MutexFree /\ Contains(waiting, j)
          /\ MoveToReady(j, <<j>> \o ready)
          /\ start_server(pc)
          /\ Step(j, "true")
       \/ /\ ~valid \/ (MutexFree /\ ~Contains(waiting, j))
          /\ Step(j, "false")
          /\ UNCHANGED <<waiting, ready, pc, timedout, num_workers>>
    /\ UNCHANGED <<running, adders, cur, scan, jcr, life>>

(* The daemons are told over their sockets, if the job has any; one that   *)
(* cannot be told makes the call fail.                                     *)
CancelDaemons(j) ==
    /\ cancel[j].step = "daemons"
    /\ Step(j, "true") \/ Step(j, "false")
    /\ UNCHANGED <<queues, adders, workers, scan, jcr, life>>

Cancels(j) ==
    \/ cancel_job(j) \/ cancel_job_mark(j) \/ jobq_remove(j) \/ CancelDaemons(j)

(* The console's "update jobid=... priority=...": no lock, no re-sort.     *)
update_priority(j) ==
    /\ Active(j)
    /\ \E p \in NewPriorities \ {prio[j]} : prio' = [prio EXCEPT ![j] = p]
    /\ UNCHANGED <<queues, adders, workers, scan, cancel, life>>
    /\ UNCHANGED <<status, acquired, num, qrun, use, count, restart>>

-----------------------------------------------------------------------------
(* Shutdown: jobq_destroy. *)

(* What jobq_destroy waits for.                                            *)
AllGone_noneRunning == running = <<>>
AllGone == num_workers = 0

jobq_destroy ==
    /\ MayTerminate /\ valid /\ MutexFree
    /\ valid' = FALSE
    /\ quit' = (num_workers > 0)
    /\ destroy' = IF AllGone THEN "done" ELSE "wait"
    /\ UNCHANGED <<queues, adders, workers, scan, jcr, cancel>>

DestroyReturns ==
    /\ destroy = "woken" /\ MutexFree
    /\ destroy' = IF AllGone THEN "done" ELSE "wait"
    /\ UNCHANGED <<queues, adders, workers, scan, jcr, cancel, valid, quit>>

-----------------------------------------------------------------------------
Next ==
    \/ \E j \in Jobs :
          \/ run_job(j) \/ sched_wait(j) \/ jobq_add(j)
          \/ job_monitor_watchdog(j) \/ Cancels(j) \/ update_priority(j)
    \/ \E w \in Workers : jobq_server(w)
    \/ jobq_destroy \/ DestroyReturns

(* A worker that keeps finding the mutex free gets it: its rivals sleep    *)
(* for seconds between two turns.  Timers fire, cancel_job returns.        *)
Fairness ==
    /\ \A w \in Workers : SF_vars(jobq_server(w))
    /\ \A j \in Jobs : /\ SF_vars(sched_wait(j) \/ jobq_add(j))
                       /\ SF_vars(cancel_job_mark(j) \/ jobq_remove(j) \/ CancelDaemons(j))
    /\ SF_vars(DestroyReturns)

Spec == Init /\ [][Next]_vars

FairSpec == Spec /\ Fairness
-----------------------------------------------------------------------------
(* The steps of a worker.                                                  *)
WorkerSteps == Locked \union
    {"none", "start", "wait", "engine", "run", "done", "requeue", "requeuing", "requeued",
     "respawn", "respawning", "free", "sleep"}

(* Types of the queue's state; above all no resource counter and no use    *)
(* count ever goes below zero, which dird_conf.c and jcr.c ASSERT.         *)
TypeOK ==
    /\ waiting \in Seq(Jobs) /\ ready \in Seq(Jobs) /\ running \in Seq(Jobs)
    /\ tested \subseteq sched /\ sched \subseteq Jobs
    /\ pc \in [Workers -> WorkerSteps]
    /\ cur \in [Workers -> Jobs \union {NoJob}]
    /\ timedout \in [Workers -> BOOLEAN]
    /\ num_workers \in Nat
    /\ todo \in Seq(Jobs) /\ Priority \in Nat /\ mix \in BOOLEAN
    /\ status \in [Jobs -> Statuses \union {"none"}]
    /\ prio \in [Jobs -> Nat]
    /\ acquired \in [Jobs -> BOOLEAN]
    /\ num \in [Resources -> Nat]
    /\ qrun \in [Jobs -> {"first", "never", "later"}]
    /\ use \in [Jobs -> Nat]
    /\ count \in [Jobs -> Nat] /\ restart \in [Jobs -> BOOLEAN]
    /\ \A j \in Jobs : cancel[j].step \in {"none", "thread", "mark", "remove", "daemons", "true", "false"}
    /\ valid \in BOOLEAN /\ quit \in BOOLEAN
    /\ destroy \in {"no", "wait", "woken", "done"}

Executing == {cur[w] : w \in {v \in Workers : pc[v] = "run"}}

(* A JCR is in one place at a time: in one of the three queues, once, or   *)
(* with the thread that is to add it; and the running list is exactly the  *)
(* jobs whose engine a worker is executing, never a job of two workers.    *)
OnePlace ==
    LET entries == waiting \o ready \o running
        engines == {w \in Workers : pc[w] \in {"engine", "run", "done"}}
    IN  /\ IsInjective(entries)
        /\ ToSet(entries) \intersect sched = {}
        /\ ToSet(running) = {cur[w] : w \in engines}
        /\ Cardinality(engines) = Len(running)

(* No resource counter leaks or is given back twice: after any mix of      *)
(* failed acquisitions, cancellations, failures and re-runs each counter   *)
(* is the number of uses by jobs that hold their resource locks.           *)
CountersExact ==
    \A r \in Resources :
        num[r] = Cardinality({u \in {j \in Jobs : acquired[j]} \X (1..4) :
                     r = <<RStore[u[1]], WStore[u[1]], ClientCounter(u[1]), JobRes[u[1]]>>[u[2]]})

(* Never more jobs at a time on a storage, client or Job resource than its *)
(* MaxConcurrentJobs.                                                      *)
LimitsRespected ==
    \A r \in Resources :
        Cardinality({j \in Executing : r \in {RStore[j], WStore[j], ClientCounter(j), JobRes[j]}})
            <= Limit[r]

(* The body of a job runs only while the job holds its resources: jobs     *)
(* that reach the ready list without them were canceled and only clean up. *)
RunsWithResources == \A j \in Executing : acquired[j]

(* The references that keep a JCR alive: one for the queue, the engine or  *)
(* the thread that is to add it, one for the worker that finishes it; a    *)
(* requeued JCR is never freed by the worker that requeued it.             *)
UseCounts ==
    \A j \in Jobs :
        use[j] = (IF j \in ToSet(waiting \o ready \o running) \union sched THEN 1 ELSE 0)
                 + Cardinality({w \in Workers : cur[w] = j /\ pc[w] \notin {"engine", "run", "done"}})

(* jobq_add and jobq_remove "ensure that at least one server looks at the  *)
(* queue": no job is left in the queue with no worker to find it.          *)
SomeServerLooks ==
    (valid /\ (waiting # <<>> \/ ready # <<>>)) =>
        /\ num_workers > 0
        /\ num_workers = Cardinality({w \in Workers : pc[w] # "none"})

(* A waiting job does not start while one of a better priority waits.      *)
HigherPriorityFirst ==
    [][\A j \in Jobs : (acquired'[j] /\ ~acquired[j]) =>
          \A k \in ToSet(waiting) : prio[k] >= prio[j]]_vars

(* A job that cancel_job reported canceled is no longer in the waiting     *)
(* list.                                                                   *)
CancelLeavesQueue ==
    \A j \in Jobs : cancel[j].step = "true" => ~Contains(waiting, j)

(* A job that cancel_job reported canceled does not start to run later.    *)
CanceledNeverStarts ==
    [][\A w \in Workers : (pc[w] = "engine" /\ pc'[w] = "run") =>
          ~(cancel[cur[w]].step = "true" /\ cancel[cur[w]].cmd = "cancel")]_vars

(* jobq_destroy is to "prevent any more operations": when it returns no    *)
(* worker is left and no job is executing, and so it stays until a thread  *)
(* that found jq->valid set before the shutdown goes on with its jobq_add  *)
(* or jobq_remove (nothing stops that one: JobQ_lateadd.cfg).              *)
Quiet == num_workers = 0 /\ running = <<>> /\ \A w \in Workers : pc[w] = "none"

Removing == {j \in Jobs : cancel[j].step = "remove"}

LateOperation == destroy = "done" /\ <<tested, Removing>>' # <<tested, Removing>>

DestroyedQuiet ==
    [][destroy' = "done" => Quiet' \/ LateOperation \/ (destroy = "done" /\ ~Quiet)]_vars

(* What the comment on jq->valid says (jobq.c:107), without the exception. *)
NoMoreOperations == destroy = "done" => Quiet

(* Every job that was started comes to its end and its JCR is released.    *)
JobsFinish == \A j \in Arrivals : (status[j] # "none") ~> (use[j] = 0)

(* jobq_destroy returns: the workers notice quit and leave.                *)
DestroyCompletes == (destroy = "wait") ~> (destroy = "done")
=============================================================================
