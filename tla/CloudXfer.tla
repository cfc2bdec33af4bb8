------------------------------ MODULE CloudXfer ------------------------------
(***************************************************************************)
(* The cloud transfer manager of the Storage daemon                        *)
(* (stored/cloud_transfer_mgr.c) on top of the work queue, with the jobs   *)
(* that use it (stored/cloud_dev.c): a job gets the transfer of its part,  *)
(* shared with whoever wants the same part, queues it, waits for its end   *)
(* and releases it.  Workers process transfers and queue them again when   *)
(* the cloud is not ready.                                                 *)
(*                                                                         *)
(* Three kinds of mutex nest and are kept as owners: that of the manager's *)
(* list (m_mutex), that of its statistics (m_stat_mutex) and that of each  *)
(* transfer (xmutex).  A step that takes and gives back a mutex only needs *)
(* it free.  The statistics mutex of a transfer is the innermost one, with *)
(* no other taken while it is held, and is left out.                       *)
(***************************************************************************)
EXTENDS WorkQ

CONSTANTS Jobs,
          Part,         \* the part each job moves
          Download,     \* parts that are downloaded; the others are uploaded
          Viewers,      \* threads that answer a status command
          NoThread,
          MaxRetries,   \* bound: downloads of one transfer put off
          MaxViews      \* bound: times the statistics are read

ASSUME CloudXferAssumption ==
    /\ IsFiniteSet(Jobs) /\ Jobs \intersect Workers = {}
    /\ Viewers \intersect (Jobs \union Workers) = {}
    /\ NoThread \notin Jobs \union Workers \union Viewers
    /\ IsFiniteSet(Items) /\ Cardinality(Items) >= Cardinality(Jobs)
    /\ MaxRetries \in Nat /\ MaxViews \in Nat

VARIABLES
    m_transfer_list,    \* transfers of the manager
    m_mutex, xmutex,    \* owner of the list's mutex, of each transfer's
    m_state, m_use_count,
    part,               \* volume and part number of each transfer
    m_funct,            \* the engine a transfer will run
    postponed,          \* m_wait_timeout_inc_insec # 0
    m_cancel,
    m_done,             \* jobs asleep on each transfer's condition variable
    retries,
    stat,               \* the manager's counts of transfers per state
    m_stat_mutex, views, \* owner of their mutex when it wants the list's too
    jpc, ref,           \* where each job is, the transfer it refers to
    canceled,           \* canceled jobs
    epc, result,        \* where each worker is inside proceed()
    crashed             \* a transfer was deleted while referred to

xferVars == <<m_state, m_use_count, part, m_funct, postponed, m_cancel, retries>>
statVars == <<m_stat_mutex, views>>
xvars == <<m_transfer_list, m_mutex, xmutex, xferVars, m_done, stat, statVars, jpc, ref, canceled,
           epc, result, crashed>>
cloudVars == <<wqVars, xvars>>

States == {"CREATED", "QUEUED", "PROCESSED", "DONE", "ERROR"}
Counts == {"queued", "waiting", "processed", "done", "error"}
Threads == Jobs \union Workers \union {NoThread}

XferTypeOK ==
    /\ WorkQTypeOK
    /\ m_transfer_list \subseteq Items
    /\ m_mutex \in Threads /\ xmutex \in [Items -> Threads]
    /\ m_state \in [Items -> States \union {"none", "deleted"}]
    /\ m_use_count \in [Items -> 0..(Cardinality(Jobs) + 1)]
    /\ m_funct \in [Items -> {"upload", "download", "wait"}]
    /\ postponed \in [Items -> BOOLEAN] /\ m_cancel \in [Items -> BOOLEAN]
    /\ retries \in [Items -> 0..MaxRetries]
    /\ m_done \in [Items -> SUBSET Jobs]
    /\ stat \in [Counts -> 0..Cardinality(Jobs)]
    /\ m_stat_mutex \in Viewers \union {NoThread} /\ views \in 0..MaxViews
    /\ jpc \in [Jobs -> {"start", "inc", "queue", "addwork", "wait", "timedwait",
                          "cancelwait", "release", "delete", "dec", "end"}]
    /\ ref \in [Jobs -> Items \union {NoItem}]
    /\ canceled \subseteq Jobs
    /\ epc \in [Workers -> {"idle", "proceed", "funct", "transition", "addwork", "return"}]
    /\ result \in [Workers -> States]
    /\ crashed \in BOOLEAN

XferInit ==
    /\ workq_init
    /\ m_transfer_list = {} /\ m_mutex = NoThread
    /\ xmutex = [x \in Items |-> NoThread]
    /\ m_state = [x \in Items |-> "none"]
    /\ m_use_count = [x \in Items |-> 0]
    /\ part = [x \in Items |-> Part[CHOOSE j \in Jobs : TRUE]]
    /\ m_funct = [x \in Items |-> "upload"]
    /\ postponed = [x \in Items |-> FALSE] /\ m_cancel = [x \in Items |-> FALSE]
    /\ retries = [x \in Items |-> 0]
    /\ m_done = [x \in Items |-> {}]
    /\ stat = [c \in Counts |-> 0]
    /\ m_stat_mutex = NoThread /\ views = 0
    /\ jpc = [j \in Jobs |-> "start"] /\ ref = [j \in Jobs |-> NoItem]
    /\ canceled = {}
    /\ epc = [w \in Workers |-> "idle"] /\ result = [w \in Workers |-> "DONE"]
    /\ crashed = FALSE

-----------------------------------------------------------------------------
Free(x) == xmutex[x] = NoThread
ListFree == m_mutex = NoThread
StatFree == m_stat_mutex = NoThread
Ended(x) == m_state[x] \in {"DONE", "ERROR"}
JobAt(j, a) == jpc' = [jpc EXCEPT ![j] = a]
JobEnds(j) == JobAt(j, "end") /\ ref' = [ref EXCEPT ![j] = NoItem]
EngineAt(w, a) == epc' = [epc EXCEPT ![w] = a]

(* The count a queued transfer is in.                                      *)
QueuedCount(x) == IF postponed[x] THEN "waiting" ELSE "queued"

(* One count down, another up.                                             *)
Moved(from, to) == [stat EXCEPT ![from] = @ - 1, ![to] = @ + 1]

-----------------------------------------------------------------------------
(* Jobs: upload_part_to_cloud and download_part_to_cache, then end_of_job. *)

(* The identity a new transfer gets.                                       *)
NextFree == CHOOSE x \in Items : m_state[x] = "none"

Similar(j) == {x \in m_transfer_list : part[x] = Part[j]}

(* A transfer for the part exists: its count is incremented with both      *)
(* mutexes held; else a new one is made, referred to by list and caller.   *)
get_xfer(j) ==
    /\ jpc[j] = "start" /\ ListFree
    /\ \/ \E x \in Similar(j) :
             /\ m_mutex' = j
             /\ ref' = [ref EXCEPT ![j] = x]
             /\ JobAt(j, "inc")
             /\ UNCHANGED <<m_transfer_list, xferVars>>
       \/ /\ Similar(j) = {}
          /\ \E x \in Items :
                /\ m_state[x] = "none" /\ x = NextFree
                /\ m_transfer_list' = m_transfer_list \union {x}
                /\ ref' = [ref EXCEPT ![j] = x]
                /\ m_state' = [m_state EXCEPT ![x] = "CREATED"]
                /\ m_use_count' = [m_use_count EXCEPT ![x] = 2]
                /\ part' = [part EXCEPT ![x] = Part[j]]
                /\ m_funct' = [m_funct EXCEPT ![x] = IF Part[j] \in Download
                                                     THEN "download" ELSE "upload"]
          /\ JobAt(j, "queue")
          /\ UNCHANGED <<m_mutex, postponed, m_cancel, retries>>
    /\ UNCHANGED <<wqVars, statVars, xmutex, m_done, stat, canceled, epc, result, crashed>>

get_xfer_inc(j) ==
    LET x == ref[j] IN
    /\ jpc[j] = "inc" /\ Free(x)
    /\ m_use_count' = [m_use_count EXCEPT ![x] = @ + 1]
    /\ m_mutex' = NoThread
    /\ JobAt(j, "queue")
    /\ UNCHANGED <<wqVars, statVars, m_transfer_list, xmutex, m_state, part, m_funct, postponed,
                   m_cancel, retries, m_done, stat, ref, canceled, epc, result, crashed>>

(* transfer::queue: transition(QUEUED), refused when another job has       *)
(* already queued the transfer.  The transfer's mutex is held while those  *)
(* of the statistics and then of the list are waited for.                  *)
MayQueue_queuedToo(x) == m_state[x] \in {"CREATED", "QUEUED"}
MayQueue(x) == m_state[x] = "CREATED"

transfer_queue(j) ==
    LET x == ref[j] IN
    /\ jpc[j] = "queue"
    /\ \/ /\ MayQueue(x) /\ Free(x)
          /\ xmutex' = [xmutex EXCEPT ![x] = j]
          /\ UNCHANGED <<stat, jpc>>
       \/ /\ MayQueue(x) /\ xmutex[x] = j /\ StatFree
          /\ stat' = [stat EXCEPT ![QueuedCount(x)] = @ + 1]
          /\ JobAt(j, "addwork")
          /\ UNCHANGED xmutex
       \/ /\ ~MayQueue(x) /\ Free(x)
          /\ JobAt(j, "wait")
          /\ UNCHANGED <<xmutex, stat>>
    /\ UNCHANGED <<wqVars, statVars, m_transfer_list, m_mutex, xferVars, m_done, ref, canceled,
                   epc, result, crashed>>

(* add_work and the end of transition(QUEUED).                             *)
add_work(x) ==
    /\ ListFree
    /\ workq_add(x, FALSE)
    /\ m_state' = [m_state EXCEPT ![x] = "QUEUED"]
    /\ xmutex' = [xmutex EXCEPT ![x] = NoThread]
    /\ UNCHANGED <<statVars, m_transfer_list, m_mutex, m_use_count, part, m_funct, postponed,
                   m_cancel, retries, stat, ref, canceled, result, crashed>>

transfer_queue_add(j) ==
    /\ jpc[j] = "addwork"
    /\ add_work(ref[j])
    /\ JobAt(j, "wait")
    /\ UNCHANGED <<m_done, epc>>

(* wait_end_of_transfer: a canceled job marks the transfer and waits       *)
(* without limit, another one waits 30 seconds at a time.                  *)
wait_end_of_transfer(j) ==
    LET x == ref[j] IN
    /\ jpc[j] = "wait" /\ Free(x)
    /\ m_cancel' = [m_cancel EXCEPT ![x] = @ \/ j \in canceled]
    /\ m_done' = [m_done EXCEPT ![x] = IF Ended(x) THEN @ ELSE @ \union {j}]
    /\ JobAt(j, IF Ended(x) THEN "release"
                ELSE IF j \in canceled THEN "cancelwait" ELSE "timedwait")
    /\ UNCHANGED <<wqVars, statVars, m_transfer_list, m_mutex, xmutex, m_state, m_use_count,
                   part, m_funct, postponed, retries, stat, ref, canceled, epc, result,
                   crashed>>

(* The loops of wait and timedwait after a wake-up.                        *)
transfer_wait_woken(j) ==
    LET x == ref[j] IN
    /\ jpc[j] \in {"timedwait", "cancelwait"} /\ j \notin m_done[x] /\ Free(x)
    /\ m_done' = [m_done EXCEPT ![x] = IF Ended(x) THEN @ ELSE @ \union {j}]
    /\ jpc' = IF Ended(x) THEN [jpc EXCEPT ![j] = "release"] ELSE jpc
    /\ UNCHANGED <<wqVars, statVars, m_transfer_list, m_mutex, xmutex, xferVars, stat, ref,
                   canceled, epc, result, crashed>>

transfer_timedwait_timeout(j) ==
    /\ jpc[j] = "timedwait"
    /\ m_done' = [m_done EXCEPT ![ref[j]] = @ \ {j}]
    /\ JobAt(j, "wait")
    /\ UNCHANGED <<wqVars, statVars, m_transfer_list, m_mutex, xmutex, xferVars, stat, ref,
                   canceled, epc, result, crashed>>

(* transfer_manager::release: the caller's reference goes; who leaves only *)
(* the list's behind deletes the transfer, in a second critical section.   *)
LastUser_listForgotten(n) == n = 0
LastUser(n) == n = 1

release(j) ==
    LET x == ref[j] IN
    /\ jpc[j] = "release" /\ Free(x)
    /\ m_use_count' = [m_use_count EXCEPT ![x] = @ - 1]
    /\ \/ /\ LastUser(m_use_count[x] - 1)
          /\ JobAt(j, "delete")
          /\ UNCHANGED ref
       \/ /\ ~LastUser(m_use_count[x] - 1)
          /\ JobEnds(j)
    /\ UNCHANGED <<wqVars, statVars, m_transfer_list, m_mutex, xmutex, m_state, part, m_funct,
                   postponed, m_cancel, retries, m_done, stat, canceled, epc, result, crashed>>

release_remove(j) ==
    /\ jpc[j] = "delete" /\ ListFree
    /\ m_mutex' = j
    /\ m_transfer_list' = m_transfer_list \ {ref[j]}
    /\ JobAt(j, "dec")
    /\ UNCHANGED <<wqVars, statVars, xmutex, xferVars, m_done, stat, ref, canceled, epc, result,
                   crashed>>

(* The transfer is freed.  If another job still refers to it, ~transfer's  *)
(* assertion fails or that job will use freed memory: the model stops.     *)
release_delete(j) ==
    LET x == ref[j] IN
    /\ jpc[j] = "dec" /\ Free(x)
    /\ m_use_count' = [m_use_count EXCEPT ![x] = @ - 1]
    /\ m_state' = [m_state EXCEPT ![x] = "deleted"]
    /\ m_cancel' = [m_cancel EXCEPT ![x] = FALSE]
    /\ retries' = [retries EXCEPT ![x] = 0]
    /\ m_funct' = [m_funct EXCEPT ![x] = "upload"]
    /\ crashed' = (\E k \in Jobs \ {j} : ref[k] = x)
    /\ m_mutex' = NoThread
    /\ JobEnds(j)
    /\ UNCHANGED <<wqVars, statVars, m_transfer_list, xmutex, part, postponed, m_done, stat,
                   canceled, epc, result>>

(* Cancelling matters to a job that will look at it again.                 *)
CancelJob(j) ==
    /\ j \notin canceled
    /\ jpc[j] \in {"start", "inc", "queue", "addwork", "wait", "timedwait"}
    /\ canceled' = canceled \union {j}
    /\ UNCHANGED <<wqVars, statVars, m_transfer_list, m_mutex, xmutex, xferVars, m_done, stat,
                   jpc, ref, epc, result, crashed>>

-----------------------------------------------------------------------------
(* Workers.                                                                *)

engineUnchanged == UNCHANGED <<statVars, m_transfer_list, m_mutex, xmutex, xferVars, m_done,
                               stat, jpc, ref, canceled, result, crashed>>

(* A worker that takes an element calls transfer_launcher for it.          *)
Launch(w) == EngineAt(w, IF pc'[w] = "engine" THEN "proceed" ELSE "idle")

Serves(w) == (workq_server(w) \/ TimedWait(w)) /\ Launch(w) /\ engineUnchanged
EngineEnd(w) == epc[w] = "return" /\ EngineReturns(w) /\ Launch(w) /\ engineUnchanged

(* transition() begins: the transfer's mutex, then that of the statistics. *)
Unlocked(x) == [xmutex EXCEPT ![x] = NoThread]

transition(w) ==
    LET x == we[w] IN
    /\ epc[w] \in {"proceed", "transition"} /\ Free(x)
    /\ xmutex' = [xmutex EXCEPT ![x] = w]
    /\ UNCHANGED <<wqVars, statVars, m_transfer_list, m_mutex, xferVars, m_done, stat, jpc, ref,
                   canceled, epc, result, crashed>>

(* transition(PROCESSED), or nothing if the state does not allow it.       *)
proceed(w) ==
    LET x == we[w]
        ok == m_state[x] = "QUEUED"
    IN
    /\ epc[w] = "proceed" /\ xmutex[x] = w
    /\ ok => StatFree
    /\ m_state' = IF ok THEN [m_state EXCEPT ![x] = "PROCESSED"] ELSE m_state
    /\ stat' = IF ok THEN Moved(QueuedCount(x), "processed") ELSE stat
    /\ xmutex' = Unlocked(x)
    /\ EngineAt(w, IF ok THEN "funct" ELSE "return")
    /\ UNCHANGED <<wqVars, statVars, m_transfer_list, m_mutex, m_use_count, part, m_funct,
                   postponed, m_cancel, retries, m_done, jpc, ref, canceled, result, crashed>>

Finish(w, state) ==
    /\ result' = [result EXCEPT ![w] = state]
    /\ EngineAt(w, "transition")

functUnchanged == UNCHANGED <<wqVars, statVars, m_transfer_list, m_mutex, xmutex, m_state,
                              m_use_count, part, m_cancel, m_done, stat, jpc, ref, canceled,
                              crashed>>

(* upload_engine, and download_engine when the driver answers OK or ERROR. *)
TransferEnds(w) ==
    /\ epc[w] = "funct" /\ m_funct[we[w]] \in {"upload", "download"}
    /\ \E state \in {"DONE", "ERROR"} : Finish(w, state)
    /\ UNCHANGED <<m_funct, postponed, retries>> /\ functUnchanged

(* download_engine: the cloud must first restore the part.                 *)
DownloadRetry(w) ==
    LET x == we[w] IN
    /\ epc[w] = "funct" /\ m_funct[x] = "download" /\ Free(x)
    /\ retries[x] < MaxRetries
    /\ retries' = [retries EXCEPT ![x] = @ + 1]
    /\ m_funct' = [m_funct EXCEPT ![x] = "wait"]
    /\ postponed' = [postponed EXCEPT ![x] = TRUE]
    /\ Finish(w, "QUEUED") /\ functUnchanged

(* wait_engine: too early, or the server is not ready yet.                 *)
WaitMore(w) ==
    /\ epc[w] = "funct" /\ m_funct[we[w]] = "wait"
    /\ Finish(w, "QUEUED")
    /\ UNCHANGED <<m_funct, postponed, retries>> /\ functUnchanged

(* wait_engine: the part is ready, download it at the next turn.           *)
WaitOver(w) ==
    LET x == we[w] IN
    /\ epc[w] = "funct" /\ m_funct[x] = "wait" /\ Free(x)
    /\ m_funct' = [m_funct EXCEPT ![x] = "download"]
    /\ postponed' = [postponed EXCEPT ![x] = FALSE]
    /\ Finish(w, "QUEUED")
    /\ UNCHANGED retries /\ functUnchanged

(* transition(DONE) or transition(ERROR): the waiting jobs wake up.        *)
EndWakes_nobody(x) == m_done[x]
EndWakes(x) == {}

transition_end(w) ==
    LET x == we[w] IN
    /\ epc[w] = "transition" /\ result[w] \in {"DONE", "ERROR"}
    /\ xmutex[x] = w /\ StatFree
    /\ xmutex' = Unlocked(x)
    /\ m_state' = [m_state EXCEPT ![x] = result[w]]
    /\ stat' = Moved("processed", IF result[w] = "DONE" THEN "done" ELSE "error")
    /\ m_done' = [m_done EXCEPT ![x] = EndWakes(x)]
    /\ result' = [result EXCEPT ![w] = "DONE"]
    /\ EngineAt(w, "return")
    /\ UNCHANGED <<wqVars, statVars, m_transfer_list, m_mutex, m_use_count, part, m_funct,
                   postponed, m_cancel, retries, jpc, ref, canceled, crashed>>

(* PROCESSED -> QUEUED, in two steps as for a job.                         *)
Requeued_notWaiting(x) == Moved("processed", "queued")
Requeued(x) == Moved("processed", QueuedCount(x))

transition_queue(w) ==
    LET x == we[w] IN
    /\ epc[w] = "transition" /\ result[w] = "QUEUED"
    /\ xmutex[x] = w /\ StatFree
    /\ stat' = Requeued(x)
    /\ result' = [result EXCEPT ![w] = "DONE"]
    /\ EngineAt(w, "addwork")
    /\ UNCHANGED <<wqVars, statVars, m_transfer_list, m_mutex, xmutex, xferVars, m_done, jpc,
                   ref, canceled, crashed>>

transition_queue_add(w) ==
    /\ epc[w] = "addwork"
    /\ add_work(we[w])
    /\ m_done' = [m_done EXCEPT ![we[w]] = {}]
    /\ EngineAt(w, "return")
    /\ UNCHANGED jpc

-----------------------------------------------------------------------------
(* The status command: update_statistics and append_status take the mutex  *)
(* of the statistics and, with it held, that of the list.                  *)

update_statistics(v) ==
    /\ StatFree /\ views < MaxViews
    /\ m_stat_mutex' = v
    /\ views' = views + 1
    /\ UNCHANGED <<wqVars, m_transfer_list, m_mutex, xmutex, xferVars, m_done, stat, jpc, ref,
                   canceled, epc, result, crashed>>

update_statistics_end(v) ==
    /\ m_stat_mutex = v /\ ListFree
    /\ m_stat_mutex' = NoThread
    /\ UNCHANGED <<wqVars, views, m_transfer_list, m_mutex, xmutex, xferVars, m_done, stat, jpc,
                   ref, canceled, epc, result, crashed>>

-----------------------------------------------------------------------------
JobStep(j) ==
    \/ get_xfer(j) \/ get_xfer_inc(j)
    \/ transfer_queue(j) \/ transfer_queue_add(j)
    \/ wait_end_of_transfer(j) \/ transfer_wait_woken(j) \/ transfer_timedwait_timeout(j)
    \/ release(j) \/ release_remove(j) \/ release_delete(j)

WorkerStep(w) ==
    \/ Serves(w) \/ EngineEnd(w) \/ transition(w) \/ proceed(w)
    \/ TransferEnds(w) \/ DownloadRetry(w) \/ WaitMore(w) \/ WaitOver(w)
    \/ transition_end(w) \/ transition_queue(w) \/ transition_queue_add(w)

XferNext ==
    /\ ~crashed
    /\ \/ \E j \in Jobs : JobStep(j) \/ CancelJob(j)
       \/ \E w \in Workers : WorkerStep(w)
       \/ \E v \in Viewers : update_statistics(v) \/ update_statistics_end(v)

(* Threads run, engines return, and a server that is asked for a part has  *)
(* it ready in the end.                                                    *)
XferFairness ==
    /\ \A j \in Jobs : WF_cloudVars(~crashed /\ JobStep(j))
    /\ \A w \in Workers :
          /\ WF_cloudVars(~crashed /\ WorkerStep(w))
          /\ SF_cloudVars(~crashed /\ WaitOver(w))
    /\ \A v \in Viewers : WF_cloudVars(~crashed /\ update_statistics_end(v))

XferSpec == XferInit /\ [][XferNext]_cloudVars /\ XferFairness

-----------------------------------------------------------------------------
(* A thread is about to queue x: the state it will have is already counted.*)
Adding(x) == \/ \E j \in Jobs : jpc[j] = "addwork" /\ ref[j] = x
             \/ \E w \in Workers : epc[w] = "addwork" /\ we[w] = x

Waits(x) == Cardinality({k \in DOMAIN queue : queue[k] = x})
            + Cardinality({w \in Workers : epc[w] = "proceed" /\ we[w] = x})

(* However jobs share, retry and re-queue it, a transfer is in the work    *)
(* queue exactly when its state says so, never twice and never forgotten,  *)
(* and only one worker at a time moves its data.                           *)
QueuedOnce ==
    \A x \in Items :
        /\ Waits(x) = (IF m_state[x] = "QUEUED" THEN 1 ELSE 0)
        /\ Cardinality({w \in Workers : we[w] = x /\ epc[w] \in {"funct", "transition", "addwork"}})
               = (IF m_state[x] = "PROCESSED" THEN 1 ELSE 0)

(* The reference count is the list's reference plus one per job, a part    *)
(* has only one transfer in the list, and each of these has a job that     *)
(* will delete it: none is leaked.                                         *)
UseCounts ==
    /\ \A x \in Items :
          m_use_count[x] =
              (IF \/ x \in m_transfer_list
                  \/ \E j \in Jobs : ref[j] = x /\ jpc[j] = "dec" THEN 1 ELSE 0)
              + Cardinality({j \in Jobs : ref[j] = x /\ jpc[j] \notin {"inc", "delete", "dec"}})
    /\ \A x, y \in m_transfer_list : part[x] = part[y] => x = y
    /\ \A x \in m_transfer_list : \E j \in Jobs : ref[j] = x

(* The transfers each count is of.                                         *)
Queueing(x) == m_state[x] = "QUEUED" \/ Adding(x)
InQueued == {x \in Items : Queueing(x) /\ ~postponed[x]}
InWaiting == {x \in Items : Queueing(x) /\ postponed[x]}
InProcessed == {x \in Items : m_state[x] = "PROCESSED" /\ ~Adding(x)}
InEnded == {x \in Items : m_state[x] \in {"DONE", "ERROR", "deleted"}}

(* The statistics the status command shows agree with the transfers'       *)
(* states, although "queued" or "waiting" is decided again at each change. *)
StatsExact ==
    /\ stat["queued"] = Cardinality(InQueued)
    /\ stat["waiting"] = Cardinality(InWaiting)
    /\ stat["processed"] = Cardinality(InProcessed)
    /\ stat["done"] + stat["error"] = Cardinality(InEnded)

(* A job has the list's mutex and waits for that of its transfer, whose    *)
(* owner waits for the list's, or for that of the statistics while their   *)
(* owner waits for the list's.                                             *)
LockCycle ==
    \E j \in Jobs :
        /\ jpc[j] \in {"inc", "dec"} /\ ~Free(ref[j])
        /\ Adding(ref[j]) \/ ~StatFree

(* Every job gets its transfer, sees its end and releases it: only a cycle *)
(* of the three mutexes or the deletion of a transfer in use can stop one. *)
JobsEnd == <>((\A j \in Jobs : jpc[j] = "end") \/ LockCycle \/ crashed)

(* The second cycle alone, through the statistics' mutex.                  *)
NoStatCycle ==
    ~\E j \in Jobs :
        jpc[j] \in {"inc", "dec"} /\ ~Free(ref[j]) /\ ~Adding(ref[j]) /\ ~StatFree

NoLockCycle == ~LockCycle

(* "The transfer_mgr is in charge of deleting the transfer when no one     *)
(* shares it anymore": no job refers to a deleted transfer.                *)
DeletedUnshared ==
    \A j \in Jobs : ref[j] # NoItem => m_state[ref[j]] # "deleted"

(* "Do not touch downloads shared with other jobs": a transfer is marked   *)
(* canceled only if all the jobs that use it are canceled.                 *)
CancelOwnOnly ==
    \A j \in Jobs : ref[j] # NoItem /\ m_cancel[ref[j]] => j \in canceled
=============================================================================
