-------------------------------- MODULE WorkQ --------------------------------
(***************************************************************************)
(* The work queue of lib/workq.c: a list of elements and a pool of threads *)
(* that start when work arrives and leave after two seconds without any.   *)
(* It says what each call and each turn of workq_server does; the modules  *)
(* that extend it say who calls.                                           *)
(*                                                                         *)
(* wq->mutex is held for the whole of every call except inside             *)
(* pthread_cond_wait and while a worker runs the engine, so what happens   *)
(* between two such points is one action.  idle_workers is never           *)
(* incremented: the branches that would signal `work' are dead, and a new  *)
(* element is found by a new worker, by one back from its engine or by one *)
(* whose wait times out.                                                   *)
(*                                                                         *)
(* The calls test wq->valid before they take the mutex (workq.c:114, 160,  *)
(* 194, 267); here the test is made with the section that follows it.      *)
(* That is the same for the programs that use the queue, which destroy it  *)
(* from the thread that adds or after the threads that add were joined; in *)
(* any other use a call could go on with a queue destroyed in between, as  *)
(* JobQ shows for dird/jobq.c, which is alike.                             *)
(***************************************************************************)
EXTENDS Integers, Sequences, FiniteSets, SequencesExt

CONSTANTS Items,        \* what may be put in the queue
          NoItem,
          Workers,      \* thread identities; bounds the threads alive at once
          Callers,      \* threads that call the functions that block
          max_workers

ASSUME WorkQAssumption ==
    /\ IsFiniteSet(Workers) /\ NoItem \notin Items
    /\ Workers \intersect Callers = {}
    /\ max_workers \in Nat \ {0} /\ max_workers <= Cardinality(Workers)

VARIABLES
    queue,              \* the list from wq->first to wq->last
    valid, quit,
    num_workers, num_running,
    mutex_lost,         \* a call returned without releasing wq->mutex
    work, idle,         \* threads asleep on the two condition variables
    pc,                 \* each worker: "none", "start", "wait" or "engine"
    we,                 \* the element each worker has taken
    timedout,           \* the worker's flag of this turn of the loop
    cpc                 \* each caller: "run", "waitidle", "destroy", "destroyed"

workerVars == <<pc, we, timedout>>
wqVars == <<queue, valid, quit, num_workers, num_running, mutex_lost, work, idle,
            workerVars, cpc>>

WorkQTypeOK ==
    /\ queue \in Seq(Items)
    /\ valid \in BOOLEAN /\ quit \in BOOLEAN /\ mutex_lost \in BOOLEAN
    /\ num_workers \in 0..Cardinality(Workers)
    /\ num_running \in 0..num_workers
    /\ work \subseteq Workers \union Callers /\ idle \subseteq Callers
    /\ pc \in [Workers -> {"none", "start", "wait", "engine"}]
    /\ we \in [Workers -> Items \union {NoItem}]
    /\ timedout \in [Workers -> BOOLEAN]
    /\ cpc \in [Callers -> {"run", "waitidle", "destroy", "destroyed"}]

workq_init ==
    /\ queue = <<>> /\ valid = TRUE /\ quit = FALSE
    /\ num_workers = 0 /\ num_running = 0 /\ mutex_lost = FALSE
    /\ work = {} /\ idle = {}
    /\ pc = [w \in Workers |-> "none"]
    /\ we = [w \in Workers |-> NoItem]
    /\ timedout = [w \in Workers |-> FALSE]
    /\ cpc = [c \in Callers |-> "run"]

-----------------------------------------------------------------------------
(* pthread_create of a worker, if `wanted'.                                *)
StartWorker(wanted) ==
    IF wanted
    THEN \E w \in Workers :
            /\ pc[w] = "none"
            /\ pc' = [pc EXCEPT ![w] = "start"]
            /\ num_workers' = num_workers + 1
    ELSE UNCHANGED <<pc, num_workers>>

MoreWorkers == num_workers < max_workers

workq_add(i, priority) ==
    /\ valid /\ ~mutex_lost
    /\ queue' = IF priority THEN <<i>> \o queue ELSE Append(queue, i)
    /\ StartWorker(MoreWorkers)
    /\ UNCHANGED <<valid, quit, num_running, mutex_lost, work, idle, we, timedout, cpc>>

(* The element moves to the head and one more worker starts, beyond        *)
(* max_workers if need be.  An element that is not queued makes the call   *)
(* return with the mutex locked.                                           *)
MovedFirst_copied(i) == <<i>> \o queue
MovedFirst(i) == <<i>> \o RemoveFirst(queue, i)

workq_remove(i) ==
    /\ valid /\ ~mutex_lost
    /\ mutex_lost' = ~Contains(queue, i)
    /\ queue' = IF mutex_lost' THEN queue ELSE MovedFirst(i)
    /\ StartWorker(~mutex_lost')
    /\ UNCHANGED <<valid, quit, num_running, work, idle, we, timedout, cpc>>

-----------------------------------------------------------------------------
(* workq_server.  Serve is the part of the loop that runs with the mutex   *)
(* held, from the test of the list to where the mutex is given up: running *)
(* is num_running as the worker finds it, late the timedout flag.          *)

Take(w, late, running) ==
    /\ we' = [we EXCEPT ![w] = Head(queue)]
    /\ queue' = Tail(queue)
    /\ num_running' = running + 1
    /\ timedout' = [timedout EXCEPT ![w] = late]
    /\ pc' = [pc EXCEPT ![w] = "engine"]
    /\ work' = work \ {w}
    /\ UNCHANGED <<num_workers, idle>>

MayLeave(late) == queue = <<>> /\ (quit \/ late)

(* The last worker to leave because of quit wakes workq_destroy; a worker  *)
(* that leaves after a time-out wakes nobody.                              *)
LastLeaves_early == quit /\ num_workers > 1
LastLeaves == quit /\ num_workers = 1

Leave(w) ==
    /\ num_workers' = num_workers - 1
    /\ work' = IF LastLeaves THEN {} ELSE work \ {w}
    /\ pc' = [pc EXCEPT ![w] = "none"]
    /\ we' = [we EXCEPT ![w] = NoItem]
    /\ timedout' = [timedout EXCEPT ![w] = FALSE]
    /\ UNCHANGED queue

Sleep(w) ==
    /\ work' = work \union {w}
    /\ pc' = [pc EXCEPT ![w] = "wait"]
    /\ we' = [we EXCEPT ![w] = NoItem]
    /\ timedout' = [timedout EXCEPT ![w] = FALSE]
    /\ UNCHANGED <<queue, num_workers>>

(* The broadcast on `idle' when nothing is queued or running.              *)
IdleAfter(running) == IF running = 0 THEN {} ELSE idle

Serve(w, late, running) ==
    \/ /\ ~MayLeave(late) /\ queue # <<>>
       /\ Take(w, late, running)
    \/ /\ MayLeave(late)
       /\ Leave(w)
       /\ idle' = IdleAfter(running) /\ num_running' = running

ServerUnchanged == UNCHANGED <<valid, quit, mutex_lost, cpc>>

(* The worker first gets the mutex, or its wait ends without a time-out.   *)
workq_server(w) ==
    /\ ~mutex_lost
    /\ pc[w] = "start" \/ (pc[w] = "wait" /\ w \notin work)
    /\ \/ Serve(w, FALSE, num_running)
       \/ /\ queue = <<>> /\ ~quit
          /\ Sleep(w)
          /\ UNCHANGED <<idle, num_running>>
    /\ ServerUnchanged

(* pthread_cond_timedwait returns ETIMEDOUT.  An element may have arrived, *)
(* or quit been set, before the worker has the mutex again.                *)
TimedWait(w) ==
    /\ ~mutex_lost
    /\ pc[w] = "wait"
    /\ Serve(w, TRUE, num_running)
    /\ ServerUnchanged

(* The engine returns.  The worker leaves if it timed out before it found  *)
(* this element; else the loop goes round.                                 *)
EngineDone_keepsRunning(w) == num_running
EngineDone(w) == num_running - 1

EngineReturns(w) ==
    /\ ~mutex_lost
    /\ pc[w] = "engine"
    /\ \/ Serve(w, timedout[w] /\ queue = <<>>, EngineDone(w))
       \/ /\ queue = <<>> /\ ~quit /\ ~timedout[w]
          /\ Sleep(w)
          /\ num_running' = EngineDone(w) /\ idle' = IdleAfter(num_running')
    /\ ServerUnchanged

SpuriousWakeup(t) ==
    /\ t \in work \union idle
    /\ work' = work \ {t} /\ idle' = idle \ {t}
    /\ UNCHANGED <<queue, valid, quit, num_workers, num_running, mutex_lost, workerVars, cpc>>

-----------------------------------------------------------------------------
(* The calls that block.                                                   *)

callUnchanged == UNCHANGED <<queue, num_workers, num_running, mutex_lost, workerVars>>

Idle_queueOnly == queue = <<>>
Idle == num_running = 0 /\ queue = <<>>

(* The call, and the loop after a wake-up.                                 *)
workq_wait_idle(c) ==
    /\ ~mutex_lost
    /\ (cpc[c] = "run" /\ valid) \/ (cpc[c] = "waitidle" /\ c \notin idle)
    /\ idle' = IF Idle THEN idle ELSE idle \union {c}
    /\ cpc' = [cpc EXCEPT ![c] = IF Idle THEN "run" ELSE "waitidle"]
    /\ UNCHANGED <<valid, quit, work>> /\ callUnchanged

Gone_noneRunning == num_running = 0
Gone == num_workers = 0

workq_destroy(c) ==
    /\ ~mutex_lost
    /\ (cpc[c] = "run" /\ valid) \/ (cpc[c] = "destroy" /\ c \notin work)
    /\ valid' = FALSE
    /\ quit' = (quit \/ num_workers > 0)
    /\ work' = IF Gone THEN work ELSE work \union {c}
    /\ cpc' = [cpc EXCEPT ![c] = IF Gone THEN "destroyed" ELSE "destroy"]
    /\ UNCHANGED idle /\ callUnchanged
=============================================================================
