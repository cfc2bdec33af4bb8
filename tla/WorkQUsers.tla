----------------------------- MODULE WorkQUsers -----------------------------
(***************************************************************************)
(* The work queue under any use of it: elements arrive at either end, are  *)
(* moved forward by workq_remove, callers wait for idleness or destroy the *)
(* queue (bnet_server.c and fdcallsdir.c do, for their connections).       *)
(***************************************************************************)
EXTENDS WorkQ

CONSTANTS Removable     \* elements some caller may pass to workq_remove

VARIABLES
    added, done,        \* elements accepted, elements whose engine returned
    before              \* what was accepted when each caller began to wait

vars == <<wqVars, added, done, before>>

TypeOK ==
    /\ WorkQTypeOK
    /\ added \subseteq Items /\ done \subseteq added
    /\ before \in [Callers -> SUBSET Items]

Init == workq_init /\ added = {} /\ done = {} /\ before = [c \in Callers |-> {}]

Add(i) ==
    /\ i \notin added
    /\ \E priority \in BOOLEAN : workq_add(i, priority)
    /\ added' = added \union {i}
    /\ UNCHANGED <<done, before>>

RemoveNow(i) ==
    /\ i \in added \intersect Removable
    /\ (\E w \in Workers : pc[w] = "none") \/ ~Contains(queue, i)
    /\ workq_remove(i)
    /\ UNCHANGED <<added, done, before>>

Server(w) == (workq_server(w) \/ TimedWait(w)) /\ UNCHANGED <<added, done, before>>

Engine(w) == EngineReturns(w) /\ done' = done \union {we[w]} /\ UNCHANGED <<added, before>>

WaitIdle(c) ==
    /\ workq_wait_idle(c)
    /\ before' = [before EXCEPT ![c] = IF cpc[c] = "run" THEN added ELSE @]
    /\ UNCHANGED <<added, done>>

(* No user both waits for idleness and destroys the queue meanwhile.       *)
Destroy(c) ==
    /\ \A d \in Callers : cpc[d] # "waitidle"
    /\ workq_destroy(c)
    /\ UNCHANGED <<added, done, before>>

Spurious(t) == SpuriousWakeup(t) /\ UNCHANGED <<added, done, before>>

Next ==
    \/ \E i \in Items : Add(i) \/ RemoveNow(i)
    \/ \E w \in Workers : Server(w) \/ Engine(w)
    \/ \E c \in Callers : WaitIdle(c) \/ Destroy(c)
    \/ \E t \in Workers \union Callers : Spurious(t)

(* Engines end, threads that want the mutex get it, waits time out.        *)
Fairness ==
    /\ \A w \in Workers :
          /\ WF_vars(pc[w] = "start" /\ Server(w))
          /\ WF_vars(TimedWait(w) /\ UNCHANGED <<added, done, before>>)
          /\ WF_vars(Engine(w))
    /\ \A c \in Callers :
          /\ WF_vars(cpc[c] = "waitidle" /\ WaitIdle(c))
          /\ WF_vars(cpc[c] = "destroy" /\ Destroy(c))

Spec == Init /\ [][Next]_vars /\ Fairness

-----------------------------------------------------------------------------
Times(i, s) == Cardinality({k \in DOMAIN s : s[k] = i})

(* An accepted element is queued once, or with one worker, or done: never  *)
(* lost between the list and a worker, never handed out twice.             *)
EachOnce ==
    \A i \in added :
        Times(i, queue) + Cardinality({w \in Workers : we[w] = i})
            + (IF i \in done THEN 1 ELSE 0) = 1

(* num_workers and num_running, which steer thread creation, idleness and  *)
(* shutdown, count exactly the threads alive and the engines running; and  *)
(* while anything is queued a worker is alive, although workers leave by   *)
(* themselves and nothing ever signals them.                               *)
WorkersForWork ==
    /\ num_workers = Cardinality({w \in Workers : pc[w] # "none"})
    /\ num_running = Cardinality({w \in Workers : pc[w] = "engine"})
    /\ queue # <<>> => num_workers > 0

(* When workq_destroy has returned, and freed the mutex and the condition  *)
(* variables, no thread can still touch them and all accepted work is done.*)
DestroyedAllDone ==
    (\E c \in Callers : cpc[c] = "destroyed") =>
        /\ \A w \in Workers : pc[w] = "none"
        /\ \A c \in Callers : cpc[c] # "waitidle"
        /\ done = added

(* workq_wait_idle returns only after everything accepted before the call  *)
(* is done.                                                                *)
WaitIdleCovers ==
    [][\A c \in Callers : cpc[c] = "waitidle" /\ cpc'[c] = "run" => before[c] \subseteq done]_vars

(* Accepted work gets done, whatever the workers' time-outs, and           *)
(* workq_wait_idle and workq_destroy return, unless workq_remove of an     *)
(* element already taken left the mutex locked.                            *)
Progress ==
    /\ \A i \in Items : i \in added ~> (i \in done \/ mutex_lost)
    /\ \A c \in Callers : cpc[c] \in {"waitidle", "destroy"}
                           ~> (cpc[c] \in {"run", "destroyed"} \/ mutex_lost)
=============================================================================
