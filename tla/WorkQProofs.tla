---------------------------- MODULE WorkQProofs -----------------------------
(***************************************************************************)
(* Proofs about the work queue, first under any use of it, then under the  *)
(* cloud transfer manager; for any number of elements, workers, callers    *)
(* and jobs.  The two parts share nothing but the queue: what the second   *)
(* assumes of Items is that they are finite and as many as its jobs.       *)
(*                                                                         *)
(* That an element is handled once is not inductive by itself:   *)
(* it rests on the list having no element twice and on an element being    *)
(* with a worker exactly while that worker is in the engine; that destroy  *)
(* returns to an empty house rests on the two counters being exact.  IInv  *)
(* joins these facts.                                                      *)
(***************************************************************************)
EXTENDS WorkQUsers, CloudXfer, CollectionLemmas

Alive == {w \in Workers : pc[w] # "none"}
Engines == {w \in Workers : pc[w] = "engine"}
Taken == {i \in Items : \E w \in Workers : we[w] = i}

(* Where the accepted elements are: in the list, with a worker, or done.   *)
Placed ==
    /\ IsInjective(queue)
    /\ \A w \in Workers : (pc[w] = "engine") <=> (we[w] # NoItem)
    /\ \A w, v \in Workers : we[w] = we[v] /\ we[w] # NoItem => w = v
    /\ \A i \in Range(queue) : i \notin done /\ i \notin Taken
    /\ \A i \in Taken : i \notin done
    /\ added = Range(queue) \union Taken \union done

(* Nothing is accepted once a destroy has begun; what a caller waits for   *)
(* was accepted.                                                           *)
Closing == \A c \in Callers : cpc[c] \in {"destroy", "destroyed"} => ~valid
BeforeAdded == \A c \in Callers : before[c] \subseteq added

IInv ==
    /\ TypeOK
    /\ Placed
    /\ WorkersForWork
    /\ Closing
    /\ BeforeAdded
    /\ DestroyedAllDone

-----------------------------------------------------------------------------
(* The sets the counters count.                                            *)
LEMMA Counted ==
    ASSUME TypeOK, WorkersForWork
    PROVE  /\ IsFiniteSet(Alive) /\ IsFiniteSet(Engines)
           /\ num_workers = Cardinality(Alive) /\ num_running = Cardinality(Engines)
           /\ num_workers = 0 <=> Alive = {}
           /\ num_running = 0 <=> Engines = {}
<1>1. Alive \in SUBSET Workers /\ Engines \in SUBSET Workers
  BY DEF Alive, Engines
<1>2. IsFiniteSet(Alive) /\ IsFiniteSet(Engines)
  BY <1>1, FS_Subset, WorkQAssumption
<1>3. num_workers = Cardinality(Alive) /\ num_running = Cardinality(Engines)
  BY DEF WorkersForWork, Alive, Engines
<1>4. QED BY <1>2, <1>3, FS_EmptySet

(* Counters that count give the bounds of the type invariant.              *)
LEMMA CountBounds ==
    ASSUME pc' \in [Workers -> {"none", "start", "wait", "engine"}],
           num_workers' = Cardinality(Alive'), num_running' = Cardinality(Engines')
    PROVE  num_workers' \in 0..Cardinality(Workers) /\ num_running' \in 0..num_workers'
<1>1. Alive' \in SUBSET Workers /\ Engines' \in SUBSET Alive'
  BY DEF Alive, Engines
<1>2. IsFiniteSet(Workers) /\ IsFiniteSet(Alive')
  BY <1>1, FS_Subset, WorkQAssumption
<1>3. Cardinality(Alive') <= Cardinality(Workers) /\ Cardinality(Engines') <= Cardinality(Alive')
  BY <1>1, <1>2, FS_Subset
<1>4. IsFiniteSet(Engines') /\ Cardinality(Alive') \in Nat /\ Cardinality(Engines') \in Nat /\ Cardinality(Workers) \in Nat
  BY <1>1, <1>2, FS_Subset, FS_CardinalityType
<1>5. QED BY <1>3, <1>4

(* A worker that changes its place.                                        *)
LEMMA PlaceStep ==
    ASSUME TypeOK, NEW w \in Workers, NEW p \in {"none", "start", "wait", "engine"},
           pc' = [pc EXCEPT ![w] = p]
    PROVE  /\ pc' \in [Workers -> {"none", "start", "wait", "engine"}]
           /\ Alive' = IF p = "none" THEN Alive \ {w} ELSE Alive \union {w}
           /\ Engines' = IF p = "engine" THEN Engines \union {w} ELSE Engines \ {w}
<1>1. pc \in [Workers -> {"none", "start", "wait", "engine"}]
  BY DEF TypeOK, WorkQTypeOK
<1>2. pc' \in [Workers -> {"none", "start", "wait", "engine"}]
  BY <1>1
<1>3. \A v \in Workers : pc'[v] = IF v = w THEN p ELSE pc[v]
  BY <1>1
<1>4. Alive' = IF p = "none" THEN Alive \ {w} ELSE Alive \union {w}
  BY <1>3 DEF Alive
<1>5. Engines' = IF p = "engine" THEN Engines \union {w} ELSE Engines \ {w}
  BY <1>3 DEF Engines
<1>6. QED BY <1>2, <1>4, <1>5

(* StartWorker keeps the counters exact, and no work without a worker.     *)
LEMMA StartStep ==
    ASSUME TypeOK, WorkersForWork, NEW wanted \in BOOLEAN, StartWorker(wanted),
           UNCHANGED num_running
    PROVE  /\ pc' \in [Workers -> {"none", "start", "wait", "engine"}]
           /\ \A w \in Workers : (pc'[w] = "engine") <=> (pc[w] = "engine")
           /\ num_workers' = Cardinality(Alive') /\ num_running' = Cardinality(Engines')
           /\ wanted => num_workers' > 0
           /\ ~wanted => num_workers' = num_workers
<1>0. num_workers \in Nat /\ pc \in [Workers -> {"none", "start", "wait", "engine"}]
  BY DEF TypeOK, WorkQTypeOK
<1>1. CASE wanted
  <2>1. PICK w \in Workers : /\ pc[w] = "none" /\ pc' = [pc EXCEPT ![w] = "start"]
                             /\ num_workers' = num_workers + 1
    BY <1>1 DEF StartWorker
  <2>2. Alive' = Alive \union {w} /\ Engines' = Engines \ {w}
    BY <2>1, PlaceStep
  <2>3. w \notin Alive /\ w \notin Engines
    BY <2>1 DEF Alive, Engines
  <2>4. num_workers' = Cardinality(Alive')
    BY <2>1, <2>2, <2>3, Counted, CountStep
  <2>5. num_running' = Cardinality(Engines')
    BY <2>2, <2>3, Counted, CountStep
  <2>6. \A v \in Workers : (pc'[v] = "engine") <=> (pc[v] = "engine")
    BY <1>0, <2>1
  <2>7. pc' \in [Workers -> {"none", "start", "wait", "engine"}]
    BY <2>1, PlaceStep
  <2>8. QED BY <1>0, <1>1, <2>1, <2>4, <2>5, <2>6, <2>7
<1>2. CASE ~wanted
  <2>1. UNCHANGED <<pc, num_workers>>
    BY <1>2 DEF StartWorker
  <2>2. Alive' = Alive /\ Engines' = Engines
    BY <2>1 DEF Alive, Engines
  <2>3. QED BY <1>0, <1>2, <2>1, <2>2, Counted
<1>3. QED BY <1>1, <1>2

-----------------------------------------------------------------------------
LEMMA InitIInv == Init => IInv
<1> SUFFICES ASSUME Init PROVE IInv
  OBVIOUS
<1> USE DEF Init, workq_init
<1>1. Cardinality(Workers) \in Nat
  BY WorkQAssumption, FS_CardinalityType
<1>2. TypeOK
  <2>1. queue \in Seq(Items)
    BY EmptyList
  <2>2. num_workers \in 0..Cardinality(Workers) /\ num_running \in 0..num_workers
    BY <1>1
  <2>3. cpc \in [Callers -> {"run", "waitidle", "destroy", "destroyed"}]
    OBVIOUS
  <2>4. QED BY <2>1, <2>2, <2>3 DEF TypeOK, WorkQTypeOK
<1>3. Taken = {}
  BY WorkQAssumption DEF Taken
<1>4. Placed
  BY <1>3, EmptyList DEF Placed
<1>5. {w \in Workers : pc[w] # "none"} = {} /\ {w \in Workers : pc[w] = "engine"} = {}
  OBVIOUS
<1>6. WorkersForWork
  BY <1>5, FS_EmptySet DEF WorkersForWork
<1>7. QED BY <1>2, <1>4, <1>6 DEF IInv, Closing, BeforeAdded, DestroyedAllDone

-----------------------------------------------------------------------------
(* A new element, and one moved to the head of the list.                   *)
LEMMA AddPreserves ==
    ASSUME IInv, NEW i \in Items, Add(i)
    PROVE  IInv'
<1> USE DEF IInv
<1>0. PICK priority \in BOOLEAN : workq_add(i, priority)
  BY DEF Add
<1>1. /\ queue' = IF priority THEN <<i>> \o queue ELSE Append(queue, i)
      /\ StartWorker(MoreWorkers) /\ valid
      /\ UNCHANGED <<valid, quit, num_running, mutex_lost, work, idle, we, timedout, cpc, done, before>>
      /\ i \notin added /\ added' = added \union {i}
  BY <1>0 DEF workq_add, Add
<1>2. queue \in Seq(Items)
  BY DEF TypeOK, WorkQTypeOK
<1>3. /\ queue' \in Seq(Items) /\ queue' # <<>>
      /\ Range(queue') = Range(queue) \union {i} /\ IsInjective(queue')
  <2>1. IsInjective(queue) /\ i \notin Range(queue)
    BY <1>1 DEF Placed
  <2>2. QED BY <1>1, <1>2, <2>1, AppendList, PrependList
<1>4. MoreWorkers \in BOOLEAN
  BY DEF MoreWorkers
<1>5. /\ pc' \in [Workers -> {"none", "start", "wait", "engine"}]
      /\ \A w \in Workers : (pc'[w] = "engine") <=> (pc[w] = "engine")
      /\ num_workers' = Cardinality(Alive') /\ num_running' = Cardinality(Engines')
      /\ MoreWorkers => num_workers' > 0
      /\ ~MoreWorkers => num_workers' = num_workers
  BY <1>1, <1>4, StartStep
<1>6. num_workers' > 0
  BY <1>5, WorkQAssumption DEF MoreWorkers, TypeOK, WorkQTypeOK
<1>7. WorkersForWork'
  BY <1>5, <1>6 DEF WorkersForWork, Alive, Engines
<1>8. TypeOK'
  BY <1>1, <1>3, <1>5, CountBounds DEF TypeOK, WorkQTypeOK
<1>9. Taken' = Taken
  BY <1>1 DEF Taken
<1>10. Placed'
  BY <1>1, <1>3, <1>5, <1>9 DEF Placed
<1>11. (Closing /\ BeforeAdded /\ DestroyedAllDone)'
  BY <1>1 DEF Closing, BeforeAdded, DestroyedAllDone
<1>12. QED BY <1>7, <1>8, <1>10, <1>11

LEMMA RemovePreserves ==
    ASSUME IInv, NEW i \in Items, RemoveNow(i)
    PROVE  IInv'
<1> USE DEF IInv
<1>1. /\ valid /\ mutex_lost' = ~Contains(queue, i)
      /\ queue' = IF mutex_lost' THEN queue ELSE MovedFirst(i)
      /\ StartWorker(~mutex_lost')
      /\ UNCHANGED <<valid, quit, num_running, work, idle, we, timedout, cpc, added, done, before>>
  BY DEF RemoveNow, workq_remove
<1>2. queue \in Seq(Items) /\ IsInjective(queue)
  BY DEF TypeOK, WorkQTypeOK, Placed
<1>3. /\ queue' \in Seq(Items) /\ Range(queue') = Range(queue) /\ IsInjective(queue')
      /\ queue' # <<>> => queue # <<>>
  <2>1. CASE mutex_lost'
    BY <1>1, <1>2, <2>1
  <2>2. CASE ~mutex_lost'
    <3> DEFINE rest == RemoveFirst(queue, i)
    <3>1. rest \in Seq(Items) /\ Range(rest) = Range(queue) \ {i} /\ IsInjective(rest)
      BY <1>2, RemoveFirstList
    <3>2. i \in Range(queue) /\ queue # <<>>
      BY <1>1, <1>2, <2>2, RangeElements
    <3>3. queue' = <<i>> \o rest
      BY <1>1, <2>2 DEF MovedFirst
    <3> HIDE DEF rest
    <3>4. queue' \in Seq(Items) /\ Range(queue') = Range(rest) \union {i} /\ IsInjective(queue')
      BY <3>1, <3>3, PrependList
    <3>5. QED BY <3>1, <3>2, <3>4
  <2>3. QED BY <2>1, <2>2
<1>4. (~mutex_lost') \in BOOLEAN /\ mutex_lost' \in BOOLEAN
  BY <1>1 DEF Contains
<1>5. /\ pc' \in [Workers -> {"none", "start", "wait", "engine"}]
      /\ \A w \in Workers : (pc'[w] = "engine") <=> (pc[w] = "engine")
      /\ num_workers' = Cardinality(Alive') /\ num_running' = Cardinality(Engines')
      /\ ~mutex_lost' => num_workers' > 0
      /\ mutex_lost' => num_workers' = num_workers
  BY <1>1, <1>4, StartStep
<1>6. queue' # <<>> => num_workers' > 0
  BY <1>3, <1>5 DEF WorkersForWork
<1>7. WorkersForWork'
  BY <1>5, <1>6 DEF WorkersForWork, Alive, Engines
<1>8. TypeOK'
  BY <1>1, <1>3, <1>4, <1>5, CountBounds DEF TypeOK, WorkQTypeOK
<1>9. Taken' = Taken
  BY <1>1 DEF Taken
<1>10. Placed'
  BY <1>1, <1>3, <1>5, <1>9 DEF Placed
<1>11. (Closing /\ BeforeAdded /\ DestroyedAllDone)'
  BY <1>1 DEF Closing, BeforeAdded, DestroyedAllDone
<1>12. QED BY <1>7, <1>8, <1>10, <1>11

-----------------------------------------------------------------------------
(* A turn of workq_server: the element the worker had, if any, is done;    *)
(* the worker takes the next one, leaves or sleeps.                        *)
Turn(w) ==
    /\ pc[w] # "none"
    /\ done' = done \union ({we[w]} \ {NoItem})
    /\ \E late \in BOOLEAN :
          LET running == Cardinality(Engines \ {w})
          IN  \/ queue # <<>> /\ Take(w, late, running)
              \/ queue = <<>> /\ Leave(w) /\ num_running' = running /\ idle' \subseteq idle
              \/ queue = <<>> /\ Sleep(w) /\ num_running' = running /\ idle' \subseteq idle
    /\ UNCHANGED <<valid, quit, mutex_lost, cpc, added, before>>

LEMMA ServerTurns ==
    ASSUME IInv, NEW w \in Workers, Server(w) \/ Engine(w)
    PROVE  Turn(w)
<1> USE DEF IInv
<1> DEFINE running == Cardinality(Engines \ {w})
<1>1. CASE Server(w)
  <2>1. pc[w] \in {"start", "wait"} /\ UNCHANGED <<valid, quit, mutex_lost, cpc, added, done, before>>
    BY <1>1 DEF Server, workq_server, TimedWait, ServerUnchanged
  <2>2. we[w] = NoItem
    BY <2>1 DEF Placed
  <2>3. running = num_running
    BY <2>1, Counted DEF Engines
  <2>4. ASSUME NEW late \in BOOLEAN, Serve(w, late, num_running) PROVE Turn(w)
    <3>1. \/ queue # <<>> /\ Take(w, late, running)
          \/ queue = <<>> /\ Leave(w) /\ num_running' = running /\ idle' \subseteq idle
      BY <2>3, <2>4 DEF Serve, MayLeave, IdleAfter
    <3>2. QED BY <2>1, <2>2, <3>1 DEF Turn
  <2>5. ASSUME queue = <<>>, Sleep(w), UNCHANGED <<idle, num_running>> PROVE Turn(w)
    BY <2>1, <2>2, <2>3, <2>5 DEF Turn
  <2>6. QED BY <1>1, <2>4, <2>5 DEF Server, workq_server, TimedWait
<1>2. CASE Engine(w)
  <2>1. /\ pc[w] = "engine" /\ UNCHANGED <<valid, quit, mutex_lost, cpc, added, before>>
        /\ done' = done \union {we[w]}
    BY <1>2 DEF Engine, EngineReturns, ServerUnchanged
  <2>2. we[w] # NoItem /\ w \in Engines
    BY <2>1 DEF Placed, Engines
  <2>3. running = EngineDone(w)
    BY <2>2, Counted, CountStep DEF EngineDone
  <2>4. ASSUME NEW late \in BOOLEAN, Serve(w, late, EngineDone(w)) PROVE Turn(w)
    <3>1. \/ queue # <<>> /\ Take(w, late, running)
          \/ queue = <<>> /\ Leave(w) /\ num_running' = running /\ idle' \subseteq idle
      BY <2>3, <2>4 DEF Serve, MayLeave, IdleAfter
    <3>2. QED BY <2>1, <2>2, <3>1 DEF Turn
  <2>5. ASSUME queue = <<>>, Sleep(w), num_running' = EngineDone(w), idle' = IdleAfter(num_running')
        PROVE  Turn(w)
    BY <2>1, <2>2, <2>3, <2>5 DEF Turn, IdleAfter
  <2>6. (timedout[w] /\ queue = <<>>) \in BOOLEAN
    OBVIOUS
  <2>7. QED BY <1>2, <2>4, <2>5, <2>6 DEF Engine, EngineReturns
<1>3. QED BY <1>1, <1>2

LEMMA TurnPreserves ==
    ASSUME IInv, NEW w \in Workers, Turn(w)
    PROVE  IInv'
<1> USE DEF IInv
<1> DEFINE running == Cardinality(Engines \ {w})
<1>0. /\ pc[w] # "none" /\ done' = done \union ({we[w]} \ {NoItem})
      /\ UNCHANGED <<valid, quit, mutex_lost, cpc, added, before>>
  BY DEF Turn
<1>1. PICK late \in BOOLEAN :
        \/ queue # <<>> /\ Take(w, late, running)
        \/ queue = <<>> /\ Leave(w) /\ num_running' = running /\ idle' \subseteq idle
        \/ queue = <<>> /\ Sleep(w) /\ num_running' = running /\ idle' \subseteq idle
  BY DEF Turn
<1>2. /\ queue \in Seq(Items) /\ we \in [Workers -> Items \union {NoItem}]
      /\ timedout \in [Workers -> BOOLEAN] /\ NoItem \notin Items
      /\ IsInjective(queue)
  BY WorkQAssumption DEF TypeOK, WorkQTypeOK, Placed
<1>3. (Closing /\ BeforeAdded)'
  BY <1>0 DEF Closing, BeforeAdded
<1>4. DestroyedAllDone'
  BY <1>0 DEF DestroyedAllDone
<1>5. w \in Alive /\ IsFiniteSet(Alive) /\ IsFiniteSet(Engines)
  BY <1>0, Counted DEF Alive
<1>6. CASE queue # <<>> /\ Take(w, late, running)
  <2> DEFINE e == Head(queue)
  <2>1. /\ we' = [we EXCEPT ![w] = e] /\ queue' = Tail(queue) /\ num_running' = running + 1
        /\ timedout' = [timedout EXCEPT ![w] = late] /\ pc' = [pc EXCEPT ![w] = "engine"]
        /\ work' = work \ {w} /\ UNCHANGED <<num_workers, idle>>
    BY <1>6 DEF Take
  <2>2. /\ e \in Items /\ e \in Range(queue) /\ queue' \in Seq(Items) /\ IsInjective(queue')
        /\ Range(queue') = Range(queue) \ {e} /\ Range(queue) \subseteq Items
    BY <1>2, <1>6, <2>1, TailList, RangeElements
  <2> HIDE DEF e
  <2>3. /\ pc' \in [Workers -> {"none", "start", "wait", "engine"}]
        /\ Alive' = Alive \union {w} /\ Engines' = Engines \union {w}
    BY <2>1, PlaceStep
  <2>4. num_workers' = Cardinality(Alive') /\ num_workers > 0
    <3>1. Alive' = Alive
      BY <1>5, <2>3
    <3>2. num_workers = Cardinality(Alive)
      BY Counted
    <3>3. Cardinality(Alive) > 0
      BY <1>5, CountStep
    <3>4. QED BY <2>1, <3>1, <3>2, <3>3
  <2>5. num_running' = Cardinality(Engines')
    <3>1. Engines \union {w} = (Engines \ {w}) \union {w}
      OBVIOUS
    <3>2. IsFiniteSet(Engines \ {w}) /\ w \notin Engines \ {w}
      BY <1>5, CountStep
    <3>3. Cardinality((Engines \ {w}) \union {w}) = Cardinality(Engines \ {w}) + 1
      BY <3>2, CountStep
    <3>4. QED BY <2>1, <2>3, <3>1, <3>3
  <2>6. TypeOK'
    <3>1. done' \subseteq added'
      BY <1>0, <1>2 DEF Placed, Taken, TypeOK
    <3>2. QED BY <1>0, <1>2, <2>1, <2>2, <2>3, <2>4, <2>5, <3>1, CountBounds DEF TypeOK, WorkQTypeOK
  <2>7. WorkersForWork'
    BY <2>1, <2>4, <2>5 DEF WorkersForWork, Alive, Engines
  <2>8. \A v \in Workers : we'[v] = IF v = w THEN e ELSE we[v]
    BY <1>2, <2>1
  <2>9. \A v \in Workers : pc'[v] = IF v = w THEN "engine" ELSE pc[v]
    BY <2>1 DEF TypeOK, WorkQTypeOK
  <2>10. Taken' = (Taken \ {we[w]}) \union {e}
    BY <1>2, <2>2, <2>8 DEF Taken, Placed
  <2>11. Placed'
    <3>1. we[w] # NoItem => we[w] \in Taken
      BY <1>2 DEF Taken
    <3>2. e \notin done /\ e \notin Taken /\ NoItem \notin Range(queue)
      BY <1>2, <2>2 DEF Placed
    <3>3. added' = Range(queue') \union Taken' \union done'
      <4>1. added = Range(queue) \union Taken \union done
        BY DEF Placed
      <4>2. Range(queue) = Range(queue') \union {e}
        BY <2>2
      <4>3. Taken \union done \union {e} = Taken' \union done'
        <5>1. CASE we[w] = NoItem
          BY <1>0, <1>2, <2>10, <5>1 DEF Taken
        <5>2. CASE we[w] # NoItem
          BY <1>0, <2>10, <3>1, <5>2
        <5>3. QED BY <5>1, <5>2
      <4>4. QED BY <1>0, <4>1, <4>2, <4>3
    <3>4. \A i \in Range(queue') : i \notin done' /\ i \notin Taken'
      BY <1>0, <2>2, <2>10, <3>1 DEF Placed
    <3>5. \A i \in Taken' : i \notin done'
      BY <1>0, <2>10, <3>1, <3>2 DEF Placed
    <3>6. \A u, v \in Workers : we'[u] = we'[v] /\ we'[u] # NoItem => u = v
      BY <2>2, <2>8, <3>2 DEF Placed, Taken
    <3>7. \A v \in Workers : (pc'[v] = "engine") <=> (we'[v] # NoItem)
      BY <1>2, <2>2, <2>8, <2>9 DEF Placed
    <3>8. QED BY <2>2, <3>3, <3>4, <3>5, <3>6, <3>7 DEF Placed
  <2>12. QED BY <1>3, <1>4, <2>6, <2>7, <2>11
<1>7. ASSUME queue = <<>>, NEW p \in {"none", "wait"}, pc' = [pc EXCEPT ![w] = p],
             num_running' = running, idle' \subseteq idle, UNCHANGED queue,
             work' \subseteq work \union {w}, we' = [we EXCEPT ![w] = NoItem],
             timedout' = [timedout EXCEPT ![w] = FALSE],
             num_workers' = IF p = "none" THEN num_workers - 1 ELSE num_workers
      PROVE  IInv'
  <2>1. /\ pc' \in [Workers -> {"none", "start", "wait", "engine"}]
        /\ Alive' = IF p = "none" THEN Alive \ {w} ELSE Alive \union {w}
        /\ Engines' = Engines \ {w}
    BY <1>7, PlaceStep
  <2>2. num_workers' = Cardinality(Alive')
    <3>1. num_workers = Cardinality(Alive)
      BY Counted
    <3>2. Cardinality(Alive \ {w}) = Cardinality(Alive) - 1 /\ Alive \union {w} = Alive
      BY <1>5, CountStep
    <3>3. QED BY <1>7, <2>1, <3>1, <3>2
  <2>3. num_running' = Cardinality(Engines')
    BY <1>7, <2>1
  <2>4. TypeOK'
    <3>1. done' \subseteq added'
      BY <1>0, <1>2 DEF Placed, Taken, TypeOK
    <3>2. QED BY <1>0, <1>2, <1>7, <2>1, <2>2, <2>3, <3>1, CountBounds DEF TypeOK, WorkQTypeOK
  <2>5. WorkersForWork'
    BY <1>7, <2>2, <2>3 DEF WorkersForWork, Alive, Engines
  <2>6. \A v \in Workers : we'[v] = IF v = w THEN NoItem ELSE we[v]
    BY <1>2, <1>7
  <2>7. \A v \in Workers : pc'[v] = IF v = w THEN p ELSE pc[v]
    BY <1>7 DEF TypeOK, WorkQTypeOK
  <2>8. Taken' = Taken \ {we[w]}
    BY <1>2, <2>6 DEF Taken, Placed
  <2>9. we[w] # NoItem => we[w] \in Taken
    BY <1>2 DEF Taken
  <2>10. Placed'
    <3>1. added' = Range(queue') \union Taken' \union done'
      BY <1>0, <1>2, <1>7, <2>8, <2>9 DEF Placed, Taken
    <3>2. Range(queue') = {} /\ IsInjective(queue')
      BY <1>7, EmptyList
    <3>3. \A i \in Taken' : i \notin done'
      BY <1>0, <2>8 DEF Placed
    <3>4. \A u, v \in Workers : we'[u] = we'[v] /\ we'[u] # NoItem => u = v
      BY <2>6 DEF Placed
    <3>5. \A v \in Workers : (pc'[v] = "engine") <=> (we'[v] # NoItem)
      BY <1>7, <2>6, <2>7 DEF Placed
    <3>6. QED BY <3>1, <3>2, <3>3, <3>4, <3>5 DEF Placed
  <2>11. QED BY <1>3, <1>4, <2>4, <2>5, <2>10
<1>8. CASE queue = <<>> /\ Leave(w) /\ num_running' = running /\ idle' \subseteq idle
  BY <1>7, <1>8 DEF Leave
<1>9. CASE queue = <<>> /\ Sleep(w) /\ num_running' = running /\ idle' \subseteq idle
  BY <1>7, <1>9 DEF Sleep
<1>10. QED BY <1>1, <1>6, <1>8, <1>9

-----------------------------------------------------------------------------
(* Nothing is left when no worker is alive, or none is in an engine.       *)
LEMMA NothingLeft ==
    ASSUME IInv
    PROVE  /\ num_running = 0 /\ queue = <<>> => done = added
           /\ num_workers = 0 => done = added /\ \A w \in Workers : pc[w] = "none"
<1> USE DEF IInv
<1>1. ASSUME Engines = {}, queue = <<>> PROVE done = added
  <2>1. \A w \in Workers : we[w] = NoItem
    BY <1>1 DEF Engines, Placed
  <2>2. Taken = {} /\ Range(queue) = {}
    BY <1>1, <2>1, EmptyList, WorkQAssumption DEF Taken
  <2>3. QED BY <2>2 DEF Placed
<1>2. ASSUME num_workers = 0 PROVE Engines = {} /\ queue = <<>> /\ \A w \in Workers : pc[w] = "none"
  <2>1. Alive = {}
    BY <1>2, Counted
  <2>2. queue = <<>>
    BY <1>2 DEF WorkersForWork
  <2>3. QED BY <2>1, <2>2 DEF Alive, Engines
<1>3. QED BY <1>1, <1>2, Counted

(* The calls that block, and wake-ups without cause.                       *)
LEMMA CallersPreserve ==
    ASSUME IInv,
           \/ \E c \in Callers : WaitIdle(c) \/ Destroy(c)
           \/ \E t \in Workers \union Callers : Spurious(t)
           \/ UNCHANGED vars
    PROVE  IInv'
<1> USE DEF IInv
<1>0. ASSUME UNCHANGED <<queue, num_workers, num_running, pc, we, added, done>>
      PROVE  Placed' /\ WorkersForWork'
  BY <1>0 DEF Placed, WorkersForWork, Taken
<1>1. ASSUME NEW c \in Callers, WaitIdle(c) PROVE IInv'
  <2>1. /\ (cpc[c] = "run" /\ valid) \/ cpc[c] = "waitidle"
        /\ idle' = IF Idle THEN idle ELSE idle \union {c}
        /\ cpc' = [cpc EXCEPT ![c] = IF Idle THEN "run" ELSE "waitidle"]
        /\ before' = [before EXCEPT ![c] = IF cpc[c] = "run" THEN added ELSE @]
        /\ UNCHANGED <<valid, quit, work, queue, num_workers, num_running, mutex_lost, pc, we, timedout, added, done>>
    BY <1>1 DEF WaitIdle, workq_wait_idle, callUnchanged, workerVars
  <2>2. cpc \in [Callers -> {"run", "waitidle", "destroy", "destroyed"}] /\ before \in [Callers -> SUBSET Items]
    BY DEF TypeOK, WorkQTypeOK
  <2>3. \A d \in Callers : before'[d] \subseteq added
    BY <2>1, <2>2 DEF BeforeAdded
  <2>4. TypeOK'
    <3>1. before' \in [Callers -> SUBSET Items]
      BY <2>1, <2>2, <2>3 DEF TypeOK
    <3>2. QED BY <2>1, <2>2, <3>1 DEF TypeOK, WorkQTypeOK
  <2>5. \A d \in Callers : cpc[d] # "destroyed"
    BY <2>1, <2>2 DEF Closing, DestroyedAllDone
  <2>6. \A d \in Callers : cpc'[d] # "destroyed" /\ (cpc'[d] = "destroy" => cpc[d] = "destroy")
    BY <2>1, <2>2, <2>5
  <2>7. (DestroyedAllDone /\ Closing /\ BeforeAdded)'
    BY <2>1, <2>3, <2>6 DEF DestroyedAllDone, Closing, BeforeAdded
  <2>8. QED BY <1>0, <2>1, <2>4, <2>7
<1>2. ASSUME NEW c \in Callers, Destroy(c) PROVE IInv'
  <2>1. /\ \A d \in Callers : cpc[d] # "waitidle"
        /\ valid' = FALSE /\ quit' = (quit \/ num_workers > 0)
        /\ work' = IF Gone THEN work ELSE work \union {c}
        /\ cpc' = [cpc EXCEPT ![c] = IF Gone THEN "destroyed" ELSE "destroy"]
        /\ UNCHANGED <<idle, queue, num_workers, num_running, mutex_lost, pc, we, timedout, added, done, before>>
    BY <1>2 DEF Destroy, workq_destroy, callUnchanged, workerVars
  <2>2. cpc \in [Callers -> {"run", "waitidle", "destroy", "destroyed"}]
    BY DEF TypeOK, WorkQTypeOK
  <2>3. TypeOK'
    BY <2>1, <2>2 DEF TypeOK, WorkQTypeOK
  <2>4. DestroyedAllDone'
    BY <2>1, <2>2, NothingLeft DEF DestroyedAllDone, Gone
  <2>5. (Closing /\ BeforeAdded)'
    BY <2>1 DEF Closing, BeforeAdded
  <2>6. QED BY <1>0, <2>1, <2>3, <2>4, <2>5
<1>3. ASSUME NEW t \in Workers \union Callers, Spurious(t) PROVE IInv'
  <2>1. /\ work' = work \ {t} /\ idle' = idle \ {t}
        /\ UNCHANGED <<queue, valid, quit, num_workers, num_running, mutex_lost, pc, we, timedout, cpc, added, done, before>>
    BY <1>3 DEF Spurious, SpuriousWakeup, workerVars
  <2>2. TypeOK' /\ (Closing /\ BeforeAdded /\ DestroyedAllDone)'
    BY <2>1 DEF TypeOK, WorkQTypeOK, Closing, BeforeAdded, DestroyedAllDone
  <2>3. QED BY <1>0, <2>1, <2>2
<1>4. ASSUME UNCHANGED vars PROVE IInv'
  <2>1. TypeOK' /\ (Closing /\ BeforeAdded /\ DestroyedAllDone)'
    BY <1>4 DEF vars, wqVars, workerVars, TypeOK, WorkQTypeOK, Closing, BeforeAdded, DestroyedAllDone
  <2>2. QED BY <1>0, <1>4, <2>1 DEF vars, wqVars, workerVars
<1>5. QED BY <1>1, <1>2, <1>3, <1>4

LEMMA NextIInv == IInv /\ [Next]_vars => IInv'
<1> SUFFICES ASSUME IInv, [Next]_vars PROVE IInv'
  OBVIOUS
<1>1. ASSUME NEW i \in Items, Add(i) \/ RemoveNow(i) PROVE IInv'
  BY <1>1, AddPreserves, RemovePreserves
<1>2. ASSUME NEW w \in Workers, Server(w) \/ Engine(w) PROVE IInv'
  BY <1>2, ServerTurns, TurnPreserves
<1>3. ASSUME \/ \E c \in Callers : WaitIdle(c) \/ Destroy(c)
             \/ \E t \in Workers \union Callers : Spurious(t)
             \/ UNCHANGED vars
      PROVE  IInv'
  BY <1>3, CallersPreserve
<1>4. QED BY <1>1, <1>2, <1>3 DEF Next

(* IInv holds in every state of the work queue.                            *)
THEOREM QueueInvariant == Spec => []IInv
BY InitIInv, NextIInv, PTL DEF Spec

(* EachOnce counts the places of an element that Placed keeps apart.       *)
LEMMA PlacedOnce == IInv => EachOnce
<1> SUFFICES ASSUME IInv, NEW i \in added
             PROVE  Times(i, queue) + Cardinality({w \in Workers : we[w] = i})
                        + (IF i \in done THEN 1 ELSE 0) = 1
  BY DEF EachOnce
<1> USE DEF IInv
<1> DEFINE Q == {k \in DOMAIN queue : queue[k] = i}
           W == {w \in Workers : we[w] = i}
<1>1. i \in Items /\ i # NoItem /\ queue \in Seq(Items)
  BY WorkQAssumption DEF TypeOK, WorkQTypeOK
<1>2. i \notin Range(queue) => Q = {}
  BY DEF Range
<1>3. i \in Range(queue) => \E k : Q = {k}
  BY DEF Range, Placed, IsInjective
<1>4. i \notin Taken => W = {}
  BY <1>1 DEF Taken
<1>5. ASSUME i \in Taken PROVE \E w : W = {w}
  <2>1. PICK w \in Workers : we[w] = i
    BY <1>5 DEF Taken
  <2>2. W = {w}
    BY <1>1, <2>1 DEF Placed
  <2>3. QED BY <2>2
<1>6. \/ i \in Range(queue) /\ i \notin Taken /\ i \notin done
      \/ i \notin Range(queue) /\ i \in Taken /\ i \notin done
      \/ i \notin Range(queue) /\ i \notin Taken /\ i \in done
  BY DEF Placed
<1>7. Cardinality({}) = 0 /\ \A x : Cardinality({x}) = 1
  BY FS_EmptySet, FS_Singleton
<1>8. Times(i, queue) = Cardinality(Q)
  BY DEF Times
<1> HIDE DEF Q, W
<1>9. Cardinality(Q) + Cardinality(W) + (IF i \in done THEN 1 ELSE 0) = 1
  <2>1. CASE i \in Range(queue) /\ i \notin Taken /\ i \notin done
    <3>1. Cardinality(Q) = 1 /\ Cardinality(W) = 0
      BY <1>3, <1>4, <1>7, <2>1
    <3>2. QED BY <2>1, <3>1
  <2>2. CASE i \notin Range(queue) /\ i \in Taken /\ i \notin done
    <3>1. Cardinality(Q) = 0 /\ Cardinality(W) = 1
      BY <1>2, <1>5, <1>7, <2>2
    <3>2. QED BY <2>2, <3>1
  <2>3. CASE i \notin Range(queue) /\ i \notin Taken /\ i \in done
    <3>1. Cardinality(Q) = 0 /\ Cardinality(W) = 0
      BY <1>2, <1>4, <1>7, <2>3
    <3>2. QED BY <2>3, <3>1
  <2>4. QED BY <1>6, <2>1, <2>2, <2>3
<1>10. QED BY <1>8, <1>9 DEF W

(* An accepted element is never lost and never handled twice, for any      *)
(* number of workers, time-outs and calls of workq_remove.                 *)
THEOREM QueueEachOnce == Spec => []EachOnce
BY QueueInvariant, PlacedOnce, PTL

(* The counters are exact, and queued work always has a worker.            *)
THEOREM QueueWorkers == Spec => []WorkersForWork
<1>1. IInv => WorkersForWork
  BY DEF IInv
<1>2. QED BY <1>1, QueueInvariant, PTL

(* workq_destroy returns only when all is done and every thread has left.  *)
THEOREM QueueDestroyed == Spec => []DestroyedAllDone
<1>1. IInv => DestroyedAllDone
  BY DEF IInv
<1>2. QED BY <1>1, QueueInvariant, PTL

(* workq_wait_idle returns only after all that was accepted before it.     *)
THEOREM QueueWaitIdle == Spec => WaitIdleCovers
<1> DEFINE Covers == \A c \in Callers : cpc[c] = "waitidle" /\ cpc'[c] = "run" => before[c] \subseteq done
<1>1. ASSUME IInv, [Next]_vars PROVE [Covers]_vars
  <2> SUFFICES ASSUME NEW c \in Callers, cpc[c] = "waitidle", cpc'[c] = "run"
               PROVE  before[c] \subseteq done
    OBVIOUS
  <2>1. cpc \in [Callers -> {"run", "waitidle", "destroy", "destroyed"}]
    BY <1>1 DEF IInv, TypeOK, WorkQTypeOK
  <2>2. ASSUME ~(\E d \in Callers : WaitIdle(d)) PROVE FALSE
    <3>1. ASSUME UNCHANGED cpc PROVE FALSE
      BY <3>1
    <3>2. ASSUME NEW d \in Callers, Destroy(d) PROVE FALSE
      BY <2>1, <3>2 DEF Destroy, workq_destroy
    <3>3. ASSUME NEW i \in Items, Add(i) \/ RemoveNow(i) PROVE UNCHANGED cpc
      BY <3>3 DEF Add, RemoveNow, workq_add, workq_remove
    <3>4. ASSUME NEW w \in Workers, Server(w) \/ Engine(w) PROVE UNCHANGED cpc
      BY <3>4 DEF Server, Engine, workq_server, TimedWait, EngineReturns, ServerUnchanged
    <3>5. ASSUME NEW t \in Workers \union Callers, Spurious(t) PROVE UNCHANGED cpc
      BY <3>5 DEF Spurious, SpuriousWakeup
    <3>6. UNCHANGED vars => UNCHANGED cpc
      BY DEF vars, wqVars
    <3>7. QED BY <1>1, <2>2, <3>1, <3>2, <3>3, <3>4, <3>5, <3>6 DEF Next
  <2>3. PICK d \in Callers : WaitIdle(d)
    BY <2>2
  <2>4. d = c /\ Idle
    BY <2>1, <2>3 DEF WaitIdle, workq_wait_idle
  <2>5. done = added
    BY <1>1, <2>4, NothingLeft DEF Idle
  <2>6. QED BY <1>1, <2>5 DEF IInv, BeforeAdded
<1>2. QED BY <1>1, QueueInvariant, PTL DEF Spec, WaitIdleCovers

-----------------------------------------------------------------------------
(* The cloud transfer manager.  That a transfer is queued once rests on    *)
(* who may queue it: a job that found it CREATED, or the worker that has   *)
(* it, each with the transfer's mutex; that its uses are counted rests on  *)
(* the list's mutex and on what a reference points at.  Both, and the      *)
(* statistics, hold together: XferIInv.                                    *)

XWork == {"proceed", "funct", "transition", "addwork"}
XBusy == {"funct", "transition", "addwork"}
JobPcs == {"start", "inc", "queue", "addwork", "wait", "timedwait", "cancelwait", "release",
           "delete", "dec", "end"}

(* The types on which the proofs rest.                                     *)
XTypes ==
    /\ queue \in Seq(Items)
    /\ pc \in [Workers -> {"none", "start", "wait", "engine"}]
    /\ we \in [Workers -> Items \union {NoItem}]
    /\ epc \in [Workers -> XWork \union {"idle", "return"}]
    /\ result \in [Workers -> {"DONE", "ERROR", "QUEUED"}]
    /\ m_transfer_list \subseteq Items
    /\ m_mutex \in Threads /\ xmutex \in [Items -> Threads]
    /\ m_state \in [Items -> States \union {"none", "deleted"}]
    /\ m_use_count \in [Items -> Int]
    /\ part = [x \in Items |-> part[x]]
    /\ m_funct \in [Items -> {"upload", "download", "wait"}]
    /\ postponed \in [Items -> BOOLEAN] /\ m_cancel \in [Items -> BOOLEAN]
    /\ retries \in [Items -> 0..MaxRetries]
    /\ m_done \in [Items -> SUBSET Jobs]
    /\ stat \in [Counts -> Int] /\ stat["done"] >= 0 /\ stat["error"] >= 0
    /\ jpc \in [Jobs -> JobPcs]
    /\ ref \in [Jobs -> Items \union {NoItem}]
    /\ canceled \subseteq Jobs /\ crashed \in BOOLEAN

(* A transfer is QUEUED while it is in the work queue or with the worker   *)
(* that has just taken it, PROCESSED while a worker is busy with it.       *)
XQueued ==
    /\ IsInjective(queue)
    /\ \A w \in Workers : (pc[w] = "engine") <=> (epc[w] # "idle")
    /\ \A w \in Workers : (pc[w] = "engine") <=> (we[w] # NoItem)
    /\ \A x \in Range(queue) : m_state[x] = "QUEUED"
    /\ \A w \in Workers : epc[w] = "proceed" => m_state[we[w]] = "QUEUED" /\ we[w] \notin Range(queue)
    /\ \A w \in Workers : epc[w] \in XBusy => m_state[we[w]] = "PROCESSED"
    /\ \A w, v \in Workers : epc[w] \in XWork /\ epc[v] \in XWork /\ we[w] = we[v] => w = v
    /\ \A x \in Items : m_state[x] = "QUEUED" =>
          x \in Range(queue) \/ \E w \in Workers : epc[w] = "proceed" /\ we[w] = x
    /\ \A x \in Items : m_state[x] = "PROCESSED" =>
          \E w \in Workers : epc[w] \in XBusy /\ we[w] = x

(* Who is about to queue a transfer has its mutex.                         *)
XAdding ==
    /\ \A j \in Jobs : jpc[j] = "addwork" => xmutex[ref[j]] = j /\ m_state[ref[j]] = "CREATED"
    /\ \A w \in Workers : epc[w] = "addwork" => xmutex[we[w]] = w

Referred(x) == \E k \in Jobs : jpc[k] = "dec" /\ ref[k] = x

(* What a job refers to, and the list's mutex.                             *)
XRefs ==
    /\ \A j \in Jobs : (jpc[j] \in {"start", "end"}) <=> (ref[j] = NoItem)
    /\ \A j \in Jobs : jpc[j] \in {"inc", "dec"} => m_mutex = j
    /\ \A j \in Jobs : jpc[j] = "dec" => ref[j] \notin m_transfer_list
    /\ \A x \in m_transfer_list : m_state[x] \notin {"none", "deleted"}
    /\ \A x \in Items : m_state[x] = "none" => \A j \in Jobs : ref[j] # x
    /\ ~crashed => \A j \in Jobs :
          /\ ref[j] # NoItem => ref[j] \in m_transfer_list \/ Referred(ref[j])
          /\ jpc[j] \in {"release", "delete", "dec"} => Ended(ref[j])

XferIInv == XTypes /\ XQueued /\ XAdding /\ XRefs /\ UseCounts /\ StatsExact

-----------------------------------------------------------------------------
(* What QueuedOnce counts is one or nothing.                               *)
LEMMA XferPlacedOnce == XferIInv => QueuedOnce
<1> SUFFICES ASSUME XferIInv, NEW x \in Items
             PROVE  /\ Waits(x) = (IF m_state[x] = "QUEUED" THEN 1 ELSE 0)
                    /\ Cardinality({w \in Workers : we[w] = x /\ epc[w] \in XBusy})
                           = (IF m_state[x] = "PROCESSED" THEN 1 ELSE 0)
  BY DEF QueuedOnce, XBusy
<1> DEFINE Q == {k \in DOMAIN queue : queue[k] = x}
           P == {w \in Workers : epc[w] = "proceed" /\ we[w] = x}
           B == {w \in Workers : we[w] = x /\ epc[w] \in XBusy}
<1>0. XTypes /\ XQueued
  BY DEF XferIInv
<1>1. Cardinality({}) = 0 /\ \A y : Cardinality({y}) = 1
  BY FS_EmptySet, FS_Singleton
<1>2. x \notin Range(queue) => Q = {}
  BY DEF Range
<1>3. x \in Range(queue) => \E k : Q = {k}
  BY <1>0 DEF Range, XQueued, IsInjective
<1>4. ASSUME P # {} PROVE \E w : P = {w}
  <2>1. PICK w \in Workers : epc[w] = "proceed" /\ we[w] = x
    BY <1>4
  <2>2. P = {w}
    BY <1>0, <2>1 DEF XQueued, XWork
  <2>3. QED BY <2>2
<1>5. ASSUME B # {} PROVE \E w : B = {w}
  <2>1. PICK w \in Workers : epc[w] \in XBusy /\ we[w] = x
    BY <1>5
  <2>2. B = {w}
    BY <1>0, <2>1 DEF XQueued, XWork, XBusy
  <2>3. QED BY <2>2
<1>6. /\ x \in Range(queue) => P = {} /\ m_state[x] = "QUEUED"
      /\ P # {} => m_state[x] = "QUEUED"
      /\ m_state[x] = "QUEUED" => x \in Range(queue) \/ P # {}
  BY <1>0 DEF XQueued
<1>7. B # {} <=> m_state[x] = "PROCESSED"
  BY <1>0 DEF XQueued
<1> HIDE DEF Q, P, B
<1>8. Cardinality(Q) + Cardinality(P) = (IF m_state[x] = "QUEUED" THEN 1 ELSE 0)
  <2>1. CASE x \in Range(queue)
    <3>1. Cardinality(Q) = 1 /\ Cardinality(P) = 0 /\ m_state[x] = "QUEUED"
      BY <1>1, <1>3, <1>6, <2>1
    <3>2. QED BY <3>1
  <2>2. CASE x \notin Range(queue) /\ P # {}
    <3>1. Cardinality(Q) = 0 /\ Cardinality(P) = 1 /\ m_state[x] = "QUEUED"
      BY <1>1, <1>2, <1>4, <1>6, <2>2
    <3>2. QED BY <3>1
  <2>3. CASE x \notin Range(queue) /\ P = {}
    <3>1. Cardinality(Q) = 0 /\ Cardinality(P) = 0 /\ m_state[x] # "QUEUED"
      BY <1>1, <1>2, <1>6, <2>3
    <3>2. QED BY <3>1
  <2>4. QED BY <2>1, <2>2, <2>3
<1>9. Cardinality(B) = (IF m_state[x] = "PROCESSED" THEN 1 ELSE 0)
  BY <1>1, <1>5, <1>7
<1>10. QED BY <1>8, <1>9 DEF Waits, Q, P, B

-----------------------------------------------------------------------------
(* Jobs and transfers are finitely many.                                   *)
LEMMA ItemsFinite ==
    /\ IsFiniteSet(Items) /\ Cardinality(Items) \in Nat /\ NoItem \notin Items
    /\ IsFiniteSet(Jobs) /\ Cardinality(Jobs) \in Nat
BY CloudXferAssumption, WorkQAssumption, FS_CardinalityType

(* Only one transfer changes, and the counts follow it.                    *)
LEMMA StatsStep ==
    ASSUME StatsExact, NEW x \in Items,
           \A y \in Items \ {x} : /\ m_state'[y] = m_state[y] /\ postponed'[y] = postponed[y]
                                  /\ Adding(y)' <=> Adding(y),
           stat \in [Counts -> Int], stat' \in [Counts -> Int],
           stat'["queued"] = stat["queued"] + In(x \in InQueued') - In(x \in InQueued),
           stat'["waiting"] = stat["waiting"] + In(x \in InWaiting') - In(x \in InWaiting),
           stat'["processed"] = stat["processed"] + In(x \in InProcessed') - In(x \in InProcessed),
           stat'["done"] + stat'["error"]
               = stat["done"] + stat["error"] + In(x \in InEnded') - In(x \in InEnded)
    PROVE  StatsExact'
<1>1. /\ IsFiniteSet(InQueued) /\ IsFiniteSet(InWaiting) /\ IsFiniteSet(InProcessed)
      /\ IsFiniteSet(InEnded)
  <2>1. /\ InQueued \subseteq Items /\ InWaiting \subseteq Items /\ InProcessed \subseteq Items
        /\ InEnded \subseteq Items
    BY DEF InQueued, InWaiting, InProcessed, InEnded
  <2>2. QED BY <2>1, ItemsFinite, FS_Subset
<1>2. InQueued \ {x} = InQueued' \ {x}
  BY DEF InQueued, Queueing
<1>3. InWaiting \ {x} = InWaiting' \ {x}
  BY DEF InWaiting, Queueing
<1>4. InProcessed \ {x} = InProcessed' \ {x}
  BY DEF InProcessed
<1>5. InEnded \ {x} = InEnded' \ {x}
  BY DEF InEnded
<1>6. Cardinality(InQueued') = Cardinality(InQueued) + In(x \in InQueued') - In(x \in InQueued)
  BY <1>1, <1>2, OneMoves
<1>7. Cardinality(InWaiting') = Cardinality(InWaiting) + In(x \in InWaiting') - In(x \in InWaiting)
  BY <1>1, <1>3, OneMoves
<1>8. Cardinality(InProcessed')
          = Cardinality(InProcessed) + In(x \in InProcessed') - In(x \in InProcessed)
  BY <1>1, <1>4, OneMoves
<1>9. Cardinality(InEnded') = Cardinality(InEnded) + In(x \in InEnded') - In(x \in InEnded)
  BY <1>1, <1>5, OneMoves
<1>10. /\ stat["queued"] = Cardinality(InQueued) /\ stat["waiting"] = Cardinality(InWaiting)
       /\ stat["processed"] = Cardinality(InProcessed)
       /\ stat["done"] + stat["error"] = Cardinality(InEnded)
  BY DEF StatsExact
<1>11. /\ stat'["queued"] = Cardinality(InQueued') /\ stat'["waiting"] = Cardinality(InWaiting')
       /\ stat'["processed"] = Cardinality(InProcessed')
       /\ stat'["done"] + stat'["error"] = Cardinality(InEnded')
  BY <1>6, <1>7, <1>8, <1>9, <1>10
<1>12. QED BY <1>11 DEF StatsExact

-----------------------------------------------------------------------------
(* What a transfer's use count counts.                                     *)
Holders(x) == {j \in Jobs : ref[j] = x /\ jpc[j] \notin {"inc", "delete", "dec"}}
Listed(x) == x \in m_transfer_list \/ Referred(x)

(* One job moves, and the use counts follow it.                            *)
LEMMA UseStep ==
    ASSUME UseCounts, NEW j \in Jobs,
           \A k \in Jobs \ {j} : jpc'[k] = jpc[k] /\ ref'[k] = ref[k],
           \A x \in Items :
               /\ m_use_count[x] \in Int
               /\ m_use_count'[x] = m_use_count[x] + In(Listed(x)') - In(Listed(x))
                                     + In(j \in Holders(x)') - In(j \in Holders(x)),
           \A x, y \in m_transfer_list' : part'[x] = part'[y] => x = y,
           \A x \in m_transfer_list' : \E k \in Jobs : ref'[k] = x
    PROVE  UseCounts'
<1>1. ASSUME NEW x \in Items
      PROVE  m_use_count'[x] = In(Listed(x)') + Cardinality(Holders(x)')
  <2>1. m_use_count[x] = In(Listed(x)) + Cardinality(Holders(x))
    BY DEF UseCounts, Listed, Referred, Holders, In
  <2>2. Holders(x) \ {j} = Holders(x)' \ {j}
    BY DEF Holders
  <2>3. IsFiniteSet(Holders(x))
    <3>1. Holders(x) \subseteq Jobs
      BY DEF Holders
    <3>2. QED BY <3>1, ItemsFinite, FS_Subset
  <2>4. /\ Cardinality(Holders(x)) \in Nat /\ Cardinality(Holders(x)') \in Nat
        /\ Cardinality(Holders(x)')
              = Cardinality(Holders(x)) + In(j \in Holders(x)') - In(j \in Holders(x))
    BY <2>2, <2>3, OneMoves
  <2>5. /\ In(Listed(x)) \in Int /\ In(Listed(x)') \in Int
        /\ In(j \in Holders(x)) \in Int /\ In(j \in Holders(x)') \in Int
    BY DEF In
  <2>6. QED BY <2>1, <2>4, <2>5
<1>2. QED BY <1>1 DEF UseCounts, Listed, Referred, Holders, In

(* Nothing the use counts are about changes.                               *)
LEMMA UseFrame ==
    ASSUME UseCounts, UNCHANGED <<m_use_count, m_transfer_list, part, jpc, ref>>
    PROVE  UseCounts'
BY DEF UseCounts

(* A job moves between places that count alike.                            *)
LEMMA UseSame ==
    ASSUME XTypes, UseCounts, NEW j \in Jobs, NEW a \in JobPcs,
           jpc' = [jpc EXCEPT ![j] = a],
           a \notin {"inc", "delete", "dec"}, jpc[j] \notin {"inc", "delete", "dec"},
           UNCHANGED <<m_use_count, m_transfer_list, part, ref>>
    PROVE  UseCounts'
<1>1. jpc \in [Jobs -> JobPcs] /\ m_use_count \in [Items -> Int]
  BY DEF XTypes
<1>2. \A k \in Jobs : jpc'[k] = IF k = j THEN a ELSE jpc[k]
  BY <1>1
<1>3. \A x \in Items : Listed(x)' <=> Listed(x)
  BY <1>2 DEF Listed, Referred
<1>4. \A x \in Items : (j \in Holders(x)') <=> (j \in Holders(x))
  BY <1>2 DEF Holders
<1>5. ASSUME NEW x \in Items
      PROVE  /\ m_use_count[x] \in Int
             /\ m_use_count'[x] = m_use_count[x] + In(Listed(x)') - In(Listed(x))
                                     + In(j \in Holders(x)') - In(j \in Holders(x))
  <2>1. In(Listed(x)') = In(Listed(x)) /\ In(j \in Holders(x)') = In(j \in Holders(x))
    BY <1>3, <1>4 DEF In
  <2>2. In(Listed(x)) \in Int /\ In(j \in Holders(x)) \in Int /\ m_use_count[x] \in Int
    BY <1>1 DEF In
  <2>3. QED BY <2>1, <2>2
<1>6. /\ \A x, y \in m_transfer_list' : part'[x] = part'[y] => x = y
      /\ \A x \in m_transfer_list' : \E k \in Jobs : ref'[k] = x
  BY DEF UseCounts
<1>7. QED BY <1>2, <1>5, <1>6, UseStep

(* Nothing the statistics are about changes.                               *)
LEMMA StatsFrame ==
    ASSUME StatsExact, UNCHANGED <<stat, m_state, postponed>>,
           \A x \in Items : Adding(x)' <=> Adding(x)
    PROVE  StatsExact'
<1>1. InQueued' = InQueued /\ InWaiting' = InWaiting
  BY DEF InQueued, InWaiting, Queueing
<1>2. InProcessed' = InProcessed /\ InEnded' = InEnded
  BY DEF InProcessed, InEnded
<1>3. QED BY <1>1, <1>2 DEF StatsExact

(* A job, or a worker, that is not about to queue, before or after.        *)
LEMMA AddingSameJob ==
    ASSUME NEW j \in Jobs, jpc[j] # "addwork", jpc'[j] # "addwork",
           \A k \in Jobs \ {j} : jpc'[k] = jpc[k] /\ ref'[k] = ref[k],
           UNCHANGED <<epc, we>>
    PROVE  \A x \in Items : Adding(x)' <=> Adding(x)
BY DEF Adding

LEMMA AddingSameWorker ==
    ASSUME NEW w \in Workers, epc[w] # "addwork", epc'[w] # "addwork",
           \A v \in Workers \ {w} : epc'[v] = epc[v] /\ we'[v] = we[v],
           UNCHANGED <<jpc, ref>>
    PROVE  \A x \in Items : Adding(x)' <=> Adding(x)
BY DEF Adding

(* The work queue and the engines do not change.                           *)
LEMMA QueuedFrame ==
    ASSUME XQueued, UNCHANGED <<queue, pc, we, epc, m_state>>
    PROVE  XQueued'
BY DEF XQueued

(* The parts of the invariant.                                             *)
LEMMA XferParts ==
    ASSUME XferIInv
    PROVE  /\ XTypes /\ XQueued /\ XAdding /\ XRefs /\ UseCounts /\ StatsExact
           /\ jpc \in [Jobs -> JobPcs] /\ ref \in [Jobs -> Items \union {NoItem}]
           /\ we \in [Workers -> Items \union {NoItem}]
           /\ epc \in [Workers -> XWork \union {"idle", "return"}]
           /\ m_state \in [Items -> States \union {"none", "deleted"}]
           /\ m_use_count \in [Items -> Int] /\ stat \in [Counts -> Int]
           /\ postponed \in [Items -> BOOLEAN] /\ xmutex \in [Items -> Threads]
           /\ m_transfer_list \subseteq Items
           /\ queue \in Seq(Items) /\ Range(queue) \subseteq Items
           /\ \A k \in Jobs : jpc[k] \notin {"start", "end"} => ref[k] \in Items
           /\ \A w \in Workers : epc[w] # "idle" => we[w] \in Items
           /\ NoThread \notin Jobs /\ NoThread \notin Workers
<1>1. NoThread \notin Jobs /\ NoThread \notin Workers
  BY CloudXferAssumption
<1>2. queue \in Seq(Items) /\ Range(queue) \subseteq Items
  BY RangeElements DEF XferIInv, XTypes
<1>3. QED BY <1>1, <1>2 DEF XferIInv, XTypes, XRefs, XQueued

(* The use count of a transfer, in a sum.                                  *)
LEMMA UseCount ==
    ASSUME UseCounts, NEW x \in Items
    PROVE  m_use_count[x] = In(Listed(x)) + Cardinality(Holders(x))
BY DEF UseCounts, Listed, Referred, Holders, In

(* One count goes down and another up.                                     *)
LEMMA MovedCounts ==
    ASSUME stat \in [Counts -> Int], NEW p \in Counts, NEW q \in Counts, p # q,
           stat' = Moved(p, q)
    PROVE  /\ stat' \in [Counts -> Int]
           /\ stat'[p] = stat[p] - 1 /\ stat'[q] = stat[q] + 1
           /\ \A c \in Counts \ {p, q} : stat'[c] = stat[c]
<1> DEFINE u == [stat EXCEPT ![p] = stat[p] - 1]
<1>1. u \in [Counts -> Int] /\ u[p] = stat[p] - 1 /\ \A c \in Counts \ {p} : u[c] = stat[c]
  OBVIOUS
<1>2. stat' = [u EXCEPT ![q] = u[q] + 1]
  BY DEF Moved
<1> HIDE DEF u
<1>3. QED BY <1>1, <1>2

-----------------------------------------------------------------------------
(* The steps of a job.                                                     *)
LEMMA GetXferFinds ==
    ASSUME XferIInv, ~crashed, NEW j \in Jobs, NEW x \in m_transfer_list,
           jpc[j] = "start", ListFree, m_mutex' = j,
           ref' = [ref EXCEPT ![j] = x], JobAt(j, "inc"),
           UNCHANGED <<wqVars, m_transfer_list, xferVars, xmutex, m_done, stat, canceled, epc,
                       result, crashed>>
    PROVE  XferIInv'
<1> USE XferParts DEF JobAt, ListFree, wqVars, workerVars, xferVars
<1>0. x \in Items /\ x # NoItem /\ NoThread \notin Jobs /\ j \in Threads
  BY ItemsFinite, CloudXferAssumption DEF Threads
<1>1. /\ \A k \in Jobs : jpc'[k] = IF k = j THEN "inc" ELSE jpc[k]
      /\ \A k \in Jobs : ref'[k] = IF k = j THEN x ELSE ref[k]
  OBVIOUS
<1>2. XTypes'
  BY <1>0 DEF JobPcs, XTypes
<1>3. XQueued'
  BY QueuedFrame
<1>4. XAdding'
  BY <1>1 DEF XAdding
<1>5. \A k \in Jobs : jpc[k] \notin {"inc", "dec"}
  BY <1>0 DEF XRefs
<1>6. XRefs'
  BY <1>0, <1>1, <1>5 DEF XRefs, Referred, Ended
<1>7. UseCounts'
  <2>1. \A y \in Items : Listed(y)' <=> Listed(y)
    BY <1>1, <1>5 DEF Listed, Referred
  <2>2. \A y \in Items : j \notin Holders(y) /\ j \notin Holders(y)'
    BY <1>1, ItemsFinite DEF Holders, XRefs
  <2>3. ASSUME NEW y \in Items
        PROVE  /\ m_use_count[y] \in Int
               /\ m_use_count'[y] = m_use_count[y] + In(Listed(y)') - In(Listed(y))
                                     + In(j \in Holders(y)') - In(j \in Holders(y))
    <3>1. In(Listed(y)') = In(Listed(y)) /\ In(j \in Holders(y)') = 0 /\ In(j \in Holders(y)) = 0
      BY <2>1, <2>2 DEF In
    <3>2. In(Listed(y)) \in Int /\ m_use_count[y] \in Int /\ m_use_count'[y] = m_use_count[y]
      BY DEF In
    <3>3. QED BY <3>1, <3>2
  <2>4. /\ \A y, z \in m_transfer_list' : part'[y] = part'[z] => y = z
        /\ \A y \in m_transfer_list' : \E k \in Jobs : ref'[k] = y
    <3>1. \A y \in m_transfer_list : \E k \in Jobs : ref[k] = y
      BY DEF UseCounts
    <3>2. ref[j] = NoItem
      BY DEF XRefs
    <3>3. \A y \in m_transfer_list : \E k \in Jobs : ref'[k] = y
      BY <1>0, <1>1, <3>1, <3>2, ItemsFinite
    <3>4. \A y, z \in m_transfer_list : part[y] = part[z] => y = z
      BY DEF UseCounts
    <3>5. QED BY <3>3, <3>4
  <2>5. QED BY <1>1, <2>3, <2>4, UseStep
<1>8. StatsExact'
  <2>1. \A y \in Items : Adding(y)' <=> Adding(y)
    BY <1>1, AddingSameJob
  <2>2. QED BY <2>1, StatsFrame
<1>9. QED BY <1>2, <1>3, <1>4, <1>6, <1>7, <1>8 DEF XferIInv

(* A transfer is made: nothing refers to it yet.                           *)
LEMMA GetXferMakes ==
    ASSUME XferIInv, ~crashed, NEW j \in Jobs, NEW x \in Items, NEW f \in {"download", "upload"},
           jpc[j] = "start", ListFree, Similar(j) = {}, m_state[x] = "none",
           m_transfer_list' = m_transfer_list \union {x},
           ref' = [ref EXCEPT ![j] = x],
           m_state' = [m_state EXCEPT ![x] = "CREATED"],
           m_use_count' = [m_use_count EXCEPT ![x] = 2],
           part' = [part EXCEPT ![x] = Part[j]],
           m_funct' = [m_funct EXCEPT ![x] = f],
           JobAt(j, "queue"),
           UNCHANGED <<wqVars, m_mutex, postponed, m_cancel, retries, xmutex, m_done, stat,
                       canceled, epc, result, crashed>>
    PROVE  XferIInv'
<1> USE XferParts DEF JobAt, ListFree, wqVars, workerVars
<1>0. x # NoItem /\ NoThread \notin Jobs
  BY ItemsFinite, CloudXferAssumption
<1>1. /\ \A k \in Jobs : jpc'[k] = IF k = j THEN "queue" ELSE jpc[k]
      /\ \A k \in Jobs : ref'[k] = IF k = j THEN x ELSE ref[k]
      /\ \A y \in Items : m_state'[y] = IF y = x THEN "CREATED" ELSE m_state[y]
      /\ \A y \in Items : m_use_count'[y] = IF y = x THEN 2 ELSE m_use_count[y]
  OBVIOUS
<1>p. part' = [y \in Items |-> IF y = x THEN Part[j] ELSE part[y]]
  <2>1. part = [y \in Items |-> part[y]]
    BY DEF XTypes
  <2>2. QED BY <2>1, Zenon
<1>2. XTypes'
  <2>1. part' = [y \in Items |-> part'[y]]
    BY <1>p, Zenon
  <2>2. /\ m_state' \in [Items -> States \union {"none", "deleted"}]
        /\ m_use_count' \in [Items -> Int]
        /\ m_funct' \in [Items -> {"upload", "download", "wait"}]
        /\ jpc' \in [Jobs -> JobPcs] /\ ref' \in [Jobs -> Items \union {NoItem}]
        /\ m_transfer_list' \subseteq Items
    BY DEF XTypes, JobPcs, States
  <2>3. QED BY <2>1, <2>2 DEF XTypes
<1>3. /\ x \notin m_transfer_list /\ \A k \in Jobs : ref[k] # x
      /\ ref[j] = NoItem
      /\ x \notin Range(queue)
      /\ \A w \in Workers : epc[w] \in XWork => we[w] # x
  BY DEF XRefs, XQueued, XWork, XBusy
<1>4. XQueued'
  <2>2. \A w \in Workers : epc[w] \in XWork => we[w] \in Items
    BY DEF XQueued, XWork
  <2>3. QED BY <1>1, <1>3, <2>2 DEF XQueued, XWork, XBusy
<1>5. XAdding'
  <2>1. \A k \in Jobs : jpc[k] = "addwork" => ref[k] \in Items
    BY DEF XRefs
  <2>2. QED BY <1>1, <1>3, <2>1 DEF XAdding
<1>6. \A k \in Jobs : jpc[k] \notin {"inc", "dec"}
  BY <1>0 DEF XRefs
<1>7. XRefs'
  <2>1. \A k \in Jobs : jpc[k] \notin {"start", "end"} => ref[k] \in Items
    BY DEF XRefs
  <2>2. QED BY <1>0, <1>1, <1>3, <1>6, <2>1 DEF XRefs, Referred, Ended
<1>8. UseCounts'
  <2>1. \A y \in Items : Listed(y)' <=> Listed(y) \/ y = x
    BY <1>1, <1>3, <1>6 DEF Listed, Referred
  <2>2. ~Listed(x)
    BY <1>3 DEF Listed, Referred
  <2>3. \A y \in Items : j \notin Holders(y) /\ (j \in Holders(y)' <=> y = x)
    BY <1>1, <1>3, ItemsFinite DEF Holders
  <2>4. m_use_count[x] = 0
    <3>1. Holders(x) = {}
      BY <1>3 DEF Holders
    <3>2. m_use_count[x] = In(Listed(x)) + Cardinality(Holders(x))
      BY UseCount
    <3>3. QED BY <2>2, <3>1, <3>2, FS_EmptySet DEF In
  <2>5. ASSUME NEW y \in Items
        PROVE  /\ m_use_count[y] \in Int
               /\ m_use_count'[y] = m_use_count[y] + In(Listed(y)') - In(Listed(y))
                                     + In(j \in Holders(y)') - In(j \in Holders(y))
    BY <1>1, <2>1, <2>2, <2>3, <2>4 DEF In
  <2>6. /\ \A y, z \in m_transfer_list' : part'[y] = part'[z] => y = z
        /\ \A y \in m_transfer_list' : \E k \in Jobs : ref'[k] = y
    <3>1. \A y \in m_transfer_list : part[y] # Part[j]
      BY DEF Similar
    <3>2. \A y \in m_transfer_list : y \in Items /\ \E k \in Jobs : ref[k] = y
      BY DEF UseCounts
    <3>3. \A y \in m_transfer_list' : \E k \in Jobs : ref'[k] = y
      BY <1>1, <1>3, <3>2, ItemsFinite
    <3>4. \A y, z \in m_transfer_list : part[y] = part[z] => y = z
      BY DEF UseCounts
    <3>5. QED BY <1>1, <1>p, <1>3, <3>1, <3>2, <3>3, <3>4
  <2>7. QED BY <1>1, <2>5, <2>6, UseStep
<1>9. StatsExact'
  <2>1. \A y \in Items : Adding(y)' <=> Adding(y)
    BY <1>1, AddingSameJob
  <2>2. ~Adding(x)
    BY <1>3 DEF Adding, XWork
  <2>3. InQueued' = InQueued /\ InWaiting' = InWaiting
    BY <1>1, <2>1, <2>2 DEF InQueued, InWaiting, Queueing
  <2>4. InProcessed' = InProcessed /\ InEnded' = InEnded
    BY <1>1, <2>1, <2>2 DEF InProcessed, InEnded
  <2>5. QED BY <2>3, <2>4 DEF StatsExact
<1>10. QED BY <1>2, <1>4, <1>5, <1>7, <1>8, <1>9 DEF XferIInv

LEMMA GetXferPreserves ==
    ASSUME XferIInv, ~crashed, NEW j \in Jobs, get_xfer(j)
    PROVE  XferIInv'
<1>1. CASE \E x \in Similar(j) :
              /\ m_mutex' = j
              /\ ref' = [ref EXCEPT ![j] = x]
              /\ JobAt(j, "inc")
              /\ UNCHANGED <<m_transfer_list, xferVars>>
  <2>1. PICK x \in m_transfer_list : /\ m_mutex' = j /\ ref' = [ref EXCEPT ![j] = x]
                                     /\ JobAt(j, "inc") /\ UNCHANGED <<m_transfer_list, xferVars>>
    BY <1>1 DEF Similar
  <2>2. QED BY <2>1, GetXferFinds DEF get_xfer
<1>2. CASE ~(\E x \in Similar(j) :
              /\ m_mutex' = j
              /\ ref' = [ref EXCEPT ![j] = x]
              /\ JobAt(j, "inc")
              /\ UNCHANGED <<m_transfer_list, xferVars>>)
  <2>1. PICK x \in Items :
          /\ m_state[x] = "none"
          /\ m_transfer_list' = m_transfer_list \union {x}
          /\ ref' = [ref EXCEPT ![j] = x]
          /\ m_state' = [m_state EXCEPT ![x] = "CREATED"]
          /\ m_use_count' = [m_use_count EXCEPT ![x] = 2]
          /\ part' = [part EXCEPT ![x] = Part[j]]
          /\ m_funct' = [m_funct EXCEPT ![x] = IF Part[j] \in Download THEN "download" ELSE "upload"]
    BY <1>2 DEF get_xfer
  <2>2. /\ jpc[j] = "start" /\ ListFree /\ Similar(j) = {} /\ JobAt(j, "queue")
        /\ UNCHANGED <<wqVars, m_mutex, postponed, m_cancel, retries, xmutex, m_done, stat,
                       canceled, epc, result, crashed>>
    BY <1>2 DEF get_xfer
  <2> DEFINE f == IF Part[j] \in Download THEN "download" ELSE "upload"
  <2>3. f \in {"download", "upload"}
    OBVIOUS
  <2>4. QED BY <2>1, <2>2, <2>3, GetXferMakes
<1>3. QED BY <1>1, <1>2

LEMMA GetXferIncPreserves ==
    ASSUME XferIInv, ~crashed, NEW j \in Jobs, get_xfer_inc(j)
    PROVE  XferIInv'
<1> USE XferParts
<1> DEFINE x == ref[j]
<1>0. /\ jpc[j] = "inc" /\ m_use_count' = [m_use_count EXCEPT ![x] = @ + 1]
      /\ m_mutex' = NoThread /\ jpc' = [jpc EXCEPT ![j] = "queue"]
      /\ UNCHANGED <<wqVars, m_transfer_list, xmutex, m_state, part, m_funct, postponed, m_cancel,
                     retries, m_done, stat, ref, canceled, epc, result, crashed>>
  BY DEF get_xfer_inc, JobAt
<1>1. x \in Items
  BY <1>0
<1> HIDE DEF x
<1>2. /\ \A k \in Jobs : jpc'[k] = IF k = j THEN "queue" ELSE jpc[k]
      /\ \A y \in Items : m_use_count'[y] = IF y = x THEN m_use_count[y] + 1 ELSE m_use_count[y]
  BY <1>0, <1>1
<1>3. XTypes'
  <2>1. jpc' \in [Jobs -> JobPcs] /\ m_use_count' \in [Items -> Int] /\ m_mutex' \in Threads
    BY <1>0, <1>1 DEF JobPcs, Threads
  <2>2. QED BY <1>0, <2>1 DEF XTypes, wqVars, workerVars
<1>4. XQueued'
  BY <1>0, QueuedFrame DEF wqVars, workerVars
<1>5. XAdding'
  BY <1>0, <1>2 DEF XAdding, wqVars, workerVars
<1>6. \A k \in Jobs \ {j} : jpc[k] \notin {"inc", "dec"}
  BY <1>0 DEF XRefs
<1>7. XRefs'
  BY <1>0, <1>2, <1>6 DEF XRefs, Referred, Ended
<1>8. UseCounts'
  <2>1. \A y \in Items : Listed(y)' <=> Listed(y)
    BY <1>0, <1>2 DEF Listed, Referred
  <2>2. \A y \in Items : j \notin Holders(y) /\ (j \in Holders(y)' <=> y = x)
    BY <1>0, <1>2 DEF Holders, x
  <2>3. ASSUME NEW y \in Items
        PROVE  /\ m_use_count[y] \in Int
               /\ m_use_count'[y] = m_use_count[y] + In(Listed(y)') - In(Listed(y))
                                     + In(j \in Holders(y)') - In(j \in Holders(y))
    BY <1>2, <2>1, <2>2 DEF In
  <2>4. /\ \A y, z \in m_transfer_list' : part'[y] = part'[z] => y = z
        /\ \A y \in m_transfer_list' : \E k \in Jobs : ref'[k] = y
    BY <1>0 DEF UseCounts
  <2>5. \A k \in Jobs \ {j} : jpc'[k] = jpc[k] /\ ref'[k] = ref[k]
    BY <1>0, <1>2
  <2>6. QED BY <2>3, <2>4, <2>5, UseStep
<1>9. StatsExact'
  <2>1. \A y \in Items : Adding(y)' <=> Adding(y)
    BY <1>0, <1>2, AddingSameJob DEF wqVars, workerVars
  <2>2. QED BY <1>0, <2>1, StatsFrame
<1>10. QED BY <1>3, <1>4, <1>5, <1>7, <1>8, <1>9 DEF XferIInv

(* The statistics when one transfer enters the queue or changes its place. *)
LEMMA QueueCounts ==
    ASSUME XferIInv, NEW x \in Items, Adding(x)', ~Adding(x),
           m_state[x] \in {"CREATED", "PROCESSED"},
           \A y \in Items \ {x} : Adding(y)' <=> Adding(y),
           stat' = IF m_state[x] = "CREATED" THEN [stat EXCEPT ![QueuedCount(x)] = @ + 1]
                   ELSE Moved("processed", QueuedCount(x)),
           UNCHANGED <<m_state, postponed>>
    PROVE  StatsExact' /\ stat' \in [Counts -> Int]
           /\ stat'["done"] = stat["done"] /\ stat'["error"] = stat["error"]
<1> USE XferParts
<1> DEFINE q == QueuedCount(x)
<1>1. q \in Counts /\ q = IF postponed[x] THEN "waiting" ELSE "queued"
  BY DEF QueuedCount, Counts
<1>2. \A c \in Counts : stat[c] \in Int
  OBVIOUS
<1>3. /\ stat' \in [Counts -> Int]
      /\ stat'["done"] = stat["done"] /\ stat'["error"] = stat["error"]
      /\ stat'["queued"] = stat["queued"] + In(~postponed[x])
      /\ stat'["waiting"] = stat["waiting"] + In(postponed[x])
      /\ stat'["processed"] = stat["processed"] - In(m_state[x] = "PROCESSED")
  <2>1. CASE m_state[x] = "CREATED"
    <3>1. stat' = [stat EXCEPT ![q] = stat[q] + 1]
      BY <2>1
    <3>2. QED BY <1>1, <1>2, <2>1, <3>1 DEF Counts, In
  <2>2. CASE m_state[x] = "PROCESSED"
    <3>1. stat' = Moved("processed", q)
      BY <2>2
    <3>2. "processed" \in Counts /\ "processed" # q
      BY <1>1 DEF Counts
    <3> HIDE DEF q
    <3>3. /\ stat' \in [Counts -> Int]
          /\ stat'["processed"] = stat["processed"] - 1 /\ stat'[q] = stat[q] + 1
          /\ \A c \in Counts \ {"processed", q} : stat'[c] = stat[c]
      BY <1>1, <3>1, <3>2, MovedCounts
    <3>4. QED BY <1>1, <1>2, <2>2, <3>3 DEF Counts, In
  <2>3. QED BY <2>1, <2>2
<1>4. /\ x \notin InQueued /\ x \notin InWaiting
      /\ x \in InQueued' <=> ~postponed[x]
      /\ x \in InWaiting' <=> postponed[x]
  BY DEF InQueued, InWaiting, Queueing
<1>5. /\ x \notin InEnded /\ x \notin InEnded' /\ x \notin InProcessed'
      /\ x \in InProcessed <=> m_state[x] = "PROCESSED"
  BY DEF InProcessed, InEnded
<1>6. /\ stat'["queued"] = stat["queued"] + In(x \in InQueued') - In(x \in InQueued)
      /\ stat'["waiting"] = stat["waiting"] + In(x \in InWaiting') - In(x \in InWaiting)
  BY <1>2, <1>3, <1>4 DEF In, Counts
<1>7. /\ stat'["processed"] = stat["processed"] + In(x \in InProcessed') - In(x \in InProcessed)
      /\ stat'["done"] + stat'["error"]
           = stat["done"] + stat["error"] + In(x \in InEnded') - In(x \in InEnded)
  BY <1>2, <1>3, <1>5 DEF In, Counts
<1>8. \A y \in Items \ {x} : /\ m_state'[y] = m_state[y] /\ postponed'[y] = postponed[y]
                             /\ Adding(y)' <=> Adding(y)
  OBVIOUS
<1>9. StatsExact'
  BY <1>3, <1>6, <1>7, <1>8, StatsStep
<1>10. QED BY <1>3, <1>9

(* Nothing a reference points at changes.                                  *)
LEMMA RefsFrame ==
    ASSUME XferIInv, UNCHANGED <<m_transfer_list, m_mutex, m_state, ref, jpc, crashed>>
    PROVE  XRefs'
BY XferParts DEF XRefs, Referred, Ended

(* A thread takes the mutex of a transfer nobody is about to queue.        *)
LEMMA LockPreserves ==
    ASSUME XferIInv, NEW x \in Items, ~Adding(x), NEW t \in Threads,
           xmutex' = [xmutex EXCEPT ![x] = t],
           UNCHANGED <<wqVars, m_transfer_list, m_mutex, xferVars, m_done, stat, jpc, ref,
                       canceled, epc, result, crashed>>
    PROVE  XferIInv'
<1> USE XferParts
<1>1. XQueued'
  BY QueuedFrame DEF wqVars, workerVars, xferVars
<1>2. XAdding'
  <2>1. \A y \in Items : y # x => xmutex'[y] = xmutex[y]
    OBVIOUS
  <2>2. /\ \A k \in Jobs : jpc[k] = "addwork" => ref[k] \in Items /\ ref[k] # x
        /\ \A w \in Workers : epc[w] = "addwork" => we[w] \in Items /\ we[w] # x
    BY DEF Adding
  <2>3. QED BY <2>1, <2>2 DEF XAdding, wqVars, workerVars, xferVars
<1>3. XRefs' /\ UseCounts'
  BY RefsFrame, UseFrame DEF xferVars
<1>4. StatsExact'
  <2>1. \A y \in Items : Adding(y)' <=> Adding(y)
    BY DEF Adding, wqVars, workerVars
  <2>2. QED BY <2>1, StatsFrame DEF xferVars
<1>5. XTypes'
  <2>1. xmutex' \in [Items -> Threads]
    OBVIOUS
  <2>2. QED BY <2>1 DEF XTypes, wqVars, workerVars, xferVars
<1>6. QED BY <1>1, <1>2, <1>3, <1>4, <1>5 DEF XferIInv

LEMMA QueuePreserves ==
    ASSUME XferIInv, ~crashed, NEW j \in Jobs, transfer_queue(j)
    PROVE  XferIInv'
<1> USE XferParts
<1> DEFINE x == ref[j]
<1>0. /\ jpc[j] = "queue" /\ xmutex[x] \in {NoThread, j}
      /\ UNCHANGED <<wqVars, m_transfer_list, m_mutex, xferVars, m_done, ref, canceled, epc,
                     result, crashed>>
  BY DEF transfer_queue, Free
<1>1. x \in Items
  BY <1>0
<1>2. ~Adding(x)
  BY <1>0, <1>1, CloudXferAssumption DEF Adding, XAdding
<1>3. XQueued'
  BY <1>0, QueuedFrame DEF wqVars, workerVars, xferVars
<1>4. ASSUME NEW a \in {"addwork", "wait"}, jpc' = [jpc EXCEPT ![j] = a]
      PROVE  XRefs' /\ UseCounts' /\ jpc' \in [Jobs -> JobPcs]
  <2>1. jpc' \in [Jobs -> JobPcs] /\ \A k \in Jobs : jpc'[k] = IF k = j THEN a ELSE jpc[k]
    BY <1>4 DEF JobPcs
  <2>2. XRefs'
    BY <1>0, <2>1 DEF XRefs, Referred, Ended, xferVars
  <2>3. UseCounts'
    BY <1>0, <1>4, UseSame DEF xferVars, JobPcs
  <2>4. QED BY <2>1, <2>2, <2>3
<1>l. CASE xmutex' = [xmutex EXCEPT ![x] = j] /\ UNCHANGED <<stat, jpc>>
  BY <1>0, <1>1, <1>2, <1>l, LockPreserves DEF Threads
<1>5. CASE MayQueue(x) /\ xmutex[x] = j /\ xmutex' = xmutex /\ JobAt(j, "addwork")
           /\ stat' = [stat EXCEPT ![QueuedCount(x)] = @ + 1]
  <2>1. jpc' = [jpc EXCEPT ![j] = "addwork"] /\ m_state[x] = "CREATED"
    BY <1>5 DEF JobAt, MayQueue
  <2>2. \A k \in Jobs : jpc'[k] = IF k = j THEN "addwork" ELSE jpc[k]
    BY <2>1
  <2>3. Adding(x)' /\ \A y \in Items \ {x} : Adding(y)' <=> Adding(y)
    BY <1>0, <2>2 DEF Adding, wqVars, workerVars
  <2>4. /\ StatsExact' /\ stat' \in [Counts -> Int]
        /\ stat'["done"] = stat["done"] /\ stat'["error"] = stat["error"]
    BY <1>0, <1>1, <1>2, <1>5, <2>1, <2>3, QueueCounts DEF xferVars
  <2>5. XAdding'
    <3>1. xmutex' = xmutex /\ xmutex[x] = j
      BY <1>5
    <3>2. \A k \in Jobs : jpc[k] = "addwork" => ref[k] \in Items /\ ref[k] # x
      BY <1>0, <1>2 DEF Adding
    <3>3. \A w \in Workers : epc[w] = "addwork" => we[w] \in Items /\ we[w] # x
      <4>1. \A w \in Workers : epc[w] = "addwork" => we[w] \in Items
        BY DEF XAdding
      <4>2. QED BY <1>2, <4>1 DEF Adding
    <3>4. QED BY <1>0, <1>1, <2>1, <2>2, <3>1, <3>2, <3>3
             DEF XAdding, wqVars, workerVars, xferVars
  <2>6. XTypes'
    <3>1. xmutex' \in [Items -> Threads]
      BY <1>5
    <3>2. QED BY <1>0, <1>4, <2>1, <2>4, <3>1 DEF XTypes, wqVars, workerVars, xferVars
  <2>7. QED BY <1>3, <1>4, <2>1, <2>4, <2>5, <2>6 DEF XferIInv
<1>6. CASE JobAt(j, "wait") /\ UNCHANGED <<xmutex, stat>>
  <2>1. jpc' = [jpc EXCEPT ![j] = "wait"]
    BY <1>6 DEF JobAt
  <2>2. \A k \in Jobs : jpc'[k] = IF k = j THEN "wait" ELSE jpc[k]
    BY <2>1
  <2>3. XAdding'
    BY <1>0, <1>6, <2>2 DEF XAdding, wqVars, workerVars, xferVars
  <2>4. \A y \in Items : Adding(y)' <=> Adding(y)
    BY <1>0, <2>2, AddingSameJob DEF wqVars, workerVars
  <2>5. StatsExact'
    BY <1>0, <1>6, <2>4, StatsFrame DEF xferVars
  <2>6. XTypes'
    BY <1>0, <1>4, <1>6, <2>1 DEF XTypes, wqVars, workerVars, xferVars
  <2>7. QED BY <1>3, <1>4, <2>1, <2>3, <2>5, <2>6 DEF XferIInv
<1>7. QED BY <1>l, <1>5, <1>6 DEF transfer_queue

(* add_work: the transfer goes to the end of the work queue.               *)
LEMMA AddWorkEffect ==
    ASSUME XferIInv, NEW x \in Items, add_work(x), m_state[x] \in {"CREATED", "PROCESSED"}
    PROVE  /\ queue' \in Seq(Items) /\ Range(queue') = Range(queue) \union {x}
           /\ IsInjective(queue') /\ x \notin Range(queue)
           /\ pc' \in [Workers -> {"none", "start", "wait", "engine"}]
           /\ \A w \in Workers : (pc'[w] = "engine") <=> (pc[w] = "engine")
           /\ m_state' = [m_state EXCEPT ![x] = "QUEUED"]
           /\ xmutex' = [xmutex EXCEPT ![x] = NoThread]
           /\ UNCHANGED <<we, m_transfer_list, m_mutex, m_use_count, part, m_funct, postponed,
                          m_cancel, retries, stat, ref, canceled, result, crashed>>
<1> USE XferParts
<1>1. /\ workq_add(x, FALSE) /\ m_state' = [m_state EXCEPT ![x] = "QUEUED"]
      /\ xmutex' = [xmutex EXCEPT ![x] = NoThread]
      /\ UNCHANGED <<m_transfer_list, m_mutex, m_use_count, part, m_funct, postponed, m_cancel,
                     retries, stat, ref, canceled, result, crashed>>
  BY DEF add_work
<1>2. queue' = Append(queue, x) /\ StartWorker(MoreWorkers) /\ UNCHANGED we
  BY <1>1 DEF workq_add
<1>3. x \notin Range(queue) /\ IsInjective(queue)
  BY DEF XQueued
<1>4. /\ queue' \in Seq(Items) /\ Range(queue') = Range(queue) \union {x} /\ IsInjective(queue')
  BY <1>2, <1>3, AppendList
<1>5. pc \in [Workers -> {"none", "start", "wait", "engine"}]
  BY DEF XTypes
<1>6. /\ pc' \in [Workers -> {"none", "start", "wait", "engine"}]
      /\ \A w \in Workers : (pc'[w] = "engine") <=> (pc[w] = "engine")
  <2>1. CASE UNCHANGED pc
    BY <1>5, <2>1
  <2>2. CASE \E w \in Workers : pc[w] = "none" /\ pc' = [pc EXCEPT ![w] = "start"]
    BY <1>5, <2>2
  <2>3. QED BY <1>2, <2>1, <2>2 DEF StartWorker
<1>7. QED BY <1>1, <1>2, <1>3, <1>4, <1>6

(* The statistics counted the transfer as queued already.                  *)
LEMMA AddWorkCounts ==
    ASSUME XferIInv, NEW x \in Items, Adding(x), m_state[x] \in {"CREATED", "PROCESSED"},
           m_state' = [m_state EXCEPT ![x] = "QUEUED"], UNCHANGED <<postponed, stat>>,
           \A y \in Items \ {x} : Adding(y)' <=> Adding(y), ~Adding(x)'
    PROVE  StatsExact'
<1> USE XferParts
<1>1. \A y \in Items : m_state'[y] = IF y = x THEN "QUEUED" ELSE m_state[y]
  OBVIOUS
<1>2. InQueued' = InQueued /\ InWaiting' = InWaiting
  BY <1>1 DEF InQueued, InWaiting, Queueing
<1>3. InProcessed' = InProcessed /\ InEnded' = InEnded
  BY <1>1 DEF InProcessed, InEnded
<1>4. QED BY <1>2, <1>3 DEF StatsExact

(* The transfer leaves whoever queued it for the work queue.               *)
LEMMA AddWorkQueued ==
    ASSUME XferIInv, NEW x \in Items,
           Range(queue') = Range(queue) \union {x}, IsInjective(queue'),
           \A w \in Workers : (pc'[w] = "engine") <=> (pc[w] = "engine"),
           m_state' = [m_state EXCEPT ![x] = "QUEUED"], UNCHANGED we,
           \A w \in Workers : \/ epc'[w] = epc[w] /\ (epc[w] \in XWork => we[w] # x)
                              \/ epc[w] \in XBusy /\ we[w] = x /\ epc'[w] = "return"
    PROVE  XQueued'
<1> USE XferParts
<1>1. \A y \in Items : m_state'[y] = IF y = x THEN "QUEUED" ELSE m_state[y]
  OBVIOUS
<1>2. \A w \in Workers : epc'[w] \in XWork =>
         epc'[w] = epc[w] /\ we[w] # x /\ we[w] \in Items /\ we'[w] = we[w]
  BY DEF XWork
<1>3. \A w \in Workers : (epc'[w] # "idle") <=> (epc[w] # "idle")
  BY DEF XBusy
<1>4. /\ \A w \in Workers : (pc'[w] = "engine") <=> (epc'[w] # "idle")
      /\ \A w \in Workers : (pc'[w] = "engine") <=> (we'[w] # NoItem)
  BY <1>3 DEF XQueued
<1>5. \A y \in Range(queue') : m_state'[y] = "QUEUED"
  BY <1>1 DEF XQueued
<1>6. \A w \in Workers : epc'[w] = "proceed" =>
          m_state'[we'[w]] = "QUEUED" /\ we'[w] \notin Range(queue')
  BY <1>1, <1>2 DEF XQueued, XWork
<1>7. \A w \in Workers : epc'[w] \in XBusy => m_state'[we'[w]] = "PROCESSED"
  <2>1. XBusy \subseteq XWork
    BY DEF XBusy, XWork
  <2>2. QED BY <1>1, <1>2, <2>1 DEF XQueued
<1>8. \A w, v \in Workers :
          epc'[w] \in XWork /\ epc'[v] \in XWork /\ we'[w] = we'[v] => w = v
  BY <1>2 DEF XQueued
<1>9. ASSUME NEW y \in Items, m_state'[y] = "QUEUED"
      PROVE  y \in Range(queue') \/ \E w \in Workers : epc'[w] = "proceed" /\ we'[w] = y
  <2>1. CASE y = x
    BY <2>1
  <2>2. CASE y # x
    <3>1. y \in Range(queue) \/ \E w \in Workers : epc[w] = "proceed" /\ we[w] = y
      BY <1>1, <1>9, <2>2 DEF XQueued
    <3>2. \A w \in Workers : epc[w] = "proceed" => epc'[w] = epc[w]
      BY DEF XBusy
    <3>3. QED BY <3>1, <3>2
  <2>3. QED BY <2>1, <2>2
<1>10. ASSUME NEW y \in Items, m_state'[y] = "PROCESSED"
       PROVE  \E w \in Workers : epc'[w] \in XBusy /\ we'[w] = y
  <2>1. y # x /\ m_state[y] = "PROCESSED"
    BY <1>1, <1>10
  <2>2. PICK w \in Workers : epc[w] \in XBusy /\ we[w] = y
    BY <2>1 DEF XQueued
  <2>3. epc'[w] = epc[w]
    BY <2>1, <2>2
  <2>4. QED BY <2>2, <2>3
<1>11. QED BY <1>4, <1>5, <1>6, <1>7, <1>8, <1>9, <1>10 DEF XQueued

(* A transfer that was not Ended changes its state.                        *)
LEMMA RefsKept ==
    ASSUME XferIInv, NEW x \in Items, NEW s \in States,
           m_state[x] \notin {"none", "deleted", "DONE", "ERROR"},
           m_state' = [m_state EXCEPT ![x] = s],
           UNCHANGED <<m_transfer_list, m_mutex, ref, jpc, crashed>>
    PROVE  XRefs'
<1> USE XferParts
<1>1. \A y \in Items : m_state'[y] = IF y = x THEN s ELSE m_state[y]
  OBVIOUS
<1>2. s \notin {"none", "deleted"}
  BY DEF States
<1>3. QED BY <1>1, <1>2 DEF XRefs, Referred, Ended

LEMMA QueueAddPreserves ==
    ASSUME XferIInv, ~crashed, NEW j \in Jobs, transfer_queue_add(j)
    PROVE  XferIInv'
<1> USE XferParts
<1>p. jpc[j] = "addwork" /\ ref[j] \in Items
  BY DEF transfer_queue_add
<1>x. PICK x \in Items : x = ref[j]
  BY <1>p
<1>0. /\ jpc[j] = "addwork" /\ add_work(x) /\ jpc' = [jpc EXCEPT ![j] = "wait"]
      /\ UNCHANGED <<m_done, epc>>
  BY <1>x DEF transfer_queue_add, JobAt
<1>1. x \in Items /\ m_state[x] = "CREATED" /\ xmutex[x] = j
  BY <1>0, <1>x DEF XAdding
<1>2. /\ queue' \in Seq(Items) /\ Range(queue') = Range(queue) \union {x}
      /\ IsInjective(queue') /\ x \notin Range(queue)
      /\ pc' \in [Workers -> {"none", "start", "wait", "engine"}]
      /\ \A w \in Workers : (pc'[w] = "engine") <=> (pc[w] = "engine")
      /\ m_state' = [m_state EXCEPT ![x] = "QUEUED"]
      /\ xmutex' = [xmutex EXCEPT ![x] = NoThread]
      /\ UNCHANGED <<we, m_transfer_list, m_mutex, m_use_count, part, m_funct, postponed,
                     m_cancel, retries, stat, ref, canceled, result, crashed>>
  BY <1>0, <1>1, AddWorkEffect
<1>3. /\ \A k \in Jobs : jpc'[k] = IF k = j THEN "wait" ELSE jpc[k]
      /\ \A y \in Items : m_state'[y] = IF y = x THEN "QUEUED" ELSE m_state[y]
      /\ \A y \in Items : xmutex'[y] = IF y = x THEN NoThread ELSE xmutex[y]
  BY <1>0, <1>1, <1>2
<1>4. XTypes'
  <2>1. /\ jpc' \in [Jobs -> JobPcs] /\ m_state' \in [Items -> States \union {"none", "deleted"}]
        /\ xmutex' \in [Items -> Threads]
    BY <1>0, <1>2 DEF JobPcs, States, Threads
  <2>2. QED BY <1>0, <1>2, <2>1 DEF XTypes
<1>5. XQueued'
  <2>1. \A w \in Workers : epc[w] \in XWork => we[w] # x
    BY <1>1 DEF XQueued, XWork, XBusy
  <2>2. QED BY <1>0, <1>1, <1>2, <2>1, AddWorkQueued
<1>6. /\ \A k \in Jobs \ {j} : jpc[k] = "addwork" => ref[k] # x
      /\ \A w \in Workers : epc[w] = "addwork" => we[w] # x
  BY <1>1, CloudXferAssumption DEF XAdding
<1>7. XAdding'
  BY <1>0, <1>2, <1>3, <1>6 DEF XAdding
<1>8. XRefs'
  BY <1>0, <1>x, <1>1, <1>2, <1>3 DEF XRefs, Referred, Ended
<1>9. UseCounts'
  BY <1>0, <1>2, UseSame DEF JobPcs
<1>10. StatsExact'
  <2>1. Adding(x)
    BY <1>0, <1>x DEF Adding
  <2>2. ~Adding(x)' /\ \A y \in Items \ {x} : Adding(y)' <=> Adding(y)
    BY <1>0, <1>x, <1>2, <1>3, <1>6 DEF Adding
  <2>3. m_state[x] \in {"CREATED", "PROCESSED"} /\ UNCHANGED <<postponed, stat>>
    BY <1>1, <1>2
  <2>4. m_state' = [m_state EXCEPT ![x] = "QUEUED"]
    BY <1>2
  <2>5. QED BY <1>1, <2>1, <2>2, <2>3, <2>4, AddWorkCounts
<1>11. QED BY <1>4, <1>5, <1>7, <1>8, <1>9, <1>10 DEF XferIInv

-----------------------------------------------------------------------------
(* Waiting for the end of a transfer.                                      *)
LEMMA WaitMoves ==
    ASSUME XferIInv, NEW j \in Jobs, NEW a \in {"wait", "timedwait", "cancelwait", "release"},
           jpc[j] \in {"wait", "timedwait", "cancelwait"}, jpc' = [jpc EXCEPT ![j] = a],
           a = "release" => Ended(ref[j]),
           m_cancel' \in [Items -> BOOLEAN], m_done' \in [Items -> SUBSET Jobs],
           UNCHANGED <<wqVars, m_transfer_list, m_mutex, xmutex, m_state, m_use_count, part,
                       m_funct, postponed, retries, stat, ref, canceled, epc, result, crashed>>
    PROVE  XferIInv'
<1> USE XferParts
<1>1. jpc' \in [Jobs -> JobPcs] /\ \A k \in Jobs : jpc'[k] = IF k = j THEN a ELSE jpc[k]
  BY DEF JobPcs
<1>2. XTypes'
  BY <1>1 DEF XTypes, wqVars, workerVars
<1>3. XQueued'
  BY QueuedFrame DEF wqVars, workerVars
<1>4. XAdding'
  BY <1>1 DEF XAdding, wqVars, workerVars
<1>5. XRefs'
  BY <1>1 DEF XRefs, Referred, Ended
<1>6. UseCounts'
  BY UseSame DEF JobPcs
<1>7. \A y \in Items : Adding(y)' <=> Adding(y)
  BY <1>1, AddingSameJob DEF wqVars, workerVars
<1>8. StatsExact'
  BY <1>7, StatsFrame
<1>9. QED BY <1>2, <1>3, <1>4, <1>5, <1>6, <1>8 DEF XferIInv

LEMMA WaitPreserves ==
    ASSUME XferIInv, ~crashed, NEW j \in Jobs,
           \/ wait_end_of_transfer(j) \/ transfer_wait_woken(j) \/ transfer_timedwait_timeout(j)
    PROVE  XferIInv'
<1> USE XferParts
<1> DEFINE x == ref[j]
<1>0. /\ m_cancel \in [Items -> BOOLEAN] /\ m_done \in [Items -> SUBSET Jobs]
      /\ jpc[j] \in {"wait", "timedwait", "cancelwait"}
  BY DEF XTypes, wait_end_of_transfer, transfer_wait_woken, transfer_timedwait_timeout
<1>1. x \in Items
  BY <1>0
<1>2. CASE wait_end_of_transfer(j)
  <2> DEFINE a == IF Ended(x) THEN "release"
                  ELSE IF j \in canceled THEN "cancelwait" ELSE "timedwait"
  <2>1. /\ jpc' = [jpc EXCEPT ![j] = a]
        /\ m_cancel' = [m_cancel EXCEPT ![x] = @ \/ j \in canceled]
        /\ m_done' = [m_done EXCEPT ![x] = IF Ended(x) THEN @ ELSE @ \union {j}]
        /\ UNCHANGED <<wqVars, m_transfer_list, m_mutex, xmutex, m_state, m_use_count, part,
                       m_funct, postponed, retries, stat, ref, canceled, epc, result, crashed>>
    BY <1>2 DEF wait_end_of_transfer, JobAt
  <2>2. m_cancel' \in [Items -> BOOLEAN]
    BY <1>0, <1>1, <2>1
  <2>3. m_done' \in [Items -> SUBSET Jobs]
    BY <1>0, <1>1, <2>1
  <2>4. a \in {"wait", "timedwait", "cancelwait", "release"} /\ (a = "release" => Ended(x))
    OBVIOUS
  <2> HIDE DEF a
  <2>5. QED BY <1>0, <2>1, <2>2, <2>3, <2>4, WaitMoves
<1>3. CASE transfer_wait_woken(j)
  <2> DEFINE a == IF Ended(x) THEN "release" ELSE jpc[j]
  <2>1. /\ jpc' = IF Ended(x) THEN [jpc EXCEPT ![j] = "release"] ELSE jpc
        /\ m_done' = [m_done EXCEPT ![x] = IF Ended(x) THEN @ ELSE @ \union {j}]
        /\ UNCHANGED <<wqVars, m_transfer_list, m_mutex, xmutex, xferVars, stat, ref, canceled,
                       epc, result, crashed>>
    BY <1>3 DEF transfer_wait_woken
  <2>2. jpc' = [jpc EXCEPT ![j] = a]
    BY <2>1
  <2>3. m_done' \in [Items -> SUBSET Jobs]
    BY <1>0, <1>1, <2>1
  <2>4. a \in {"wait", "timedwait", "cancelwait", "release"} /\ (a = "release" => Ended(x))
    BY <1>0
  <2> HIDE DEF a
  <2>5. QED BY <1>0, <2>1, <2>2, <2>3, <2>4, WaitMoves DEF xferVars
<1>4. CASE transfer_timedwait_timeout(j)
  <2>1. /\ jpc' = [jpc EXCEPT ![j] = "wait"] /\ m_done' = [m_done EXCEPT ![x] = @ \ {j}]
        /\ UNCHANGED <<wqVars, m_transfer_list, m_mutex, xmutex, xferVars, stat, ref, canceled,
                       epc, result, crashed>>
    BY <1>4 DEF transfer_timedwait_timeout, JobAt
  <2>2. m_done' \in [Items -> SUBSET Jobs]
    BY <1>0, <1>1, <2>1
  <2>3. QED BY <1>0, <2>1, <2>2, WaitMoves DEF xferVars
<1>5. QED BY <1>2, <1>3, <1>4

LEMMA CancelPreserves ==
    ASSUME XferIInv, NEW j \in Jobs, CancelJob(j)
    PROVE  XferIInv'
<1> USE XferParts DEF CancelJob, wqVars, workerVars, xferVars
<1>1. XTypes'
  BY DEF XTypes
<1>2. XQueued' /\ UseCounts'
  BY QueuedFrame, UseFrame
<1>3. XAdding' /\ XRefs'
  BY DEF XAdding, XRefs, Referred, Ended
<1>4. StatsExact'
  BY StatsFrame DEF Adding
<1>5. QED BY <1>1, <1>2, <1>3, <1>4 DEF XferIInv

-----------------------------------------------------------------------------
(* The caller's reference goes.  Who is not the last leaves another job    *)
(* that refers to the transfer: the count says so.                         *)
LEMMA ReleasePreserves ==
    ASSUME XferIInv, ~crashed, NEW j \in Jobs, release(j)
    PROVE  XferIInv'
<1> USE XferParts
<1>p. jpc[j] = "release" /\ ref[j] \in Items
  BY DEF release
<1>x. PICK x \in Items : x = ref[j]
  BY <1>p
<1>0. /\ jpc[j] = "release" /\ m_use_count' = [m_use_count EXCEPT ![x] = @ - 1]
      /\ UNCHANGED <<wqVars, m_transfer_list, m_mutex, xmutex, m_state, part, m_funct, postponed,
                     m_cancel, retries, m_done, stat, canceled, epc, result, crashed>>
      /\ \/ jpc' = [jpc EXCEPT ![j] = "delete"] /\ ref' = ref
         \/ /\ m_use_count[x] - 1 # 1
            /\ jpc' = [jpc EXCEPT ![j] = "end"] /\ ref' = [ref EXCEPT ![j] = NoItem]
  BY <1>x DEF release, JobAt, JobEnds, LastUser
<1>1. /\ jpc' \in [Jobs -> JobPcs] /\ ref' \in [Jobs -> Items \union {NoItem}]
      /\ m_use_count' \in [Items -> Int]
      /\ \A k \in Jobs \ {j} : jpc'[k] = jpc[k] /\ ref'[k] = ref[k]
      /\ \/ jpc'[j] = "delete" /\ ref'[j] = x
         \/ jpc'[j] = "end" /\ ref'[j] = NoItem /\ m_use_count[x] - 1 # 1
      /\ \A y \in Items : m_use_count'[y] = IF y = x THEN m_use_count[y] - 1 ELSE m_use_count[y]
  <2>1. /\ m_use_count' \in [Items -> Int]
        /\ \A y \in Items : m_use_count'[y] = IF y = x THEN m_use_count[y] - 1 ELSE m_use_count[y]
    BY <1>0
  <2>2. CASE jpc' = [jpc EXCEPT ![j] = "delete"] /\ ref' = ref
    BY <1>x, <2>1, <2>2 DEF JobPcs
  <2>3. CASE /\ m_use_count[x] - 1 # 1
             /\ jpc' = [jpc EXCEPT ![j] = "end"] /\ ref' = [ref EXCEPT ![j] = NoItem]
    BY <2>1, <2>3 DEF JobPcs
  <2>4. QED BY <1>0, <2>2, <2>3
<1>2. XTypes'
  BY <1>0, <1>1 DEF XTypes, wqVars, workerVars
<1>3. XQueued'
  BY <1>0, QueuedFrame DEF wqVars, workerVars
<1>4. XAdding'
  BY <1>0, <1>1 DEF XAdding, wqVars, workerVars
<1>5. \A y \in Items : Referred(y)' <=> Referred(y)
  BY <1>0, <1>1 DEF Referred
<1>6. XRefs'
  <2>1. /\ \A k \in Jobs : (jpc'[k] \in {"start", "end"}) <=> (ref'[k] = NoItem)
        /\ \A k \in Jobs : jpc'[k] \in {"inc", "dec"} => m_mutex' = k
        /\ \A k \in Jobs : jpc'[k] = "dec" => ref'[k] \notin m_transfer_list'
    BY <1>0, <1>1, ItemsFinite DEF XRefs
  <2>2. \A y \in Items : m_state'[y] = "none" => \A k \in Jobs : ref'[k] # y
    BY <1>0, <1>1, ItemsFinite DEF XRefs
  <2>3. \A k \in Jobs : ref'[k] # NoItem => ref'[k] \in m_transfer_list' \/ Referred(ref[k])'
    <3>1. \A k \in Jobs : ref'[k] # NoItem => ref'[k] = ref[k] /\ ref[k] # NoItem
      BY <1>1, <1>x, ItemsFinite
    <3>2. \A k \in Jobs : ref[k] # NoItem => ref[k] \in Items /\ (ref[k] \in m_transfer_list \/ Referred(ref[k]))
      BY DEF XRefs
    <3>3. ASSUME NEW k \in Jobs, ref'[k] # NoItem
          PROVE  ref'[k] \in m_transfer_list' \/ Referred(ref[k])'
      <4>1. PICK y \in Items : y = ref[k]
        BY <3>1, <3>2, <3>3
      <4>2. y \in m_transfer_list \/ Referred(y)
        BY <3>1, <3>2, <3>3, <4>1
      <4>3. y = ref'[k]
        BY <3>1, <3>3, <4>1
      <4>4. QED BY <1>0, <1>1, <4>1, <4>2, <4>3 DEF Referred
    <3>4. QED BY <3>3
  <2>4. \A k \in Jobs : jpc'[k] \in {"release", "delete", "dec"} => Ended(ref[k])'
    BY <1>0, <1>1, <1>x DEF XRefs, Ended
  <2>5. QED BY <1>0, <2>1, <2>2, <2>3, <2>4 DEF XRefs, Ended, Referred
<1>7. UseCounts'
  <2>1. \A y \in Items : Listed(y)' <=> Listed(y)
    BY <1>0, <1>5 DEF Listed
  <2>2. \A y \in Items : j \notin Holders(y)' /\ (j \in Holders(y) <=> y = x)
    BY <1>0, <1>1, <1>x, ItemsFinite DEF Holders
  <2>3. ASSUME NEW y \in Items
        PROVE  /\ m_use_count[y] \in Int
               /\ m_use_count'[y] = m_use_count[y] + In(Listed(y)') - In(Listed(y))
                                     + In(j \in Holders(y)') - In(j \in Holders(y))
    BY <1>1, <2>1, <2>2 DEF In
  <2>4. ASSUME NEW y \in m_transfer_list PROVE \E k \in Jobs : ref'[k] = y
    <3>1. CASE y # x
      BY <1>1, <1>x, <3>1 DEF UseCounts
    <3>2. CASE y = x /\ ref'[j] = x
      BY <3>2
    <3>3. CASE y = x /\ m_use_count[x] - 1 # 1
      <4>1. m_use_count[x] = In(Listed(x)) + Cardinality(Holders(x)) /\ Listed(x)
        BY <3>3, UseCount DEF Listed
      <4>2. j \in Holders(x) /\ Holders(x) # {j}
        <5>1. In(Listed(x)) = 1 /\ Cardinality({j}) = 1
          BY <4>1, FS_Singleton DEF In
        <5>2. ASSUME Holders(x) = {j} PROVE FALSE
          <6>1. Cardinality(Holders(x)) = 1
            BY <5>1, <5>2
          <6>2. m_use_count[x] = 1 + 1
            BY <4>1, <5>1, <6>1
          <6>3. QED BY <3>3, <6>2
        <5>3. QED BY <2>2, <5>2
      <4>3. PICK k \in Holders(x) : k # j
        BY <4>2
      <4>4. k \in Jobs /\ ref[k] = x
        BY DEF Holders
      <4>5. QED BY <1>1, <3>3, <4>3, <4>4
    <3>4. QED BY <1>1, <3>1, <3>2, <3>3
  <2>5. /\ \A y, z \in m_transfer_list' : part'[y] = part'[z] => y = z
        /\ \A y \in m_transfer_list' : \E k \in Jobs : ref'[k] = y
    BY <1>0, <2>4 DEF UseCounts
  <2>6. QED BY <1>1, <2>3, <2>5, UseStep
<1>8. StatsExact'
  <2>1. \A y \in Items : Adding(y)' <=> Adding(y)
    BY <1>0, <1>1, AddingSameJob DEF wqVars, workerVars
  <2>2. QED BY <1>0, <2>1, StatsFrame
<1>9. QED BY <1>2, <1>3, <1>4, <1>6, <1>7, <1>8 DEF XferIInv

(* The transfer leaves the list; the list's reference is now the deleter's.*)
LEMMA XferRemovePreserves ==
    ASSUME XferIInv, ~crashed, NEW j \in Jobs, release_remove(j)
    PROVE  XferIInv'
<1> USE XferParts
<1>p. jpc[j] = "delete" /\ ref[j] \in Items /\ m_mutex = NoThread
  BY DEF release_remove, ListFree
<1>x. PICK x \in Items : x = ref[j]
  BY <1>p
<1>0. /\ m_mutex' = j /\ m_transfer_list' = m_transfer_list \ {x}
      /\ jpc' = [jpc EXCEPT ![j] = "dec"]
      /\ UNCHANGED <<wqVars, xmutex, xferVars, m_done, stat, ref, canceled, epc, result, crashed>>
  BY <1>x DEF release_remove, JobAt
<1>1. jpc' \in [Jobs -> JobPcs] /\ \A k \in Jobs : jpc'[k] = IF k = j THEN "dec" ELSE jpc[k]
  BY <1>0 DEF JobPcs
<1>2. XTypes'
  <2>1. m_mutex' \in Threads /\ m_transfer_list' \subseteq Items
    BY <1>0 DEF Threads
  <2>2. QED BY <1>0, <1>1, <2>1 DEF XTypes, wqVars, workerVars, xferVars
<1>3. XQueued'
  BY <1>0, QueuedFrame DEF wqVars, workerVars, xferVars
<1>4. XAdding'
  BY <1>0, <1>1, <1>p DEF XAdding, wqVars, workerVars, xferVars
<1>5. (\A k \in Jobs : jpc[k] \notin {"inc", "dec"}) /\ x \in m_transfer_list
  <2>1. \A k \in Jobs : jpc[k] \notin {"inc", "dec"}
    BY <1>p DEF XRefs
  <2>2. QED BY <1>x, <2>1, ItemsFinite DEF XRefs, Referred
<1>6. \A y \in Items : Referred(y)' <=> y = x
  BY <1>0, <1>1, <1>5, <1>x DEF Referred
<1>7. XRefs'
  <2>1. \A k \in Jobs : ref[k] # NoItem => ref[k] \in m_transfer_list
    BY <1>5 DEF XRefs, Referred
  <2>2. \A k \in Jobs : ref'[k] # NoItem => ref'[k] \in m_transfer_list' \/ Referred(ref[k])'
    BY <1>0, <1>1, <1>x, <2>1 DEF Referred
  <2>3. \A k \in Jobs : jpc'[k] \in {"release", "delete", "dec"} => Ended(ref[k])'
    BY <1>0, <1>1, <1>p DEF XRefs, Ended, xferVars
  <2>4. QED BY <1>0, <1>1, <1>5, <1>x, <1>p, <2>2, <2>3 DEF XRefs, Referred, Ended, xferVars
<1>8. UseCounts'
  <2>1. \A y \in Items : Listed(y)' <=> Listed(y)
    BY <1>0, <1>5, <1>6 DEF Listed, Referred
  <2>2. \A y \in Items : j \notin Holders(y)' /\ j \notin Holders(y)
    BY <1>1, <1>p DEF Holders
  <2>3. ASSUME NEW y \in Items
        PROVE  /\ m_use_count[y] \in Int
               /\ m_use_count'[y] = m_use_count[y] + In(Listed(y)') - In(Listed(y))
                                     + In(j \in Holders(y)') - In(j \in Holders(y))
    <3>1. m_use_count'[y] = m_use_count[y] /\ m_use_count[y] \in Int
      BY <1>0 DEF xferVars
    <3>2. QED BY <2>1, <2>2, <3>1 DEF In
  <2>4. /\ \A y, z \in m_transfer_list' : part'[y] = part'[z] => y = z
        /\ \A y \in m_transfer_list' : \E k \in Jobs : ref'[k] = y
    BY <1>0 DEF UseCounts, xferVars
  <2>5. \A k \in Jobs \ {j} : jpc'[k] = jpc[k] /\ ref'[k] = ref[k]
    BY <1>0, <1>1
  <2>6. QED BY <2>3, <2>4, <2>5, UseStep
<1>9. StatsExact'
  <2>1. \A y \in Items : Adding(y)' <=> Adding(y)
    BY <1>0, <1>1, <1>p, AddingSameJob DEF wqVars, workerVars
  <2>2. QED BY <1>0, <2>1, StatsFrame DEF xferVars
<1>10. QED BY <1>2, <1>3, <1>4, <1>7, <1>8, <1>9 DEF XferIInv

(* The transfer is deleted.  Unless a job still refers to it, which stops  *)
(* the daemon, every other reference is to a transfer in the list.         *)
LEMMA DeletePreserves ==
    ASSUME XferIInv, ~crashed, NEW j \in Jobs, release_delete(j)
    PROVE  XferIInv'
<1> USE XferParts
<1>p. jpc[j] = "dec" /\ ref[j] \in Items /\ m_mutex = j
  BY DEF release_delete, XRefs
<1>x. PICK x \in Items : x = ref[j]
  BY <1>p
<1>0. /\ m_use_count' = [m_use_count EXCEPT ![x] = @ - 1]
      /\ m_state' = [m_state EXCEPT ![x] = "deleted"]
      /\ m_cancel' = [m_cancel EXCEPT ![x] = FALSE]
      /\ retries' = [retries EXCEPT ![x] = 0]
      /\ m_funct' = [m_funct EXCEPT ![x] = "upload"]
      /\ crashed' = (\E k \in Jobs \ {j} : ref[k] = x)
      /\ m_mutex' = NoThread
      /\ jpc' = [jpc EXCEPT ![j] = "end"] /\ ref' = [ref EXCEPT ![j] = NoItem]
      /\ UNCHANGED <<wqVars, m_transfer_list, xmutex, part, postponed, m_done, stat, canceled,
                     epc, result>>
  BY <1>x DEF release_delete, JobEnds, JobAt
<1>1. /\ jpc' \in [Jobs -> JobPcs] /\ ref' \in [Jobs -> Items \union {NoItem}]
      /\ m_use_count' \in [Items -> Int] /\ m_state' \in [Items -> States \union {"none", "deleted"}]
      /\ \A k \in Jobs : jpc'[k] = IF k = j THEN "end" ELSE jpc[k]
      /\ \A k \in Jobs : ref'[k] = IF k = j THEN NoItem ELSE ref[k]
      /\ \A y \in Items : m_state'[y] = IF y = x THEN "deleted" ELSE m_state[y]
      /\ \A y \in Items : m_use_count'[y] = IF y = x THEN m_use_count[y] - 1 ELSE m_use_count[y]
  BY <1>0 DEF JobPcs
<1>2. XTypes'
  <2>1. /\ m_cancel \in [Items -> BOOLEAN] /\ retries \in [Items -> 0..MaxRetries]
        /\ m_funct \in [Items -> {"upload", "download", "wait"}]
    BY DEF XTypes
  <2>2. m_cancel' \in [Items -> BOOLEAN] /\ m_funct' \in [Items -> {"upload", "download", "wait"}]
    BY <1>0, <2>1
  <2>3. retries' \in [Items -> 0..MaxRetries]
    BY <1>0, <2>1, CloudXferAssumption
  <2>4. m_mutex' \in Threads /\ crashed' \in BOOLEAN
    BY <1>0 DEF Threads
  <2>5. QED BY <1>0, <1>1, <2>2, <2>3, <2>4 DEF XTypes, wqVars, workerVars
<1>3. /\ m_state[x] \in {"DONE", "ERROR"} /\ x \notin m_transfer_list
      /\ x \notin Range(queue) /\ \A w \in Workers : epc[w] \in XWork => we[w] # x
      /\ \A k \in Jobs : jpc[k] = "addwork" => ref[k] # x
  <2>1. m_state[x] \in {"DONE", "ERROR"} /\ x \notin m_transfer_list
    BY <1>p, <1>x DEF XRefs, Ended
  <2>2. QED BY <2>1 DEF XQueued, XWork, XBusy, XAdding
<1>4. XQueued'
  <2>1. \A w \in Workers : epc[w] \in XWork => we[w] \in Items
    BY DEF XWork
  <2>2. QED BY <1>0, <1>1, <1>3, <2>1 DEF XQueued, XWork, XBusy, wqVars, workerVars
<1>5. XAdding'
  BY <1>0, <1>1, <1>3 DEF XAdding, wqVars, workerVars
<1>6. \A k \in Jobs \ {j} : jpc[k] \notin {"inc", "dec"}
  BY <1>p DEF XRefs
<1>7. \A y \in Items : ~Referred(y)' /\ (Referred(y) <=> y = x)
  BY <1>1, <1>6, <1>p, <1>x DEF Referred
<1>8. XRefs'
  <2>1. /\ \A k \in Jobs : (jpc'[k] \in {"start", "end"}) <=> (ref'[k] = NoItem)
        /\ \A k \in Jobs : jpc'[k] \in {"inc", "dec"} => m_mutex' = k
        /\ \A k \in Jobs : jpc'[k] = "dec" => ref'[k] \notin m_transfer_list'
    BY <1>0, <1>1, <1>6 DEF XRefs
  <2>2. /\ \A y \in m_transfer_list' : m_state'[y] \notin {"none", "deleted"}
        /\ \A y \in Items : m_state'[y] = "none" => \A k \in Jobs : ref'[k] # y
    BY <1>0, <1>1, <1>3, ItemsFinite DEF XRefs
  <2>3. ASSUME ~crashed', NEW k \in Jobs
        PROVE  /\ ref'[k] # NoItem => ref'[k] \in m_transfer_list'
               /\ jpc'[k] \in {"release", "delete", "dec"} => m_state'[ref'[k]] \in {"DONE", "ERROR"}
    <3>1. CASE k = j
      BY <1>1, <3>1
    <3>2. CASE k # j
      <4>1. ref'[k] = ref[k] /\ jpc'[k] = jpc[k] /\ ref[k] # x
        BY <1>0, <1>1, <2>3, <3>2
      <4>2. ref[k] # NoItem => ref[k] \in Items /\ (ref[k] \in m_transfer_list \/ Referred(ref[k]))
        BY DEF XRefs
      <4>3. ref[k] # NoItem => ref[k] \in m_transfer_list
        BY <1>7, <4>1, <4>2
      <4>4. jpc[k] \in {"release", "delete", "dec"} => m_state[ref[k]] \in {"DONE", "ERROR"}
        BY DEF XRefs, Ended
      <4>5. QED BY <1>0, <1>1, <4>1, <4>3, <4>4
    <3>3. QED BY <3>1, <3>2
  <2>4. QED BY <2>1, <2>2, <2>3 DEF XRefs, Ended
<1>9. UseCounts'
  <2>1. \A y \in Items : (Listed(y) <=> Listed(y)' \/ y = x) /\ ~Listed(x)'
    BY <1>0, <1>3, <1>7 DEF Listed
  <2>2. \A y \in Items : j \notin Holders(y)' /\ j \notin Holders(y)
    BY <1>1, <1>p, ItemsFinite DEF Holders
  <2>3. ASSUME NEW y \in Items
        PROVE  /\ m_use_count[y] \in Int
               /\ m_use_count'[y] = m_use_count[y] + In(Listed(y)') - In(Listed(y))
                                     + In(j \in Holders(y)') - In(j \in Holders(y))
    BY <1>1, <2>1, <2>2 DEF In
  <2>4. /\ \A y, z \in m_transfer_list' : part'[y] = part'[z] => y = z
        /\ \A y \in m_transfer_list' : \E k \in Jobs : ref'[k] = y
    <3>1. \A y \in m_transfer_list : \E k \in Jobs \ {j} : ref[k] = y
      BY <1>3, <1>x DEF UseCounts
    <3>2. QED BY <1>0, <1>1, <3>1 DEF UseCounts
  <2>5. \A k \in Jobs \ {j} : jpc'[k] = jpc[k] /\ ref'[k] = ref[k]
    BY <1>1
  <2>6. QED BY <2>3, <2>4, <2>5, UseStep
<1>10. StatsExact'
  <2>1. \A y \in Items : Adding(y)' <=> Adding(y)
    <3>1. \A k \in Jobs \ {j} : jpc'[k] = jpc[k] /\ ref'[k] = ref[k]
      BY <1>1
    <3>2. jpc[j] # "addwork" /\ jpc'[j] # "addwork" /\ UNCHANGED <<epc, we>>
      BY <1>0, <1>1, <1>p DEF wqVars, workerVars
    <3>3. QED BY <3>1, <3>2, AddingSameJob
  <2>2. ~Adding(x)
    BY <1>3 DEF Adding, XWork
  <2>3. InQueued' = InQueued /\ InWaiting' = InWaiting
    BY <1>0, <1>1, <1>3, <2>1, <2>2 DEF InQueued, InWaiting, Queueing
  <2>4. InProcessed' = InProcessed /\ InEnded' = InEnded
    BY <1>1, <1>3, <2>1, <2>2 DEF InProcessed, InEnded
  <2>5. QED BY <1>0, <2>3, <2>4 DEF StatsExact
<1>11. QED BY <1>2, <1>4, <1>5, <1>8, <1>9, <1>10 DEF XferIInv

-----------------------------------------------------------------------------
(* The steps of a worker.                                                  *)

(* What a worker has in hand and has not begun to queue, nobody queues.    *)
LEMMA NotAdding ==
    ASSUME XferIInv, NEW w \in Workers, epc[w] \in {"proceed", "funct", "transition"}
    PROVE  we[w] \in Items /\ ~Adding(we[w])
<1> USE XferParts
<1>1. we[w] \in Items /\ m_state[we[w]] # "CREATED"
  BY DEF XQueued, XBusy
<1>2. \A j \in Jobs : jpc[j] = "addwork" => ref[j] # we[w]
  BY <1>1 DEF XAdding
<1>3. \A v \in Workers : epc[v] = "addwork" => we[v] # we[w]
  BY DEF XQueued, XWork
<1>4. QED BY <1>1, <1>2, <1>3 DEF Adding

(* The turn of a worker: it takes the head of the queue, leaves or sleeps. *)
LEMMA WorkerTurn ==
    ASSUME XferIInv, NEW w \in Workers, Serves(w) \/ EngineEnd(w)
    PROVE  /\ epc[w] \in {"idle", "return"} /\ engineUnchanged
           /\ \/ /\ queue # <<>> /\ we' = [we EXCEPT ![w] = Head(queue)] /\ queue' = Tail(queue)
                 /\ pc' = [pc EXCEPT ![w] = "engine"] /\ epc' = [epc EXCEPT ![w] = "proceed"]
              \/ /\ we' = [we EXCEPT ![w] = NoItem] /\ queue' = queue
                 /\ \E a \in {"none", "wait"} : pc' = [pc EXCEPT ![w] = a]
                 /\ epc' = [epc EXCEPT ![w] = "idle"]
<1> USE XferParts
<1>1. /\ engineUnchanged /\ epc' = [epc EXCEPT ![w] = IF pc'[w] = "engine" THEN "proceed" ELSE "idle"]
      /\ epc[w] \in {"idle", "return"}
  <2>1. CASE Serves(w)
    <3>1. pc[w] # "engine"
      BY <2>1 DEF Serves, workq_server, TimedWait
    <3>2. QED BY <2>1, <3>1 DEF Serves, Launch, EngineAt, XQueued
  <2>2. CASE EngineEnd(w)
    BY <2>2 DEF EngineEnd, Launch, EngineAt
  <2>3. QED BY <2>1, <2>2
<1>2. \/ /\ queue # <<>> /\ we' = [we EXCEPT ![w] = Head(queue)] /\ queue' = Tail(queue)
         /\ pc' = [pc EXCEPT ![w] = "engine"]
      \/ /\ we' = [we EXCEPT ![w] = NoItem] /\ queue' = queue
         /\ \E a \in {"none", "wait"} : pc' = [pc EXCEPT ![w] = a]
  <2>1. ASSUME NEW late, NEW n, Serve(w, late, n)
        PROVE  \/ /\ queue # <<>> /\ we' = [we EXCEPT ![w] = Head(queue)] /\ queue' = Tail(queue)
                  /\ pc' = [pc EXCEPT ![w] = "engine"]
               \/ /\ we' = [we EXCEPT ![w] = NoItem] /\ queue' = queue
                  /\ \E a \in {"none", "wait"} : pc' = [pc EXCEPT ![w] = a]
    BY <2>1 DEF Serve, Take, Leave
  <2>2. (\E late, n : Serve(w, late, n)) \/ Sleep(w)
    BY DEF Serves, EngineEnd, workq_server, TimedWait, EngineReturns
  <2>3. QED BY <2>1, <2>2 DEF Sleep
<1>3. pc \in [Workers -> {"none", "start", "wait", "engine"}]
  BY DEF XTypes
<1>4. QED BY <1>1, <1>2, <1>3

LEMMA XferTurnPreserves ==
    ASSUME XferIInv, NEW w \in Workers, Serves(w) \/ EngineEnd(w)
    PROVE  XferIInv'
<1> USE XferParts
<1>1. /\ epc[w] \in {"idle", "return"} /\ engineUnchanged
      /\ pc \in [Workers -> {"none", "start", "wait", "engine"}]
  BY WorkerTurn DEF XTypes
<1>q. /\ \A v \in Workers : (pc[v] = "engine") <=> (epc[v] # "idle")
      /\ \A v \in Workers : (pc[v] = "engine") <=> (we[v] # NoItem)
      /\ \A y \in Range(queue) : m_state[y] = "QUEUED"
  BY DEF XQueued
<1>2. XRefs' /\ UseCounts'
  BY <1>1, RefsFrame, UseFrame DEF engineUnchanged, xferVars
<1>3. ASSUME NEW a \in {"proceed", "idle"}, epc' = [epc EXCEPT ![w] = a],
             \A v \in Workers \ {w} : we'[v] = we[v],
             XQueued', queue' \in Seq(Items), we' \in [Workers -> Items \union {NoItem}],
             pc' \in [Workers -> {"none", "start", "wait", "engine"}]
      PROVE  XferIInv'
  <2>1. /\ epc' \in [Workers -> XWork \union {"idle", "return"}]
        /\ \A v \in Workers : epc'[v] = IF v = w THEN a ELSE epc[v]
    BY <1>3 DEF XWork
  <2>2. XTypes'
    BY <1>1, <1>3, <2>1 DEF XTypes, engineUnchanged, xferVars
  <2>3. XAdding'
    BY <1>1, <1>3, <2>1 DEF XAdding, engineUnchanged, xferVars
  <2>4. \A y \in Items : Adding(y)' <=> Adding(y)
    <3>1. epc[w] # "addwork" /\ epc'[w] # "addwork" /\ UNCHANGED <<jpc, ref>>
      BY <1>1, <2>1 DEF engineUnchanged
    <3>2. \A v \in Workers \ {w} : epc'[v] = epc[v] /\ we'[v] = we[v]
      BY <1>3, <2>1
    <3>3. QED BY <3>1, <3>2, AddingSameWorker
  <2>5. StatsExact'
    BY <1>1, <2>4, StatsFrame DEF engineUnchanged, xferVars
  <2>6. QED BY <1>2, <1>3, <2>2, <2>3, <2>5 DEF XferIInv
<1>4. CASE /\ queue # <<>> /\ we' = [we EXCEPT ![w] = Head(queue)] /\ queue' = Tail(queue)
           /\ pc' = [pc EXCEPT ![w] = "engine"] /\ epc' = [epc EXCEPT ![w] = "proceed"]
  <2>1. PICK h \in Items : h = Head(queue)
    BY <1>4, TailList
  <2>2. /\ h \in Range(queue) /\ queue' \in Seq(Items) /\ IsInjective(queue')
        /\ Range(queue') = Range(queue) \ {h}
    <3>1. IsInjective(queue)
      BY DEF XQueued
    <3>2. QED BY <1>4, <2>1, <3>1, TailList
  <2>3. /\ m_state[h] = "QUEUED" /\ \A v \in Workers : epc[v] \in XWork => we[v] # h
    BY <2>2 DEF XQueued, XWork, XBusy
  <2>4. /\ we' \in [Workers -> Items \union {NoItem}]
        /\ pc' \in [Workers -> {"none", "start", "wait", "engine"}]
        /\ \A v \in Workers : we'[v] = IF v = w THEN h ELSE we[v]
        /\ \A v \in Workers : pc'[v] = IF v = w THEN "engine" ELSE pc[v]
        /\ \A v \in Workers : epc'[v] = IF v = w THEN "proceed" ELSE epc[v]
    BY <1>1, <1>4, <2>1
  <2>5. m_state' = m_state /\ h # NoItem /\ epc[w] \notin XWork
    BY <1>1, ItemsFinite DEF engineUnchanged, xferVars, XWork
  <2>6. XQueued'
    <3>1. /\ \A v \in Workers : (pc'[v] = "engine") <=> (epc'[v] # "idle")
          /\ \A v \in Workers : (pc'[v] = "engine") <=> (we'[v] # NoItem)
          /\ \A y \in Range(queue') : m_state'[y] = "QUEUED"
      <4>1. \A y \in Range(queue') : m_state'[y] = "QUEUED"
        BY <1>q, <2>2, <2>5
      <4>2. QED BY <1>q, <2>4, <2>5, <4>1
    <3>2. \A v \in Workers : epc'[v] = "proceed" =>
             m_state'[we'[v]] = "QUEUED" /\ we'[v] \notin Range(queue')
      BY <2>2, <2>3, <2>4, <2>5 DEF XQueued
    <3>3. \A v \in Workers : epc'[v] \in XBusy => m_state'[we'[v]] = "PROCESSED"
      BY <2>4, <2>5 DEF XQueued, XBusy
    <3>4. \A u, v \in Workers :
             epc'[u] \in XWork /\ epc'[v] \in XWork /\ we'[u] = we'[v] => u = v
      BY <2>3, <2>4 DEF XQueued
    <3>5. \A y \in Items : m_state'[y] = "QUEUED" =>
             y \in Range(queue') \/ \E v \in Workers : epc'[v] = "proceed" /\ we'[v] = y
      <4>1. ASSUME NEW y \in Items, m_state[y] = "QUEUED", y # h, y \notin Range(queue)
            PROVE  \E v \in Workers : epc'[v] = "proceed" /\ we'[v] = y
        <5>1. PICK v \in Workers : epc[v] = "proceed" /\ we[v] = y
          BY <4>1 DEF XQueued
        <5>2. v # w
          BY <2>5, <5>1 DEF XWork
        <5>3. QED BY <2>4, <5>1, <5>2
      <4>2. QED BY <2>2, <2>4, <2>5, <4>1
    <3>6. \A y \in Items : m_state'[y] = "PROCESSED" =>
             \E v \in Workers : epc'[v] \in XBusy /\ we'[v] = y
      <4>1. ASSUME NEW y \in Items, m_state[y] = "PROCESSED"
            PROVE  \E v \in Workers : epc'[v] \in XBusy /\ we'[v] = y
        <5>1. PICK v \in Workers : epc[v] \in XBusy /\ we[v] = y
          BY <4>1 DEF XQueued
        <5>2. v # w
          BY <2>5, <5>1 DEF XWork, XBusy
        <5>3. QED BY <2>4, <5>1, <5>2
      <4>2. QED BY <2>5, <4>1
    <3>7. QED BY <2>2, <3>1, <3>2, <3>3, <3>4, <3>5, <3>6 DEF XQueued
  <2>7. QED BY <1>3, <1>4, <2>2, <2>4, <2>6
<1>5. CASE /\ we' = [we EXCEPT ![w] = NoItem] /\ queue' = queue
           /\ \E a \in {"none", "wait"} : pc' = [pc EXCEPT ![w] = a]
           /\ epc' = [epc EXCEPT ![w] = "idle"]
  <2>1. /\ we' \in [Workers -> Items \union {NoItem}]
        /\ pc' \in [Workers -> {"none", "start", "wait", "engine"}]
        /\ \A v \in Workers : we'[v] = IF v = w THEN NoItem ELSE we[v]
        /\ pc'[w] # "engine" /\ \A v \in Workers \ {w} : pc'[v] = pc[v]
        /\ \A v \in Workers : epc'[v] = IF v = w THEN "idle" ELSE epc[v]
    BY <1>1, <1>5
  <2>2. m_state' = m_state /\ epc[w] \notin XWork /\ queue' = queue
    BY <1>1, <1>5 DEF engineUnchanged, xferVars, XWork
  <2>3. \A v \in Workers : epc'[v] \in XWork => epc'[v] = epc[v] /\ we'[v] = we[v]
    BY <2>1 DEF XWork
  <2>4. \A v \in Workers : epc[v] \in XWork => epc'[v] = epc[v] /\ we'[v] = we[v]
    BY <2>1, <2>2
  <2>5. XQueued'
    <3>1. /\ \A v \in Workers : (pc'[v] = "engine") <=> (epc'[v] # "idle")
          /\ \A v \in Workers : (pc'[v] = "engine") <=> (we'[v] # NoItem)
          /\ \A y \in Range(queue') : m_state'[y] = "QUEUED"
      <4>1. \A y \in Range(queue') : m_state'[y] = "QUEUED"
        BY <1>q, <2>2
      <4>2. QED BY <1>q, <2>1, <4>1
    <3>2. \A v \in Workers : epc'[v] = "proceed" =>
             m_state'[we'[v]] = "QUEUED" /\ we'[v] \notin Range(queue')
      BY <2>2, <2>3 DEF XQueued, XWork
    <3>3. \A v \in Workers : epc'[v] \in XBusy => m_state'[we'[v]] = "PROCESSED"
      BY <2>2, <2>3 DEF XQueued, XWork, XBusy
    <3>4. \A u, v \in Workers :
             epc'[u] \in XWork /\ epc'[v] \in XWork /\ we'[u] = we'[v] => u = v
      BY <2>3 DEF XQueued
    <3>5. \A y \in Items : m_state'[y] = "QUEUED" =>
             y \in Range(queue') \/ \E v \in Workers : epc'[v] = "proceed" /\ we'[v] = y
      <4>1. ASSUME NEW y \in Items, m_state[y] = "QUEUED", y \notin Range(queue)
            PROVE  \E v \in Workers : epc'[v] = "proceed" /\ we'[v] = y
        <5>1. PICK v \in Workers : epc[v] = "proceed" /\ we[v] = y
          BY <4>1 DEF XQueued
        <5>2. QED BY <2>4, <5>1 DEF XWork
      <4>2. QED BY <2>2, <4>1
    <3>6. \A y \in Items : m_state'[y] = "PROCESSED" =>
             \E v \in Workers : epc'[v] \in XBusy /\ we'[v] = y
      <4>1. ASSUME NEW y \in Items, m_state[y] = "PROCESSED"
            PROVE  \E v \in Workers : epc'[v] \in XBusy /\ we'[v] = y
        <5>1. PICK v \in Workers : epc[v] \in XBusy /\ we[v] = y
          BY <4>1 DEF XQueued
        <5>2. epc[v] \in XWork
          BY <5>1 DEF XWork, XBusy
        <5>3. QED BY <2>4, <5>1, <5>2
      <4>2. QED BY <2>2, <4>1
    <3>7. IsInjective(queue')
      BY <2>2 DEF XQueued
    <3>8. QED BY <3>1, <3>2, <3>3, <3>4, <3>5, <3>6, <3>7 DEF XQueued
  <2>6. QED BY <1>3, <1>5, <2>1, <2>2, <2>5
<1>6. QED BY <1>4, <1>5, WorkerTurn

(* A worker begins, goes on with or ends the transfer it has in hand.      *)
LEMMA EngineMoves ==
    ASSUME XferIInv, NEW w \in Workers, NEW x \in Items, x = we[w],
           NEW b, NEW s, epc[w] \in XWork, epc' = [epc EXCEPT ![w] = b],
           m_state' = [m_state EXCEPT ![x] = s],
           \/ s = "PROCESSED" /\ b \in XBusy
           \/ s \in {"DONE", "ERROR"} /\ b = "return" /\ epc[w] \in XBusy,
           UNCHANGED <<queue, pc, we>>
    PROVE  XQueued'
<1> USE XferParts
<1>1. /\ \A v \in Workers : epc'[v] = IF v = w THEN b ELSE epc[v]
      /\ \A y \in Items : m_state'[y] = IF y = x THEN s ELSE m_state[y]
  OBVIOUS
<1>2. /\ x \notin Range(queue) /\ m_state[x] \in {"QUEUED", "PROCESSED"}
      /\ \A v \in Workers \ {w} : epc[v] \in XWork => we[v] # x
  BY DEF XQueued, XWork, XBusy
<1>3. b # "idle" /\ b # "proceed" /\ (b \in XWork <=> b \in XBusy) /\ s # "QUEUED"
  BY DEF XWork, XBusy
<1>4. /\ \A v \in Workers : (pc[v] = "engine") <=> (epc[v] # "idle")
      /\ \A v \in Workers : (pc[v] = "engine") <=> (we[v] # NoItem)
      /\ \A y \in Range(queue) : m_state[y] = "QUEUED"
  BY DEF XQueued
<1>5. epc[w] # "idle" /\ XBusy \subseteq XWork
  BY DEF XWork, XBusy
<1>6. \A v \in Workers \ {w} : epc[v] \in XWork => we[v] \in Items
  BY DEF XWork
<1>7. /\ \A v \in Workers : (pc'[v] = "engine") <=> (epc'[v] # "idle")
      /\ \A v \in Workers : (pc'[v] = "engine") <=> (we'[v] # NoItem)
  BY <1>1, <1>3, <1>4, <1>5
<1>8. \A y \in Range(queue') : m_state'[y] = "QUEUED"
  BY <1>1, <1>2, <1>4
<1>9. \A v \in Workers : epc'[v] = "proceed" =>
          m_state'[we'[v]] = "QUEUED" /\ we'[v] \notin Range(queue')
  BY <1>1, <1>2, <1>3, <1>6 DEF XQueued, XWork
<1>10. \A v \in Workers : epc'[v] \in XBusy => m_state'[we'[v]] = "PROCESSED"
  <2>1. b \in XBusy => s = "PROCESSED"
    BY DEF XBusy
  <2>2. \A v \in Workers : epc[v] \in XBusy => m_state[we[v]] = "PROCESSED"
    BY DEF XQueued
  <2>3. QED BY <1>1, <1>2, <1>5, <1>6, <2>1, <2>2
<1>11. \A u, v \in Workers :
          epc'[u] \in XWork /\ epc'[v] \in XWork /\ we'[u] = we'[v] => u = v
  BY <1>1 DEF XQueued
<1>12. ASSUME NEW y \in Items, m_state'[y] = "QUEUED"
       PROVE  y \in Range(queue') \/ \E v \in Workers : epc'[v] = "proceed" /\ we'[v] = y
  <2>1. y # x /\ m_state[y] = "QUEUED"
    BY <1>1, <1>3, <1>12
  <2>2. CASE y \in Range(queue)
    BY <2>2
  <2>3. CASE y \notin Range(queue)
    <3>1. PICK v \in Workers : epc[v] = "proceed" /\ we[v] = y
      BY <2>1, <2>3 DEF XQueued
    <3>2. QED BY <1>1, <2>1, <3>1
  <2>4. QED BY <2>2, <2>3
<1>13. ASSUME NEW y \in Items, m_state'[y] = "PROCESSED"
       PROVE  \E v \in Workers : epc'[v] \in XBusy /\ we'[v] = y
  <2>1. CASE y = x
    BY <1>1, <1>13, <2>1
  <2>2. CASE y # x
    <3>1. PICK v \in Workers : epc[v] \in XBusy /\ we[v] = y
      BY <1>1, <1>13, <2>2 DEF XQueued
    <3>2. QED BY <1>1, <2>2, <3>1
  <2>3. QED BY <2>1, <2>2
<1>14. IsInjective(queue')
  BY DEF XQueued
<1>15. QED BY <1>7, <1>8, <1>9, <1>10, <1>11, <1>12, <1>13, <1>14 DEF XQueued

(* Nobody begins to queue.                                                 *)
LEMMA AddingKept ==
    ASSUME XferIInv, NEW w \in Workers, NEW x \in Items, x = we[w],
           NEW b, b # "addwork", epc[w] \in {"proceed", "funct", "transition"},
           epc' = [epc EXCEPT ![w] = b],
           \A y \in Items \ {x} : m_state'[y] = m_state[y] /\ xmutex'[y] = xmutex[y],
           UNCHANGED <<we, jpc, ref>>
    PROVE  XAdding' /\ \A y \in Items : Adding(y)' <=> Adding(y)
<1> USE XferParts
<1>1. \A v \in Workers : epc'[v] = IF v = w THEN b ELSE epc[v]
  OBVIOUS
<1>2. /\ \A j \in Jobs : jpc[j] = "addwork" => ref[j] # x /\ ref[j] \in Items
      /\ \A v \in Workers : epc[v] = "addwork" => we[v] # x /\ we[v] \in Items
  BY NotAdding DEF Adding
<1>3. XAdding'
  BY <1>1, <1>2 DEF XAdding
<1>4. \A y \in Items : Adding(y)' <=> Adding(y)
  BY <1>1, AddingSameWorker
<1>5. QED BY <1>3, <1>4

(* The engine has run; "waiting" is decided while nothing counts on it.    *)
LEMMA FunctMoves ==
    ASSUME XferIInv, NEW w \in Workers, NEW s \in {"DONE", "ERROR", "QUEUED"},
           epc[w] = "funct", Finish(w, s), functUnchanged,
           m_funct' \in [Items -> {"upload", "download", "wait"}],
           retries' \in [Items -> 0..MaxRetries], postponed' \in [Items -> BOOLEAN],
           \A y \in Items \ {we[w]} : postponed'[y] = postponed[y]
    PROVE  XferIInv'
<1> USE XferParts
<1>p. we[w] \in Items /\ ~Adding(we[w]) /\ m_state[we[w]] = "PROCESSED"
  BY NotAdding DEF XQueued, XBusy
<1>x. PICK x \in Items : x = we[w]
  BY <1>p
<1>0. /\ epc' = [epc EXCEPT ![w] = "transition"] /\ result' = [result EXCEPT ![w] = s]
      /\ UNCHANGED <<queue, pc, we, m_transfer_list, m_mutex, xmutex, m_state, m_use_count, part,
                     m_cancel, m_done, stat, jpc, ref, canceled, crashed>>
  BY DEF Finish, EngineAt, functUnchanged, wqVars, workerVars
<1>1. XTypes'
  <2>1. epc' \in [Workers -> XWork \union {"idle", "return"}]
    BY <1>0 DEF XWork
  <2>2. result \in [Workers -> {"DONE", "ERROR", "QUEUED"}]
    BY DEF XTypes
  <2>3. result' \in [Workers -> {"DONE", "ERROR", "QUEUED"}]
    BY <1>0, <2>2
  <2>4. QED BY <1>0, <2>1, <2>3 DEF XTypes
<1>2. XQueued'
  <2>1. m_state' = [m_state EXCEPT ![x] = "PROCESSED"]
    BY <1>0, <1>p, <1>x
  <2>2. epc[w] \in XWork /\ "transition" \in XBusy
    BY DEF XWork, XBusy
  <2>3. QED BY <1>0, <1>x, <2>1, <2>2, EngineMoves
<1>3. XAdding' /\ \A y \in Items : Adding(y)' <=> Adding(y)
  BY <1>0, <1>x, AddingKept
<1>4. XRefs' /\ UseCounts'
  BY <1>0, RefsFrame, UseFrame
<1>5. StatsExact'
  <2>1. InQueued' = InQueued /\ InWaiting' = InWaiting
    BY <1>0, <1>p, <1>x, <1>3 DEF InQueued, InWaiting, Queueing
  <2>2. InProcessed' = InProcessed /\ InEnded' = InEnded
    BY <1>0, <1>3 DEF InProcessed, InEnded
  <2>3. QED BY <1>0, <2>1, <2>2 DEF StatsExact
<1>6. QED BY <1>1, <1>2, <1>3, <1>4, <1>5 DEF XferIInv

LEMMA FunctPreserves ==
    ASSUME XferIInv, NEW w \in Workers,
           TransferEnds(w) \/ DownloadRetry(w) \/ WaitMore(w) \/ WaitOver(w)
    PROVE  XferIInv'
<1> USE XferParts
<1>0. /\ m_funct \in [Items -> {"upload", "download", "wait"}]
      /\ retries \in [Items -> 0..MaxRetries]
  BY DEF XTypes
<1>1. epc[w] = "funct" /\ we[w] \in Items /\ functUnchanged
  BY DEF TransferEnds, DownloadRetry, WaitMore, WaitOver
<1>2. CASE TransferEnds(w) \/ WaitMore(w)
  <2>1. /\ \E s \in {"DONE", "ERROR", "QUEUED"} : Finish(w, s)
        /\ UNCHANGED <<m_funct, postponed, retries>>
    BY <1>2 DEF TransferEnds, WaitMore
  <2>2. PICK s \in {"DONE", "ERROR", "QUEUED"} : Finish(w, s)
    BY <2>1
  <2>3. QED BY <1>0, <1>1, <2>1, <2>2, FunctMoves
<1>3. CASE DownloadRetry(w)
  <2>1. /\ retries[we[w]] < MaxRetries
        /\ retries' = [retries EXCEPT ![we[w]] = @ + 1]
        /\ m_funct' = [m_funct EXCEPT ![we[w]] = "wait"]
        /\ postponed' = [postponed EXCEPT ![we[w]] = TRUE]
        /\ Finish(w, "QUEUED")
    BY <1>3 DEF DownloadRetry
  <2>2. m_funct' \in [Items -> {"upload", "download", "wait"}]
    BY <1>0, <1>1, <2>1
  <2>3. retries' \in [Items -> 0..MaxRetries]
    BY <1>0, <1>1, <2>1, CloudXferAssumption
  <2>4. /\ postponed' \in [Items -> BOOLEAN]
        /\ \A y \in Items \ {we[w]} : postponed'[y] = postponed[y]
    BY <1>1, <2>1
  <2>5. "QUEUED" \in {"DONE", "ERROR", "QUEUED"}
    OBVIOUS
  <2>6. QED BY <1>1, <2>1, <2>2, <2>3, <2>4, <2>5, FunctMoves
<1>4. CASE WaitOver(w)
  <2>1. /\ m_funct' = [m_funct EXCEPT ![we[w]] = "download"]
        /\ postponed' = [postponed EXCEPT ![we[w]] = FALSE]
        /\ Finish(w, "QUEUED") /\ retries' = retries
    BY <1>4 DEF WaitOver
  <2>2. m_funct' \in [Items -> {"upload", "download", "wait"}]
    BY <1>0, <1>1, <2>1
  <2>3. retries' \in [Items -> 0..MaxRetries]
    BY <1>0, <2>1
  <2>4. /\ postponed' \in [Items -> BOOLEAN]
        /\ \A y \in Items \ {we[w]} : postponed'[y] = postponed[y]
    BY <1>1, <2>1
  <2>5. "QUEUED" \in {"DONE", "ERROR", "QUEUED"}
    OBVIOUS
  <2>6. QED BY <1>1, <2>1, <2>2, <2>3, <2>4, <2>5, FunctMoves
<1>5. QED BY <1>2, <1>3, <1>4

(* proceed: what a worker has just taken is QUEUED.                        *)
LEMMA ProceedPreserves ==
    ASSUME XferIInv, NEW w \in Workers, proceed(w)
    PROVE  XferIInv'
<1> USE XferParts
<1>p. epc[w] = "proceed" /\ we[w] \in Items /\ m_state[we[w]] = "QUEUED" /\ ~Adding(we[w])
  BY NotAdding DEF XQueued, proceed
<1>x. PICK x \in Items : x = we[w]
  BY <1>p
<1>0. /\ m_state' = [m_state EXCEPT ![x] = "PROCESSED"]
      /\ stat' = Moved(QueuedCount(x), "processed")
      /\ epc' = [epc EXCEPT ![w] = "funct"] /\ xmutex' = [xmutex EXCEPT ![x] = NoThread]
      /\ UNCHANGED <<queue, pc, we, m_transfer_list, m_mutex, m_use_count, part, m_funct,
                     postponed, m_cancel, retries, m_done, jpc, ref, canceled, result, crashed>>
  BY <1>p, <1>x DEF proceed, EngineAt, Unlocked, wqVars, workerVars
<1>1. /\ m_state' \in [Items -> States \union {"none", "deleted"}]
      /\ \A y \in Items : m_state'[y] = IF y = x THEN "PROCESSED" ELSE m_state[y]
      /\ epc' \in [Workers -> XWork \union {"idle", "return"}]
      /\ xmutex' \in [Items -> Threads]
  BY <1>0 DEF States, XWork, Threads
<1>2. XQueued'
  <2>1. epc[w] \in XWork /\ "funct" \in XBusy
    BY <1>p DEF XWork, XBusy
  <2>2. QED BY <1>0, <1>x, <2>1, EngineMoves
<1>3. XAdding' /\ \A y \in Items : Adding(y)' <=> Adding(y)
  <2>1. /\ epc[w] \in {"proceed", "funct", "transition"} /\ "funct" # "addwork"
        /\ epc' = [epc EXCEPT ![w] = "funct"] /\ UNCHANGED <<we, jpc, ref>>
        /\ \A y \in Items \ {x} : m_state'[y] = m_state[y] /\ xmutex'[y] = xmutex[y]
    BY <1>0, <1>1, <1>p
  <2>2. QED BY <1>x, <2>1, AddingKept
<1>4. XRefs'
  BY <1>0, <1>p, <1>x, RefsKept DEF States
<1>5. UseCounts'
  BY <1>0, UseFrame
<1>6. /\ stat' \in [Counts -> Int]
      /\ stat'["done"] = stat["done"] /\ stat'["error"] = stat["error"]
      /\ stat'["queued"] = stat["queued"] - In(~postponed[x])
      /\ stat'["waiting"] = stat["waiting"] - In(postponed[x])
      /\ stat'["processed"] = stat["processed"] + 1
  <2>1. PICK q \in Counts : q = QueuedCount(x) /\ q = IF postponed[x] THEN "waiting" ELSE "queued"
    BY DEF QueuedCount, Counts
  <2>2. "processed" \in Counts /\ q # "processed"
    BY <2>1 DEF Counts
  <2>3. /\ stat' \in [Counts -> Int]
        /\ stat'[q] = stat[q] - 1 /\ stat'["processed"] = stat["processed"] + 1
        /\ \A c \in Counts \ {q, "processed"} : stat'[c] = stat[c]
    BY <1>0, <2>1, <2>2, MovedCounts
  <2>4. \A c \in Counts : stat[c] \in Int
    OBVIOUS
  <2>5. QED BY <2>1, <2>3, <2>4 DEF Counts, In
<1>7. StatsExact'
  <2>1. /\ x \notin InQueued' /\ x \notin InWaiting'
        /\ x \in InQueued <=> ~postponed[x]
        /\ x \in InWaiting <=> postponed[x]
    BY <1>0, <1>1, <1>p, <1>x, <1>3 DEF InQueued, InWaiting, Queueing
  <2>2. x \notin InEnded /\ x \notin InEnded' /\ x \in InProcessed' /\ x \notin InProcessed
    BY <1>1, <1>p, <1>x, <1>3 DEF InProcessed, InEnded
  <2>3. \A c \in Counts : stat[c] \in Int
    OBVIOUS
  <2>4. /\ stat'["queued"] = stat["queued"] + In(x \in InQueued') - In(x \in InQueued)
        /\ stat'["waiting"] = stat["waiting"] + In(x \in InWaiting') - In(x \in InWaiting)
    BY <1>6, <2>1, <2>3 DEF In, Counts
  <2>5. /\ stat'["processed"] = stat["processed"] + In(x \in InProcessed') - In(x \in InProcessed)
        /\ stat'["done"] + stat'["error"]
             = stat["done"] + stat["error"] + In(x \in InEnded') - In(x \in InEnded)
    BY <1>6, <2>2, <2>3 DEF In, Counts
  <2>6. \A y \in Items \ {x} : /\ m_state'[y] = m_state[y] /\ postponed'[y] = postponed[y]
                               /\ Adding(y)' <=> Adding(y)
    BY <1>0, <1>1, <1>3
  <2>7. QED BY <1>6, <2>4, <2>5, <2>6, StatsStep
<1>8. XTypes'
  <2>1. stat'["done"] >= 0 /\ stat'["error"] >= 0
    BY <1>6 DEF XTypes
  <2>2. UNCHANGED <<queue, pc, we, m_transfer_list, m_mutex, m_use_count, part, m_funct,
                    postponed, m_cancel, retries, m_done, jpc, ref, canceled, result, crashed>>
    BY <1>0
  <2>3. QED BY <1>1, <1>6, <2>1, <2>2 DEF XTypes
<1>9. QED BY <1>2, <1>3, <1>4, <1>5, <1>7, <1>8 DEF XferIInv

(* An end is counted as "done" or as "error".                              *)
LEMMA EndedCounts ==
    ASSUME stat \in [Counts -> Int], stat["done"] >= 0, stat["error"] >= 0,
           NEW s \in {"DONE", "ERROR"},
           stat' = Moved("processed", IF s = "DONE" THEN "done" ELSE "error")
    PROVE  /\ stat' \in [Counts -> Int] /\ stat'["done"] >= 0 /\ stat'["error"] >= 0
           /\ stat'["queued"] = stat["queued"] /\ stat'["waiting"] = stat["waiting"]
           /\ stat'["processed"] = stat["processed"] - 1
           /\ stat'["done"] + stat'["error"] = stat["done"] + stat["error"] + 1
<1>1. PICK q \in Counts : q = IF s = "DONE" THEN "done" ELSE "error"
  BY DEF Counts
<1>2. "processed" \in Counts /\ q # "processed"
  BY <1>1 DEF Counts
<1>3. /\ stat' \in [Counts -> Int]
      /\ stat'["processed"] = stat["processed"] - 1 /\ stat'[q] = stat[q] + 1
      /\ \A c \in Counts \ {"processed", q} : stat'[c] = stat[c]
  BY <1>1, <1>2, MovedCounts
<1>4. stat["done"] \in Int /\ stat["error"] \in Int
  BY DEF Counts
<1>5. CASE q = "done"
  <2>1. /\ stat'["done"] = stat["done"] + 1 /\ stat'["error"] = stat["error"]
        /\ stat'["queued"] = stat["queued"] /\ stat'["waiting"] = stat["waiting"]
    BY <1>3, <1>5 DEF Counts
  <2>2. QED BY <1>3, <1>4, <2>1
<1>6. CASE q = "error"
  <2>1. /\ stat'["error"] = stat["error"] + 1 /\ stat'["done"] = stat["done"]
        /\ stat'["queued"] = stat["queued"] /\ stat'["waiting"] = stat["waiting"]
    BY <1>3, <1>6 DEF Counts
  <2>2. QED BY <1>3, <1>4, <2>1
<1>7. QED BY <1>1, <1>5, <1>6

(* transition(DONE) or transition(ERROR).                                  *)
LEMMA EndPreserves ==
    ASSUME XferIInv, NEW w \in Workers, transition_end(w)
    PROVE  XferIInv'
<1> USE XferParts
<1>p. /\ epc[w] = "transition" /\ we[w] \in Items /\ m_state[we[w]] = "PROCESSED"
      /\ ~Adding(we[w]) /\ result[w] \in {"DONE", "ERROR"}
  BY NotAdding DEF XQueued, XBusy, transition_end
<1>x. PICK x \in Items : x = we[w]
  BY <1>p
<1>s. PICK s \in {"DONE", "ERROR"} : s = result[w]
  BY <1>p
<1>0. /\ m_state' = [m_state EXCEPT ![x] = s]
      /\ stat' = Moved("processed", IF s = "DONE" THEN "done" ELSE "error")
      /\ m_done' = [m_done EXCEPT ![x] = {}]
      /\ result' = [result EXCEPT ![w] = "DONE"]
      /\ epc' = [epc EXCEPT ![w] = "return"] /\ xmutex' = [xmutex EXCEPT ![x] = NoThread]
      /\ UNCHANGED <<queue, pc, we, m_transfer_list, m_mutex, m_use_count, part, m_funct,
                     postponed, m_cancel, retries, jpc, ref, canceled, crashed>>
  BY <1>x, <1>s DEF transition_end, EngineAt, EndWakes, Unlocked, wqVars, workerVars
<1>1. /\ m_state' \in [Items -> States \union {"none", "deleted"}]
      /\ \A y \in Items : m_state'[y] = IF y = x THEN s ELSE m_state[y]
      /\ epc' \in [Workers -> XWork \union {"idle", "return"}]
      /\ xmutex' \in [Items -> Threads] /\ \A y \in Items \ {x} : xmutex'[y] = xmutex[y]
  BY <1>0 DEF States, XWork, Threads
<1>2. XQueued'
  <2>1. epc[w] \in XWork /\ epc[w] \in XBusy
    BY <1>p DEF XWork, XBusy
  <2>2. QED BY <1>0, <1>x, <2>1, EngineMoves
<1>3. XAdding' /\ \A y \in Items : Adding(y)' <=> Adding(y)
  BY <1>0, <1>1, <1>p, <1>x, AddingKept
<1>4. XRefs'
  BY <1>0, <1>p, <1>x, RefsKept DEF States
<1>5. UseCounts'
  BY <1>0, UseFrame
<1>6. /\ stat' \in [Counts -> Int] /\ stat'["done"] >= 0 /\ stat'["error"] >= 0
      /\ stat'["queued"] = stat["queued"] /\ stat'["waiting"] = stat["waiting"]
      /\ stat'["processed"] = stat["processed"] - 1
      /\ stat'["done"] + stat'["error"] = stat["done"] + stat["error"] + 1
  <2>1. stat["done"] >= 0 /\ stat["error"] >= 0
    BY DEF XTypes
  <2>2. QED BY <1>0, <2>1, EndedCounts
<1>7. StatsExact'
  <2>1. x \notin InQueued' /\ x \notin InWaiting' /\ x \notin InQueued /\ x \notin InWaiting
    BY <1>0, <1>1, <1>p, <1>x, <1>3 DEF InQueued, InWaiting, Queueing
  <2>2. x \notin InEnded /\ x \in InEnded' /\ x \notin InProcessed' /\ x \in InProcessed
    BY <1>1, <1>p, <1>x, <1>3 DEF InProcessed, InEnded
  <2>3. \A c \in Counts : stat[c] \in Int
    OBVIOUS
  <2>4. /\ stat'["queued"] = stat["queued"] + In(x \in InQueued') - In(x \in InQueued)
        /\ stat'["waiting"] = stat["waiting"] + In(x \in InWaiting') - In(x \in InWaiting)
    BY <1>6, <2>1, <2>3 DEF In, Counts
  <2>5. /\ stat'["processed"] = stat["processed"] + In(x \in InProcessed') - In(x \in InProcessed)
        /\ stat'["done"] + stat'["error"]
             = stat["done"] + stat["error"] + In(x \in InEnded') - In(x \in InEnded)
    BY <1>6, <2>2, <2>3 DEF In, Counts
  <2>6. \A y \in Items \ {x} : /\ m_state'[y] = m_state[y] /\ postponed'[y] = postponed[y]
                               /\ Adding(y)' <=> Adding(y)
    BY <1>0, <1>1, <1>3
  <2>7. QED BY <1>6, <2>4, <2>5, <2>6, StatsStep
<1>8. XTypes'
  <2>1. result \in [Workers -> {"DONE", "ERROR", "QUEUED"}] /\ m_done \in [Items -> SUBSET Jobs]
    BY DEF XTypes
  <2>2. result' \in [Workers -> {"DONE", "ERROR", "QUEUED"}]
    BY <1>0, <2>1
  <2>3. m_done' \in [Items -> SUBSET Jobs]
    BY <1>0, <2>1
  <2>4. UNCHANGED <<queue, pc, we, m_transfer_list, m_mutex, m_use_count, part, m_funct,
                    postponed, m_cancel, retries, jpc, ref, canceled, crashed>>
    BY <1>0
  <2>5. /\ m_state' \in [Items -> States \union {"none", "deleted"}]
        /\ epc' \in [Workers -> XWork \union {"idle", "return"}]
        /\ stat' \in [Counts -> Int] /\ stat'["done"] >= 0 /\ stat'["error"] >= 0
        /\ xmutex' \in [Items -> Threads]
    BY <1>1, <1>6
  <2>6. QED BY <2>2, <2>3, <2>4, <2>5 DEF XTypes
<1>9. QED BY <1>2, <1>3, <1>4, <1>5, <1>7, <1>8 DEF XferIInv

(* transition(QUEUED) by the engine, up to the list's mutex.               *)
LEMMA RequeuePreserves ==
    ASSUME XferIInv, NEW w \in Workers, transition_queue(w)
    PROVE  XferIInv'
<1> USE XferParts
<1>p. /\ epc[w] = "transition" /\ we[w] \in Items /\ m_state[we[w]] = "PROCESSED"
      /\ ~Adding(we[w]) /\ xmutex[we[w]] = w
  BY NotAdding DEF XQueued, XBusy, transition_queue
<1>x. PICK x \in Items : x = we[w]
  BY <1>p
<1>0. /\ xmutex' = xmutex
      /\ stat' = Moved("processed", QueuedCount(x))
      /\ result' = [result EXCEPT ![w] = "DONE"]
      /\ epc' = [epc EXCEPT ![w] = "addwork"]
      /\ UNCHANGED <<queue, pc, we, m_transfer_list, m_mutex, m_state, m_use_count, part, m_funct,
                     postponed, m_cancel, retries, m_done, jpc, ref, canceled, crashed>>
  BY <1>x DEF transition_queue, EngineAt, Requeued, wqVars, workerVars, xferVars
<1>1. /\ epc' \in [Workers -> XWork \union {"idle", "return"}]
      /\ \A v \in Workers : epc'[v] = IF v = w THEN "addwork" ELSE epc[v]
      /\ xmutex' \in [Items -> Threads] /\ xmutex'[x] = w
  BY <1>0, <1>p, <1>x DEF XWork
<1>2. XQueued'
  <2>1. m_state' = [m_state EXCEPT ![x] = "PROCESSED"]
    BY <1>0, <1>p, <1>x
  <2>2. epc[w] \in XWork /\ "addwork" \in XBusy
    BY <1>p DEF XWork, XBusy
  <2>3. QED BY <1>0, <1>x, <2>1, <2>2, EngineMoves
<1>3. XAdding'
  <2>1. \A k \in Jobs : jpc[k] = "addwork" => ref[k] \in Items /\ ref[k] # x
    BY <1>p, <1>x DEF XAdding
  <2>2. \A v \in Workers : epc[v] = "addwork" => we[v] \in Items /\ we[v] # x
    BY <1>p, <1>x DEF XAdding
  <2>3. QED BY <1>0, <1>1, <1>x, <2>1, <2>2 DEF XAdding
<1>4. XRefs' /\ UseCounts'
  BY <1>0, RefsFrame, UseFrame
<1>5. /\ StatsExact' /\ stat' \in [Counts -> Int]
      /\ stat'["done"] = stat["done"] /\ stat'["error"] = stat["error"]
  <2>1. Adding(x)' /\ \A y \in Items \ {x} : Adding(y)' <=> Adding(y)
    BY <1>0, <1>1, <1>p, <1>x DEF Adding
  <2>2. ~Adding(x) /\ m_state[x] = "PROCESSED"
    BY <1>p, <1>x
  <2>3. UNCHANGED <<m_state, postponed>>
    BY <1>0
  <2>4. QED BY <1>0, <2>1, <2>2, <2>3, QueueCounts
<1>6. XTypes'
  <2>1. result \in [Workers -> {"DONE", "ERROR", "QUEUED"}]
    BY DEF XTypes
  <2>2. result' \in [Workers -> {"DONE", "ERROR", "QUEUED"}]
    BY <1>0, <2>1
  <2>3. QED BY <1>0, <1>1, <1>5, <2>2 DEF XTypes
<1>7. QED BY <1>2, <1>3, <1>4, <1>5, <1>6 DEF XferIInv

(* And from there: add_work puts it back in the queue.                     *)
LEMMA RequeueAddPreserves ==
    ASSUME XferIInv, NEW w \in Workers, transition_queue_add(w)
    PROVE  XferIInv'
<1> USE XferParts
<1>p. /\ epc[w] = "addwork" /\ we[w] \in Items /\ m_state[we[w]] = "PROCESSED"
      /\ xmutex[we[w]] = w
  BY DEF XQueued, XBusy, XAdding, transition_queue_add
<1>x. PICK x \in Items : x = we[w]
  BY <1>p
<1>0. /\ add_work(x) /\ m_done' = [m_done EXCEPT ![x] = {}]
      /\ epc' = [epc EXCEPT ![w] = "return"] /\ jpc' = jpc
  BY <1>x DEF transition_queue_add, EngineAt
<1>1. /\ queue' \in Seq(Items) /\ Range(queue') = Range(queue) \union {x}
      /\ IsInjective(queue')
      /\ pc' \in [Workers -> {"none", "start", "wait", "engine"}]
      /\ \A v \in Workers : (pc'[v] = "engine") <=> (pc[v] = "engine")
      /\ m_state' = [m_state EXCEPT ![x] = "QUEUED"]
      /\ xmutex' = [xmutex EXCEPT ![x] = NoThread]
      /\ UNCHANGED <<we, m_transfer_list, m_mutex, m_use_count, part, m_funct, postponed,
                     m_cancel, retries, stat, ref, canceled, result, crashed>>
  BY <1>0, <1>p, <1>x, AddWorkEffect
<1>2. /\ \A v \in Workers : epc'[v] = IF v = w THEN "return" ELSE epc[v]
      /\ \A y \in Items : m_state'[y] = IF y = x THEN "QUEUED" ELSE m_state[y]
      /\ \A y \in Items : xmutex'[y] = IF y = x THEN NoThread ELSE xmutex[y]
  BY <1>0, <1>1
<1>3. XTypes'
  <2>1. /\ epc' \in [Workers -> XWork \union {"idle", "return"}]
        /\ m_state' \in [Items -> States \union {"none", "deleted"}]
        /\ xmutex' \in [Items -> Threads]
    BY <1>0, <1>1 DEF States, Threads
  <2>2. m_done \in [Items -> SUBSET Jobs]
    BY DEF XTypes
  <2>3. m_done' \in [Items -> SUBSET Jobs]
    BY <1>0, <2>2
  <2>4. QED BY <1>0, <1>1, <2>1, <2>3 DEF XTypes
<1>4. XQueued'
  <2>1. \A v \in Workers \ {w} : epc[v] \in XWork => we[v] # x
    BY <1>p, <1>x DEF XQueued, XWork
  <2>2. epc[w] \in XBusy
    BY <1>p DEF XBusy
  <2>3. \A v \in Workers : \/ epc'[v] = epc[v] /\ (epc[v] \in XWork => we[v] # x)
                           \/ epc[v] \in XBusy /\ we[v] = x /\ epc'[v] = "return"
    BY <1>2, <1>x, <2>1, <2>2
  <2>4. QED BY <1>1, <2>3, AddWorkQueued
<1>5. /\ \A k \in Jobs : jpc[k] = "addwork" => ref[k] # x
      /\ \A v \in Workers \ {w} : epc[v] = "addwork" => we[v] # x
  BY <1>p, <1>x, CloudXferAssumption DEF XAdding
<1>6. XAdding'
  BY <1>0, <1>1, <1>2, <1>5 DEF XAdding
<1>7. XRefs'
  BY <1>0, <1>1, <1>p, <1>x, RefsKept DEF States
<1>8. UseCounts'
  BY <1>0, <1>1, UseFrame
<1>9. StatsExact'
  <2>1. Adding(x)
    BY <1>p, <1>x DEF Adding
  <2>2. ~Adding(x)' /\ \A y \in Items \ {x} : Adding(y)' <=> Adding(y)
    BY <1>0, <1>x, <1>1, <1>2, <1>5 DEF Adding
  <2>3. m_state[x] \in {"CREATED", "PROCESSED"} /\ UNCHANGED <<postponed, stat>>
    BY <1>p, <1>x, <1>1
  <2>4. m_state' = [m_state EXCEPT ![x] = "QUEUED"]
    BY <1>1
  <2>5. QED BY <2>1, <2>2, <2>3, <2>4, AddWorkCounts
<1>10. QED BY <1>3, <1>4, <1>6, <1>7, <1>8, <1>9 DEF XferIInv

-----------------------------------------------------------------------------
LEMMA XferInitHolds == XferInit => XferIInv
<1> SUFFICES ASSUME XferInit PROVE XferIInv
  OBVIOUS
<1>0. /\ queue = <<>> /\ pc = [w \in Workers |-> "none"] /\ we = [w \in Workers |-> NoItem]
      /\ m_transfer_list = {} /\ m_mutex = NoThread
      /\ xmutex = [x \in Items |-> NoThread] /\ m_state = [x \in Items |-> "none"]
      /\ m_use_count = [x \in Items |-> 0]
      /\ m_funct = [x \in Items |-> "upload"]
      /\ postponed = [x \in Items |-> FALSE] /\ m_cancel = [x \in Items |-> FALSE]
      /\ retries = [x \in Items |-> 0] /\ m_done = [x \in Items |-> {}]
      /\ stat = [c \in Counts |-> 0]
      /\ jpc = [j \in Jobs |-> "start"] /\ ref = [j \in Jobs |-> NoItem]
      /\ canceled = {} /\ epc = [w \in Workers |-> "idle"]
      /\ result = [w \in Workers |-> "DONE"] /\ crashed = FALSE
  BY DEF XferInit, workq_init
<1>1. /\ queue \in Seq(Items) /\ Range(queue) = {} /\ IsInjective(queue)
  BY <1>0, EmptyList
<1>2. XTypes
  <2>1. part = [x \in Items |-> part[x]]
    BY DEF XferInit
  <2>2. /\ pc \in [Workers -> {"none", "start", "wait", "engine"}]
        /\ we \in [Workers -> Items \union {NoItem}]
        /\ epc \in [Workers -> XWork \union {"idle", "return"}]
        /\ result \in [Workers -> {"DONE", "ERROR", "QUEUED"}]
    BY <1>0
  <2>3. /\ m_mutex \in Threads /\ xmutex \in [Items -> Threads]
        /\ m_state \in [Items -> States \union {"none", "deleted"}]
        /\ m_use_count \in [Items -> Int]
        /\ m_funct \in [Items -> {"upload", "download", "wait"}]
    BY <1>0 DEF Threads
  <2>4. /\ postponed \in [Items -> BOOLEAN] /\ m_cancel \in [Items -> BOOLEAN]
        /\ m_done \in [Items -> SUBSET Jobs]
    BY <1>0
  <2>5. retries \in [Items -> 0..MaxRetries]
    BY <1>0, CloudXferAssumption
  <2>6. stat \in [Counts -> Int] /\ stat["done"] >= 0 /\ stat["error"] >= 0
    BY <1>0 DEF Counts
  <2>7. jpc \in [Jobs -> JobPcs] /\ ref \in [Jobs -> Items \union {NoItem}]
    BY <1>0 DEF JobPcs
  <2>8. m_transfer_list \subseteq Items /\ canceled \subseteq Jobs /\ crashed \in BOOLEAN
    BY <1>0
  <2>9. QED BY <1>1, <2>1, <2>2, <2>3, <2>4, <2>5, <2>6, <2>7, <2>8 DEF XTypes
<1>3. XQueued
  BY <1>0, <1>1 DEF XQueued, XWork, XBusy
<1>4. XAdding
  BY <1>0 DEF XAdding
<1>5. XRefs
  BY <1>0, ItemsFinite DEF XRefs
<1>6. UseCounts
  <2>1. ASSUME NEW x \in Items
        PROVE  {j \in Jobs : ref[j] = x /\ jpc[j] \notin {"inc", "delete", "dec"}} = {}
    BY <1>0, ItemsFinite
  <2>2. \A x \in Items : ~(\E j \in Jobs : ref[j] = x /\ jpc[j] = "dec")
    BY <1>0
  <2>3. \A x \in Items :
           /\ m_use_count[x] = 0 /\ x \notin m_transfer_list
           /\ Cardinality({j \in Jobs : ref[j] = x /\ jpc[j] \notin {"inc", "delete", "dec"}}) = 0
    BY <1>0, <2>1, FS_EmptySet
  <2>4. QED BY <1>0, <2>2, <2>3 DEF UseCounts
<1>7. StatsExact
  <2>1. \A x \in Items : ~Adding(x)
    BY <1>0 DEF Adding
  <2>2. InQueued = {} /\ InWaiting = {}
    BY <1>0, <2>1 DEF InQueued, InWaiting, Queueing
  <2>3. InProcessed = {} /\ InEnded = {}
    BY <1>0 DEF InProcessed, InEnded
  <2>4. QED BY <1>0, <2>2, <2>3, FS_EmptySet DEF StatsExact, Counts
<1>8. QED BY <1>2, <1>3, <1>4, <1>5, <1>6, <1>7 DEF XferIInv

LEMMA XferStutter ==
    ASSUME XferIInv,
           UNCHANGED <<wqVars, m_transfer_list, m_mutex, xmutex, xferVars, m_done, stat, jpc, ref,
                       canceled, epc, result, crashed>>
    PROVE  XferIInv'
<1> USE XferParts DEF wqVars, workerVars, xferVars
<1>1. XTypes' /\ XQueued'
  BY QueuedFrame DEF XTypes
<1>2. XAdding' /\ XRefs'
  BY RefsFrame DEF XAdding
<1>3. UseCounts' /\ StatsExact'
  BY UseFrame, StatsFrame DEF Adding
<1>4. QED BY <1>1, <1>2, <1>3 DEF XferIInv

(* Every step of a job and of a worker keeps the invariant.                *)
LEMMA XferStep ==
    ASSUME XferIInv, [XferNext]_cloudVars
    PROVE  XferIInv'
<1>1. CASE UNCHANGED cloudVars
  BY <1>1, XferStutter DEF cloudVars, xvars
<1>v. ASSUME NEW v \in Viewers, update_statistics(v) \/ update_statistics_end(v)
      PROVE  XferIInv'
  BY <1>v, XferStutter DEF update_statistics, update_statistics_end
<1>2. ASSUME ~crashed, NEW j \in Jobs, JobStep(j)
      PROVE  XferIInv'
  <2>1. CASE get_xfer(j)
    BY <1>2, <2>1, GetXferPreserves
  <2>2. CASE get_xfer_inc(j)
    BY <1>2, <2>2, GetXferIncPreserves
  <2>3. CASE transfer_queue(j)
    BY <1>2, <2>3, QueuePreserves
  <2>4. CASE transfer_queue_add(j)
    BY <1>2, <2>4, QueueAddPreserves
  <2>5. CASE \/ wait_end_of_transfer(j) \/ transfer_wait_woken(j)
             \/ transfer_timedwait_timeout(j)
    BY <1>2, <2>5, WaitPreserves
  <2>6. CASE release(j)
    BY <1>2, <2>6, ReleasePreserves
  <2>7. CASE release_remove(j)
    BY <1>2, <2>7, XferRemovePreserves
  <2>8. CASE release_delete(j)
    BY <1>2, <2>8, DeletePreserves
  <2>9. QED BY <1>2, <2>1, <2>2, <2>3, <2>4, <2>5, <2>6, <2>7, <2>8 DEF JobStep
<1>3. ASSUME NEW w \in Workers, WorkerStep(w)
      PROVE  XferIInv'
  <2>1. CASE Serves(w) \/ EngineEnd(w)
    BY <2>1, XferTurnPreserves
  <2>2. CASE proceed(w)
    BY <2>2, ProceedPreserves
  <2>3. CASE TransferEnds(w) \/ DownloadRetry(w) \/ WaitMore(w) \/ WaitOver(w)
    BY <2>3, FunctPreserves
  <2>4. CASE transition_end(w)
    BY <2>4, EndPreserves
  <2>5. CASE transition_queue(w)
    BY <2>5, RequeuePreserves
  <2>6. CASE transition_queue_add(w)
    BY <2>6, RequeueAddPreserves
  <2>7. CASE transition(w)
    <3>1. epc[w] \in {"proceed", "transition"} /\ w \in Threads
      BY <2>7 DEF transition, Threads
    <3>2. we[w] \in Items /\ ~Adding(we[w])
      BY <3>1, NotAdding
    <3>3. QED BY <2>7, <3>1, <3>2, LockPreserves DEF transition
  <2>8. QED BY <1>3, <2>1, <2>2, <2>3, <2>4, <2>5, <2>6, <2>7 DEF WorkerStep
<1>4. QED BY <1>1, <1>v, <1>2, <1>3, CancelPreserves DEF XferNext

(* The inductive invariant of the transfer manager.                        *)
THEOREM CloudInvariant == XferSpec => []XferIInv
<1>1. XferInit => XferIInv
  BY XferInitHolds
<1>2. XferIInv /\ [XferNext]_cloudVars => XferIInv'
  BY XferStep
<1>3. QED BY <1>1, <1>2, PTL DEF XferSpec

(* A transfer is in the work queue or with a worker exactly as its state   *)
(* says, and never twice.                                                  *)
THEOREM CloudQueuedOnce == XferSpec => []QueuedOnce
<1>1. XferIInv => QueuedOnce
  BY XferPlacedOnce
<1>2. QED BY <1>1, CloudInvariant, PTL

(* Each use count is the number of references, and no transfer is leaked.  *)
THEOREM CloudUseCounts == XferSpec => []UseCounts
<1>1. XferIInv => UseCounts
  BY DEF XferIInv
<1>2. QED BY <1>1, CloudInvariant, PTL

(* The statistics agree with the transfers' states.                        *)
THEOREM CloudStatsExact == XferSpec => []StatsExact
<1>1. XferIInv => StatsExact
  BY DEF XferIInv
<1>2. QED BY <1>1, CloudInvariant, PTL

-----------------------------------------------------------------------------
(* A transfer's mutex is held over a step only by who is on the way to     *)
(* change its state.                                                       *)
XHolder(x, t) ==
    \/ \E j \in Jobs : t = j /\ ref[j] = x /\ jpc[j] \in {"queue", "addwork"}
    \/ \E w \in Workers : t = w /\ we[w] = x /\ epc[w] \in {"proceed", "transition", "addwork"}

XHeld == \A x \in Items : xmutex[x] # NoThread => XHolder(x, xmutex[x])

LEMMA HeldInit == XferInit => XHeld
BY DEF XferInit, XHeld

(* A step that touches no mutex and moves no holder away.                  *)
LEMMA HeldFrame ==
    ASSUME XHeld, UNCHANGED xmutex,
           \A x \in Items, t \in Jobs \union Workers : XHolder(x, t) => XHolder(x, t)'
    PROVE  XHeld'
<1>1. SUFFICES ASSUME NEW x \in Items, xmutex[x] # NoThread
               PROVE  XHolder(x, xmutex[x])'
  BY DEF XHeld
<1>2. PICK t \in Jobs \union Workers : t = xmutex[x] /\ XHolder(x, t)
  BY <1>1 DEF XHeld, XHolder
<1>3. XHolder(x, t)'
  BY <1>2
<1>4. QED BY <1>2, <1>3

(* A job that holds no transfer's mutex, or only now gets to it, moves on. *)
LEMMA HeldJobMoves ==
    ASSUME XferIInv, XHeld, NEW j \in Jobs, jpc[j] \notin {"queue", "addwork"},
           UNCHANGED <<xmutex, we, epc>>,
           \A k \in Jobs \ {j} : jpc'[k] = jpc[k] /\ ref'[k] = ref[k]
    PROVE  XHeld'
<1>1. \A x \in Items, t \in Jobs \union Workers : XHolder(x, t) => XHolder(x, t)'
  BY DEF XHolder
<1>2. QED BY <1>1, HeldFrame

LEMMA HeldJobStep ==
    ASSUME XferIInv, XHeld, NEW j \in Jobs, JobStep(j)
    PROVE  XHeld'
<1> USE XferParts
<1>1. CASE get_xfer(j)
  <2>1. jpc[j] = "start" /\ UNCHANGED <<xmutex, we, epc>>
    BY <1>1 DEF get_xfer, wqVars, workerVars
  <2>2. \A k \in Jobs \ {j} : jpc'[k] = jpc[k] /\ ref'[k] = ref[k]
    BY <1>1 DEF get_xfer, JobAt
  <2>3. QED BY <2>1, <2>2, HeldJobMoves
<1>2. CASE get_xfer_inc(j) \/ wait_end_of_transfer(j) \/ transfer_wait_woken(j)
           \/ transfer_timedwait_timeout(j) \/ release_remove(j)
  <2>1. jpc[j] \notin {"queue", "addwork"} /\ UNCHANGED <<xmutex, we, epc, ref>>
    BY <1>2 DEF get_xfer_inc, wait_end_of_transfer, transfer_wait_woken,
                transfer_timedwait_timeout, release_remove, wqVars, workerVars
  <2>2. \A k \in Jobs \ {j} : jpc'[k] = jpc[k]
    BY <1>2 DEF get_xfer_inc, wait_end_of_transfer, transfer_wait_woken,
                transfer_timedwait_timeout, release_remove, JobAt
  <2>3. QED BY <2>1, <2>2, HeldJobMoves
<1>3. CASE release(j) \/ release_delete(j)
  <2>1. jpc[j] \notin {"queue", "addwork"} /\ UNCHANGED <<xmutex, we, epc>>
    BY <1>3 DEF release, release_delete, wqVars, workerVars
  <2>2. \A k \in Jobs \ {j} : jpc'[k] = jpc[k] /\ ref'[k] = ref[k]
    BY <1>3 DEF release, release_delete, JobEnds, JobAt
  <2>3. QED BY <2>1, <2>2, HeldJobMoves
<1>4. CASE transfer_queue(j)
  <2> DEFINE x == ref[j]
  <2>0. x \in Items /\ jpc[j] = "queue" /\ UNCHANGED <<we, epc, ref>>
    BY <1>4 DEF transfer_queue, wqVars, workerVars
  <2>1. CASE xmutex' = [xmutex EXCEPT ![x] = j] /\ UNCHANGED jpc
    <3>1. XHolder(x, j)'
      BY <2>0, <2>1 DEF XHolder
    <3>2. \A y \in Items : xmutex'[y] = IF y = x THEN j ELSE xmutex[y]
      BY <2>0, <2>1
    <3>3. \A y \in Items : \A t : XHolder(y, t) => XHolder(y, t)'
      BY <2>0, <2>1 DEF XHolder
    <3>4. ASSUME NEW y \in Items, y # x, xmutex'[y] # NoThread
          PROVE  XHolder(y, xmutex[y])'
      <4>1. PICK t : t = xmutex[y] /\ XHolder(y, t)
        BY <3>2, <3>4 DEF XHeld
      <4>2. xmutex'[y] = t /\ XHolder(y, t)'
        BY <3>2, <3>3, <3>4, <4>1
      <4>3. QED BY <4>2
    <3>5. XHolder(x, xmutex[x])'
      BY <2>0, <3>1, <3>2
    <3>6. \A y \in Items : xmutex'[y] # NoThread => XHolder(y, xmutex[y])'
      BY <2>0, <3>4, <3>5
    <3>7. QED BY <3>6 DEF XHeld
  <2>2. CASE xmutex' = xmutex /\ JobAt(j, "addwork")
    <3>1. \A k \in Jobs : jpc'[k] = IF k = j THEN "addwork" ELSE jpc[k]
      BY <2>2 DEF JobAt
    <3>2. \A y \in Items, t \in Jobs \union Workers : XHolder(y, t) => XHolder(y, t)'
      BY <2>0, <3>1 DEF XHolder
    <3>3. QED BY <2>2, <3>2, HeldFrame
  <2>3. CASE Free(x) /\ xmutex' = xmutex /\ JobAt(j, "wait")
    <3>1. \A k \in Jobs : jpc'[k] = IF k = j THEN "wait" ELSE jpc[k]
      BY <2>3 DEF JobAt
    <3>2. SUFFICES ASSUME NEW y \in Items, xmutex[y] # NoThread
                   PROVE  XHolder(y, xmutex[y])'
      BY <2>3 DEF XHeld
    <3>3. y # x /\ XHolder(y, xmutex[y])
      BY <2>3, <3>2 DEF Free, XHeld
    <3>4. QED BY <2>0, <2>3, <3>1, <3>3 DEF XHolder
  <2>4. QED BY <1>4, <2>1, <2>2, <2>3 DEF transfer_queue
<1>5. CASE transfer_queue_add(j)
  <2> DEFINE x == ref[j]
  <2>0. /\ x \in Items /\ UNCHANGED <<we, epc, ref>>
        /\ \A y \in Items : xmutex'[y] = IF y = x THEN NoThread ELSE xmutex[y]
        /\ \A k \in Jobs \ {j} : jpc'[k] = jpc[k]
    <3>1. jpc[j] = "addwork" /\ add_work(x) /\ JobAt(j, "wait") /\ UNCHANGED epc
      BY <1>5 DEF transfer_queue_add
    <3>2. x \in Items
      BY <3>1
    <3>3. UNCHANGED ref /\ UNCHANGED we /\ xmutex' = [xmutex EXCEPT ![x] = NoThread]
      BY <3>1 DEF add_work, workq_add
    <3>4. QED BY <3>1, <3>2, <3>3 DEF JobAt
  <2>1. SUFFICES ASSUME NEW y \in Items, xmutex'[y] # NoThread
                 PROVE  XHolder(y, xmutex[y])'
    BY DEF XHeld
  <2>2. y # x /\ xmutex'[y] = xmutex[y] /\ XHolder(y, xmutex[y])
    BY <2>0, <2>1 DEF XHeld
  <2>3. PICK t : t = xmutex[y] /\ XHolder(y, t)
    BY <2>2
  <2>4. XHolder(y, t)'
    BY <2>0, <2>2, <2>3 DEF XHolder
  <2>5. QED BY <2>2, <2>3, <2>4
<1>6. QED BY <1>1, <1>2, <1>3, <1>4, <1>5 DEF JobStep

(* A worker that holds no transfer's mutex moves on.                       *)
LEMMA HeldWorkerMoves ==
    ASSUME XferIInv, XHeld, NEW w \in Workers,
           epc[w] \notin {"proceed", "transition", "addwork"},
           UNCHANGED <<xmutex, jpc, ref>>,
           \A v \in Workers \ {w} : epc'[v] = epc[v] /\ we'[v] = we[v]
    PROVE  XHeld'
<1>1. \A x \in Items, t \in Jobs \union Workers : XHolder(x, t) => XHolder(x, t)'
  BY DEF XHolder
<1>2. QED BY <1>1, HeldFrame

(* A worker gives a transfer's mutex back.                                 *)
LEMMA HeldGivenBack ==
    ASSUME XferIInv, XHeld, NEW w \in Workers, we[w] \in Items,
           xmutex' = [xmutex EXCEPT ![we[w]] = NoThread],
           UNCHANGED <<jpc, ref, we>>, \A v \in Workers \ {w} : epc'[v] = epc[v]
    PROVE  XHeld'
<1> USE XferParts
<1>1. SUFFICES ASSUME NEW y \in Items, xmutex'[y] # NoThread
               PROVE  XHolder(y, xmutex[y])'
  BY DEF XHeld
<1>2. y # we[w] /\ xmutex'[y] = xmutex[y] /\ XHolder(y, xmutex[y])
  BY <1>1 DEF XHeld
<1>3. PICK t : t = xmutex[y] /\ XHolder(y, t)
  BY <1>2
<1>4. XHolder(y, t)'
  BY <1>2, <1>3 DEF XHolder
<1>5. QED BY <1>2, <1>3, <1>4

LEMMA HeldWorkerStep ==
    ASSUME XferIInv, XHeld, NEW w \in Workers, WorkerStep(w)
    PROVE  XHeld'
<1> USE XferParts
<1>1. CASE Serves(w) \/ EngineEnd(w)
  <2>1. epc[w] \in {"idle", "return"} /\ UNCHANGED <<xmutex, jpc, ref>>
    BY <1>1, WorkerTurn DEF engineUnchanged
  <2>2. PICK a, b : epc' = [epc EXCEPT ![w] = a] /\ we' = [we EXCEPT ![w] = b]
    BY <1>1, WorkerTurn
  <2>3. \A v \in Workers \ {w} : epc'[v] = epc[v] /\ we'[v] = we[v]
    BY <2>2
  <2>4. QED BY <2>1, <2>3, HeldWorkerMoves
<1>2. CASE transition(w)
  <2> DEFINE x == we[w]
  <2>0. /\ x \in Items /\ epc[w] \in {"proceed", "transition"} /\ UNCHANGED <<we, epc, jpc, ref>>
        /\ xmutex' = [xmutex EXCEPT ![x] = w]
    BY <1>2 DEF transition, wqVars, workerVars
  <2>1. XHolder(x, w)'
    BY <2>0 DEF XHolder
  <2>2. \A y \in Items : xmutex'[y] = IF y = x THEN w ELSE xmutex[y]
    BY <2>0
  <2>3. \A y \in Items : \A t : XHolder(y, t) => XHolder(y, t)'
    BY <2>0 DEF XHolder
  <2>4. ASSUME NEW y \in Items, y # x, xmutex'[y] # NoThread
        PROVE  XHolder(y, xmutex[y])'
    <3>1. PICK t : t = xmutex[y] /\ XHolder(y, t)
      BY <2>2, <2>4 DEF XHeld
    <3>2. xmutex'[y] = t /\ XHolder(y, t)'
      BY <2>2, <2>3, <2>4, <3>1
    <3>3. QED BY <3>2
  <2>5. XHolder(x, xmutex[x])'
    BY <2>0, <2>1, <2>2
  <2>6. \A y \in Items : xmutex'[y] # NoThread => XHolder(y, xmutex[y])'
    BY <2>0, <2>4, <2>5
  <2>7. QED BY <2>6 DEF XHeld
<1>3. CASE proceed(w) \/ transition_end(w)
  <2>1. /\ we[w] \in Items /\ xmutex' = [xmutex EXCEPT ![we[w]] = NoThread]
        /\ UNCHANGED <<jpc, ref, we>>
    BY <1>3 DEF proceed, transition_end, Unlocked, wqVars, workerVars
  <2>2. \A v \in Workers \ {w} : epc'[v] = epc[v]
    BY <1>3 DEF proceed, transition_end, EngineAt
  <2>3. QED BY <2>1, <2>2, HeldGivenBack
<1>4. CASE TransferEnds(w) \/ DownloadRetry(w) \/ WaitMore(w) \/ WaitOver(w)
  <2>1. epc[w] = "funct" /\ UNCHANGED <<xmutex, jpc, ref, we>>
    BY <1>4 DEF TransferEnds, DownloadRetry, WaitMore, WaitOver, functUnchanged, wqVars,
                workerVars
  <2>2. \A v \in Workers \ {w} : epc'[v] = epc[v]
    BY <1>4 DEF TransferEnds, DownloadRetry, WaitMore, WaitOver, Finish, EngineAt
  <2>3. QED BY <2>1, <2>2, HeldWorkerMoves
<1>5. CASE transition_queue(w)
  <2>1. /\ UNCHANGED <<xmutex, jpc, ref, we>>
        /\ \A v \in Workers : epc'[v] = IF v = w THEN "addwork" ELSE epc[v]
    BY <1>5 DEF transition_queue, EngineAt, wqVars, workerVars
  <2>2. \A y \in Items, t \in Jobs \union Workers : XHolder(y, t) => XHolder(y, t)'
    BY <2>1 DEF XHolder
  <2>3. QED BY <2>1, <2>2, HeldFrame
<1>6. CASE transition_queue_add(w)
  <2>1. epc[w] = "addwork" /\ add_work(we[w]) /\ EngineAt(w, "return") /\ UNCHANGED jpc
    BY <1>6 DEF transition_queue_add
  <2>2. /\ we[w] \in Items /\ xmutex' = [xmutex EXCEPT ![we[w]] = NoThread]
        /\ UNCHANGED <<jpc, ref, we>>
    BY <2>1 DEF add_work, workq_add
  <2>3. \A v \in Workers \ {w} : epc'[v] = epc[v]
    BY <2>1 DEF EngineAt
  <2>4. QED BY <2>2, <2>3, HeldGivenBack
<1>7. QED BY <1>1, <1>2, <1>3, <1>4, <1>5, <1>6 DEF WorkerStep

LEMMA HeldStep ==
    ASSUME XferIInv, XHeld, [XferNext]_cloudVars
    PROVE  XHeld'
<1>1. ASSUME UNCHANGED <<xmutex, jpc, ref, we, epc>>
      PROVE  XHeld'
  BY <1>1, HeldFrame DEF XHolder
<1>2. ASSUME NEW v \in Viewers, update_statistics(v) \/ update_statistics_end(v)
      PROVE  XHeld'
  BY <1>1, <1>2 DEF update_statistics, update_statistics_end, wqVars, workerVars
<1>3. ASSUME NEW j \in Jobs, CancelJob(j) PROVE XHeld'
  BY <1>1, <1>3 DEF CancelJob, wqVars, workerVars
<1>4. CASE UNCHANGED cloudVars
  BY <1>1, <1>4 DEF cloudVars, xvars, wqVars, workerVars
<1>5. QED BY <1>2, <1>3, <1>4, HeldJobStep, HeldWorkerStep DEF XferNext

-----------------------------------------------------------------------------
(* The three promises that shared transfers break: they hold if no two     *)
(* jobs move the same part.                                                *)
OwnParts == \A j, k \in Jobs : Part[j] = Part[k] => j = k

XOwn ==
    /\ ~crashed
    /\ \A j \in Jobs : jpc[j] # "inc"
    /\ \A j \in Jobs : ref[j] # NoItem => part[ref[j]] = Part[j]
    /\ \A x \in Items : m_cancel[x] => \E j \in canceled : ref[j] = x

LEMMA OwnUnshared ==
    ASSUME OwnParts, XOwn, NEW j \in Jobs, NEW k \in Jobs, ref[k] = ref[j], ref[j] # NoItem
    PROVE  k = j
<1>1. part[ref[j]] = Part[j] /\ part[ref[k]] = Part[k]
  BY DEF XOwn
<1>2. QED BY <1>1 DEF OwnParts

LEMMA OwnGetXfer ==
    ASSUME OwnParts, XferIInv, XOwn, NEW j \in Jobs, get_xfer(j)
    PROVE  XOwn'
<1> USE XferParts
<1>0. jpc[j] = "start" /\ ref[j] = NoItem /\ NoItem \notin Items
  BY ItemsFinite DEF get_xfer, XRefs
<1>1. \A x \in Similar(j) : FALSE
  <2>1. SUFFICES ASSUME NEW x \in Similar(j) PROVE FALSE
    OBVIOUS
  <2>2. x \in m_transfer_list /\ part[x] = Part[j] /\ x \in Items
    BY DEF Similar
  <2>3. PICK k \in Jobs : ref[k] = x
    BY <2>2 DEF UseCounts
  <2>4. part[x] = Part[k]
    BY <1>0, <2>2, <2>3 DEF XOwn
  <2>5. QED BY <1>0, <2>2, <2>3, <2>4 DEF OwnParts
<1>2. PICK x \in Items :
        /\ m_state[x] = "none"
        /\ ref' = [ref EXCEPT ![j] = x] /\ part' = [part EXCEPT ![x] = Part[j]]
  BY <1>1 DEF get_xfer
<1>3. jpc' = [jpc EXCEPT ![j] = "queue"] /\ UNCHANGED <<m_cancel, canceled, crashed>>
  BY <1>1 DEF get_xfer, JobAt
<1>4. /\ \A k \in Jobs : jpc'[k] = IF k = j THEN "queue" ELSE jpc[k]
      /\ \A k \in Jobs : ref'[k] = IF k = j THEN x ELSE ref[k]
  BY <1>2, <1>3
<1>5. \A y \in Items : part'[y] = IF y = x THEN Part[j] ELSE part[y]
  <2>1. part = [y \in Items |-> part[y]]
    BY DEF XTypes
  <2>2. QED BY <1>2, <2>1, Zenon
<1>6. \A k \in Jobs : ref[k] # x
  BY <1>2 DEF XRefs
<1>7. \A k \in Jobs : ref'[k] # NoItem => part'[ref'[k]] = Part[k]
  <2>1. SUFFICES ASSUME NEW k \in Jobs, ref'[k] # NoItem PROVE part'[ref'[k]] = Part[k]
    OBVIOUS
  <2>2. CASE k = j
    BY <1>4, <1>5, <2>2
  <2>3. CASE k # j
    <3>1. ref'[k] = ref[k] /\ ref[k] # x /\ ref[k] \in Items
      BY <1>4, <1>6, <2>1, <2>3
    <3>2. part[ref[k]] = Part[k]
      BY <2>1, <3>1 DEF XOwn
    <3>3. QED BY <1>5, <3>1, <3>2
  <2>4. QED BY <2>2, <2>3
<1>8. canceled \subseteq Jobs
  BY DEF XTypes
<1>9. \A y \in Items : m_cancel'[y] => \E k \in canceled' : ref'[k] = y
  <2>1. SUFFICES ASSUME NEW y \in Items, m_cancel[y] PROVE \E k \in canceled : ref'[k] = y
    BY <1>3
  <2>2. PICK k \in canceled : ref[k] = y
    BY <2>1 DEF XOwn
  <2>3. QED BY <1>0, <1>4, <1>8, <2>2
<1>10. QED BY <1>3, <1>4, <1>7, <1>9 DEF XOwn

(* A step that changes no reference and no cancellation.                   *)
LEMMA OwnFrame ==
    ASSUME XferIInv, XOwn, UNCHANGED <<crashed, ref, part, m_cancel, canceled>>,
           jpc' = jpc \/ \E j \in Jobs : \E a \in JobPcs : a # "inc" /\ jpc' = [jpc EXCEPT ![j] = a]
    PROVE  XOwn'
<1> USE XferParts
<1>1. \A k \in Jobs : jpc'[k] # "inc"
  <2>1. CASE jpc' = jpc
    BY <2>1 DEF XOwn
  <2>2. CASE \E j \in Jobs : \E a \in JobPcs : a # "inc" /\ jpc' = [jpc EXCEPT ![j] = a]
    <3>1. PICK j \in Jobs, a \in JobPcs : a # "inc" /\ jpc' = [jpc EXCEPT ![j] = a]
      BY <2>2
    <3>2. QED BY <3>1 DEF XOwn
  <2>3. QED BY <2>1, <2>2
<1>2. QED BY <1>1 DEF XOwn

LEMMA OwnWait ==
    ASSUME XferIInv, XOwn, NEW j \in Jobs, wait_end_of_transfer(j)
    PROVE  XOwn'
<1> USE XferParts
<1>p. jpc[j] = "wait" /\ ref[j] \in Items
  BY DEF wait_end_of_transfer
<1>x. PICK x \in Items : x = ref[j]
  BY <1>p
<1>0. /\ m_cancel' = [m_cancel EXCEPT ![x] = m_cancel[x] \/ j \in canceled]
      /\ \E a \in {"release", "cancelwait", "timedwait"} : jpc' = [jpc EXCEPT ![j] = a]
      /\ UNCHANGED <<crashed, ref, part, canceled>>
  BY <1>x DEF wait_end_of_transfer, JobAt
<1>1. m_cancel \in [Items -> BOOLEAN] /\ canceled \subseteq Jobs
  BY DEF XTypes
<1>2. \A y \in Items : m_cancel'[y] = IF y = x THEN (m_cancel[y] \/ j \in canceled) ELSE m_cancel[y]
  BY <1>0, <1>1
<1>3. \A k \in Jobs : jpc'[k] # "inc"
  BY <1>0 DEF XOwn
<1>4. \A y \in Items : m_cancel'[y] => \E k \in canceled' : ref'[k] = y
  BY <1>0, <1>2, <1>x DEF XOwn
<1>5. QED BY <1>0, <1>3, <1>4 DEF XOwn

(* The only user is the last: it will delete the transfer.                 *)
LEMMA OwnRelease ==
    ASSUME OwnParts, XferIInv, XOwn, NEW j \in Jobs, release(j)
    PROVE  XOwn'
<1> USE XferParts
<1>p. jpc[j] = "release" /\ ref[j] \in Items /\ NoItem \notin Items
  BY ItemsFinite DEF release
<1>x. PICK x \in Items : x = ref[j]
  BY <1>p
<1>1. \A k \in Jobs : ref[k] = x => k = j
  BY <1>p, <1>x, OwnUnshared
<1>2. Holders(x) = {j}
  BY <1>p, <1>x, <1>1 DEF Holders
<1>3. Listed(x)
  BY <1>p, <1>x DEF Listed, XRefs, XOwn
<1>4. m_use_count[x] = 1 + 1
  <2>1. m_use_count[x] = In(Listed(x)) + Cardinality(Holders(x))
    BY UseCount
  <2>2. In(Listed(x)) = 1 /\ Cardinality({j}) = 1
    BY <1>3, FS_Singleton DEF In
  <2>3. QED BY <1>2, <2>1, <2>2
<1>5. LastUser(m_use_count[x] - 1)
  BY <1>4 DEF LastUser
<1>6. jpc' = [jpc EXCEPT ![j] = "delete"] /\ UNCHANGED <<crashed, ref, part, m_cancel, canceled>>
  BY <1>5, <1>x DEF release, JobAt
<1>7. "delete" \in JobPcs
  BY DEF JobPcs
<1>8. QED BY <1>6, <1>7, OwnFrame

LEMMA OwnDelete ==
    ASSUME OwnParts, XferIInv, XOwn, NEW j \in Jobs, release_delete(j)
    PROVE  XOwn'
<1> USE XferParts
<1>p. jpc[j] = "dec" /\ ref[j] \in Items /\ NoItem \notin Items
  BY ItemsFinite DEF release_delete
<1>x. PICK x \in Items : x = ref[j]
  BY <1>p
<1>0. /\ m_cancel' = [m_cancel EXCEPT ![x] = FALSE]
      /\ crashed' = (\E k \in Jobs \ {j} : ref[k] = x)
      /\ jpc' = [jpc EXCEPT ![j] = "end"] /\ ref' = [ref EXCEPT ![j] = NoItem]
      /\ UNCHANGED <<part, canceled>>
  BY <1>x DEF release_delete, JobEnds, JobAt
<1>1. \A k \in Jobs : ref[k] = x => k = j
  BY <1>p, <1>x, OwnUnshared
<1>2. m_cancel \in [Items -> BOOLEAN] /\ canceled \subseteq Jobs
  BY DEF XTypes
<1>3. /\ \A y \in Items : m_cancel'[y] = IF y = x THEN FALSE ELSE m_cancel[y]
      /\ \A k \in Jobs : jpc'[k] = IF k = j THEN "end" ELSE jpc[k]
      /\ \A k \in Jobs : ref'[k] = IF k = j THEN NoItem ELSE ref[k]
  BY <1>0, <1>2
<1>4. ~crashed'
  BY <1>0, <1>1
<1>5. ASSUME NEW y \in Items, m_cancel'[y] PROVE \E k \in canceled' : ref'[k] = y
  <2>1. y # x /\ m_cancel[y]
    BY <1>3, <1>5
  <2>2. PICK k \in canceled : ref[k] = y
    BY <2>1 DEF XOwn
  <2>3. QED BY <1>0, <1>2, <1>3, <1>x, <2>1, <2>2
<1>6. QED BY <1>0, <1>3, <1>4, <1>5 DEF XOwn

LEMMA OwnStep ==
    ASSUME OwnParts, XferIInv, XOwn, [XferNext]_cloudVars
    PROVE  XOwn'
<1>1. CASE UNCHANGED cloudVars
  BY <1>1, OwnFrame DEF cloudVars, xvars, xferVars
<1>2. ASSUME NEW j \in Jobs, JobStep(j)
      PROVE  XOwn'
  <2>1. CASE get_xfer(j)
    BY <2>1, OwnGetXfer
  <2>2. CASE get_xfer_inc(j)
    BY <2>2 DEF get_xfer_inc, XOwn
  <2>3. CASE transfer_queue(j) \/ transfer_queue_add(j) \/ transfer_timedwait_timeout(j)
             \/ release_remove(j)
    <3>1. jpc' = jpc \/ \E a \in {"addwork", "wait", "dec"} : jpc' = [jpc EXCEPT ![j] = a]
      BY <2>3 DEF transfer_queue, transfer_queue_add, transfer_timedwait_timeout, release_remove,
                  JobAt
    <3>2. UNCHANGED <<crashed, ref, part, m_cancel, canceled>>
      BY <2>3 DEF transfer_queue, transfer_queue_add, transfer_timedwait_timeout, release_remove,
                  add_work, xferVars
    <3>3. jpc' = jpc \/ \E a \in JobPcs : a # "inc" /\ jpc' = [jpc EXCEPT ![j] = a]
      BY <3>1 DEF JobPcs
    <3>4. QED BY <3>2, <3>3, OwnFrame
  <2>4. CASE wait_end_of_transfer(j)
    BY <2>4, OwnWait
  <2>5. CASE transfer_wait_woken(j)
    <3>1. /\ jpc' = jpc \/ jpc' = [jpc EXCEPT ![j] = "release"]
          /\ UNCHANGED <<crashed, ref, part, m_cancel, canceled>>
      BY <2>5 DEF transfer_wait_woken, xferVars
    <3>2. "release" \in JobPcs
      BY DEF JobPcs
    <3>3. QED BY <3>1, <3>2, OwnFrame
  <2>6. CASE release(j)
    BY <2>6, OwnRelease
  <2>7. CASE release_delete(j)
    BY <2>7, OwnDelete
  <2>8. QED BY <1>2, <2>1, <2>2, <2>3, <2>4, <2>5, <2>6, <2>7 DEF JobStep
<1>3. ASSUME NEW j \in Jobs, CancelJob(j) PROVE XOwn'
  <2>1. canceled' = canceled \union {j} /\ UNCHANGED <<jpc, crashed, ref, part, m_cancel>>
    BY <1>3 DEF CancelJob, xferVars
  <2>2. QED BY <2>1 DEF XOwn
<1>4. ASSUME NEW w \in Workers, WorkerStep(w)
      PROVE  XOwn'
  <2>1. UNCHANGED <<jpc, crashed, ref, part, m_cancel, canceled>>
    <3>1. CASE Serves(w) \/ EngineEnd(w)
      BY <3>1 DEF Serves, EngineEnd, engineUnchanged, xferVars
    <3>2. CASE proceed(w) \/ transition_end(w)
      BY <3>2 DEF proceed, transition_end
    <3>l. CASE transition(w)
      BY <3>l DEF transition, xferVars
    <3>3. CASE TransferEnds(w) \/ DownloadRetry(w) \/ WaitMore(w) \/ WaitOver(w)
      BY <3>3 DEF TransferEnds, DownloadRetry, WaitMore, WaitOver, functUnchanged
    <3>4. CASE transition_queue(w) \/ transition_queue_add(w)
      BY <3>4 DEF transition_queue, transition_queue_add, add_work, xferVars
    <3>5. QED BY <1>4, <3>1, <3>2, <3>l, <3>3, <3>4 DEF WorkerStep
  <2>2. QED BY <2>1, OwnFrame
<1>v. ASSUME NEW v \in Viewers, update_statistics(v) \/ update_statistics_end(v)
      PROVE  XOwn'
  BY <1>v, OwnFrame DEF update_statistics, update_statistics_end, xferVars
<1>5. QED BY <1>1, <1>v, <1>2, <1>3, <1>4 DEF XferNext

LEMMA CloudOwnInvariant ==
    ASSUME OwnParts
    PROVE  XferSpec => [](XferIInv /\ XOwn)
<1>1. XferInit => XferIInv /\ XOwn
  <2>1. XferInit => XOwn
    BY DEF XferInit, XOwn
  <2>2. QED BY <2>1, XferInitHolds
<1>2. (XferIInv /\ XOwn) /\ [XferNext]_cloudVars => (XferIInv /\ XOwn)'
  BY OwnStep, XferStep
<1>3. QED BY <1>1, <1>2, PTL DEF XferSpec

(* Sharing is the only cause of the deletion of a transfer in use: when    *)
(* every job moves a part of its own no job refers to a deleted transfer.  *)
THEOREM CloudUnsharedDeleted ==
    ASSUME OwnParts
    PROVE  XferSpec => []DeletedUnshared
<1>1. XferIInv /\ XOwn => DeletedUnshared
  BY XferParts DEF DeletedUnshared, XOwn, XRefs, Referred, Ended
<1>2. QED BY <1>1, CloudOwnInvariant, PTL

(* And of the lock cycles: a job that has the list's mutex and wants that  *)
(* of its transfer finds nobody who is about to change its state.          *)
THEOREM CloudUnsharedLocks ==
    ASSUME OwnParts
    PROVE  XferSpec => []NoLockCycle
<1>1. XferIInv /\ XOwn /\ XHeld => NoLockCycle
  <2>1. SUFFICES ASSUME XferIInv, XOwn, XHeld, NEW j \in Jobs,
                        jpc[j] \in {"inc", "dec"}, ~Free(ref[j])
                 PROVE  FALSE
    BY DEF NoLockCycle, LockCycle
  <2>2. jpc[j] = "dec" /\ ref[j] \in Items /\ m_state[ref[j]] \in {"DONE", "ERROR"}
    BY <2>1, XferParts DEF XOwn, XRefs, Ended
  <2>3. PICK t : XHolder(ref[j], t)
    BY <2>1, <2>2 DEF XHeld, Free
  <2>4. CASE \E k \in Jobs : ref[k] = ref[j] /\ jpc[k] \in {"queue", "addwork"}
    <3>1. ref[j] # NoItem
      BY <2>2, ItemsFinite
    <3>2. QED BY <2>1, <2>2, <2>4, <3>1, OwnUnshared
  <2>5. CASE \E w \in Workers : we[w] = ref[j] /\ epc[w] \in {"proceed", "transition", "addwork"}
    BY <2>1, <2>2, <2>5, XferParts DEF XQueued, XBusy
  <2>6. QED BY <2>3, <2>4, <2>5 DEF XHolder
<1>2. XferInit => XHeld
  BY HeldInit
<1>3. XferIInv /\ XHeld /\ [XferNext]_cloudVars => XHeld'
  BY HeldStep
<1>4. QED BY <1>1, <1>2, <1>3, CloudOwnInvariant, PTL DEF XferSpec

(* And of the marks on transfers other jobs still want: a transfer is      *)
(* marked canceled only when the job that uses it is.                      *)
THEOREM CloudUnsharedCancel ==
    ASSUME OwnParts
    PROVE  XferSpec => []CancelOwnOnly
<1>1. XferIInv /\ XOwn => CancelOwnOnly
  <2>1. SUFFICES ASSUME XferIInv, XOwn, NEW j \in Jobs, ref[j] # NoItem, m_cancel[ref[j]]
                 PROVE  j \in canceled
    BY DEF CancelOwnOnly
  <2>2. ref[j] \in Items /\ canceled \subseteq Jobs
    BY <2>1, XferParts DEF XTypes
  <2>3. PICK k \in canceled : ref[k] = ref[j]
    BY <2>1, <2>2 DEF XOwn
  <2>4. QED BY <2>1, <2>2, <2>3, OwnUnshared
<1>2. QED BY <1>1, CloudOwnInvariant, PTL
=============================================================================
