--------------------------- MODULE WatchdogProofs ---------------------------
(***************************************************************************)
(* Proofs about the watchdog for any set of timers, any intervals and any  *)
(* sleep time.  A timer is called in time although pings get lost because  *)
(* of three facts about the clock that IInv keeps: the thread never sleeps *)
(* beyond SleepTime after its last walk, next_time is no later than any    *)
(* entry the walk has passed, and an entry registered since the walk is    *)
(* due no earlier than the next one may begin.                             *)
(***************************************************************************)
EXTENDS Watchdog, CollectionLemmas

Entries == [next_fire : Nat, interval : Nat \ {0}, one_shot : BOOLEAN, killed : BOOLEAN]
Windows == [from : Int, to : Int]

Types ==
    /\ TypeOK
    /\ wd_queue \in Seq(Timers) /\ wd_inactive \subseteq Timers
    /\ wd \in [Timers -> Entries]
    /\ calls \in [Timers -> Nat] /\ due \in [Timers -> Windows]

(* A listed timer is in one list, once, and its user has started it and    *)
(* not stopped it; the walk stands on a listed timer.                      *)
Listed ==
    /\ IsInjective(wd_queue)
    /\ Range(wd_queue) \cap wd_inactive = {}
    /\ \A t \in Range(wd_queue) \cup wd_inactive : user[t] \in {"ping", "running"}
    /\ pc \in {"walk", "callback"} /\ p # NoTimer => p \in Range(wd_queue)
    /\ pc = "callback" => p # NoTimer
    /\ stop = "stopped" => pc = "exit"

(* The clock against the last walk and the end of the sleep.               *)
Clock ==
    /\ pc \in {"walk", "callback", "unlocked"} => now = watchdog_time
    /\ now <= watchdog_time + SleepTime
    /\ next_time <= watchdog_time + SleepTime
    /\ pc = "callback" => Due(p)
    /\ quit # Never /\ pc # "exit" => watchdog_time <= quit

(* The position of t comes before that of the entry the walk stands on.    *)
Passed(k) == \A m \in DOMAIN wd_queue : wd_queue[m] = p => k < m

(* Entries against their promises and against the end of the sleep.        *)
InTime ==
    /\ \A t \in Range(wd_queue) :
          /\ due[t].from <= wd[t].next_fire
          /\ wd[t].next_fire <= due[t].to
          /\ now <= due[t].to
          /\ pc \notin {"walk", "callback"} => next_time <= due[t].to
    /\ pc \in {"walk", "callback"} =>
          \A k \in DOMAIN wd_queue : Passed(k) => next_time <= wd[wd_queue[k]].next_fire
    /\ \A t \in Timers : user[t] = "new" => wd[t].interval = Wait[t]

(* How often a timer was called, told from its state.                      *)
Waits(t) == t \in Range(wd_queue) \/ user[t] = "new"

Called(t) ==
    /\ Kind[t] = "thread" => wd[t].one_shot /\ calls[t] <= 1 /\ (Waits(t) => calls[t] = 0)
    /\ Kind[t] = "child" =>
          /\ calls[t] <= 2
          /\ Waits(t) => ~wd[t].one_shot
          /\ Waits(t) /\ wd[t].killed => calls[t] = 1
          /\ Waits(t) /\ ~wd[t].killed => calls[t] = 0
    /\ Kind[t] = "periodic" => calls[t] = 0 /\ ~wd[t].one_shot

CallsCounted == \A t \in Timers : Called(t)

IInv == Types /\ Listed /\ Clock /\ InTime /\ CallsCounted

-----------------------------------------------------------------------------
(* The walk goes from one position of the list to the next.                *)
LEMMA NextEntryAt ==
    ASSUME Types, Listed, NEW k \in 1..Len(wd_queue)
    PROVE  NextEntry(wd_queue[k]) = IF k < Len(wd_queue) THEN wd_queue[k + 1] ELSE NoTimer
<1>1. Len(wd_queue) \in Nat /\ DOMAIN wd_queue = 1..Len(wd_queue) /\ wd_queue[k] \in Timers
  BY LenProperties, ElementOfSeq DEF Types
<1>2. Position(wd_queue[k]) = k
  BY <1>1 DEF Listed, IsInjective, Position
<1>3. QED BY <1>2 DEF NextEntry

(* After a step of the walk from entry p, the entries passed are those     *)
(* passed before, and p.                                                   *)
LEMMA WalkStep ==
    ASSUME Types, Listed, p \in Range(wd_queue)
    PROVE  /\ NextEntry(p) # NoTimer => NextEntry(p) \in Range(wd_queue)
           /\ NextEntry(p) \in Timers \cup {NoTimer}
           /\ \A k \in DOMAIN wd_queue :
                 (\A m \in DOMAIN wd_queue : wd_queue[m] = NextEntry(p) => k < m)
                     => Passed(k) \/ wd_queue[k] = p
<1>1. Len(wd_queue) \in Nat /\ DOMAIN wd_queue = 1..Len(wd_queue) /\ wd_queue \in Seq(Timers)
  BY LenProperties DEF Types
<1>2. PICK h \in 1..Len(wd_queue) : wd_queue[h] = p
  BY <1>1 DEF Range
<1>3. NextEntry(p) = IF h < Len(wd_queue) THEN wd_queue[h + 1] ELSE NoTimer
  BY <1>2, NextEntryAt
<1>4. \A m \in DOMAIN wd_queue : wd_queue[m] = p => m = h
  BY <1>1, <1>2 DEF Listed, IsInjective
<1>5. CASE h < Len(wd_queue)
  <2>1. h + 1 \in DOMAIN wd_queue /\ wd_queue[h + 1] \in Timers
    BY <1>1, <1>5, ElementOfSeq
  <2>2. ASSUME NEW k \in DOMAIN wd_queue,
               \A m \in DOMAIN wd_queue : wd_queue[m] = NextEntry(p) => k < m
        PROVE  Passed(k) \/ wd_queue[k] = p
    <3>1. k < h + 1
      BY <1>3, <1>5, <2>1, <2>2
    <3>2. k = h \/ k < h
      BY <1>1, <3>1
    <3>3. QED BY <1>2, <1>4, <3>2 DEF Passed
  <2>3. QED BY <1>3, <1>5, <2>1, <2>2 DEF Range
<1>6. CASE ~(h < Len(wd_queue))
  <2>1. \A k \in DOMAIN wd_queue : k = h \/ k < h
    BY <1>1, <1>6
  <2>2. \A k \in DOMAIN wd_queue : Passed(k) \/ wd_queue[k] = p
    BY <1>2, <1>4, <2>1 DEF Passed
  <2>3. QED BY <1>3, <1>6, <2>2
<1>7. QED BY <1>5, <1>6

(* The arithmetic of the constants.                                        *)
LEMMA Times ==
    /\ SleepTime \in Nat \ {0} /\ KillDelay \in Nat \ {0} /\ MaxTime \in Nat
    /\ \A t \in Timers : Wait[t] \in Nat \ {0}
    /\ Never \notin Nat
BY TimesAssumption DEF Never

-----------------------------------------------------------------------------
LEMMA InitIInv == Init => IInv
<1> SUFFICES ASSUME Init PROVE IInv
  OBVIOUS
<1> USE DEF Init
<1>1. Range(wd_queue) = {} /\ IsInjective(wd_queue) /\ wd_queue \in Seq(Timers)
  BY EmptyList
<1>2. TypeOK
  <2>1. now \in 0 .. MaxTime /\ watchdog_time \in 0 .. now /\ next_time \in 0 .. MaxTime + SleepTime
    BY Times
  <2>2. user \in [Timers -> {"new", "ping", "running", "unping", "free"}]
    OBVIOUS
  <2>3. QED BY <1>1, <2>1, <2>2 DEF TypeOK
<1>3. wd \in [Timers -> Entries]
  BY Times, TimersAssumption DEF Entries
<1>4. Types
  BY <1>1, <1>2, <1>3 DEF Types, Windows, NoWindow
<1>5. Clock
  BY Times DEF Clock
<1>6. CallsCounted
  <2> SUFFICES ASSUME NEW t \in Timers PROVE Called(t)
    BY DEF CallsCounted
  <2>1. Kind[t] \in {"thread", "child", "periodic"}
    BY TimersAssumption
  <2>2. wd[t].one_shot = (Kind[t] = "thread")
    OBVIOUS
  <2>3. wd[t].killed = FALSE /\ calls[t] = 0
    OBVIOUS
  <2> HIDE DEF Init
  <2>4. CASE Kind[t] = "thread"
    <3>1. wd[t].one_shot = TRUE
      BY <2>2, <2>4
    <3>2. calls[t] <= 1
      BY <2>3
    <3>3. QED BY <2>3, <2>4, <3>1, <3>2, Zenon DEF Called
  <2>5. CASE Kind[t] # "thread"
    <3>1. wd[t].one_shot = FALSE
      BY <2>2, <2>5
    <3>2. calls[t] <= 2
      BY <2>3
    <3>3. QED BY <2>3, <2>5, <3>1, <3>2, Zenon DEF Called
  <2>6. QED BY <2>4, <2>5
<1>7. QED BY <1>1, <1>4, <1>5, <1>6 DEF IInv, Listed, InTime

-----------------------------------------------------------------------------
(* The users.                                                              *)
LEMMA RegisterIInv == ASSUME IInv, NEW t \in Timers, register_watchdog(t) PROVE IInv'
<1> USE DEF IInv, register_watchdog, wd_lock, thread
<1>1. t \notin Range(wd_queue) \cup wd_inactive
  BY DEF Listed
<1>2. /\ wd_queue' \in Seq(Timers) /\ IsInjective(wd_queue')
      /\ Range(wd_queue') = Range(wd_queue) \cup {t}
  BY <1>1, AppendList DEF Types, Listed
<1>3. wd[t] \in Entries /\ watchdog_time \in Nat /\ now \in Nat /\ Wait[t] \in Nat
  BY Times DEF Types, TypeOK
<1>4. Types'
  <2>1. TypeOK'
    BY <1>2 DEF Types, TypeOK
  <2>2. wd' \in [Timers -> Entries]
    <3>1. watchdog_time + wd[t].interval \in Nat
      BY <1>3 DEF Entries
    <3>2. [wd[t] EXCEPT !.next_fire = watchdog_time + wd[t].interval] \in Entries
      BY <1>3, <3>1 DEF Entries
    <3>3. QED BY <3>2 DEF Types
  <2>3. FirstWindow(Wait[t]) \in Windows
    BY <1>3, Times DEF FirstWindow, Later, Windows
  <2>4. QED BY <1>2, <2>1, <2>2, <2>3 DEF Types
<1>5. Listed'
  BY <1>1, <1>2 DEF Listed, Types, TypeOK
<1>6. Clock'
  BY DEF Clock, Due
<1>7. InTime'
  <2> USE DEF InTime
  <2>1. ASSUME NEW u \in Range(wd_queue')
        PROVE  /\ due'[u].from <= wd'[u].next_fire
               /\ wd'[u].next_fire <= due'[u].to
               /\ now <= due'[u].to
               /\ next_time <= due'[u].to
    <3>1. CASE u # t
      BY <1>2, <2>1, <3>1 DEF Types
    <3>2. CASE u = t
      <4>1. wd'[t].next_fire = watchdog_time + Wait[t]
        BY <1>3 DEF Types, Entries
      <4>2. due'[t].from = now + Wait[t] - SleepTime /\ due'[t].to = now + Later(Wait[t], SleepTime)
        BY DEF Types, FirstWindow
      <4>3. watchdog_time <= now /\ now <= watchdog_time + SleepTime /\ next_time <= watchdog_time + SleepTime
            /\ next_time \in Nat
        BY <1>3, Times DEF Types, TypeOK, Clock
      <4>4. Later(Wait[t], SleepTime) \in Nat /\ Wait[t] <= Later(Wait[t], SleepTime)
            /\ SleepTime <= Later(Wait[t], SleepTime)
        BY <1>3, Times DEF Later
      <4> HIDE DEF IInv, register_watchdog, wd_lock, thread, InTime
      <4>5. QED BY <1>3, <3>2, <4>1, <4>2, <4>3, <4>4, Times
    <3>3. QED BY <3>1, <3>2
  <2>2. \A u \in Timers : user'[u] = "new" => wd'[u].interval = Wait[u]
    BY DEF Types, TypeOK
  <2>3. QED BY <2>1, <2>2
<1>8. CallsCounted'
  BY <1>2 DEF CallsCounted, Called, Waits, Types, TypeOK
<1>9. QED BY <1>4, <1>5, <1>6, <1>7, <1>8

LEMMA UnregisterIInv == ASSUME IInv, NEW t \in Timers, unregister_watchdog(t) PROVE IInv'
<1> USE DEF IInv, unregister_watchdog, wd_lock, thread
<1>1. /\ wd_queue' \in Seq(Timers) /\ IsInjective(wd_queue')
      /\ Range(wd_queue') = Range(wd_queue) \ {t}
  BY RemoveFirstList DEF Types, Listed
<1>2. Types'
  BY <1>1, SMTT(30) DEF Types, TypeOK, NoWindow, Windows
<1>3. Listed'
  BY <1>1 DEF Listed, Types, TypeOK
<1>4. Clock'
  BY DEF Clock, Due
<1>5. InTime'
  BY <1>1 DEF InTime, Types, TypeOK
<1>6. CallsCounted'
  BY <1>1 DEF CallsCounted, Called, Waits, Types, TypeOK
<1>7. QED BY <1>2, <1>3, <1>4, <1>5, <1>6

LEMMA UserPingsIInv == ASSUME IInv, NEW t \in Timers, UserPings(t) PROVE IInv'
<1> USE DEF IInv, UserPings, lists, thread, history
<1>1. signaled' \in BOOLEAN
  BY DEF Types, TypeOK, ping_watchdog
<1>2. Types'
  BY <1>1 DEF Types, TypeOK
<1>3. Listed'
  BY DEF Listed, Types, TypeOK
<1>4. Clock'
  BY DEF Clock, Due
<1>5. InTime'
  BY DEF InTime, Passed, Types, TypeOK
<1>6. CallsCounted'
  BY DEF CallsCounted, Called, Waits, Types, TypeOK
<1>7. QED BY <1>2, <1>3, <1>4, <1>5, <1>6

LEMMA StopIInv == ASSUME IInv, stop_watchdog \/ StopPings PROVE IInv'
<1> USE DEF IInv, stop_watchdog, StopPings, lists, thread, history
<1>1. signaled' \in BOOLEAN
  BY DEF Types, TypeOK, ping_watchdog
<1>2. Types'
  BY <1>1 DEF Types, TypeOK
<1>3. Listed'
  BY DEF Listed, Types, TypeOK
<1>4. Clock'
  BY Times DEF Clock, Due, Types, TypeOK
<1>5. InTime'
  BY DEF InTime, Passed
<1>6. CallsCounted'
  BY DEF CallsCounted, Called, Waits
<1>7. QED BY <1>2, <1>3, <1>4, <1>5, <1>6

LEMMA StopJoinsIInv == ASSUME IInv, StopJoins PROVE IInv'
<1> USE DEF IInv, StopJoins, thread, history
<1>1. Range(wd_queue') = {} /\ IsInjective(wd_queue') /\ wd_queue' \in Seq(Timers)
  BY EmptyList
<1>2. Types'
  BY <1>1 DEF Types, TypeOK
<1>3. Listed'
  BY <1>1 DEF Listed
<1>4. Clock'
  BY DEF Clock, Due
<1>5. InTime'
  BY <1>1 DEF InTime
<1>6. CallsCounted'
  BY <1>1 DEF CallsCounted, Called, Waits
<1>7. QED BY <1>2, <1>3, <1>4, <1>5, <1>6

-----------------------------------------------------------------------------
(* The thread.  A walk that begins has passed no entry.                    *)
LEMMA WalkBegins ==
    ASSUME NEW queue \in Seq(Timers), Types, walk_list(queue)
    PROVE  /\ p' \in Timers \cup {NoTimer}
           /\ p' # NoTimer => p' \in Range(queue)
           /\ watchdog_time' = now /\ next_time' = now + SleepTime
           /\ \A k \in DOMAIN queue : ~(\A m \in DOMAIN queue : queue[m] = p' => k < m)
<1>1. Len(queue) \in Nat /\ DOMAIN queue = 1..Len(queue)
  BY RangeElements
<1>2. CASE queue = << >>
  BY <1>2 DEF walk_list
<1>3. CASE queue # << >>
  <2>1. p' = Head(queue) /\ Head(queue) = queue[1] /\ 1 \in DOMAIN queue
    BY <1>1, <1>3, EmptySeq DEF walk_list
  <2>2. Head(queue) \in Range(queue) /\ Head(queue) \in Timers
    BY <1>3, TailList
  <2>3. QED BY <1>1, <2>1, <2>2 DEF walk_list
<1>4. QED BY <1>2, <1>3

LEMMA LoopTopIInv == ASSUME IInv, LoopTop PROVE IInv'
<1> USE DEF IInv, LoopTop, lists, history
<1>1. CASE quit # Never
  <2>1. Types'
    BY <1>1 DEF Types, TypeOK
  <2>2. Listed' /\ Clock'
    BY <1>1 DEF Listed, Clock
  <2>3. InTime' /\ CallsCounted'
    BY <1>1 DEF InTime, CallsCounted, Called, Waits
  <2>4. QED BY <2>1, <2>2, <2>3
<1>2. CASE quit = Never
  <2>1. walk_list(wd_queue) /\ pc' = "walk"
    BY <1>2 DEF walk_list
  <2>2. /\ p' \in Timers \cup {NoTimer} /\ (p' # NoTimer => p' \in Range(wd_queue))
        /\ watchdog_time' = now /\ next_time' = now + SleepTime
        /\ \A k \in DOMAIN wd_queue : ~(\A m \in DOMAIN wd_queue : wd_queue[m] = p' => k < m)
    BY <2>1, WalkBegins DEF Types
  <2>3. Types'
    BY <2>1, <2>2, Times DEF Types, TypeOK
  <2>4. Listed'
    BY <2>1, <2>2 DEF Listed
  <2>5. Clock'
    BY <1>2, <2>1, <2>2, Times DEF Clock, Types, TypeOK
  <2>6. InTime'
    BY <2>1, <2>2 DEF InTime, Passed
  <2>7. CallsCounted'
    BY DEF CallsCounted, Called, Waits
  <2>8. QED BY <2>3, <2>4, <2>5, <2>6, <2>7
<1>3. QED BY <1>1, <1>2

LEMMA WalkIInv == ASSUME IInv, Walk PROVE IInv'
<1> USE DEF IInv, Walk, lists, history
<1>0. p \in Range(wd_queue) /\ p \in Timers
  BY DEF Listed, Types, TypeOK
<1>1. CASE Due(p)
  <2>1. Types'
    BY <1>1 DEF Types, TypeOK
  <2>2. Listed' /\ Clock'
    BY <1>1 DEF Listed, Clock, Due
  <2>3. InTime'
    BY <1>1 DEF InTime, Passed
  <2>4. CallsCounted'
    BY DEF CallsCounted, Called, Waits
  <2>5. QED BY <2>1, <2>2, <2>3, <2>4
<1>2. CASE ~Due(p)
  <2>1. /\ NextEntry(p) # NoTimer => NextEntry(p) \in Range(wd_queue)
        /\ NextEntry(p) \in Timers \cup {NoTimer}
        /\ \A k \in DOMAIN wd_queue :
              (\A m \in DOMAIN wd_queue : wd_queue[m] = NextEntry(p) => k < m)
                  => Passed(k) \/ wd_queue[k] = p
    BY <1>0, WalkStep
  <2>2. wd[p].next_fire \in Nat /\ next_time \in Nat /\ next_time' = Earlier(wd[p].next_fire)
    BY <1>0, <1>2, Times DEF Types, TypeOK, Entries
  <2>3. next_time' \in Nat /\ next_time' <= next_time /\ next_time' <= wd[p].next_fire
    BY <2>2 DEF Earlier
  <2>4. p' = NextEntry(p) /\ pc' = pc
    BY <1>2
  <2>5. Types'
    BY <2>1, <2>3, <2>4, Times DEF Types, TypeOK
  <2>6. Listed'
    BY <2>1, <2>4 DEF Listed
  <2>7. Clock'
    BY <2>3, <2>4, Times DEF Clock, Types, TypeOK
  <2>8. InTime'
    <3>1. ASSUME NEW k \in DOMAIN wd_queue, Passed(k)'
          PROVE  next_time' <= wd[wd_queue[k]].next_fire
      <4>1. Passed(k) \/ wd_queue[k] = p
        BY <2>1, <2>4, <3>1 DEF Passed
      <4>2. wd[wd_queue[k]].next_fire \in Nat
        BY RangeElements, ElementOfSeq DEF Types, Entries
      <4>3. QED BY <2>2, <2>3, <4>1, <4>2 DEF InTime
    <3>2. QED BY <2>4, <3>1 DEF InTime
  <2>9. CallsCounted'
    BY DEF CallsCounted, Called, Waits
  <2>10. QED BY <2>5, <2>6, <2>7, <2>8, <2>9
<1>3. QED BY <1>1, <1>2

LEMMA SleepIInv == ASSUME IInv, WalkEnds \/ TimedWait \/ WaitEnds \/ Tick PROVE IInv'
<1> USE DEF IInv, lists, history
<1>1. CASE WalkEnds
  <2> USE <1>1 DEF WalkEnds
  <2>1. Types' /\ Listed' /\ Clock'
    BY DEF Types, TypeOK, Listed, Clock
  <2>2. InTime'
    <3>1. ASSUME NEW t \in Range(wd_queue) PROVE next_time <= due[t].to
      <4>1. PICK k \in DOMAIN wd_queue : wd_queue[k] = t
        BY <3>1 DEF Range
      <4>2. p \notin Range(wd_queue)
        BY TimersAssumption DEF Types, TypeOK
      <4>3. Passed(k)
        BY <4>2 DEF Passed, Range
      <4>4. next_time <= wd[t].next_fire /\ wd[t].next_fire <= due[t].to
        BY <3>1, <4>1, <4>3 DEF InTime
      <4>5. t \in Timers /\ next_time \in Nat
        BY Times DEF Types, TypeOK
      <4>6. wd[t].next_fire \in Nat /\ due[t].to \in Int
        BY <4>5 DEF Types, Entries, Windows
      <4>7. QED BY <4>4, <4>5, <4>6
    <3>2. QED BY <3>1 DEF InTime
  <2>3. CallsCounted'
    BY DEF CallsCounted, Called, Waits
  <2>4. QED BY <2>1, <2>2, <2>3
<1>2. CASE TimedWait
  <2> USE <1>2 DEF TimedWait
  <2>1. Types' /\ Listed' /\ Clock'
    BY DEF Types, TypeOK, Listed, Clock
  <2>2. InTime' /\ CallsCounted'
    BY DEF InTime, CallsCounted, Called, Waits
  <2>3. QED BY <2>1, <2>2
<1>3. CASE WaitEnds
  <2> USE <1>3 DEF WaitEnds
  <2>1. Types' /\ Listed' /\ Clock'
    BY DEF Types, TypeOK, Listed, Clock
  <2>2. InTime' /\ CallsCounted'
    BY DEF InTime, CallsCounted, Called, Waits
  <2>3. QED BY <2>1, <2>2
<1>4. CASE Tick
  <2> USE <1>4 DEF Tick, thread
  <2>1. now \in Nat /\ next_time \in Nat /\ MaxTime \in Nat /\ now < next_time /\ now < MaxTime
    BY Times DEF Wakes, Types, TypeOK
  <2>2. Types'
    BY <2>1 DEF Types, TypeOK
  <2>3. Listed'
    BY DEF Listed
  <2>4. Clock'
    BY <2>1, Times DEF Clock, Types, TypeOK
  <2>5. InTime'
    <3>1. ASSUME NEW t \in Range(wd_queue) PROVE now + 1 <= due[t].to
      <4>1. t \in Timers /\ due[t].to \in Int /\ next_time <= due[t].to
        BY DEF InTime, Types, TypeOK, Windows
      <4>2. QED BY <2>1, <4>1
    <3>2. QED BY <3>1 DEF InTime
  <2>6. CallsCounted'
    BY DEF CallsCounted, Called, Waits
  <2>7. QED BY <2>2, <2>3, <2>4, <2>5, <2>6
<1>5. QED BY <1>1, <1>2, <1>3, <1>4

(* What the callback leaves in the entry.                                  *)
LEMMA CallbackEntry ==
    ASSUME Types, NEW t \in Timers
    PROVE  /\ Callback(t) \in Entries
           /\ Callback(t).next_fire = wd[t].next_fire
           /\ Kind[t] # "child" => Callback(t) = wd[t]
           /\ Kind[t] = "child" /\ wd[t].killed => Callback(t).one_shot = TRUE
           /\ Kind[t] = "child" /\ ~wd[t].killed =>
                 Callback(t).one_shot = wd[t].one_shot /\ Callback(t).killed = TRUE
<1>1. wd[t] \in Entries
  BY DEF Types
<1>2. CASE Kind[t] # "child"
  BY <1>1, <1>2 DEF Callback
<1>3. CASE Kind[t] = "child" /\ wd[t].killed
  BY <1>1, <1>3 DEF Callback, Entries
<1>4. CASE Kind[t] = "child" /\ ~wd[t].killed
  BY <1>1, <1>4, Times DEF Callback, Entries
<1>5. QED BY <1>2, <1>3, <1>4

(* How Fire counts: a timer that is put away has had all its calls.        *)
LEMMA FireCounted == ASSUME IInv, Fire, NEW t \in Timers, p = t PROVE CallsCounted'
<1> USE DEF IInv
<1>0. t \in Range(wd_queue) /\ user' = user
  BY DEF Listed, Types, TypeOK, Fire
<1>1. Called(t) /\ Waits(t)
  BY <1>0 DEF CallsCounted, Waits
<1>2. Range(wd_queue') \subseteq Range(wd_queue)
      /\ (Callback(t).one_shot => t \notin Range(wd_queue'))
  BY RemoveFirstList DEF Fire, Types, Listed
<1>3. /\ calls' = [calls EXCEPT ![t] = IF Kind[t] = "periodic" THEN 0 ELSE @ + 1]
      /\ \/ wd' = [wd EXCEPT ![t] = Callback(t)]
         \/ wd' = [wd EXCEPT ![t] = [Callback(t) EXCEPT !.next_fire = watchdog_time + Callback(t).interval]]
  BY DEF Fire
<1>4. wd \in [Timers -> Entries] /\ Callback(t) \in Entries /\ calls \in [Timers -> Nat]
  BY CallbackEntry DEF Types
<1>5. wd'[t].one_shot = Callback(t).one_shot /\ wd'[t].killed = Callback(t).killed
  BY <1>3, <1>4 DEF Entries
<1>6. calls'[t] = (IF Kind[t] = "periodic" THEN 0 ELSE calls[t] + 1) /\ calls[t] \in Nat
  BY <1>3, <1>4
<1>7. ASSUME NEW u \in Timers, u # t PROVE Called(u)'
  <2>1. wd'[u] = wd[u] /\ calls'[u] = calls[u]
    BY <1>3, <1>4, <1>7
  <2>2. Waits(u)' => Waits(u)
    BY <1>0, <1>2 DEF Waits
  <2>3. Called(u)
    BY DEF CallsCounted
  <2>4. QED BY <2>1, <2>2, <2>3, Zenon DEF Called
<1>8. user[t] # "new"
  BY <1>0 DEF Listed
<1>9. Called(t)'
  <2>1. CASE Kind[t] = "thread"
    <3>1. Callback(t).one_shot = TRUE /\ calls[t] = 0
      BY <1>1, <1>4, <2>1, CallbackEntry DEF Called, Entries
    <3>2. ~Waits(t)'
      BY <1>0, <1>2, <1>8, <3>1, Zenon DEF Waits
    <3>3. calls'[t] <= 1
      BY <1>6, <2>1, <3>1
    <3>4. QED BY <1>5, <2>1, <3>1, <3>2, <3>3, Zenon DEF Called
  <2>2. CASE Kind[t] = "child" /\ wd[t].killed
    <3>1. Callback(t).one_shot /\ calls[t] = 1
      BY <1>1, <2>2, CallbackEntry DEF Called
    <3>2. ~Waits(t)'
      BY <1>0, <1>2, <1>8, <3>1, Zenon DEF Waits
    <3>3. calls'[t] <= 2
      BY <1>6, <2>2, <3>1
    <3>4. QED BY <2>2, <3>2, <3>3, Zenon DEF Called
  <2>3. CASE Kind[t] = "child" /\ ~wd[t].killed
    <3>1. ~wd'[t].one_shot /\ wd'[t].killed /\ calls[t] = 0
      BY <1>1, <1>5, <2>3, CallbackEntry DEF Called
    <3>2. calls'[t] = 1 /\ calls'[t] <= 2
      BY <1>6, <2>3, <3>1
    <3>3. QED BY <2>3, <3>1, <3>2, Zenon DEF Called
  <2>4. CASE Kind[t] = "periodic"
    <3>1. ~wd'[t].one_shot /\ calls'[t] = 0
      BY <1>1, <1>5, <1>6, <2>4, CallbackEntry DEF Called
    <3>2. QED BY <2>4, <3>1, Zenon DEF Called
  <2>5. QED BY <2>1, <2>2, <2>3, <2>4, TimersAssumption
<1>10. QED BY <1>7, <1>9 DEF CallsCounted

LEMMA FireIInv == ASSUME IInv, Fire PROVE IInv'
<1> USE DEF IInv
<1>0. p \in Range(wd_queue) /\ p \in Timers /\ pc = "callback"
  BY DEF Listed, Types, TypeOK, Fire
<1> DEFINE w == Callback(p)
           again == watchdog_time + w.interval
<1>1. w \in Entries /\ w.next_fire = wd[p].next_fire
  BY <1>0, CallbackEntry
<1>2. CallsCounted'
  BY <1>0, FireCounted
<1>3. now = watchdog_time /\ now \in 0 .. MaxTime /\ again \in Nat /\ w.interval \in Nat \ {0}
  BY <1>0, <1>1 DEF Clock, Types, TypeOK, Entries
<1>4. now' = now /\ signaled' = signaled /\ user' = user /\ quit' = quit /\ stop' = stop
  BY DEF Fire
<1>5. calls' \in [Timers -> Nat]
  BY <1>0 DEF Fire, Types
<1>6. due' = [due EXCEPT ![p] = IF w.one_shot THEN NoWindow ELSE AgainWindow(w.interval)]
  BY DEF Fire
<1>7. due' \in [Timers -> Windows]
  <2>1. NoWindow \in Windows /\ AgainWindow(w.interval) \in Windows
    BY <1>3 DEF Windows, NoWindow, AgainWindow
  <2>2. QED BY <1>0, <1>6, <2>1 DEF Types
<1>8. \A u \in Timers : user[u] = "new" => u # p
  BY <1>0 DEF Listed
<1>9. CASE w.one_shot
  <2>1. /\ wd' = [wd EXCEPT ![p] = w] /\ wd_queue' = RemoveFirst(wd_queue, p)
        /\ wd_inactive' = wd_inactive \cup {p} /\ walk_list(wd_queue') /\ pc' = "walk"
    BY <1>9 DEF Fire, walk_list
  <2>2. /\ wd_queue' \in Seq(Timers) /\ IsInjective(wd_queue')
        /\ Range(wd_queue') = Range(wd_queue) \ {p}
    BY <2>1, RemoveFirstList DEF Types, Listed
  <2>3. /\ p' \in Timers \cup {NoTimer} /\ (p' # NoTimer => p' \in Range(wd_queue'))
        /\ watchdog_time' = now /\ next_time' = now + SleepTime
        /\ \A k \in DOMAIN wd_queue' : ~(\A m \in DOMAIN wd_queue' : wd_queue'[m] = p' => k < m)
    BY <2>1, <2>2, WalkBegins
  <2>4. Types'
    <3>1. TypeOK'
      BY <1>0, <1>3, <1>4, <2>1, <2>2, <2>3, Times DEF Types, TypeOK
    <3>2. QED BY <1>0, <1>1, <1>5, <1>7, <2>1, <2>2, <3>1 DEF Types
  <2>5. Listed'
    BY <1>0, <1>4, <2>1, <2>2, <2>3 DEF Listed
  <2>6. Clock'
    BY <1>0, <1>3, <1>4, <2>1, <2>3, Times DEF Clock
  <2>7. InTime'
    <3>1. ASSUME NEW u \in Range(wd_queue')
          PROVE  wd'[u] = wd[u] /\ due'[u] = due[u] /\ u \in Range(wd_queue)
      BY <1>6, <2>1, <2>2 DEF Types, TypeOK
    <3>2. \A u \in Timers : user'[u] = "new" => wd'[u].interval = Wait[u]
      BY <1>4, <1>8, <2>1 DEF InTime, Types
    <3>3. QED BY <1>4, <2>1, <2>3, <3>1, <3>2 DEF InTime, Passed
  <2>8. QED BY <1>2, <2>4, <2>5, <2>6, <2>7
<1>10. CASE ~w.one_shot
  <2>1. /\ wd' = [wd EXCEPT ![p] = [w EXCEPT !.next_fire = again]]
        /\ next_time' = Earlier(again) /\ p' = NextEntry(p) /\ pc' = "walk"
        /\ wd_queue' = wd_queue /\ wd_inactive' = wd_inactive /\ watchdog_time' = watchdog_time
    BY <1>10 DEF Fire
  <2>2. /\ NextEntry(p) # NoTimer => NextEntry(p) \in Range(wd_queue)
        /\ NextEntry(p) \in Timers \cup {NoTimer}
        /\ \A k \in DOMAIN wd_queue :
              (\A m \in DOMAIN wd_queue : wd_queue[m] = NextEntry(p) => k < m)
                  => Passed(k) \/ wd_queue[k] = p
    BY <1>0, WalkStep
  <2>3. [w EXCEPT !.next_fire = again] \in Entries /\ wd'[p].next_fire = again
    BY <1>0, <1>1, <1>3, <2>1 DEF Entries, Types
  <2>4. next_time \in Nat
    BY Times DEF Types, TypeOK
  <2>5. next_time' \in Nat /\ next_time' <= next_time /\ next_time' <= again
    BY <1>3, <2>1, <2>4 DEF Earlier
  <2>6. Types'
    <3>1. TypeOK'
      BY <1>4, <2>1, <2>2, <2>4, <2>5, Times DEF Types, TypeOK
    <3>2. wd' \in [Timers -> Entries]
      BY <2>1, <2>3 DEF Types
    <3>3. QED BY <1>5, <1>7, <2>1, <3>1, <3>2 DEF Types
  <2>7. Listed'
    BY <1>0, <1>4, <2>1, <2>2 DEF Listed
  <2>8. Clock'
    BY <1>0, <1>3, <1>4, <2>1, <2>4, <2>5, Times DEF Clock
  <2>9. due'[p].from = again /\ due'[p].to = again /\ now <= again
    BY <1>0, <1>3, <1>6, <1>10 DEF Types, AgainWindow
  <2>10. ASSUME NEW u \in Timers, u # p PROVE wd'[u] = wd[u] /\ due'[u] = due[u]
    BY <1>6, <2>1, <2>10 DEF Types
  <2>11. ASSUME NEW u \in Range(wd_queue)
         PROVE  due'[u].from <= wd'[u].next_fire /\ wd'[u].next_fire <= due'[u].to /\ now <= due'[u].to
    <3>1. u \in Timers
      BY DEF Types, TypeOK
    <3>2. CASE u = p
      BY <1>3, <2>3, <2>9, <3>2
    <3>3. CASE u # p
      BY <2>10, <3>1, <3>3 DEF InTime
    <3>4. QED BY <3>2, <3>3
  <2>12. ASSUME NEW k \in DOMAIN wd_queue, Passed(k)'
         PROVE  next_time' <= wd'[wd_queue[k]].next_fire
    <3>1. Passed(k) \/ wd_queue[k] = p
      BY <2>1, <2>2, <2>12 DEF Passed
    <3>2. wd_queue[k] \in Timers /\ wd[wd_queue[k]].next_fire \in Nat
      BY RangeElements, ElementOfSeq DEF Types, Entries
    <3>3. CASE wd_queue[k] = p
      BY <2>3, <2>5, <3>3
    <3>4. CASE wd_queue[k] # p
      <4>1. next_time <= wd[wd_queue[k]].next_fire
        BY <1>0, <3>1, <3>4 DEF InTime
      <4>2. wd'[wd_queue[k]] = wd[wd_queue[k]]
        BY <2>10, <3>2, <3>4
      <4>3. QED BY <2>4, <2>5, <3>2, <4>1, <4>2
    <3>5. QED BY <3>3, <3>4
  <2>13. \A u \in Timers : user'[u] = "new" => wd'[u].interval = Wait[u]
    BY <1>4, <1>8, <2>10 DEF InTime
  <2>14. InTime'
    BY <1>4, <2>1, <2>11, <2>12, <2>13 DEF InTime
  <2>15. QED BY <1>2, <2>6, <2>7, <2>8, <2>14
<1>11. QED BY <1>9, <1>10

-----------------------------------------------------------------------------
(* The state of the watchdog, its users and its clock: IInv holds whatever *)
(* the timers, their intervals and the sleep time are.                     *)
THEOREM WatchdogInvariant == Spec => []IInv
<1>1. ASSUME IInv, [Next]_vars PROVE IInv'
  <2>1. CASE UNCHANGED vars
    BY <1>1, <2>1 DEF vars, IInv, Types, TypeOK, Listed, Clock, Due, InTime, Passed,
                      CallsCounted, Called, Waits
  <2>2. CASE Next
    BY <1>1, <2>2, RegisterIInv, UnregisterIInv, UserPingsIInv, StopIInv, StopJoinsIInv,
       LoopTopIInv, WalkIInv, FireIInv, SleepIInv DEF Next
  <2>3. QED BY <1>1, <2>1, <2>2
<1>2. QED BY <1>1, InitIInv, PTL DEF Spec

(* No callback runs for a timer whose user has stopped it, and no timer is *)
(* in both lists (watchdog.c:204-283).                                     *)
THEOREM WatchdogRegistered == Spec => []CallbackRegistered
<1>1. IInv => CallbackRegistered
  BY DEF IInv, Listed, CallbackRegistered
<1>2. QED BY <1>1, WatchdogInvariant, PTL

(* Every callback comes within its window and as often as it should, and   *)
(* the thread sees quit within SleepTime (watchdog.c:181-300,              *)
(* btimers.c:92-120).                                                      *)
THEOREM WatchdogPunctual == Spec => []Punctual
<1>1. ASSUME IInv PROVE Punctual
  <2> USE <1>1 DEF IInv
  <2>1. now \in Nat /\ watchdog_time \in Nat
    BY Times DEF Types, TypeOK
  <2>2. ASSUME pc = "callback" PROVE now >= due[p].from
    <3>1. p \in Range(wd_queue) /\ p \in Timers
      BY <2>2 DEF Listed, Types, TypeOK
    <3>2. wd[p].next_fire <= now /\ due[p].from <= wd[p].next_fire
      BY <2>2, <3>1 DEF Clock, Due, InTime
    <3>3. wd[p].next_fire \in Nat /\ due[p].from \in Int
      BY <3>1 DEF Types, Entries, Windows
    <3>4. QED BY <2>1, <3>2, <3>3
  <2>3. \A t \in Range(wd_queue) : now <= due[t].to
    BY DEF InTime
  <2>4. ASSUME NEW t \in Timers PROVE calls[t] <= (IF Kind[t] = "child" THEN 2 ELSE 1)
    <3>1. Called(t) /\ Kind[t] \in {"thread", "child", "periodic"}
      BY TimersAssumption DEF CallsCounted
    <3>2. QED BY <3>1 DEF Called
  <2>5. ASSUME quit # Never, pc # "exit" PROVE now <= quit + SleepTime
    <3>1. watchdog_time <= quit /\ now <= watchdog_time + SleepTime /\ quit \in Nat
      BY <2>5, Times DEF Clock, Types, TypeOK
    <3>2. QED BY <2>1, <3>1, Times
  <2>6. QED BY <2>2, <2>3, <2>4, <2>5 DEF Punctual
<1>2. QED BY <1>1, WatchdogInvariant, PTL
=============================================================================
