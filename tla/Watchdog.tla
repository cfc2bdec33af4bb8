------------------------------ MODULE Watchdog ------------------------------
(***************************************************************************)
(* The watchdog thread (lib/watchdog.c) and the timers that use it         *)
(* (lib/btimers.c): a thread starts a timer before it does something that  *)
(* may hang and stops it afterwards; a timer that fires signals the thread *)
(* or, for a child process, sends first SIGTERM and later SIGKILL.         *)
(* Periodic checks of a daemon are registered once and fire for ever.      *)
(*                                                                         *)
(* The list is walked with wd_lock held, one step per entry and one per    *)
(* callback; the calls of other threads are one step under the lock and    *)
(* one for the ping that follows.  Time passes only while the watchdog     *)
(* thread sleeps: how late the scheduler runs a thread is not counted.     *)
(***************************************************************************)
EXTENDS Integers, Sequences, SequencesExt

CONSTANTS
  Timers,       \* the timers, each used once
  NoTimer,
  Kind,         \* Kind[t]: "thread", "child" or "periodic"
  Wait,         \* Wait[t]: the interval a timer is started with
  SleepTime,    \* watchdog_sleep_time
  KillDelay,    \* from SIGTERM to SIGKILL
  MaxTime       \* bound on the clock

ASSUME TimersAssumption ==
  NoTimer \notin Timers /\ Kind \in [Timers -> {"thread", "child", "periodic"}]
ASSUME TimesAssumption ==
  /\ Wait \in [Timers -> Nat \ {0}]
  /\ {SleepTime, KillDelay} \subseteq Nat \ {0} /\ MaxTime \in Nat

VARIABLES
  now,            \* time(NULL)
  watchdog_time,  \* the time of the last walk
  wd_queue, wd_inactive,
  wd,             \* of each timer: next_fire, interval, one_shot, killed
  pc, p,          \* where the watchdog thread is, the entry it looks at
  next_time,      \* until when it will sleep
  signaled,       \* a ping has woken it
  user,           \* where the user of each timer is
  quit,           \* when stop_watchdog set it, or Never
  stop,           \* where stop_watchdog is
  calls, due      \* history: how often each one-shot or child timer was
                  \* called; between which times its next call is right

vars == <<now, watchdog_time, wd_queue, wd_inactive, wd, pc, p, next_time,
          signaled, user, quit, stop, calls, due>>

lists == <<wd_queue, wd_inactive, wd>>
thread == <<watchdog_time, pc, p, next_time>>
history == <<calls, due>>

Never == -1

\* The later of two times.
Later(a, b) == IF a < b THEN b ELSE a

\* What a timer started now for w promises, and one asked to fire again.
FirstWindow(w) == [from |-> now + w - SleepTime, to |-> now + Later(w, SleepTime)]
AgainWindow(w) == [from |-> now + w, to |-> now + w]
NoWindow == [from |-> 0, to |-> 0]

TypeOK ==
  /\ now \in 0 .. MaxTime /\ watchdog_time \in 0 .. now
  /\ Range(wd_queue) \cup wd_inactive \subseteq Timers
  /\ pc \in {"top", "walk", "callback", "unlocked", "sleep", "exit"}
  /\ p \in Timers \cup {NoTimer}
  /\ next_time \in 0 .. MaxTime + SleepTime
  /\ signaled \in BOOLEAN
  /\ user \in [Timers -> {"new", "ping", "running", "unping", "free"}]
  /\ quit \in {Never} \cup 0 .. MaxTime
  /\ stop \in {"run", "ping", "join", "stopped"}

Init ==
  /\ now = 0 /\ watchdog_time = 0
  /\ wd_queue = << >> /\ wd_inactive = {}
  /\ wd = [t \in Timers |-> [next_fire |-> 0, interval |-> Wait[t],
                             one_shot |-> Kind[t] = "thread", killed |-> FALSE]]
  /\ pc = "top" /\ p = NoTimer /\ next_time = 0 /\ signaled = FALSE
  /\ user = [t \in Timers |-> "new"]
  /\ quit = Never /\ stop = "run"
  /\ calls = [t \in Timers |-> 0] /\ due = [t \in Timers |-> NoWindow]

-----------------------------------------------------------------------------
(* The users of timers.                                                    *)

\* No other thread walks the list.
wd_lock_ignored == TRUE
wd_lock == pc \notin {"walk", "callback"}

\* A signal is lost unless the thread is already in pthread_cond_timedwait.
ping_watchdog == signaled' = (signaled \/ pc = "sleep")

register_watchdog(t) ==
  /\ user[t] = "new" /\ stop # "stopped" /\ wd_lock
  /\ wd' = [wd EXCEPT ![t].next_fire = watchdog_time + wd[t].interval]
  /\ wd_queue' = Append(wd_queue, t)
  /\ user' = [user EXCEPT ![t] = "ping"]
  /\ due' = [due EXCEPT ![t] = FirstWindow(Wait[t])]
  /\ UNCHANGED <<now, wd_inactive, thread, signaled, quit, stop, calls>>

\* stop_btimer: out of whichever list the timer is in; then it is freed.
unregister_watchdog(t) ==
  /\ user[t] = "running" /\ Kind[t] # "periodic" /\ stop # "stopped" /\ wd_lock
  /\ wd_queue' = RemoveFirst(wd_queue, t)
  /\ wd_inactive' = wd_inactive \ {t}
  /\ user' = [user EXCEPT ![t] = "unping"]
  /\ due' = [due EXCEPT ![t] = NoWindow]
  /\ UNCHANGED <<now, wd, thread, signaled, quit, stop, calls>>

UserPings(t) ==
  /\ user[t] \in {"ping", "unping"}
  /\ ping_watchdog
  /\ user' = [user EXCEPT ![t] = IF @ = "ping" THEN "running" ELSE "free"]
  /\ UNCHANGED <<now, lists, thread, quit, stop, history>>

stop_watchdog ==
  /\ stop = "run"
  /\ quit' = now
  /\ stop' = "ping"
  /\ UNCHANGED <<now, lists, thread, signaled, user, history>>

StopPings ==
  /\ stop = "ping"
  /\ ping_watchdog
  /\ stop' = "join"
  /\ UNCHANGED <<now, lists, thread, user, quit, history>>

\* After pthread_join the lists are emptied and freed.
StopJoins ==
  /\ stop = "join" /\ pc = "exit"
  /\ wd_queue' = << >> /\ wd_inactive' = {}
  /\ stop' = "stopped"
  /\ UNCHANGED <<now, wd, thread, signaled, user, quit, history>>

-----------------------------------------------------------------------------
(* The watchdog thread.                                                    *)

\* The entry after t.
Position(t) == CHOOSE k \in DOMAIN wd_queue : wd_queue[k] = t

NextEntry(t) ==
  IF Position(t) < Len(wd_queue) THEN wd_queue[Position(t) + 1] ELSE NoTimer

walk_list(queue) ==
  /\ watchdog_time' = now
  /\ next_time' = now + SleepTime
  /\ p' = IF queue = << >> THEN NoTimer ELSE Head(queue)
  /\ pc' = "walk"

LoopTop ==
  /\ pc = "top"
  /\ IF quit # Never
       THEN pc' = "exit" /\ UNCHANGED <<watchdog_time, p, next_time>>
       ELSE walk_list(wd_queue)
  /\ UNCHANGED <<now, lists, signaled, user, quit, stop, history>>

\* The thread wakes for the earliest entry, at the latest after SleepTime.
Earlier_never(fire) == next_time
Earlier(fire) == IF fire <= next_time THEN fire ELSE next_time

Due(t) == wd[t].next_fire <= watchdog_time

Walk ==
  /\ pc = "walk" /\ p # NoTimer
  /\ IF Due(p) THEN pc' = "callback" /\ UNCHANGED <<p, next_time>>
     ELSE /\ next_time' = Earlier(wd[p].next_fire)
          /\ p' = NextEntry(p)
          /\ UNCHANGED pc
  /\ UNCHANGED <<now, lists, watchdog_time, signaled, user, quit, stop, history>>

\* callback_child_timer sends SIGTERM and asks for a second call, then sends
\* SIGKILL and asks for none; the other callbacks leave the entry alone.
Callback(t) ==
  IF Kind[t] # "child" THEN wd[t]
  ELSE IF wd[t].killed THEN [wd[t] EXCEPT !.one_shot = TRUE]
  ELSE [wd[t] EXCEPT !.killed = TRUE, !.interval = KillDelay]

\* A one shot is put away and the walk begins again.
Fire ==
  LET w == Callback(p)
      again == watchdog_time + w.interval
  IN  /\ pc = "callback"
      /\ calls' = [calls EXCEPT ![p] = IF Kind[p] = "periodic" THEN 0 ELSE @ + 1]
      /\ due' = [due EXCEPT ![p] = IF w.one_shot THEN NoWindow ELSE AgainWindow(w.interval)]
      /\ IF w.one_shot
           THEN /\ wd' = [wd EXCEPT ![p] = w]
                /\ wd_queue' = RemoveFirst(wd_queue, p)
                /\ wd_inactive' = wd_inactive \cup {p}
                /\ walk_list(wd_queue')
           ELSE /\ wd' = [wd EXCEPT ![p] = [w EXCEPT !.next_fire = again]]
                /\ next_time' = Earlier(again)
                /\ p' = NextEntry(p)
                /\ pc' = "walk"
                /\ UNCHANGED <<wd_queue, wd_inactive, watchdog_time>>
      /\ UNCHANGED <<now, signaled, user, quit, stop>>

\* wd_unlock; a ping before the thread is asleep goes unnoticed.
WalkEnds ==
  /\ pc = "walk" /\ p = NoTimer
  /\ pc' = "unlocked"
  /\ UNCHANGED <<now, lists, watchdog_time, p, next_time, signaled, user, quit, stop, history>>

TimedWait ==
  /\ pc = "unlocked"
  /\ pc' = "sleep"
  /\ signaled' = FALSE
  /\ UNCHANGED <<now, lists, watchdog_time, p, next_time, user, quit, stop, history>>

Wakes == signaled \/ now >= next_time

WaitEnds ==
  /\ pc = "sleep" /\ Wakes
  /\ pc' = "top"
  /\ UNCHANGED <<now, lists, watchdog_time, p, next_time, signaled, user, quit, stop, history>>

Tick ==
  /\ now < MaxTime
  /\ pc = "sleep" /\ ~Wakes
  /\ now' = now + 1
  /\ UNCHANGED <<lists, thread, signaled, user, quit, stop, history>>

-----------------------------------------------------------------------------
Next ==
  \/ \E t \in Timers : register_watchdog(t) \/ unregister_watchdog(t) \/ UserPings(t)
  \/ stop_watchdog \/ StopPings \/ StopJoins
  \/ LoopTop \/ Walk \/ Fire \/ WalkEnds \/ TimedWait \/ WaitEnds
  \/ Tick

Spec == Init /\ [][Next]_vars

-----------------------------------------------------------------------------
\* A callback uses its timer and signals the thread that started it: the walk
\* stands only on entries that are registered, never on a timer whose
\* stop_*_timer has gone past the lock and may have freed it; and no timer is
\* in both lists (watchdog.c:204-283, btimers.c:272-280).
CallbackRegistered ==
  /\ pc \in {"walk", "callback"} /\ p # NoTimer =>
       p \in Range(wd_queue) /\ user[p] \in {"ping", "running"}
  /\ Range(wd_queue) \cap wd_inactive = {}

\* Although pings get lost and intervals count from the last walk, a timer is
\* called at most SleepTime too early, never late if it was started for
\* SleepTime or more and else within SleepTime; it is called again exactly
\* when asked for, SIGKILL a full delay after SIGTERM, a thread timer once
\* and a child timer twice; and the thread sees quit within SleepTime
\* (watchdog.c:181-300, btimers.c:92-120).
Punctual ==
  /\ pc = "callback" => now >= due[p].from
  /\ pc # "exit" => \A t \in Range(wd_queue) : now <= due[t].to
  /\ \A t \in Timers : calls[t] <= (IF Kind[t] = "child" THEN 2 ELSE 1)
  /\ quit # Never /\ pc # "exit" => now <= quit + SleepTime

\* "Start a timer on a thread. kill it after wait seconds" (btimers.c:122): not
\* before they have passed.
NotEarly ==
  pc = "callback" /\ Kind[p] = "thread" => now >= due[p].from + SleepTime
=============================================================================
