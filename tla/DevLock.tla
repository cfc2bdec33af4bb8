------------------------------- MODULE DevLock -------------------------------
(***************************************************************************)
(* The locking of one Storage daemon drive: the block of a DEVICE          *)
(* (stored/lock.c), the wait for the operator (stored/wait.c), the jobs    *)
(* that append to the drive (acquire.c, device.c, spool.c, block.c) and    *)
(* the console commands that steal the block (dircmd.c).                   *)
(*                                                                         *)
(* The block is a record: m_blocked, dev_prev_blocked, no_wait_id and      *)
(* num_waiting.  m_mutex is released only where a thread waits or works    *)
(* "blocked but not locked", so the rest of a routine is one step.  The    *)
(* exception is wait_for_sysop, which tests for a cancel and goes to sleep *)
(* in two steps because cancel_cmd does not take m_mutex.                  *)
(***************************************************************************)
EXTENDS Naturals, FiniteSets

CONSTANTS
  Jobs,           \* threads of jobs that append to the drive
  Commands,       \* threads of console commands; each runs one command
  NoThread,       \* a cleared thread id
  MaxAsks,        \* bound: calls of wait_for_sysop per mount
  Spooling,       \* the jobs that spool their data
  MaxErrors,      \* bound: write errors per job
  MaxDespools,    \* bound: despools per job, the last of them a commit
  OperatorCareful \* TRUE: no label command while a job leaves its wait for
                  \* the operator, and no cancel during one

ASSUME ThreadsAssumption == /\ Jobs \cap Commands = {}
                            /\ NoThread \notin Jobs \cup Commands
                            /\ IsFiniteSet(Jobs) /\ IsFiniteSet(Commands)
                            /\ Spooling \subseteq Jobs

ASSUME BoundsAssumption == /\ MaxAsks \in Nat /\ MaxErrors \in Nat
                           /\ MaxDespools \in Nat \ {0}
                           /\ OperatorCareful \in BOOLEAN

VARIABLES
  dev,            \* the block of the DEVICE
  m_mutex,        \* holder of the device mutex between two steps
  acquire_mutex,  \* holder of the mutex that lets one job acquire at a time
  num_writers,
  can_append,     \* a Volume is mounted and in append mode
  pc,             \* where a thread is
  canceled,       \* the job was canceled or stopped
  unmounted,      \* the variable of that name in wait_for_sysop
  stat,           \* why a job gave up its wait for the operator
  entry,          \* who called mount_next_write_volume: "acquire", or the
                  \* block found on entry of fixup_device_block_write_error
  hold,           \* a command's bsteal_lock_t
  signaled,       \* sleepers a broadcast has woken
  asks, errors, despools, \* counters of the three bounds
  aborted         \* an ASSERT of lock.c failed

vars == <<dev, m_mutex, acquire_mutex, num_writers, can_append, pc, canceled,
          unmounted, stat, entry, hold, signaled, asks, errors, despools, aborted>>

locks == <<m_mutex, acquire_mutex>>
volume == <<num_writers, can_append>>
jobLocals == <<canceled, unmounted, stat, entry, asks, errors, despools>>

Threads == Jobs \cup Commands

States == {"NOT_BLOCKED", "UNMOUNTED", "WAITING_FOR_SYSOP", "DOING_ACQUIRE",
           "WRITING_LABEL", "UNMOUNTED_WAITING_FOR_SYSOP", "MOUNT",
           "DESPOOLING", "RELEASING"}

Blocks == [blocked : States, prev : States, owner : Threads \cup {NoThread},
           waiting : 0..Cardinality(Threads)]

InitialBlock == [blocked |-> "NOT_BLOCKED", prev |-> "NOT_BLOCKED",
                 owner |-> NoThread, waiting |-> 0]

\* Threads that sleep on dev->wait: in rLock, or in obtain_device_block.
InRLock == {"acquire_rLock", "write_rLock", "dblock_rLock"}
InObtain == {"release_wait", "label_wait"}

\* Threads that work on the drive with the block but without m_mutex.
Working == {"mount", "mount_fails", "despool", "read_label", "label"}

\* Jobs inside wait_for_sysop.
InSysop == {"sysop_tested", "sysop_wait"}

-----------------------------------------------------------------------------
(* The block: stored/lock.c. *)

is_blocked(d) == d.blocked # "NOT_BLOCKED"

\* rLock lets the thread pass that set the block.
BlockedFor(d, t) == is_blocked(d) /\ d.owner # t

is_device_unmounted(d) ==
  d.blocked \in {"UNMOUNTED", "UNMOUNTED_WAITING_FOR_SYSOP"}

can_obtain_block(d) ==
  d.blocked \in {"NOT_BLOCKED", "UNMOUNTED", "WAITING_FOR_SYSOP",
                 "UNMOUNTED_WAITING_FOR_SYSOP"}

waiting_for_mount(d) ==
  d.blocked \in {"UNMOUNTED", "WAITING_FOR_SYSOP", "UNMOUNTED_WAITING_FOR_SYSOP"}

set_blocked(d, s) == [d EXCEPT !.blocked = s]

block_device(d, t, s) == [d EXCEPT !.blocked = s, !.owner = t]

unblock_device(d) == [d EXCEPT !.blocked = "NOT_BLOCKED", !.owner = NoThread]

\* obtain_device_block once it may: the thief saves what give_back restores.
obtain_device_block(d, t, s) == [d EXCEPT !.blocked = s, !.owner = t]

give_back_ownerForgotten(d, h) == [d EXCEPT !.blocked = h.blocked, !.prev = h.prev]

give_back_device_block(d, h) ==
  [d EXCEPT !.blocked = h.blocked, !.prev = h.prev, !.owner = h.owner]

\* pthread_cond_broadcast of dev->wait if num_waiting says someone is there.
WakeWaiters_moreThanOne(d) ==
  IF d.waiting > 1
  THEN signaled \cup {t \in Threads : pc[t] \in InRLock \cup InObtain}
  ELSE signaled

WakeWaiters(d) ==
  IF d.waiting > 0
  THEN signaled \cup {t \in Threads : pc[t] \in InRLock \cup InObtain}
  ELSE signaled

\* pthread_cond_broadcast of dev->wait_next_vol.
WakeSysopWaiters == signaled \cup {t \in Jobs : pc[t] = "sysop_wait"}

\* The ASSERTs of block_device (not blocked) and of unblock_device (blocked).
Asserts(holds) == aborted' = (aborted \/ ~holds)

-----------------------------------------------------------------------------
(* Threads at the device mutex. *)

\* A thread enters a routine at `from`, or a broadcast woke it at `asleep`.
At(t, from, asleep) == /\ m_mutex = NoThread
                       /\ \/ pc[t] = from
                          \/ pc[t] = asleep /\ t \in signaled

\* rLock lets t through: on entry its own block does not count.
rLockPasses(t) ==
  IF pc[t] \in InRLock THEN ~is_blocked(dev) ELSE ~BlockedFor(dev, t)

ObtainPasses_ownNotTested(t) == can_obtain_block(dev)

ObtainPasses(t) == can_obtain_block(dev) \/ (pc[t] \notin InObtain /\ dev.owner = t)

\* The thread has left dev->wait, if it was there.
Awake(t) == IF pc[t] \in InRLock \cup InObtain
            THEN [dev EXCEPT !.waiting = @ - 1] ELSE dev

Sleep(t, from, asleep) ==
  /\ pc[t] = from /\ m_mutex = NoThread
  /\ dev' = [dev EXCEPT !.waiting = @ + 1]
  /\ pc' = [pc EXCEPT ![t] = asleep]
  /\ UNCHANGED <<locks, volume, jobLocals, hold, signaled, aborted>>

rLockSleeps(t, from, asleep) == ~rLockPasses(t) /\ Sleep(t, from, asleep)

ObtainSleeps(t, from, asleep) == ~ObtainPasses(t) /\ Sleep(t, from, asleep)

\* A woken thread that finds its reason to wait again sleeps on.
SleepsOn(t) ==
  /\ m_mutex = NoThread /\ t \in signaled
  /\ \/ pc[t] \in InRLock /\ ~rLockPasses(t)
     \/ pc[t] = "release_wait" /\ ~ObtainPasses(t)
  /\ signaled' = signaled \ {t}
  /\ UNCHANGED <<dev, locks, volume, pc, jobLocals, hold, aborted>>

-----------------------------------------------------------------------------
(* Jobs. *)

\* The reservations and the writers of the drive.
is_busy ==
  \/ num_writers > 0
  \/ \E j \in Jobs : \/ pc[j] \in {"reserved", "acquire_rLock"}
                     \/ pc[j] \in Working \cup InSysop /\ entry[j] = "acquire"

reserve_device_for_append(j) ==
  /\ pc[j] = "start" /\ m_mutex = NoThread
  /\ ~canceled[j] /\ ~is_device_unmounted(dev)
  /\ pc' = [pc EXCEPT ![j] = "reserved"]
  /\ UNCHANGED <<dev, locks, volume, jobLocals, hold, signaled, aborted>>

\* The right Volume is in append mode: the job only becomes a writer.
acquire_have_vol(j) ==
  /\ pc[j] = "reserved" /\ m_mutex = NoThread /\ acquire_mutex = NoThread
  /\ can_append
  /\ num_writers' = num_writers + 1
  /\ pc' = [pc EXCEPT ![j] = "writing"]
  /\ UNCHANGED <<dev, locks, can_append, jobLocals, hold, signaled, aborted>>

acquire_sleeps(j) ==
  /\ acquire_mutex = NoThread
  /\ pc[j] = "reserved" /\ m_mutex = NoThread /\ ~rLockPasses(j)
  /\ dev' = [dev EXCEPT !.waiting = @ + 1]
  /\ acquire_mutex' = j
  /\ pc' = [pc EXCEPT ![j] = "acquire_rLock"]
  /\ UNCHANGED <<m_mutex, volume, jobLocals, hold, signaled, aborted>>

acquire_device_for_append(j) ==
  /\ At(j, "reserved", "acquire_rLock")
  /\ acquire_mutex \in {NoThread, j} /\ rLockPasses(j)
  /\ Asserts(~is_blocked(dev))
  /\ dev' = block_device(Awake(j), j, "DOING_ACQUIRE")
  /\ acquire_mutex' = j
  /\ pc' = [pc EXCEPT ![j] = "mount"]
  /\ entry' = [entry EXCEPT ![j] = "acquire"]
  /\ signaled' = signaled \ {j}
  /\ UNCHANGED <<m_mutex, volume, canceled, unmounted, stat, asks, errors, despools, hold>>

\* The end of fixup_device_block_write_error: the block found on entry returns.
FixupBlock(d, j) ==
  IF entry[j] = "NOT_BLOCKED" THEN unblock_device(d)
  ELSE block_device(unblock_device(d), j, entry[j])

\* mount_next_write_volume returned to acquire_device_for_append.
acquire_ends(j, ok) ==
  /\ entry[j] = "acquire"
  /\ dev' = unblock_device(dev)
  /\ acquire_mutex' = NoThread
  /\ num_writers' = IF ok THEN num_writers + 1 ELSE num_writers
  /\ pc' = [pc EXCEPT ![j] = IF ok THEN "writing" ELSE "done"]

\* mount_next_write_volume returned to fixup_device_block_write_error.
fixup_ends(j, ok) ==
  /\ entry[j] # "acquire"
  /\ dev' = FixupBlock(dev, j)
  /\ pc' = [pc EXCEPT ![j] = CASE entry[j] = "DESPOOLING" -> "despool"
                               [] entry[j] # "DESPOOLING" /\ ok -> "writing"
                               [] OTHER -> "release"]
  /\ UNCHANGED <<acquire_mutex, num_writers>>

MountEnds(j, ok) ==
  /\ m_mutex = NoThread
  /\ Asserts(is_blocked(dev))
  /\ acquire_ends(j, ok) \/ fixup_ends(j, ok)
  /\ can_append' = (ok \/ can_append)
  /\ signaled' = WakeWaiters(dev)
  /\ asks' = [asks EXCEPT ![j] = 0]
  /\ UNCHANGED <<m_mutex, canceled, unmounted, stat, entry, errors, despools, hold>>

mount_next_write_volume(j) ==
  /\ pc[j] = "mount"
  /\ \E ok \in BOOLEAN : MountEnds(j, ok)

mount_given_up(j) == pc[j] = "mount_fails" /\ MountEnds(j, FALSE)

\* A job that spools writes to its spool file.  For the others
\* write_block_to_device waits while another thread blocks the drive, ...
write_sleeps(j) == j \notin Spooling /\ rLockSleeps(j, "writing", "write_rLock")

\* ... and writes when it does not; only a write after a wait changes the state.
write_block_to_device(j) ==
  /\ pc[j] = "write_rLock" /\ m_mutex = NoThread /\ j \in signaled
  /\ rLockPasses(j)
  /\ dev' = Awake(j)
  /\ pc' = [pc EXCEPT ![j] = "writing"]
  /\ signaled' = signaled \ {j}
  /\ UNCHANGED <<locks, volume, jobLocals, hold, aborted>>

\* The write failed, the medium is full: block the drive for the next Volume.
FixupEntry_stillBlocked(d) == d

FixupEntry(d) == IF is_blocked(d) THEN unblock_device(d) ELSE d

fixup_device_block_write_error(j) ==
  /\ m_mutex = NoThread
  /\ \/ pc[j] = "despool"
     \/ pc[j] = "writing" /\ j \notin Spooling
     \/ pc[j] = "write_rLock" /\ j \in signaled
  /\ rLockPasses(j)
  /\ errors[j] < MaxErrors
  /\ LET d == FixupEntry(Awake(j))
     IN /\ Asserts(~is_blocked(d))
        /\ dev' = block_device(d, j, "DOING_ACQUIRE")
        /\ signaled' = (IF is_blocked(dev) THEN WakeWaiters(Awake(j))
                                           ELSE signaled) \ {j}
  /\ entry' = [entry EXCEPT ![j] = dev.blocked]
  /\ pc' = [pc EXCEPT ![j] = "mount"]
  /\ errors' = [errors EXCEPT ![j] = @ + 1]
  /\ can_append' = FALSE
  /\ UNCHANGED <<locks, num_writers, canceled, unmounted, stat, asks, despools, hold>>

MayDespool(j) == j \in Spooling /\ despools[j] < MaxDespools

despool_sleeps(j) == MayDespool(j) /\ rLockSleeps(j, "writing", "dblock_rLock")

\* despool_data: dblock for the whole despooling.
despool_data(j) ==
  /\ At(j, "writing", "dblock_rLock") /\ rLockPasses(j) /\ MayDespool(j)
  /\ Asserts(~is_blocked(dev))
  /\ dev' = block_device(Awake(j), j, "DESPOOLING")
  /\ pc' = [pc EXCEPT ![j] = "despool"]
  /\ despools' = [despools EXCEPT ![j] = @ + 1]
  /\ signaled' = signaled \ {j}
  /\ UNCHANGED <<locks, volume, canceled, unmounted, stat, entry, asks, errors, hold>>

\* A commit leaves the drive blocked for release_device.
despool_committed(j) ==
  /\ pc[j] = "despool" /\ m_mutex = NoThread
  /\ pc' = [pc EXCEPT ![j] = "release"]
  /\ UNCHANGED <<dev, locks, volume, jobLocals, hold, signaled, aborted>>

\* The spool file was full: dunblock and go on, or fail.
despool_ends(j) ==
  /\ pc[j] = "despool" /\ m_mutex = NoThread
  /\ Asserts(is_blocked(dev))
  /\ dev' = unblock_device(dev)
  /\ signaled' = WakeWaiters(dev)
  /\ \/ despools[j] < MaxDespools /\ pc' = [pc EXCEPT ![j] = "writing"]
     \/ pc' = [pc EXCEPT ![j] = "release"]
  /\ UNCHANGED <<locks, volume, jobLocals, hold>>

\* The last blocks are written, unless the job failed and cannot write; a job
\* that spools ends with a commit unless it failed.
do_append_data_ends(j) ==
  /\ pc[j] = "writing" /\ m_mutex = NoThread
  /\ canceled[j] \/ (j \notin Spooling /\ rLockPasses(j))
  /\ pc' = [pc EXCEPT ![j] = "release"]
  /\ UNCHANGED <<dev, locks, volume, jobLocals, hold, signaled, aborted>>

release_sleeps(j) == ObtainSleeps(j, "release", "release_wait")

\* Steal the block, leave the writers, wake whoever waits for the operator or
\* for the block, give the block back and lift it if it is the job's own.
release_device(j) ==
  /\ At(j, "release", "release_wait") /\ ObtainPasses(j)
  /\ num_writers' = num_writers - 1
  /\ can_append' \in (IF num_writers = 1 THEN {can_append, FALSE} ELSE {can_append})
  /\ LET stolen == obtain_device_block(Awake(j), j, "RELEASING")
         back == give_back_device_block(stolen, dev)
     IN dev' = IF back.owner = j THEN unblock_device(back) ELSE back
  /\ Asserts(dev.owner = j => is_blocked(dev))
  /\ signaled' = (WakeSysopWaiters \cup WakeWaiters(Awake(j))) \ {j}
  /\ pc' = [pc EXCEPT ![j] = "done"]
  /\ UNCHANGED <<locks, jobLocals, hold>>

-----------------------------------------------------------------------------
(* The wait for the operator: stored/wait.c and its callers in askdir.c. *)

SysopExitBlock_notRestored(d, u) == d

SysopExitBlock(d, u) == IF u THEN d ELSE set_blocked(d, d.prev)

\* Leave wait_for_sysop.  W_WAKE and a cancel make the callers give up, after
\* W_TIMEOUT they ask again or give up, after W_MOUNT and W_POLL they mount.
SysopExit(j, d, u, s) ==
  /\ dev' = SysopExitBlock(d, u)
  /\ m_mutex' = NoThread
  /\ IF s \in {"W_WAKE", "canceled"}
     THEN pc' = [pc EXCEPT ![j] = "mount_fails"] /\ stat' = [stat EXCEPT ![j] = s]
     ELSE pc' = [pc EXCEPT ![j] = "mount"] /\ UNCHANGED stat
  /\ unmounted' = [unmounted EXCEPT ![j] = FALSE]

\* The head of the loop: leave if the job was canceled, else go to sleep.
SysopLoop(j, d, u) ==
  IF canceled[j] THEN SysopExit(j, d, u, "canceled")
  ELSE /\ dev' = d
       /\ m_mutex' = j
       /\ pc' = [pc EXCEPT ![j] = "sysop_tested"]
       /\ unmounted' = [unmounted EXCEPT ![j] = u]
       /\ UNCHANGED stat

wait_for_sysop(j) ==
  /\ pc[j] = "mount" /\ m_mutex = NoThread
  /\ asks[j] < MaxAsks
  /\ asks' = [asks EXCEPT ![j] = @ + 1]
  /\ SysopLoop(j, IF is_device_unmounted(dev) THEN dev
                  ELSE [dev EXCEPT !.prev = dev.blocked,
                                   !.blocked = "WAITING_FOR_SYSOP"],
               is_device_unmounted(dev))
  /\ UNCHANGED <<acquire_mutex, volume, canceled, entry, errors, despools, hold,
                 signaled, aborted>>

sysop_sleeps(j) ==
  /\ pc[j] = "sysop_tested"
  /\ m_mutex' = NoThread
  /\ pc' = [pc EXCEPT ![j] = "sysop_wait"]
  /\ UNCHANGED <<dev, acquire_mutex, volume, jobLocals, hold, signaled, aborted>>

\* next_vol_timedwait returned, by a broadcast or by the timeout.
SysopWakes(j) == /\ pc[j] = "sysop_wait" /\ m_mutex = NoThread
                 /\ signaled' = signaled \ {j}
                 /\ UNCHANGED <<acquire_mutex, volume, canceled, entry, asks,
                                errors, despools, hold, aborted>>

\* The operator is labelling: wait on.  So does a heartbeat, below.
sysop_labelling(j) ==
  /\ SysopWakes(j)
  /\ dev.blocked = "WRITING_LABEL"
  /\ SysopLoop(j, dev, unmounted[j])

NotLabelling == dev.blocked # "WRITING_LABEL"

sysop_timeout(j) ==
  SysopWakes(j) /\ NotLabelling /\ SysopExit(j, dev, unmounted[j], "W_TIMEOUT")

sysop_poll(j) ==
  /\ SysopWakes(j) /\ NotLabelling /\ ~is_device_unmounted(dev)
  /\ SysopExit(j, dev, FALSE, "W_POLL")

sysop_mounted(j) ==
  SysopWakes(j) /\ dev.blocked = "MOUNT" /\ SysopExit(j, dev, FALSE, "W_MOUNT")

sysop_woken(j) ==
  /\ SysopWakes(j) /\ j \in signaled /\ dev.blocked \notin {"WRITING_LABEL", "MOUNT"}
  /\ SysopExit(j, dev, is_device_unmounted(dev), "W_WAKE")

sysop_heartbeat(j) ==
  /\ SysopWakes(j) /\ j \notin signaled
  /\ dev.blocked \notin {"WRITING_LABEL", "MOUNT"}
  /\ SysopLoop(j, dev, is_device_unmounted(dev))

-----------------------------------------------------------------------------
(* Console commands: stored/dircmd.c. *)

Idle(c) == pc[c] = "start" /\ m_mutex = NoThread

CommandEnds(c) == pc' = [pc EXCEPT ![c] = "done"]

\* Someone waits for the operator: tell it that the mount is done.
mount_cmd_wakes(c) ==
  /\ Idle(c)
  /\ dev.blocked \in {"WAITING_FOR_SYSOP", "UNMOUNTED_WAITING_FOR_SYSOP"}
  /\ dev' = set_blocked(dev, "MOUNT")
  /\ signaled' = WakeSysopWaiters
  /\ CommandEnds(c)
  /\ UNCHANGED <<locks, volume, jobLocals, hold, aborted>>

\* The operator's own unmount is lifted at once if the drive does not open.
mount_cmd_openFails(c) ==
  /\ Idle(c) /\ dev.blocked = "UNMOUNTED"
  /\ dev' = unblock_device(dev)
  /\ signaled' = WakeWaiters(dev)
  /\ CommandEnds(c)
  /\ UNCHANGED <<locks, volume, jobLocals, hold, aborted>>

\* Steal the block and work without m_mutex.
Steal(c, s, where) ==
  /\ hold' = [hold EXCEPT ![c] = Awake(c)]
  /\ dev' = obtain_device_block(Awake(c), c, s)
  /\ pc' = [pc EXCEPT ![c] = where]
  /\ signaled' = signaled \ {c}
  /\ UNCHANGED <<locks, volume, jobLocals, aborted>>

\* mount of an unmounted drive, or of a tape drive that is closed.
mount_cmd_read_label(c) ==
  /\ Idle(c)
  /\ \/ dev.blocked = "UNMOUNTED"
     \/ dev.blocked = "NOT_BLOCKED" /\ num_writers = 0 /\ ~can_append
  /\ Steal(c, "DOING_ACQUIRE", "read_label")

\* The label is read: give the block back, and lift the operator's unmount.
read_label_ends(c) ==
  /\ pc[c] = "read_label" /\ m_mutex = NoThread
  /\ LET back == give_back_device_block(dev, hold[c])
     IN IF hold[c].blocked = "UNMOUNTED"
        THEN /\ dev' = unblock_device(back)
             /\ signaled' = WakeSysopWaiters \cup WakeWaiters(dev)
        ELSE /\ dev' = back
             /\ signaled' = WakeWaiters(dev)
  /\ hold' = [hold EXCEPT ![c] = InitialBlock]
  /\ CommandEnds(c)
  /\ UNCHANGED <<locks, volume, jobLocals, aborted>>

unmount_cmd_waiting(c) ==
  /\ Idle(c) /\ dev.blocked = "WAITING_FOR_SYSOP"
  /\ dev' = set_blocked(dev, "UNMOUNTED_WAITING_FOR_SYSOP")
  /\ CommandEnds(c)
  /\ UNCHANGED <<locks, volume, jobLocals, hold, signaled, aborted>>

unmount_cmd_idle(c) ==
  /\ Idle(c) /\ ~is_busy
  /\ dev.blocked \notin {"WAITING_FOR_SYSOP", "DOING_ACQUIRE", "WRITING_LABEL",
                         "UNMOUNTED"}
  /\ dev' = [dev EXCEPT !.blocked = "UNMOUNTED", !.owner = NoThread]
  /\ can_append' = FALSE
  /\ CommandEnds(c)
  /\ UNCHANGED <<locks, num_writers, jobLocals, hold, signaled, aborted>>

\* A job whose block can be stolen is about to use the drive: it was canceled
\* while it waits, or its wait is over and the drive is still marked unmounted.
JobLeavesWait ==
  \E j \in Jobs : \/ pc[j] \in InSysop /\ canceled[j]
                  \/ pc[j] \in {"mount", "mount_fails"}

\* label_volume_if_ok and read_volume_label: one try to obtain the block.
label_cmd(c) ==
  /\ At(c, "start", "label_wait") /\ ObtainPasses(c)
  /\ OperatorCareful => ~JobLeavesWait
  /\ Steal(c, "WRITING_LABEL", "label")

\* A closed drive that cannot be stolen: wait for the next broadcast, ...
label_sleeps(c) == ObtainSleeps(c, "start", "label_wait")

\* ... and answer "busy" if it brought nothing.
label_refused(c) ==
  /\ pc[c] = "label_wait" /\ m_mutex = NoThread /\ c \in signaled
  /\ ~ObtainPasses(c)
  /\ dev' = Awake(c)
  /\ signaled' = signaled \ {c}
  /\ CommandEnds(c)
  /\ UNCHANGED <<locks, volume, jobLocals, hold, aborted>>

label_ends(c) ==
  /\ pc[c] = "label" /\ m_mutex = NoThread
  /\ dev' = give_back_device_block(dev, hold[c])
  /\ signaled' = WakeWaiters(dev)
  /\ hold' = [hold EXCEPT ![c] = InitialBlock]
  /\ CommandEnds(c)
  /\ UNCHANGED <<locks, volume, jobLocals, aborted>>

\* cancel_cmd takes no mutex: it marks the job and, if the drive of the job
\* waits for a mount, wakes whoever waits there.
CancelWakes == IF waiting_for_mount(dev) THEN WakeSysopWaiters ELSE signaled

cancel_cmd(c) ==
  /\ pc[c] = "start"
  /\ OperatorCareful => NotLabelling
  /\ \E j \in Jobs : /\ pc[j] \notin {"start", "done"} /\ ~canceled[j]
                     /\ canceled' = [canceled EXCEPT ![j] = TRUE]
  /\ signaled' = CancelWakes
  /\ CommandEnds(c)
  /\ UNCHANGED <<dev, locks, volume, unmounted, stat, entry, asks, errors,
                 despools, hold, aborted>>

-----------------------------------------------------------------------------
Init ==
  /\ dev = InitialBlock
  /\ m_mutex = NoThread /\ acquire_mutex = NoThread
  /\ num_writers = 0 /\ can_append = FALSE
  /\ pc = [t \in Threads |-> "start"]
  /\ canceled = [j \in Jobs |-> FALSE]
  /\ unmounted = [j \in Jobs |-> FALSE]
  /\ stat = [j \in Jobs |-> "none"]
  /\ entry = [j \in Jobs |-> "acquire"]
  /\ hold = [c \in Commands |-> InitialBlock]
  /\ signaled = {}
  /\ asks = [j \in Jobs |-> 0] /\ errors = [j \in Jobs |-> 0]
  /\ despools = [j \in Jobs |-> 0]
  /\ aborted = FALSE

\* What a job's thread does by itself, without the passing of time.
JobStep(j) ==
  \/ acquire_have_vol(j) \/ acquire_sleeps(j) \/ acquire_device_for_append(j)
  \/ mount_next_write_volume(j) \/ mount_given_up(j)
  \/ wait_for_sysop(j) \/ sysop_sleeps(j)
  \/ sysop_labelling(j) \/ sysop_poll(j) \/ sysop_mounted(j) \/ sysop_woken(j)
  \/ write_sleeps(j) \/ write_block_to_device(j)
  \/ fixup_device_block_write_error(j)
  \/ despool_sleeps(j) \/ despool_data(j) \/ despool_committed(j)
  \/ despool_ends(j)
  \/ do_append_data_ends(j)
  \/ release_sleeps(j) \/ release_device(j)
  \/ SleepsOn(j)

\* The rest of a command that has begun.
CommandStep(c) == \/ read_label_ends(c) \/ label_ends(c) \/ label_refused(c)
                  \/ pc[c] = "label_wait" /\ label_cmd(c)

CommandBegins(c) ==
  \/ mount_cmd_wakes(c) \/ mount_cmd_openFails(c) \/ mount_cmd_read_label(c)
  \/ unmount_cmd_waiting(c) \/ unmount_cmd_idle(c)
  \/ pc[c] = "start" /\ label_cmd(c)
  \/ label_sleeps(c)
  \/ cancel_cmd(c)

Next ==
  \/ \E j \in Jobs : \/ reserve_device_for_append(j)
                     \/ JobStep(j) \/ sysop_timeout(j) \/ sysop_heartbeat(j)
  \/ \E c \in Commands : CommandBegins(c) \/ CommandStep(c)

\* Threads run.  A command that has begun gets m_mutex back in the end, because
\* a job in wait_for_sysop sleeps between two turns of its loop.  That loop
\* ends: every turn takes from rem_wait_sec until the job times out.
Fairness ==
  /\ \A j \in Jobs : WF_vars(JobStep(j)) /\ SF_vars(sysop_timeout(j))
  /\ \A c \in Commands : SF_vars(CommandStep(c))

Spec == Init /\ [][Next]_vars /\ Fairness

-----------------------------------------------------------------------------
(* Properties. *)

TypeOK ==
  /\ dev \in Blocks
  /\ m_mutex \in Threads \cup {NoThread} /\ acquire_mutex \in Threads \cup {NoThread}
  /\ num_writers \in 0..Cardinality(Jobs) /\ can_append \in BOOLEAN
  /\ pc \in [Threads -> {"start", "reserved", "writing", "release", "done"}
                        \cup InRLock \cup InObtain \cup Working \cup InSysop]
  /\ canceled \in [Jobs -> BOOLEAN] /\ unmounted \in [Jobs -> BOOLEAN]
  /\ stat \in [Jobs -> {"none", "canceled", "W_WAKE"}]
  /\ entry \in [Jobs -> {"acquire", "NOT_BLOCKED", "DESPOOLING"}]
  /\ hold \in [Commands -> Blocks]
  /\ signaled \subseteq Threads
  /\ asks \in [Jobs -> 0..MaxAsks] /\ errors \in [Jobs -> 0..MaxErrors]
  /\ despools \in [Jobs -> 0..MaxDespools]
  /\ aborted \in BOOLEAN

\* Whoever works on the drive without m_mutex -- a job mounting a Volume or
\* despooling, a command reading or writing a label -- is the thread the block
\* belongs to: no two threads move the tape at once, and no writer gets past
\* rLock meanwhile.  Nor can a command steal the block, unless the operator
\* has unmounted the drive under the job (lock.c, acquire.c:415-434,
\* device.c:105-145, spool.c:219-345, dircmd.c:1006-1140, wait.c:198-199).
DriveOwned ==
  \A t \in Threads : pc[t] \in Working =>
    /\ is_blocked(dev) /\ dev.owner = t
    /\ can_obtain_block(dev) => is_device_unmounted(dev)

\* A block is never left behind: unless the operator unmounted the idle drive,
\* the thread that blocks it is inside the routine that will unblock it, and a
\* job whose block was stolen gets it back (lock.c:471-490).
BlockHasHolder ==
  /\ is_blocked(dev) /\ dev.blocked # "UNMOUNTED" =>
       /\ dev.owner # NoThread
       /\ pc[dev.owner] \in Working \cup InSysop \cup {"release", "release_wait"}
  /\ \A j \in Jobs : pc[j] \in InSysop =>
       \/ dev.owner = j
       \/ \E c \in Commands : pc[c] = "label" /\ hold[c].owner = j

\* num_waiting counts the sleepers on dev->wait, and nobody sleeps there for a
\* drive that is free: every routine that lifts a block wakes them
\* (lock.c:247-261, 412-423, 475-490).
NoSleeperForgotten ==
  /\ dev.waiting = Cardinality({t \in Threads : pc[t] \in InRLock \cup InObtain})
  /\ \A t \in Threads \ signaled :
       pc[t] \in InRLock \cup InObtain => is_blocked(dev)

\* The assertions of block_device and unblock_device never fail, although
\* commands change the state of the block while its owner waits
\* (lock.c:399, 416).
NoAbort == ~aborted

\* Every job that reserved the drive lets it go in the end, whatever the
\* operator mounts, labels or cancels meanwhile, unless the operator leaves the
\* drive unmounted: a job that reserved it while a label command hid that it
\* is unmounted waits in rLock without a timeout (reserve.c:931, lock.c:247-261,
\* wait.c:86-196, acquire.c:489).
JobsEnd ==
  \A j \in Jobs : pc[j] = "reserved" ~> pc[j] = "done" \/ dev.blocked = "UNMOUNTED"

\* A command that writes a label keeps the drive until it gives it back:
\* "Enter with device blocked and locked by us" (lock.c:472).
LabelKeepsBlock ==
  \A c \in Commands : pc[c] = "label" => dev.blocked = "WRITING_LABEL" /\ dev.owner = c

\* A job gives up its wait with "Job was stopped by the user" only if the user
\* stopped it (askdir.c:878, 998).
WakeMeansStopped == \A j \in Jobs : stat[j] = "W_WAKE" => canceled[j]

=============================================================================
