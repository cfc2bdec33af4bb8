# A verification project for Bacula

TLA+ models of the concurrent core of Bacula (`src/bacula/src`), the TLC
configurations that check them on small instances, and TLAPS proofs. Line
numbers refer to the files of the repository; `PROJECT.json` maps every
definition to the lines it models.

## 1. Inventory

Bacula is four programs: the Director (schedules and controls jobs), the
Storage daemon (drives and volumes), the File daemon (reads and restores files)
and the console. Each daemon is multi-threaded C++ on POSIX threads.

| Part | State | Operations | Interacts with | What is hard |
|---|---|---|---|---|
| Read/write lock `lib/rwlock.c` | counters of active and waiting readers and writers, `writer_id`, two condition variables | init, destroy, read/write lock, try-lock, unlock | every daemon: catalog handle, configuration resources, watchdog list, reservations, volume list, autochanger | wake-ups steered by counters, nested writers, destruction |
| Job queue `dird/jobq.c` | waiting, ready and running lists, worker counts, `quit`, `valid` | `jobq_add`, `jobq_remove`, `sched_wait`, the worker loop `jobq_server`, `reschedule_job`, `acquire_resources`, `jobq_destroy` | scheduler and console (`run_job`), console and watchdog (`cancel_job`), the job engine `job_thread`, counters of `dird_conf.c` | mutex given up in the middle of the loop, counters taken in sequence, cancels at any moment, `valid` tested without the mutex, workers that time out, shutdown |
| Job control `dird/job.c` | `JobStatus`, times and flags of a JCR | `run_job`, `job_thread`, `cancel_job`, `job_monitor_watchdog` | job queue, daemons | status read long before it is used; two cancellers |
| Job status `lib/jcr.c`, `jcr.h` | the status of a JCR, the chain of JCRs, use counts | `setJobStatus`, `compareJobStatus`, `free_jcr` | everything | several writers of one status |
| Resource counters `dird/dird_conf.c` | `NumConcurrentJobs` of clients, storages, Job resources | increment, decrement, compare | job queue, storage manager | leaks and double release |
| Storage manager `dird/store_mngr.c` | read and write storage lists of a job | inc/dec/release of every storage in a list, ordering policies | job queue, job types | partial acquisition, release outside the queue's mutex |
| Device locking `stored/lock.c`, `stored/wait.c` | `m_blocked`, `dev_prev_blocked`, `no_wait_id`, `num_waiting` of a drive, two condition variables | block, unblock, steal, give back, lock for a purpose, wait for the operator | jobs that append (`acquire.c`, `device.c`, `spool.c`, `block.c`), console commands (`dircmd.c`) | a thread other than the owner runs in between; states restored from an old copy |
| Reservations and volumes `stored/reserve.c`, `vol_mgr.c`, `mount.c`, `autochanger.c` | volume list, read list, `dev->vol`, counts of reservations and writers | reserve, swap, mount, unload, free, release | jobs, device locking, changer | a volume moves in several steps; decisions made after locks were dropped; the read list has a lock of its own |
| Work queue `lib/workq.c` | list of elements, `num_workers`, `num_running`, `quit` | add, remove, serve, wait for idleness, destroy | console connections, cloud transfers | a worker that leaves against a new element; shutdown |
| Cloud transfers `stored/cloud_transfer_mgr.c`, `cloud_dev.c` | transfers with state, use count and statistics, the manager's list | get, queue, proceed, put off, wait, cancel, release | jobs, work queue | sharing against deletion, three nesting mutexes, retries |
| Watchdog `lib/watchdog.c`, `lib/btimers.c` | active and inactive timer lists, `watchdog_time`, `quit` | register, unregister, walk and call back, ping, stop | job monitor, timers on threads, sockets and child processes | stopping a timer during its callback, lost pings, a stale clock |
| Message worker `lib/worker.c` | queue, thread state | start, queue, dequeue, stop | nothing uses it | stop against a blocked producer |
| Scheduler, job types, console, catalog, File daemon, device I/O, plugins, GUIs | - | - | - | mostly one job at a time, I/O, SQL and user interaction |

What makes the parts correct: a lock never has a writer beside another holder
and never forgets a waiter; a job is in one list at a time and is executed by
one worker; it executes only with its resources and within their limits, gives
each of them back exactly once, is freed exactly when nobody refers to it;
canceled jobs leave the queue and never start; jobs of better priority go first;
every job ends; shutdown ends. Whoever works on a drive owns its block and hands it
back; a volume is in one drive and written through one drive; queued work is done
exactly once; a shared transfer lives until its last user leaves.

## 2. Plan

1. `RWLockHolds`, `RWLock`, `RWLockProofs`: the lock, its abstract specification,
   the refinement and its proof. *Done.*
2. `JobStatus`, `JobQ`, `MCJobQ`: the job queue with everything that feeds it.
   *Done, model-checked.*
3. `CollectionLemmas`, `JobQProofs`: every invariant of the queue for any set of jobs,
   workers and limits, and the order in which jobs start. *Done.*
4. `StoreMngr`, `MCStoreMngr`: the storage lists of a job: taking a counter on each,
   keeping the ones with room, choosing one and releasing the others outside the
   queue's mutex; `StoreMngrProofs`. *Done*; left: the order `FreeSpaceLeastUsed` makes.
5. `WorkQ`, `WorkQUsers`, `WorkQProofs`: the thread pool, a relative of the job queue.
   *Done.*
6. `CloudXfer`, `MCCloudXfer`, `WorkQProofs`: the transfer manager composed with `WorkQ`.
   *Done.*
7. `DevLock`, `DevLockProofs`: `stored/lock.c` and `wait.c` with their callers. *Done.*
8. `VolMgr`, `MCVolMgr`, `VolMgrProofs`: volumes and drives. *Done.*
9. `Watchdog`, `MCWatchdog`, `WatchdogProofs`: timers against their removal, and when
   they fire. *Done.*
10. Theorems on the invariants of `CloudXfer`, beside those of `WorkQ`. *Done.*

## 3. Modules

### RWLock and RWLockHolds

`RWLock` models `lib/rwlock.c` 41-313. The lock's internal mutex is held for the
whole of each call except inside `pthread_cond_wait`, so a call is one action and a
blocking call is two: going to sleep (`rwl_readlock`, `rwl_writelock_p`) and the
re-test of the `while` condition after a wake-up (`rwl_readlock_woken`,
`rwl_writelock_woken`). The condition variables are the sets `read` and `write` of
threads asleep on them; a broadcast empties the set, a signal removes one thread.
`SpuriousWakeup` removes any thread at any moment, as POSIX allows. `EndWait` is the
decrement after the loop (154, 237). The cleanup handlers 107-129 do the same for a thread
that is cancelled while it waits; nothing in `bacula/src` calls `pthread_cancel`, and
cancellation of threads is not modelled. Ghost variables `readers` and `wdepth` record the holds that were granted; no guard of
the lock itself reads `wdepth`. The caller's discipline is a guard: only a
holder releases, and a thread does not ask for the lock in the other mode while
it holds it (it would wait for itself). `MaxDepth` bounds nesting.

`RWLockHolds` is what the lock promises: holds granted and released one at a time,
readers sharing, a writer excluding all others. `ImplementsHolds` is the
refinement; the writer's depth is not the ghost but is read off `w_active` and
`writer_id`.

### JobStatus

`compareJobStatus` and its priorities (`jcr.c` 886-1002), `job_canceled` (`jcr.h`
135-139) and the statuses for which `cancel_job` assumes the job is queued
(`job.c` 736-749). Statuses of a running job that no code of the queue tells
apart from Running are left out; so are `JS_WaitMaxJobs` and `JS_WaitDevice`, which
nothing in the Director's own code gives a job.

### JobQ and MCJobQ

State: the three lists, the jobs whose thread is in `sched_wait` or `jobq_add` (`sched`) and those of
them that have passed the test of `jq->valid` (`tested`), and per worker
its `pc`, its job and its `timedout` flag. A worker holds `jq->mutex` exactly while its
`pc` is in `Locked`; an action that takes the mutex needs `MutexFree`. The loop of
`jobq_server` is cut exactly where the mutex is given up, and inside the scan of the
waiting list once per job, because threads that do not take the mutex
(`cancel_job` marking a job, the watchdog, the console's priority change, the engine)
interleave there:

| Worker `pc` | Place in `jobq_server` | Action |
|---|---|---|
| `start`, `wait`, `sleep` | before the first lock, in the timed wait, in the 2 s pause | `ServerStart`, `TimedWait`, `Pause` |
| `ready` (locked) | top of the ready loop | `TakeReady`, `StartScan`, `LoopEnd` |
| `scan`, `refused` (locked) | the loop over waiting jobs; `acquire_resources` has failed | `Examine`, `Refused`, `LoopEnd` |
| `engine`, `run` | `job_thread`: before it marks the job Running, before and after the cancel test | `MarkRunning`, `job_thread`, `job_thread_end` |
| `done` | back from the engine | `JobDone` |
| `resched` (locked), `requeue`, `respawn` | `reschedule_job` | `reschedule_job`, `Requeue`, `Respawn` |
| `requeuing`, `respawning` | in `jobq_add`, past the test of `jq->valid` | `jobq_add` |
| `requeued`, `free` | releasing the JCR | `FreeJcr` |

`jobq_add` tests `jq->valid` without the mutex (241) and inserts the job under it (261). The test
is the end of `run_job`, `sched_wait`, `Requeue` and `Respawn`; the rest is the action
`jobq_add`, and `jobq_destroy` may run and return in between. What follows then is undefined;
the model lets the thread go on, as a build does that finds the destroyed mutex usable.
`jobq_remove` tests `valid` in the same way: a `cancel_job` that has reached it may go on after
a shutdown. `cancel_job` is four actions: reading the status, marking the job, and then
either `jobq_remove` or telling the daemons; `stop` marks only jobs that are `Stoppable`
(`can_be_stopped`). Its return value stays in
`cancel[j].step` ("true" or "false").

Abstractions: a job has at most one read and one write storage, each with one
counter; script timers are due or not due nondeterministically; a start time
passes at any moment; a run ends in any of `Outcomes`; one cancel per job
(bound); `RescheduleTimes` bounds re-runs (the code's 0, unlimited, is not
instantiated); `allow_duplicate_job` accepts; only references taken by this
machinery are counted in `use` (the creator's and the canceller's are not); a cancel that marks a
job inside a turn of the scan, before its resources were refused, comes just before the
turn (`Examine` says why that is the same); failing pthread calls and `malloc` are
left out; `Priority` and `mix`, locals of the scan, are reset when it ends.

`MCJobQ` gives the constants values: `j1` copies from tape to disk and shares client
and disk with `j2`; `j3` has a worse priority and writes to the tape `j1` reads from;
`j4` is the JCR a failed `j1` is re-run under.

### StoreMngr and MCStoreMngr

`JobQ` gives a job one storage to read and one to write. `StoreMngr` has the lists:
`dird/store_mngr.c` with its callers in `acquire_resources` and `jobq_server` (`jobq.c`),
`do_backup`, `select_rstore` (`restore.c`) and `do_mac`. Per job: the two lists, the selected
storage of each, `unused_stores_decremented` of the write storage (of the read one it is
never set), the list a copy lends to its `wjcr`, and the `inc_stores` call under way
(`todo`, `got`, `tested`). `inc_stores` takes one step per storage, two for a read storage,
where the test and the increment are separate accesses. The queue's mutex is held
while a job is in `Acquiring`; running jobs do not take it.

| Job `pc` | Where | Actions that leave it |
|---|---|---|
| `queued` | in the waiting list | `acquire_resources` |
| `incread`, `incwrite`, `others` | inside `acquire_resources` | `inc_rstore_test`, `inc_rstore`, `inc_wstore`, `inc_read_stores`, `inc_write_stores`, `OthersGranted`, `BackOut` |
| `run` | the engine has started | `apply_write_policy`, `select_rstore`, `SameStore`, `do_mac`, `JobDone` |
| `pick` | a backup tries its storages | `StartOn`, `NoneStarts` |
| `switch` | a restore waits for another storage | `inc_rstore_test`, `inc_rstore`, `Switched`, `RetrySwitch`, `reset_rstorage` |
| `work`, `end` | running, back from the engine | `select_rstore`, `SameStore`, `mac_bail_out`, `JobDone` |

Abstractions: the client's and the Job resource's counter grant or refuse
nondeterministically; free space and catalog dates give any order; a list names a
storage once; canceled jobs that skip `acquire_resources` are in `JobQ` only; which
storage "can read the volumes" of a copy is `Bootstrap`; runs of decrements are one step.

### WorkQ and WorkQUsers

`WorkQ` has the state of a `workq_t`, the calls and the turns of `workq_server`, and says
nothing about who calls. `wq->mutex` is held except in `pthread_cond_timedwait` and
while an engine runs, so a worker has three actions: `workq_server` (it starts, or is
woken), `TimedWait` (its two seconds are over) and `EngineReturns`; each runs to the
next place where the mutex is given up (`Take`, `Leave` or `Sleep`). `idle_workers` is
never incremented in the code (as in `jobq.c`), so no element is ever signalled and the
field is left out. The calls test `wq->valid` before they take the mutex, like `jobq_add`; here that
is one step with what follows, because the users of the queue destroy it from the thread
that adds, or after those that add were joined. `workq_remove` of an element that is not in the list returns
without unlocking: `mutex_lost`, after which nobody moves.

`WorkQUsers` adds every use: elements arrive at either end, one may be passed to
`workq_remove`, a caller waits for idleness or destroys the queue. Ghosts `added`, `done`
and `before` remember what was accepted and served.

### CloudXfer and MCCloudXfer

`CloudXfer` extends `WorkQ`: the elements are transfers, the engine is
`transfer_launcher`. A job (`jpc`) gets the transfer of its part, or makes it
(`get_xfer`, `get_xfer_inc`), queues it (`transfer_queue`, `transfer_queue_add`), waits
(`wait_end_of_transfer`, `transfer_wait_woken`, the 30 s time-out) and releases it
(`release`, `release_remove`, `release_delete`). A worker (`epc`) makes the
transitions, each of which begins with the transfer's mutex (`transition`): `proceed`, the end of
the engine (`TransferEnds`, `DownloadRetry`, `WaitMore`, `WaitOver`) and `transition_end` or
`transition_queue` + `transition_queue_add`. A viewer is a thread that answers a status
command (`update_statistics`, `append_status`). Three kinds of mutex are variables, because
each is held while another is asked for: a transfer's (then the statistics' or the list's), the
list's (then a transfer's) and the manager's statistics' (then the list's); elsewhere a
step only needs it free. The statistics mutex of a transfer is the innermost and is left out. A use of a deleted transfer stops the model (`crashed`).
Abstractions: one transfer per job, driver results are arbitrary, restoring a part in the
cloud ends some day, at most `MaxRetries` postponements of a download (the code has no
limit of its own), at most `MaxViews` status commands; upload sizes, truncation, cache and parts on disk are data.

### DevLock

One drive. The block is a record `dev` (`m_blocked`, `dev_prev_blocked`, `no_wait_id`,
`num_waiting`); `signaled` holds the sleepers a broadcast woke. A routine is one step
except where `m_mutex` is given up, and in `wait_for_sysop`, which tests for a cancel and
then goes to sleep in two steps because `cancel_cmd` takes no mutex.

| Job `pc` | Where | Actions that leave it |
|---|---|---|
| `start`, `reserved` | reservation, `acquire_device_for_append` | `reserve_device_for_append`, `acquire_have_vol`, `acquire_sleeps`, `acquire_device_for_append` |
| `acquire_rLock`, `write_rLock`, `dblock_rLock` | asleep in `rLock` | the same routines after a wake-up, `SleepsOn` |
| `mount`, `mount_fails` | `mount_next_write_volume`, blocked but not locked | `mount_next_write_volume`, `mount_given_up`, `wait_for_sysop` |
| `sysop_tested`, `sysop_wait` | `wait_for_sysop` | `sysop_sleeps`, `sysop_labelling`, `sysop_timeout`, `sysop_poll`, `sysop_mounted`, `sysop_woken`, `sysop_heartbeat` |
| `writing`, `despool` | writing blocks, despooling under `dblock` | `write_sleeps`, `fixup_device_block_write_error`, `despool_*`, `do_append_data_ends` |
| `release`, `release_wait` | `release_device` | `release_sleeps`, `release_device` |

A command runs once: mount (wake the waiter; or steal the block and read the label), unmount
(under a waiting job; or of an idle drive), label or readlabel (steal, with one sleep at
most), cancel. With `OperatorCareful` nobody labels while a job is leaving its wait for the operator
or cancels a job during a label; without it the block is lost (`devlock_label`).
Abstractions: a volume is mounted and appendable or not; whether a mount succeeds, needs
the operator, or a write fails is arbitrary; bounds on asks, write errors and despools.

### VolMgr and MCVolMgr

The drives of one changer, tape or virtual disk (`kind`). `vm` is a record with the
volume list (`name -> VOLRES`) and per drive `vol`, `hdr` (the label in memory), `loaded` (what
is physically there), `unload`, `swap_dev`, `append`; the routines of `vol_mgr.c` are functions on it.
The read list is the sequence the code keeps, with `dlist::binary_search` as it is written:
`LastCompared` is one turn of its loop, on the part of the list between `low` and `high`. A restore
enters the volumes of its bootstrap record one by one, in order, and takes them out in the same
order, each under the list's own lock. A job that looks for a volume searches the list under
that lock too, gives it up, and reserves the volume under `lock_volumes` (`vol_mgr.c` 398, 409): `seen`
holds the read lists there have been since the job began to look (`Searching`), and each
search may have met any of them (`NotFound`). `can_i_write_volume` searches by itself (845),
so two searches of one job may have met two different lists.

| Job `pc` | Where | Actions that leave it |
|---|---|---|
| `start`, `reserve`, `reserved` | `reserve.c` | `reserve_device_for_append`, `reserve_known_volume`, `reserve_any_volume`, `unreserve_device`, `acquire_device_for_append` |
| `unused`, `unused_end` | `volume_unused` inside `unreserve_device` | `unreserve_marks` |
| `mount`, `remount`, `find` | `mount_next_write_volume` | `mount_begins`, `find_a_volume`, `ask_sysop_to_mount`, `mount_canceled` |
| `load`, `unload_other`, `loading` | `autoload_device` | `autoload_device`, `unload_other_drive`, `load_volume`; `mount_canceled` from `load` |
| `label` | the label is read and judged | `check_volume_label`, `label_canceled`, `mount_canceled` |
| `ask`, `ask_mount` | the operator is asked | `ask_sysop_again`, `ask_sysop_fails`; `mount_canceled` from `ask` |
| `writing`, `failed` | appending | `fixup_device_block_write_error`, `release_device` |

Abstractions: the Director offers the volumes that are not full, in any order; all volumes are
in one pool and have slots; cancels are taken where the code tests for them (a reservation that is
refused, the tests of `mount.c`, the label that was read); of the volumes tried before the one that is taken
one at most has cost the drive its entry; a blocked drive has one
job that changes its volume (`DevLock` is about how it gets there); `MaxAttempts` bounds
reservation attempts, `MaxFull` the volumes that fill up.

### Watchdog and MCWatchdog

The watchdog thread (`pc`) tests `quit` and takes `wd_lock` (`top`), walks the list one entry per
step (`walk`), runs a callback (`callback`), has unlocked but does not sleep yet
(`unlocked`), sleeps (`sleep`). `register_watchdog` and `unregister_watchdog` are one step
under the lock and one for the ping, which wakes the thread only if it sleeps already;
`stop_watchdog` is three (set `quit`, ping, join and free). The callbacks are what
matters to the list: `callback_child_timer` changes interval and `one_shot` between SIGTERM and
SIGKILL, the others leave the entry alone. Time is a clock `now` that advances only while
the thread has nothing to do but sleep; how long the scheduler keeps a thread
waiting is not counted. History: `due`, the window in which the next call of a timer is right,
and `calls`. Left out: callbacks that themselves start timers (the lock nests), a use of a timer after
`stop_watchdog` (the code aborts), spurious wake-ups (one more walk).

## 4. Runs

| Run | Result | What it shows |
|---|---|---|
| `rwlock` | passes | four threads, nesting two: exclusion, ownership, exact counters, no lost wake-up, safe destruction, refinement of `RWLockHolds`; with fair release and wake-up a waiter can only be overtaken, never forgotten (`NoStall`) |
| `jobq` | passes | three jobs, two workers, a cancel of each job at any moment: one place per job, counters exact and within limits, priority order, cancels stick, a worker is there as long as a job is queued |
| `jobq_rerun` | passes | one job with a delayed or immediate start, every outcome, re-runs on the same and on a new JCR, a Queued script, cancel, stop, watchdog, a changed priority, shutdown: use counts; nothing runs when `jobq_destroy` returns, and nothing begins later but through a thread that had found `valid` set |
| `jobq_live` | passes | two jobs, two workers, cancels: every job ends |
| `store` | passes | two backups on a group of two storages (`FreeSpace`, re-run on error, and `LeastUsed`), a restore that changes storages, a copy: counters exact on every path, limits exceeded at most by restores that race the queue, nobody runs uncounted |
| `workq` | passes | three elements, two workers and a third through `workq_remove`, one caller: each element served once, counts exact, idleness and destruction only when all is done, progress |
| `cloudxfer` | passes | two jobs share one download that may be put off, two workers, a status command, cancels: one place in the queue, references and statistics exact, all jobs end unless a ring of mutexes or a deletion stops them |
| `devlock` | passes | two jobs, one spooling, two commands: ownership, hand-back, no forgotten sleeper, no failed assertion, every job lets go |
| `volmgr` | passes | three jobs, two drives, two volumes, one restore, tape and disk changer: one drive per volume, list and drives agree, a volume announced before a job looks for one is left alone |
| `watchdog` | passes | a thread timer shorter than the sleep, a child timer longer than it, a periodic check, shutdown: no callback for a stopped timer; calls at most `SleepTime` early or late and never late for longer timers; SIGKILL a full delay after SIGTERM; `quit` seen in time |
| `devlock_label` | violated | see below |
| `cloudxfer_deleted` | violated | see below |

Bounds. Two workers and three jobs are the least with which one worker scans, one
runs and one job is blocked behind another by a counter or by a priority; limits
of 1 (2 for the Job resource) make every acquisition failure happen, each after
every number of earlier successes. Workers are symmetric; jobs are not. In the
job queue runs deadlock is not an error: an empty queue with no workers is where
the Director rests. In the `store` runs the tape takes one job and the disk two, one
reader: every list can be granted in full, in part and not at all, and four jobs
are enough for a restore to race the queue for the last place. Jobs need no
bound on re-runs or changes of storage, the states repeat; all jobs gone is
where they stop. `workq`: with three elements one is served, one taken and one
queued; the third worker is there because `workq_remove` exceeds `max_workers`.
`cloudxfer`: two jobs are the least that share; one postponement takes a transfer
through every state, and one status command closes the ring of three mutexes. `devlock`: two jobs so that one sleeps while the other mounts or
despools, two commands so that one runs into the other. `volmgr`: a third
job, so that one can join a drive which two others hand over; three attempts let each
job try once, or one come back after a failure while two others use the drives; one volume fills up, which forces a change of
volumes; the restore reads one of the two volumes, announced and given up at any
point of a job's search, while the other stays free to be swapped (read lists of several entries are
searched in `VolMgr_readers.cfg`, and of any length in the proof). `watchdog`: waits of 1, 2 and 4 around a sleep of 3 and a kill delay of 2 take
every order of due times; eight seconds let the child timer go through both signals
wherever it starts in a sleep. In all of these the system may rest, so deadlock is not an error; where
rest would be wrong a liveness property says so.

Fairness. `RWLock`: a woken thread gets the mutex in the end, and callers release
what they hold. `JobQ`: strong fairness for the workers, for a thread that adds a job
(`sched_wait`, `jobq_add`) and for a `cancel_job` that has begun, because the mutex is contended
but rivals sleep for seconds between two turns, so one that keeps finding it free gets
it. Nothing forces the console, the watchdog or the
scheduler to act. `WorkQ`: weak fairness for a started worker, a timed wait, an engine
and a caller that has been woken. `CloudXfer`: weak fairness for the steps of jobs and
workers; strong fairness of `WaitOver`, since a cloud that is asked again and again
has the part in the end; a status command that has begun ends. `DevLock`: weak fairness for a job's steps; strong fairness for `sysop_timeout`
(each turn of the loop takes from `rem_wait_sec`) and for the rest of a
command that has begun. No command ever has to begin. `Watchdog` needs none: its deadlines are
times that the clock may not pass. `VolMgr` has no liveness property:
its jobs may wait for the operator for ever.

### Findings

* `devlock_label` (`wait.c` 198): a job canceled in `wait_for_sysop` leaves the loop without
  looking at the block. If an operator is writing a label, the job sets the state it
  saved and then lifts the block under the label command, which works on a drive
  other jobs may now use and later gives back a block nobody holds.
* `cloudxfer_deleted` (`cloud_transfer_mgr.c` 661): `release` decrements and compares before it
  takes the list's mutex; a job that gets the transfer in between is left
  with a deleted one.

### Observations

Configurations that are not among the runs reproduce these; each names one property that TLC finds
violated (`tlc -config X.cfg M`).

| Configuration | Module | What happens |
|---|---|---|
| `JobQ_nobody.cfg` | `MCJobQ` | `timedout` is sticky (`jobq.c` 648): a worker that once timed out leaves as soon as the ready list is empty; a job that waits for its Queued script is then seen by nobody until the next `jobq_add` |
| `JobQ_watchdog.cfg` | `MCJobQ` | the watchdog marks the job before `cancel_job` reads its status (`job.c` 960, 736): a waiting job is taken for a running one and stays in the list |
| `JobQ_lostcancel.cfg` | `MCJobQ` | a cancel between a failed run and its rescheduling is overwritten (`jobq.c` 721) and the job starts again |
| `JobQ_revived.cfg` | `MCJobQ` | a re-run wipes out the mark of a `cancel_job` that has still to call `jobq_remove` (`jobq.c` 713), which then moves the job to the ready list although it has no resources: it runs without them |
| `JobQ_stopped.cfg` | `MCJobQ` | a job canceled by its Queued script goes to the ready list without resources; `stop` marks it Incomplete (`job.c` 764), it counts as canceled no more and runs |
| `JobQ_overtakes.cfg` | `MCJobQ` | with AllowMixedPriority a better job joins a running mix and lacks a resource; a worse one, of the priority of the first running job, starts before it although it does not allow mixing (`jobq.c` 600) |
| `JobQ_lateadd.cfg` | `MCJobQ` | a thread tests `jq->valid` (`jobq.c` 241), `jobq_destroy` frees the lists and returns, the thread goes on, adds its job and starts a worker (261-298); 107 says that clearing `valid` prevents any more operations |
| `JobQ_destroy.cfg` | `MCJobQ` | with `quit` set no worker takes ready jobs, and none leaves while there are some (`jobq.c` 438, 633) |
| `StoreMngr_leak.cfg` | `MCStoreMngr` | a storage whose free space cannot be queried leaves the list after it was counted (`store_mngr.c` 341, 388) |
| `StoreMngr_uncounted.cfg` | `MCStoreMngr` | a full storage dropped from the list stays selected (`store_mngr.c` 220); a restore reads from it uncounted |
| `CloudXfer_lockcycle.cfg` | `MCCloudXfer` | `transition` takes the transfer's mutex, then the list's (`cloud_transfer_mgr.c` 353); `get_xfer` and `release` the other way round |
| `CloudXfer_statcycle.cfg` | `MCCloudXfer` | `update_statistics` has the statistics' mutex and wants the list's (`cloud_transfer_mgr.c` 741, 744), `get_xfer` has the list's and wants the transfer's (611), `transition` has the transfer's and wants the statistics' (439) |
| `CloudXfer_cancel.cfg` | `MCCloudXfer` | a canceled job cancels a download it shares with a job that is not (`cloud_dev.c` 2466 says it does not) |
| `DevLock_wake.cfg` | `DevLock` | a job gives up with "Job was stopped by the user" because another job or a cancel of another job woke it (`askdir.c` 878, 998) |
| `VolMgr_taken.cfg` | `MCVolMgr` | `unload_other_drive` tests `is_busy()` of the other drive without its lock (`autochanger.c` 529); another job reserves that idle drive and appends through the fast path (`acquire.c` 401) before it is unloaded; rule 6 at `vol_mgr.c` 364 forbids it |
| `VolMgr_owner.cfg` | `MCVolMgr` | `reserve_volume` gives a tape drive another entry and asks for an unload; `clear_unload` (`acquire.c` 395) takes that back and the job appends to a tape its drive does not own |
| `VolMgr_full.cfg` | `MCVolMgr` | two jobs write one disk volume and it fills up; a third job, which finds no volume for that drive, asks the operator, and `wait_for_sysop` marks the drive's entry unused although there are writers (`wait.c` 59), so a fourth may give the drive another entry (`vol_mgr.c` 438): the job that has not met the end yet appends to a volume its drive does not own |
| `VolMgr_announced.cfg` | `MCVolMgr` | the read list is searched before `lock_volumes` is taken (`vol_mgr.c` 398, 409): a restore announces the volume in between, and it is reserved for writing |
| `VolMgr_readers.cfg` | `MCVolMgr` | the read list is ordered by JobId and searched by name (`vol_mgr.c` 165): with two restores a volume announced before the job began to look is not found and is reserved for writing |
| `Watchdog_early.cfg` | `MCWatchdog` | `next_fire` counts from the last walk (`watchdog.c` 193): a timer on a thread started long after it fires at once, though it is to "kill it after wait seconds" (`btimers.c` 122) |

Seen while modelling, without a configuration:

* Lock and queue: `rwl_writeunlock` wakes readers before writers (`rwlock.c` 305; the
  comment at 279 says the opposite). A canceled job at the head of the running list sets
  the priority of a scan (`jobq.c` 514); exit code 3 of a Queued script is commented
  "skip priority checks" (568) and is checked right after; a console priority change
  does not re-sort the list (`ua_update.c` 1022).
* Storage manager: `MaxConcurrentJobs` is exceeded when `select_rstore` and the queue both
  pass their test before either increments (`store_mngr.c` 165; the run checks by how
  much); `do_mac` forgets the counters of a read group (`mac.c` 495); a list shortened by
  `inc_stores` is never refilled (206); `FreeSpaceLeastUsed` counts one storage too many as near
  the best (720), and none when the threshold exceeds the free space (717, unsigned).
* Work queue: `workq_remove` of an element that was taken returns with the mutex locked
  (`workq.c` 281) and starts threads beyond `max_workers`; nothing in this tree calls it.
* Cloud: `wait_engine` ignores a cancel; an ended transfer still in the list is handed
  to a new job, which sees its old result.
* Drive: a waiter that timed out mounts on while a label may steal the block; a
  drive can be reserved while a label hides that it is unmounted (`reserve.c` 931); a mount
  is lost when the wait timed out just before (`wait.c` 139 against 160); a cancel between
  test and sleep is seen at the next heartbeat; setting WAITING_FOR_SYSOP does not
  wake sleepers of `obtain_device_block`; a label can steal a free drive that has writers
  (`dircmd.c` 647).
* Volumes: the entry of a job canceled while its volume is moving stays in the list
  without a drive that points to it (`vol_mgr.c` 757); `in_use` stays set after a cancel before
  the mount; `volume_unused` tests `dev->vol` without `lock_volumes` and can follow a null pointer
  (`vol_mgr.c` 700-708 against 338; the model stops there, `crashed`); a failed
  attempt keeps the drive reserved until the job's next one.

## 5. Proofs

Each `...Proofs` module extends the model it is about and proves its theorems for every
value of the constants that meets the model's `ASSUME`s. The argument is always the
same: the properties are not inductive, so `IInv` collects what else is true at each
step; one lemma per action shows that `IInv` is kept; the properties follow from it.
`CollectionLemmas` holds what the proofs share: an injective sequence as a set without
repetition (what appending, inserting and `RemoveFirst` do to it) and cardinalities of
sets that gain or lose a member, with `In(P)` for the 0 or 1 a condition adds to a count.

**`RWLockProofs`**: `TypeOK`, `MutualExclusion`, `OwnerKnown`, `CountersExact` and `NoLostWakeup`,
and that `RWLock` implements `RWLockHolds`. `IInv` joins them with
`SleepersWait` (who is asleep on a condition is in its loop) and with the exact meaning
of the counters: `r_active` is the number of read holds, `r_wait` and `w_wait` count the
threads in the loops, `w_active` is the depth of the one writer `writer_id` names.
The counting is needed because the broadcasts test the counters, not the sets.
Lemmas on cardinality translate "the
counter is zero" to "the set is empty". The refinement then follows action by
action: a grant is `AcquireRead` or `AcquireWrite`, a release the matching one, everything
else a stutter. Assumptions: `Threads` is finite and does not contain `NoThread`; `MaxDepth`
is a positive natural number.

**`JobQProofs`**: the queue. `IInv` says where each JCR is (`Lists`, `WorkersKept`: in one
list, with the thread that is to add it, or with one worker), who has the mutex and
the scan (`OneHolder`), which JCRs have not been used yet (`JobsKept`: the JCR a job is
re-run under is fresh when it is started, so it cannot be anywhere already), that each
counter is the number of locks held and within its limit (`Counters`), that each use
count is the references that exist (`References`), and what `cancel_job` may still do
to a job (`CancelsKept`). Places come first: that a counter is given back exactly once
rests on one worker having the job. For shutdown it says (`Shutdown`) that `valid` stays
false, so after `jobq_destroy` has returned no thread can pass the test any more;
`JobQDestroyed` then allows one kind of step only to disturb the quiet: that of a thread which had passed
it before (`LateOperation`), and every such thread acts once. `OnePlace`, `CountersExact`, `UseCounts`,
`DestroyedQuiet` and `0 <= num[r] <= Limit[r]` hold without further hypotheses. The others
are true of a part of the configurations only, because the code itself has exceptions;
the hypothesis names that part, and TLC has a counterexample outside it:

| Theorem | Hypothesis | What the code does without it |
|---|---|---|
| `JobQRunsWithResources`, `JobQLimits` | `NoneRevived`: no cancels; or no re-runs, and not both `stop` and Queued scripts that cancel | `JobQ_revived.cfg`, `JobQ_stopped.cfg` |
| `JobQCanceledNeverStarts` | `NoReruns` | `JobQ_lostcancel.cfg` |
| `JobQCancelLeaves` | `OnlyCommands`: no re-runs, no scripts, no watchdog | `JobQ_watchdog.cfg`; a script or a re-run likewise changes the status between the read and the mark |
| `JobQSomeServerLooks` | `NothingElseWaits`: no Queued scripts, no changed priorities, four different resources per job | `JobQ_nobody.cfg`; a changed priority or a job that is its own rival stalls the scan in the same way |
| `JobQHigherPriorityFirst` | `NoneInBetween`: no Queued scripts, no changed priorities, and no job between one that may join a mix and one that runs in it | `JobQ_overtakes.cfg`; a job its script puts off is passed over whatever its priority |

The last one rests on `Ordered`: the waiting list is sorted, and during a scan each job already passed
over had the right priority, which with a mix is that of a running job. `JobQSomeServerLooks` needs,
besides `IInv`, that a scan which starts with nothing ready or
running begins with a job it is going to move (`Looks`): the head of the list sets the
priority of the scan, and with nothing held every limit has room. Assumptions: finitely many
jobs and workers, positive limits, jobs name resources or none, and a JCR is the re-run of at most
one job and never started otherwise (`CloneAssumption`), which is what `new_jcr` guarantees.

**`StoreMngrProofs`**: `IInv` says what a job holds at each of its steps (`JobsKept`: its lists,
the storages taken so far by the `inc_stores` call under way, what was lent to a copy's
`wjcr`), that one job acquires at a time (`OneAcquires`), that the counters cover the
holders and count no more when nothing is dropped (`Counted`), and that a job which has
tested a storage and not yet taken it still finds room unless a restore came first
(`Limited`). `TypeOK` and `LimitRespected` hold always. `StoresCounted` is proved from
`NothingDropped` (every storage answers, a copy's read group has one member; else
`StoreMngr_leak.cfg` and `mac.c` 495), `NoneUncounted` from `Silent = {}`. The groups name a storage
once, which the assumption states and `IsInjective` carries through the policies.

**`WorkQProofs`**: `IInv` is `Placed` (an accepted element is in the list once, with one
worker, or done), the exact counts, `Closing` (a queue that is being destroyed is
no longer valid, so it takes no elements) and `BeforeAdded`. It yields
`EachOnce`, `WorkersForWork`, `DestroyedAllDone` and the action property `WaitIdleCovers`.

The second part of the module is about `CloudXfer`, for any jobs, parts, transfers, workers
and retries. Its invariant `XferIInv` has two halves. `XQueued` and `XAdding` follow a
transfer: it is `QUEUED` exactly while it is in the work queue or just taken from it,
`PROCESSED` exactly while one worker has it, and who is about to put it in the queue has its mutex,
a job only if it is still `CREATED`; so no second one can. `XRefs` follows the references of
the jobs, who has the list's mutex, and that each transfer in the list or about to leave it has a
job that answers for its removal; a use of a deleted transfer stops the model, which is why
a reference to one need not be excluded here. `QueuedOnce`, `UseCounts` and `StatsExact` follow
without a hypothesis. Sharing is what the other hazards of this component have in common:
`CloudUnsharedDeleted`, `CloudUnsharedLocks` and `CloudUnsharedCancel` prove from `OwnParts` (no
two jobs move the same part; `XOwn` says that each transfer in use then has one job) that no job
refers to a deleted transfer, that no ring of waiting threads forms on the three kinds of mutex (a
job that has the list's mutex finds that of its transfer free: nobody else has the transfer,
and what a worker had to do with it is over, `XHeld`), and that only
transfers of canceled jobs are marked canceled. Without it TLC has a counterexample to each:
`cloudxfer_deleted`, `CloudXfer_lockcycle.cfg`, `CloudXfer_statcycle.cfg`, `CloudXfer_cancel.cfg`.
`CloudXfer_unshared.cfg` checks the three on two jobs with a part each. The two parts share one
module because the second uses the queue of the first; the assumptions of the second
(transfers finitely many, at least as many as jobs) ask nothing of the first, which
has no jobs.

**`WatchdogProofs`**: `CallbackRegistered` and `Punctual`, for any timers, waits, sleep time and
kill delay. `IInv` ties the two lists to the thread's place in them, bounds `watchdog_time`
by the clock (`Clock`), bounds each timer's `next_fire` by the window it was given
(`InTime`: an entry the walk has passed was not due, or is counted in the time the
thread will sleep until) and counts the calls (`CallsCounted`).

**`DevLockProofs`**: the drive's block, for any jobs, commands and bounds. `IInv` follows it:
who has it and what it says while its owner is at each of its steps (`BlockAt`), that
whoever works on the drive has it, and where it is while a job waits for the operator: with
the job, with a state `wait_for_sysop` can restore (`SysopBlock`), or in the `hold` of a
label command, which then keeps a block that will be the job's again. `Counts`
(`num_waiting` and `num_writers` are exact) is part of it because the broadcasts
test `num_waiting`, and because `unmount` of an idle drive relies on there being no writer. The
counters (`DevCounters`) are proved without a hypothesis; `TypeOK`, `DriveOwned`, `BlockHasHolder`,
`NoSleeperForgotten`, `NoAbort` and `LabelKeepsBlock` from `OperatorCareful`, without which
`devlock_label` has a counterexample. Assumptions: jobs and commands are finitely many,
different, and not `NoThread`. The attempt found an overlap in a `CASE` of `fixup_ends`, which TLC
resolves and the logic does not; the guards now exclude each other.

**`VolMgrProofs`**: `OwnedOrSwapping`, `OneDriveWrites`, `DiskWriterOwns` and the action property
`ReadNotReserved`, without further hypotheses. First, what every routine of `vol_mgr.c` and of the changer does to the lists and
drives: each preserves `VmInv` (the list and the drives agree; a label in memory is the
label of what is loaded; a cartridge is in one drive) from any state that has it. That gives
the first property and, for a tape changer, the second, since two drives cannot hold one
cartridge. Two disk drives can open one file, so there the list must tell them apart: `FileOK`
says that a drive open on a volume with room owns it, that the entry is `in_use`
(otherwise another drive might swap it away) and that the drive has a writer (otherwise
`unreserve_device` and `release_device` would free it). This rests on where each job is: what
it holds and that it blocks the drive whose volume it changes (`JobOK`), and that
nobody writes on a drive while its last reservation is given back (`UnusedOK`). The attempt showed
that two properties as first written were true of three jobs only: a writer that waits for a
new volume counted as one that writes, and a disk volume that is full may lose its entry
under a job that has not met its end (`VolMgr_full.cfg`). Both are now stated for
running writers, and on disk for volumes with room.

`ReadNotReserved` has two halves. Every read list a job can have met since it began to look for a
volume is strictly ordered by JobId, then name (`ReadInv`; `VolReadOrdered` for the list there
is), so with the entries of one restore it is ordered by name, and there
`binary_search` ends at the entry searched for, however long the list is (`SearchFinds`). The search
is a recursive function over parts of the list; that it is defined (`SearchDefined`) and where it ends
(`SearchEnds`) are shown without an induction theorem, from the smallest width at
which either would fail. The other half follows the entries that come into use through every
routine (`Uses`, `ReserveUses`, `JobUses`): only `reserve_volume` brings one, after a search of one of
these lists has not found it. The property is about volumes that were announced all that
time; one announced after the search is reserved (`VolMgr_announced.cfg`), and with two
restores the first half fails (`VolMgr_readers.cfg`). The routines of several steps are followed
with `Derived`: what one reservation after another leaves of the drives in use. Assumptions of the module: finitely many jobs, jobs and restores are
different, volumes are positive numbers (their order is that of their names).

Written for the proofs: the models take elements out of lists with the community
modules' `RemoveFirst`, which has no recursion; `Watchdog` names the position of an entry; `VolMgr` names the parts of a list that
`binary_search` visits; the
assumptions on the constants are named and complete.

Model-checked only. Liveness (`NoStall`, `JobsFinish`, `Progress`, both `JobsEnd`) needs
fairness, which the prover cannot treat. Every invariant and action property of the passing
runs is stated by a theorem, some from a hypothesis on the constants as listed above.

## 6. Not modelled

The parts marked not_modelled in `PROJECT.json`, with reasons: I/O, SQL, formats and user interfaces;
`lib/worker.c` and `lib/devlock.c`, which nothing uses. These are most of the source: file and device I/O, the catalog's
SQL, plugins, portability layers and interfaces are some 300,000 lines in which one
thread at a time moves data, so the share of lines the models cover stays small.

Of the modelled parts: in `DevLock`, jobs that read, whether the drive is open, the
locks of shared storage, `mount_mutex` (it is in `VolMgr`) and spurious wake-ups of `dev->wait`. In
`VolMgr`, reading through a drive, changer errors and unknown slots, `do_load` before a
volume is looked for, how many times a mount is tried, changes of the catalog
between question and use, the order in which drives and pools are preferred, use counts of
copies of the list, labelling by the console.

Data races on single words (`JobStatus`, `JobPriority` read without a lock) are
modelled as reads and writes that interleave, not as torn values.
