---------------------------- MODULE DevLockProofs ----------------------------
(***************************************************************************)
(* Proofs about the block of a drive, for any jobs, commands and bounds.   *)
(* IInv follows the block: who has it, what it says while its owner is at  *)
(* each of its steps, and where it is while a label command has taken it.  *)
(***************************************************************************)
EXTENDS DevLock, CollectionLemmas

JobSteps == {"start", "reserved", "writing", "release", "done", "release_wait",
             "mount", "mount_fails", "despool"} \cup InRLock \cup InSysop
CommandSteps == {"start", "done", "label_wait", "read_label", "label"}

DevBlocks == [blocked : States, prev : States, owner : Threads \cup {NoThread},
              waiting : Int]

Types ==
  /\ dev \in DevBlocks
  /\ m_mutex \in Threads \cup {NoThread} /\ acquire_mutex \in Threads \cup {NoThread}
  /\ num_writers \in Int /\ can_append \in BOOLEAN
  /\ pc \in [Threads -> JobSteps \cup CommandSteps]
  /\ \A j \in Jobs : pc[j] \in JobSteps
  /\ \A c \in Commands : pc[c] \in CommandSteps
  /\ canceled \in [Jobs -> BOOLEAN] /\ unmounted \in [Jobs -> BOOLEAN]
  /\ stat \in [Jobs -> {"none", "canceled", "W_WAKE"}]
  /\ entry \in [Jobs -> {"acquire"} \cup States]
  /\ hold \in [Commands -> DevBlocks]
  /\ signaled \subseteq Threads
  /\ asks \in [Jobs -> 0..MaxAsks] /\ errors \in [Jobs -> 0..MaxErrors]
  /\ despools \in [Jobs -> 0..MaxDespools]
  /\ aborted \in BOOLEAN

\* The threads on dev->wait and the writers, which the two counters count.
Sleepers == {t \in Threads : pc[t] \in InRLock \cup InObtain}
Mounting == {"mount", "mount_fails"} \cup InSysop
Writers == {j \in Jobs : \/ pc[j] \in {"writing", "write_rLock", "dblock_rLock",
                                       "despool", "release", "release_wait"}
                         \/ pc[j] \in Mounting /\ entry[j] # "acquire"}

Counts == dev.waiting = Cardinality(Sleepers) /\ num_writers = Cardinality(Writers)

Wakeable == \A t \in Sleepers \ signaled : is_blocked(dev)

\* A block nobody has.
Nobodys(d) == d.owner = NoThread /\ d.blocked \in {"NOT_BLOCKED", "UNMOUNTED"}

\* What the block says while its owner is at each of its steps.
BlockAt(t) ==
  \/ /\ pc[t] \in {"mount", "mount_fails"}
     /\ \/ dev.blocked \in {"DOING_ACQUIRE", "MOUNT"}
        \/ /\ dev.blocked = "UNMOUNTED_WAITING_FOR_SYSOP"
           /\ dev.prev \in {"DOING_ACQUIRE", "MOUNT"}
  \/ pc[t] \in {"despool", "release"} /\ dev.blocked = "DESPOOLING"
  \/ pc[t] = "read_label" /\ dev.blocked = "DOING_ACQUIRE"
  \/ pc[t] = "label" /\ dev.blocked = "WRITING_LABEL"
  \/ pc[t] \in InSysop

\* The block of a job that waits for the operator.
SysopBlock(d, j) ==
  /\ d.owner = j
  /\ d.blocked \in {"WAITING_FOR_SYSOP", "UNMOUNTED_WAITING_FOR_SYSOP", "MOUNT"}
  /\ d.prev \in {"DOING_ACQUIRE", "MOUNT"}
  /\ unmounted[j] => d.blocked # "WAITING_FOR_SYSOP"

Ownership ==
  /\ dev.owner = NoThread => Nobodys(dev)
  /\ \A t \in Threads : dev.owner = t => BlockAt(t)
  /\ \A t \in Threads : pc[t] \in Working => dev.owner = t
  /\ \A j \in Jobs : pc[j] \in InSysop =>
       \/ SysopBlock(dev, j)
       \/ \E c \in Commands : pc[c] = "label" /\ SysopBlock(hold[c], j)
  /\ \A c \in Commands : pc[c] = "read_label" => Nobodys(hold[c])
  /\ \A c \in Commands : pc[c] = "label" =>
       \/ Nobodys(hold[c])
       \/ \E j \in Jobs : hold[c].owner = j /\ pc[j] \in InSysop /\ ~canceled[j]

Entries == \A j \in Jobs : entry[j] \in {"acquire", "NOT_BLOCKED", "DESPOOLING"}

\* What a careless operator can break.
Guarded == Entries /\ Ownership /\ Wakeable /\ ~aborted

IInv == Types /\ Counts /\ (OperatorCareful => Guarded)

-----------------------------------------------------------------------------
(* The steps, each of one thread.  *)
JobActs(j) ==
  \/ reserve_device_for_append(j) \/ JobStep(j) \/ sysop_timeout(j) \/ sysop_heartbeat(j)
CommandActs(c) == CommandBegins(c) \/ CommandStep(c)

USE DEF Threads

\* Only the thread that moves changes its place, and the counters follow it.
Moves(t) ==
  /\ \E s \in JobSteps \cup CommandSteps : pc' = [pc EXCEPT ![t] = s]
  /\ \A j \in Jobs : j # t => entry'[j] = entry[j]

Counted(t) ==
  /\ dev'.waiting = dev.waiting + In(t \in Sleepers') - In(t \in Sleepers)
  /\ num_writers' = num_writers + In(t \in Writers') - In(t \in Writers)

LEMMA CountsStep ==
  ASSUME Types, Counts, NEW t \in Threads, Moves(t), Counted(t)
  PROVE  Counts'
<1>1. IsFiniteSet(Sleepers) /\ IsFiniteSet(Writers)
  <2>1. IsFiniteSet(Threads)
    BY ThreadsAssumption, FS_Union
  <2>2. QED BY <2>1, ThreadsAssumption, FS_Subset DEF Sleepers, Writers
<1>2. \A u \in Threads : u # t => pc'[u] = pc[u]
  BY DEF Moves, Types
<1>3. Sleepers \ {t} = Sleepers' \ {t}
  BY <1>2 DEF Sleepers
<1>4. Writers \ {t} = Writers' \ {t}
  BY <1>2 DEF Writers, Moves
<1>5. QED BY <1>1, <1>3, <1>4, OneMoves DEF Counts, Counted

-----------------------------------------------------------------------------
(* The block after each step, field by field. *)
Is(d, b, p, o, w) ==
  d \in DevBlocks /\ d.blocked = b /\ d.prev = p /\ d.owner = o /\ d.waiting = w

Same == Is(dev', dev.blocked, dev.prev, dev.owner, dev.waiting)
Slept == Is(dev', dev.blocked, dev.prev, dev.owner, dev.waiting + 1)
Without(t) == dev.waiting - In(t \in Sleepers)

\* The states the routines set.
LEMMA SomeStates == {"NOT_BLOCKED", "DOING_ACQUIRE", "DESPOOLING", "WRITING_LABEL", "MOUNT",
  "UNMOUNTED", "RELEASING", "WAITING_FOR_SYSOP", "UNMOUNTED_WAITING_FOR_SYSOP"} \subseteq States
BY DEF States

LEMMA AwakeBlock ==
  ASSUME Types, NEW t \in Threads
  PROVE  Is(Awake(t), dev.blocked, dev.prev, dev.owner, Without(t))
BY DEF Types, DevBlocks, Is, Awake, Sleepers, In, Without

LEMMA Quiet ==
  ASSUME Types, dev' = dev PROVE Same
BY DEF Types, DevBlocks, Is, Same

LEMMA SleepBlock ==
  ASSUME Types, dev' = [dev EXCEPT !.waiting = @ + 1] PROVE Slept
BY DEF Types, DevBlocks, Is, Slept

LEMMA AcquireBlock ==
  ASSUME Types, NEW j \in Jobs, acquire_device_for_append(j)
  PROVE  Is(dev', "DOING_ACQUIRE", dev.prev, j, Without(j))
<1>1. PICK a : a = Awake(j)
  OBVIOUS
<1>2. dev' = block_device(a, j, "DOING_ACQUIRE")
  BY <1>1 DEF acquire_device_for_append
<1>3. QED BY <1>1, <1>2, AwakeBlock, SomeStates DEF Is, DevBlocks, block_device

LEMMA DespoolBlock ==
  ASSUME Types, NEW j \in Jobs, despool_data(j)
  PROVE  Is(dev', "DESPOOLING", dev.prev, j, Without(j))
<1>1. PICK a : a = Awake(j)
  OBVIOUS
<1>2. dev' = block_device(a, j, "DESPOOLING")
  BY <1>1 DEF despool_data
<1>3. QED BY <1>1, <1>2, AwakeBlock, SomeStates DEF Is, DevBlocks, block_device

LEMMA MountEndsBlock ==
  ASSUME Types, NEW j \in Jobs, NEW ok, MountEnds(j, ok)
  PROVE  IF entry[j] \in {"acquire", "NOT_BLOCKED"}
         THEN Is(dev', "NOT_BLOCKED", dev.prev, NoThread, dev.waiting)
         ELSE Is(dev', entry[j], dev.prev, j, dev.waiting)
<1>1. dev' = IF entry[j] \in {"acquire", "NOT_BLOCKED"} THEN unblock_device(dev)
             ELSE block_device(unblock_device(dev), j, entry[j])
  BY DEF MountEnds, acquire_ends, fixup_ends, FixupBlock
<1>2. entry[j] \in {"acquire"} \cup States
  BY DEF Types
<1>3. QED BY <1>1, <1>2, SomeStates DEF Types, Is, DevBlocks, block_device, unblock_device

LEMMA FixupDeviceBlock ==
  ASSUME Types, NEW j \in Jobs, fixup_device_block_write_error(j)
  PROVE  Is(dev', "DOING_ACQUIRE", dev.prev, j, Without(j))
<1>1. PICK a : a = Awake(j)
  OBVIOUS
<1>2. \/ dev' = block_device(a, j, "DOING_ACQUIRE")
      \/ dev' = block_device(unblock_device(a), j, "DOING_ACQUIRE")
  BY <1>1 DEF fixup_device_block_write_error, FixupEntry
<1>3. Is(a, dev.blocked, dev.prev, dev.owner, Without(j))
  BY <1>1, AwakeBlock
<1>4. CASE dev' = block_device(a, j, "DOING_ACQUIRE")
  BY <1>3, <1>4, SomeStates DEF Is, DevBlocks, block_device
<1>5. CASE dev' = block_device(unblock_device(a), j, "DOING_ACQUIRE")
  <2>1. PICK f : f = unblock_device(a)
    OBVIOUS
  <2>2. f \in DevBlocks /\ f.prev = a.prev /\ f.waiting = a.waiting
    BY <1>3, <2>1, SomeStates DEF Is, DevBlocks, unblock_device
  <2>3. QED BY <1>3, <1>5, <2>1, <2>2, SomeStates DEF Is, DevBlocks, block_device
<1>6. QED BY <1>2, <1>4, <1>5

LEMMA DespoolEndsBlock ==
  ASSUME Types, NEW j \in Jobs, despool_ends(j)
  PROVE  Is(dev', "NOT_BLOCKED", dev.prev, NoThread, dev.waiting)
BY SomeStates DEF Types, despool_ends, Is, DevBlocks, unblock_device

LEMMA ReleaseBlock ==
  ASSUME Types, NEW j \in Jobs, release_device(j)
  PROVE  IF dev.owner = j THEN Is(dev', "NOT_BLOCKED", dev.prev, NoThread, Without(j))
         ELSE Is(dev', dev.blocked, dev.prev, dev.owner, Without(j))
<1>1. PICK a : a = Awake(j)
  OBVIOUS
<1>2. PICK b : b = give_back_device_block(obtain_device_block(a, j, "RELEASING"), dev)
  OBVIOUS
<1>3. Is(b, dev.blocked, dev.prev, dev.owner, Without(j))
  BY <1>1, <1>2, AwakeBlock, SomeStates DEF Types, Is, DevBlocks, obtain_device_block,
                                            give_back_device_block
<1>4. dev' = IF b.owner = j THEN unblock_device(b) ELSE b
  BY <1>1, <1>2 DEF release_device
<1>5. QED BY <1>3, <1>4, SomeStates DEF Is, DevBlocks, unblock_device

\* wait_for_sysop: leave, with the block as it was before or as it is, or sleep.
Leaves(j, d, u) ==
  /\ pc'[j] \in {"mount", "mount_fails"}
  /\ IF u THEN Is(dev', d.blocked, d.prev, d.owner, d.waiting)
     ELSE Is(dev', d.prev, d.prev, d.owner, d.waiting)

LEMMA SysopExitBlocks ==
  ASSUME Types, NEW j \in Jobs, NEW d \in DevBlocks, NEW u \in BOOLEAN, NEW s,
         SysopExit(j, d, u, s)
  PROVE  Leaves(j, d, u) /\ unmounted' = [unmounted EXCEPT ![j] = FALSE]
<1>1. pc'[j] \in {"mount", "mount_fails"}
  BY DEF SysopExit, Types
<1>2. dev' = IF u THEN d ELSE set_blocked(d, d.prev)
  BY DEF SysopExit, SysopExitBlock
<1>3. QED BY <1>1, <1>2 DEF SysopExit, Leaves, Is, DevBlocks, set_blocked

LEMMA SysopLoopBlocks ==
  ASSUME Types, NEW j \in Jobs, NEW d \in DevBlocks, NEW u \in BOOLEAN, SysopLoop(j, d, u)
  PROVE  \/ /\ canceled[j] /\ Leaves(j, d, u)
            /\ unmounted' = [unmounted EXCEPT ![j] = FALSE]
         \/ /\ ~canceled[j] /\ dev' = d /\ pc'[j] = "sysop_tested"
            /\ unmounted' = [unmounted EXCEPT ![j] = u]
<1>1. CASE canceled[j]
  <2>1. SysopExit(j, d, u, "canceled")
    BY <1>1 DEF SysopLoop
  <2>2. QED BY <1>1, <2>1, SysopExitBlocks
<1>2. CASE ~canceled[j]
  BY <1>2 DEF SysopLoop, Types
<1>3. QED BY <1>1, <1>2

\* Who has the block has blocked the drive.
LEMMA OwnerBlocks ==
  ASSUME Types, Ownership
  PROVE  /\ \A j \in Jobs : dev.owner = j /\ pc[j] \in InSysop => SysopBlock(dev, j)
         /\ dev.owner # NoThread <=> is_blocked(dev) /\ dev.blocked # "UNMOUNTED"
<1>1. ASSUME NEW j \in Jobs, dev.owner = j, pc[j] \in InSysop PROVE SysopBlock(dev, j)
  <2>1. ASSUME NEW c \in Commands, pc[c] = "label" PROVE FALSE
    BY <1>1, <2>1, ThreadsAssumption DEF Ownership, Working
  <2>2. QED BY <1>1, <2>1 DEF Ownership
<1>2. ASSUME dev.owner # NoThread PROVE is_blocked(dev) /\ dev.blocked # "UNMOUNTED"
  <2>1. PICK t \in Threads : t = dev.owner
    BY <1>2 DEF Types, DevBlocks
  <2>2. CASE pc[t] \in InSysop
    <3>1. t \in Jobs
      BY <2>2, ThreadsAssumption DEF Types, CommandSteps, InSysop
    <3>2. QED BY <1>1, <2>1, <2>2, <3>1 DEF SysopBlock, is_blocked
  <2>3. CASE pc[t] \notin InSysop
    BY <2>1, <2>3 DEF Ownership, BlockAt, is_blocked
  <2>4. QED BY <2>2, <2>3
<1>3. QED BY <1>1, <1>2 DEF Ownership, Nobodys, is_blocked

\* A job blocks the drive to acquire it.
LEMMA AcquireKept ==
  ASSUME IInv, NEW j \in Jobs, acquire_device_for_append(j)
  PROVE  IInv'
<1> USE DEF IInv, JobSteps, CommandSteps, InRLock, InObtain, InSysop
<1>1. Is(dev', "DOING_ACQUIRE", dev.prev, j, Without(j))
  BY AcquireBlock
<1>2. /\ pc[j] \in {"reserved", "acquire_rLock"} /\ pc' = [pc EXCEPT ![j] = "mount"]
      /\ entry' = [entry EXCEPT ![j] = "acquire"] /\ signaled' = signaled \ {j}
      /\ aborted' = (aborted \/ ~~is_blocked(dev)) /\ acquire_mutex' = j
      /\ UNCHANGED <<m_mutex, volume, canceled, unmounted, stat, hold, asks, errors, despools>>
  BY DEF acquire_device_for_append, At, Asserts
<1>3. Types'
  BY <1>1, <1>2, ThreadsAssumption DEF Is, Types, volume
<1>4. Counts'
  <2>1. Moves(j)
    BY <1>2 DEF Moves, Types
  <2>2. (j \notin Sleepers') /\ (j \notin Writers) /\ (j \notin Writers')
    BY <1>2, ThreadsAssumption DEF Sleepers, Writers, Mounting, Types
  <2>3. Counted(j)
    BY <1>1, <1>2, <2>2 DEF Counted, Is, Without, In, Types, DevBlocks, volume
  <2>4. QED BY <2>1, <2>3, CountsStep
<1>5. ASSUME OperatorCareful PROVE Guarded'
  <2> USE <1>5 DEF Guarded
  <2>1. dev.owner # j
    BY <1>2 DEF Ownership, BlockAt
  <2>2. ~is_blocked(dev)
    BY <1>2, <2>1 DEF acquire_device_for_append, rLockPasses, BlockedFor
  <2>3. dev.owner = NoThread
    BY <2>2, OwnerBlocks
  <2>4. Ownership'
    BY <1>1, <1>2, <2>3, ThreadsAssumption
       DEF Is, Ownership, BlockAt, SysopBlock, Nobodys, Working, Types
  <2>5. Wakeable'
    BY <1>1 DEF Is, Wakeable, is_blocked
  <2>6. Entries'
    BY <1>2 DEF Entries, Types
  <2>7. ~aborted'
    BY <1>2, <2>2, Zenon
  <2>8. QED BY <2>4, <2>5, <2>6, <2>7
<1>6. QED BY <1>3, <1>4, <1>5

\* A thread that has not the block moves, and leaves the block as it is.
Passes(t, from, to) ==
  /\ dev' \in DevBlocks
  /\ dev'.blocked = dev.blocked /\ dev'.prev = dev.prev /\ dev'.owner = dev.owner
  /\ pc[t] \in from /\ pc' = [pc EXCEPT ![t] = to]
  /\ UNCHANGED <<jobLocals, hold, aborted>>

LEMMA PassesOwnership ==
  ASSUME Types, Ownership, NEW t \in Threads, dev.owner # t, NEW to,
         Passes(t, JobSteps \cup CommandSteps, to),
         pc[t] \notin InSysop, to \notin Working \cup InSysop
  PROVE  Ownership'
<1>1. /\ \A u \in Threads : u # t => pc'[u] = pc[u]
      /\ pc'[t] = to /\ pc[t] \notin Working
  BY DEF Passes, Types, Ownership
<1>2. UNCHANGED <<canceled, unmounted, hold>>
  BY DEF Passes, jobLocals
<1>3. dev'.blocked = dev.blocked /\ dev'.prev = dev.prev /\ dev'.owner = dev.owner
  BY DEF Passes
<1>4. dev'.owner = NoThread => Nobodys(dev)'
  BY <1>3 DEF Ownership, Nobodys
<1>5. ASSUME NEW u \in Threads, dev'.owner = u PROVE BlockAt(u)'
  BY <1>1, <1>3, <1>5 DEF Ownership, BlockAt
<1>6. ASSUME NEW u \in Threads, pc'[u] \in Working PROVE dev'.owner = u
  BY <1>1, <1>3, <1>6 DEF Ownership
<1>7. ASSUME NEW j \in Jobs, pc'[j] \in InSysop
      PROVE  \/ SysopBlock(dev, j)'
             \/ \E c \in Commands : pc'[c] = "label" /\ SysopBlock(hold[c], j)'
  <2>1. pc[j] \in InSysop
    BY <1>1, <1>7
  <2>2. CASE SysopBlock(dev, j)
    BY <1>2, <1>3, <2>2 DEF SysopBlock
  <2>3. ASSUME NEW c \in Commands, pc[c] = "label", SysopBlock(hold[c], j)
        PROVE  pc'[c] = "label" /\ SysopBlock(hold[c], j)'
    BY <1>1, <1>2, <2>3 DEF SysopBlock, Working
  <2>4. QED BY <2>1, <2>2, <2>3 DEF Ownership
<1>8. ASSUME NEW c \in Commands, pc'[c] = "read_label" PROVE Nobodys(hold[c])'
  BY <1>1, <1>2, <1>8 DEF Ownership, Nobodys, Working
<1>9. ASSUME NEW c \in Commands, pc'[c] = "label"
      PROVE  \/ Nobodys(hold[c])'
             \/ \E j \in Jobs : hold'[c].owner = j /\ pc'[j] \in InSysop /\ ~canceled'[j]
  <2>1. pc[c] = "label"
    BY <1>1, <1>9 DEF Working
  <2>2. QED BY <1>1, <1>2, <2>1 DEF Ownership, Nobodys
<1>10. QED BY <1>4, <1>5, <1>6, <1>7, <1>8, <1>9 DEF Ownership

\* What such a step keeps, whatever it does to the counters and the waits.
LEMMA PassesKept ==
  ASSUME IInv, NEW t \in Threads, NEW from \in SUBSET (JobSteps \cup CommandSteps), NEW to,
         Passes(t, from, to), Types', Counted(t),
         from \cap (Working \cup InSysop) = {}, to \notin Working \cup InSysop,
         OperatorCareful => dev.owner # t /\ Wakeable'
  PROVE  IInv'
<1>1. Counts'
  <2>1. Moves(t)
    <3>1. to \in JobSteps \cup CommandSteps
      BY DEF Types, Passes, IInv
    <3>2. QED BY <3>1 DEF Moves, Passes, jobLocals
  <2>2. QED BY <2>1, CountsStep DEF IInv
<1>2. ASSUME OperatorCareful PROVE Guarded'
  <2>1. Ownership'
    BY <1>2, PassesOwnership DEF IInv, Guarded, Passes
  <2>2. Entries' /\ ~aborted'
    BY <1>2 DEF IInv, Guarded, Entries, Passes, jobLocals
  <2>3. QED BY <1>2, <2>1, <2>2 DEF Guarded
<1>3. QED BY <1>1, <1>2 DEF IInv

(* One lemma per action from here on: the action keeps IInv. *)
LEMMA ReserveKept ==
  ASSUME IInv, NEW j \in Jobs, reserve_device_for_append(j) PROVE IInv'
<1> USE DEF IInv, JobSteps, CommandSteps, InRLock, InObtain, InSysop
<1>1. Same
  BY Quiet DEF reserve_device_for_append
<1>2. /\ Passes(j, {"start"}, "reserved")
      /\ UNCHANGED m_mutex
      /\ UNCHANGED <<acquire_mutex, volume, signaled>>
  BY <1>1
     DEF reserve_device_for_append, Passes, locks, volume, jobLocals, Is, Same
<1>3. Types'
  BY <1>2, ThreadsAssumption DEF Passes, Types, jobLocals, volume
<1>4. Counted(j)
  BY <1>1, <1>2, ThreadsAssumption DEF Passes, Counted, Is, Same, In, Sleepers, Writers,
         Mounting, Types, DevBlocks, jobLocals, volume
<1>5. ASSUME OperatorCareful PROVE dev.owner # j /\ Wakeable'
  <2>1. dev.owner # j
    BY <1>2, <1>5 DEF Guarded, Ownership, BlockAt, Passes
  <2>2. Wakeable'
    BY <1>1, <1>2, <1>5, <2>1
       DEF Guarded, Wakeable, Sleepers, is_blocked, Passes, Types, Is, Same
  <2>3. QED BY <2>1, <2>2
<1>6. QED
  <2>1. /\ {"start"} \in SUBSET (JobSteps \cup CommandSteps)
        /\ {"start"} \cap (Working \cup InSysop) = {}
        /\ "reserved" \notin Working \cup InSysop
    BY DEF Working
  <2>2. QED BY <1>2, <1>3, <1>4, <1>5, <2>1, PassesKept

LEMMA HaveVolKept ==
  ASSUME IInv, NEW j \in Jobs, acquire_have_vol(j) PROVE IInv'
<1> USE DEF IInv, JobSteps, CommandSteps, InRLock, InObtain, InSysop
<1>1. Same
  BY Quiet DEF acquire_have_vol
<1>2. /\ Passes(j, {"reserved"}, "writing")
      /\ UNCHANGED m_mutex
      /\ num_writers' = num_writers + 1 /\ UNCHANGED <<acquire_mutex, can_append, signaled>>
  BY <1>1 DEF acquire_have_vol, Passes, locks, volume, jobLocals, Is, Same
<1>3. Types'
  BY <1>2, ThreadsAssumption DEF Passes, Types, jobLocals, volume
<1>4. Counted(j)
  BY <1>1, <1>2, ThreadsAssumption DEF Passes, Counted, Is, Same, In, Sleepers, Writers,
         Mounting, Types, DevBlocks, jobLocals, volume
<1>5. ASSUME OperatorCareful PROVE dev.owner # j /\ Wakeable'
  <2>1. dev.owner # j
    BY <1>2, <1>5 DEF Guarded, Ownership, BlockAt, Passes
  <2>2. Wakeable'
    BY <1>1, <1>2, <1>5, <2>1
       DEF Guarded, Wakeable, Sleepers, is_blocked, Passes, Types, Is, Same
  <2>3. QED BY <2>1, <2>2
<1>6. QED
  <2>1. /\ {"reserved"} \in SUBSET (JobSteps \cup CommandSteps)
        /\ {"reserved"} \cap (Working \cup InSysop) = {}
        /\ "writing" \notin Working \cup InSysop
    BY DEF Working
  <2>2. QED BY <1>2, <1>3, <1>4, <1>5, <2>1, PassesKept

LEMMA AppendEndsKept ==
  ASSUME IInv, NEW j \in Jobs, do_append_data_ends(j) PROVE IInv'
<1> USE DEF IInv, JobSteps, CommandSteps, InRLock, InObtain, InSysop
<1>1. Same
  BY Quiet DEF do_append_data_ends
<1>2. /\ Passes(j, {"writing"}, "release")
      /\ UNCHANGED m_mutex
      /\ UNCHANGED <<acquire_mutex, volume, signaled>>
  BY <1>1 DEF do_append_data_ends, Passes, locks, volume, jobLocals, Is, Same
<1>3. Types'
  BY <1>2, ThreadsAssumption DEF Passes, Types, jobLocals, volume
<1>4. Counted(j)
  BY <1>1, <1>2, ThreadsAssumption DEF Passes, Counted, Is, Same, In, Sleepers, Writers,
         Mounting, Types, DevBlocks, jobLocals, volume
<1>5. ASSUME OperatorCareful PROVE dev.owner # j /\ Wakeable'
  <2>1. dev.owner # j
    BY <1>2, <1>5 DEF Guarded, Ownership, BlockAt, Passes
  <2>2. Wakeable'
    BY <1>1, <1>2, <1>5, <2>1
       DEF Guarded, Wakeable, Sleepers, is_blocked, Passes, Types, Is, Same
  <2>3. QED BY <2>1, <2>2
<1>6. QED
  <2>1. /\ {"writing"} \in SUBSET (JobSteps \cup CommandSteps)
        /\ {"writing"} \cap (Working \cup InSysop) = {}
        /\ "release" \notin Working \cup InSysop
    BY DEF Working
  <2>2. QED BY <1>2, <1>3, <1>4, <1>5, <2>1, PassesKept

LEMMA AcquireSleepsKept ==
  ASSUME IInv, NEW j \in Jobs, acquire_sleeps(j) PROVE IInv'
<1> USE DEF IInv, JobSteps, CommandSteps, InRLock, InObtain, InSysop
<1>1. Slept
  BY SleepBlock DEF acquire_sleeps
<1>2. /\ Passes(j, {"reserved"}, "acquire_rLock")
      /\ UNCHANGED m_mutex
      /\ acquire_mutex' = j /\ UNCHANGED <<volume, signaled>>
  BY <1>1 DEF acquire_sleeps, Passes, locks, volume, jobLocals, Is, Slept
<1>3. Types'
  BY <1>2, ThreadsAssumption DEF Passes, Types, jobLocals, volume
<1>4. Counted(j)
  BY <1>1, <1>2, ThreadsAssumption DEF Passes, Counted, Is, Slept, In, Sleepers, Writers,
         Mounting, Types, DevBlocks, jobLocals, volume
<1>5. ASSUME OperatorCareful PROVE dev.owner # j /\ Wakeable'
  <2>1. dev.owner # j
    BY <1>2, <1>5 DEF Guarded, Ownership, BlockAt, Passes
  <2>2. Wakeable'
    BY <1>1, <1>2, <1>5, <2>1 DEF Guarded, Wakeable, Sleepers, is_blocked, Passes, Types,
           Is, Slept, acquire_sleeps, rLockPasses, BlockedFor
  <2>3. QED BY <2>1, <2>2
<1>6. QED
  <2>1. /\ {"reserved"} \in SUBSET (JobSteps \cup CommandSteps)
        /\ {"reserved"} \cap (Working \cup InSysop) = {}
        /\ "acquire_rLock" \notin Working \cup InSysop
    BY DEF Working
  <2>2. QED BY <1>2, <1>3, <1>4, <1>5, <2>1, PassesKept

LEMMA WriteSleepsKept ==
  ASSUME IInv, NEW j \in Jobs, write_sleeps(j) PROVE IInv'
<1> USE DEF IInv, JobSteps, CommandSteps, InRLock, InObtain, InSysop
<1>1. Slept
  BY SleepBlock DEF write_sleeps, rLockSleeps, Sleep
<1>2. /\ Passes(j, {"writing"}, "write_rLock")
      /\ UNCHANGED m_mutex
      /\ UNCHANGED <<acquire_mutex, volume, signaled>>
  BY <1>1 DEF write_sleeps, Passes, locks, volume, jobLocals, rLockSleeps,
         Sleep, Is, Slept
<1>3. Types'
  BY <1>2, ThreadsAssumption DEF Passes, Types, jobLocals, volume
<1>4. Counted(j)
  BY <1>1, <1>2, ThreadsAssumption DEF Passes, Counted, Is, Slept, In, Sleepers, Writers,
         Mounting, Types, DevBlocks, jobLocals, volume
<1>5. ASSUME OperatorCareful PROVE dev.owner # j /\ Wakeable'
  <2>1. dev.owner # j
    BY <1>2, <1>5 DEF Guarded, Ownership, BlockAt, Passes
  <2>2. Wakeable'
    BY <1>1, <1>2, <1>5, <2>1 DEF Guarded, Wakeable, Sleepers, is_blocked, Passes, Types,
           Is, Slept, write_sleeps, rLockSleeps, rLockPasses, BlockedFor
  <2>3. QED BY <2>1, <2>2
<1>6. QED
  <2>1. /\ {"writing"} \in SUBSET (JobSteps \cup CommandSteps)
        /\ {"writing"} \cap (Working \cup InSysop) = {}
        /\ "write_rLock" \notin Working \cup InSysop
    BY DEF Working
  <2>2. QED BY <1>2, <1>3, <1>4, <1>5, <2>1, PassesKept

LEMMA DespoolSleepsKept ==
  ASSUME IInv, NEW j \in Jobs, despool_sleeps(j) PROVE IInv'
<1> USE DEF IInv, JobSteps, CommandSteps, InRLock, InObtain, InSysop
<1>1. Slept
  BY SleepBlock DEF despool_sleeps, rLockSleeps, Sleep
<1>2. /\ Passes(j, {"writing"}, "dblock_rLock")
      /\ UNCHANGED m_mutex
      /\ UNCHANGED <<acquire_mutex, volume, signaled>>
  BY <1>1 DEF despool_sleeps, Passes, locks, volume, jobLocals, rLockSleeps,
         Sleep, Is, Slept
<1>3. Types'
  BY <1>2, ThreadsAssumption DEF Passes, Types, jobLocals, volume
<1>4. Counted(j)
  BY <1>1, <1>2, ThreadsAssumption DEF Passes, Counted, Is, Slept, In, Sleepers, Writers,
         Mounting, Types, DevBlocks, jobLocals, volume
<1>5. ASSUME OperatorCareful PROVE dev.owner # j /\ Wakeable'
  <2>1. dev.owner # j
    BY <1>2, <1>5 DEF Guarded, Ownership, BlockAt, Passes
  <2>2. Wakeable'
    BY <1>1, <1>2, <1>5, <2>1 DEF Guarded, Wakeable, Sleepers, is_blocked, Passes, Types,
           Is, Slept, despool_sleeps, rLockSleeps, rLockPasses, BlockedFor
  <2>3. QED BY <2>1, <2>2
<1>6. QED
  <2>1. /\ {"writing"} \in SUBSET (JobSteps \cup CommandSteps)
        /\ {"writing"} \cap (Working \cup InSysop) = {}
        /\ "dblock_rLock" \notin Working \cup InSysop
    BY DEF Working
  <2>2. QED BY <1>2, <1>3, <1>4, <1>5, <2>1, PassesKept

LEMMA ReleaseSleepsKept ==
  ASSUME IInv, NEW j \in Jobs, release_sleeps(j) PROVE IInv'
<1> USE DEF IInv, JobSteps, CommandSteps, InRLock, InObtain, InSysop
<1>1. Slept
  BY SleepBlock DEF release_sleeps, ObtainSleeps, Sleep
<1>2. /\ Passes(j, {"release"}, "release_wait")
      /\ UNCHANGED m_mutex
      /\ UNCHANGED <<acquire_mutex, volume, signaled>>
  BY <1>1 DEF release_sleeps, Passes, locks, volume, jobLocals, ObtainSleeps,
         Sleep, Is, Slept
<1>3. Types'
  BY <1>2, ThreadsAssumption DEF Passes, Types, jobLocals, volume
<1>4. Counted(j)
  BY <1>1, <1>2, ThreadsAssumption DEF Passes, Counted, Is, Slept, In, Sleepers, Writers,
         Mounting, Types, DevBlocks, jobLocals, volume
<1>5. ASSUME OperatorCareful PROVE dev.owner # j /\ Wakeable'
  <2>1. dev.owner # j
    BY <1>2, <1>5
       DEF Guarded, Ownership, BlockAt, Passes, release_sleeps, ObtainSleeps, ObtainPasses
  <2>2. Wakeable'
    BY <1>1, <1>2, <1>5, <2>1 DEF Guarded, Wakeable, Sleepers, is_blocked, Passes, Types,
           Is, Slept, release_sleeps, ObtainSleeps, ObtainPasses, can_obtain_block
  <2>3. QED BY <2>1, <2>2
<1>6. QED
  <2>1. /\ {"release"} \in SUBSET (JobSteps \cup CommandSteps)
        /\ {"release"} \cap (Working \cup InSysop) = {}
        /\ "release_wait" \notin Working \cup InSysop
    BY DEF Working
  <2>2. QED BY <1>2, <1>3, <1>4, <1>5, <2>1, PassesKept

LEMMA LabelSleepsKept ==
  ASSUME IInv, NEW c \in Commands, label_sleeps(c) PROVE IInv'
<1> USE DEF IInv, JobSteps, CommandSteps, InRLock, InObtain, InSysop
<1>1. Slept
  BY SleepBlock DEF label_sleeps, ObtainSleeps, Sleep
<1>2. /\ Passes(c, {"start"}, "label_wait")
      /\ UNCHANGED m_mutex
      /\ UNCHANGED <<acquire_mutex, volume, signaled>>
  BY <1>1 DEF label_sleeps, Passes, locks, volume, jobLocals, ObtainSleeps,
         Sleep, Is, Slept
<1>3. Types'
  BY <1>2, ThreadsAssumption DEF Passes, Types, jobLocals, volume
<1>4. Counted(c)
  BY <1>1, <1>2, ThreadsAssumption DEF Passes, Counted, Is, Slept, In, Sleepers, Writers,
         Mounting, Types, DevBlocks, jobLocals, volume
<1>5. ASSUME OperatorCareful PROVE dev.owner # c /\ Wakeable'
  <2>1. dev.owner # c
    BY <1>2, <1>5 DEF Guarded, Ownership, BlockAt, Passes
  <2>2. Wakeable'
    BY <1>1, <1>2, <1>5, <2>1 DEF Guarded, Wakeable, Sleepers, is_blocked, Passes, Types,
           Is, Slept, label_sleeps, ObtainSleeps, ObtainPasses, can_obtain_block
  <2>3. QED BY <2>1, <2>2
<1>6. QED
  <2>1. /\ {"start"} \in SUBSET (JobSteps \cup CommandSteps)
        /\ {"start"} \cap (Working \cup InSysop) = {}
        /\ "label_wait" \notin Working \cup InSysop
    BY DEF Working
  <2>2. QED BY <1>2, <1>3, <1>4, <1>5, <2>1, PassesKept

LEMMA WriteBlockKept ==
  ASSUME IInv, NEW j \in Jobs, write_block_to_device(j) PROVE IInv'
<1> USE DEF IInv, JobSteps, CommandSteps, InRLock, InObtain, InSysop
<1>1. Is(dev', dev.blocked, dev.prev, dev.owner, Without(j))
  BY AwakeBlock DEF write_block_to_device
<1>2. /\ Passes(j, {"write_rLock"}, "writing")
      /\ UNCHANGED m_mutex
      /\ signaled' = signaled \ {j} /\ UNCHANGED <<acquire_mutex, volume>>
  BY <1>1
     DEF write_block_to_device, Passes, locks, volume, jobLocals, Is, Without
<1>3. Types'
  BY <1>2, ThreadsAssumption DEF Passes, Types, jobLocals, volume
<1>4. Counted(j)
  BY <1>1, <1>2, ThreadsAssumption DEF Passes, Counted, Is, Without, In, Sleepers, Writers,
         Mounting, Types, DevBlocks, jobLocals, volume
<1>5. ASSUME OperatorCareful PROVE dev.owner # j /\ Wakeable'
  <2>1. dev.owner # j
    BY <1>2, <1>5 DEF Guarded, Ownership, BlockAt, Passes
  <2>2. Wakeable'
    BY <1>1, <1>2, <1>5, <2>1
       DEF Guarded, Wakeable, Sleepers, is_blocked, Passes, Types, Is, Without
  <2>3. QED BY <2>1, <2>2
<1>6. QED
  <2>1. /\ {"write_rLock"} \in SUBSET (JobSteps \cup CommandSteps)
        /\ {"write_rLock"} \cap (Working \cup InSysop) = {}
        /\ "writing" \notin Working \cup InSysop
    BY DEF Working
  <2>2. QED BY <1>2, <1>3, <1>4, <1>5, <2>1, PassesKept

LEMMA LabelRefusedKept ==
  ASSUME IInv, NEW c \in Commands, label_refused(c) PROVE IInv'
<1> USE DEF IInv, JobSteps, CommandSteps, InRLock, InObtain, InSysop
<1>1. Is(dev', dev.blocked, dev.prev, dev.owner, Without(c))
  BY AwakeBlock DEF label_refused
<1>2. /\ Passes(c, {"label_wait"}, "done")
      /\ UNCHANGED m_mutex
      /\ signaled' = signaled \ {c} /\ UNCHANGED <<acquire_mutex, volume>>
  BY <1>1 DEF label_refused, Passes, locks, volume, CommandEnds, jobLocals, Is, Without
<1>3. Types'
  BY <1>2, ThreadsAssumption DEF Passes, Types, jobLocals, volume
<1>4. Counted(c)
  BY <1>1, <1>2, ThreadsAssumption DEF Passes, Counted, Is, Without, In, Sleepers, Writers,
         Mounting, Types, DevBlocks, jobLocals, volume
<1>5. ASSUME OperatorCareful PROVE dev.owner # c /\ Wakeable'
  <2>1. dev.owner # c
    BY <1>2, <1>5 DEF Guarded, Ownership, BlockAt, Passes
  <2>2. Wakeable'
    BY <1>1, <1>2, <1>5, <2>1
       DEF Guarded, Wakeable, Sleepers, is_blocked, Passes, Types, Is, Without
  <2>3. QED BY <2>1, <2>2
<1>6. QED
  <2>1. /\ {"label_wait"} \in SUBSET (JobSteps \cup CommandSteps)
        /\ {"label_wait"} \cap (Working \cup InSysop) = {}
        /\ "done" \notin Working \cup InSysop
    BY DEF Working
  <2>2. QED BY <1>2, <1>3, <1>4, <1>5, <2>1, PassesKept

\* Who may be at work, or in the wait for the operator.
LEMMA Alone ==
  ASSUME Types, Ownership, NEW t \in Threads, dev.owner \in {t, NoThread}, pc[t] # "label",
         NEW u \in Threads, u # t
  PROVE  pc[u] \notin Working \cup InSysop
<1>1. pc[u] \notin Working
  BY ThreadsAssumption DEF Ownership
<1>2. ASSUME pc[u] \in InSysop PROVE FALSE
  <2>1. u \in Jobs
    BY <1>2, ThreadsAssumption DEF Types, CommandSteps, InSysop
  <2>2. ASSUME NEW c \in Commands, pc[c] = "label" PROVE FALSE
    BY <2>2, ThreadsAssumption DEF Ownership, Working
  <2>3. SysopBlock(dev, u)
    BY <1>2, <2>1, <2>2 DEF Ownership
  <2>4. QED BY <2>3, <2>1, ThreadsAssumption DEF SysopBlock
<1>3. QED BY <1>1, <1>2

\* The thread that has the block, or finds it free, takes a step.
LEMMA AloneOwnership ==
  ASSUME Types, Types', Ownership, NEW t \in Threads, dev.owner \in {t, NoThread},
         pc[t] # "label", NEW to, pc' = [pc EXCEPT ![t] = to],
         \/ dev'.owner = t /\ BlockAt(t)'
         \/ Nobodys(dev)' /\ to \notin Working \cup InSysop,
         t \in Jobs /\ to \in InSysop => SysopBlock(dev, t)',
         t \in Commands /\ to \in {"read_label", "label"} => Nobodys(hold[t])'
  PROVE  Ownership'
<1>1. /\ \A u \in Threads : u # t => pc'[u] = pc[u] /\ pc'[u] \notin Working \cup InSysop
      /\ pc'[t] = to
  BY Alone DEF Types
<1>2. dev'.owner = NoThread => Nobodys(dev)'
  BY ThreadsAssumption DEF Nobodys
<1>3. ASSUME NEW u \in Threads, dev'.owner = u PROVE BlockAt(u)'
  <2>1. u = t
    BY <1>3, ThreadsAssumption DEF Nobodys
  <2>2. QED BY <1>3, <2>1, ThreadsAssumption DEF Nobodys
<1>4. ASSUME NEW u \in Threads, pc'[u] \in Working PROVE dev'.owner = u
  BY <1>1, <1>4
<1>5. ASSUME NEW j \in Jobs, pc'[j] \in InSysop PROVE SysopBlock(dev, j)'
  BY <1>1, <1>5
<1>6. ASSUME NEW c \in Commands, pc'[c] \in {"read_label", "label"} PROVE Nobodys(hold[c])'
  <2>1. c = t
    BY <1>1, <1>6 DEF Working
  <2>2. QED BY <1>1, <1>6, <2>1
<1>7. QED BY <1>2, <1>3, <1>4, <1>5, <1>6 DEF Ownership

\* num_waiting is never zero while a thread sleeps: a broadcast reaches all.
LEMMA WakesAll ==
  ASSUME Types, Counts
  PROVE  /\ Sleepers \subseteq WakeWaiters(dev)
         /\ \A t \in Threads : \A d :
              d.waiting = Without(t) => Sleepers \ {t} \subseteq WakeWaiters(d)
<1>1. IsFiniteSet(Sleepers)
  <2>1. IsFiniteSet(Threads)
    BY ThreadsAssumption, FS_Union
  <2>2. QED BY <2>1, FS_Subset DEF Sleepers
<1>2. Sleepers = {t \in Threads : pc[t] \in InRLock \cup InObtain}
  BY DEF Sleepers
<1>3. ASSUME NEW u \in Sleepers PROVE dev.waiting > 0
  <2>1. Cardinality(Sleepers) > 0
    BY <1>1, CountStep
  <2>2. QED BY <2>1 DEF Counts
<1>4. Sleepers \subseteq WakeWaiters(dev)
  BY <1>2, <1>3 DEF WakeWaiters
<1>5. ASSUME NEW t \in Threads, NEW d, d.waiting = Without(t), NEW u \in Sleepers, u # t
      PROVE  u \in WakeWaiters(d)
  <2>1. /\ IsFiniteSet(Sleepers \ {t}) /\ Cardinality(Sleepers \ {t}) > 0
        /\ t \in Sleepers => Cardinality(Sleepers \ {t}) = Cardinality(Sleepers) - 1
        /\ t \notin Sleepers => Sleepers \ {t} = Sleepers
        /\ Cardinality(Sleepers) \in Nat
    <3>1. IsFiniteSet(Sleepers \ {t}) /\ u \in Sleepers \ {t}
      BY <1>1, <1>5, CountStep
    <3>2. QED BY <1>1, <1>5, <3>1, CountStep
  <2>2. d.waiting > 0
    BY <1>5, <2>1 DEF Without, In, Counts
  <2>3. QED BY <1>2, <1>5, <2>2 DEF WakeWaiters
<1>6. QED BY <1>4, <1>5

\* A woken thread sleeps on only if the drive is blocked.
LEMMA SleepsOnKept ==
  ASSUME IInv, NEW j \in Jobs, SleepsOn(j) PROVE IInv'
<1> USE DEF IInv
<1>1. /\ UNCHANGED <<dev, m_mutex, acquire_mutex, num_writers, can_append, pc, canceled,
                     unmounted, stat, entry, hold, asks, errors, despools, aborted>>
      /\ signaled' = signaled \ {j}
  BY DEF SleepsOn, locks, volume, jobLocals
<1>2. Types' /\ Counts'
  BY <1>1 DEF Types, Counts, Sleepers, Writers
<1>3. ASSUME OperatorCareful PROVE Guarded'
  <2>1. Ownership' /\ Entries' /\ ~aborted'
    BY <1>1, <1>3 DEF Guarded, Ownership, BlockAt, SysopBlock, Nobodys, Entries
  <2>2. is_blocked(dev)
    BY DEF SleepsOn, rLockPasses, ObtainPasses, can_obtain_block, is_blocked, InRLock
  <2>3. Wakeable'
    BY <1>1, <2>2 DEF Wakeable, is_blocked
  <2>4. QED BY <2>1, <2>3 DEF Guarded
<1>4. QED BY <1>2, <1>3

\* mount_next_write_volume has returned.
LEMMA MountEndsKept ==
  ASSUME IInv, NEW j \in Jobs, NEW ok \in BOOLEAN, pc[j] \in {"mount", "mount_fails"},
         MountEnds(j, ok)
  PROVE  IInv'
<1> USE DEF IInv, JobSteps, CommandSteps, InRLock, InObtain, InSysop
<1>1. IF entry[j] \in {"acquire", "NOT_BLOCKED"}
      THEN Is(dev', "NOT_BLOCKED", dev.prev, NoThread, dev.waiting)
      ELSE Is(dev', entry[j], dev.prev, j, dev.waiting)
  BY MountEndsBlock
<1>2. PICK to \in {"writing", "done", "despool", "release"} :
        /\ pc' = [pc EXCEPT ![j] = to]
        /\ entry[j] = "acquire" => to \in {"writing", "done"}
        /\ entry[j] # "acquire" => to # "done"
        /\ entry[j] = "NOT_BLOCKED" => to \in {"writing", "release"}
        /\ entry[j] = "DESPOOLING" => to = "despool"
        /\ num_writers' = IF entry[j] = "acquire" /\ to = "writing"
                          THEN num_writers + 1 ELSE num_writers
  <2>1. CASE entry[j] = "acquire"
    <3>1. acquire_ends(j, ok)
      BY <2>1 DEF MountEnds, fixup_ends
    <3>2. CASE ok
      BY <2>1, <3>1, <3>2 DEF acquire_ends
    <3>3. CASE ~ok
      BY <2>1, <3>1, <3>3 DEF acquire_ends
    <3>4. QED BY <3>2, <3>3, Zenon
  <2>2. CASE entry[j] # "acquire"
    <3>1. fixup_ends(j, ok)
      BY <2>2 DEF MountEnds, acquire_ends
    <3>2. CASE entry[j] = "DESPOOLING"
      BY <3>1, <3>2 DEF fixup_ends
    <3>3. CASE entry[j] # "DESPOOLING" /\ ok
      BY <2>2, <3>1, <3>3 DEF fixup_ends
    <3>4. CASE entry[j] # "DESPOOLING" /\ ~ok
      BY <2>2, <3>1, <3>4 DEF fixup_ends
    <3>5. QED BY <3>2, <3>3, <3>4, Zenon
  <2>3. QED BY <2>1, <2>2
<1>3. /\ acquire_mutex' \in {acquire_mutex, NoThread}
      /\ aborted' = (aborted \/ ~is_blocked(dev)) /\ can_append' = (ok \/ can_append)
      /\ signaled' = WakeWaiters(dev) /\ asks' = [asks EXCEPT ![j] = 0]
      /\ UNCHANGED <<m_mutex, canceled, unmounted, stat, entry, errors, despools, hold>>
  BY DEF MountEnds, acquire_ends, fixup_ends, Asserts
<1>4. Types'
  <2>1. dev' \in DevBlocks
    BY <1>1 DEF Is
  <2>2. aborted' \in BOOLEAN /\ can_append' \in BOOLEAN
    BY <1>3 DEF Types
  <2>3. signaled' \subseteq Threads
    BY <1>3 DEF Types, WakeWaiters
  <2>4. QED BY <1>2, <1>3, <2>1, <2>2, <2>3, BoundsAssumption, ThreadsAssumption DEF Types
<1>5. Counts'
  <2>1. Moves(j)
    BY <1>2, <1>3 DEF Moves
  <2>2. j \notin Sleepers /\ j \notin Sleepers'
    BY <1>2, ThreadsAssumption DEF Sleepers, Types
  <2>3. Counted(j)
    BY <1>1, <1>2, <1>3, <2>2 DEF Counted, Is, In, Writers, Mounting, Types, DevBlocks
  <2>4. QED BY <2>1, <2>3, CountsStep
<1>6. ASSUME OperatorCareful PROVE Guarded'
  <2> USE <1>6 DEF Guarded
  <2>1. dev.owner = j /\ is_blocked(dev)
    BY OwnerBlocks, ThreadsAssumption DEF Ownership, Working
  <2>2. entry[j] \in {"acquire", "NOT_BLOCKED", "DESPOOLING"}
    BY DEF Entries
  <2>3. \/ dev'.owner = j /\ BlockAt(j)'
        \/ Nobodys(dev)' /\ to \notin Working \cup InSysop
    BY <1>1, <1>2, <2>2 DEF Is, BlockAt, Nobodys, Working, Types
  <2>4. Ownership'
    <3>1. pc[j] # "label" /\ j \notin Commands /\ to \notin InSysop
      BY ThreadsAssumption
    <3>2. QED BY <1>2, <1>4, <2>1, <2>3, <3>1, AloneOwnership
  <2>5. Wakeable'
    BY <1>2, <1>3, WakesAll DEF Wakeable, Sleepers, Types
  <2>6. Entries'
    BY <1>3 DEF Entries
  <2>7. ~aborted'
    BY <1>3, <2>1, Zenon
  <2>8. QED BY <2>4, <2>5, <2>6, <2>7
<1>7. QED BY <1>4, <1>5, <1>6

\* A write has failed: the job blocks the drive anew for the next Volume.
LEMMA FixupKept ==
  ASSUME IInv, NEW j \in Jobs, fixup_device_block_write_error(j) PROVE IInv'
<1> USE DEF IInv, JobSteps, CommandSteps, InRLock, InObtain, InSysop
<1>1. Is(dev', "DOING_ACQUIRE", dev.prev, j, Without(j))
  BY FixupDeviceBlock
<1>2. /\ pc[j] \in {"despool", "writing", "write_rLock"} /\ pc' = [pc EXCEPT ![j] = "mount"]
      /\ entry' = [entry EXCEPT ![j] = dev.blocked]
      /\ errors[j] < MaxErrors /\ errors' = [errors EXCEPT ![j] = @ + 1]
      /\ can_append' = FALSE /\ rLockPasses(j)
      /\ UNCHANGED <<m_mutex, acquire_mutex, num_writers, canceled, unmounted, stat, asks,
                     despools, hold>>
  BY DEF fixup_device_block_write_error, locks
<1>3. /\ aborted' = (aborted \/ ~~is_blocked(FixupEntry(Awake(j))))
      /\ signaled' \in {WakeWaiters(Awake(j)) \ {j}, signaled \ {j}}
  BY DEF fixup_device_block_write_error, Asserts
<1>4. Types'
  <2>1. dev' \in DevBlocks /\ dev.blocked \in States
    BY <1>1 DEF Is, Types, DevBlocks
  <2>2. aborted' \in BOOLEAN /\ signaled' \subseteq Threads
    BY <1>3 DEF Types, WakeWaiters
  <2>3. errors' \in [Jobs -> 0..MaxErrors]
    BY <1>2, BoundsAssumption DEF Types
  <2>4. QED BY <1>2, <2>1, <2>2, <2>3, ThreadsAssumption DEF Types
<1>5. Counts'
  <2>1. Moves(j)
    BY <1>2 DEF Moves, Types
  <2>2. j \notin Sleepers' /\ j \in Writers
    BY <1>2, ThreadsAssumption DEF Sleepers, Writers, Types
  <2>3. j \in Writers'
    <3>1. entry'[j] = dev.blocked /\ dev.blocked \in States /\ pc'[j] = "mount"
      BY <1>2 DEF Types, DevBlocks
    <3>2. QED BY <3>1 DEF Writers, Mounting, States
  <2>4. Counted(j)
    BY <1>1, <1>2, <2>2, <2>3 DEF Counted, Is, Without, In, Types, DevBlocks
  <2>5. QED BY <2>1, <2>4, CountsStep
<1>6. ASSUME OperatorCareful PROVE Guarded'
  <2> USE <1>6 DEF Guarded
  <2>1. dev.owner \in {j, NoThread} /\ dev.blocked \in {"NOT_BLOCKED", "DESPOOLING"}
    <3>1. CASE pc[j] = "despool"
      <4>1. dev.owner = j /\ BlockAt(j)
        BY <3>1 DEF Ownership, Working
      <4>2. QED BY <3>1, <4>1 DEF BlockAt
    <3>2. CASE pc[j] \in {"writing", "write_rLock"}
      <4>1. dev.owner # j
        BY <3>2 DEF Ownership, BlockAt
      <4>2. ~is_blocked(dev)
        BY <1>2, <4>1 DEF rLockPasses, BlockedFor
      <4>3. QED BY <4>2, OwnerBlocks DEF is_blocked
    <3>3. QED BY <1>2, <3>1, <3>2
  <2>2. Ownership'
    <3>1. dev'.owner = j /\ BlockAt(j)'
      BY <1>1, <1>2 DEF Is, BlockAt, Types
    <3>2. pc[j] # "label" /\ j \notin Commands /\ "mount" \notin InSysop
      BY <1>2, ThreadsAssumption
    <3>3. QED BY <1>2, <1>4, <2>1, <3>1, <3>2, AloneOwnership
  <2>3. Wakeable'
    BY <1>1 DEF Is, Wakeable, is_blocked
  <2>4. Entries'
    BY <1>2, <2>1 DEF Entries, Types
  <2>5. ~is_blocked(FixupEntry(Awake(j)))
    <3>1. PICK a : a = Awake(j) /\ a \in DevBlocks
      BY AwakeBlock DEF Is
    <3>2. ~is_blocked(FixupEntry(a))
      BY <3>1 DEF FixupEntry, is_blocked, unblock_device, DevBlocks
    <3>3. QED BY <3>1, <3>2
  <2>6. ~aborted'
    BY <1>3, <2>5, Zenon
  <2>7. QED BY <2>2, <2>3, <2>4, <2>6
<1>7. QED BY <1>4, <1>5, <1>6

\* A job blocks the drive to despool.
LEMMA DespoolKept ==
  ASSUME IInv, NEW j \in Jobs, despool_data(j) PROVE IInv'
<1> USE DEF IInv, JobSteps, CommandSteps, InRLock, InObtain, InSysop
<1>1. Is(dev', "DESPOOLING", dev.prev, j, Without(j))
  BY DespoolBlock
<1>2. /\ pc[j] \in {"writing", "dblock_rLock"} /\ pc' = [pc EXCEPT ![j] = "despool"]
      /\ despools[j] < MaxDespools /\ despools' = [despools EXCEPT ![j] = @ + 1]
      /\ signaled' = signaled \ {j} /\ rLockPasses(j)
      /\ aborted' = (aborted \/ ~~is_blocked(dev))
      /\ UNCHANGED <<m_mutex, acquire_mutex, num_writers, can_append, canceled, unmounted,
                     stat, entry, asks, errors, hold>>
  BY DEF despool_data, At, Asserts, MayDespool, locks, volume
<1>3. Types'
  <2>1. despools' \in [Jobs -> 0..MaxDespools]
    BY <1>2, BoundsAssumption DEF Types
  <2>2. QED BY <1>1, <1>2, <2>1, ThreadsAssumption DEF Is, Types
<1>4. Counts'
  <2>1. Moves(j)
    BY <1>2 DEF Moves, Types
  <2>2. (j \notin Sleepers') /\ (j \in Writers) /\ (j \in Writers')
    BY <1>2, ThreadsAssumption DEF Sleepers, Writers, Types
  <2>3. Counted(j)
    BY <1>1, <1>2, <2>2 DEF Counted, Is, Without, In, Types, DevBlocks
  <2>4. QED BY <2>1, <2>3, CountsStep
<1>5. ASSUME OperatorCareful PROVE Guarded'
  <2> USE <1>5 DEF Guarded
  <2>1. dev.owner # j
    BY <1>2 DEF Ownership, BlockAt
  <2>2. ~is_blocked(dev)
    BY <1>2, <2>1 DEF rLockPasses, BlockedFor
  <2>3. dev.owner = NoThread
    BY <2>2, OwnerBlocks
  <2>4. Ownership'
    <3>1. dev'.owner = j /\ BlockAt(j)'
      BY <1>1, <1>2 DEF Is, BlockAt, Types
    <3>2. pc[j] # "label" /\ j \notin Commands /\ "despool" \notin InSysop
      BY <1>2, ThreadsAssumption
    <3>3. QED BY <1>2, <1>3, <2>3, <3>1, <3>2, AloneOwnership
  <2>5. Wakeable'
    BY <1>1 DEF Is, Wakeable, is_blocked
  <2>6. Entries'
    BY <1>2 DEF Entries
  <2>7. ~aborted'
    BY <1>2, <2>2, Zenon
  <2>8. QED BY <2>4, <2>5, <2>6, <2>7
<1>6. QED BY <1>3, <1>4, <1>5

\* A despooling job commits, or unblocks the drive.
LEMMA DespoolCommittedKept ==
  ASSUME IInv, NEW j \in Jobs, despool_committed(j) PROVE IInv'
<1> USE DEF IInv, JobSteps, CommandSteps, InRLock, InObtain, InSysop
<1>1. /\ pc[j] = "despool" /\ pc' = [pc EXCEPT ![j] = "release"]
      /\ UNCHANGED <<dev, m_mutex, acquire_mutex, num_writers, can_append, canceled, unmounted,
                     stat, entry, asks, errors, despools, hold, signaled, aborted>>
  BY DEF despool_committed, locks, volume, jobLocals
<1>2. Types'
  BY <1>1, ThreadsAssumption DEF Types
<1>3. Counts'
  <2>1. Moves(j)
    BY <1>1 DEF Moves, Types
  <2>2. (j \notin Sleepers) /\ (j \notin Sleepers') /\ (j \in Writers) /\ (j \in Writers')
    BY <1>1, ThreadsAssumption DEF Sleepers, Writers, Types
  <2>3. Counted(j)
    BY <1>1, <2>2 DEF Counted, In, Types, DevBlocks
  <2>4. QED BY <2>1, <2>3, CountsStep
<1>4. ASSUME OperatorCareful PROVE Guarded'
  <2> USE <1>4 DEF Guarded
  <2>1. dev.owner = j /\ dev.blocked = "DESPOOLING"
    BY <1>1 DEF Ownership, BlockAt, Working
  <2>2. Ownership'
    <3>1. dev'.owner = j /\ BlockAt(j)'
      BY <1>1, <2>1 DEF BlockAt, Types
    <3>2. pc[j] # "label" /\ j \notin Commands /\ "release" \notin InSysop
      BY <1>1, ThreadsAssumption
    <3>3. QED BY <1>1, <1>2, <2>1, <3>1, <3>2, AloneOwnership
  <2>3. Wakeable' /\ Entries' /\ ~aborted'
    BY <1>1, <2>1 DEF Wakeable, is_blocked, Entries
  <2>4. QED BY <2>2, <2>3
<1>5. QED BY <1>2, <1>3, <1>4

LEMMA DespoolEndsKept ==
  ASSUME IInv, NEW j \in Jobs, despool_ends(j) PROVE IInv'
<1> USE DEF IInv, JobSteps, CommandSteps, InRLock, InObtain, InSysop
<1>1. Is(dev', "NOT_BLOCKED", dev.prev, NoThread, dev.waiting)
  BY DespoolEndsBlock
<1>2. PICK to \in {"writing", "release"} : pc' = [pc EXCEPT ![j] = to]
  BY DEF despool_ends
<1>3. /\ pc[j] = "despool" /\ signaled' = WakeWaiters(dev)
      /\ aborted' = (aborted \/ ~is_blocked(dev))
      /\ UNCHANGED <<m_mutex, acquire_mutex, num_writers, can_append, canceled, unmounted,
                     stat, entry, asks, errors, despools, hold>>
  BY DEF despool_ends, locks, volume, jobLocals, Asserts
<1>4. Types'
  <2>1. signaled' \subseteq Threads /\ aborted' \in BOOLEAN
    BY <1>3 DEF Types, WakeWaiters
  <2>2. QED BY <1>1, <1>2, <1>3, <2>1, ThreadsAssumption DEF Is, Types
<1>5. Counts'
  <2>1. Moves(j)
    BY <1>2, <1>3 DEF Moves, Types
  <2>2. (j \notin Sleepers) /\ (j \notin Sleepers') /\ (j \in Writers) /\ (j \in Writers')
    BY <1>2, <1>3, ThreadsAssumption DEF Sleepers, Writers, Types
  <2>3. Counted(j)
    BY <1>1, <1>3, <2>2 DEF Counted, Is, In, Types, DevBlocks
  <2>4. QED BY <2>1, <2>3, CountsStep
<1>6. ASSUME OperatorCareful PROVE Guarded'
  <2> USE <1>6 DEF Guarded
  <2>1. dev.owner = j /\ is_blocked(dev)
    BY <1>3, OwnerBlocks, ThreadsAssumption DEF Ownership, Working
  <2>2. Ownership'
    <3>1. Nobodys(dev)' /\ to \notin Working \cup InSysop
      BY <1>1, <1>2 DEF Is, Nobodys, Working
    <3>2. pc[j] # "label" /\ j \notin Commands
      BY <1>3, ThreadsAssumption
    <3>3. QED BY <1>2, <1>4, <2>1, <3>1, <3>2, AloneOwnership
  <2>3. Wakeable'
    BY <1>2, <1>3, WakesAll DEF Wakeable, Sleepers, Types
  <2>4. Entries'
    BY <1>3 DEF Entries
  <2>5. ~aborted'
    BY <1>3, <2>1, Zenon
  <2>6. QED BY <2>2, <2>3, <2>4, <2>5
<1>7. QED BY <1>4, <1>5, <1>6

\* release_device lifts the job's own block and leaves another's alone.
LEMMA ReleaseKept ==
  ASSUME IInv, NEW j \in Jobs, release_device(j) PROVE IInv'
<1> USE DEF IInv, JobSteps, CommandSteps, InRLock, InObtain, InSysop
<1>1. IF dev.owner = j THEN Is(dev', "NOT_BLOCKED", dev.prev, NoThread, Without(j))
      ELSE Is(dev', dev.blocked, dev.prev, dev.owner, Without(j))
  BY ReleaseBlock
<1>2. /\ pc[j] \in {"release", "release_wait"} /\ pc' = [pc EXCEPT ![j] = "done"]
      /\ num_writers' = num_writers - 1 /\ can_append' \in {can_append, FALSE}
      /\ signaled' = (WakeSysopWaiters \cup WakeWaiters(Awake(j))) \ {j}
      /\ aborted' = (aborted \/ ~(dev.owner = j => is_blocked(dev)))
      /\ UNCHANGED <<m_mutex, acquire_mutex, canceled, unmounted, stat, entry, asks, errors,
                     despools, hold>>
  BY DEF release_device, At, Asserts, locks, jobLocals
<1>3. Types'
  <2>1. signaled' \subseteq Threads /\ aborted' \in BOOLEAN
    BY <1>2 DEF Types, WakeWaiters, WakeSysopWaiters
  <2>2. dev' \in DevBlocks
    BY <1>1 DEF Is
  <2>3. can_append \in BOOLEAN
    BY DEF Types
  <2>4. can_append' \in BOOLEAN
    BY <1>2, <2>3, Zenon
  <2>5. QED BY <1>2, <2>1, <2>2, <2>4, ThreadsAssumption DEF Types
<1>4. Counted(j)
  <2>1. (j \notin Sleepers') /\ (j \in Writers) /\ (j \notin Writers')
    BY <1>2, ThreadsAssumption DEF Sleepers, Writers, Mounting, Types
  <2>2. QED BY <1>1, <1>2, <2>1 DEF Counted, Is, Without, In, Types, DevBlocks
<1>5. Counts'
  <2>1. Moves(j)
    BY <1>2 DEF Moves, Types
  <2>2. QED BY <1>4, <2>1, CountsStep
<1>6. ASSUME OperatorCareful PROVE Guarded'
  <2> USE <1>6 DEF Guarded
  <2>1. Wakeable'
    <3>1. PICK a : a = Awake(j) /\ a.waiting = Without(j)
      BY AwakeBlock DEF Is
    <3>2. Sleepers \ {j} \subseteq WakeWaiters(a)
      BY <3>1, WakesAll
    <3>3. Sleepers' \subseteq Sleepers \ {j}
      BY <1>2, ThreadsAssumption DEF Sleepers, Types
    <3>4. QED BY <1>2, <3>1, <3>2, <3>3 DEF Wakeable
  <2>2. Entries'
    BY <1>2 DEF Entries
  <2>3. "done" \notin Working \cup InSysop /\ pc[j] # "label" /\ j \notin Commands
    BY <1>2, ThreadsAssumption DEF Working
  <2>4. CASE dev.owner = j
    <3>1. is_blocked(dev)
      BY <2>4, OwnerBlocks, ThreadsAssumption
    <3>2. ~aborted'
      BY <1>2, <3>1, Zenon
    <3>3. Nobodys(dev)'
      BY <1>1, <2>4 DEF Is, Nobodys
    <3>4. Ownership'
      BY <1>2, <1>3, <2>3, <2>4, <3>3, AloneOwnership
    <3>5. QED BY <2>1, <2>2, <3>2, <3>4
  <2>5. CASE dev.owner # j
    <3>1. ~aborted'
      BY <1>2, <2>5, Zenon
    <3>2. pc[j] \notin InSysop /\ pc[j] \in JobSteps \cup CommandSteps
      BY <1>2
    <3>3. Passes(j, JobSteps \cup CommandSteps, "done")
      BY <1>1, <1>2, <2>5, <3>1, <3>2 DEF Passes, Is, Types, jobLocals
    <3>4. Ownership'
      BY <2>3, <2>5, <3>2, <3>3, PassesOwnership
    <3>5. QED BY <2>1, <2>2, <3>1, <3>4
  <2>6. QED BY <2>4, <2>5
<1>7. QED BY <1>3, <1>5, <1>6

-----------------------------------------------------------------------------
(* The wait for the operator. *)

\* The job that waits has the block, unless a label command has taken it.
LEMMA SysopOwner ==
  ASSUME Types, Ownership, NEW j \in Jobs, pc[j] \in InSysop
  PROVE  \/ dev.owner = j /\ SysopBlock(dev, j)
         \/ /\ dev.owner # j /\ dev.blocked = "WRITING_LABEL" /\ ~canceled[j]
            /\ \E c \in Commands : dev.owner = c /\ pc[c] = "label"
<1>1. CASE SysopBlock(dev, j)
  BY <1>1 DEF SysopBlock
<1>2. ASSUME NEW c \in Commands, pc[c] = "label", SysopBlock(hold[c], j)
      PROVE  dev.owner = c /\ c # j /\ dev.blocked = "WRITING_LABEL" /\ ~canceled[j]
  <2>1. dev.owner = c /\ BlockAt(c) /\ c # j
    BY <1>2, ThreadsAssumption DEF Ownership, Working
  <2>2. dev.blocked = "WRITING_LABEL"
    BY <1>2, <2>1 DEF BlockAt, InSysop
  <2>3. hold[c].owner = j /\ ~Nobodys(hold[c])
    BY <1>2, ThreadsAssumption DEF SysopBlock, Nobodys
  <2>4. QED BY <1>2, <2>1, <2>2, <2>3 DEF Ownership
<1>3. QED BY <1>1, <1>2 DEF Ownership

LEMMA UnmountedBoolean == \A d : is_device_unmounted(d) \in BOOLEAN
BY DEF is_device_unmounted

\* The block a job in wait_for_sysop goes on with, u being its unmounted.
WaitBlock(d, j, u) ==
  /\ d.owner = j
  /\ d.blocked \in {"WAITING_FOR_SYSOP", "UNMOUNTED_WAITING_FOR_SYSOP", "MOUNT"}
  /\ d.prev \in {"DOING_ACQUIRE", "MOUNT"}
  /\ u => d.blocked # "WAITING_FOR_SYSOP"

\* The step changes nothing but the block, the job's place and its locals.
OnlySysop(j) ==
  /\ pc[j] \in {"mount"} \cup InSysop
  /\ \E to \in {"mount", "mount_fails"} \cup InSysop : pc' = [pc EXCEPT ![j] = to]
  /\ m_mutex' \in {j, NoThread} /\ stat' \in [Jobs -> {"none", "canceled", "W_WAKE"}]
  /\ asks' \in [Jobs -> 0..MaxAsks] /\ signaled' \in {signaled, signaled \ {j}}
  /\ \E u \in BOOLEAN : unmounted' = [unmounted EXCEPT ![j] = u]
  /\ UNCHANGED <<acquire_mutex, num_writers, can_append, canceled, entry, errors, despools,
                 hold, aborted>>

LEMMA SysopCounts ==
  ASSUME Types, Counts, NEW j \in Jobs, OnlySysop(j), dev' \in DevBlocks,
         dev'.waiting = dev.waiting
  PROVE  Types' /\ Counts' /\ Sleepers' = Sleepers /\ j \notin Sleepers
<1> USE DEF InRLock, InObtain, InSysop
<1>1. PICK to \in {"mount", "mount_fails"} \cup InSysop : pc' = [pc EXCEPT ![j] = to]
  BY DEF OnlySysop
<1>2. Types'
  <2>1. unmounted' \in [Jobs -> BOOLEAN]
    BY DEF OnlySysop, Types
  <2>2. QED
    BY <1>1, <2>1, ThreadsAssumption DEF OnlySysop, Types, JobSteps, CommandSteps
<1>3. Sleepers' = Sleepers /\ j \notin Sleepers
  BY <1>1 DEF OnlySysop, Sleepers, Types
<1>4. Writers' = Writers
  BY <1>1 DEF OnlySysop, Writers, Mounting, Types
<1>5. Counts'
  BY <1>3, <1>4 DEF Counts, OnlySysop
<1>6. QED BY <1>2, <1>3, <1>5

\* The job has the block before and after the step, or takes no part in it.
LEMMA SysopKept ==
  ASSUME IInv, NEW j \in Jobs, OnlySysop(j), dev' \in DevBlocks, dev'.waiting = dev.waiting,
         OperatorCareful =>
           \/ /\ dev.owner = j /\ dev'.owner = j /\ is_blocked(dev') /\ BlockAt(j)'
              /\ pc'[j] \in InSysop => SysopBlock(dev, j)'
           \/ /\ dev.owner # j /\ dev' = dev /\ unmounted'[j] = unmounted[j]
              /\ pc[j] \in InSysop /\ pc'[j] \in InSysop
  PROVE  IInv'
<1>1. Types' /\ Counts' /\ Sleepers' = Sleepers /\ j \notin Sleepers
  BY SysopCounts DEF IInv
<1>2. ASSUME OperatorCareful PROVE Guarded'
  <2> USE <1>2 DEF IInv, Guarded
  <2>1. Entries' /\ ~aborted'
    BY DEF OnlySysop, Entries
  <2>2. CASE /\ dev.owner = j /\ dev'.owner = j /\ is_blocked(dev') /\ BlockAt(j)'
             /\ pc'[j] \in InSysop => SysopBlock(dev, j)'
    <3>1. PICK to \in {"mount", "mount_fails"} \cup InSysop : pc' = [pc EXCEPT ![j] = to]
      BY DEF OnlySysop
    <3>2. pc[j] # "label" /\ j \notin Commands /\ pc'[j] = to
      BY <3>1, ThreadsAssumption DEF OnlySysop, InSysop, Types
    <3>3. Ownership'
      BY <1>1, <2>2, <3>1, <3>2, AloneOwnership
    <3>4. Wakeable'
      BY <2>2 DEF Wakeable, is_blocked
    <3>5. QED BY <2>1, <3>3, <3>4
  <2>3. CASE /\ dev.owner # j /\ dev' = dev /\ unmounted'[j] = unmounted[j]
             /\ pc[j] \in InSysop /\ pc'[j] \in InSysop
    <3>1. /\ \A u \in Threads : u # j => pc'[u] = pc[u]
          /\ UNCHANGED <<canceled, hold>>
      BY DEF OnlySysop, Types
    <3>2. unmounted' = unmounted
      BY <2>3 DEF OnlySysop, Types
    <3>3. pc[j] \notin Working /\ pc'[j] \notin Working
      BY <2>3 DEF Working, InSysop
    <3>4. Ownership'
      <4>1. dev'.owner = NoThread => Nobodys(dev)'
        BY <2>3 DEF Ownership, Nobodys
      <4>2. ASSUME NEW u \in Threads, dev'.owner = u PROVE BlockAt(u)'
        BY <2>3, <3>1, <4>2 DEF Ownership, BlockAt
      <4>3. ASSUME NEW u \in Threads, pc'[u] \in Working PROVE dev'.owner = u
        BY <2>3, <3>1, <3>3, <4>3 DEF Ownership
      <4>4. ASSUME NEW k \in Jobs, pc'[k] \in InSysop
            PROVE  \/ SysopBlock(dev, k)'
                   \/ \E c \in Commands : pc'[c] = "label" /\ SysopBlock(hold[c], k)'
        <5>1. pc[k] \in InSysop
          BY <2>3, <3>1, <4>4
        <5>2. \A c \in Commands : pc'[c] = pc[c]
          BY <3>1, ThreadsAssumption
        <5>3. QED BY <2>3, <3>1, <3>2, <5>1, <5>2 DEF Ownership, SysopBlock
      <4>5. ASSUME NEW c \in Commands
            PROVE  /\ pc'[c] = "read_label" => Nobodys(hold[c])'
                   /\ pc'[c] = "label" =>
                        \/ Nobodys(hold[c])'
                        \/ \E k \in Jobs : hold'[c].owner = k /\ pc'[k] \in InSysop /\ ~canceled'[k]
        <5>1. pc'[c] = pc[c]
          BY <3>1, ThreadsAssumption
        <5>2. \A k \in Jobs : pc[k] \in InSysop => pc'[k] \in InSysop
          BY <2>3, <3>1
        <5>3. QED BY <3>1, <5>1, <5>2 DEF Ownership, Nobodys
      <4>6. QED BY <4>1, <4>2, <4>3, <4>4, <4>5 DEF Ownership
    <3>5. Wakeable'
      BY <1>1, <2>3 DEF Wakeable, OnlySysop, is_blocked
    <3>6. QED BY <2>1, <3>4, <3>5
  <2>4. QED BY <2>2, <2>3
<1>3. QED BY <1>1, <1>2 DEF IInv

\* What a turn of wait_for_sysop leaves alone, and what it may change freely.
TurnFrame(j) ==
  /\ pc[j] \in {"mount", "sysop_wait"}
  /\ asks' \in [Jobs -> 0..MaxAsks] /\ signaled' \in {signaled, signaled \ {j}}
  /\ UNCHANGED <<acquire_mutex, num_writers, can_append, canceled, entry, errors, despools,
                 hold, aborted>>

\* The job leaves with its block.
LEMMA SysopExitKept ==
  ASSUME IInv, NEW j \in Jobs, TurnFrame(j), NEW d \in DevBlocks, d.waiting = dev.waiting,
         NEW u \in BOOLEAN, NEW s \in {"W_WAKE", "canceled", "W_TIMEOUT", "W_POLL", "W_MOUNT"},
         SysopExit(j, d, u, s), OperatorCareful => dev.owner = j /\ WaitBlock(d, j, u)
  PROVE  IInv'
<1>1. Leaves(j, d, u) /\ unmounted' = [unmounted EXCEPT ![j] = FALSE]
  BY SysopExitBlocks DEF IInv
<1>2. OnlySysop(j)
  <2>1. PICK to \in {"mount", "mount_fails"} : pc' = [pc EXCEPT ![j] = to]
    BY DEF SysopExit
  <2>2. stat' \in [Jobs -> {"none", "canceled", "W_WAKE"}]
    BY DEF SysopExit, IInv, Types
  <2>3. m_mutex' = NoThread
    BY DEF SysopExit
  <2>4. QED BY <1>1, <2>1, <2>2, <2>3 DEF OnlySysop, TurnFrame, InSysop
<1>3. dev' \in DevBlocks /\ dev'.waiting = dev.waiting
  BY <1>1 DEF Leaves, Is
<1>4. ASSUME OperatorCareful
      PROVE  dev'.owner = j /\ is_blocked(dev') /\ BlockAt(j)' /\ pc'[j] \notin InSysop
  BY <1>1, <1>4 DEF Leaves, Is, WaitBlock, BlockAt, is_blocked, InSysop
<1>5. QED BY <1>2, <1>3, <1>4, SysopKept

\* The job leaves if it was canceled, else it goes to sleep again.
LEMMA SysopLoopKept ==
  ASSUME IInv, NEW j \in Jobs, TurnFrame(j), NEW d \in DevBlocks, d.waiting = dev.waiting,
         NEW u \in BOOLEAN, SysopLoop(j, d, u),
         OperatorCareful =>
           \/ dev.owner = j /\ WaitBlock(d, j, u)
           \/ /\ dev.owner # j /\ d = dev /\ u = unmounted[j] /\ ~canceled[j]
              /\ pc[j] \in InSysop
  PROVE  IInv'
<1>1. CASE canceled[j]
  <2>1. SysopExit(j, d, u, "canceled")
    BY <1>1 DEF SysopLoop
  <2>2. QED BY <1>1, <2>1, SysopExitKept
<1>2. CASE ~canceled[j]
  <2>1. /\ dev' = d /\ m_mutex' = j /\ pc' = [pc EXCEPT ![j] = "sysop_tested"]
        /\ unmounted' = [unmounted EXCEPT ![j] = u] /\ UNCHANGED stat
    BY <1>2 DEF SysopLoop
  <2>2. OnlySysop(j)
    BY <2>1 DEF OnlySysop, TurnFrame, InSysop, IInv, Types
  <2>3. pc'[j] \in InSysop /\ unmounted'[j] = u
    BY <2>1 DEF IInv, Types, InSysop
  <2>4. ASSUME OperatorCareful, dev.owner = j, WaitBlock(d, j, u)
        PROVE  dev'.owner = j /\ is_blocked(dev') /\ BlockAt(j)' /\ SysopBlock(dev, j)'
    BY <2>1, <2>3, <2>4 DEF WaitBlock, SysopBlock, BlockAt, is_blocked
  <2>5. QED BY <2>1, <2>2, <2>3, <2>4, SysopKept
<1>3. QED BY <1>1, <1>2

\* The job begins to wait, with its block marked.
LEMMA WaitForSysopKept ==
  ASSUME IInv, NEW j \in Jobs, wait_for_sysop(j) PROVE IInv'
<1> DEFINE d == IF is_device_unmounted(dev) THEN dev
                ELSE [dev EXCEPT !.prev = dev.blocked, !.blocked = "WAITING_FOR_SYSOP"]
           u == is_device_unmounted(dev)
<1>1. TurnFrame(j)
  <2>1. asks' \in [Jobs -> 0..MaxAsks]
    BY BoundsAssumption DEF wait_for_sysop, IInv, Types
  <2>2. QED BY <2>1 DEF wait_for_sysop, TurnFrame, volume
<1>2. d \in DevBlocks /\ d.waiting = dev.waiting
  BY SomeStates DEF IInv, Types, DevBlocks
<1>3. ASSUME OperatorCareful PROVE dev.owner = j /\ WaitBlock(d, j, u)
  <2>1. dev.owner = j /\ pc[j] = "mount"
    BY <1>3 DEF wait_for_sysop, IInv, Guarded, Ownership, Working
  <2>2. \/ dev.blocked \in {"DOING_ACQUIRE", "MOUNT"}
        \/ /\ dev.blocked = "UNMOUNTED_WAITING_FOR_SYSOP"
           /\ dev.prev \in {"DOING_ACQUIRE", "MOUNT"}
    BY <1>3, <2>1 DEF IInv, Guarded, Ownership, BlockAt, InSysop
  <2>3. QED BY <2>1, <2>2 DEF WaitBlock, is_device_unmounted, IInv, Types, DevBlocks
<1>4. SysopLoop(j, d, u) /\ u \in BOOLEAN
  BY UnmountedBoolean DEF wait_for_sysop
<1> HIDE DEF d, u
<1>5. QED BY <1>1, <1>2, <1>3, <1>4, SysopLoopKept

LEMMA SysopSleepsKept ==
  ASSUME IInv, NEW j \in Jobs, sysop_sleeps(j) PROVE IInv'
<1>1. OnlySysop(j)
  <2>1. unmounted' = [unmounted EXCEPT ![j] = unmounted[j]] /\ unmounted[j] \in BOOLEAN
    BY DEF sysop_sleeps, jobLocals, IInv, Types
  <2>2. QED BY <2>1 DEF sysop_sleeps, OnlySysop, volume, jobLocals, InSysop, IInv, Types
<1>2. dev' = dev /\ unmounted' = unmounted /\ pc[j] \in InSysop /\ pc'[j] \in InSysop
      /\ dev \in DevBlocks
  BY DEF sysop_sleeps, jobLocals, InSysop, IInv, Types
<1>3. ASSUME OperatorCareful, dev.owner = j
      PROVE  is_blocked(dev) /\ BlockAt(j)' /\ SysopBlock(dev, j)'
  <2>1. SysopBlock(dev, j)
    BY <1>2, <1>3, SysopOwner DEF IInv, Guarded
  <2>2. QED BY <1>2, <2>1 DEF SysopBlock, is_blocked, BlockAt
<1>4. QED BY <1>1, <1>2, <1>3, SysopKept

\* The job has woken: it has its block, or the operator labels.
LEMMA SysopWoken ==
  ASSUME IInv, NEW j \in Jobs, SysopWakes(j)
  PROVE  /\ TurnFrame(j) /\ dev \in DevBlocks /\ unmounted[j] \in BOOLEAN
         /\ OperatorCareful => \/ dev.owner = j /\ SysopBlock(dev, j)
                               \/ /\ dev.owner # j /\ dev.blocked = "WRITING_LABEL"
                                  /\ ~canceled[j] /\ pc[j] \in InSysop
<1>1. TurnFrame(j) /\ pc[j] \in InSysop
  BY DEF SysopWakes, TurnFrame, volume, IInv, Types, InSysop
<1>2. QED BY <1>1, SysopOwner DEF IInv, Guarded, Types

LEMMA SysopLabellingKept ==
  ASSUME IInv, NEW j \in Jobs, sysop_labelling(j) PROVE IInv'
<1>1. SysopWakes(j) /\ dev.blocked = "WRITING_LABEL" /\ SysopLoop(j, dev, unmounted[j])
  BY DEF sysop_labelling
<1>2. OperatorCareful => /\ dev.owner # j /\ ~canceled[j] /\ pc[j] \in InSysop
  BY <1>1, SysopWoken DEF SysopBlock
<1>3. QED BY <1>1, <1>2, SysopWoken, SysopLoopKept

LEMMA SysopLeavesKept ==
  ASSUME IInv, NEW j \in Jobs,
         sysop_timeout(j) \/ sysop_poll(j) \/ sysop_mounted(j) \/ sysop_woken(j)
  PROVE  IInv'
<1>1. SysopWakes(j) /\ dev.blocked # "WRITING_LABEL"
  BY DEF sysop_timeout, sysop_poll, sysop_mounted, sysop_woken, NotLabelling
<1>2. OperatorCareful => dev.owner = j /\ SysopBlock(dev, j)
  BY <1>1, SysopWoken
<1>3. CASE sysop_timeout(j)
  <2>1. SysopExit(j, dev, unmounted[j], "W_TIMEOUT")
    BY <1>3 DEF sysop_timeout
  <2>2. OperatorCareful => WaitBlock(dev, j, unmounted[j])
    BY <1>2 DEF SysopBlock, WaitBlock
  <2>3. QED BY <1>1, <1>2, <2>1, <2>2, SysopWoken, SysopExitKept
<1>4. CASE sysop_poll(j) \/ sysop_mounted(j)
  <2>1. PICK s \in {"W_POLL", "W_MOUNT"} : SysopExit(j, dev, FALSE, s)
    BY <1>4 DEF sysop_poll, sysop_mounted
  <2>2. OperatorCareful => WaitBlock(dev, j, FALSE)
    BY <1>2 DEF SysopBlock, WaitBlock
  <2>3. QED BY <1>1, <1>2, <2>1, <2>2, SysopWoken, SysopExitKept
<1>5. CASE sysop_woken(j)
  <2>1. SysopExit(j, dev, is_device_unmounted(dev), "W_WAKE")
    BY <1>5 DEF sysop_woken
  <2>2. OperatorCareful => WaitBlock(dev, j, is_device_unmounted(dev))
    BY <1>2 DEF SysopBlock, WaitBlock, is_device_unmounted
  <2>3. QED BY <1>1, <1>2, <2>1, <2>2, SysopWoken, SysopExitKept, UnmountedBoolean
<1>6. QED BY <1>3, <1>4, <1>5

LEMMA SysopHeartbeatKept ==
  ASSUME IInv, NEW j \in Jobs, sysop_heartbeat(j) PROVE IInv'
<1>1. /\ SysopWakes(j) /\ dev.blocked # "WRITING_LABEL"
      /\ SysopLoop(j, dev, is_device_unmounted(dev))
  BY DEF sysop_heartbeat
<1>2. OperatorCareful => dev.owner = j /\ SysopBlock(dev, j)
  BY <1>1, SysopWoken
<1>3. OperatorCareful => WaitBlock(dev, j, is_device_unmounted(dev))
  BY <1>2 DEF SysopBlock, WaitBlock, is_device_unmounted
<1>4. QED BY <1>1, <1>2, <1>3, SysopWoken, SysopLoopKept, UnmountedBoolean

-----------------------------------------------------------------------------
(* The console commands. *)

\* A command goes on, with the block and, unless it cancels, the jobs' locals.
CommandFrame(c, to) ==
  /\ pc[c] \in CommandSteps /\ pc' = [pc EXCEPT ![c] = to]
  /\ dev' \in DevBlocks /\ dev'.waiting = Without(c)
  /\ canceled' \in [Jobs -> BOOLEAN] /\ hold' \in [Commands -> DevBlocks]
  /\ can_append' \in BOOLEAN /\ signaled' \subseteq Threads
  /\ UNCHANGED <<m_mutex, acquire_mutex, num_writers, unmounted, stat, entry, asks, errors,
                 despools, aborted>>

LEMMA CommandCounts ==
  ASSUME Types, Counts, NEW c \in Commands, NEW to \in {"done", "read_label", "label"},
         CommandFrame(c, to)
  PROVE  /\ Types' /\ Counts' /\ Sleepers' = Sleepers \ {c}
         /\ \A t \in Threads : t # c => pc'[t] = pc[t]
         /\ pc'[c] = to /\ c \notin Jobs
<1> USE DEF InRLock, InObtain, InSysop
<1>1. Types'
  BY ThreadsAssumption DEF CommandFrame, Types, JobSteps, CommandSteps
<1>2. (\A t \in Threads : t # c => pc'[t] = pc[t]) /\ pc'[c] = to /\ c \notin Jobs
  BY ThreadsAssumption DEF CommandFrame, Types
<1>3. Sleepers' = Sleepers \ {c}
  BY <1>2 DEF Sleepers
<1>4. Counts'
  <2>1. Moves(c)
    BY DEF CommandFrame, Moves, CommandSteps
  <2>2. c \notin Writers /\ c \notin Writers' /\ c \notin Sleepers'
    BY <1>2, <1>3 DEF Writers
  <2>3. Counted(c)
    BY <2>2 DEF Counted, CommandFrame, Without, In, Types, DevBlocks
  <2>4. QED BY <2>1, <2>3, CountsStep
<1>5. QED BY <1>1, <1>2, <1>3, <1>4

\* A command that finds the drive nobody's, or has its block, takes or frees it.
LEMMA CommandAlone ==
  ASSUME IInv, NEW c \in Commands, NEW to \in {"done", "read_label", "label"},
         CommandFrame(c, to), pc[c] # "label",
         OperatorCareful =>
           /\ dev.owner \in {c, NoThread}
           /\ \/ dev'.owner = c /\ BlockAt(c)' /\ Nobodys(hold[c])'
              \/ Nobodys(dev)' /\ to = "done"
           /\ is_blocked(dev') \/ Sleepers \ {c} \subseteq signaled'
  PROVE  IInv'
<1>1. /\ Types' /\ Counts' /\ Sleepers' = Sleepers \ {c}
      /\ c \notin Jobs
  BY CommandCounts DEF IInv
<1>2. ASSUME OperatorCareful PROVE Guarded'
  <2>1. Ownership'
    BY <1>1, <1>2, AloneOwnership DEF IInv, Guarded, CommandFrame, Working, InSysop
  <2>2. Wakeable'
    BY <1>1, <1>2 DEF Wakeable, is_blocked
  <2>3. Entries' /\ ~aborted'
    BY <1>2 DEF IInv, Guarded, Entries, CommandFrame
  <2>4. QED BY <2>1, <2>2, <2>3 DEF Guarded
<1>3. QED BY <1>1, <1>2 DEF IInv

\* A command that ends and only renames the block of a job that waits.
LEMMA Renamed ==
  ASSUME IInv, NEW c \in Commands, pc[c] = "start", CommandFrame(c, "done"),
         dev.blocked \in {"WAITING_FOR_SYSOP", "UNMOUNTED_WAITING_FOR_SYSOP"},
         dev'.blocked \in {"UNMOUNTED_WAITING_FOR_SYSOP", "MOUNT"},
         dev'.prev = dev.prev, dev'.owner = dev.owner, UNCHANGED <<canceled, hold>>
  PROVE  IInv'
<1>1. /\ Types' /\ Counts' /\ \A t \in Threads : t # c => pc'[t] = pc[t]
      /\ pc'[c] = "done" /\ c \notin Jobs
  BY CommandCounts DEF IInv
<1>2. ASSUME OperatorCareful PROVE Guarded'
  <2> USE <1>2 DEF IInv, Guarded
  <2>1. /\ dev.owner # NoThread
        /\ \A j \in Jobs : dev.owner = j /\ pc[j] \in InSysop => SysopBlock(dev, j)
    BY OwnerBlocks DEF is_blocked
  <2>2. ASSUME NEW t \in Threads, dev.owner = t
        PROVE  pc[t] \in {"mount", "mount_fails"} \cup InSysop
    BY <2>2 DEF Ownership, BlockAt
  <2>3. ASSUME NEW d \in Commands PROVE pc'[d] \notin {"label", "read_label"}
    <3>1. pc[d] \in Working => dev.owner = d
      BY DEF Ownership
    <3>2. QED BY <1>1, <2>2, <3>1 DEF Working, InSysop
  <2>4. ASSUME NEW t \in Threads, dev'.owner = t PROVE BlockAt(t)'
    <3>1. t # c /\ pc'[t] = pc[t] /\ BlockAt(t)
      BY <1>1, <2>2, <2>4 DEF InSysop, Ownership
    <3>2. QED BY <2>2, <2>4, <3>1 DEF BlockAt
  <2>5. ASSUME NEW t \in Threads, pc'[t] \in Working PROVE dev'.owner = t
    BY <1>1, <2>5 DEF Ownership, Working
  <2>6. ASSUME NEW j \in Jobs, pc'[j] \in InSysop PROVE SysopBlock(dev, j)'
    <3>1. pc[j] \in InSysop
      BY <1>1, <2>6
    <3>2. SysopBlock(dev, j)
      BY <3>1, SysopOwner
    <3>3. QED BY <3>2 DEF SysopBlock, CommandFrame
  <2>7. Ownership'
    BY <2>1, <2>3, <2>4, <2>5, <2>6 DEF Ownership
  <2>8. Wakeable' /\ Entries' /\ ~aborted'
    BY DEF Wakeable, is_blocked, Entries, CommandFrame
  <2>9. QED BY <2>7, <2>8
<1>3. QED BY <1>1, <1>2 DEF IInv

\* A command at its start sleeps nowhere.
LEMMA AtStart ==
  ASSUME IInv, NEW c \in Commands, pc[c] \in {"start", "read_label", "label"}
  PROVE  /\ Without(c) = dev.waiting /\ pc[c] \in CommandSteps /\ c \notin Sleepers
         /\ dev \in DevBlocks
BY DEF IInv, Types, DevBlocks, Without, In, Sleepers, InRLock, InObtain, CommandSteps

LEMMA MountWakesKept ==
  ASSUME IInv, NEW c \in Commands, mount_cmd_wakes(c) PROVE IInv'
<1>1. /\ pc[c] = "start" /\ pc' = [pc EXCEPT ![c] = "done"] /\ signaled' = WakeSysopWaiters
      /\ dev.blocked \in {"WAITING_FOR_SYSOP", "UNMOUNTED_WAITING_FOR_SYSOP"}
      /\ UNCHANGED <<m_mutex, acquire_mutex, num_writers, can_append, canceled, unmounted, stat,
                     entry, asks, errors, despools, hold, aborted>>
  BY DEF mount_cmd_wakes, Idle, CommandEnds, locks, volume, jobLocals
<1>2. Is(dev', "MOUNT", dev.prev, dev.owner, dev.waiting)
  BY SomeStates DEF mount_cmd_wakes, set_blocked, Is, DevBlocks, IInv, Types
<1>3. CommandFrame(c, "done")
  BY <1>1, <1>2, AtStart DEF CommandFrame, Is, WakeSysopWaiters, IInv, Types
<1>4. QED BY <1>1, <1>2, <1>3, Renamed DEF Is

LEMMA UnmountWaitingKept ==
  ASSUME IInv, NEW c \in Commands, unmount_cmd_waiting(c) PROVE IInv'
<1>1. /\ pc[c] = "start" /\ pc' = [pc EXCEPT ![c] = "done"]
      /\ dev.blocked = "WAITING_FOR_SYSOP"
      /\ UNCHANGED <<m_mutex, acquire_mutex, num_writers, can_append, canceled, unmounted, stat,
                     entry, asks, errors, despools, hold, signaled, aborted>>
  BY DEF unmount_cmd_waiting, Idle, CommandEnds, locks, volume, jobLocals
<1>2. Is(dev', "UNMOUNTED_WAITING_FOR_SYSOP", dev.prev, dev.owner, dev.waiting)
  BY SomeStates DEF unmount_cmd_waiting, set_blocked, Is, DevBlocks, IInv, Types
<1>3. CommandFrame(c, "done")
  BY <1>1, <1>2, AtStart DEF CommandFrame, Is, IInv, Types
<1>4. QED BY <1>1, <1>2, <1>3, Renamed DEF Is

LEMMA OpenFailsKept ==
  ASSUME IInv, NEW c \in Commands, mount_cmd_openFails(c) PROVE IInv'
<1>1. /\ pc[c] = "start" /\ pc' = [pc EXCEPT ![c] = "done"] /\ signaled' = WakeWaiters(dev)
      /\ dev.blocked = "UNMOUNTED"
      /\ UNCHANGED <<m_mutex, acquire_mutex, num_writers, can_append, canceled, unmounted, stat,
                     entry, asks, errors, despools, hold, aborted>>
  BY DEF mount_cmd_openFails, Idle, CommandEnds, locks, volume, jobLocals
<1>2. Is(dev', "NOT_BLOCKED", dev.prev, NoThread, dev.waiting)
  BY SomeStates DEF mount_cmd_openFails, unblock_device, Is, DevBlocks, IInv, Types
<1>3. CommandFrame(c, "done")
  BY <1>1, <1>2, AtStart DEF CommandFrame, Is, WakeWaiters, IInv, Types
<1>4. ASSUME OperatorCareful PROVE dev.owner = NoThread /\ Nobodys(dev)'
  BY <1>1, <1>2, <1>4, OwnerBlocks DEF IInv, Guarded, Is, Nobodys
<1>5. Sleepers \subseteq signaled'
  BY <1>1, WakesAll DEF IInv
<1>6. pc[c] # "label"
  BY <1>1
<1>7. QED BY <1>3, <1>4, <1>5, <1>6, CommandAlone

\* An idle drive has no writer and no reservation, so no job has the block.
LEMMA UnmountIdleKept ==
  ASSUME IInv, NEW c \in Commands, unmount_cmd_idle(c) PROVE IInv'
<1>1. /\ pc[c] = "start" /\ pc' = [pc EXCEPT ![c] = "done"] /\ can_append' = FALSE /\ ~is_busy
      /\ dev.blocked \notin {"WAITING_FOR_SYSOP", "DOING_ACQUIRE", "WRITING_LABEL", "UNMOUNTED"}
      /\ UNCHANGED <<m_mutex, acquire_mutex, num_writers, canceled, unmounted, stat,
                     entry, asks, errors, despools, hold, signaled, aborted>>
  BY DEF unmount_cmd_idle, Idle, CommandEnds, locks, jobLocals
<1>2. Is(dev', "UNMOUNTED", dev.prev, NoThread, dev.waiting)
  BY SomeStates DEF unmount_cmd_idle, Is, DevBlocks, IInv, Types
<1>3. CommandFrame(c, "done")
  BY <1>1, <1>2, AtStart DEF CommandFrame, Is, IInv, Types
<1>4. ASSUME OperatorCareful PROVE dev.owner = NoThread
  <2> USE <1>4 DEF IInv, Guarded
  <2>1. Writers = {}
    <3>1. IsFiniteSet(Writers)
      BY ThreadsAssumption, FS_Subset DEF Writers
    <3>2. ~(num_writers > 0)
      BY <1>1 DEF is_busy
    <3>3. Cardinality(Writers) = 0
      BY <3>1, <3>2, FS_CardinalityType DEF Counts
    <3>4. QED BY <3>1, <3>3, FS_EmptySet
  <2>2. ASSUME NEW t \in Threads, dev.owner = t PROVE FALSE
    <3>1. BlockAt(t)
      BY <2>2 DEF Ownership
    <3>2. t \in Jobs
      BY <1>1, <3>1, ThreadsAssumption DEF BlockAt, Types, CommandSteps, InSysop
    <3>3. pc[t] \in Mounting \cup {"despool", "release"}
      BY <1>1, <3>1, <3>2 DEF BlockAt, Types, JobSteps, Mounting, InSysop, InRLock
    <3>4. pc[t] \in Mounting /\ entry[t] = "acquire"
      BY <2>1, <3>2, <3>3 DEF Writers
    <3>5. QED BY <1>1, <3>2, <3>4 DEF is_busy, Mounting, Working
  <2>3. QED BY <2>2 DEF Types, DevBlocks
<1>5. Nobodys(dev)' /\ is_blocked(dev') /\ pc[c] # "label"
  BY <1>1, <1>2 DEF Is, Nobodys, is_blocked
<1>6. QED BY <1>3, <1>4, <1>5, CommandAlone

\* A command steals the block: it saves what give_back_device_block restores.
LEMMA Stolen ==
  ASSUME IInv, NEW c \in Commands, NEW s \in {"DOING_ACQUIRE", "WRITING_LABEL"},
         NEW to \in {"read_label", "label"}, pc[c] \in {"start", "label_wait"}, Steal(c, s, to)
  PROVE  /\ CommandFrame(c, to) /\ Is(dev', s, dev.prev, c, Without(c))
         /\ Is(hold'[c], dev.blocked, dev.prev, dev.owner, Without(c))
         /\ \A d \in Commands : d # c => hold'[d] = hold[d]
         /\ signaled' = signaled \ {c} /\ UNCHANGED canceled
<1>1. PICK a : a = Awake(c) /\ Is(a, dev.blocked, dev.prev, dev.owner, Without(c))
  BY AwakeBlock DEF IInv
<1>2. Is(dev', s, dev.prev, c, Without(c))
  <2>1. dev' = obtain_device_block(a, c, s)
    BY <1>1 DEF Steal
  <2>2. QED BY <1>1, <2>1, SomeStates DEF obtain_device_block, Is, DevBlocks
<1>3. hold' = [hold EXCEPT ![c] = a] /\ a \in DevBlocks
  BY <1>1 DEF Steal, Is
<1>4. Is(hold'[c], dev.blocked, dev.prev, dev.owner, Without(c))
      /\ \A d \in Commands : d # c => hold'[d] = hold[d]
  BY <1>1, <1>3 DEF IInv, Types
<1>5. CommandFrame(c, to)
  BY <1>2, <1>3
     DEF Steal, CommandFrame, CommandSteps, Is, locks, volume, jobLocals, IInv, Types
<1>6. QED BY <1>2, <1>4, <1>5 DEF Steal, jobLocals

LEMMA MountReadsKept ==
  ASSUME IInv, NEW c \in Commands, mount_cmd_read_label(c) PROVE IInv'
<1>1. /\ pc[c] = "start" /\ dev.blocked \in {"UNMOUNTED", "NOT_BLOCKED"}
      /\ Steal(c, "DOING_ACQUIRE", "read_label")
  BY DEF mount_cmd_read_label, Idle
<1>2. /\ CommandFrame(c, "read_label") /\ Is(dev', "DOING_ACQUIRE", dev.prev, c, Without(c))
      /\ Is(hold'[c], dev.blocked, dev.prev, dev.owner, Without(c))
  BY <1>1, Stolen
<1>3. ASSUME OperatorCareful PROVE dev.owner = NoThread
  BY <1>1, <1>3, OwnerBlocks DEF IInv, Guarded, is_blocked
<1>4. pc'[c] = "read_label"
  BY <1>2 DEF CommandFrame, IInv, Types
<1>5. ASSUME OperatorCareful
      PROVE  dev'.owner = c /\ BlockAt(c)' /\ Nobodys(hold[c])' /\ is_blocked(dev')
  BY <1>1, <1>2, <1>3, <1>4, <1>5 DEF Is, BlockAt, Nobodys, is_blocked
<1>6. pc[c] # "label"
  BY <1>1
<1>7. QED BY <1>2, <1>3, <1>5, <1>6, CommandAlone

LEMMA ReadEndsKept ==
  ASSUME IInv, NEW c \in Commands, read_label_ends(c) PROVE IInv'
<1> DEFINE b == give_back_device_block(dev, hold[c])
<1>1. /\ pc[c] = "read_label" /\ pc' = [pc EXCEPT ![c] = "done"]
      /\ hold' = [hold EXCEPT ![c] = InitialBlock]
      /\ UNCHANGED <<m_mutex, acquire_mutex, num_writers, can_append, canceled, unmounted, stat,
                     entry, asks, errors, despools, aborted>>
  BY DEF read_label_ends, CommandEnds, locks, volume, jobLocals
<1>2. dev' \in {unblock_device(b), b}
  BY DEF read_label_ends
<1>3. signaled' \in {WakeSysopWaiters \cup WakeWaiters(dev), WakeWaiters(dev)}
  BY DEF read_label_ends
<1>4. Is(b, hold[c].blocked, hold[c].prev, hold[c].owner, dev.waiting)
  BY DEF give_back_device_block, Is, IInv, Types, DevBlocks
<1> HIDE DEF b
<1>5. \/ Is(dev', "NOT_BLOCKED", hold[c].prev, NoThread, dev.waiting)
      \/ Is(dev', hold[c].blocked, hold[c].prev, hold[c].owner, dev.waiting)
  BY <1>2, <1>4, SomeStates DEF Is, unblock_device, DevBlocks
<1>6. CommandFrame(c, "done")
  <2>1. InitialBlock \in DevBlocks
    BY SomeStates DEF InitialBlock, DevBlocks
  <2>2. signaled' \subseteq Threads
    BY <1>3 DEF WakeSysopWaiters, WakeWaiters, IInv, Types
  <2>3. QED BY <1>1, <1>5, <2>1, <2>2, AtStart DEF CommandFrame, Is, IInv, Types
<1>7. ASSUME OperatorCareful PROVE dev.owner = c /\ Nobodys(dev)'
  <2>1. dev.owner = c /\ Nobodys(hold[c])
    BY <1>1, <1>7 DEF IInv, Guarded, Ownership, Working
  <2>2. QED BY <1>5, <2>1 DEF Is, Nobodys
<1>8. Sleepers \subseteq signaled' /\ pc[c] # "label"
  BY <1>1, <1>3, WakesAll DEF IInv
<1>9. QED BY <1>6, <1>7, <1>8, CommandAlone

\* A careful label command takes a free block, or that of a job that waits.
LEMMA LabelKept ==
  ASSUME IInv, NEW c \in Commands, label_cmd(c) PROVE IInv'
<1>1. /\ pc[c] \in {"start", "label_wait"} /\ ObtainPasses(c)
      /\ OperatorCareful => ~JobLeavesWait
      /\ Steal(c, "WRITING_LABEL", "label")
  BY DEF label_cmd, At
<1>2. /\ CommandFrame(c, "label") /\ Is(dev', "WRITING_LABEL", dev.prev, c, Without(c))
      /\ Is(hold'[c], dev.blocked, dev.prev, dev.owner, Without(c))
      /\ \A d \in Commands : d # c => hold'[d] = hold[d]
      /\ signaled' = signaled \ {c} /\ UNCHANGED canceled
  BY <1>1, Stolen
<1>3. pc'[c] = "label"
  BY <1>2 DEF CommandFrame, IInv, Types
<1>4. ASSUME OperatorCareful PROVE can_obtain_block(dev) /\ dev.owner # c
  <2>1. dev.owner # c
    BY <1>1, <1>4 DEF IInv, Guarded, Ownership, BlockAt, InSysop
  <2>2. QED BY <1>1, <2>1 DEF ObtainPasses
<1>5. dev'.owner = c /\ BlockAt(c)' /\ is_blocked(dev')
  BY <1>2, <1>3 DEF Is, BlockAt, is_blocked
<1>6. CASE OperatorCareful => dev.owner = NoThread
  <2>1. OperatorCareful => Nobodys(hold[c])'
    BY <1>2, <1>6 DEF IInv, Guarded, Ownership, Is, Nobodys
  <2>2. pc[c] # "label"
    BY <1>1
  <2>3. QED BY <1>2, <1>5, <1>6, <2>1, <2>2, CommandAlone
<1>7. CASE OperatorCareful /\ dev.owner # NoThread
  <2> USE <1>7 DEF IInv, Guarded
  <2>1. PICK j \in Jobs : dev.owner = j /\ SysopBlock(dev, j) /\ pc[j] \in InSysop /\ ~canceled[j]
    <3>1. PICK t \in Threads : dev.owner = t /\ BlockAt(t)
      BY DEF Types, DevBlocks, Ownership
    <3>2. pc[t] \in {"mount", "mount_fails"} => t \in Jobs
      BY ThreadsAssumption DEF Types, CommandSteps
    <3>3. pc[t] \in InSysop
      BY <1>1, <1>4, <3>1, <3>2 DEF BlockAt, can_obtain_block, JobLeavesWait
    <3>4. t \in Jobs
      BY <3>3, ThreadsAssumption DEF Types, CommandSteps, InSysop
    <3>5. QED BY <1>1, <3>1, <3>3, <3>4, OwnerBlocks DEF JobLeavesWait
  <2>2. /\ Types' /\ Counts'
        /\ \A t \in Threads : t # c => pc'[t] = pc[t]
        /\ c \notin Jobs
    BY <1>2, CommandCounts
  <2>3. ASSUME NEW t \in Threads, t # c PROVE pc'[t] \notin Working
    <3>1. pc[t] \notin Working
      BY <2>1 DEF Ownership, Working, InSysop
    <3>2. QED BY <2>2, <2>3, <3>1
  <2>4. ASSUME NEW k \in Jobs, pc'[k] \in InSysop PROVE k = j
    <3>1. pc[k] \in InSysop
      BY <2>2, <2>4
    <3>2. dev.blocked # "WRITING_LABEL"
      BY <2>1 DEF SysopBlock
    <3>3. QED BY <2>1, <3>1, <3>2, SysopOwner
  <2>5. SysopBlock(hold[c], j)' /\ hold'[c].owner = j /\ pc'[j] \in InSysop /\ ~canceled'[j]
    BY <1>2, <2>1, <2>2 DEF Is, SysopBlock, CommandFrame
  <2>6. Ownership'
    <3>1. dev'.owner # NoThread
      BY <1>5, ThreadsAssumption
    <3>2. \A t \in Threads : /\ dev'.owner = t => BlockAt(t)'
                             /\ pc'[t] \in Working => dev'.owner = t
      BY <1>5, <2>3
    <3>3. \A k \in Jobs : pc'[k] \in InSysop =>
            \E d \in Commands : pc'[d] = "label" /\ SysopBlock(hold[d], k)'
      BY <1>3, <2>4, <2>5
    <3>4. \A d \in Commands : pc'[d] \in {"read_label", "label"} => d = c
      BY <2>3 DEF Working
    <3>5. QED BY <1>3, <2>5, <3>1, <3>2, <3>3, <3>4 DEF Ownership
  <2>7. Wakeable' /\ Entries' /\ ~aborted'
    BY <1>2, <1>5 DEF Wakeable, is_blocked, Entries, CommandFrame
  <2>8. QED BY <2>2, <2>6, <2>7
<1>8. QED BY <1>6, <1>7

\* The label is written: the block goes back to nobody, or to the job.
LEMMA LabelEndsKept ==
  ASSUME IInv, NEW c \in Commands, label_ends(c) PROVE IInv'
<1>1. /\ pc[c] = "label" /\ pc' = [pc EXCEPT ![c] = "done"] /\ signaled' = WakeWaiters(dev)
      /\ hold' = [hold EXCEPT ![c] = InitialBlock]
      /\ UNCHANGED <<m_mutex, acquire_mutex, num_writers, can_append, canceled, unmounted, stat,
                     entry, asks, errors, despools, aborted>>
  BY DEF label_ends, CommandEnds, locks, volume, jobLocals
<1>2. Is(dev', hold[c].blocked, hold[c].prev, hold[c].owner, dev.waiting)
  BY DEF label_ends, give_back_device_block, Is, IInv, Types, DevBlocks
<1>3. CommandFrame(c, "done")
  <2>1. InitialBlock \in DevBlocks
    BY SomeStates DEF InitialBlock, DevBlocks
  <2>2. signaled' \subseteq Threads
    BY <1>1 DEF WakeWaiters, IInv, Types
  <2>3. QED BY <1>1, <1>2, <2>1, <2>2, AtStart DEF CommandFrame, Is, IInv, Types
<1>4. /\ Types' /\ Counts' /\ Sleepers' = Sleepers \ {c}
      /\ \A t \in Threads : t # c => pc'[t] = pc[t]
      /\ pc'[c] = "done" /\ c \notin Jobs
  BY <1>3, CommandCounts DEF IInv
<1>5. ASSUME OperatorCareful PROVE Guarded'
  <2> USE <1>5 DEF IInv, Guarded
  <2>1. dev.owner = c
    BY <1>1 DEF Ownership, Working
  <2>2. ASSUME NEW t \in Threads PROVE pc'[t] \notin Working
    <3>1. t # c => pc[t] \notin Working
      BY <2>1 DEF Ownership
    <3>2. QED BY <1>4, <3>1 DEF Working
  <2>3. ASSUME NEW k \in Jobs, pc'[k] \in InSysop PROVE SysopBlock(hold[c], k)
    <3>1. pc[k] \in InSysop /\ k # c
      BY <1>4, <2>3
    <3>2. ~SysopBlock(dev, k)
      BY <2>1, <3>1 DEF SysopBlock
    <3>3. PICK d \in Commands : pc[d] = "label" /\ SysopBlock(hold[d], k)
      BY <3>1, <3>2 DEF Ownership
    <3>4. d = c
      BY <2>1, <3>3 DEF Ownership, Working
    <3>5. QED BY <3>3, <3>4
  <2>4. ASSUME NEW k \in Jobs, pc'[k] \in InSysop PROVE SysopBlock(dev, k)'
    BY <1>1, <1>2, <2>3, <2>4 DEF Is, SysopBlock
  <2>5. dev'.owner = NoThread => Nobodys(dev)'
    <3>1. \/ Nobodys(hold[c]) 
          \/ \E j \in Jobs : hold[c].owner = j
      BY <1>1 DEF Ownership
    <3>2. QED BY <1>2, <3>1, ThreadsAssumption DEF Is, Nobodys
  <2>6. ASSUME NEW t \in Threads, dev'.owner = t PROVE BlockAt(t)'
    <3>1. hold[c].owner = t /\ ~Nobodys(hold[c])
      BY <1>2, <2>6, ThreadsAssumption DEF Is, Nobodys
    <3>2. t \in Jobs /\ pc[t] \in InSysop
      BY <1>1, <3>1 DEF Ownership
    <3>3. QED BY <1>4, <3>2 DEF BlockAt
  <2>7. Ownership'
    BY <2>2, <2>4, <2>5, <2>6 DEF Ownership, Working
  <2>8. Wakeable'
    BY <1>1, <1>4, WakesAll DEF Wakeable
  <2>9. Entries' /\ ~aborted'
    BY <1>1 DEF Entries
  <2>10. QED BY <2>7, <2>8, <2>9
<1>6. QED BY <1>4, <1>5 DEF IInv

\* A cancel during no label command: no job whose block was taken is canceled.
LEMMA CancelKept ==
  ASSUME IInv, NEW c \in Commands, cancel_cmd(c) PROVE IInv'
<1>1. /\ pc[c] = "start" /\ pc' = [pc EXCEPT ![c] = "done"] /\ signaled' = CancelWakes
      /\ OperatorCareful => dev.blocked # "WRITING_LABEL"
      /\ \E j \in Jobs : canceled' = [canceled EXCEPT ![j] = TRUE]
      /\ UNCHANGED <<dev, m_mutex, acquire_mutex, num_writers, can_append, unmounted, stat,
                     entry, asks, errors, despools, hold, aborted>>
  BY DEF cancel_cmd, NotLabelling, CommandEnds, locks, volume
<1>2. CommandFrame(c, "done")
  <2>1. signaled' \subseteq Threads
    BY <1>1 DEF CancelWakes, WakeSysopWaiters, IInv, Types
  <2>2. canceled' \in [Jobs -> BOOLEAN]
    BY <1>1 DEF IInv, Types
  <2>3. QED BY <1>1, <2>1, <2>2, AtStart DEF CommandFrame, IInv, Types
<1>3. /\ Types' /\ Counts' /\ Sleepers' = Sleepers \ {c}
      /\ \A t \in Threads : t # c => pc'[t] = pc[t]
      /\ pc'[c] = "done" /\ c \notin Jobs
  BY <1>2, CommandCounts DEF IInv
<1>4. ASSUME OperatorCareful PROVE Guarded'
  <2> USE <1>4 DEF IInv, Guarded
  <2>1. dev.owner # c
    BY <1>1 DEF Ownership, BlockAt, InSysop
  <2>2. ASSUME NEW d \in Commands PROVE pc[d] # "label"
    <3>1. pc[d] = "label" => dev.owner = d /\ BlockAt(d)
      BY DEF Ownership, Working
    <3>2. QED BY <1>1, <3>1 DEF BlockAt, InSysop
  <2>3. ASSUME NEW t \in Threads, dev'.owner = t PROVE BlockAt(t)'
    BY <1>1, <1>3, <2>1, <2>3 DEF Ownership, BlockAt
  <2>4. ASSUME NEW t \in Threads, pc'[t] \in Working PROVE dev'.owner = t
    BY <1>1, <1>3, <2>4 DEF Ownership, Working
  <2>5. ASSUME NEW j \in Jobs, pc'[j] \in InSysop PROVE SysopBlock(dev, j)'
    <3>1. SysopBlock(dev, j)
      BY <1>3, <2>2, <2>5 DEF Ownership
    <3>2. QED BY <1>1, <3>1 DEF SysopBlock
  <2>6. ASSUME NEW d \in Commands
        PROVE  pc'[d] # "label" /\ (pc'[d] = "read_label" => Nobodys(hold[d])')
    BY <1>1, <1>3, <2>2 DEF Ownership, Nobodys
  <2>7. Ownership'
    BY <1>1, <2>3, <2>4, <2>5, <2>6 DEF Ownership, Nobodys
  <2>8. Wakeable'
    BY <1>1, <1>3 DEF Wakeable, is_blocked, CancelWakes, WakeSysopWaiters
  <2>9. Entries' /\ ~aborted'
    BY <1>1 DEF Entries
  <2>10. QED BY <2>7, <2>8, <2>9
<1>5. QED BY <1>3, <1>4 DEF IInv

-----------------------------------------------------------------------------
LEMMA InitInv == Init => IInv
<1> SUFFICES ASSUME Init PROVE IInv
  OBVIOUS
<1>1. Types
  <2>1. InitialBlock \in DevBlocks
    BY SomeStates DEF InitialBlock, DevBlocks
  <2>2. 0 \in 0..MaxAsks /\ 0 \in 0..MaxErrors /\ 0 \in 0..MaxDespools /\ 0 \in Int
    BY BoundsAssumption
  <2>3. /\ asks \in [Jobs -> 0..MaxAsks] /\ errors \in [Jobs -> 0..MaxErrors]
        /\ despools \in [Jobs -> 0..MaxDespools] /\ hold \in [Commands -> DevBlocks]
    BY <2>1, <2>2 DEF Init
  <2>4. /\ canceled \in [Jobs -> BOOLEAN] /\ unmounted \in [Jobs -> BOOLEAN]
        /\ can_append \in BOOLEAN /\ aborted \in BOOLEAN
    BY DEF Init
  <2>5. /\ pc \in [Threads -> JobSteps \cup CommandSteps]
        /\ \A j \in Jobs : pc[j] \in JobSteps
        /\ \A c \in Commands : pc[c] \in CommandSteps
    BY DEF Init, JobSteps, CommandSteps
  <2>6. QED BY <2>1, <2>2, <2>3, <2>4, <2>5 DEF Init, Types
<1>2. Sleepers = {} /\ Writers = {}
  BY DEF Init, Sleepers, Writers, Mounting, InRLock, InObtain, InSysop
<1>3. Counts
  BY <1>2, FS_EmptySet DEF Init, Counts, InitialBlock
<1>4. Ownership
  BY ThreadsAssumption DEF Init, Ownership, InitialBlock, Nobodys, Working, InSysop
<1>5. Entries /\ Wakeable /\ ~aborted
  BY <1>2 DEF Init, Entries, Wakeable
<1>6. QED BY <1>1, <1>3, <1>4, <1>5 DEF IInv, Guarded

LEMMA JobKept ==
  ASSUME IInv, NEW j \in Jobs, JobActs(j) PROVE IInv'
<1>1. CASE mount_next_write_volume(j) \/ mount_given_up(j)
  <2>1. PICK ok \in BOOLEAN : MountEnds(j, ok) /\ pc[j] \in {"mount", "mount_fails"}
    BY <1>1 DEF mount_next_write_volume, mount_given_up
  <2>2. QED BY <2>1, MountEndsKept
<1>2. CASE \/ acquire_have_vol(j) \/ acquire_sleeps(j) \/ acquire_device_for_append(j)
           \/ reserve_device_for_append(j) \/ write_sleeps(j) \/ write_block_to_device(j)
           \/ fixup_device_block_write_error(j)
  BY <1>2, HaveVolKept, AcquireSleepsKept, AcquireKept, ReserveKept, WriteSleepsKept,
     WriteBlockKept, FixupKept
<1>3. CASE \/ wait_for_sysop(j) \/ sysop_sleeps(j) \/ sysop_labelling(j) \/ sysop_poll(j)
           \/ sysop_mounted(j) \/ sysop_woken(j) \/ sysop_timeout(j) \/ sysop_heartbeat(j)
  BY <1>3, WaitForSysopKept, SysopSleepsKept, SysopLabellingKept, SysopLeavesKept,
     SysopHeartbeatKept
<1>4. CASE \/ despool_sleeps(j) \/ despool_data(j) \/ despool_committed(j) \/ despool_ends(j)
           \/ do_append_data_ends(j) \/ release_sleeps(j) \/ release_device(j) \/ SleepsOn(j)
  BY <1>4, DespoolSleepsKept, DespoolKept, DespoolCommittedKept, DespoolEndsKept,
     AppendEndsKept, ReleaseSleepsKept, ReleaseKept, SleepsOnKept
<1>5. QED BY <1>1, <1>2, <1>3, <1>4 DEF JobActs, JobStep

LEMMA CommandKept ==
  ASSUME IInv, NEW c \in Commands, CommandActs(c) PROVE IInv'
BY MountWakesKept, OpenFailsKept, MountReadsKept, UnmountWaitingKept, UnmountIdleKept,
   LabelKept, LabelSleepsKept, CancelKept, ReadEndsKept, LabelEndsKept, LabelRefusedKept
   DEF CommandActs, CommandBegins, CommandStep

LEMMA NextInv == IInv /\ [Next]_vars => IInv'
<1> SUFFICES ASSUME IInv, [Next]_vars PROVE IInv'
  OBVIOUS
<1>1. CASE UNCHANGED vars
  <2>1. Types' /\ Counts'
    BY <1>1 DEF IInv, vars, Types, Counts, Sleepers, Writers
  <2>2. Guarded => Guarded'
    BY <1>1 DEF vars, Guarded, Entries, Ownership, BlockAt, SysopBlock, Nobodys, Wakeable,
                Sleepers, is_blocked
  <2>3. QED BY <2>1, <2>2 DEF IInv
<1>2. ASSUME NEW j \in Jobs, JobActs(j) PROVE IInv'
  BY <1>2, JobKept
<1>3. ASSUME NEW c \in Commands, CommandActs(c) PROVE IInv'
  BY <1>3, CommandKept
<1>4. QED BY <1>1, <1>2, <1>3 DEF Next, JobActs, CommandActs

\* The block is followed exactly, whatever jobs and commands do.
THEOREM DevInvariant == Spec => []IInv
BY InitInv, NextInv, PTL DEF Spec

-----------------------------------------------------------------------------
(* The saved num_waiting of a command, for the types. *)
HoldBound == \A c \in Commands : hold[c].waiting \in 0..Cardinality(Threads)

LEMMA CountBounds ==
  IInv => /\ dev.waiting \in 0..Cardinality(Threads)
          /\ num_writers \in 0..Cardinality(Jobs)
<1>1. IsFiniteSet(Threads) /\ IsFiniteSet(Jobs)
  BY ThreadsAssumption, FS_Union
<1>2. Sleepers \subseteq Threads /\ Writers \subseteq Jobs
  BY DEF Sleepers, Writers
<1>3. /\ Cardinality(Sleepers) \in Nat /\ Cardinality(Sleepers) <= Cardinality(Threads)
      /\ Cardinality(Threads) \in Nat
  BY <1>1, <1>2, FS_Subset, FS_CardinalityType
<1>4. /\ Cardinality(Writers) \in Nat /\ Cardinality(Writers) <= Cardinality(Jobs)
      /\ Cardinality(Jobs) \in Nat
  BY <1>1, <1>2, FS_Subset, FS_CardinalityType
<1>5. QED BY <1>3, <1>4 DEF IInv, Counts

\* What a command saves is the num_waiting of the block it takes.
LEMMA HoldStep ==
  ASSUME IInv, IInv', HoldBound, [Next]_vars PROVE HoldBound'
<1>1. CASE UNCHANGED hold
  BY <1>1 DEF HoldBound
<1>2. ASSUME NEW c \in Commands,
             mount_cmd_read_label(c) \/ label_cmd(c)
      PROVE  HoldBound'
  <2>1. PICK s \in {"DOING_ACQUIRE", "WRITING_LABEL"}, to \in {"read_label", "label"} :
          Steal(c, s, to) /\ pc[c] \in {"start", "label_wait"}
    BY <1>2 DEF mount_cmd_read_label, label_cmd, Idle, At
  <2>2. /\ hold'[c].waiting = dev'.waiting
        /\ \A d \in Commands : d # c => hold'[d] = hold[d]
    BY <2>1, Stolen DEF Is
  <2>3. dev'.waiting \in 0..Cardinality(Threads)
    <3>1. (IInv => dev.waiting \in 0..Cardinality(Threads))'
      BY CountBounds, PTL
    <3>2. QED BY <3>1
  <2>4. QED BY <2>2, <2>3 DEF HoldBound
<1>3. ASSUME NEW c \in Commands, read_label_ends(c) \/ label_ends(c) PROVE HoldBound'
  <2>1. hold' = [hold EXCEPT ![c] = InitialBlock]
    BY <1>3 DEF read_label_ends, label_ends
  <2>2. InitialBlock.waiting \in 0..Cardinality(Threads)
    <3>1. Cardinality(Threads) \in Nat
      <4>1. IsFiniteSet(Threads)
        BY ThreadsAssumption, FS_Union
      <4>2. QED BY <4>1, FS_CardinalityType
    <3>2. QED BY <3>1 DEF InitialBlock
  <2>3. QED BY <2>1, <2>2 DEF HoldBound, IInv, Types
<1>4. ASSUME NEW c \in Commands, CommandActs(c) PROVE HoldBound'
  <2>1. CASE mount_cmd_read_label(c) \/ label_cmd(c) \/ read_label_ends(c) \/ label_ends(c)
    BY <1>2, <1>3, <2>1
  <2>2. CASE \/ mount_cmd_wakes(c) \/ mount_cmd_openFails(c) \/ unmount_cmd_waiting(c)
             \/ unmount_cmd_idle(c) \/ label_sleeps(c) \/ cancel_cmd(c) \/ label_refused(c)
    BY <1>1, <2>2 DEF mount_cmd_wakes, mount_cmd_openFails, unmount_cmd_waiting,
       unmount_cmd_idle, label_sleeps, ObtainSleeps, Sleep, cancel_cmd, label_refused
  <2>3. QED BY <1>4, <2>1, <2>2 DEF CommandActs, CommandBegins, CommandStep
<1>5. ASSUME NEW j \in Jobs, JobActs(j) PROVE UNCHANGED hold
  <2>1. CASE \/ mount_next_write_volume(j) \/ mount_given_up(j)
             \/ acquire_have_vol(j) \/ acquire_sleeps(j) \/ acquire_device_for_append(j)
             \/ reserve_device_for_append(j) \/ fixup_device_block_write_error(j)
    BY <2>1 DEF mount_next_write_volume, mount_given_up, MountEnds, acquire_have_vol,
       acquire_sleeps, acquire_device_for_append, reserve_device_for_append,
       fixup_device_block_write_error
  <2>2. CASE \/ write_sleeps(j) \/ write_block_to_device(j) \/ despool_sleeps(j)
             \/ despool_data(j) \/ despool_committed(j) \/ despool_ends(j)
             \/ do_append_data_ends(j) \/ release_sleeps(j) \/ release_device(j) \/ SleepsOn(j)
    BY <2>2 DEF write_sleeps, rLockSleeps, Sleep, write_block_to_device, despool_sleeps,
       despool_data, despool_committed, despool_ends, do_append_data_ends, release_sleeps,
       ObtainSleeps, release_device, SleepsOn
  <2>3. CASE \/ wait_for_sysop(j) \/ sysop_sleeps(j) \/ sysop_labelling(j) \/ sysop_poll(j)
             \/ sysop_mounted(j) \/ sysop_woken(j) \/ sysop_timeout(j) \/ sysop_heartbeat(j)
    BY <2>3 DEF wait_for_sysop, sysop_sleeps, sysop_labelling, sysop_poll, sysop_mounted,
       sysop_woken, sysop_timeout, sysop_heartbeat, SysopWakes
  <2>4. QED BY <1>5, <2>1, <2>2, <2>3 DEF JobActs, JobStep
<1>6. QED BY <1>1, <1>4, <1>5 DEF Next, JobActs, CommandActs, vars

\* The types of the model, the ranges of the two counters included; the block a
\* failed write found on entry is one the drive can have for its owner (block.c).
THEOREM DevTypes == ASSUME OperatorCareful PROVE Spec => []TypeOK
<1>1. Init => HoldBound
  BY InitInv, CountBounds DEF Init, HoldBound, InitialBlock
<1>2. IInv /\ HoldBound => TypeOK
  <2> SUFFICES ASSUME IInv, HoldBound PROVE TypeOK
    OBVIOUS
  <2>1. dev \in Blocks /\ hold \in [Commands -> Blocks] /\ num_writers \in 0..Cardinality(Jobs)
    BY CountBounds DEF IInv, Types, HoldBound, DevBlocks, Blocks
  <2>2. pc \in [Threads -> {"start", "reserved", "writing", "release", "done"}
                 \cup InRLock \cup InObtain \cup Working \cup InSysop]
    BY DEF IInv, Types, JobSteps, CommandSteps, InRLock, InObtain, Working, InSysop
  <2>3. entry \in [Jobs -> {"acquire", "NOT_BLOCKED", "DESPOOLING"}]
    BY DEF IInv, Guarded, Entries, Types
  <2>4. QED BY <2>1, <2>2, <2>3 DEF IInv, Types, TypeOK
<1>3. QED BY DevInvariant, HoldStep, <1>1, <1>2, PTL DEF Spec

\* Whoever works on the drive without m_mutex has its block, which no command
\* can take unless the operator has unmounted the drive (lock.c, acquire.c:415-434).
THEOREM DevDriveOwned == ASSUME OperatorCareful PROVE Spec => []DriveOwned
<1>1. IInv => DriveOwned
  <2> SUFFICES ASSUME IInv, NEW t \in Threads, pc[t] \in Working
               PROVE  /\ is_blocked(dev) /\ dev.owner = t
                      /\ can_obtain_block(dev) => is_device_unmounted(dev)
    BY DEF DriveOwned
  <2>1. dev.owner = t /\ BlockAt(t)
    BY DEF IInv, Guarded, Ownership
  <2>2. is_blocked(dev)
    BY <2>1, OwnerBlocks, ThreadsAssumption DEF IInv, Guarded
  <2>3. QED BY <2>1, <2>2
               DEF BlockAt, Working, InSysop, can_obtain_block, is_device_unmounted
<1>2. QED BY DevInvariant, <1>1, PTL

\* A block is never left behind, and the job whose block a command took gets it
\* back (lock.c:471-490).
THEOREM DevBlockHasHolder == ASSUME OperatorCareful PROVE Spec => []BlockHasHolder
<1>1. IInv => BlockHasHolder
  <2> SUFFICES ASSUME IInv PROVE BlockHasHolder
    OBVIOUS
  <2> USE DEF IInv, Guarded
  <2>1. ASSUME is_blocked(dev), dev.blocked # "UNMOUNTED"
        PROVE  /\ dev.owner # NoThread
               /\ pc[dev.owner] \in Working \cup InSysop \cup {"release", "release_wait"}
    <3>1. dev.owner # NoThread
      BY <2>1, OwnerBlocks
    <3>2. PICK t \in Threads : t = dev.owner /\ BlockAt(t)
      BY <3>1 DEF Types, DevBlocks, Ownership
    <3>3. QED BY <3>1, <3>2 DEF BlockAt, Working
  <2>2. ASSUME NEW j \in Jobs, pc[j] \in InSysop
        PROVE  \/ dev.owner = j
               \/ \E c \in Commands : pc[c] = "label" /\ hold[c].owner = j
    BY <2>2 DEF Ownership, SysopBlock
  <2>3. QED BY <2>1, <2>2 DEF BlockHasHolder
<1>2. QED BY DevInvariant, <1>1, PTL

\* num_waiting counts the sleepers and num_writers the writers, even with a
\* careless operator (lock.c:247-261, acquire.c:489-520).
THEOREM DevCounters == Spec => []Counts
<1>1. IInv => Counts
  BY DEF IInv
<1>2. QED BY DevInvariant, <1>1, PTL

\* Nobody sleeps on dev->wait for a drive that is free unless a broadcast has
\* woken it (lock.c:412-423, 475-490).
THEOREM DevNoSleeperForgotten == ASSUME OperatorCareful PROVE Spec => []NoSleeperForgotten
<1>1. IInv => NoSleeperForgotten
  BY DEF IInv, Guarded, Counts, Wakeable, Sleepers, NoSleeperForgotten
<1>2. QED BY DevInvariant, <1>1, PTL

\* The assertions of block_device and unblock_device hold (lock.c:399, 416).
THEOREM DevNoAbort == ASSUME OperatorCareful PROVE Spec => []NoAbort
<1>1. IInv => NoAbort
  BY DEF IInv, Guarded, NoAbort
<1>2. QED BY DevInvariant, <1>1, PTL

\* A label command keeps the drive until it gives it back (lock.c:472): what the
\* run devlock_label refutes holds when the operator is careful.
THEOREM DevLabelKeepsBlock == ASSUME OperatorCareful PROVE Spec => []LabelKeepsBlock
<1>1. IInv => LabelKeepsBlock
  <2> SUFFICES ASSUME IInv, NEW c \in Commands, pc[c] = "label"
               PROVE  dev.blocked = "WRITING_LABEL" /\ dev.owner = c
    BY DEF LabelKeepsBlock
  <2>1. dev.owner = c /\ BlockAt(c)
    BY DEF IInv, Guarded, Ownership, Working
  <2>2. QED BY <2>1 DEF BlockAt, InSysop
<1>2. QED BY DevInvariant, <1>1, PTL
=============================================================================
