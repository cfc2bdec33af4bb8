------------------------------- MODULE RWLock -------------------------------
(***************************************************************************)
(* The read/write lock of lib/rwlock.c.  Every critical section of the     *)
(* lock's own mutex is one atomic action; pthread_cond_wait releases that  *)
(* mutex, so a blocking call is two actions: the call that goes to sleep   *)
(* and the re-test of the while loop after a wake-up.                      *)
(*                                                                         *)
(* The condition variables `read' and `write' are the sets of threads      *)
(* asleep on them.  A thread whose pc is "rwait" or "wwait" but which is   *)
(* not in that set has been woken and has not yet got the mutex back.      *)
(***************************************************************************)
EXTENDS Integers, FiniteSets

CONSTANTS Threads,      \* the threads that use the lock
          NoThread,     \* writer_id before the first writer
          MaxDepth      \* bound: nested holds of one thread

ASSUME ThreadsAssumption == IsFiniteSet(Threads) /\ NoThread \notin Threads
ASSUME MaxDepthAssumption == MaxDepth \in Nat \ {0}

VARIABLES
    valid,              \* rwl->valid = RWLOCK_VALID
    r_active, w_active, \* active readers; nesting depth of the active writer
    r_wait, w_wait,     \* threads inside the two waiting loops
    writer_id,          \* last thread that got the lock for writing
    read, write,        \* threads asleep on the two condition variables
    pc,                 \* where each thread is: running, or in a waiting loop
    readers,            \* the read holds granted: pairs <<thread, level>>
    wdepth              \* the write holds granted to each thread

lockVars == <<r_active, w_active, r_wait, w_wait, writer_id>>
vars == <<valid, lockVars, read, write, pc, readers, wdepth>>

Holds == Threads \X (1..MaxDepth)

ReadsHeld(t) == {h \in readers : h[1] = t}

ReadWaiters == {t \in Threads : pc[t] = "rwait"}
WriteWaiters == {t \in Threads : pc[t] = "wwait"}

Init ==
    /\ valid = TRUE
    /\ r_active = 0 /\ w_active = 0 /\ r_wait = 0 /\ w_wait = 0
    /\ writer_id = NoThread
    /\ read = {} /\ write = {}
    /\ pc = [t \in Threads |-> "run"]
    /\ readers = {}
    /\ wdepth = [t \in Threads |-> 0]

-----------------------------------------------------------------------------
(* Grants: what the calls record when they return 0. *)

GrantRead(t) ==
    /\ r_active' = r_active + 1
    /\ \E k \in 1..MaxDepth :
          /\ <<t, k>> \notin readers
          /\ \A j \in 1..(k-1) : <<t, j>> \in readers
          /\ readers' = readers \union {<<t, k>>}

GrantWrite(t) ==
    /\ w_active' = w_active + 1
    /\ writer_id' = t
    /\ wdepth' = [wdepth EXCEPT ![t] = @ + 1]

-----------------------------------------------------------------------------
(* The conditions the calls test, each with the slip a mutant makes.       *)

ReadBlocked_oneLevel == w_active = 1
ReadBlocked == w_active > 0

WriteBlocked_ignoresReaders == w_active > 0
WriteBlocked == w_active > 0 \/ r_active > 0

Nested_anyThread(t) == w_active > 0
Nested(t) == w_active > 0 /\ writer_id = t

(* r_wait-- and w_wait-- after the waiting loop; the cleanup handlers,     *)
(* popped with 0, do not run as well.                                      *)
EndWait_forgotten(n) == n
EndWait(n) == n - 1

(* Whom an unlock wakes, given the counters it leaves.                     *)
ReadUnlockWakesWriters_offByOne(active) == active = 0 /\ w_wait > 1
ReadUnlockWakesWriters(active) == active = 0 /\ w_wait > 0

WriteUnlockWakesReaders(active) == active = 0 /\ r_wait > 0

WriteUnlockWakesWriters_offByOne(active) == active = 0 /\ r_wait = 0 /\ w_wait > 1
WriteUnlockWakesWriters(active) == active = 0 /\ r_wait = 0 /\ w_wait > 0

Unused == r_active = 0 /\ w_active = 0 /\ r_wait = 0 /\ w_wait = 0

(* Callers use the lock from outside a waiting loop, and never wait for a  *)
(* hold of their own: the lock would not detect it.                        *)
Calls(t) == valid /\ pc[t] = "run"

-----------------------------------------------------------------------------
rwl_readlock(t) ==
    /\ Calls(t) /\ wdepth[t] = 0
    /\ \/ /\ ~ReadBlocked
          /\ GrantRead(t)
          /\ UNCHANGED <<r_wait, read, pc>>
       \/ /\ ReadBlocked
          /\ r_wait' = r_wait + 1
          /\ read' = read \union {t}
          /\ pc' = [pc EXCEPT ![t] = "rwait"]
          /\ UNCHANGED <<r_active, readers>>
    /\ UNCHANGED <<valid, w_active, w_wait, writer_id, write, wdepth>>

(* The while loop of rwl_readlock after pthread_cond_wait returned. *)
rwl_readlock_woken(t) ==
    /\ pc[t] = "rwait" /\ t \notin read
    /\ \/ /\ ReadBlocked
          /\ read' = read \union {t}
          /\ UNCHANGED <<r_wait, r_active, readers, pc>>
       \/ /\ ~ReadBlocked
          /\ r_wait' = EndWait(r_wait)
          /\ GrantRead(t)
          /\ pc' = [pc EXCEPT ![t] = "run"]
          /\ UNCHANGED read
    /\ UNCHANGED <<valid, w_active, w_wait, writer_id, write, wdepth>>

(* EBUSY leaves everything as it is, so only the success is a step. *)
rwl_readtrylock(t) ==
    /\ Calls(t) /\ ~ReadBlocked
    /\ GrantRead(t)
    /\ UNCHANGED <<valid, w_active, r_wait, w_wait, writer_id, read, write, pc, wdepth>>

rwl_readunlock(t) ==
    /\ Calls(t)
    /\ \E k \in 1..MaxDepth :
          /\ <<t, k>> \in readers
          /\ \A j \in (k+1)..MaxDepth : <<t, j>> \notin readers
          /\ readers' = readers \ {<<t, k>>}
    /\ r_active' = r_active - 1
    /\ write' = IF ReadUnlockWakesWriters(r_active') THEN {} ELSE write
    /\ UNCHANGED <<valid, w_active, r_wait, w_wait, writer_id, read, pc, wdepth>>

rwl_writelock_p(t) ==
    /\ Calls(t) /\ ReadsHeld(t) = {}
    /\ wdepth[t] < MaxDepth
    /\ \/ /\ Nested(t)
          /\ w_active' = w_active + 1
          /\ wdepth' = [wdepth EXCEPT ![t] = @ + 1]
          /\ UNCHANGED <<writer_id, w_wait, write, pc>>
       \/ /\ ~Nested(t) /\ ~WriteBlocked
          /\ GrantWrite(t)
          /\ UNCHANGED <<w_wait, write, pc>>
       \/ /\ ~Nested(t) /\ WriteBlocked
          /\ w_wait' = w_wait + 1
          /\ write' = write \union {t}
          /\ pc' = [pc EXCEPT ![t] = "wwait"]
          /\ UNCHANGED <<w_active, writer_id, wdepth>>
    /\ UNCHANGED <<valid, r_active, r_wait, read, readers>>

(* The while loop of rwl_writelock_p after pthread_cond_wait returned. *)
rwl_writelock_woken(t) ==
    /\ pc[t] = "wwait" /\ t \notin write
    /\ \/ /\ WriteBlocked
          /\ write' = write \union {t}
          /\ UNCHANGED <<w_wait, w_active, writer_id, wdepth, pc>>
       \/ /\ ~WriteBlocked
          /\ w_wait' = EndWait(w_wait)
          /\ GrantWrite(t)
          /\ pc' = [pc EXCEPT ![t] = "run"]
          /\ UNCHANGED write
    /\ UNCHANGED <<valid, r_active, r_wait, read, readers>>

rwl_writetrylock(t) ==
    /\ Calls(t)
    /\ wdepth[t] < MaxDepth
    /\ \/ /\ Nested(t)
          /\ w_active' = w_active + 1
          /\ wdepth' = [wdepth EXCEPT ![t] = @ + 1]
          /\ UNCHANGED writer_id
       \/ /\ ~Nested(t) /\ ~WriteBlocked
          /\ w_active' = 1
          /\ writer_id' = t
          /\ wdepth' = [wdepth EXCEPT ![t] = @ + 1]
    /\ UNCHANGED <<valid, r_active, r_wait, w_wait, read, write, pc, readers>>

(* The two M_ABORT branches are the negation of OwnerKnown below. *)
rwl_writeunlock(t) ==
    /\ Calls(t)
    /\ wdepth[t] > 0
    /\ w_active' = w_active - 1
    /\ wdepth' = [wdepth EXCEPT ![t] = @ - 1]
    /\ read' = IF WriteUnlockWakesReaders(w_active') THEN {} ELSE read
    /\ write' = IF WriteUnlockWakesWriters(w_active') THEN {} ELSE write
    /\ UNCHANGED <<valid, r_active, r_wait, w_wait, writer_id, pc, readers>>

(* EBUSY (active or waiting threads) leaves the lock as it is. *)
rwl_destroy ==
    /\ valid
    /\ Unused
    /\ valid' = FALSE
    /\ UNCHANGED <<lockVars, read, write, pc, readers, wdepth>>

(* writer_id is not among the fields rwl_init resets. *)
rwl_init ==
    /\ ~valid
    /\ valid' = TRUE
    /\ r_active' = 0 /\ w_active' = 0
    /\ r_wait' = 0 /\ w_wait' = 0
    /\ read' = {} /\ write' = {}
    /\ UNCHANGED <<writer_id, pc, readers, wdepth>>

(* POSIX lets pthread_cond_wait return without a broadcast. *)
SpuriousWakeup(t) ==
    /\ t \in read \union write
    /\ read' = read \ {t}
    /\ write' = write \ {t}
    /\ UNCHANGED <<valid, lockVars, pc, readers, wdepth>>

-----------------------------------------------------------------------------
Release(t) == rwl_readunlock(t) \/ rwl_writeunlock(t)

Woken(t) == rwl_readlock_woken(t) \/ rwl_writelock_woken(t)

Next ==
    \/ \E t \in Threads :
          \/ rwl_readlock(t) \/ rwl_readtrylock(t)
          \/ rwl_writelock_p(t) \/ rwl_writetrylock(t)
          \/ Release(t) \/ Woken(t) \/ SpuriousWakeup(t)
    \/ rwl_destroy \/ rwl_init

(* A woken thread gets the mutex back in the end, and a caller that holds  *)
(* the lock in the end releases every hold it has.                         *)
Fairness == \A t \in Threads : WF_vars(Woken(t)) /\ WF_vars(Release(t))

Spec == Init /\ [][Next]_vars

FairSpec == Spec /\ Fairness

-----------------------------------------------------------------------------
(* Types of the lock: counters are never decremented below zero, and no   *)
(* thread is asleep on a condition it did not wait for.                    *)
TypeOK ==
    /\ valid \in BOOLEAN
    /\ r_active \in Nat /\ w_active \in Nat
    /\ r_wait \in Nat /\ w_wait \in Nat
    /\ writer_id \in Threads \union {NoThread}
    /\ read \subseteq Threads /\ write \subseteq Threads
    /\ pc \in [Threads -> {"run", "rwait", "wwait"}]
    /\ readers \subseteq Holds
    /\ wdepth \in [Threads -> 0..MaxDepth]

(* While a thread has the lock for writing, no other thread has it for     *)
(* reading or writing, whatever nesting, try-locks and wake-ups happened.  *)
MutualExclusion ==
    \A t \in Threads : wdepth[t] > 0 =>
        /\ readers = {}
        /\ \A u \in Threads \ {t} : wdepth[u] = 0

(* rwl_writeunlock by a thread that was granted the write lock never       *)
(* reaches the "called too many times" or "by non-owner" abort, because    *)
(* w_active and writer_id still describe that thread's holds.              *)
OwnerKnown ==
    \A t \in Threads : wdepth[t] > 0 => writer_id = t /\ w_active = wdepth[t]

(* The four counters are exactly the holds granted and the threads inside  *)
(* the waiting loops: the broadcasts they steer are neither missed nor idle.*)
CountersExact ==
    /\ r_active = Cardinality(readers)
    /\ r_wait = Cardinality(ReadWaiters)
    /\ w_wait = Cardinality(WriteWaiters)
    /\ (w_active = 0) <=> (\A t \in Threads : wdepth[t] = 0)

(* No lost wake-up: a sleeping reader has an active writer to wake it; a   *)
(* sleeping writer has an active writer or reader, or a woken reader that  *)
(* rwl_writeunlock chose over the writers and that has still to run.       *)
NoLostWakeup ==
    /\ read # {} => w_active > 0
    /\ write # {} =>
          \/ w_active > 0 \/ r_active > 0
          \/ ReadWaiters \ read # {}

(* rwl_destroy never takes the lock from under a holder or a waiter.       *)
DestroyedUnused ==
    ~valid => /\ readers = {}
              /\ \A t \in Threads : wdepth[t] = 0 /\ pc[t] = "run"

Granted(t) ==
    \/ wdepth'[t] > wdepth[t]
    \/ \E k \in 1..MaxDepth : <<t, k>> \in readers' \ readers

(* A thread that waits for ever can only be overtaken for ever: the lock   *)
(* never sits unused, or held by nobody who releases it, with a waiter.    *)
NoStall ==
    \A t \in Threads :
        (<>[](pc[t] # "run")) => ([]<><<\E u \in Threads : Granted(u)>>_vars)

(* The calls implement a lock that grants and releases holds atomically;   *)
(* who holds it for writing is read off w_active and writer_id alone.      *)
OwnerDepth == [t \in Threads |-> IF Nested(t) THEN w_active ELSE 0]

Holders == INSTANCE RWLockHolds WITH wdepth <- OwnerDepth

ImplementsHolds == Holders!Spec
=============================================================================
