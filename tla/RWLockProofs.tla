---------------------------- MODULE RWLockProofs ----------------------------
(***************************************************************************)
(* Proofs about RWLock for any finite set of threads and any nesting       *)
(* depth.  Mutual exclusion is not inductive: that a blocked caller really *)
(* is kept out rests on the counters being exact, and that in turn on only *)
(* waiting threads being asleep.  IInv joins these facts.                  *)
(***************************************************************************)
EXTENDS RWLock, FiniteSetTheorems, TLAPS

(* Only threads inside a waiting loop sleep on its condition variable.     *)
SleepersWait == read \subseteq ReadWaiters /\ write \subseteq WriteWaiters

IInv ==
    /\ TypeOK
    /\ MutualExclusion
    /\ OwnerKnown
    /\ CountersExact
    /\ SleepersWait
    /\ NoLostWakeup
    /\ DestroyedUnused

-----------------------------------------------------------------------------
(* The sets the counters count are finite.                                 *)
LEMMA FiniteSetsOfHolds ==
    ASSUME TypeOK
    PROVE  /\ IsFiniteSet(readers)
           /\ IsFiniteSet(ReadWaiters)
           /\ IsFiniteSet(WriteWaiters)
<1>1. IsFiniteSet(1..MaxDepth)
  BY FS_Interval, MaxDepthAssumption
<1>2. IsFiniteSet(Holds)
  BY <1>1, FS_Product, ThreadsAssumption DEF Holds
<1>3. IsFiniteSet(readers)
  BY <1>2, FS_Subset DEF TypeOK
<1>4. ReadWaiters \in SUBSET Threads /\ WriteWaiters \in SUBSET Threads
  BY DEF ReadWaiters, WriteWaiters
<1>5. QED BY <1>3, <1>4, FS_Subset, ThreadsAssumption

(* A counter is zero exactly when nothing is counted.                      *)
LEMMA ZeroCounters ==
    ASSUME TypeOK, CountersExact
    PROVE  /\ r_active = 0 <=> readers = {}
           /\ r_wait = 0 <=> ReadWaiters = {}
           /\ w_wait = 0 <=> WriteWaiters = {}
BY FiniteSetsOfHolds, FS_EmptySet DEF CountersExact

(* A thread that enters or leaves a waiting loop changes the two sets of   *)
(* waiters by itself only.                                                 *)
LEMMA WaitersStep ==
    ASSUME TypeOK, NEW t \in Threads, NEW p \in {"run", "rwait", "wwait"},
           pc' = [pc EXCEPT ![t] = p]
    PROVE  /\ pc[t] = "run" /\ p = "rwait" =>
                 /\ ReadWaiters' = ReadWaiters \union {t} /\ WriteWaiters' = WriteWaiters
                 /\ Cardinality(ReadWaiters') = Cardinality(ReadWaiters) + 1
           /\ pc[t] = "run" /\ p = "wwait" =>
                 /\ WriteWaiters' = WriteWaiters \union {t} /\ ReadWaiters' = ReadWaiters
                 /\ Cardinality(WriteWaiters') = Cardinality(WriteWaiters) + 1
           /\ pc[t] = "rwait" /\ p = "run" =>
                 /\ ReadWaiters' = ReadWaiters \ {t} /\ WriteWaiters' = WriteWaiters
                 /\ Cardinality(ReadWaiters') = Cardinality(ReadWaiters) - 1
           /\ pc[t] = "wwait" /\ p = "run" =>
                 /\ WriteWaiters' = WriteWaiters \ {t} /\ ReadWaiters' = ReadWaiters
                 /\ Cardinality(WriteWaiters') = Cardinality(WriteWaiters) - 1
<1>0. /\ pc \in [Threads -> {"run", "rwait", "wwait"}]
      /\ "run" # "rwait" /\ "run" # "wwait" /\ "rwait" # "wwait"
  BY DEF TypeOK
<1>1. IsFiniteSet(ReadWaiters) /\ IsFiniteSet(WriteWaiters)
  BY FiniteSetsOfHolds
<1>2. CASE pc[t] = "run" /\ p = "rwait"
  <2>1. ReadWaiters' = ReadWaiters \union {t} /\ WriteWaiters' = WriteWaiters /\ t \notin ReadWaiters
    BY <1>0, <1>2 DEF ReadWaiters, WriteWaiters
  <2>2. QED BY <1>0, <1>1, <1>2, <2>1, FS_AddElement
<1>3. CASE pc[t] = "run" /\ p = "wwait"
  <2>1. WriteWaiters' = WriteWaiters \union {t} /\ ReadWaiters' = ReadWaiters /\ t \notin WriteWaiters
    BY <1>0, <1>3 DEF ReadWaiters, WriteWaiters
  <2>2. QED BY <1>0, <1>1, <1>3, <2>1, FS_AddElement
<1>4. CASE pc[t] = "rwait" /\ p = "run"
  <2>1. ReadWaiters' = ReadWaiters \ {t} /\ WriteWaiters' = WriteWaiters /\ t \in ReadWaiters
    BY <1>0, <1>4 DEF ReadWaiters, WriteWaiters
  <2>2. QED BY <1>0, <1>1, <1>4, <2>1, FS_RemoveElement
<1>5. CASE pc[t] = "wwait" /\ p = "run"
  <2>1. WriteWaiters' = WriteWaiters \ {t} /\ ReadWaiters' = ReadWaiters /\ t \in WriteWaiters
    BY <1>0, <1>5 DEF ReadWaiters, WriteWaiters
  <2>2. QED BY <1>0, <1>1, <1>5, <2>1, FS_RemoveElement
<1>6. QED BY <1>2, <1>3, <1>4, <1>5

(* GrantRead and the release of a read hold move r_active with readers.    *)
LEMMA GrantReadStep ==
    ASSUME TypeOK, CountersExact, NEW t \in Threads, GrantRead(t)
    PROVE  /\ r_active' = Cardinality(readers') /\ r_active' \in Nat
           /\ r_active' > 0
           /\ readers' \subseteq Holds
<1>1. PICK k \in 1..MaxDepth : <<t, k>> \notin readers /\ readers' = readers \union {<<t, k>>}
  BY DEF GrantRead
<1>2. Cardinality(readers') = Cardinality(readers) + 1
  BY <1>1, FiniteSetsOfHolds, FS_AddElement
<1>3. QED BY <1>1, <1>2 DEF GrantRead, TypeOK, CountersExact, Holds

LEMMA ReadReleaseStep ==
    ASSUME TypeOK, CountersExact, NEW t \in Threads, rwl_readunlock(t)
    PROVE  /\ r_active' = Cardinality(readers') /\ r_active' \in Nat
           /\ readers # {} /\ readers' \subseteq readers
<1>1. PICK k \in 1..MaxDepth : <<t, k>> \in readers /\ readers' = readers \ {<<t, k>>}
  BY DEF rwl_readunlock
<1>2. Cardinality(readers') = Cardinality(readers) - 1
  BY <1>1, FiniteSetsOfHolds, FS_RemoveElement
<1>3. Cardinality(readers') \in Nat
  BY <1>1, FiniteSetsOfHolds, FS_RemoveElement, FS_CardinalityType
<1>4. QED BY <1>1, <1>2, <1>3 DEF rwl_readunlock, TypeOK, CountersExact
-----------------------------------------------------------------------------
(* Every state reached satisfies IInv: the initial state first.            *)
LEMMA InitIInv == Init => IInv
<1> SUFFICES ASSUME Init PROVE IInv
  OBVIOUS
<1>1. TypeOK
  BY MaxDepthAssumption DEF Init, TypeOK, Holds
<1>2. ReadWaiters = {} /\ WriteWaiters = {}
  BY DEF Init, ReadWaiters, WriteWaiters
<1>3. CountersExact
  BY <1>2, FS_EmptySet DEF Init, CountersExact
<1>4. QED
  BY <1>1, <1>2, <1>3
     DEF Init, IInv, MutualExclusion, OwnerKnown, SleepersWait, NoLostWakeup, DestroyedUnused

(* The read side of the lock preserves IInv.                               *)
LEMMA ReadersPreserve ==
    ASSUME IInv, NEW t \in Threads,
           rwl_readlock(t) \/ rwl_readtrylock(t) \/ rwl_readunlock(t) \/ rwl_readlock_woken(t)
    PROVE  IInv'
<1> USE DEF IInv
<1>1. CASE rwl_readlock(t) /\ ~ReadBlocked
  <2>1. GrantRead(t) /\ w_active = 0
    BY <1>1 DEF rwl_readlock, ReadBlocked, TypeOK
  <2>2. UNCHANGED <<valid, w_active, w_wait, writer_id, write, wdepth, r_wait, read, pc>>
    BY <1>1 DEF rwl_readlock
  <2>3. ReadWaiters' = ReadWaiters /\ WriteWaiters' = WriteWaiters
    BY <2>2 DEF ReadWaiters, WriteWaiters
  <2>4. valid
    BY <1>1 DEF rwl_readlock, Calls
  <2>5. QED
    BY <2>1, <2>2, <2>3, <2>4, GrantReadStep
       DEF TypeOK, MutualExclusion, OwnerKnown, CountersExact, SleepersWait, NoLostWakeup, DestroyedUnused
<1>2. CASE rwl_readlock(t) /\ ReadBlocked
  <2>1. /\ pc[t] = "run" /\ pc' = [pc EXCEPT ![t] = "rwait"] /\ valid
        /\ w_active > 0 /\ r_wait' = r_wait + 1 /\ read' = read \union {t}
        /\ UNCHANGED <<valid, w_active, w_wait, writer_id, write, wdepth, r_active, readers>>
    BY <1>2 DEF rwl_readlock, ReadBlocked, Calls
  <2>2. /\ ReadWaiters' = ReadWaiters \union {t} /\ WriteWaiters' = WriteWaiters
        /\ Cardinality(ReadWaiters') = Cardinality(ReadWaiters) + 1
    BY <2>1, WaitersStep
  <2>3. QED
    BY <2>1, <2>2
       DEF TypeOK, MutualExclusion, OwnerKnown, CountersExact, SleepersWait, NoLostWakeup, DestroyedUnused
<1>3. CASE rwl_readtrylock(t)
  <2>1. GrantRead(t) /\ w_active = 0 /\ valid
    BY <1>3 DEF rwl_readtrylock, ReadBlocked, Calls, TypeOK
  <2>2. UNCHANGED <<valid, w_active, w_wait, writer_id, write, wdepth, r_wait, read, pc>>
    BY <1>3 DEF rwl_readtrylock
  <2>3. ReadWaiters' = ReadWaiters /\ WriteWaiters' = WriteWaiters
    BY <2>2 DEF ReadWaiters, WriteWaiters
  <2>4. QED
    BY <2>1, <2>2, <2>3, GrantReadStep
       DEF TypeOK, MutualExclusion, OwnerKnown, CountersExact, SleepersWait, NoLostWakeup, DestroyedUnused
<1>4. CASE rwl_readunlock(t)
  <2>1. /\ valid /\ UNCHANGED <<valid, w_active, r_wait, w_wait, writer_id, read, pc, wdepth>>
        /\ write' = IF r_active' = 0 /\ w_wait > 0 THEN {} ELSE write
    BY <1>4 DEF rwl_readunlock, Calls, ReadUnlockWakesWriters
  <2>2. ReadWaiters' = ReadWaiters /\ WriteWaiters' = WriteWaiters
    BY <2>1 DEF ReadWaiters, WriteWaiters
  <2>3. /\ r_active' = Cardinality(readers') /\ r_active' \in Nat
        /\ readers # {} /\ readers' \subseteq readers
    BY <1>4, ReadReleaseStep
  <2>4. write # {} => w_wait # 0
    BY ZeroCounters DEF SleepersWait
  <2>5. NoLostWakeup'
    BY <2>1, <2>2, <2>3, <2>4 DEF NoLostWakeup, TypeOK
  <2>6. QED
    BY <2>1, <2>2, <2>3, <2>5
       DEF TypeOK, MutualExclusion, OwnerKnown, CountersExact, SleepersWait, DestroyedUnused
<1>5. CASE rwl_readlock_woken(t) /\ ReadBlocked
  <2>1. /\ pc[t] = "rwait" /\ w_active > 0 /\ read' = read \union {t}
        /\ UNCHANGED <<valid, w_active, w_wait, writer_id, write, wdepth, r_wait, r_active, readers, pc>>
    BY <1>5 DEF rwl_readlock_woken, ReadBlocked
  <2>2. ReadWaiters' = ReadWaiters /\ WriteWaiters' = WriteWaiters /\ t \in ReadWaiters
    BY <2>1 DEF ReadWaiters, WriteWaiters
  <2>3. QED
    BY <2>1, <2>2
       DEF TypeOK, MutualExclusion, OwnerKnown, CountersExact, SleepersWait, NoLostWakeup, DestroyedUnused
<1>6. CASE rwl_readlock_woken(t) /\ ~ReadBlocked
  <2>1. /\ pc[t] = "rwait" /\ t \notin read /\ w_active = 0 /\ r_wait' = r_wait - 1
        /\ GrantRead(t) /\ pc' = [pc EXCEPT ![t] = "run"]
        /\ UNCHANGED <<valid, w_active, w_wait, writer_id, write, wdepth, read>>
    BY <1>6 DEF rwl_readlock_woken, ReadBlocked, EndWait, TypeOK
  <2>2. /\ ReadWaiters' = ReadWaiters \ {t} /\ WriteWaiters' = WriteWaiters
        /\ Cardinality(ReadWaiters') = Cardinality(ReadWaiters) - 1
    BY <2>1, WaitersStep
  <2>3. r_wait' \in Nat
    <3>1. t \in ReadWaiters
      BY <2>1 DEF ReadWaiters
    <3>2. QED BY <2>1, <3>1, ZeroCounters DEF TypeOK
  <2>4. valid
    BY <2>1 DEF DestroyedUnused
  <2>5. QED
    BY <2>1, <2>2, <2>3, <2>4, GrantReadStep
       DEF TypeOK, MutualExclusion, OwnerKnown, CountersExact, SleepersWait, NoLostWakeup, DestroyedUnused
<1>7. QED BY <1>1, <1>2, <1>3, <1>4, <1>5, <1>6

(* What a grant of the write lock does, from a free lock or nested.        *)
LEMMA GrantWriteStep ==
    ASSUME IInv, NEW t \in Threads,
           (Nested(t) /\ writer_id' = writer_id) \/ (~WriteBlocked /\ writer_id' = t),
           wdepth[t] < MaxDepth,
           w_active' = w_active + 1, wdepth' = [wdepth EXCEPT ![t] = @ + 1],
           readers' = readers, r_active' = r_active
    PROVE  /\ MutualExclusion' /\ OwnerKnown'
           /\ w_active' \in Nat /\ w_active' > 0
           /\ writer_id' \in Threads
           /\ wdepth' \in [Threads -> 0..MaxDepth]
           /\ ~(\A u \in Threads : wdepth'[u] = 0)
<1> USE DEF IInv
<1>1. readers = {}
  BY ZeroCounters DEF Nested, WriteBlocked, TypeOK, CountersExact, OwnerKnown, MutualExclusion
<1>2. \A u \in Threads \ {t} : wdepth[u] = 0
  BY DEF Nested, WriteBlocked, TypeOK, CountersExact, OwnerKnown
<1>3. w_active = wdepth[t]
  BY DEF Nested, WriteBlocked, TypeOK, CountersExact, OwnerKnown
<1>4. wdepth' \in [Threads -> 0..MaxDepth] /\ wdepth'[t] = wdepth[t] + 1
  BY MaxDepthAssumption DEF TypeOK
<1>5. \A u \in Threads \ {t} : wdepth'[u] = 0
  BY <1>2 DEF TypeOK
<1>6. writer_id' = t
  BY DEF Nested
<1>7. QED
  BY <1>1, <1>3, <1>4, <1>5, <1>6 DEF MutualExclusion, OwnerKnown, TypeOK

(* The write side of the lock preserves IInv.                              *)
LEMMA WritersPreserve ==
    ASSUME IInv, NEW t \in Threads,
           rwl_writelock_p(t) \/ rwl_writetrylock(t) \/ rwl_writeunlock(t) \/ rwl_writelock_woken(t)
    PROVE  IInv'
<1> USE DEF IInv
<1>1. CASE rwl_writelock_p(t) /\ (Nested(t) \/ ~WriteBlocked)
  <2>1. /\ (Nested(t) /\ writer_id' = writer_id) \/ (~WriteBlocked /\ writer_id' = t)
        /\ wdepth[t] < MaxDepth
        /\ w_active' = w_active + 1 /\ wdepth' = [wdepth EXCEPT ![t] = @ + 1]
        /\ UNCHANGED <<valid, r_active, r_wait, w_wait, read, write, pc, readers>> /\ valid
    BY <1>1 DEF rwl_writelock_p, GrantWrite, Calls
  <2>2. ReadWaiters' = ReadWaiters /\ WriteWaiters' = WriteWaiters
    BY <2>1 DEF ReadWaiters, WriteWaiters
  <2>3. /\ MutualExclusion' /\ OwnerKnown'
        /\ w_active' \in Nat /\ w_active' > 0
        /\ writer_id' \in Threads
        /\ wdepth' \in [Threads -> 0..MaxDepth]
        /\ ~(\A u \in Threads : wdepth'[u] = 0)
    BY <2>1, GrantWriteStep
  <2>4. TypeOK'
    BY <2>1, <2>3 DEF TypeOK
  <2>5. CountersExact'
    BY <2>1, <2>2, <2>3 DEF CountersExact
  <2>6. QED
    BY <2>1, <2>2, <2>3, <2>4, <2>5 DEF SleepersWait, NoLostWakeup, DestroyedUnused
<1>2. CASE rwl_writelock_p(t) /\ ~Nested(t) /\ WriteBlocked
  <2>1. /\ pc[t] = "run" /\ pc' = [pc EXCEPT ![t] = "wwait"] /\ valid
        /\ WriteBlocked /\ w_wait' = w_wait + 1 /\ write' = write \union {t}
        /\ UNCHANGED <<valid, w_active, r_wait, writer_id, read, wdepth, r_active, readers>>
    BY <1>2 DEF rwl_writelock_p, Calls
  <2>2. /\ WriteWaiters' = WriteWaiters \union {t} /\ ReadWaiters' = ReadWaiters
        /\ Cardinality(WriteWaiters') = Cardinality(WriteWaiters) + 1
    BY <2>1, WaitersStep
  <2>3. QED
    BY <2>1, <2>2
       DEF TypeOK, MutualExclusion, OwnerKnown, CountersExact, SleepersWait, NoLostWakeup,
           DestroyedUnused, WriteBlocked
<1>3. CASE rwl_writetrylock(t)
  <2>1. /\ (Nested(t) /\ writer_id' = writer_id) \/ (~WriteBlocked /\ writer_id' = t)
        /\ wdepth[t] < MaxDepth
        /\ w_active' = w_active + 1 /\ wdepth' = [wdepth EXCEPT ![t] = @ + 1]
        /\ UNCHANGED <<valid, r_active, r_wait, w_wait, read, write, pc, readers>> /\ valid
    BY <1>3 DEF rwl_writetrylock, Calls, WriteBlocked, TypeOK
  <2>2. ReadWaiters' = ReadWaiters /\ WriteWaiters' = WriteWaiters
    BY <2>1 DEF ReadWaiters, WriteWaiters
  <2>3. /\ MutualExclusion' /\ OwnerKnown'
        /\ w_active' \in Nat /\ w_active' > 0
        /\ writer_id' \in Threads
        /\ wdepth' \in [Threads -> 0..MaxDepth]
        /\ ~(\A u \in Threads : wdepth'[u] = 0)
    BY <2>1, GrantWriteStep
  <2>4. TypeOK'
    BY <2>1, <2>3 DEF TypeOK
  <2>5. CountersExact'
    BY <2>1, <2>2, <2>3 DEF CountersExact
  <2>6. QED
    BY <2>1, <2>2, <2>3, <2>4, <2>5 DEF SleepersWait, NoLostWakeup, DestroyedUnused
<1>4. CASE rwl_writeunlock(t)
  <2>1. /\ wdepth[t] > 0 /\ w_active' = w_active - 1 /\ wdepth' = [wdepth EXCEPT ![t] = @ - 1]
        /\ read' = IF w_active' = 0 /\ r_wait > 0 THEN {} ELSE read
        /\ write' = IF w_active' = 0 /\ r_wait = 0 /\ w_wait > 0 THEN {} ELSE write
        /\ UNCHANGED <<valid, r_active, r_wait, w_wait, writer_id, pc, readers>> /\ valid
    BY <1>4 DEF rwl_writeunlock, Calls, WriteUnlockWakesReaders, WriteUnlockWakesWriters
  <2>2. ReadWaiters' = ReadWaiters /\ WriteWaiters' = WriteWaiters
    BY <2>1 DEF ReadWaiters, WriteWaiters
  <2>3. w_active = wdepth[t] /\ w_active' = wdepth'[t] /\ writer_id = t /\ wdepth'[t] \in 0..MaxDepth
    BY <2>1, MaxDepthAssumption DEF TypeOK, OwnerKnown
  <2>4. readers = {} /\ \A u \in Threads \ {t} : wdepth'[u] = 0
    BY <2>1 DEF TypeOK, MutualExclusion
  <2>5. wdepth' \in [Threads -> 0..MaxDepth]
    BY <2>1, <2>3 DEF TypeOK
  <2>6. MutualExclusion' /\ OwnerKnown'
    BY <2>1, <2>3, <2>4, <2>5 DEF MutualExclusion, OwnerKnown
  <2>7. CountersExact'
    BY <2>1, <2>2, <2>3, <2>4 DEF CountersExact
  <2>8. NoLostWakeup'
    BY <2>1, <2>2, <2>3, ZeroCounters DEF NoLostWakeup, SleepersWait, TypeOK
  <2>9. QED
    BY <2>1, <2>2, <2>3, <2>5, <2>6, <2>7, <2>8 DEF TypeOK, SleepersWait, DestroyedUnused
<1>5. CASE rwl_writelock_woken(t) /\ WriteBlocked
  <2>1. /\ pc[t] = "wwait" /\ WriteBlocked /\ write' = write \union {t}
        /\ UNCHANGED <<valid, w_active, w_wait, writer_id, read, wdepth, r_wait, r_active, readers, pc>>
    BY <1>5 DEF rwl_writelock_woken
  <2>2. ReadWaiters' = ReadWaiters /\ WriteWaiters' = WriteWaiters /\ t \in WriteWaiters
    BY <2>1 DEF ReadWaiters, WriteWaiters
  <2>3. QED
    BY <2>1, <2>2
       DEF TypeOK, MutualExclusion, OwnerKnown, CountersExact, SleepersWait, NoLostWakeup,
           DestroyedUnused, WriteBlocked
<1>6. CASE rwl_writelock_woken(t) /\ ~WriteBlocked
  <2>1. /\ pc[t] = "wwait" /\ t \notin write /\ ~WriteBlocked /\ w_wait' = w_wait - 1
        /\ GrantWrite(t) /\ pc' = [pc EXCEPT ![t] = "run"]
        /\ UNCHANGED <<valid, r_active, r_wait, read, readers, write>>
    BY <1>6 DEF rwl_writelock_woken, EndWait
  <2>2. /\ WriteWaiters' = WriteWaiters \ {t} /\ ReadWaiters' = ReadWaiters
        /\ Cardinality(WriteWaiters') = Cardinality(WriteWaiters) - 1
    BY <2>1, WaitersStep
  <2>3. w_wait' \in Nat
    <3>1. t \in WriteWaiters
      BY <2>1 DEF WriteWaiters
    <3>2. QED BY <2>1, <3>1, ZeroCounters DEF TypeOK
  <2>4. valid
    BY <2>1 DEF DestroyedUnused
  <2>5. wdepth[t] < MaxDepth
    BY <2>1, MaxDepthAssumption DEF WriteBlocked, CountersExact, TypeOK
  <2>6. /\ MutualExclusion' /\ OwnerKnown'
        /\ w_active' \in Nat /\ w_active' > 0
        /\ writer_id' \in Threads
        /\ wdepth' \in [Threads -> 0..MaxDepth]
        /\ ~(\A u \in Threads : wdepth'[u] = 0)
    BY <2>1, <2>5, GrantWriteStep DEF GrantWrite
  <2>7. TypeOK'
    BY <2>1, <2>3, <2>6 DEF TypeOK
  <2>8. CountersExact'
    BY <2>1, <2>2, <2>6 DEF CountersExact
  <2>9. SleepersWait' /\ NoLostWakeup' /\ DestroyedUnused'
    BY <2>1, <2>2, <2>4, <2>6 DEF SleepersWait, NoLostWakeup, DestroyedUnused
  <2>10. QED BY <2>6, <2>7, <2>8, <2>9
<1>7. QED
  BY <1>1, <1>2, <1>3, <1>4, <1>5, <1>6

(* Destroying, re-initialising and spurious wake-ups preserve IInv.        *)
LEMMA OthersPreserve ==
    ASSUME IInv,
           rwl_destroy \/ rwl_init \/ (\E t \in Threads : SpuriousWakeup(t)) \/ UNCHANGED vars
    PROVE  IInv'
<1> USE DEF IInv
<1>1. CASE rwl_destroy
  <2>1. /\ r_active = 0 /\ w_active = 0 /\ r_wait = 0 /\ w_wait = 0 /\ valid' = FALSE
        /\ UNCHANGED <<r_active, w_active, r_wait, w_wait, writer_id, read, write, pc, readers, wdepth>>
    BY <1>1 DEF rwl_destroy, Unused, lockVars
  <2>2. ReadWaiters' = ReadWaiters /\ WriteWaiters' = WriteWaiters
    BY <2>1 DEF ReadWaiters, WriteWaiters
  <2>3. readers = {} /\ ReadWaiters = {} /\ WriteWaiters = {}
    BY <2>1, ZeroCounters
  <2>4. \A t \in Threads : pc[t] = "run"
    BY <2>3 DEF TypeOK, ReadWaiters, WriteWaiters
  <2>5. DestroyedUnused'
    BY <2>1, <2>3, <2>4 DEF DestroyedUnused, CountersExact
  <2>6. QED
    BY <2>1, <2>2, <2>5 DEF TypeOK, MutualExclusion, OwnerKnown, CountersExact, SleepersWait, NoLostWakeup
<1>2. CASE rwl_init
  <2>1. readers = {} /\ ReadWaiters = {} /\ WriteWaiters = {} /\ \A t \in Threads : wdepth[t] = 0
    BY <1>2 DEF rwl_init, DestroyedUnused, ReadWaiters, WriteWaiters
  <2>2. ReadWaiters' = {} /\ WriteWaiters' = {} /\ readers' = {}
    BY <1>2, <2>1 DEF rwl_init, ReadWaiters, WriteWaiters
  <2>3. CountersExact'
    BY <1>2, <2>1, <2>2, FS_EmptySet DEF rwl_init, CountersExact
  <2>4. QED
    BY <1>2, <2>1, <2>2, <2>3
       DEF rwl_init, TypeOK, MutualExclusion, OwnerKnown, SleepersWait, NoLostWakeup, DestroyedUnused
<1>3. CASE \E t \in Threads : SpuriousWakeup(t)
  <2>1. PICK t \in Threads :
           /\ read' = read \ {t} /\ write' = write \ {t}
           /\ UNCHANGED <<valid, r_active, w_active, r_wait, w_wait, writer_id, pc, readers, wdepth>>
    BY <1>3 DEF SpuriousWakeup, lockVars
  <2>2. ReadWaiters' = ReadWaiters /\ WriteWaiters' = WriteWaiters
    BY <2>1 DEF ReadWaiters, WriteWaiters
  <2>3. QED
    BY <2>1, <2>2
       DEF TypeOK, MutualExclusion, OwnerKnown, CountersExact, SleepersWait, NoLostWakeup, DestroyedUnused
<1>4. CASE UNCHANGED vars
  BY <1>4 DEF vars, lockVars, TypeOK, MutualExclusion, OwnerKnown, CountersExact, SleepersWait,
              NoLostWakeup, DestroyedUnused, ReadWaiters, WriteWaiters
<1>5. QED BY <1>1, <1>2, <1>3, <1>4

LEMMA NextIInv == IInv /\ [Next]_vars => IInv'
<1> SUFFICES ASSUME IInv, [Next]_vars PROVE IInv'
  OBVIOUS
<1>1. ASSUME NEW t \in Threads,
             rwl_readlock(t) \/ rwl_readtrylock(t) \/ rwl_readunlock(t) \/ rwl_readlock_woken(t)
      PROVE  IInv'
  BY <1>1, ReadersPreserve
<1>2. ASSUME NEW t \in Threads,
             rwl_writelock_p(t) \/ rwl_writetrylock(t) \/ rwl_writeunlock(t) \/ rwl_writelock_woken(t)
      PROVE  IInv'
  BY <1>2, WritersPreserve
<1>3. ASSUME rwl_destroy \/ rwl_init \/ (\E t \in Threads : SpuriousWakeup(t)) \/ UNCHANGED vars
      PROVE  IInv'
  BY <1>3, OthersPreserve
<1>4. QED BY <1>1, <1>2, <1>3 DEF Next, Release, Woken

(* IInv holds in every state of the lock.                                  *)
THEOREM LockInvariant == Spec => []IInv
BY InitIInv, NextIInv, PTL DEF Spec

(* The state always has the types declared.                                *)
THEOREM LockTypes == Spec => []TypeOK
<1>1. IInv => TypeOK
  BY DEF IInv
<1>2. QED BY <1>1, LockInvariant, PTL

(* A writer excludes every other holder, for any number of threads.        *)
THEOREM LockExclusion == Spec => []MutualExclusion
<1>1. IInv => MutualExclusion
  BY DEF IInv
<1>2. QED BY <1>1, LockInvariant, PTL

(* rwl_writeunlock by the holder never reaches one of its aborts.          *)
THEOREM LockOwner == Spec => []OwnerKnown
<1>1. IInv => OwnerKnown
  BY DEF IInv
<1>2. QED BY <1>1, LockInvariant, PTL

(* The counters are exact: the broadcasts they steer reach every waiter.   *)
THEOREM LockCounters == Spec => []CountersExact
<1>1. IInv => CountersExact
  BY DEF IInv
<1>2. QED BY <1>1, LockInvariant, PTL

(* No sleeping thread is left with nobody who will wake it.                *)
THEOREM LockWakeups == Spec => []NoLostWakeup
<1>1. IInv => NoLostWakeup
  BY DEF IInv
<1>2. QED BY <1>1, LockInvariant, PTL
-----------------------------------------------------------------------------
(* The owner recorded by the lock is the thread that holds it.             *)
LEMMA OwnerDepthIsHeld == IInv => OwnerDepth = wdepth
<1> SUFFICES ASSUME IInv PROVE OwnerDepth = wdepth
  OBVIOUS
<1>1. wdepth \in [Threads -> 0..MaxDepth]
  BY DEF IInv, TypeOK
<1>2. ASSUME NEW t \in Threads PROVE (IF Nested(t) THEN w_active ELSE 0) = wdepth[t]
  <2>1. CASE wdepth[t] > 0
    BY <2>1, <1>1, MaxDepthAssumption DEF IInv, OwnerKnown, Nested
  <2>2. CASE wdepth[t] = 0 /\ w_active = 0
    BY <2>2 DEF Nested
  <2>3. CASE wdepth[t] = 0 /\ w_active # 0
    <3>1. PICK u \in Threads : wdepth[u] # 0
      BY <2>3 DEF IInv, CountersExact
    <3>2. writer_id = u
      BY <3>1, <1>1, MaxDepthAssumption DEF IInv, OwnerKnown
    <3>3. QED BY <2>3, <3>1, <3>2 DEF Nested
  <2>4. QED BY <1>1, <2>1, <2>2, <2>3, MaxDepthAssumption
<1>3. QED BY <1>1, <1>2 DEF OwnerDepth

(* Every step of the lock is a step of the atomic lock or is invisible.    *)
LEMMA StepSimulation ==
    ASSUME IInv, IInv', [Next]_vars
    PROVE  [Holders!Next]_(Holders!holdVars)
<1> DEFINE Visible == readers' # readers \/ wdepth' # wdepth
<1>1. OwnerDepth = wdepth /\ OwnerDepth' = wdepth'
  <2>1. OwnerDepth = wdepth
    BY OwnerDepthIsHeld
  <2>2. (IInv => OwnerDepth = wdepth)'
    BY OwnerDepthIsHeld, PTL
  <2>3. QED BY <2>1, <2>2
<1>2. ASSUME ~Visible PROVE UNCHANGED Holders!holdVars
  BY <1>1, <1>2 DEF Holders!holdVars
<1>3. ASSUME NEW t \in Threads, GrantRead(t), w_active = 0, UNCHANGED wdepth
      PROVE  Holders!Next
  <2>1. PICK k \in 1..MaxDepth : <<t, k>> \notin readers /\ readers' = readers \union {<<t, k>>}
    BY <1>3 DEF GrantRead
  <2>2. \A u \in Threads : wdepth[u] = 0
    BY <1>3 DEF IInv, CountersExact
  <2>3. Holders!AcquireRead(<<t, k>>)
    BY <1>1, <1>3, <2>1, <2>2 DEF Holders!AcquireRead
  <2>4. QED BY <2>3 DEF Holders!Next
<1>4. ASSUME NEW t \in Threads, rwl_readunlock(t) PROVE Holders!Next
  <2>1. PICK k \in 1..MaxDepth : <<t, k>> \in readers /\ readers' = readers \ {<<t, k>>}
    BY <1>4 DEF rwl_readunlock
  <2>2. Holders!ReleaseRead(<<t, k>>)
    BY <1>1, <1>4, <2>1 DEF Holders!ReleaseRead, rwl_readunlock
  <2>3. QED BY <2>2 DEF Holders!Next
<1>5. ASSUME NEW t \in Threads, wdepth' = [wdepth EXCEPT ![t] = @ + 1], UNCHANGED readers
      PROVE  Holders!Next
  <2>1. wdepth'[t] > 0
    BY <1>5, MaxDepthAssumption DEF IInv, TypeOK
  <2>2. readers' = {} /\ \A u \in Threads \ {t} : wdepth'[u] = 0
    BY <2>1 DEF IInv, MutualExclusion
  <2>3. \A u \in Threads \ {t} : wdepth[u] = 0
    BY <1>5, <2>2 DEF IInv, TypeOK
  <2>4. Holders!AcquireWrite(t)
    BY <1>1, <1>5, <2>2, <2>3 DEF Holders!AcquireWrite
  <2>5. QED BY <2>4 DEF Holders!Next
<1>6. ASSUME NEW t \in Threads, rwl_writeunlock(t) PROVE Holders!Next
  <2>1. Holders!ReleaseWrite(t)
    BY <1>1, <1>6 DEF Holders!ReleaseWrite, rwl_writeunlock
  <2>2. QED BY <2>1 DEF Holders!Next
<1>7. ASSUME NEW t \in Threads,
             rwl_readlock(t) \/ rwl_readtrylock(t) \/ rwl_readlock_woken(t), Visible
      PROVE  GrantRead(t) /\ w_active = 0 /\ UNCHANGED wdepth
  BY <1>7 DEF rwl_readlock, rwl_readtrylock, rwl_readlock_woken, ReadBlocked, IInv, TypeOK
<1>8. ASSUME NEW t \in Threads,
             rwl_writelock_p(t) \/ rwl_writetrylock(t) \/ rwl_writelock_woken(t), Visible
      PROVE  wdepth' = [wdepth EXCEPT ![t] = @ + 1] /\ UNCHANGED readers
  BY <1>8 DEF rwl_writelock_p, rwl_writetrylock, rwl_writelock_woken, GrantWrite
<1>9. ASSUME rwl_destroy \/ rwl_init \/ (\E t \in Threads : SpuriousWakeup(t)) \/ UNCHANGED vars
      PROVE  ~Visible
  BY <1>9 DEF rwl_destroy, rwl_init, SpuriousWakeup, vars
<1>10. CASE Visible
  BY <1>3, <1>4, <1>5, <1>6, <1>7, <1>8, <1>9, <1>10 DEF Next, Release, Woken
<1>11. QED BY <1>2, <1>10

(* The lock with its counters, condition variables and wake-ups implements *)
(* the atomic lock RWLockHolds.                                            *)
THEOREM LockImplementsHolds == Spec => ImplementsHolds
<1>1. Init => Holders!Init
  <2> SUFFICES ASSUME Init PROVE Holders!Init
    OBVIOUS
  <2>1. OwnerDepth = wdepth
    BY InitIInv, OwnerDepthIsHeld
  <2>2. QED BY <2>1 DEF Init, Holders!Init
<1>2. IInv /\ IInv' /\ [Next]_vars => [Holders!Next]_(Holders!holdVars)
  BY StepSimulation
<1>3. QED
  BY <1>1, <1>2, LockInvariant, PTL DEF Spec, ImplementsHolds, Holders!Spec
=============================================================================
