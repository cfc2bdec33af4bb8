--------------------------- MODULE StoreMngrProofs ---------------------------
(***************************************************************************)
(* Proofs about the storage counters for any jobs, storages, groups and    *)
(* limits.  IInv says of every job where its lists stand: what an          *)
(* inc_stores under way has counted and has still to look at, that the     *)
(* unused storages are given back once, and that the lists say what        *)
(* dec_stores must give back.  From that each step moves the counters by   *)
(* what the job takes or gives, and the rest is counting.                  *)
(***************************************************************************)
EXTENDS StoreMngr, CollectionLemmas

Lists == {q \in Seq(Storages) : IsInjective(q)}

Types ==
    /\ pc \in [Jobs -> Stages]
    /\ rlist \in [Jobs -> Lists] /\ wlist \in [Jobs -> Lists] /\ wjcr \in [Jobs -> Lists]
    /\ todo \in [Jobs -> Lists] /\ got \in [Jobs -> Lists]
    /\ rstore \in [Jobs -> Storages \union {NoStore}]
    /\ wstore \in [Jobs -> Storages \union {NoStore}]
    /\ unused \in [Jobs -> BOOLEAN] /\ tested \in [Jobs -> BOOLEAN]
    /\ num \in [Storages -> Int] /\ numread \in [Storages -> Int]

(* jq->mutex is held by one job's worker at a time.                        *)
OneAcquires == \A i, j \in Jobs : pc[i] \in Acquiring /\ pc[j] \in Acquiring => i = j

(* The inc_stores call of a job: no storage is looked at twice, none that  *)
(* is not in the list.                                                     *)
Looked(j, list) ==
    /\ Range(got[j]) \intersect Range(todo[j]) = {}
    /\ Range(got[j]) \union Range(todo[j]) \subseteq Range(list)

IncUnderWay(j) ==
    /\ pc[j] \in {"incread", "switch"} => Looked(j, rlist[j])
    /\ pc[j] = "incwrite" => Looked(j, wlist[j])
    /\ tested[j] => pc[j] \in {"incread", "switch"} /\ todo[j] # <<>>
    /\ pc[j] = "switch" => \E s \in Storages : Range(rlist[j]) = {s}

(* The lists of a job against where it is.                                 *)
ListsKept(j) ==
    /\ rstore[j] = NoStore <=> rlist[j] = <<>>
    /\ unused[j] => pc[j] = "work" /\ Kind[j] = "backup" /\ wstore[j] \in Range(wlist[j])
    /\ pc[j] = "pick" => Kind[j] = "backup"
    /\ pc[j] = "switch" => Kind[j] = "restore"
    /\ rlist[j] = <<>> /\ RGroup[j] # <<>> => Kind[j] = "restore" /\ pc[j] \in {"end", "gone"}
    /\ WGroup[j] # <<>> /\ Silent = {} =>
          IF Kind[j] = "copy" /\ pc[j] = "work" THEN wjcr[j] # <<>> ELSE wlist[j] # <<>>
    /\ Kind[j] = "copy" => Range(rlist[j]) \subseteq Range(RGroup[j])

JobsKept == \A j \in Jobs : IncUnderWay(j) /\ ListsKept(j)

(* The two ways a job loses a storage it was counted on: the FreeSpace     *)
(* policy drops one that does not answer (store_mngr.c:341), and do_mac    *)
(* keeps one of several read storages (mac.c:495).                         *)
NothingDropped ==
    /\ Silent = {}
    /\ \A j \in Jobs : Kind[j] = "copy" => \A s, t \in Range(RGroup[j]) : s = t

(* The counters cover the holders, and count no more if nothing is dropped.*)
Counted ==
    \A s \in Storages :
        /\ num[s] >= Cardinality(Readers(s)) + Cardinality(Writers(s))
        /\ numread[s] >= Cardinality(Readers(s))
        /\ NothingDropped => /\ num[s] = Cardinality(Readers(s)) + Cardinality(Writers(s))
                             /\ numread[s] = Cardinality(Readers(s))

(* The queue's job that has found room on s and has still to take it.      *)
Tested(s) == {j \in Jobs : tested[j] /\ pc[j] = "incread" /\ Head(todo[j]) = s}

Limited ==
    \A s \in Storages :
        num[s] + Cardinality(Tested(s)) <= MaxConcurrentJobs[s] + Cardinality(Switchers(s))

IInv == Types /\ OneAcquires /\ JobsKept /\ Counted /\ Limited

-----------------------------------------------------------------------------
(* Counting.                                                               *)
LEMMA PlusMinus ==
    ASSUME NEW n \in [Storages -> Int], NEW S
    PROVE  /\ Plus(n, S) \in [Storages -> Int] /\ Minus(n, S) \in [Storages -> Int]
           /\ \A s \in Storages : /\ Plus(n, S)[s] = n[s] + In(s \in S)
                                  /\ Minus(n, S)[s] = n[s] - In(s \in S)
BY DEF Plus, Minus, In

-----------------------------------------------------------------------------
(* A step of job j leaves the other jobs alone.                            *)
Frame(j) ==
    \A i \in Jobs : i # j =>
        /\ pc'[i] = pc[i] /\ rlist'[i] = rlist[i] /\ wlist'[i] = wlist[i] /\ wjcr'[i] = wjcr[i]
        /\ rstore'[i] = rstore[i] /\ wstore'[i] = wstore[i] /\ unused'[i] = unused[i]
        /\ todo'[i] = todo[i] /\ got'[i] = got[i] /\ tested'[i] = tested[i]

Step(j) ==
    \/ acquire_resources(j)
    \/ inc_rstore_test(j) \/ inc_rstore(j) \/ inc_wstore(j)
    \/ inc_read_stores(j) \/ inc_write_stores(j)
    \/ OthersGranted(j) \/ BackOut(j)
    \/ apply_write_policy(j) \/ NoneStarts(j)
    \/ \E s \in Storages : StartOn(j, s) \/ SameStore(j, s) \/ select_rstore(j, s)
    \/ Switched(j) \/ RetrySwitch(j) \/ reset_rstorage(j)
    \/ do_mac(j) \/ mac_bail_out(j)
    \/ JobDone(j)

LEMMA StepFrame == ASSUME Types, NEW j \in Jobs, Step(j) PROVE Frame(j)
<1> USE DEF Types, Frame, Goto, BeginInc, counters, lists, incVars, DecStores
<1>1. CASE acquire_resources(j)
  BY <1>1 DEF acquire_resources
<1>2. CASE inc_rstore_test(j)
  BY <1>2 DEF inc_rstore_test
<1>3. CASE inc_rstore(j) \/ inc_wstore(j)
  BY <1>3 DEF inc_rstore, inc_wstore
<1>4. CASE inc_read_stores(j) \/ inc_write_stores(j)
  BY <1>4 DEF inc_read_stores, inc_write_stores
<1>5. CASE OthersGranted(j) \/ BackOut(j) \/ JobDone(j)
  BY <1>5 DEF OthersGranted, BackOut, JobDone
<1>6. CASE apply_write_policy(j) \/ NoneStarts(j)
  BY <1>6 DEF apply_write_policy, NoneStarts
<1>7. CASE \E s \in Storages : StartOn(j, s) \/ SameStore(j, s) \/ select_rstore(j, s)
  BY <1>7 DEF StartOn, SameStore, select_rstore, dec_unused_stores
<1>8. CASE Switched(j) \/ RetrySwitch(j) \/ reset_rstorage(j)
  BY <1>8 DEF Switched, RetrySwitch, reset_rstorage
<1>9. CASE do_mac(j) \/ mac_bail_out(j)
  BY <1>9 DEF do_mac, mac_bail_out
<1>10. QED BY <1>1, <1>2, <1>3, <1>4, <1>5, <1>6, <1>7, <1>8, <1>9 DEF Step

LEMMA KeptStep ==
    ASSUME JobsKept, NEW j \in Jobs, Frame(j), IncUnderWay(j)', ListsKept(j)'
    PROVE  JobsKept'
<1> SUFFICES ASSUME NEW i \in Jobs, i # j PROVE IncUnderWay(i)' /\ ListsKept(i)'
  BY DEF JobsKept
<1>1. IncUnderWay(i) /\ ListsKept(i)
  BY DEF JobsKept
<1>2. IncUnderWay(i)'
  BY <1>1 DEF Frame, IncUnderWay, Looked
<1>3. ListsKept(i)'
  BY <1>1 DEF Frame, ListsKept
<1>4. QED BY <1>2, <1>3

(* The sets of jobs that are counted differ by j at most.                  *)
ReadGain(j, s)  == In(s \in ReadHeld(j)') - In(s \in ReadHeld(j))
WriteGain(j, s) == In(s \in WriteHeld(j)') - In(s \in WriteHeld(j))
TestGain(j, s)  == In(j \in Tested(s)') - In(j \in Tested(s))
SwitchGain(j, s) == In(j \in Switchers(s)') - In(j \in Switchers(s))

LEMMA Gains ==
    ASSUME NEW j \in Jobs, Frame(j), NEW s \in Storages
    PROVE  /\ Cardinality(Readers(s)) \in Nat /\ Cardinality(Readers(s)') \in Nat
           /\ Cardinality(Writers(s)) \in Nat /\ Cardinality(Writers(s)') \in Nat
           /\ Cardinality(Tested(s)) \in Nat /\ Cardinality(Tested(s)') \in Nat
           /\ Cardinality(Switchers(s)) \in Nat /\ Cardinality(Switchers(s)') \in Nat
           /\ Cardinality(Readers(s)') = Cardinality(Readers(s)) + ReadGain(j, s)
           /\ Cardinality(Writers(s)') = Cardinality(Writers(s)) + WriteGain(j, s)
           /\ Cardinality(Tested(s)') = Cardinality(Tested(s)) + TestGain(j, s)
           /\ Cardinality(Switchers(s)') = Cardinality(Switchers(s)) + SwitchGain(j, s)
           /\ ReadGain(j, s) \in Int /\ WriteGain(j, s) \in Int
           /\ TestGain(j, s) \in Int /\ SwitchGain(j, s) \in Int
<1>1. \A i \in Jobs : i # j => ReadHeld(i)' = ReadHeld(i) /\ WriteHeld(i)' = WriteHeld(i)
  BY DEF Frame, ReadHeld, WriteHeld
<1>2. /\ Readers(s) \ {j} = Readers(s)' \ {j} /\ Writers(s) \ {j} = Writers(s)' \ {j}
  BY <1>1 DEF Readers, Writers
<1>3. Tested(s) \ {j} = Tested(s)' \ {j}
  BY DEF Tested, Frame
<1>4. Switchers(s) \ {j} = Switchers(s)' \ {j}
  BY <1>1 DEF Switchers, Readers, Frame
<1>5. /\ IsFiniteSet(Readers(s)) /\ IsFiniteSet(Writers(s))
      /\ IsFiniteSet(Tested(s)) /\ IsFiniteSet(Switchers(s))
  BY StoreAssumption, FS_Subset DEF Readers, Writers, Tested, Switchers
<1>6. /\ (j \in Readers(s)) = (s \in ReadHeld(j)) /\ (j \in Readers(s)') = (s \in ReadHeld(j)')
      /\ (j \in Writers(s)) = (s \in WriteHeld(j)) /\ (j \in Writers(s)') = (s \in WriteHeld(j)')
  BY DEF Readers, Writers
<1>7. /\ Cardinality(Readers(s)) \in Nat /\ Cardinality(Readers(s)') \in Nat
      /\ Cardinality(Readers(s)') = Cardinality(Readers(s)) + ReadGain(j, s)
      /\ ReadGain(j, s) \in Int
  <2>1. /\ Cardinality(Readers(s)) \in Nat /\ Cardinality(Readers(s)') \in Nat
        /\ Cardinality(Readers(s)') = Cardinality(Readers(s)) + In(j \in Readers(s)') - In(j \in Readers(s))
    BY <1>2, <1>5, OneMoves
  <2>2. QED BY <1>6, <2>1 DEF ReadGain, In
<1>8. /\ Cardinality(Writers(s)) \in Nat /\ Cardinality(Writers(s)') \in Nat
      /\ Cardinality(Writers(s)') = Cardinality(Writers(s)) + WriteGain(j, s)
      /\ WriteGain(j, s) \in Int
  <2>1. /\ Cardinality(Writers(s)) \in Nat /\ Cardinality(Writers(s)') \in Nat
        /\ Cardinality(Writers(s)') = Cardinality(Writers(s)) + In(j \in Writers(s)') - In(j \in Writers(s))
    BY <1>2, <1>5, OneMoves
  <2>2. QED BY <1>6, <2>1 DEF WriteGain, In
<1>9. /\ Cardinality(Tested(s)) \in Nat /\ Cardinality(Tested(s)') \in Nat
      /\ Cardinality(Tested(s)') = Cardinality(Tested(s)) + TestGain(j, s)
      /\ TestGain(j, s) \in Int
  <2>1. /\ Cardinality(Tested(s)) \in Nat /\ Cardinality(Tested(s)') \in Nat
        /\ Cardinality(Tested(s)') = Cardinality(Tested(s)) + In(j \in Tested(s)') - In(j \in Tested(s))
    BY <1>3, <1>5, OneMoves
  <2>2. QED BY <2>1 DEF TestGain, In
<1>10. /\ Cardinality(Switchers(s)) \in Nat /\ Cardinality(Switchers(s)') \in Nat
       /\ Cardinality(Switchers(s)') = Cardinality(Switchers(s)) + SwitchGain(j, s)
       /\ SwitchGain(j, s) \in Int
  <2>1. /\ Cardinality(Switchers(s)) \in Nat /\ Cardinality(Switchers(s)') \in Nat
        /\ Cardinality(Switchers(s)') = Cardinality(Switchers(s)) + In(j \in Switchers(s)') - In(j \in Switchers(s))
    BY <1>4, <1>5, OneMoves
  <2>2. QED BY <2>1 DEF SwitchGain, In
<1>11. QED BY <1>7, <1>8, <1>9, <1>10

(* A step counts what the job takes and gives back.                        *)
Balanced(j) ==
    \A s \in Storages : /\ num'[s] = num[s] + ReadGain(j, s) + WriteGain(j, s)
                        /\ numread'[s] = numread[s] + ReadGain(j, s)

(* A step by which the job may only lose storages it is counted on.        *)
Drops(j) ==
    /\ UNCHANGED counters
    /\ ReadHeld(j)' \subseteq ReadHeld(j) /\ WriteHeld(j)' \subseteq WriteHeld(j)
    /\ NothingDropped => ReadHeld(j)' = ReadHeld(j) /\ WriteHeld(j)' = WriteHeld(j)

LEMMA CountedStep ==
    ASSUME Types, Counted, NEW j \in Jobs, Frame(j), Balanced(j) \/ Drops(j)
    PROVE  Counted'
<1> SUFFICES ASSUME NEW s \in Storages
             PROVE  /\ num'[s] >= Cardinality(Readers(s)') + Cardinality(Writers(s)')
                    /\ numread'[s] >= Cardinality(Readers(s)')
                    /\ NothingDropped =>
                          /\ num'[s] = Cardinality(Readers(s)') + Cardinality(Writers(s)')
                          /\ numread'[s] = Cardinality(Readers(s)')
  BY DEF Counted, NothingDropped
<1>1. num[s] \in Int /\ numread[s] \in Int
  BY DEF Types
<1>2. CASE Balanced(j)
  BY <1>1, <1>2, Gains DEF Balanced, Counted
<1>3. CASE Drops(j)
  <2>1. ReadGain(j, s) <= 0 /\ WriteGain(j, s) <= 0
    BY <1>3 DEF Drops, ReadGain, WriteGain, In
  <2>2. NothingDropped => ReadGain(j, s) = 0 /\ WriteGain(j, s) = 0
    BY <1>3 DEF Drops, ReadGain, WriteGain, In
  <2>3. num'[s] = num[s] /\ numread'[s] = numread[s]
    BY <1>3 DEF Drops, counters
  <2>4. QED BY <1>1, <2>1, <2>2, <2>3, Gains DEF Counted
<1>4. QED BY <1>2, <1>3

LEMMA LimitedStep ==
    ASSUME Types, Types', Limited, NEW j \in Jobs, Frame(j),
           \A s \in Storages : num'[s] + TestGain(j, s) <= num[s] + SwitchGain(j, s)
    PROVE  Limited'
<1> SUFFICES ASSUME NEW s \in Storages
             PROVE  num'[s] + Cardinality(Tested(s)') <= MaxConcurrentJobs[s] + Cardinality(Switchers(s)')
  BY DEF Limited
<1>1. num[s] \in Int /\ num'[s] \in Int /\ MaxConcurrentJobs[s] \in Nat
  BY StoreAssumption DEF Types
<1>2. num'[s] + TestGain(j, s) <= num[s] + SwitchGain(j, s)
  OBVIOUS
<1>3. num[s] + Cardinality(Tested(s)) <= MaxConcurrentJobs[s] + Cardinality(Switchers(s))
  BY DEF Limited
<1>4. QED BY <1>1, <1>2, <1>3, Gains

-----------------------------------------------------------------------------
(* What a job holds, stage by stage, before and after a step.              *)
HeldAt(stage, j) ==
    /\ stage \in {"queued", "gone"} => ReadHeld(j) = {} /\ WriteHeld(j) = {}
    /\ stage = "incread" => ReadHeld(j) = Range(got[j]) /\ WriteHeld(j) = {}
    /\ stage = "switch" => ReadHeld(j) = Range(got[j])
    /\ stage = "incwrite" => ReadHeld(j) = Range(rlist[j]) /\ WriteHeld(j) = Range(got[j])
    /\ stage \in {"others", "run", "pick", "work", "end"} => ReadHeld(j) = Range(rlist[j])
    /\ stage = "work" /\ Kind[j] = "copy" => WriteHeld(j) = Range(wjcr[j])
    /\ stage = "work" /\ Kind[j] # "copy" /\ unused[j] => WriteHeld(j) = {wstore[j]}
    /\ stage = "work" /\ Kind[j] # "copy" /\ ~unused[j] => WriteHeld(j) = Range(wlist[j])
    /\ stage \in {"switch", "others", "run", "pick", "end"} /\ ~unused[j] =>
          WriteHeld(j) = Range(wlist[j])

LEMMA Held == ASSUME NEW j \in Jobs PROVE HeldAt(pc[j], j) /\ HeldAt(pc[j], j)'
<1>1. HeldAt(pc[j], j)
  BY DEF HeldAt, ReadHeld, WriteHeld
<1>2. HeldAt(pc[j], j)'
  BY DEF HeldAt, ReadHeld, WriteHeld
<1>3. QED BY <1>1, <1>2

LEMMA ListElements ==
    ASSUME NEW q \in Lists
    PROVE  /\ q \in Seq(Storages) /\ IsInjective(q) /\ Range(q) \subseteq Storages
           /\ q = <<>> <=> Range(q) = {}
           /\ q # <<>> => /\ Head(q) \in Range(q) /\ Head(q) \in Storages /\ Tail(q) \in Lists
                          /\ Range(Tail(q)) = Range(q) \ {Head(q)}
           /\ \A s \in Storages : s \notin Range(q) => Append(q, s) \in Lists
           /\ \A s \in Storages : Range(Append(q, s)) = Range(q) \union {s}
BY RangeElements, TailList, AppendList DEF Lists

LEMMA ShortLists ==
    /\ <<>> \in Lists /\ Range(<<>>) = {}
    /\ \A s \in Storages : <<s>> \in Lists /\ Range(<<s>>) = {s} /\ <<s>> # <<>>
<1>1. <<>> \in Lists /\ Range(<<>>) = {}
  BY EmptyList DEF Lists
<1>2. \A s \in Storages : <<s>> = Append(<<>>, s)
  OBVIOUS
<1>3. ASSUME NEW s \in Storages PROVE <<s>> \in Lists /\ Range(<<s>>) = {s}
  <2>1. Append(<<>>, s) \in Lists /\ Range(Append(<<>>, s)) = {} \union {s}
    BY <1>1, ListElements
  <2>2. QED BY <1>2, <2>1
<1>4. QED BY <1>1, <1>3

(* A step that stays out of Acquiring, or enters it with the mutex free.   *)
LEMMA MutexStep ==
    ASSUME OneAcquires, NEW j \in Jobs, Frame(j),
           pc'[j] \in Acquiring => pc[j] \in Acquiring \/ MutexFree
    PROVE  OneAcquires'
BY DEF OneAcquires, Frame, MutexFree

(* The mutex: while j acquires, no other job of the queue has tested.      *)
LEMMA NoOtherTest ==
    ASSUME OneAcquires, NEW j \in Jobs, pc[j] \in Acquiring, NEW s \in Storages
    PROVE  Tested(s) \subseteq {j}
BY DEF OneAcquires, Tested, Acquiring

(* Everything IInv asks of a step of j.                                    *)
LEMMA StepPreserves ==
    ASSUME IInv, NEW j \in Jobs, Step(j), Types', IncUnderWay(j)', ListsKept(j)',
           pc'[j] \in Acquiring => pc[j] \in Acquiring \/ MutexFree,
           Balanced(j) \/ Drops(j),
           Limited' \/ \A s \in Storages : num'[s] + TestGain(j, s) <= num[s] + SwitchGain(j, s)
    PROVE  IInv'
<1>1. Frame(j)
  BY StepFrame DEF IInv
<1>2. OneAcquires' /\ JobsKept' /\ Counted' /\ Limited'
  BY <1>1, MutexStep, KeptStep, CountedStep, LimitedStep DEF IInv
<1>3. QED BY <1>2 DEF IInv

-----------------------------------------------------------------------------
(* acquire_resources and inc_stores.                                       *)
LEMMA AcquirePreserves ==
    ASSUME IInv, NEW j \in Jobs, acquire_resources(j) PROVE IInv'
<1> USE DEF IInv, acquire_resources, Goto, BeginInc, counters, lists
<1>1. IncUnderWay(j) /\ ListsKept(j)
  BY DEF JobsKept
<1>2. Types'
  <2>1. "incread" \in Stages /\ "incwrite" \in Stages /\ rlist[j] \in Lists /\ wlist[j] \in Lists
    BY DEF Types, Stages, Acquiring
  <2>2. \E stage \in Stages : pc' = [pc EXCEPT ![j] = stage]
    BY <2>1
  <2>3. \E q \in Lists : todo' = [todo EXCEPT ![j] = q]
    BY <2>1
  <2>4. pc' \in [Jobs -> Stages] /\ todo' \in [Jobs -> Lists]
    BY <2>2, <2>3 DEF Types
  <2>5. got' = [got EXCEPT ![j] = <<>>] /\ tested' = tested
    OBVIOUS
  <2>6. QED
    <3> HIDE DEF acquire_resources, Goto, BeginInc
    <3>1. got' \in [Jobs -> Lists]
      BY <2>5, ShortLists DEF Types
    <3>2. UNCHANGED <<counters, lists>>
      BY DEF acquire_resources
    <3>3. QED BY <2>4, <2>5, <3>1, <3>2 DEF Types
<1>3. /\ pc[j] = "queued" /\ pc'[j] \in {"incread", "incwrite"} /\ got'[j] = <<>>
      /\ pc'[j] = "incread" => todo'[j] = rlist[j]
      /\ pc'[j] = "incwrite" => todo'[j] = wlist[j] /\ rlist[j] = <<>>
      /\ tested' = tested
  BY <1>1 DEF Types, ListsKept
<1>4. IncUnderWay(j)'
  BY <1>1, <1>3, ShortLists DEF IncUnderWay, Looked
<1>5. ListsKept(j)'
  BY <1>1, <1>3 DEF ListsKept
<1>6. ReadHeld(j) = {} /\ WriteHeld(j) = {} /\ ReadHeld(j)' = {} /\ WriteHeld(j)' = {}
  BY <1>3, Held, ShortLists DEF HeldAt
<1>7. Drops(j)
  BY <1>6 DEF Drops
<1>8. ASSUME NEW s \in Storages PROVE num'[s] + TestGain(j, s) <= num[s] + SwitchGain(j, s)
  <2>1. j \notin Tested(s) /\ j \notin Tested(s)'
    BY <1>1, <1>3 DEF Tested, IncUnderWay
  <2>2. j \notin Switchers(s) /\ j \notin Switchers(s)'
    BY <1>3 DEF Switchers
  <2>3. num'[s] = num[s] /\ num[s] \in Int
    BY DEF Types
  <2>4. QED BY <2>1, <2>2, <2>3 DEF TestGain, SwitchGain, In
<1>9. QED BY <1>2, <1>4, <1>5, <1>7, <1>8, StepPreserves DEF Step

(* The test and the increment of inc_rstore.                               *)
LEMMA TestPreserves ==
    ASSUME IInv, NEW j \in Jobs, inc_rstore_test(j) PROVE IInv'
<1> USE DEF IInv, counters, lists
<1> DEFINE h == Head(todo[j])
<1>1. IncUnderWay(j) /\ ListsKept(j) /\ pc[j] \in {"incread", "switch"} /\ ~tested[j]
  BY DEF JobsKept, inc_rstore_test
<1>2. /\ todo[j] \in Lists /\ todo[j] # <<>> /\ Tail(todo[j]) \in Lists /\ h \in Storages
      /\ Range(Tail(todo[j])) \subseteq Range(todo[j])
  <2>1. todo[j] \in Lists /\ todo[j] # <<>>
    BY DEF Types, inc_rstore_test
  <2>2. QED BY <2>1, ListElements
<1>3. /\ pc' = pc /\ rlist' = rlist /\ wlist' = wlist /\ rstore' = rstore /\ wstore' = wstore
      /\ unused' = unused /\ wjcr' = wjcr /\ got' = got /\ num' = num /\ numread' = numread
  BY DEF inc_rstore_test
<1>4. \/ /\ RoomToRead(j, h) /\ todo' = todo /\ tested' = [tested EXCEPT ![j] = TRUE]
      \/ todo' = [todo EXCEPT ![j] = Tail(@)] /\ tested' = tested
  BY DEF inc_rstore_test
<1>5. Types'
  BY <1>2, <1>3, <1>4 DEF Types
<1>6. IncUnderWay(j)'
  <2>1. CASE todo' = todo /\ tested' = [tested EXCEPT ![j] = TRUE]
    BY <1>1, <1>2, <1>3, <2>1 DEF IncUnderWay, Looked
  <2>2. CASE todo' = [todo EXCEPT ![j] = Tail(@)] /\ tested' = tested
    <3>1. todo'[j] = Tail(todo[j])
      BY <2>2 DEF Types
    <3>2. QED BY <1>1, <1>2, <1>3, <2>2, <3>1 DEF IncUnderWay, Looked
  <2>3. QED BY <1>4, <2>1, <2>2
<1>7. ListsKept(j)'
  BY <1>1, <1>3 DEF ListsKept
<1>8. Drops(j)
  BY <1>3 DEF Drops, ReadHeld, WriteHeld
<1>9. \A s \in Storages : SwitchGain(j, s) = 0
  BY <1>3 DEF SwitchGain, In, Switchers, Readers, ReadHeld
<1>10. Frame(j)
  BY StepFrame DEF Step
<1>11. Limited'
  <2> SUFFICES ASSUME NEW s \in Storages
               PROVE  num'[s] + Cardinality(Tested(s)') <= MaxConcurrentJobs[s] + Cardinality(Switchers(s)')
    BY DEF Limited
  <2>1. num'[s] = num[s] /\ num[s] \in Int /\ MaxConcurrentJobs[s] \in Nat
    BY <1>3, StoreAssumption DEF Types
  <2>2. num[s] + Cardinality(Tested(s)) <= MaxConcurrentJobs[s] + Cardinality(Switchers(s))
    BY DEF Limited
  <2>3. Cardinality(Switchers(s)') = Cardinality(Switchers(s)) /\ Cardinality(Switchers(s)) \in Nat
    BY <1>9, <1>10, Gains
  <2>4. j \notin Tested(s)
    BY <1>1 DEF Tested
  <2>5. CASE j \notin Tested(s)'
    <3>1. TestGain(j, s) = 0
      BY <2>4, <2>5 DEF TestGain, In
    <3>2. QED BY <1>10, <2>1, <2>2, <2>3, <3>1, Gains
  <2>6. CASE j \in Tested(s)'
    <3>1. pc[j] = "incread" /\ tested'[j] /\ Head(todo'[j]) = s
      BY <1>3, <2>6 DEF Tested
    <3>2. RoomToRead(j, h) /\ todo' = todo
      BY <1>1, <1>4, <3>1
    <3>3. num[s] < MaxConcurrentJobs[s]
      BY <3>1, <3>2 DEF RoomToRead
    <3>4. Tested(s) = {}
      BY <2>4, <3>1, NoOtherTest DEF Acquiring
    <3>5. Cardinality(Tested(s)) = 0 /\ TestGain(j, s) = 1
      BY <2>4, <2>6, <3>4, FS_EmptySet DEF TestGain, In
    <3>6. Cardinality(Tested(s)') = 1
      BY <1>10, <3>5, Gains
    <3>7. QED BY <2>1, <2>3, <3>3, <3>6
  <2>7. QED BY <2>5, <2>6
<1>12. QED BY <1>3, <1>5, <1>6, <1>7, <1>8, <1>11, StepPreserves DEF Step

LEMMA ReadIncPreserves ==
    ASSUME IInv, NEW j \in Jobs, inc_rstore(j) PROVE IInv'
<1> USE DEF IInv, lists
<1> DEFINE h == Head(todo[j])
<1>1. /\ IncUnderWay(j) /\ ListsKept(j) /\ tested[j]
      /\ pc[j] \in {"incread", "switch"} /\ todo[j] # <<>> /\ Looked(j, rlist[j])
  BY DEF JobsKept, inc_rstore, IncUnderWay
<1>2. /\ todo[j] \in Lists /\ Tail(todo[j]) \in Lists /\ h \in Storages
      /\ h \in Range(todo[j]) /\ Range(Tail(todo[j])) = Range(todo[j]) \ {h}
  <2>1. todo[j] \in Lists
    BY DEF Types
  <2>2. QED BY <1>1, <2>1, ListElements
<1>3. /\ got[j] \in Lists /\ h \notin Range(got[j])
      /\ Append(got[j], h) \in Lists /\ Range(Append(got[j], h)) = Range(got[j]) \union {h}
  <2>1. got[j] \in Lists /\ h \notin Range(got[j])
    BY <1>1, <1>2 DEF Types, Looked
  <2>2. QED BY <1>2, <2>1, ListElements
<1>4. /\ pc' = pc /\ rlist' = rlist /\ wlist' = wlist /\ rstore' = rstore /\ wstore' = wstore
      /\ unused' = unused /\ wjcr' = wjcr
      /\ num' = Plus(num, {h}) /\ numread' = Plus(numread, {h})
      /\ got' = [got EXCEPT ![j] = Append(@, h)]
      /\ todo' = [todo EXCEPT ![j] = Tail(@)]
      /\ tested' = [tested EXCEPT ![j] = FALSE]
  BY DEF inc_rstore
<1>5. got'[j] = Append(got[j], h) /\ todo'[j] = Tail(todo[j]) /\ tested'[j] = FALSE
  BY <1>4 DEF Types
<1>6. Types'
  BY <1>2, <1>3, <1>4, PlusMinus DEF Types
<1>7. IncUnderWay(j)'
  BY <1>1, <1>2, <1>3, <1>4, <1>5 DEF IncUnderWay, Looked
<1>8. ListsKept(j)'
  BY <1>1, <1>4 DEF ListsKept
<1>9. /\ ReadHeld(j) = Range(got[j]) /\ ReadHeld(j)' = Range(got[j]) \union {h}
      /\ WriteHeld(j)' = WriteHeld(j)
  BY <1>1, <1>3, <1>4, <1>5 DEF ReadHeld, WriteHeld
<1>10. ASSUME NEW s \in Storages
       PROVE  /\ ReadGain(j, s) = In(s \in {h}) /\ WriteGain(j, s) = 0
              /\ num'[s] = num[s] + In(s \in {h}) /\ numread'[s] = numread[s] + In(s \in {h})
              /\ In(s \in {h}) \in Int /\ num[s] \in Int /\ numread[s] \in Int
  <2>1. num \in [Storages -> Int] /\ numread \in [Storages -> Int]
    BY DEF Types
  <2>2. num'[s] = num[s] + In(s \in {h}) /\ numread'[s] = numread[s] + In(s \in {h})
    BY <1>4, <2>1, PlusMinus
  <2>3. ReadGain(j, s) = In(s \in {h}) /\ WriteGain(j, s) = 0 /\ In(s \in {h}) \in Int
    BY <1>3, <1>9 DEF ReadGain, WriteGain, In
  <2>4. QED BY <2>1, <2>2, <2>3
<1>11. Balanced(j)
  BY <1>10 DEF Balanced
<1>12. ASSUME NEW s \in Storages PROVE num'[s] + TestGain(j, s) <= num[s] + SwitchGain(j, s)
  <2>1. j \notin Tested(s)'
    BY <1>5 DEF Tested
  <2>2. CASE pc[j] = "incread"
    <3>1. j \in Tested(s) <=> s = h
      BY <1>1, <2>2 DEF Tested
    <3>2. SwitchGain(j, s) = 0
      BY <1>4, <2>2 DEF SwitchGain, In, Switchers
    <3>3. QED BY <1>10, <2>1, <3>1, <3>2 DEF TestGain, In
  <2>3. CASE pc[j] = "switch"
    <3>1. j \notin Tested(s) /\ Kind[j] = "restore"
      BY <1>1, <2>3 DEF Tested, ListsKept
    <3>2. (j \in Switchers(s) <=> s \in ReadHeld(j)) /\ (j \in Switchers(s)' <=> s \in ReadHeld(j)')
      BY <1>4, <2>3, <3>1 DEF Switchers, Readers
    <3>3. QED BY <1>3, <1>9, <1>10, <2>1, <3>1, <3>2 DEF TestGain, SwitchGain, In
  <2>4. QED BY <1>1, <2>2, <2>3
<1>13. QED BY <1>4, <1>6, <1>7, <1>8, <1>11, <1>12, StepPreserves DEF Step

(* The test and increment of inc_wstore in one.                            *)
LEMMA WriteIncPreserves ==
    ASSUME IInv, NEW j \in Jobs, inc_wstore(j) PROVE IInv'
<1> USE DEF IInv, lists
<1> DEFINE h == Head(todo[j])
<1>1. /\ IncUnderWay(j) /\ ListsKept(j) /\ ~tested[j]
      /\ pc[j] = "incwrite" /\ todo[j] # <<>> /\ Looked(j, wlist[j])
  BY DEF JobsKept, inc_wstore, IncUnderWay
<1>2. /\ todo[j] \in Lists /\ Tail(todo[j]) \in Lists /\ h \in Storages
      /\ h \in Range(todo[j]) /\ Range(Tail(todo[j])) = Range(todo[j]) \ {h}
  <2>1. todo[j] \in Lists
    BY DEF Types
  <2>2. QED BY <1>1, <2>1, ListElements
<1>3. /\ got[j] \in Lists /\ h \notin Range(got[j])
      /\ Append(got[j], h) \in Lists /\ Range(Append(got[j], h)) = Range(got[j]) \union {h}
  <2>1. got[j] \in Lists /\ h \notin Range(got[j])
    BY <1>1, <1>2 DEF Types, Looked
  <2>2. QED BY <1>2, <2>1, ListElements
<1>4. /\ pc' = pc /\ rlist' = rlist /\ wlist' = wlist /\ rstore' = rstore /\ wstore' = wstore
      /\ unused' = unused /\ wjcr' = wjcr /\ numread' = numread /\ tested' = tested
      /\ todo' = [todo EXCEPT ![j] = Tail(@)]
  BY DEF inc_wstore
<1>5. todo'[j] = Tail(todo[j])
  BY <1>4 DEF Types
<1>6. ListsKept(j)'
  BY <1>1, <1>4 DEF ListsKept
<1>7. \A s \in Storages : SwitchGain(j, s) = 0 /\ TestGain(j, s) = 0
  BY <1>1, <1>4 DEF SwitchGain, TestGain, In, Switchers, Tested
<1>8. num \in [Storages -> Int]
  BY DEF Types
<1>9. Frame(j)
  BY StepFrame DEF Step
<1>10. CASE RoomToWrite(h) /\ num' = Plus(num, {h}) /\ got' = [got EXCEPT ![j] = Append(@, h)]
  <2>1. got'[j] = Append(got[j], h)
    BY <1>10 DEF Types
  <2>2. Types'
    BY <1>2, <1>3, <1>4, <1>10, PlusMinus DEF Types
  <2>3. IncUnderWay(j)'
    BY <1>1, <1>2, <1>3, <1>4, <1>5, <2>1 DEF IncUnderWay, Looked
  <2>4. /\ WriteHeld(j) = Range(got[j]) /\ WriteHeld(j)' = Range(got[j]) \union {h}
        /\ ReadHeld(j)' = ReadHeld(j)
    BY <1>1, <1>3, <1>4, <2>1 DEF ReadHeld, WriteHeld
  <2>5. ASSUME NEW s \in Storages
        PROVE  /\ ReadGain(j, s) = 0 /\ WriteGain(j, s) = In(s \in {h})
               /\ num'[s] = num[s] + In(s \in {h})
    <3>1. num'[s] = num[s] + In(s \in {h})
      BY <1>8, <1>10, PlusMinus
    <3>2. ReadGain(j, s) = 0 /\ WriteGain(j, s) = In(s \in {h})
      BY <1>3, <2>4 DEF ReadGain, WriteGain, In
    <3>3. QED BY <3>1, <3>2
  <2>6. Balanced(j)
    <3>1. \A s \in Storages : numread'[s] = numread[s] /\ numread[s] \in Int /\ num[s] \in Int
      BY <1>4 DEF Types
    <3>2. QED BY <2>5, <3>1 DEF Balanced, In
  <2>7. Limited'
    <3> SUFFICES ASSUME NEW s \in Storages
                 PROVE  num'[s] + Cardinality(Tested(s)') <= MaxConcurrentJobs[s] + Cardinality(Switchers(s)')
      BY DEF Limited
    <3>1. num[s] \in Int /\ MaxConcurrentJobs[s] \in Nat
      BY <1>8, StoreAssumption
    <3>2. num[s] + Cardinality(Tested(s)) <= MaxConcurrentJobs[s] + Cardinality(Switchers(s))
      BY DEF Limited
    <3>3. /\ Cardinality(Switchers(s)') = Cardinality(Switchers(s)) /\ Cardinality(Switchers(s)) \in Nat
          /\ Cardinality(Tested(s)') = Cardinality(Tested(s)) /\ Cardinality(Tested(s)) \in Nat
      BY <1>7, <1>9, Gains
    <3>4. Tested(s) = {}
      BY <1>1, NoOtherTest DEF Acquiring, Tested
    <3>5. Cardinality(Tested(s)) = 0
      BY <3>4, FS_EmptySet
    <3>6. CASE s = h
      <4>1. num[s] < MaxConcurrentJobs[s] /\ num'[s] = num[s] + 1
        BY <1>10, <2>5, <3>6 DEF RoomToWrite, In
      <4>2. QED BY <3>1, <3>3, <3>5, <4>1
    <3>7. CASE s # h
      <4>1. num'[s] = num[s]
        BY <2>5, <3>1, <3>7 DEF In
      <4>2. QED BY <3>1, <3>2, <3>3, <4>1
    <3>8. QED BY <3>6, <3>7
  <2>8. QED BY <1>4, <1>6, <2>2, <2>3, <2>6, <2>7, StepPreserves DEF Step
<1>11. CASE num' = num /\ got' = got
  <2>1. Types'
    BY <1>2, <1>4, <1>11 DEF Types
  <2>2. IncUnderWay(j)'
    BY <1>1, <1>2, <1>4, <1>5, <1>11 DEF IncUnderWay, Looked
  <2>3. Drops(j)
    BY <1>4, <1>11 DEF Drops, ReadHeld, WriteHeld, counters
  <2>4. \A s \in Storages : num'[s] + TestGain(j, s) <= num[s] + SwitchGain(j, s)
    BY <1>7, <1>8, <1>11
  <2>5. QED BY <1>4, <1>6, <2>1, <2>2, <2>3, <2>4, StepPreserves DEF Step
<1>12. QED BY <1>10, <1>11 DEF inc_wstore

(* The ends of the two inc_stores calls.                                   *)
LEMMA ReadIncEndsPreserves ==
    ASSUME IInv, NEW j \in Jobs, inc_read_stores(j) PROVE IInv'
<1> USE DEF IInv, counters
<1>1. /\ IncUnderWay(j) /\ ListsKept(j) /\ ~tested[j]
      /\ pc[j] = "incread" /\ todo[j] = <<>> /\ Looked(j, rlist[j])
  BY DEF JobsKept, inc_read_stores, IncUnderWay, IncCallEnds
<1>2. rlist[j] \in Lists /\ wlist[j] \in Lists /\ got[j] \in Lists
  BY DEF Types
<1>3. /\ wlist' = wlist /\ rstore' = rstore /\ wstore' = wstore /\ unused' = unused
      /\ wjcr' = wjcr /\ tested' = tested /\ num' = num /\ numread' = numread
      /\ got' = [got EXCEPT ![j] = <<>>]
      /\ rlist' = [rlist EXCEPT ![j] = KeptList(@, got[j])]
  BY DEF inc_read_stores, BeginInc
<1>4. \/ got[j] # <<>> /\ pc' = [pc EXCEPT ![j] = "incwrite"] /\ todo' = [todo EXCEPT ![j] = wlist[j]]
      \/ got[j] = <<>> /\ pc' = [pc EXCEPT ![j] = "queued"] /\ todo' = [todo EXCEPT ![j] = <<>>]
  BY DEF inc_read_stores, BeginInc, Goto
<1>5. /\ rlist'[j] = KeptList(rlist[j], got[j]) /\ KeptList(rlist[j], got[j]) \in Lists
      /\ got'[j] = <<>>
      /\ Range(rlist'[j]) \subseteq Range(rlist[j])
      /\ got[j] # <<>> => rlist'[j] = got[j]
  BY <1>1, <1>2, <1>3 DEF KeptList, Looked, Types
<1>6. rlist'[j] = <<>> <=> rlist[j] = <<>>
  <2>1. rlist[j] = <<>> => got[j] = <<>>
    BY <1>1, <1>2, ListElements, ShortLists DEF Looked
  <2>2. QED BY <1>5, <2>1 DEF KeptList
<1>7. Types'
  <2>1. pc' \in [Jobs -> Stages] /\ todo' \in [Jobs -> Lists]
    BY <1>2, <1>4, ShortLists DEF Types, Stages, Acquiring
  <2>2. got' \in [Jobs -> Lists] /\ rlist' \in [Jobs -> Lists]
    BY <1>3, <1>5, ShortLists DEF Types
  <2>3. QED BY <1>3, <2>1, <2>2 DEF Types
<1>8. pc'[j] \in {"incwrite", "queued"} /\ (pc'[j] = "incwrite" => todo'[j] = wlist[j])
  BY <1>4 DEF Types
<1>9. IncUnderWay(j)'
  BY <1>1, <1>3, <1>5, <1>8, ShortLists DEF IncUnderWay, Looked
<1>10. ListsKept(j)'
  BY <1>1, <1>3, <1>5, <1>6, <1>8 DEF ListsKept
<1>11. ReadHeld(j) = Range(got[j]) /\ WriteHeld(j) = {}
  BY <1>1, Held DEF HeldAt
<1>12. ReadHeld(j)' = Range(got[j]) /\ WriteHeld(j)' = {}
  <2>1. CASE got[j] # <<>> /\ pc'[j] = "incwrite"
    BY <1>5, <2>1, Held, ShortLists DEF HeldAt
  <2>2. CASE got[j] = <<>> /\ pc'[j] = "queued"
    BY <2>2, Held, ShortLists DEF HeldAt
  <2>3. QED BY <1>4, <2>1, <2>2 DEF Types
<1>13. Drops(j)
  BY <1>3, <1>11, <1>12 DEF Drops
<1>14. ASSUME NEW s \in Storages PROVE num'[s] + TestGain(j, s) <= num[s] + SwitchGain(j, s)
  <2>1. TestGain(j, s) = 0 /\ SwitchGain(j, s) = 0
    BY <1>1, <1>3, <1>8 DEF TestGain, SwitchGain, In, Tested, Switchers
  <2>2. QED BY <1>3, <2>1 DEF Types
<1>15. QED BY <1>1, <1>7, <1>8, <1>9, <1>10, <1>13, <1>14, StepPreserves DEF Step, Acquiring

LEMMA WriteIncEndsPreserves ==
    ASSUME IInv, NEW j \in Jobs, inc_write_stores(j) PROVE IInv'
<1> USE DEF IInv, counters
<1>1. /\ IncUnderWay(j) /\ ListsKept(j) /\ ~tested[j] /\ ~unused[j]
      /\ pc[j] = "incwrite" /\ todo[j] = <<>> /\ Looked(j, wlist[j])
  BY DEF JobsKept, inc_write_stores, IncUnderWay, IncCallEnds, ListsKept
<1>2. rlist[j] \in Lists /\ wlist[j] \in Lists /\ got[j] \in Lists
  BY DEF Types
<1>3. /\ rlist' = rlist /\ rstore' = rstore /\ wstore' = wstore /\ unused' = unused
      /\ wjcr' = wjcr /\ tested' = tested
      /\ got' = [got EXCEPT ![j] = <<>>] /\ todo' = [todo EXCEPT ![j] = <<>>]
      /\ wlist' = [wlist EXCEPT ![j] = KeptList(@, got[j])]
  BY DEF inc_write_stores, BeginInc
<1>4. /\ wlist'[j] = KeptList(wlist[j], got[j]) /\ KeptList(wlist[j], got[j]) \in Lists
      /\ got'[j] = <<>> /\ todo'[j] = <<>>
      /\ got[j] # <<>> => wlist'[j] = got[j]
  BY <1>1, <1>2, <1>3 DEF KeptList, Types
<1>5. wlist[j] = <<>> => got[j] = <<>>
  BY <1>1, <1>2, ListElements, ShortLists DEF Looked
<1>6. wlist'[j] = <<>> <=> wlist[j] = <<>>
  BY <1>4, <1>5 DEF KeptList
<1>7. got' \in [Jobs -> Lists] /\ todo' \in [Jobs -> Lists] /\ wlist' \in [Jobs -> Lists]
  BY <1>3, <1>4, ShortLists DEF Types
<1>8. ReadHeld(j) = Range(rlist[j]) /\ WriteHeld(j) = Range(got[j])
  BY <1>1, Held DEF HeldAt
<1>9. CASE (got[j] # <<>> \/ wlist[j] = <<>>) /\ pc' = [pc EXCEPT ![j] = "others"] /\ num' = num /\ numread' = numread
  <2>1. pc'[j] = "others" /\ pc' \in [Jobs -> Stages]
    BY <1>9 DEF Types, Stages, Acquiring
  <2>2. Types'
    BY <1>3, <1>7, <1>9, <2>1 DEF Types
  <2>3. IncUnderWay(j)' /\ ListsKept(j)'
    BY <1>1, <1>3, <1>6, <2>1 DEF IncUnderWay, ListsKept
  <2>4. Range(wlist'[j]) = Range(got[j])
    BY <1>4, <1>5, <1>6, <1>9
  <2>5. Drops(j)
    BY <1>1, <1>3, <1>8, <1>9, <2>1, <2>4, Held DEF HeldAt, Drops
  <2>6. ASSUME NEW s \in Storages PROVE num'[s] + TestGain(j, s) <= num[s] + SwitchGain(j, s)
    <3>1. TestGain(j, s) = 0 /\ SwitchGain(j, s) = 0
      BY <1>1, <2>1 DEF TestGain, SwitchGain, In, Tested, Switchers
    <3>2. QED BY <1>9, <3>1 DEF Types
  <2>7. QED BY <1>1, <2>2, <2>3, <2>5, <2>6, StepPreserves DEF Step, Acquiring
<1>10. CASE got[j] = <<>> /\ wlist[j] # <<>> /\ pc' = [pc EXCEPT ![j] = "queued"] /\ dec_read_stores(j)
  <2>1. pc'[j] = "queued" /\ pc' \in [Jobs -> Stages]
    BY <1>10 DEF Types, Stages, Acquiring
  <2>2. num' = Minus(num, Range(rlist[j])) /\ numread' = Minus(numread, Range(rlist[j]))
    BY <1>10 DEF dec_read_stores, ReadCounts
  <2>3. Types'
    BY <1>3, <1>7, <2>1, <2>2, PlusMinus DEF Types
  <2>4. IncUnderWay(j)' /\ ListsKept(j)'
    BY <1>1, <1>3, <1>6, <2>1 DEF IncUnderWay, ListsKept
  <2>5. ReadHeld(j)' = {} /\ WriteHeld(j)' = {} /\ WriteHeld(j) = {}
    BY <1>8, <1>10, <2>1, Held, ShortLists DEF HeldAt
  <2>6. ASSUME NEW s \in Storages
        PROVE  /\ ReadGain(j, s) = 0 - In(s \in Range(rlist[j])) /\ WriteGain(j, s) = 0
               /\ num'[s] = num[s] - In(s \in Range(rlist[j]))
               /\ numread'[s] = numread[s] - In(s \in Range(rlist[j]))
               /\ num[s] \in Int /\ numread[s] \in Int /\ In(s \in Range(rlist[j])) \in 0..1
    <3>1. num \in [Storages -> Int] /\ numread \in [Storages -> Int]
      BY DEF Types
    <3>2. /\ num'[s] = num[s] - In(s \in Range(rlist[j]))
          /\ numread'[s] = numread[s] - In(s \in Range(rlist[j]))
      BY <2>2, <3>1, PlusMinus
    <3>3. ReadGain(j, s) = 0 - In(s \in Range(rlist[j])) /\ WriteGain(j, s) = 0
      BY <1>8, <2>5 DEF ReadGain, WriteGain, In
    <3>4. QED BY <3>1, <3>2, <3>3 DEF In
  <2>7. Balanced(j)
    BY <2>6 DEF Balanced
  <2>8. ASSUME NEW s \in Storages PROVE num'[s] + TestGain(j, s) <= num[s] + SwitchGain(j, s)
    <3>1. TestGain(j, s) = 0 /\ SwitchGain(j, s) = 0
      BY <1>1, <2>1 DEF TestGain, SwitchGain, In, Tested, Switchers
    <3>2. QED BY <2>6, <3>1
  <2>9. QED BY <2>1, <2>3, <2>4, <2>7, <2>8, StepPreserves DEF Step, Acquiring
<1>11. QED BY <1>9, <1>10 DEF inc_write_stores, Goto

-----------------------------------------------------------------------------
(* dec_stores gives back what the job holds.                               *)
LEMMA DecStoresGives ==
    ASSUME IInv, NEW j \in Jobs, DecStores(j), tested' = tested,
           pc[j] \in {"others", "run", "end", "work"}, pc[j] = "work" => Kind[j] # "copy",
           pc'[j] \in {"queued", "gone"}
    PROVE  /\ num' \in [Storages -> Int] /\ numread' \in [Storages -> Int]
           /\ unused' \in [Jobs -> BOOLEAN] /\ ~unused'[j]
           /\ Balanced(j)
           /\ \A s \in Storages : num'[s] + TestGain(j, s) <= num[s] + SwitchGain(j, s)
<1> USE DEF IInv
<1> DEFINE R == Range(rlist[j])
           W == WriteCounts(j)
<1>1. IncUnderWay(j) /\ ListsKept(j) /\ wlist[j] \in Lists
  BY DEF JobsKept, Types
<1>2. ReadHeld(j) = R /\ ReadHeld(j)' = {} /\ WriteHeld(j)' = {}
  BY Held DEF HeldAt
<1>3. WriteHeld(j) = W
  <2>1. CASE unused[j]
    <3>1. wlist[j] # <<>> /\ pc[j] = "work"
      BY <1>1, <2>1, ListElements DEF ListsKept
    <3>2. QED BY <2>1, <3>1, Held DEF HeldAt, WriteCounts
  <2>2. CASE ~unused[j]
    <3>1. WriteHeld(j) = Range(wlist[j])
      BY <2>2, Held DEF HeldAt
    <3>2. QED BY <2>2, <3>1, ShortLists DEF WriteCounts
  <2>3. QED BY <2>1, <2>2
<1>4. num \in [Storages -> Int] /\ numread \in [Storages -> Int]
  BY DEF Types
<1>5. Minus(num, R) \in [Storages -> Int]
  BY <1>4, PlusMinus
<1>6. num' = Minus(Minus(num, R), W) /\ numread' = Minus(numread, R)
  BY DEF DecStores, ReadCounts
<1>7. num' \in [Storages -> Int] /\ numread' \in [Storages -> Int]
  BY <1>4, <1>5, <1>6, PlusMinus
<1>8. unused' \in [Jobs -> BOOLEAN] /\ ~unused'[j]
  <2>1. unused[j] => wlist[j] # <<>>
    BY <1>1, ListElements DEF ListsKept
  <2>2. QED BY <2>1 DEF DecStores, Types
<1>9. ASSUME NEW s \in Storages
      PROVE  /\ num'[s] = num[s] - In(s \in R) - In(s \in W)
             /\ numread'[s] = numread[s] - In(s \in R)
             /\ num[s] \in Int /\ numread[s] \in Int
             /\ In(s \in R) \in 0..1 /\ In(s \in W) \in 0..1
             /\ ReadGain(j, s) = 0 - In(s \in R) /\ WriteGain(j, s) = 0 - In(s \in W)
  <2> HIDE DEF W, R
  <2>1. num'[s] = Minus(num, R)[s] - In(s \in W) /\ Minus(num, R)[s] = num[s] - In(s \in R)
    BY <1>4, <1>5, <1>6, PlusMinus
  <2>2. numread'[s] = numread[s] - In(s \in R)
    BY <1>4, <1>6, PlusMinus
  <2>3. In(s \in R) \in 0..1 /\ In(s \in W) \in 0..1
    BY DEF In
  <2>4. ReadGain(j, s) = 0 - In(s \in R) /\ WriteGain(j, s) = 0 - In(s \in W)
    BY <1>2, <1>3 DEF ReadGain, WriteGain, In
  <2>5. QED BY <1>4, <2>1, <2>2, <2>3, <2>4
<1> HIDE DEF R, W
<1>10. Balanced(j)
  BY <1>9 DEF Balanced
<1>11. ASSUME NEW s \in Storages PROVE num'[s] + TestGain(j, s) <= num[s] + SwitchGain(j, s)
  <2>1. TestGain(j, s) = 0
    BY <1>1 DEF TestGain, In, Tested, IncUnderWay
  <2>2. SwitchGain(j, s) = 0 \/ (SwitchGain(j, s) = -1 /\ s \in R)
    BY <1>2 DEF SwitchGain, In, Switchers, Readers
  <2>3. s \in R => In(s \in R) = 1
    BY DEF In
  <2>4. QED BY <1>9, <2>1, <2>2, <2>3
<1>12. QED BY <1>7, <1>8, <1>10, <1>11

LEMMA GrantedPreserves ==
    ASSUME IInv, NEW j \in Jobs, OthersGranted(j) PROVE IInv'
<1> USE DEF IInv, OthersGranted, Goto, counters, lists, incVars
<1>1. /\ IncUnderWay(j) /\ ListsKept(j) /\ pc[j] = "others" /\ pc'[j] = "run" /\ ~unused[j]
  BY DEF JobsKept, ListsKept, Types
<1>2. Types'
  BY DEF Types, Stages
<1>3. IncUnderWay(j)' /\ ListsKept(j)'
  BY <1>1 DEF IncUnderWay, ListsKept
<1>4. Drops(j)
  BY <1>1, Held DEF HeldAt, Drops
<1>5. ASSUME NEW s \in Storages PROVE num'[s] + TestGain(j, s) <= num[s] + SwitchGain(j, s)
  <2>1. TestGain(j, s) = 0 /\ SwitchGain(j, s) = 0
    BY <1>1 DEF TestGain, SwitchGain, In, Tested, Switchers
  <2>2. QED BY <2>1 DEF Types
<1>6. QED BY <1>1, <1>2, <1>3, <1>4, <1>5, StepPreserves DEF Step, Acquiring

LEMMA ReleasePreserves ==
    ASSUME IInv, NEW j \in Jobs, BackOut(j) \/ JobDone(j) PROVE IInv'
<1> USE DEF IInv
<1>1. /\ IncUnderWay(j) /\ ListsKept(j) /\ ~tested[j]
      /\ pc[j] \in {"others", "run", "end", "work"} /\ (pc[j] = "work" => Kind[j] # "copy")
  BY DEF JobsKept, BackOut, JobDone, IncUnderWay
<1>2. /\ DecStores(j) /\ rlist' = rlist /\ wlist' = wlist /\ rstore' = rstore /\ wstore' = wstore
      /\ wjcr' = wjcr /\ todo' = todo /\ got' = got /\ tested' = tested
  BY DEF BackOut, JobDone, incVars
<1>3. /\ pc'[j] \in {"queued", "gone"} /\ pc' \in [Jobs -> Stages]
      /\ pc'[j] = "queued" => pc[j] = "others" \/ Kind[j] = "backup"
  BY StoreAssumption DEF BackOut, JobDone, Goto, Types, Stages
<1>4. /\ num' \in [Storages -> Int] /\ numread' \in [Storages -> Int]
      /\ unused' \in [Jobs -> BOOLEAN] /\ ~unused'[j] /\ Balanced(j)
      /\ \A s \in Storages : num'[s] + TestGain(j, s) <= num[s] + SwitchGain(j, s)
  BY <1>1, <1>2, <1>3, DecStoresGives
<1>5. Types'
  BY <1>2, <1>3, <1>4 DEF Types
<1>6. IncUnderWay(j)'
  BY <1>1, <1>2, <1>3 DEF IncUnderWay
<1>7. ListsKept(j)'
  BY <1>1, <1>2, <1>3, <1>4 DEF ListsKept
<1>8. QED BY <1>3, <1>4, <1>5, <1>6, <1>7, StepPreserves DEF Step, Acquiring

-----------------------------------------------------------------------------
(* do_backup.  Every policy leaves a list of storages of the group, all of *)
(* them if none is silent.                                                 *)
LEMMA OrdersKeep ==
    ASSUME NEW list, NEW kept \in SUBSET Storages, NEW key, NEW order \in OrdersBy(list, kept, key)
    PROVE  order \in Lists /\ Range(order) = kept
<1>1. /\ order \in [1..Cardinality(kept) -> kept]
      /\ IsInjective(order) /\ Range(order) = kept
  BY DEF OrdersBy
<1>2. Cardinality(kept) \in Nat
  BY StoreAssumption, FS_Subset, FS_CardinalityType
<1>3. order \in Seq(kept)
  BY <1>1, <1>2, SeqDef
<1>4. order \in Seq(Storages)
  BY <1>3
<1>5. QED BY <1>1, <1>4 DEF Lists

LEMMA PolicyKeeps ==
    ASSUME Types, NEW j \in Jobs, NEW order \in PolicyOrders(j)
    PROVE  /\ order \in Lists /\ Range(order) \subseteq Range(wlist[j])
           /\ Silent = {} => Range(order) = Range(wlist[j])
<1> DEFINE stores == Range(wlist[j])
           Keys == [stores -> 1..Len(wlist[j])]
<1>1. wlist[j] \in Lists /\ stores \in SUBSET Storages
  <2>1. wlist[j] \in Lists
    BY DEF Types
  <2>2. QED BY <2>1, ListElements
<1>2. Policy[j] \in {"ListedOrder", "LeastUsed", "LastBackedUpTo", "FreeSpace"}
  BY StoreAssumption
<1>3. CASE Policy[j] = "ListedOrder"
  BY <1>1, <1>3 DEF PolicyOrders
<1>4. CASE Policy[j] = "LeastUsed"
  <2>1. order \in OrdersBy(wlist[j], stores, num)
    BY <1>4 DEF PolicyOrders
  <2>2. QED BY <1>1, <2>1, OrdersKeep
<1>5. CASE Policy[j] = "LastBackedUpTo"
  <2>1. PICK key \in Keys : order \in OrdersBy(wlist[j], stores, key)
    BY <1>5 DEF PolicyOrders
  <2>2. QED BY <1>1, <2>1, OrdersKeep
<1>6. CASE Policy[j] = "FreeSpace"
  <2>1. order \in UNION {UNION {OrdersBy(wlist[j], stores \ failed, key) : key \in Keys} :
                            failed \in SUBSET (Silent \intersect stores)}
    BY <1>6 DEF PolicyOrders
  <2>2. PICK failed \in SUBSET (Silent \intersect stores) :
           order \in UNION {OrdersBy(wlist[j], stores \ failed, key) : key \in Keys}
    BY <2>1
  <2>3. PICK key \in Keys : order \in OrdersBy(wlist[j], stores \ failed, key)
    BY <2>2
  <2>4. order \in Lists /\ Range(order) = stores \ failed
    BY <1>1, <2>3, OrdersKeep
  <2>5. QED BY <2>2, <2>4
<1>7. QED BY <1>2, <1>3, <1>4, <1>5, <1>6

LEMMA PolicyPreserves ==
    ASSUME IInv, NEW j \in Jobs, apply_write_policy(j) PROVE IInv'
<1> USE DEF IInv
<1>1. /\ IncUnderWay(j) /\ ListsKept(j) /\ pc[j] = "run" /\ Kind[j] = "backup" /\ ~unused[j]
  BY DEF JobsKept, ListsKept, apply_write_policy
<1>2. /\ pc'[j] = "pick" /\ pc' \in [Jobs -> Stages]
      /\ num' = num /\ numread' = numread /\ rlist' = rlist /\ rstore' = rstore /\ wstore' = wstore
      /\ unused' = unused /\ wjcr' = wjcr /\ todo' = todo /\ got' = got /\ tested' = tested
  BY DEF apply_write_policy, Goto, Types, Stages, counters, incVars
<1>3. wlist[j] \in Lists
  BY DEF Types
<1>4. PICK order \in Lists : /\ wlist' = [wlist EXCEPT ![j] = order]
                             /\ Range(order) \subseteq Range(wlist[j])
                             /\ Silent = {} => Range(order) = Range(wlist[j])
  <2>1. CASE wlist' = wlist
    <3>1. wlist' = [wlist EXCEPT ![j] = wlist[j]]
      BY <2>1 DEF Types
    <3>2. QED BY <1>3, <3>1
  <2>2. CASE \E order \in PolicyOrders(j) : wlist' = [wlist EXCEPT ![j] = order]
    BY <2>2, PolicyKeeps
  <2>3. QED BY <2>1, <2>2 DEF apply_write_policy
<1>5. wlist'[j] = order
  BY <1>4 DEF Types
<1>6. Types'
  BY <1>2, <1>4 DEF Types
<1>7. Silent = {} /\ order = <<>> => wlist[j] = <<>>
  BY <1>3, <1>4, ListElements
<1>8. IncUnderWay(j)' /\ ListsKept(j)'
  <2>1. IncUnderWay(j)'
    BY <1>1, <1>2 DEF IncUnderWay
  <2>2. ListsKept(j)'
    BY <1>1, <1>2, <1>5, <1>7 DEF ListsKept
  <2>3. QED BY <2>1, <2>2
<1>9. Drops(j)
  <2>1. ReadHeld(j) = Range(rlist[j]) /\ WriteHeld(j) = Range(wlist[j])
    BY <1>1, Held DEF HeldAt
  <2>2. ReadHeld(j)' = Range(rlist[j]) /\ WriteHeld(j)' = Range(order)
    BY <1>1, <1>2, <1>5, Held DEF HeldAt
  <2>3. QED BY <1>2, <1>4, <2>1, <2>2 DEF Drops, NothingDropped, counters
<1>10. ASSUME NEW s \in Storages PROVE num'[s] + TestGain(j, s) <= num[s] + SwitchGain(j, s)
  <2>1. TestGain(j, s) = 0 /\ SwitchGain(j, s) = 0
    BY <1>1, <1>2 DEF TestGain, SwitchGain, In, Tested, Switchers
  <2>2. QED BY <1>2, <2>1 DEF Types
<1>11. QED BY <1>2, <1>6, <1>8, <1>9, <1>10, StepPreserves DEF Step, Acquiring

LEMMA NoneStartsPreserves ==
    ASSUME IInv, NEW j \in Jobs, NoneStarts(j) PROVE IInv'
<1> USE DEF IInv
<1>1. /\ IncUnderWay(j) /\ ListsKept(j) /\ pc[j] = "pick" /\ Kind[j] = "backup" /\ ~unused[j]
  BY DEF JobsKept, ListsKept, NoneStarts
<1>2. /\ pc'[j] = "end" /\ pc' \in [Jobs -> Stages]
      /\ num' = num /\ numread' = numread /\ rlist' = rlist /\ wlist' = wlist /\ rstore' = rstore
      /\ unused' = unused /\ wjcr' = wjcr /\ todo' = todo /\ got' = got /\ tested' = tested
  BY DEF NoneStarts, Goto, Types, Stages, counters, incVars
<1>3. wstore' \in [Jobs -> Storages \union {NoStore}]
  <2>1. wlist[j] \in Seq(Storages)
    BY DEF Types, Lists
  <2>2. wlist[j] # <<>> => Last(wlist[j]) \in Storages
    BY <2>1, LenProperties, EmptySeq, ElementOfSeq DEF Last
  <2>3. QED BY <2>2 DEF NoneStarts, Types
<1>4. Types'
  BY <1>2, <1>3 DEF Types
<1>5. IncUnderWay(j)' /\ ListsKept(j)'
  BY <1>1, <1>2 DEF IncUnderWay, ListsKept
<1>6. Drops(j)
  BY <1>1, <1>2, Held DEF HeldAt, Drops, counters
<1>7. ASSUME NEW s \in Storages PROVE num'[s] + TestGain(j, s) <= num[s] + SwitchGain(j, s)
  <2>1. TestGain(j, s) = 0 /\ SwitchGain(j, s) = 0
    BY <1>1, <1>2 DEF TestGain, SwitchGain, In, Tested, Switchers
  <2>2. QED BY <1>2, <2>1 DEF Types
<1>8. QED BY <1>2, <1>4, <1>5, <1>6, <1>7, StepPreserves DEF Step, Acquiring

LEMMA StartPreserves ==
    ASSUME IInv, NEW j \in Jobs, NEW st \in Storages, StartOn(j, st) PROVE IInv'
<1> USE DEF IInv
<1> DEFINE G == Range(wlist[j]) \ {st}
<1>1. /\ IncUnderWay(j) /\ ListsKept(j) /\ pc[j] = "pick" /\ Kind[j] = "backup" /\ ~unused[j]
      /\ st \in Range(wlist[j])
  BY DEF JobsKept, ListsKept, StartOn
<1>2. /\ pc'[j] = "work" /\ pc' \in [Jobs -> Stages] /\ wstore' = [wstore EXCEPT ![j] = st]
      /\ num' = Minus(num, G) /\ unused' = [unused EXCEPT ![j] = TRUE]
      /\ numread' = numread /\ rlist' = rlist /\ wlist' = wlist /\ rstore' = rstore
      /\ wjcr' = wjcr /\ todo' = todo /\ got' = got /\ tested' = tested
  BY DEF StartOn, dec_unused_stores, Goto, Types, Stages, incVars
<1>3. num \in [Storages -> Int] /\ wstore'[j] = st /\ unused'[j] = TRUE
  BY <1>2 DEF Types
<1>4. Types'
  BY <1>2, <1>3, PlusMinus DEF Types
<1>5. IncUnderWay(j)' /\ ListsKept(j)'
  BY <1>1, <1>2, <1>3 DEF IncUnderWay, ListsKept
<1>6. ReadHeld(j) = Range(rlist[j]) /\ WriteHeld(j) = Range(wlist[j])
  BY <1>1, Held DEF HeldAt
<1>7. ReadHeld(j)' = Range(rlist[j]) /\ WriteHeld(j)' = {st}
  BY <1>1, <1>2, <1>3, Held DEF HeldAt
<1>8. ASSUME NEW s \in Storages
      PROVE  /\ num'[s] = num[s] - In(s \in G) /\ numread'[s] = numread[s]
             /\ num[s] \in Int /\ numread[s] \in Int /\ In(s \in G) \in 0..1
             /\ ReadGain(j, s) = 0 /\ WriteGain(j, s) = 0 - In(s \in G)
  <2>1. num'[s] = num[s] - In(s \in G)
    BY <1>2, <1>3, PlusMinus
  <2>2. ReadGain(j, s) = 0 /\ WriteGain(j, s) = 0 - In(s \in G) /\ In(s \in G) \in 0..1
    BY <1>1, <1>6, <1>7 DEF ReadGain, WriteGain, In
  <2>3. QED BY <1>2, <2>1, <2>2 DEF Types
<1> HIDE DEF G
<1>9. Balanced(j)
  BY <1>8 DEF Balanced
<1>10. ASSUME NEW s \in Storages PROVE num'[s] + TestGain(j, s) <= num[s] + SwitchGain(j, s)
  <2>1. TestGain(j, s) = 0 /\ SwitchGain(j, s) = 0
    BY <1>1, <1>2 DEF TestGain, SwitchGain, In, Tested, Switchers
  <2>2. QED BY <1>8, <2>1
<1>11. QED BY <1>2, <1>4, <1>5, <1>9, <1>10, StepPreserves DEF Step, Acquiring

-----------------------------------------------------------------------------
(* select_rstore.                                                          *)
LEMMA SameStorePreserves ==
    ASSUME IInv, NEW j \in Jobs, NEW st \in Storages, SameStore(j, st) PROVE IInv'
<1> USE DEF IInv
<1>1. /\ IncUnderWay(j) /\ ListsKept(j) /\ pc[j] \in {"run", "work"} /\ Kind[j] = "restore" /\ ~unused[j]
      /\ rstore[j] = st /\ st # NoStore
  BY StoreAssumption DEF JobsKept, ListsKept, SameStore
<1>2. /\ pc'[j] = "work" /\ pc' \in [Jobs -> Stages]
      /\ num' = num /\ numread' = numread /\ rlist' = rlist /\ wlist' = wlist /\ rstore' = rstore
      /\ wstore' = wstore
      /\ unused' = unused /\ wjcr' = wjcr /\ todo' = todo /\ got' = got /\ tested' = tested
  BY DEF SameStore, Goto, Types, Stages, counters, incVars, lists
<1>3. Types'
  BY <1>2 DEF Types
<1>4. IncUnderWay(j)' /\ ListsKept(j)'
  <2>1. IncUnderWay(j)'
    BY <1>1, <1>2 DEF IncUnderWay
  <2>2. ListsKept(j)'
    BY <1>1, <1>2 DEF ListsKept
  <2>3. QED BY <2>1, <2>2
<1>5. Drops(j)
  BY <1>1, <1>2, Held DEF HeldAt, Drops, counters
<1>6. ASSUME NEW s \in Storages PROVE num'[s] + TestGain(j, s) <= num[s] + SwitchGain(j, s)
  <2>1. ReadHeld(j)' = ReadHeld(j)
    BY <1>1, <1>2, Held DEF HeldAt
  <2>2. TestGain(j, s) = 0 /\ SwitchGain(j, s) \in 0..1
    BY <1>1, <1>2, <2>1 DEF TestGain, SwitchGain, In, Tested, Switchers, Readers
  <2>3. num[s] \in Int
    BY DEF Types
  <2>4. QED BY <1>2, <2>2, <2>3
<1>7. QED BY <1>2, <1>3, <1>4, <1>5, <1>6, StepPreserves DEF Step, Acquiring

LEMMA SelectPreserves ==
    ASSUME IInv, NEW j \in Jobs, NEW st \in Storages, select_rstore(j, st) PROVE IInv'
<1> USE DEF IInv
<1> DEFINE R == Range(rlist[j])
<1>1. /\ IncUnderWay(j) /\ ListsKept(j) /\ pc[j] \in {"run", "work"} /\ Kind[j] = "restore"
      /\ ~unused[j] /\ ~tested[j]
  BY DEF JobsKept, ListsKept, IncUnderWay, select_rstore
<1>2. /\ pc' = [pc EXCEPT ![j] = "switch"]
      /\ num' = Minus(num, R) /\ numread' = Minus(numread, R)
      /\ rlist' = [rlist EXCEPT ![j] = <<st>>] /\ rstore' = [rstore EXCEPT ![j] = st]
      /\ todo' = [todo EXCEPT ![j] = <<st>>] /\ got' = [got EXCEPT ![j] = <<>>]
      /\ wlist' = wlist /\ wstore' = wstore /\ unused' = unused /\ wjcr' = wjcr /\ tested' = tested
  BY DEF select_rstore, dec_read_stores, ReadCounts, Goto, BeginInc
<1>3. /\ pc'[j] = "switch" /\ rlist'[j] = <<st>> /\ rstore'[j] = st
      /\ todo'[j] = <<st>> /\ got'[j] = <<>>
  BY <1>2 DEF Types
<1>4. num \in [Storages -> Int] /\ numread \in [Storages -> Int]
  BY DEF Types
<1>5. Types'
  <2>1. pc' \in [Jobs -> Stages] /\ rstore' \in [Jobs -> Storages \union {NoStore}]
    BY <1>2 DEF Types, Stages
  <2>2. rlist' \in [Jobs -> Lists] /\ todo' \in [Jobs -> Lists] /\ got' \in [Jobs -> Lists]
    BY <1>2, ShortLists DEF Types
  <2>3. num' \in [Storages -> Int] /\ numread' \in [Storages -> Int]
    BY <1>2, <1>4, PlusMinus
  <2>4. QED BY <1>2, <2>1, <2>2, <2>3 DEF Types
<1>6. IncUnderWay(j)'
  BY <1>1, <1>2, <1>3, ShortLists DEF IncUnderWay, Looked
<1>7. ListsKept(j)'
  BY <1>1, <1>2, <1>3, ShortLists, StoreAssumption DEF ListsKept
<1>8. ReadHeld(j) = R /\ WriteHeld(j) = Range(wlist[j])
  BY <1>1, Held DEF HeldAt
<1>9. ReadHeld(j)' = {} /\ WriteHeld(j)' = Range(wlist[j])
  BY <1>1, <1>2, <1>3, Held, ShortLists DEF HeldAt
<1>10. ASSUME NEW s \in Storages
       PROVE  /\ num'[s] = num[s] - In(s \in R) /\ numread'[s] = numread[s] - In(s \in R)
              /\ num[s] \in Int /\ numread[s] \in Int /\ In(s \in R) \in 0..1
              /\ ReadGain(j, s) = 0 - In(s \in R) /\ WriteGain(j, s) = 0
  <2>1. num'[s] = num[s] - In(s \in R) /\ numread'[s] = numread[s] - In(s \in R)
    BY <1>2, <1>4, PlusMinus
  <2>2. ReadGain(j, s) = 0 - In(s \in R) /\ WriteGain(j, s) = 0 /\ In(s \in R) \in 0..1
    BY <1>8, <1>9 DEF ReadGain, WriteGain, In
  <2>3. QED BY <1>4, <2>1, <2>2
<1> HIDE DEF R
<1>11. Balanced(j)
  BY <1>10 DEF Balanced
<1>12. ASSUME NEW s \in Storages PROVE num'[s] + TestGain(j, s) <= num[s] + SwitchGain(j, s)
  <2>1. TestGain(j, s) = 0
    BY <1>1, <1>2 DEF TestGain, In, Tested
  <2>2. SwitchGain(j, s) = 0 \/ (SwitchGain(j, s) = -1 /\ s \in R)
    BY <1>8, <1>9 DEF SwitchGain, In, Switchers, Readers
  <2>3. s \in R => In(s \in R) = 1
    BY DEF In
  <2>4. QED BY <1>10, <2>1, <2>2, <2>3
<1>13. QED BY <1>3, <1>5, <1>6, <1>7, <1>11, <1>12, StepPreserves DEF Step, Acquiring

LEMMA SwitchEndsPreserves ==
    ASSUME IInv, NEW j \in Jobs, Switched(j) \/ RetrySwitch(j) \/ reset_rstorage(j) PROVE IInv'
<1> USE DEF IInv
<1>1. /\ IncUnderWay(j) /\ ListsKept(j) /\ pc[j] = "switch" /\ Kind[j] = "restore"
      /\ ~unused[j] /\ ~tested[j] /\ todo[j] = <<>> /\ Looked(j, rlist[j])
      /\ \E s \in Storages : Range(rlist[j]) = {s}
  BY DEF JobsKept, ListsKept, IncUnderWay, Switched, RetrySwitch, reset_rstorage, IncCallEnds
<1>2. /\ num' = num /\ numread' = numread /\ wlist' = wlist /\ wstore' = wstore
      /\ unused' = unused /\ wjcr' = wjcr /\ tested' = tested
  BY DEF Switched, RetrySwitch, reset_rstorage, counters, lists, incVars, BeginInc
<1>3. got[j] \in Lists /\ rlist[j] \in Lists
  BY DEF Types
<1>4. ReadHeld(j) = Range(got[j]) /\ WriteHeld(j) = Range(wlist[j])
  BY <1>1, Held DEF HeldAt
<1>5. CASE Switched(j)
  <2>1. /\ pc'[j] = "work" /\ pc' \in [Jobs -> Stages] /\ rlist' = rlist /\ rstore' = rstore
        /\ got[j] # <<>>
        /\ todo' = [todo EXCEPT ![j] = <<>>] /\ got' = [got EXCEPT ![j] = <<>>]
    BY <1>5 DEF Switched, Goto, BeginInc, Types, Stages, lists
  <2>2. todo' \in [Jobs -> Lists] /\ got' \in [Jobs -> Lists]
    BY <2>1, ShortLists DEF Types
  <2>3. Types'
    BY <1>2, <2>1, <2>2 DEF Types
  <2>4. IncUnderWay(j)' /\ ListsKept(j)'
    BY <1>1, <1>2, <2>1 DEF IncUnderWay, ListsKept
  <2>5. Range(got[j]) = Range(rlist[j])
    <3>1. Range(got[j]) # {} /\ Range(got[j]) \subseteq Range(rlist[j])
      BY <1>1, <1>3, <2>1, ListElements DEF Looked
    <3>2. QED BY <1>1, <3>1
  <2>6. ReadHeld(j)' = Range(rlist[j]) /\ WriteHeld(j)' = Range(wlist[j])
    BY <1>1, <1>2, <2>1, Held DEF HeldAt
  <2>7. Drops(j)
    BY <1>2, <1>4, <2>5, <2>6 DEF Drops, counters
  <2>8. ASSUME NEW s \in Storages PROVE num'[s] + TestGain(j, s) <= num[s] + SwitchGain(j, s)
    <3>1. TestGain(j, s) = 0 /\ SwitchGain(j, s) = 0
      BY <1>1, <1>2, <1>4, <2>1, <2>5, <2>6 DEF TestGain, SwitchGain, In, Tested, Switchers, Readers
    <3>2. QED BY <1>2, <3>1 DEF Types
  <2>9. QED BY <2>1, <2>3, <2>4, <2>7, <2>8, StepPreserves DEF Step, Acquiring
<1>6. CASE RetrySwitch(j)
  <2>1. /\ pc' = pc /\ rlist' = rlist /\ rstore' = rstore /\ got[j] = <<>>
        /\ todo' = [todo EXCEPT ![j] = rlist[j]] /\ got' = [got EXCEPT ![j] = <<>>]
    BY <1>6 DEF RetrySwitch, BeginInc, lists
  <2>2. todo' \in [Jobs -> Lists] /\ got' \in [Jobs -> Lists]
    BY <1>3, <2>1, ShortLists DEF Types
  <2>3. Types'
    BY <1>2, <2>1, <2>2 DEF Types
  <2>4. todo'[j] = rlist[j] /\ got'[j] = <<>>
    BY <2>1 DEF Types
  <2>5. IncUnderWay(j)' /\ ListsKept(j)'
    <3>1. IncUnderWay(j)'
      BY <1>1, <1>2, <2>1, <2>4, ShortLists DEF IncUnderWay, Looked
    <3>2. ListsKept(j)'
      BY <1>1, <1>2, <2>1 DEF ListsKept
    <3>3. QED BY <3>1, <3>2
  <2>6. ReadHeld(j)' = Range(got[j]) /\ WriteHeld(j)' = Range(wlist[j])
    BY <1>1, <1>2, <2>1, <2>4, Held DEF HeldAt
  <2>7. Drops(j)
    BY <1>2, <1>4, <2>6 DEF Drops, counters
  <2>8. ASSUME NEW s \in Storages PROVE num'[s] + TestGain(j, s) <= num[s] + SwitchGain(j, s)
    <3>1. TestGain(j, s) = 0 /\ SwitchGain(j, s) = 0
      BY <1>1, <1>2, <1>4, <2>1, <2>6 DEF TestGain, SwitchGain, In, Tested, Switchers, Readers
    <3>2. QED BY <1>2, <3>1 DEF Types
  <2>9. QED BY <1>1, <2>1, <2>3, <2>5, <2>7, <2>8, StepPreserves DEF Step, Acquiring
<1>7. CASE reset_rstorage(j)
  <2>1. /\ pc' = [pc EXCEPT ![j] = "end"] /\ got[j] = <<>> /\ todo' = todo /\ got' = got
        /\ rlist' = [rlist EXCEPT ![j] = <<>>] /\ rstore' = [rstore EXCEPT ![j] = NoStore]
    BY <1>7 DEF reset_rstorage, Goto, incVars
  <2>2. /\ pc'[j] = "end" /\ rlist'[j] = <<>> /\ rstore'[j] = NoStore
        /\ pc' \in [Jobs -> Stages] /\ rlist' \in [Jobs -> Lists]
        /\ rstore' \in [Jobs -> Storages \union {NoStore}]
    BY <2>1, ShortLists DEF Types, Stages
  <2>3. Types'
    BY <1>2, <2>1, <2>2 DEF Types
  <2>4. IncUnderWay(j)' /\ ListsKept(j)'
    BY <1>1, <1>2, <2>2 DEF IncUnderWay, ListsKept
  <2>5. ReadHeld(j)' = {} /\ WriteHeld(j)' = Range(wlist[j]) /\ ReadHeld(j) = {}
    BY <1>1, <1>2, <1>4, <2>1, <2>2, Held, ShortLists DEF HeldAt
  <2>6. Drops(j)
    BY <1>2, <1>4, <2>5 DEF Drops, counters
  <2>7. ASSUME NEW s \in Storages PROVE num'[s] + TestGain(j, s) <= num[s] + SwitchGain(j, s)
    <3>1. TestGain(j, s) = 0 /\ SwitchGain(j, s) = 0
      BY <1>1, <1>2, <2>2, <2>5 DEF TestGain, SwitchGain, In, Tested, Switchers, Readers
    <3>2. QED BY <1>2, <3>1 DEF Types
  <2>8. QED BY <2>2, <2>3, <2>4, <2>6, <2>7, StepPreserves DEF Step, Acquiring
<1>8. QED BY <1>5, <1>6, <1>7

-----------------------------------------------------------------------------
(* do_mac.                                                                 *)
LEMMA MacPreserves ==
    ASSUME IInv, NEW j \in Jobs, do_mac(j) PROVE IInv'
<1> USE DEF IInv
<1>1. IncUnderWay(j) /\ ListsKept(j) /\ pc[j] = "run" /\ Kind[j] = "copy" /\ ~unused[j] /\ ~tested[j]
  BY DEF JobsKept, ListsKept, IncUnderWay, do_mac
<1>2. /\ pc' = [pc EXCEPT ![j] = "work"] /\ wjcr' = [wjcr EXCEPT ![j] = wlist[j]]
      /\ wlist' = [wlist EXCEPT ![j] = <<>>] /\ wstore' = [wstore EXCEPT ![j] = NoStore]
      /\ num' = num /\ numread' = numread /\ unused' = unused
      /\ todo' = todo /\ got' = got /\ tested' = tested
  BY DEF do_mac, Goto, counters, incVars
<1>3. rlist[j] \in Lists /\ wlist[j] \in Lists /\ Range(rlist[j]) \subseteq Storages
  <2>1. rlist[j] \in Lists /\ wlist[j] \in Lists
    BY DEF Types
  <2>2. QED BY <2>1, ListElements
<1>4. /\ pc'[j] = "work" /\ wjcr'[j] = wlist[j] /\ wlist'[j] = <<>>
  BY <1>2 DEF Types
<1>5. /\ pc' \in [Jobs -> Stages] /\ wjcr' \in [Jobs -> Lists] /\ wlist' \in [Jobs -> Lists]
      /\ wstore' \in [Jobs -> Storages \union {NoStore}]
  BY <1>2, <1>3, ShortLists DEF Types, Stages
<1>6. /\ rlist' \in [Jobs -> Lists] /\ rstore' \in [Jobs -> Storages \union {NoStore}]
      /\ Range(rlist'[j]) \subseteq Range(rlist[j])
      /\ rstore'[j] = NoStore <=> rlist'[j] = <<>>
      /\ rlist'[j] = <<>> => rlist[j] = <<>>
  <2>1. CASE rlist' = rlist /\ rstore' = rstore
    BY <1>1, <2>1 DEF Types, ListsKept
  <2>2. ASSUME NEW s \in Range(rlist[j]),
               rlist' = [rlist EXCEPT ![j] = <<s>>], rstore' = [rstore EXCEPT ![j] = s]
        PROVE  /\ rlist' \in [Jobs -> Lists] /\ rstore' \in [Jobs -> Storages \union {NoStore}]
               /\ Range(rlist'[j]) \subseteq Range(rlist[j])
               /\ rstore'[j] # NoStore /\ rlist'[j] # <<>>
    <3>1. s \in Storages /\ <<s>> \in Lists /\ Range(<<s>>) = {s} /\ <<s>> # <<>> /\ s # NoStore
      BY <1>3, ShortLists, StoreAssumption
    <3>2. rlist'[j] = <<s>> /\ rstore'[j] = s
      BY <2>2 DEF Types
    <3>3. QED BY <2>2, <3>1, <3>2 DEF Types
  <2>3. QED BY <2>1, <2>2 DEF do_mac
<1>7. Types'
  BY <1>2, <1>5, <1>6 DEF Types
<1>8. IncUnderWay(j)' /\ ListsKept(j)'
  <2>1. IncUnderWay(j)'
    BY <1>1, <1>2, <1>4 DEF IncUnderWay
  <2>2. ListsKept(j)'
    BY <1>1, <1>2, <1>4, <1>6 DEF ListsKept
  <2>3. QED BY <2>1, <2>2
<1>9. ReadHeld(j) = Range(rlist[j]) /\ WriteHeld(j) = Range(wlist[j])
  BY <1>1, Held DEF HeldAt
<1>10. ReadHeld(j)' = Range(rlist'[j]) /\ WriteHeld(j)' = Range(wlist[j])
  BY <1>1, <1>4, Held DEF HeldAt
<1>11. NothingDropped => Range(rlist'[j]) = Range(rlist[j])
  <2> SUFFICES ASSUME NothingDropped PROVE Range(rlist[j]) \subseteq Range(rlist'[j])
    BY <1>6
  <2>1. \A s, u \in Range(rlist[j]) : s = u
    BY <1>1 DEF NothingDropped, ListsKept
  <2>2. Range(rlist[j]) # {} => Range(rlist'[j]) # {}
    <3>1. rlist'[j] \in Lists
      BY <1>6
    <3>2. QED BY <1>3, <1>6, <3>1, ListElements
  <2>3. QED BY <1>6, <2>1, <2>2
<1>12. Drops(j)
  BY <1>2, <1>6, <1>9, <1>10, <1>11 DEF Drops, counters
<1>13. ASSUME NEW s \in Storages PROVE num'[s] + TestGain(j, s) <= num[s] + SwitchGain(j, s)
  <2>1. TestGain(j, s) = 0 /\ SwitchGain(j, s) = 0
    BY <1>1, <1>2 DEF TestGain, SwitchGain, In, Tested, Switchers
  <2>2. QED BY <1>2, <2>1 DEF Types
<1>14. QED BY <1>4, <1>7, <1>8, <1>12, <1>13, StepPreserves DEF Step, Acquiring

LEMMA MacEndsPreserves ==
    ASSUME IInv, NEW j \in Jobs, mac_bail_out(j) PROVE IInv'
<1> USE DEF IInv
<1>1. IncUnderWay(j) /\ ListsKept(j) /\ pc[j] = "work" /\ Kind[j] = "copy" /\ ~unused[j] /\ ~tested[j]
  BY DEF JobsKept, ListsKept, IncUnderWay, mac_bail_out
<1>2. /\ pc' = [pc EXCEPT ![j] = "end"] /\ wlist' = [wlist EXCEPT ![j] = wjcr[j]]
      /\ wjcr' = [wjcr EXCEPT ![j] = <<>>] /\ wstore' = [wstore EXCEPT ![j] = First(wjcr[j])]
      /\ num' = num /\ numread' = numread /\ unused' = unused /\ rlist' = rlist /\ rstore' = rstore
      /\ todo' = todo /\ got' = got /\ tested' = tested
  BY DEF mac_bail_out, Goto, counters, incVars
<1>3. wjcr[j] \in Lists /\ First(wjcr[j]) \in Storages \union {NoStore}
  <2>1. wjcr[j] \in Lists
    BY DEF Types
  <2>2. QED BY <2>1, ListElements DEF First
<1>4. pc'[j] = "end" /\ wlist'[j] = wjcr[j]
  BY <1>2 DEF Types
<1>5. /\ pc' \in [Jobs -> Stages] /\ wjcr' \in [Jobs -> Lists] /\ wlist' \in [Jobs -> Lists]
      /\ wstore' \in [Jobs -> Storages \union {NoStore}]
  BY <1>2, <1>3, ShortLists DEF Types, Stages
<1>6. Types'
  BY <1>2, <1>5 DEF Types
<1>7. IncUnderWay(j)' /\ ListsKept(j)'
  <2>1. IncUnderWay(j)'
    BY <1>1, <1>2, <1>4 DEF IncUnderWay
  <2>2. ListsKept(j)'
    BY <1>1, <1>2, <1>4 DEF ListsKept
  <2>3. QED BY <2>1, <2>2
<1>8. Drops(j)
  <2>1. ReadHeld(j) = Range(rlist[j]) /\ WriteHeld(j) = Range(wjcr[j])
    BY <1>1, Held DEF HeldAt
  <2>2. ReadHeld(j)' = Range(rlist[j]) /\ WriteHeld(j)' = Range(wjcr[j])
    BY <1>1, <1>2, <1>4, Held DEF HeldAt
  <2>3. QED BY <1>2, <2>1, <2>2 DEF Drops, counters
<1>9. ASSUME NEW s \in Storages PROVE num'[s] + TestGain(j, s) <= num[s] + SwitchGain(j, s)
  <2>1. TestGain(j, s) = 0 /\ SwitchGain(j, s) = 0
    BY <1>1, <1>2 DEF TestGain, SwitchGain, In, Tested, Switchers
  <2>2. QED BY <1>2, <2>1 DEF Types
<1>10. QED BY <1>4, <1>6, <1>7, <1>8, <1>9, StepPreserves DEF Step, Acquiring

-----------------------------------------------------------------------------
LEMMA InitIInv == Init => IInv
<1> SUFFICES ASSUME Init PROVE IInv
  OBVIOUS
<1>1. RGroup \in [Jobs -> Lists] /\ WGroup \in [Jobs -> Lists]
  BY StoreAssumption DEF Lists
<1>2. ASSUME NEW q \in Lists PROVE First(q) \in Storages \union {NoStore} /\ (First(q) = NoStore <=> q = <<>>)
  BY ListElements, StoreAssumption DEF First
<1>3. Types
  BY <1>1, <1>2, ShortLists DEF Init, Types, Stages
<1>4. OneAcquires
  BY DEF Init, OneAcquires, Acquiring
<1>5. ASSUME NEW j \in Jobs PROVE IncUnderWay(j) /\ ListsKept(j)
  BY <1>1, <1>2 DEF Init, IncUnderWay, ListsKept
<1>6. ASSUME NEW s \in Storages
      PROVE  Readers(s) = {} /\ Writers(s) = {} /\ Tested(s) = {} /\ Switchers(s) = {}
  BY DEF Init, Readers, Writers, Tested, Switchers, ReadHeld, WriteHeld
<1>7. Cardinality({}) = 0
  BY FS_EmptySet
<1>8. Counted
  <2>1. \A s \in Storages : num[s] = 0 /\ numread[s] = 0
    BY DEF Init
  <2>2. \A s \in Storages : Cardinality(Readers(s)) = 0 /\ Cardinality(Writers(s)) = 0
    BY <1>6, <1>7
  <2>3. QED BY <2>1, <2>2 DEF Counted
<1>9. Limited
  <2>1. \A s \in Storages : num[s] = 0 /\ MaxConcurrentJobs[s] \in Nat
    BY StoreAssumption DEF Init
  <2>2. \A s \in Storages : Cardinality(Tested(s)) = 0 /\ Cardinality(Switchers(s)) = 0
    BY <1>6, <1>7
  <2>3. QED BY <2>1, <2>2 DEF Limited
<1>10. QED BY <1>3, <1>4, <1>5, <1>8, <1>9 DEF IInv, JobsKept

LEMMA NextIInv == IInv /\ [Next]_vars => IInv'
<1> SUFFICES ASSUME IInv, [Next]_vars PROVE IInv'
  OBVIOUS
<1>1. ASSUME NEW j \in Jobs, Step(j) PROVE IInv'
  BY <1>1, AcquirePreserves, TestPreserves, ReadIncPreserves, WriteIncPreserves,
     ReadIncEndsPreserves, WriteIncEndsPreserves, GrantedPreserves, ReleasePreserves,
     PolicyPreserves, NoneStartsPreserves, StartPreserves, SameStorePreserves,
     SelectPreserves, SwitchEndsPreserves, MacPreserves, MacEndsPreserves DEF Step
<1>2. CASE UNCHANGED vars
  <2> USE <1>2 DEF vars, counters, lists, incVars
  <2>1. Types' /\ OneAcquires'
    BY DEF IInv, Types, OneAcquires
  <2>2. JobsKept'
    BY DEF IInv, JobsKept, IncUnderWay, Looked, ListsKept
  <2>3. Counted' /\ Limited'
    BY DEF IInv, Counted, Limited, Readers, Writers, ReadHeld, WriteHeld, Tested, Switchers
  <2>4. QED BY <2>1, <2>2, <2>3 DEF IInv
<1>3. QED BY <1>1, <1>2 DEF Next, Step

(* The lists, the inc_stores calls and the counters: IInv always holds.    *)
THEOREM StoreInvariant == Spec => []IInv
BY InitIInv, NextIInv, PTL DEF Spec

(* No counter becomes negative, which incNumConcurrentJobs and             *)
(* incNumConcurrentReadJobs assert, whatever the groups and the policies.  *)
THEOREM StoreTypes == Spec => []TypeOK
<1>1. ASSUME IInv PROVE TypeOK
  <2>1. ASSUME NEW s \in Storages PROVE num[s] \in Nat /\ numread[s] \in Nat
    <3>1. IsFiniteSet(Readers(s)) /\ IsFiniteSet(Writers(s))
      BY StoreAssumption, FS_Subset DEF Readers, Writers
    <3>2. Cardinality(Readers(s)) \in Nat /\ Cardinality(Writers(s)) \in Nat
      BY <3>1, FS_CardinalityType
    <3>3. num[s] \in Int /\ numread[s] \in Int
      BY <1>1 DEF IInv, Types
    <3>4. QED BY <1>1, <3>2, <3>3 DEF IInv, Counted
  <2>2. num \in [Storages -> Nat] /\ numread \in [Storages -> Nat]
    BY <1>1, <2>1 DEF IInv, Types
  <2>3. QED BY <1>1, <2>2 DEF IInv, Types, Lists, TypeOK
<1>2. QED BY <1>1, StoreInvariant, PTL

(* No counter is leaked or given back twice, if no storage leaves a list   *)
(* behind the counters' back (NothingDropped).                             *)
THEOREM StoreCounters == ASSUME NothingDropped PROVE Spec => []StoresCounted
<1>1. IInv => StoresCounted
  BY DEF IInv, Counted, StoresCounted
<1>2. QED BY <1>1, StoreInvariant, PTL

(* MaxConcurrentJobs is exceeded by no more than the restores that took    *)
(* the storage outside the queue's mutex.                                  *)
THEOREM StoreLimit == Spec => []LimitRespected
<1>1. ASSUME IInv, NEW s \in Storages
      PROVE  num[s] <= MaxConcurrentJobs[s] + Cardinality(Switchers(s))
  <2>1. IsFiniteSet(Tested(s)) /\ IsFiniteSet(Switchers(s))
    BY StoreAssumption, FS_Subset DEF Tested, Switchers, Readers
  <2>2. Cardinality(Tested(s)) \in Nat /\ Cardinality(Switchers(s)) \in Nat
    BY <2>1, FS_CardinalityType
  <2>3. num[s] \in Int /\ MaxConcurrentJobs[s] \in Nat
    BY <1>1, StoreAssumption DEF IInv, Types
  <2>4. QED BY <1>1, <2>2, <2>3 DEF IInv, Limited
<1>2. IInv => LimitRespected
  BY <1>1 DEF LimitRespected
<1>3. QED BY <1>2, StoreInvariant, PTL

(* No job passes acquire_resources without being counted on a storage of   *)
(* each of its groups, if every storage answers the policy's query.        *)
THEOREM StoreCountedOnce == ASSUME Silent = {} PROVE Spec => []NoneUncounted
<1>1. ASSUME IInv, NEW j \in Jobs, pc[j] \in {"others", "run", "pick"}
      PROVE  /\ RGroup[j] # <<>> => ReadHeld(j) # {}
             /\ WGroup[j] # <<>> => WriteHeld(j) # {}
  <2>1. ListsKept(j) /\ rlist[j] \in Lists /\ wlist[j] \in Lists
    BY <1>1 DEF IInv, JobsKept, Types
  <2>2. ReadHeld(j) = Range(rlist[j]) /\ WriteHeld(j) = Range(wlist[j])
    BY <1>1, <2>1, Held DEF HeldAt, ListsKept
  <2>3. RGroup[j] # <<>> => rlist[j] # <<>>
    BY <1>1, <2>1 DEF ListsKept
  <2>4. WGroup[j] # <<>> => wlist[j] # <<>>
    BY <1>1, <2>1 DEF ListsKept
  <2>5. QED BY <2>1, <2>2, <2>3, <2>4, ListElements
<1>2. IInv => NoneUncounted
  BY <1>1 DEF NoneUncounted
<1>3. QED BY <1>2, StoreInvariant, PTL
==============================================================================
