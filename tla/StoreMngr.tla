------------------------------ MODULE StoreMngr ------------------------------
(***************************************************************************)
(* The storage manager of a job, dird/store_mngr.c, with the code that     *)
(* uses it: acquire_resources and the end of a job in jobq.c, do_backup,   *)
(* select_rstore (restore.c) and do_mac.  A job may be given groups of     *)
(* storages.  It is counted on every storage of its groups that has room,  *)
(* picks one later and gives the others back.                              *)
(*                                                                         *)
(* The queue takes and releases counters under jq->mutex, held exactly     *)
(* while some pc is in Acquiring.  The threads of running jobs change the  *)
(* same counters without that mutex.  Each access to a counter is atomic   *)
(* (globals_mutex); inc_rstore tests and increments in two accesses,       *)
(* inc_wstore in one.  A run of decrements is one step: nothing the code   *)
(* decides between them depends on it.                                     *)
(***************************************************************************)
EXTENDS Integers, FiniteSets, Sequences, SequencesExt

CONSTANTS
    Jobs, Storages, NoStore,
    MaxConcurrentJobs,      \* of each storage
    MaxConcurrentReadJobs,  \* of each storage, 0 for no limit
    Kind,           \* of each job: "backup", "restore", "copy" or "plain"
                    \* (verify, VirtualFull: nothing but counting)
    RGroup, WGroup, \* read and write storages of each job, in listed order
    Policy,         \* of each job: "ListedOrder", "LeastUsed",
                    \* "LastBackedUpTo" or "FreeSpace"
    Bootstrap,      \* storages the bootstrap file of a restore or copy names
    Silent,         \* storages that may fail to answer a free space query
    Reschedulable   \* backups with RescheduleOnError

ASSUME StoreAssumption ==
    /\ IsFiniteSet(Jobs) /\ IsFiniteSet(Storages) /\ NoStore \notin Storages
    /\ MaxConcurrentJobs \in [Storages -> Nat \ {0}]
    /\ MaxConcurrentReadJobs \in [Storages -> Nat]
    /\ Kind \in [Jobs -> {"backup", "restore", "copy", "plain"}]
    /\ RGroup \in [Jobs -> Seq(Storages)] /\ WGroup \in [Jobs -> Seq(Storages)]
    /\ \A j \in Jobs : /\ IsInjective(RGroup[j]) /\ IsInjective(WGroup[j])
                       /\ Bootstrap[j] \subseteq Storages
    /\ Policy \in [Jobs -> {"ListedOrder", "LeastUsed", "LastBackedUpTo", "FreeSpace"}]
    /\ Reschedulable \subseteq {j \in Jobs : Kind[j] = "backup"}

VARIABLES
    num, numread,   \* NumConcurrentJobs, NumConcurrentReadJobs of each storage
    pc,             \* where each job is
    rlist, wlist,   \* list of the read and of the write storage object
    rstore, wstore, \* their selected store
    unused,         \* unused_stores_decremented of the write storage
    wjcr,           \* write list a copy has handed to its wjcr
    todo, got,      \* an inc_stores under way: rest of tmp_list, new list
    tested          \* inc_rstore found room and has not yet incremented

counters == <<num, numread>>
lists    == <<rlist, wlist, rstore, wstore, unused, wjcr>>
incVars  == <<todo, got, tested>>
vars == <<counters, pc, lists, incVars>>

Acquiring == {"incread", "incwrite", "others"}
Stages == Acquiring \union {"queued", "run", "pick", "switch", "work", "end", "gone"}
MutexFree == \A j \in Jobs : pc[j] \notin Acquiring

First(list) == IF list = <<>> THEN NoStore ELSE Head(list)
Plus(n, S)  == [s \in Storages |-> IF s \in S THEN n[s] + 1 ELSE n[s]]
Minus(n, S) == [s \in Storages |-> IF s \in S THEN n[s] - 1 ELSE n[s]]

\* run_job has set up the lists (storage::set of a list)
Init ==
    /\ num = [s \in Storages |-> 0] /\ numread = [s \in Storages |-> 0]
    /\ pc = [j \in Jobs |-> "queued"]
    /\ rlist = RGroup /\ rstore = [j \in Jobs |-> First(RGroup[j])]
    /\ wlist = WGroup /\ wstore = [j \in Jobs |-> First(WGroup[j])]
    /\ unused = [j \in Jobs |-> FALSE]
    /\ wjcr = [j \in Jobs |-> <<>>]
    /\ todo = [j \in Jobs |-> <<>>] /\ got = [j \in Jobs |-> <<>>]
    /\ tested = [j \in Jobs |-> FALSE]

Goto(j, stage) == pc' = [pc EXCEPT ![j] = stage]

\* An inc_stores call starts; <<>> afterwards, when none is under way.
BeginInc(j, list) ==
    /\ todo' = [todo EXCEPT ![j] = list]
    /\ got' = [got EXCEPT ![j] = <<>>]
    /\ UNCHANGED tested

-----------------------------------------------------------------------------
\* storage::inc_stores, one storage at a time

\* what inc_rstore tests; a restore may exceed the limit on readers
RoomToRead(j, s) ==
    /\ num[s] < MaxConcurrentJobs[s]
    /\ \/ Kind[j] = "restore"
       \/ numread[s] = 0
       \/ MaxConcurrentReadJobs[s] = 0
       \/ numread[s] < MaxConcurrentReadJobs[s]

RoomToWrite_offByOne(s) == num[s] <= MaxConcurrentJobs[s]  \* mutant
\* tryIncNumConcurrentJobs
RoomToWrite(s) == num[s] < MaxConcurrentJobs[s]

inc_rstore_test(j) ==
    /\ pc[j] \in {"incread", "switch"} /\ todo[j] # <<>> /\ ~tested[j]
    /\ IF RoomToRead(j, Head(todo[j]))
       THEN tested' = [tested EXCEPT ![j] = TRUE] /\ UNCHANGED <<todo, got>>
       ELSE todo' = [todo EXCEPT ![j] = Tail(@)] /\ UNCHANGED <<tested, got>>
    /\ UNCHANGED <<counters, pc, lists>>

inc_rstore(j) ==
    /\ tested[j]
    /\ LET s == Head(todo[j]) IN
       /\ num' = Plus(num, {s}) /\ numread' = Plus(numread, {s})
       /\ got' = [got EXCEPT ![j] = Append(@, s)]
    /\ todo' = [todo EXCEPT ![j] = Tail(@)]
    /\ tested' = [tested EXCEPT ![j] = FALSE]
    /\ UNCHANGED <<pc, lists>>

inc_wstore(j) ==
    /\ pc[j] = "incwrite" /\ todo[j] # <<>>
    /\ LET s == Head(todo[j]) IN
       \/ /\ RoomToWrite(s)
          /\ num' = Plus(num, {s}) /\ got' = [got EXCEPT ![j] = Append(@, s)]
       \/ ~RoomToWrite(s) /\ UNCHANGED <<num, got>>
    /\ todo' = [todo EXCEPT ![j] = Tail(@)]
    /\ UNCHANGED <<numread, pc, lists, tested>>

KeptList_empty(tmp_list, counted) == counted    \* mutant
\* the list inc_stores leaves: the storages counted, or all of tmp_list when
\* there are none
KeptList(tmp_list, counted) == IF counted = <<>> THEN tmp_list ELSE counted

-----------------------------------------------------------------------------
\* storage::dec_stores of the read and of the write storage

ReadCounts(j) == Range(rlist[j])

WriteCounts(j) ==
    IF wlist[j] = <<>> THEN {}
    ELSE IF unused[j] THEN {wstore[j]} ELSE Range(wlist[j])

dec_read_stores(j) ==
    /\ num' = Minus(num, ReadCounts(j))
    /\ numread' = Minus(numread, ReadCounts(j))

\* both; a storage may be in both lists
DecStores(j) ==
    /\ num' = Minus(Minus(num, ReadCounts(j)), WriteCounts(j))
    /\ numread' = Minus(numread, ReadCounts(j))
    /\ unused' = [unused EXCEPT ![j] = @ /\ wlist[j] = <<>>]

-----------------------------------------------------------------------------
\* acquire_resources, under jq->mutex

acquire_resources(j) ==
    /\ pc[j] = "queued" /\ MutexFree
    /\ \/ rstore[j] # NoStore /\ Goto(j, "incread") /\ BeginInc(j, rlist[j])
       \/ rstore[j] = NoStore /\ Goto(j, "incwrite") /\ BeginInc(j, wlist[j])
    /\ UNCHANGED <<counters, lists>>

IncCallEnds(j) == todo[j] = <<>> /\ ~tested[j]

inc_read_stores(j) ==
    /\ pc[j] = "incread" /\ IncCallEnds(j)
    /\ rlist' = [rlist EXCEPT ![j] = KeptList(@, got[j])]
    /\ \/ got[j] # <<>> /\ Goto(j, "incwrite") /\ BeginInc(j, wlist[j])
       \/ got[j] = <<>> /\ Goto(j, "queued") /\ BeginInc(j, <<>>)
    /\ UNCHANGED <<counters, wlist, rstore, wstore, unused, wjcr>>

inc_write_stores(j) ==
    /\ pc[j] = "incwrite" /\ IncCallEnds(j)
    /\ wlist' = [wlist EXCEPT ![j] = KeptList(@, got[j])]
    /\ \/ /\ got[j] # <<>> \/ wlist[j] = <<>>
          /\ Goto(j, "others") /\ UNCHANGED counters
       \/ /\ got[j] = <<>> /\ wlist[j] # <<>>
          /\ Goto(j, "queued") /\ dec_read_stores(j)
    /\ BeginInc(j, <<>>)
    /\ UNCHANGED <<rlist, rstore, wstore, unused, wjcr>>

\* The counters of the client and of the Job resource (module JobQ) have room.
OthersGranted(j) ==
    /\ pc[j] = "others" /\ Goto(j, "run")
    /\ UNCHANGED <<counters, lists, incVars>>

\* mutant
BackOut_readKept(j) ==
    /\ pc[j] = "others" /\ Goto(j, "queued")
    /\ num' = Minus(num, WriteCounts(j))
    /\ UNCHANGED <<numread, lists, incVars>>

\* One of them is full: give the storages back.
BackOut(j) ==
    /\ pc[j] = "others" /\ Goto(j, "queued")
    /\ DecStores(j)
    /\ UNCHANGED <<rlist, wlist, rstore, wstore, wjcr, incVars>>

-----------------------------------------------------------------------------
\* do_backup: order the group, start on one storage, release the others

\* The storages of a list that are kept, in the order of a key; equal keys
\* stay in place.
OrdersBy(list, kept, key) ==
    LET Before(s, t) == \/ key[s] < key[t]
                        \/ /\ key[s] = key[t]
                           /\ \E a, b \in DOMAIN list : a < b /\ list[a] = s /\ list[b] = t
    IN  {order \in [1..Cardinality(kept) -> kept] :
            /\ IsInjective(order) /\ Range(order) = kept
            /\ \A a, b \in DOMAIN order : a < b => Before(order[a], order[b])}

\* LeastUsed orders by the counters.  The catalog's dates and the free space
\* are the environment's: any order.  A storage whose free space is not known
\* is dropped from the list.
PolicyOrders(j) ==
    LET stores == Range(wlist[j])
        Keys == [stores -> 1..Len(wlist[j])]
        AnyOrder(kept) == UNION {OrdersBy(wlist[j], kept, key) : key \in Keys}
    IN  CASE Policy[j] = "ListedOrder"    -> {wlist[j]}
          [] Policy[j] = "LeastUsed"      -> OrdersBy(wlist[j], stores, num)
          [] Policy[j] = "LastBackedUpTo" -> AnyOrder(stores)
          [] Policy[j] = "FreeSpace"      ->
                UNION {AnyOrder(stores \ failed) : failed \in SUBSET (Silent \intersect stores)}

apply_write_policy(j) ==
    /\ pc[j] = "run" /\ Kind[j] = "backup" /\ Goto(j, "pick")
    /\ IF Len(wlist[j]) = 1
       THEN UNCHANGED wlist
       ELSE \E order \in PolicyOrders(j) : wlist' = [wlist EXCEPT ![j] = order]
    /\ UNCHANGED <<counters, rlist, rstore, wstore, unused, wjcr, incVars>>

\* The Storage daemon of s takes the job, those tried before have refused it.
dec_unused_stores(j, s) ==
    /\ num' = Minus(num, Range(wlist[j]) \ {s})
    /\ unused' = [unused EXCEPT ![j] = TRUE]

StartOn(j, s) ==
    /\ pc[j] = "pick" /\ s \in Range(wlist[j])
    /\ wstore' = [wstore EXCEPT ![j] = s]
    /\ dec_unused_stores(j, s)
    /\ Goto(j, "work")
    /\ UNCHANGED <<numread, rlist, wlist, rstore, wjcr, incVars>>

\* All of them refuse; the last one tried stays selected.
NoneStarts(j) ==
    /\ pc[j] = "pick" /\ Goto(j, "end")
    /\ wstore' = [wstore EXCEPT ![j] = IF wlist[j] = <<>> THEN @ ELSE Last(wlist[j])]
    /\ UNCHANGED <<counters, rlist, wlist, rstore, unused, wjcr, incVars>>

-----------------------------------------------------------------------------
\* select_rstore: the next part of the bootstrap file is on storage s

SameStore(j, s) ==
    /\ pc[j] \in {"run", "work"} /\ Kind[j] = "restore"
    /\ s \in Bootstrap[j] /\ s = rstore[j]
    /\ Goto(j, "work")
    /\ UNCHANGED <<counters, lists, incVars>>

select_rstore(j, s) ==
    /\ pc[j] \in {"run", "work"} /\ Kind[j] = "restore"
    /\ s \in Bootstrap[j] /\ s # rstore[j]
    /\ dec_read_stores(j)
    /\ rlist' = [rlist EXCEPT ![j] = <<s>>]
    /\ rstore' = [rstore EXCEPT ![j] = s]
    /\ BeginInc(j, <<s>>)
    /\ Goto(j, "switch")
    /\ UNCHANGED <<wlist, wstore, unused, wjcr>>

\* inc_read_stores of the new storage returns: go on, sleep and try again, or
\* give up because the job is canceled or six hours are over.
Switched(j) ==
    /\ pc[j] = "switch" /\ IncCallEnds(j) /\ got[j] # <<>>
    /\ Goto(j, "work") /\ BeginInc(j, <<>>)
    /\ UNCHANGED <<counters, lists>>

RetrySwitch(j) ==
    /\ pc[j] = "switch" /\ IncCallEnds(j) /\ got[j] = <<>>
    /\ BeginInc(j, rlist[j])
    /\ UNCHANGED <<counters, pc, lists>>

reset_rstorage(j) ==
    /\ pc[j] = "switch" /\ IncCallEnds(j) /\ got[j] = <<>>
    /\ rlist' = [rlist EXCEPT ![j] = <<>>]
    /\ rstore' = [rstore EXCEPT ![j] = NoStore]
    /\ Goto(j, "end")
    /\ UNCHANGED <<counters, wlist, wstore, unused, wjcr, incVars>>

-----------------------------------------------------------------------------
\* do_mac: the write storages go to wjcr while the copy runs; one read
\* storage that can read the volumes is selected, when there is one

do_mac(j) ==
    /\ pc[j] = "run" /\ Kind[j] = "copy" /\ Goto(j, "work")
    /\ wjcr' = [wjcr EXCEPT ![j] = wlist[j]]
    /\ wlist' = [wlist EXCEPT ![j] = <<>>]
    /\ wstore' = [wstore EXCEPT ![j] = NoStore]
    /\ \/ \E s \in Range(rlist[j]) \intersect Bootstrap[j] :
            /\ rlist' = [rlist EXCEPT ![j] = <<s>>]
            /\ rstore' = [rstore EXCEPT ![j] = s]
       \/ UNCHANGED <<rlist, rstore>>  \* no bootstrap file, or no match
    /\ UNCHANGED <<counters, unused, incVars>>

mac_bail_out(j) ==
    /\ pc[j] = "work" /\ Kind[j] = "copy" /\ Goto(j, "end")
    /\ wlist' = [wlist EXCEPT ![j] = wjcr[j]]
    /\ wstore' = [wstore EXCEPT ![j] = First(wjcr[j])]
    /\ wjcr' = [wjcr EXCEPT ![j] = <<>>]
    /\ UNCHANGED <<counters, rlist, rstore, unused, incVars>>

-----------------------------------------------------------------------------
\* The engine has returned, after any failure too.  Under jq->mutex the
\* worker releases what the lists say; a failed backup is queued again with
\* the lists as they are.
JobDone(j) ==
    /\ \/ pc[j] \in {"run", "end"}
       \/ pc[j] = "work" /\ Kind[j] # "copy"
    /\ MutexFree
    /\ DecStores(j)
    /\ \/ Goto(j, "gone")
       \/ j \in Reschedulable /\ Goto(j, "queued")
    /\ UNCHANGED <<rlist, wlist, rstore, wstore, wjcr, incVars>>

Next == \E j \in Jobs :
    \/ acquire_resources(j)
    \/ inc_rstore_test(j) \/ inc_rstore(j) \/ inc_wstore(j)
    \/ inc_read_stores(j) \/ inc_write_stores(j)
    \/ OthersGranted(j) \/ BackOut(j)
    \/ apply_write_policy(j) \/ NoneStarts(j)
    \/ \E s \in Storages : StartOn(j, s) \/ SameStore(j, s) \/ select_rstore(j, s)
    \/ Switched(j) \/ RetrySwitch(j) \/ reset_rstorage(j)
    \/ do_mac(j) \/ mac_bail_out(j)
    \/ JobDone(j)

Spec == Init /\ [][Next]_vars

-----------------------------------------------------------------------------
\* What each job is counted for, told from where it is.

ReadHeld(j) ==
    CASE pc[j] \in {"queued", "gone"}    -> {}
      [] pc[j] \in {"incread", "switch"} -> Range(got[j])
      [] OTHER                           -> Range(rlist[j])

WriteHeld(j) ==
    CASE pc[j] \in {"queued", "incread", "gone"}    -> {}
      [] pc[j] = "incwrite"                         -> Range(got[j])
      [] pc[j] = "work" /\ Kind[j] = "copy"         -> Range(wjcr[j])
      [] OTHER -> IF unused[j] THEN {wstore[j]} ELSE Range(wlist[j])

Readers(s) == {j \in Jobs : s \in ReadHeld(j)}
Writers(s) == {j \in Jobs : s \in WriteHeld(j)}

\* Types.  The counters never become negative, which incNumConcurrentJobs and
\* incNumConcurrentReadJobs assert (dird_conf.c).
TypeOK ==
    /\ num \in [Storages -> Nat] /\ numread \in [Storages -> Nat]
    /\ pc \in [Jobs -> Stages]
    /\ \A f \in {rlist, wlist, wjcr, todo, got} :
          \A j \in Jobs : f[j] \in Seq(Storages) /\ IsInjective(f[j])
    /\ \A f \in {rstore, wstore} : f \in [Jobs -> Storages \union {NoStore}]
    /\ unused \in [Jobs -> BOOLEAN] /\ tested \in [Jobs -> BOOLEAN]

\* No counter is leaked or given back twice, on any path through the queue,
\* a backup, a restore that changes storages and a copy that lends its list:
\* NumConcurrentJobs and NumConcurrentReadJobs are the jobs that hold the
\* storage (inc_stores, dec_stores, dec_unused_stores).
StoresCounted ==
    \A s \in Storages :
        /\ num[s] = Cardinality(Readers(s)) + Cardinality(Writers(s))
        /\ numread[s] = Cardinality(Readers(s))

\* Restores that changed to s, or are about to, outside the queue's mutex
Switchers(s) == {j \in Readers(s) : Kind[j] = "restore" /\ pc[j] \in {"switch", "work", "end"}}

\* MaxConcurrentJobs of a storage is exceeded by no more than the restores
\* that took it in select_rstore: their test in inc_rstore and the queue's
\* may both precede both increments.  The queue alone never exceeds it.
LimitRespected ==
    \A s \in Storages :
        num[s] <= MaxConcurrentJobs[s] + Cardinality(Switchers(s))

\* A job never gets past acquire_resources without being counted on a storage
\* of each of its groups, however often it was turned away or re-run before:
\* inc_stores takes an empty list for success, so no failed attempt may leave
\* an empty list behind.
NoneUncounted ==
    \A j \in Jobs : pc[j] \in {"others", "run", "pick"} =>
        /\ RGroup[j] # <<>> => ReadHeld(j) # {}
        /\ WGroup[j] # <<>> => WriteHeld(j) # {}

\* Once no job holds or takes anything every storage is free again.
\* ("all of the storages which are not being used should be released",
\* jobq.c, acquire_resources.)
AllReleased ==
    (\A j \in Jobs : pc[j] \in {"queued", "gone"}) => \A s \in Storages : num[s] = 0

\* A restore reads from a storage of its current list, one it is counted on.
\* (store_mngr.h: the selected store "needs to be an item from the current
\* store list".)
SelectedIsListed ==
    \A j \in Jobs : Kind[j] = "restore" /\ pc[j] = "work" => rstore[j] \in Range(rlist[j])
==============================================================================
