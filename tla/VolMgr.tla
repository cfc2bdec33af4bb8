------------------------------- MODULE VolMgr -------------------------------
(***************************************************************************)
(* The volume manager of the Storage daemon (stored/vol_mgr.c): the list   *)
(* of volumes with the drive that owns each of them, the list of volumes   *)
(* that jobs are going to read, and the jobs that reserve a drive and a    *)
(* volume (reserve.c), mount the volume (mount.c, autochanger.c, label.c), *)
(* write, reach the end of a volume and release the drive (acquire.c).     *)
(*                                                                         *)
(* The drives are those of one autochanger: tape drives kept open, or the  *)
(* directories of a virtual disk changer; kind says which.  Every step is  *)
(* what the code does under lock_volumes(), or between two points where    *)
(* it holds no lock another job needs.  The read list has a mutex of its   *)
(* own, held for each search and each change only: a job that looks a      *)
(* volume up there and then reserves it does so in two steps, and restores *)
(* come and go in between.  Who may ask for which block of a drive is the  *)
(* subject of DevLock; here a drive that is blocked is one whose volume is *)
(* being changed.                                                          *)
(***************************************************************************)
EXTENDS Integers, Sequences, SequencesExt, FiniteSets, Functions

CONSTANTS
  Drives,       \* the drives of the changer
  NoDrive,      \* no drive
  Volumes,      \* the volumes of the pool; their names compare as numbers
  Jobs,         \* the jobs that append
  NoJob,        \* no job
  Readers,      \* JobIds of the jobs that read
  Bsr,          \* Bsr[r]: the volumes reader r is going to read, in order
  Kinds,        \* which kinds of changer: "tape", "file"
  MaxAttempts,  \* how often jobs may try to reserve a drive
  MaxFull       \* how many volumes may fill up

NoVol == 0

ASSUME VolumesAssumption == Volumes \subseteq Nat \ {NoVol}
ASSUME JobsAssumption ==
  /\ IsFiniteSet(Jobs) /\ NoJob \notin Jobs
  /\ Readers \subseteq Nat /\ Jobs \cap Readers = {}
ASSUME BsrAssumption == Bsr \in [Readers -> Seq(Volumes)]
ASSUME DrivesAssumption == NoDrive \notin Drives
ASSUME BoundsAssumption == MaxAttempts \in Nat /\ MaxFull \in Nat
ASSUME KindsAssumption == Kinds \subseteq {"tape", "file"}

VARIABLES
  kind,           \* the changer's kind
  vm,             \* volumes and drives, see VolState
  read_vol_list,  \* volumes to be read: entries <<JobId, name>>
  seen,           \* the read lists since the job began to look for a volume
  dcr,            \* each job's device control record
  pc,             \* where each job is
  blocked,        \* the job that is changing a drive's volume
  mount_mutex,    \* the job that holds it
  reservation,    \* the job that holds lock_reservations()
  full,           \* volumes the Director does not offer any more
  attempts,       \* attempts to reserve a drive so far
  crashed         \* a null dev->vol was dereferenced

vars == <<kind, vm, read_vol_list, seen, dcr, pc, blocked, mount_mutex,
          reservation, full, attempts, crashed>>

(***************************************************************************)
(* vm holds the volume list (name -> VOLRES) and of each drive: vol, the   *)
(* entry it points to; hdr, the label last read (VolHdr); loaded, the      *)
(* cartridge in it, or the file it has open; unload, swap_dev and append.  *)
(***************************************************************************)
VolRes == [dev : Drives, in_use : BOOLEAN, swapping : BOOLEAN]

VolState ==
  [list : UNION {[S -> VolRes] : S \in SUBSET Volumes},
   vol : [Drives -> Volumes \cup {NoVol}],
   hdr : [Drives -> Volumes \cup {NoVol}],
   loaded : [Drives -> Volumes \cup {NoVol}],
   unload : [Drives -> BOOLEAN],
   swap_dev : [Drives -> Drives \cup {NoDrive}],
   append : [Drives -> BOOLEAN]]

Dcr == [dev : Drives \cup {NoDrive}, reserved : BOOLEAN,
        reserved_volume : BOOLEAN, VolumeName : Volumes \cup {NoVol},
        writer : BOOLEAN]

NoDcr == [dev |-> NoDrive, reserved |-> FALSE, reserved_volume |-> FALSE,
          VolumeName |-> NoVol, writer |-> FALSE]

num_reserved(d) == Cardinality({j \in Jobs : dcr[j].dev = d /\ dcr[j].reserved})
num_writers(d) == Cardinality({j \in Jobs : dcr[j].dev = d /\ dcr[j].writer})
is_busy(d) == num_reserved(d) > 0 \/ num_writers(d) > 0

------------------------------------------------------------------------------
(***************************************************************************)
(* The read list.  It is ordered by JobId, then name; binary_search halves *)
(* the part of the list an entry can still be in, and compares the entry   *)
(* after the last one it looked at when one is left.                       *)
(***************************************************************************)
Sign(a, b) == IF a < b THEN -1 ELSE IF a > b THEN 1 ELSE 0
name_compare(e, f) == Sign(e[2], f[2])
read_compare(e, f) == IF e[1] # f[1] THEN Sign(e[1], f[1]) ELSE Sign(e[2], f[2])

\* The parts of a list of n entries that are still to be searched, by their
\* first and last entry.
Parts(n) == {p \in (1 .. n) \X (1 .. n) : p[1] < p[2]}

\* The entry compared last when part p is searched; comp[i] is how the item
\* searched compares with the i-th entry.
LastCompared(comp, last, p) ==
  LET mid == (p[1] + p[2]) \div 2
  IN  IF comp[mid] = 0 THEN mid
      ELSE IF comp[mid] < 0
        THEN IF mid = p[1] THEN mid + 1 ELSE last[<<p[1], mid>>]
        ELSE IF mid + 1 = p[2] THEN p[2] ELSE last[<<mid + 1, p[2]>>]

binary_search(comp) ==
  LET n == Len(comp)
      last[p \in Parts(n)] == LastCompared(comp, last, p)
  IN  n > 0 /\ comp[IF n = 1 THEN 1 ELSE last[<<1, n>>]] = 0

SearchByName(list, v) ==
  binary_search([i \in DOMAIN list |-> name_compare(<<0, v>>, list[i])])

SearchByKey(list, e) ==
  binary_search([i \in DOMAIN list |-> read_compare(e, list[i])])

\* The name alone is looked for, in a list ordered by JobId first.
is_read_volume_byKey(list, v) == SearchByKey(list, <<0, v>>)
is_read_volume(list, v) == SearchByName(list, v)

\* A search of the read list that job j makes at some moment since it began to
\* look for a volume does not find v there.
NotFound(j, v) == \E list \in seen[j] : ~is_read_volume(list, v)

\* binary_insert with read_compare: in order, each key once.
add_read_volume(list, e) ==
  LET behind == {i \in DOMAIN list : read_compare(e, list[i]) < 0}
  IN  IF e \in Range(list) THEN list
      ELSE IF behind = {} THEN Append(list, e)
      ELSE InsertAt(list, Min(behind), e)

remove_read_volume(list, e) ==
  IF SearchByKey(list, e) THEN RemoveFirst(list, e) ELSE list

------------------------------------------------------------------------------
(***************************************************************************)
(* Operations on the volume list, as functions of vm.                      *)
(***************************************************************************)
Without(list, v) == [w \in DOMAIN list \ {v} |-> list[w]]
With(list, v, item) == [w \in DOMAIN list \cup {v} |-> IF w = v THEN item ELSE list[w]]

\* Only a drive with a label in memory can be told to unload.
set_unload(s, d) == IF s.hdr[d] # NoVol THEN [s EXCEPT !.unload[d] = TRUE] ELSE s

Swapping(s, d) == s.list[s.vol[d]].swapping

free_volume(s, d) ==
  IF s.vol[d] = NoVol \/ Swapping(s, d) THEN s
  ELSE [s EXCEPT !.list = Without(s.list, s.vol[d]), !.vol[d] = NoVol]

MarkInUse(s, v, b) == [s EXCEPT !.list[v].in_use = b]

ClearInUse(s, d) == IF s.vol[d] = NoVol THEN s ELSE MarkInUse(s, s.vol[d], FALSE)

\* volume_unused: on a changer the entry stays, so that the daemon remembers
\* where the volume is.
volume_unused(s, d) == ClearInUse(s, d)

\* DEVICE::close forgets the label; a file is closed, a cartridge stays.
close(s, d) ==
  [s EXCEPT !.hdr[d] = NoVol, !.append[d] = FALSE,
            !.loaded[d] = IF kind = "file" THEN NoVol ELSE @]

\* The changer takes the cartridge out of drive d.
unload_drive(s, d) ==
  free_volume([close(s, d) EXCEPT !.loaded[d] = NoVol, !.unload[d] = FALSE], d)

\* unload_autochanger, called with what the changer reports as loaded
unload_autochanger(s, d) ==
  IF kind = "file" THEN [s EXCEPT !.unload[d] = FALSE]
  ELSE IF s.loaded[d] # NoVol THEN unload_drive(s, d) ELSE free_volume(s, d)

release_volume(s, d) ==
  LET u == unload_autochanger(s, d)
      c == IF kind = "file" THEN close(u, d) ELSE u
  IN  [free_volume(c, d) EXCEPT !.hdr[d] = NoVol, !.append[d] = FALSE]

SwapTo_oldKept(s, d, v) ==
  LET e == s.list[v].dev
      u == set_unload(set_unload(free_volume(s, d), d), e)
  IN  [u EXCEPT !.vol[d] = v, !.swap_dev[d] = e,
                !.list[v] = [dev |-> d, in_use |-> TRUE, swapping |-> TRUE]]

\* The volume moves from the drive that owns it to drive d.
SwapTo(s, d, v) ==
  LET e == s.list[v].dev
      u == set_unload(set_unload(free_volume(s, d), d), e)
  IN  [u EXCEPT !.vol[e] = NoVol, !.vol[d] = v, !.swap_dev[d] = e,
                !.list[v] = [dev |-> d, in_use |-> TRUE, swapping |-> TRUE]]

CanSwap_ignoresUse(s, v) == ~s.list[v].swapping
CanSwap(s, v) == ~is_busy(s.list[v].dev) /\ ~s.list[v].swapping

KeptByOther_never(s, d, v, mine) == FALSE

\* What reserve_volume makes of the volume drive d points to.
KeptByOther(s, d, v, mine) ==
  s.vol[d] \notin {NoVol, v} /\ s.list[s.vol[d]].in_use /\ ~mine

OldFreed(s, d) ==
  IF s.vol[d] = NoVol THEN s
  ELSE free_volume(IF s.vol[d] = s.hdr[d] THEN set_unload(s, d) ELSE s, d)

Reserved(ok, s) == [ok |-> ok, vm |-> s]

\* reserve_volume under lock_volumes()
Reserve(s, d, v, mine) ==
  IF KeptByOther(s, d, v, mine) THEN Reserved(FALSE, s)
  ELSE IF s.vol[d] = v THEN Reserved(TRUE, MarkInUse(s, v, TRUE))
  ELSE LET f == OldFreed(s, d)
       IN  IF v \notin DOMAIN f.list
             THEN Reserved(TRUE, [f EXCEPT !.vol[d] = v, !.list =
                    With(f.list, v, [dev |-> d, in_use |-> TRUE, swapping |-> FALSE])])
           ELSE IF f.list[v].dev = d
             THEN Reserved(TRUE, MarkInUse([f EXCEPT !.vol[d] = v], v, TRUE))
           ELSE IF CanSwap(f, v) THEN Reserved(TRUE, SwapTo(f, d, v))
           ELSE Reserved(FALSE, f)

\* What comes of it for job j: a canceled or incomplete job is refused, and so
\* is one whose search of the read list, before the lock, finds the volume.
reserve_volume(j, s, v) ==
  {Reserved(FALSE, s)} \cup
    IF NotFound(j, v) THEN {Reserve(s, dcr[j].dev, v, dcr[j].reserved_volume)} ELSE {}

can_i_use_volume(s, d, v) ==
  v \in DOMAIN s.list => s.list[v].dev = d \/ ~is_busy(s.list[v].dev)

can_i_write_volume(j, v) == NotFound(j, v) /\ can_i_use_volume(vm, dcr[j].dev, v)

------------------------------------------------------------------------------
(***************************************************************************)
(* Reserving a drive and a volume (reserve.c), under lock_reservations().  *)
(***************************************************************************)
Init ==
  /\ kind \in Kinds
  /\ vm = [list |-> << >>,
           vol |-> [d \in Drives |-> NoVol], hdr |-> [d \in Drives |-> NoVol],
           loaded |-> [d \in Drives |-> NoVol],
           unload |-> [d \in Drives |-> FALSE],
           swap_dev |-> [d \in Drives |-> NoDrive],
           append |-> [d \in Drives |-> FALSE]]
  /\ read_vol_list = << >>
  /\ seen = [j \in Jobs |-> {}]
  /\ dcr = [j \in Jobs |-> NoDcr]
  /\ pc = [j \in Jobs \cup Readers |-> "start"]
  /\ blocked = [d \in Drives |-> NoJob]
  /\ mount_mutex = NoJob
  /\ reservation = NoJob
  /\ full = {}
  /\ attempts = 0
  /\ crashed = FALSE

\* Where a job searches the read list and then reserves a volume.
Searching == {"reserve", "find", "label"}

Goto(j, l) ==
  /\ pc' = [pc EXCEPT ![j] = l]
  /\ seen' = [seen EXCEPT ![j] = IF l \in Searching THEN {read_vol_list} ELSE {}]

\* The drive's mutex is free: only unreserve_device holds it over two steps.
Lock(d) == \A j \in Jobs : dcr[j].dev = d => pc[j] \notin {"unused", "unused_end"}

\* One attempt: new_dcr points the job at drive d, reserve_device_for_append
\* counts it there.
reserve_device_for_append(j, d) ==
  /\ pc[j] = "start" /\ attempts < MaxAttempts
  /\ reservation \in {NoJob, j}
  /\ ~dcr[j].reserved /\ Lock(d)
  /\ dcr' = [dcr EXCEPT ![j] = [@ EXCEPT !.dev = d, !.reserved = TRUE]]
  /\ reservation' = j
  /\ attempts' = attempts + 1
  /\ Goto(j, "reserve")
  /\ UNCHANGED <<kind, vm, read_vol_list, blocked, mount_mutex, full, crashed>>

\* With a volume of the volume list the drive is the one the list gave; the
\* volume may have moved since the list was copied.
reserve_known_volume(j, v) ==
  /\ pc[j] = "reserve"
  /\ v \in Volumes \ full
  /\ \E r \in reserve_volume(j, vm, v) :
       /\ vm' = r.vm
       /\ dcr' = IF r.ok THEN [dcr EXCEPT ![j] = [@ EXCEPT !.VolumeName = v, !.reserved_volume = TRUE]]
                         ELSE dcr
       /\ Goto(j, IF r.ok THEN "reserved" ELSE "start")
  /\ reservation' = NoJob
  /\ UNCHANGED <<kind, read_vol_list, blocked, mount_mutex, full, attempts, crashed>>

\* dir_find_next_appendable_volume, all of it under lock_volumes(): the
\* Director offers volumes that are not full, in any order; the first that may
\* be written and can be reserved is taken.  One tried before it can have cost
\* the drive its old entry.  None is found if the Director offers no other, or
\* the job is canceled.
FindResults(j) ==
  LET offered == {v \in Volumes \ full : can_i_write_volume(j, v)}
      try(s, v) == Reserve(s, dcr[j].dev, v, dcr[j].reserved_volume)
      before == {vm} \cup {try(vm, u).vm : u \in {w \in offered : ~try(vm, w).ok}}
      result(s, v) == <<IF try(s, v).ok THEN v ELSE NoVol, try(s, v)>>
  IN  {<<NoVol, Reserved(FALSE, vm)>>} \cup UNION {{result(s, v) : v \in offered} : s \in before}

Named(j, v) == [dcr EXCEPT ![j].VolumeName = v, ![j].reserved_volume = @ \/ v # NoVol]

\* Without one the Director is asked.  When it has none to offer, the job
\* keeps the drive without a volume if nobody writes there, and else tries
\* again later, still counted on the drive.
reserve_any_volume(j) ==
  /\ pc[j] = "reserve"
  /\ \E f \in FindResults(j) :
       /\ vm' = f[2].vm
       /\ dcr' = Named(j, f[1])
       /\ Goto(j, IF f[1] # NoVol \/ num_writers(dcr[j].dev) = 0 THEN "reserved" ELSE "start")
  /\ reservation' = NoJob
  /\ UNCHANGED <<kind, read_vol_list, blocked, mount_mutex, full, attempts, crashed>>

\* unreserve_device: another attempt on a drive, or the end of a job that
\* never started.  The last one to go marks the volume as not used: it has
\* seen that dev->vol is there, and does not hold lock_volumes().
unreserve_device(j) ==
  LET d == dcr[j].dev
      last == num_reserved(d) = 1 /\ num_writers(d) = 0
      target == IF pc[j] = "start" /\ attempts < MaxAttempts THEN "start" ELSE "done"
  IN  /\ pc[j] \in {"start", "reserved"} /\ dcr[j].reserved /\ Lock(d)
      /\ dcr' = [dcr EXCEPT ![j].reserved = FALSE, ![j].reserved_volume = FALSE]
      /\ Goto(j, IF last /\ vm.vol[d] # NoVol
                   THEN IF target = "done" THEN "unused_end" ELSE "unused"
                   ELSE target)
      /\ UNCHANGED <<kind, vm, read_vol_list, blocked, mount_mutex, reservation,
                     full, attempts, crashed>>

unreserve_marks(j) ==
  LET d == dcr[j].dev IN
  /\ pc[j] \in {"unused", "unused_end"}
  /\ crashed' = (vm.vol[d] = NoVol)
  /\ vm' = volume_unused(vm, d)
  /\ Goto(j, IF pc[j] = "unused" THEN "start" ELSE "done")
  /\ UNCHANGED <<kind, read_vol_list, dcr, blocked, mount_mutex, reservation,
                 full, attempts>>

------------------------------------------------------------------------------
(***************************************************************************)
(* Mounting a volume to write on it (acquire.c, mount.c).                  *)
(***************************************************************************)
Suitable(s, d) ==
  s.hdr[d] \notin full \cup {NoVol} /\ s.swap_dev[d] = NoDrive /\ ~s.unload[d]

StartsWriting(j) == [dcr EXCEPT ![j] = [@ EXCEPT !.reserved = FALSE, !.writer = TRUE]]

\* A drive that is appending to a volume the Director accepts is used as it
\* is; else it is blocked and a volume mounted.
acquire_device_for_append(j) ==
  LET d == dcr[j].dev
      s == [vm EXCEPT !.unload[d] = FALSE]
      ready == s.append[d] /\ Suitable(s, d)
  IN  /\ pc[j] = "reserved" /\ blocked[d] = NoJob /\ Lock(d)
      /\ vm' = s
      /\ IF ready
           THEN /\ dcr' = [StartsWriting(j) EXCEPT ![j].VolumeName = s.hdr[d]]
                /\ Goto(j, "writing") /\ UNCHANGED blocked
           ELSE /\ blocked' = [blocked EXCEPT ![d] = j]
                /\ Goto(j, "mount") /\ UNCHANGED dcr
      /\ UNCHANGED <<kind, read_vol_list, mount_mutex, reservation, full,
                     attempts, crashed>>

\* do_unload and do_swapping
Unswapped(s, d) ==
  LET e == s.swap_dev[d]
      u == IF s.unload[e] /\ s.loaded[e] # NoVol /\ kind = "tape" THEN unload_drive(s, e) ELSE s
      c == IF u.vol[d] = NoVol THEN u
           ELSE [u EXCEPT !.list[u.vol[d]].swapping = FALSE,
                          !.list[u.vol[d]].in_use = FALSE, !.hdr[d] = NoVol]
  IN  [c EXCEPT !.swap_dev[d] = NoDrive]

mount_begins(j) ==
  LET d == dcr[j].dev
      u == IF vm.unload[d] THEN release_volume(vm, d) ELSE vm
  IN  /\ pc[j] \in {"mount", "remount"} /\ mount_mutex \in {NoJob, j}
      /\ mount_mutex' = j
      /\ vm' = IF u.swap_dev[d] = NoDrive THEN u ELSE Unswapped(u, d)
      /\ dcr' = IF vm.unload[d] THEN [dcr EXCEPT ![j].VolumeName = NoVol] ELSE dcr
      /\ Goto(j, "find")
      /\ UNCHANGED <<kind, read_vol_list, blocked, reservation, full, attempts, crashed>>

\* find_a_volume: the mounted one, else the drive's entry, else one the
\* Director offers; when there is none the job waits or asks the operator.
find_a_volume(j) ==
  LET d == dcr[j].dev
      known == IF Suitable(vm, d) THEN vm.hdr[d] ELSE vm.vol[d]
  IN  /\ pc[j] = "find"
      /\ \/ /\ known \notin full \cup {NoVol}
            /\ dcr' = [dcr EXCEPT ![j].VolumeName = known]
            /\ Goto(j, "load") /\ UNCHANGED <<vm, mount_mutex>>
         \/ /\ known \in full \cup {NoVol}
            /\ \E f \in FindResults(j) :
                 /\ vm' = f[2].vm
                 /\ dcr' = Named(j, f[1])
                 /\ Goto(j, IF f[1] = NoVol THEN "ask" ELSE "load")
                 /\ mount_mutex' = IF f[1] = NoVol THEN NoJob ELSE j
      /\ UNCHANGED <<kind, read_vol_list, blocked, reservation, full, attempts, crashed>>

\* autoload_device of a real changer: the own drive first, then the drive
\* the cartridge is in.
Holding(v) == {e \in Drives : vm.loaded[e] = v}

autoload_device(j) ==
  LET d == dcr[j].dev
      v == dcr[j].VolumeName
  IN  /\ pc[j] = "load"
      /\ IF kind = "file" \/ vm.loaded[d] = v
           THEN Goto(j, "label") /\ UNCHANGED vm
           ELSE /\ vm' = IF vm.loaded[d] = NoVol THEN vm ELSE unload_drive(vm, d)
                /\ Goto(j, "unload_other")
      /\ UNCHANGED <<kind, read_vol_list, dcr, blocked, mount_mutex, reservation,
                     full, attempts, crashed>>

\* unload_other_drive waits for a busy drive three times, then gives up; the
\* test and the unloading are not one step for the jobs of the other drive.
unload_other_drive(j) ==
  LET d == dcr[j].dev
      busy == \E e \in Holding(dcr[j].VolumeName) : is_busy(e)
  IN  /\ pc[j] = "unload_other"
      /\ vm' = IF busy THEN volume_unused(vm, d) ELSE vm
      /\ Goto(j, IF busy THEN "label" ELSE "loading")
      /\ UNCHANGED <<kind, read_vol_list, dcr, blocked, mount_mutex, reservation,
                     full, attempts, crashed>>

ClearSwapping(s, d) ==
  IF s.vol[d] = NoVol THEN s ELSE [s EXCEPT !.list[s.vol[d]].swapping = FALSE]

load_volume(j) ==
  LET d == dcr[j].dev
      v == dcr[j].VolumeName
      other == Holding(v)
      u == IF other = {} THEN vm ELSE unload_drive(vm, CHOOSE e \in other : TRUE)
  IN  /\ pc[j] = "loading"
      /\ vm' = ClearSwapping([close(u, d) EXCEPT !.loaded[d] = v], d)
      /\ Goto(j, "label")
      /\ UNCHANGED <<kind, read_vol_list, dcr, blocked, mount_mutex, reservation,
                     full, attempts, crashed>>

\* Reading the label (read_dev_volume_label): the drive now knows what it
\* holds; a volume other than the wanted one is taken if the Director accepts
\* it and the list gives it to this drive.
LabelRead(s, d, v) ==
  LET o == IF kind = "file" /\ s.loaded[d] = NoVol THEN [s EXCEPT !.loaded[d] = v] ELSE s
  IN  [o EXCEPT !.hdr[d] = o.loaded[d], !.append[d] = FALSE,
                !.unload[d] = @ /\ kind = "tape"]

check_volume_label(j) ==
  LET d == dcr[j].dev
      s == LabelRead(vm, d, dcr[j].VolumeName)
      v == s.hdr[d]
      accepted == v # NoVol /\ (v = dcr[j].VolumeName \/ (~s.unload[d] /\ v \notin full))
  IN  /\ pc[j] = "label" /\ Lock(d)
      /\ \E r \in IF accepted THEN reserve_volume(j, s, v) ELSE {Reserved(FALSE, s)} :
           IF r.ok
             THEN /\ vm' = [r.vm EXCEPT !.append[d] = TRUE]
                  /\ dcr' = [StartsWriting(j) EXCEPT ![j].VolumeName = v,
                                                     ![j].reserved_volume = TRUE]
                  /\ blocked' = [blocked EXCEPT ![d] = NoJob]
                  /\ mount_mutex' = NoJob
                  /\ Goto(j, "writing")
             ELSE /\ vm' = set_unload(r.vm, d)
                  /\ Goto(j, "remount")
                  /\ UNCHANGED <<dcr, blocked, mount_mutex>>
      /\ UNCHANGED <<kind, read_vol_list, reservation, full, attempts, crashed>>

\* The mount fails: a job that was to start ends, one that was writing goes
\* on to release the drive.
MountFails(j) ==
  /\ Lock(dcr[j].dev)
  /\ blocked' = [blocked EXCEPT ![dcr[j].dev] = NoJob]
  /\ mount_mutex' = IF mount_mutex = j THEN NoJob ELSE mount_mutex
  /\ dcr' = [dcr EXCEPT ![j].reserved = FALSE]
  /\ Goto(j, IF dcr[j].writer THEN "failed" ELSE "done")
  /\ UNCHANGED <<kind, read_vol_list, reservation, full, attempts, crashed>>

\* After several attempts the operator is asked for the volume.
ask_sysop_to_mount(j) ==
  /\ pc[j] = "remount" /\ mount_mutex = j
  /\ mount_mutex' = NoJob
  /\ Goto(j, "ask_mount")
  /\ UNCHANGED <<kind, vm, read_vol_list, dcr, blocked, reservation, full, attempts, crashed>>

\* wait_for_sysop marks the volume as not used and waits.
ask_sysop_again(j) ==
  /\ pc[j] \in {"ask", "ask_mount"} /\ mount_mutex = NoJob /\ Lock(dcr[j].dev)
  /\ vm' = volume_unused(vm, dcr[j].dev)
  /\ mount_mutex' = j
  /\ Goto(j, IF pc[j] = "ask" THEN "find" ELSE "mount")
  /\ UNCHANGED <<kind, read_vol_list, dcr, blocked, reservation, full, attempts, crashed>>

ask_sysop_fails(j) ==
  /\ pc[j] \in {"ask", "ask_mount"}
  /\ vm' = volume_unused(vm, dcr[j].dev)
  /\ MountFails(j)

\* job_canceled is tested before a volume is looked for, while it is, when it
\* is found, after the wait for one, and before the label is read.
mount_canceled(j) ==
  /\ pc[j] \in {"mount", "remount", "find", "ask", "load", "label"}
  /\ mount_mutex \in {NoJob, j}
  /\ UNCHANGED vm
  /\ MountFails(j)

\* ... and again in check_volume_label, when it is read: the volume that
\* reading the label may have reserved is marked as not used.
label_canceled(j) ==
  LET d == dcr[j].dev
      s == LabelRead(vm, d, dcr[j].VolumeName)
      wanted == s.hdr[d] # NoVol /\ s.hdr[d] = dcr[j].VolumeName
  IN  /\ pc[j] = "label"
      /\ \E r \in IF wanted THEN reserve_volume(j, s, s.hdr[d]) ELSE {Reserved(FALSE, s)} :
           vm' = volume_unused(r.vm, d)
      /\ MountFails(j)

------------------------------------------------------------------------------
(***************************************************************************)
(* Writing, the end of a volume, and the end of the job.                   *)
(***************************************************************************)
fixup_device_block_write_error(j) ==
  LET d == dcr[j].dev IN
  /\ pc[j] = "writing" /\ blocked[d] = NoJob /\ Lock(d)
  /\ full' = full \cup ({vm.hdr[d]} \ {NoVol})
  /\ Cardinality(full') <= MaxFull
  /\ vm' = set_unload(vm, d)
  /\ blocked' = [blocked EXCEPT ![d] = j]
  /\ Goto(j, "mount")
  /\ UNCHANGED <<kind, read_vol_list, dcr, mount_mutex, reservation, attempts, crashed>>

\* The last writer marks the volume as not used if the drive has a label; the
\* flag for that can outlive the label's name, which do_swapping erases.
Unmarked(d) ==
  IF num_writers(d) > 1 THEN {vm}
  ELSE IF vm.hdr[d] # NoVol THEN {volume_unused(vm, d)}
  ELSE {vm, volume_unused(vm, d)}

release_device(j) ==
  LET d == dcr[j].dev
      last == num_writers(d) = 1
  IN  /\ pc[j] \in {"writing", "failed"} /\ blocked[d] = NoJob /\ Lock(d)
      /\ dcr' = [dcr EXCEPT ![j].writer = FALSE]
      /\ \E u \in Unmarked(d) :
           vm' = IF last /\ kind = "file" THEN free_volume(close(u, d), d) ELSE u
      /\ Goto(j, "done")
      /\ UNCHANGED <<kind, read_vol_list, blocked, mount_mutex, reservation,
                     full, attempts, crashed>>

\* A job that reads enters the volumes of its bootstrap record one by one,
\* and takes them out one by one, in the same order, when it ends.
ReadsOf(r) == {e[2] : e \in {f \in Range(read_vol_list) : f[1] = r}}

\* The jobs that are looking for a volume can meet the new list.
ReadListChanges(list) ==
  /\ read_vol_list' = list
  /\ seen' = [j \in Jobs |-> seen[j] \cup (IF seen[j] = {} THEN {} ELSE {list})]

add_restore_volume(r) ==
  /\ pc[r] = "start"
  /\ \E i \in DOMAIN Bsr[r] :
       /\ Bsr[r][i] \notin ReadsOf(r) /\ \A k \in 1 .. i - 1 : Bsr[r][k] \in ReadsOf(r)
       /\ ReadListChanges(add_read_volume(read_vol_list, <<r, Bsr[r][i]>>))
  /\ UNCHANGED <<kind, vm, dcr, pc, blocked, mount_mutex, reservation, full,
                 attempts, crashed>>

free_restore_volume_list(r) ==
  /\ pc[r] = "freeing" \/ ReadsOf(r) = Range(Bsr[r])
  /\ \E i \in DOMAIN Bsr[r] :
       /\ Bsr[r][i] \in ReadsOf(r) /\ \A k \in 1 .. i - 1 : Bsr[r][k] \notin ReadsOf(r)
       /\ ReadListChanges(remove_read_volume(read_vol_list, <<r, Bsr[r][i]>>))
  /\ pc' = [pc EXCEPT ![r] = "freeing"]
  /\ UNCHANGED <<kind, vm, dcr, blocked, mount_mutex, reservation, full, attempts, crashed>>

JobStep(j) ==
  \/ \E d \in Drives : reserve_device_for_append(j, d)
  \/ \E v \in Volumes : reserve_known_volume(j, v)
  \/ reserve_any_volume(j)
  \/ unreserve_device(j) \/ unreserve_marks(j)
  \/ acquire_device_for_append(j)
  \/ mount_begins(j) \/ find_a_volume(j) \/ autoload_device(j)
  \/ unload_other_drive(j) \/ load_volume(j) \/ check_volume_label(j)
  \/ ask_sysop_to_mount(j) \/ ask_sysop_again(j) \/ ask_sysop_fails(j)
  \/ mount_canceled(j) \/ label_canceled(j)
  \/ fixup_device_block_write_error(j) \/ release_device(j)

ReaderStep(r) ==
  \/ add_restore_volume(r)
  \/ free_restore_volume_list(r)

Next ==
  /\ ~crashed
  /\ (\E j \in Jobs : JobStep(j)) \/ (\E r \in Readers : ReaderStep(r))

Spec == Init /\ [][Next]_vars

------------------------------------------------------------------------------
(***************************************************************************)
(* Properties                                                              *)
(***************************************************************************)

\* Every variable stays in its domain.
TypeOK ==
  /\ kind \in Kinds /\ vm \in VolState /\ dcr \in [Jobs -> Dcr]
  /\ Range(read_vol_list) \subseteq Readers \X Volumes
  /\ seen \in [Jobs -> SUBSET Seq(Readers \X Volumes)]
  /\ blocked \in [Drives -> Jobs \cup {NoJob}]
  /\ mount_mutex \in Jobs \cup {NoJob} /\ reservation \in Jobs \cup {NoJob}
  /\ full \subseteq Volumes /\ crashed \in BOOLEAN

\* The drives a running job appends to.
Writes(d) ==
  vm.append[d] /\ blocked[d] = NoJob /\ \E j \in Jobs : pc[j] = "writing" /\ dcr[j].dev = d

\* A drive a running job appends to holds the volume whose label it has in
\* memory, and no second drive appends to that volume (reserve_volume gives a
\* volume to one drive; what takes a volume out also closes the drive).  A disk
\* volume that is full is left out: a job that has not met its end yet keeps
\* the file open after the drive's entry is gone.
OneDriveWrites ==
  \A d \in Drives : Writes(d) /\ vm.hdr[d] # NoVol =>
    /\ vm.loaded[d] = vm.hdr[d]
    /\ kind = "tape" \/ vm.hdr[d] \notin full =>
         \A e \in Drives \ {d} : Writes(e) => vm.hdr[e] # vm.hdr[d]

\* dev->vol and the volume list agree: the entry a drive points to is in the
\* list and names that drive, and the drive of an entry points back to it
\* unless the entry is marked as moving from another drive (reserve_volume,
\* free_volume, free_vol_item, unload_dev).
OwnedOrSwapping ==
  /\ \A d \in Drives : vm.vol[d] # NoVol =>
       vm.vol[d] \in DOMAIN vm.list /\ vm.list[vm.vol[d]].dev = d
  /\ \A v \in DOMAIN vm.list : vm.list[v].swapping \/ vm.vol[vm.list[v].dev] = v

\* The drive that owns a volume in use must point to it (the first rule in
\* the comment of reserve_volume): a job writes on the volume its drive's
\* entry names.
WriterOwnsVolume == \A d \in Drives : Writes(d) => vm.vol[d] = vm.hdr[d]

\* With a virtual disk changer the rule holds as long as the volume has room:
\* nothing is left open on a drive nobody uses (release_device closes and
\* frees), so the volume a job writes on is the one the list gives its drive.
DiskWriterOwns ==
  kind = "file" => \A d \in Drives :
    Writes(d) /\ vm.hdr[d] \notin full \cup {NoVol} => vm.vol[d] = vm.hdr[d]

\* A job takes a volume out of another drive only if that drive is not in use
\* (rule 6 in the comment of reserve_volume): when the job comes to unload it,
\* after unload_other_drive has found it idle, nobody writes there.
TakenNotInUse ==
  \A j \in Jobs : pc[j] = "loading" =>
    \A e \in Holding(dcr[j].VolumeName) : ~Writes(e)

NewlyUsed == {v \in DOMAIN vm'.list : vm'.list[v].in_use /\ ~(v \in DOMAIN vm.list /\ vm.list[v].in_use)}

\* The volumes a list of volumes to be read names.
Announced(list) == {e[2] : e \in Range(list)}

\* No job begins to use a volume that is in the read list ("If acquiring to
\* write, don't accept a Volume in read list", reserve_volume).
ReadNeverReserved == [][NewlyUsed \cap Announced(read_vol_list) = {}]_vars

\* The volumes job j begins to use were missing from the read list at some
\* moment since it began to look for one.
OnceUnannounced(j) == \A v \in NewlyUsed : \E list \in seen[j] : v \notin Announced(list)

\* A volume that a restore announced before a job began to look for one, and
\* has not given up, is not reserved by that job.
AnnouncedNotReserved == [][\A j \in Jobs : pc'[j] # pc[j] => OnceUnannounced(j)]_vars

\* The list is searched by name although it is ordered by JobId first, so this
\* holds as long as the entries are those of one restore.
OneRestore(list) == \A e, f \in Range(list) : e[1] = f[1]

ReadNotReserved ==
  [][\A j \in Jobs : pc'[j] # pc[j] /\ (\A list \in seen[j] : OneRestore(list))
       => OnceUnannounced(j)]_vars
=============================================================================
