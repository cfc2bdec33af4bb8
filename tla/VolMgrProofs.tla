---------------------------- MODULE VolMgrProofs ----------------------------
(***************************************************************************)
(* Theorems about VolMgr, for every number of drives, volumes, jobs and    *)
(* restores.  The lists and drives keep four facts by themselves, whatever *)
(* operation is applied (VmInv).  That a volume is written in one drive    *)
(* also needs, on a disk changer, that a drive that is open on a volume    *)
(* with room owns it, in use, and has a writer (FileOK), which rests on    *)
(* where each job is (JobOK, UnusedOK).  That no job takes a volume a      *)
(* restore announced before the job began to look for one rests on the     *)
(* order of every read list the job can have met (ReadInv) and on what     *)
(* binary_search finds in an ordered list.                                 *)
(***************************************************************************)
EXTENDS VolMgr, CollectionLemmas, FiniteSetTheorems, TLAPS

\* What a state of the lists and drives satisfies: the list and the drives
\* agree (OwnedOrSwapping as a predicate of vm), ...
Own(s) ==
  /\ \A d \in Drives : s.vol[d] # NoVol =>
       s.vol[d] \in DOMAIN s.list /\ s.list[s.vol[d]].dev = d
  /\ \A v \in DOMAIN s.list : s.list[v].swapping \/ s.vol[s.list[v].dev] = v

\* ... a label in memory is the label of what the drive holds, ...
HdrOK(s) == \A d \in Drives : s.hdr[d] # NoVol => s.loaded[d] = s.hdr[d]

\* ... and a cartridge is in one drive.
TapeOK(s) ==
  kind = "tape" => \A d, e \in Drives :
    d # e /\ s.loaded[d] # NoVol => s.loaded[e] # s.loaded[d]

VmInv(s) == s \in VolState /\ Own(s) /\ HdrOK(s) /\ TapeOK(s)

MountPcs == {"mount", "remount", "find", "load", "unload_other", "loading",
             "label", "ask", "ask_mount"}

Pcs == {"start", "reserve", "reserved", "unused", "unused_end", "writing",
        "failed", "freeing", "done"} \cup MountPcs

\* Where a job is says what its control record r can hold, and that the drive
\* whose volume it changes is blocked by it.
JobFact(j, l, r, b) ==
  /\ l \notin {"start", "done"} \/ r.reserved \/ r.writer => r.dev \in Drives
  /\ l \in {"start", "reserve", "unused"} => ~r.writer /\ ~r.reserved_volume
  /\ l = "reserved" => ~r.writer
  /\ l \in {"writing", "failed"} => r.writer
  /\ l \in {"unload_other", "loading"} => kind = "tape"
  /\ l \in MountPcs => b[r.dev] = j

JobOK == \A j \in Jobs : JobFact(j, pc[j], dcr[j], blocked)

HasWriter(d) == \E k \in Jobs : dcr[k].dev = d /\ dcr[k].writer

\* While a job of a drive marks its volume as unused nobody writes there.
UnusedOK == \A j \in Jobs : pc[j] \in {"unused", "unused_end"} => ~HasWriter(dcr[j].dev)

\* Drive d is open for appending to a volume that has room.
Active(d) == vm.append[d] /\ vm.hdr[d] \notin full \cup {NoVol}

\* On a disk changer such a drive owns the volume, in use, and has a writer;
\* it is not one whose job looks for another volume.
Good(d) == vm.vol[d] = vm.hdr[d] /\ vm.list[vm.vol[d]].in_use /\ HasWriter(d)

AskPcs == {"ask", "ask_mount", "remount"}

FileOK ==
  kind = "file" =>
    /\ \A d \in Drives : Active(d) => Good(d)
    /\ \A j \in Jobs : pc[j] \in AskPcs => ~Active(dcr[j].dev)

VolTypes ==
  /\ kind \in Kinds /\ dcr \in [Jobs -> Dcr]
  /\ blocked \in [Drives -> Jobs \cup {NoJob}]
  /\ full \subseteq Volumes
  /\ pc \in [Jobs \cup Readers -> Pcs]

IInv == VolTypes /\ VmInv(vm) /\ JobOK /\ UnusedOK /\ FileOK

------------------------------------------------------------------------------
(***************************************************************************)
(* The operations on the lists.                                            *)
(***************************************************************************)
Lists == UNION {[S -> VolRes] : S \in SUBSET Volumes}

\* A volume list is a function from some of the volumes to entries.
LEMMA ListType ==
  ASSUME NEW x
  PROVE  x \in Lists <=> x \in [DOMAIN x -> VolRes] /\ DOMAIN x \subseteq Volumes
<1>1. ASSUME x \in Lists PROVE x \in [DOMAIN x -> VolRes] /\ DOMAIN x \subseteq Volumes
  <2>1. PICK S \in SUBSET Volumes : x \in [S -> VolRes]
    BY <1>1 DEF Lists
  <2> QED
    BY <2>1
<1>2. ASSUME x \in [DOMAIN x -> VolRes], DOMAIN x \subseteq Volumes PROVE x \in Lists
  BY <1>2 DEF Lists
<1> QED
  BY <1>1, <1>2

\* The fields of a volume state.
LEMMA StateFields ==
  ASSUME NEW s \in VolState
  PROVE  /\ s.list \in [DOMAIN s.list -> VolRes] /\ DOMAIN s.list \subseteq Volumes
         /\ s.vol \in [Drives -> Volumes \cup {NoVol}]
         /\ s.hdr \in [Drives -> Volumes \cup {NoVol}]
         /\ s.loaded \in [Drives -> Volumes \cup {NoVol}]
         /\ s.unload \in [Drives -> BOOLEAN]
         /\ s.swap_dev \in [Drives -> Drives \cup {NoDrive}]
         /\ s.append \in [Drives -> BOOLEAN]
         /\ NoVol \notin DOMAIN s.list
<1>1. s.list \in Lists
  BY DEF VolState, Lists
<1> QED
  BY <1>1, ListType, VolumesAssumption DEF VolState

\* Replacing a field by a value of its type gives a volume state.
LEMMA FieldUpdates ==
  ASSUME NEW s \in VolState
  PROVE  /\ \A x : x \in [DOMAIN x -> VolRes] /\ DOMAIN x \subseteq Volumes
                     => [s EXCEPT !.list = x] \in VolState
         /\ \A x \in [Drives -> Volumes \cup {NoVol}] :
              /\ [s EXCEPT !.vol = x] \in VolState
              /\ [s EXCEPT !.hdr = x] \in VolState
              /\ [s EXCEPT !.loaded = x] \in VolState
         /\ \A x \in [Drives -> BOOLEAN] :
              [s EXCEPT !.unload = x] \in VolState /\ [s EXCEPT !.append = x] \in VolState
         /\ \A x \in [Drives -> Drives \cup {NoDrive}] : [s EXCEPT !.swap_dev = x] \in VolState
<1>1. \A x : x \in [DOMAIN x -> VolRes] /\ DOMAIN x \subseteq Volumes => x \in Lists
  BY ListType
<1> QED
  BY <1>1 DEF VolState, Lists

\* What an operation does to a drive that keeps its volume: if it leaves the
\* drive open with a label, nothing of it changed, and its entry is still the
\* drive's and in use.
Safe(s, t, d) ==
  t.append[d] /\ t.hdr[d] # NoVol =>
    /\ s.append[d] /\ s.hdr[d] = t.hdr[d]
    /\ s.vol[d] = s.hdr[d] /\ s.list[s.vol[d]].in_use
         => t.vol[d] = s.vol[d] /\ t.list[t.vol[d]].in_use

\* The labels, the cartridges and the open drives are as they were.
Frame(s, t) == t.hdr = s.hdr /\ t.loaded = s.loaded /\ t.append = s.append

\* Safe is transitive.
LEMMA SafeTransitive ==
  ASSUME NEW s, NEW t, NEW u, NEW d, Safe(s, t, d), Safe(t, u, d)
  PROVE  Safe(s, u, d)
BY DEF Safe

\* With labels, cartridges and flags unchanged the facts about them stay.
LEMMA FrameVmInv ==
  ASSUME NEW s, NEW t, HdrOK(s), TapeOK(s), Frame(s, t)
  PROVE  HdrOK(t) /\ TapeOK(t)
BY DEF HdrOK, TapeOK, Frame

\* free_volume keeps the list and the drives consistent; it only loses the
\* entry of the drive it is called for.
LEMMA FreeVolume ==
  ASSUME NEW s, VmInv(s), NEW d \in Drives
  PROVE  LET t == free_volume(s, d) IN
         /\ VmInv(t) /\ Frame(s, t) /\ t.unload = s.unload /\ t.swap_dev = s.swap_dev
         /\ t.vol[d] = NoVol \/ t = s
         /\ DOMAIN t.list \subseteq DOMAIN s.list
         /\ \A v \in DOMAIN t.list : t.list[v] = s.list[v]
         /\ \A v \in DOMAIN s.list \ {s.vol[d]} : v \in DOMAIN t.list
         /\ \A e \in Drives \ {d} : t.vol[e] = s.vol[e] /\ Safe(s, t, e)
<1> USE DEF NoVol
<1>0. s \in VolState /\ Own(s) /\ HdrOK(s) /\ TapeOK(s)
  BY DEF VmInv
<1> HIDE DEF NoVol
<1>1. CASE s.vol[d] = NoVol \/ Swapping(s, d)
  BY <1>1 DEF free_volume, Frame, Safe
<1>2. CASE ~(s.vol[d] = NoVol \/ Swapping(s, d))
  <2> DEFINE v == s.vol[d]
             l == Without(s.list, v)
             w == [s.vol EXCEPT ![d] = NoVol]
             t == [[s EXCEPT !.list = l] EXCEPT !.vol = w]
  <2>1. free_volume(s, d) = t
    BY <1>0, <1>2, StateFields DEF free_volume, VolState
  <2>2. v \in DOMAIN s.list /\ s.list[v].dev = d
    BY <1>0, <1>2 DEF Own
  <2>3. /\ DOMAIN l = DOMAIN s.list \ {v} /\ l \in [DOMAIN l -> VolRes]
        /\ \A x \in DOMAIN l : l[x] = s.list[x]
    BY <1>0, StateFields DEF Without
  <2>4. w \in [Drives -> Volumes \cup {NoVol}] /\ w[d] = NoVol
        /\ \A e \in Drives \ {d} : w[e] = s.vol[e]
    BY <1>0, StateFields
  <2> HIDE DEF l, w
  <2>5. [s EXCEPT !.list = l] \in VolState
    BY <1>0, <2>3, FieldUpdates, StateFields
  <2>6. t \in VolState
    BY <2>5, <2>4, FieldUpdates
  <2>7. /\ t.list = l /\ t.vol = w /\ Frame(s, t)
        /\ t.unload = s.unload /\ t.swap_dev = s.swap_dev
    BY <1>0 DEF VolState, Frame
  <2> HIDE DEF t
  <2>8. Own(t)
    <3>1. \A e \in Drives : t.vol[e] # NoVol => t.vol[e] \in DOMAIN t.list /\ t.list[t.vol[e]].dev = e
      BY <1>0, <2>2, <2>3, <2>4, <2>7 DEF Own
    <3>2. \A x \in DOMAIN t.list : t.list[x].swapping \/ t.vol[t.list[x].dev] = x
      <4> SUFFICES ASSUME NEW x \in DOMAIN t.list, ~t.list[x].swapping
                   PROVE  t.vol[t.list[x].dev] = x
        OBVIOUS
      <4>1. x \in DOMAIN s.list /\ x # v /\ t.list[x] = s.list[x]
        BY <2>3, <2>7
      <4>2. s.list[x].dev \in Drives
        BY <4>1, <1>0, StateFields DEF VolRes
      <4>3. s.vol[s.list[x].dev] = x
        BY <4>1, <1>0 DEF Own
      <4> QED
        BY <4>1, <4>2, <4>3, <2>4, <2>7
    <3> QED
      BY <3>1, <3>2 DEF Own
  <2>9. \A e \in Drives \ {d} : t.vol[e] = s.vol[e] /\ Safe(s, t, e)
    <3> TAKE e \in Drives \ {d}
    <3>1. t.vol[e] = s.vol[e]
      BY <2>4, <2>7
    <3>2. s.vol[e] # NoVol => s.vol[e] \in DOMAIN t.list /\ t.list[s.vol[e]] = s.list[s.vol[e]]
      BY <1>0, <2>2, <2>3, <2>7 DEF Own
    <3> QED
      BY <3>1, <3>2, <2>7 DEF Safe, Frame
  <2>10. VmInv(t)
    BY <1>0, <2>6, <2>7, <2>8, FrameVmInv DEF VmInv
  <2> QED
    BY <2>1, <2>3, <2>4, <2>7, <2>9, <2>10
<1> QED
  BY <1>1, <1>2

\* Changing flags of one entry keeps everything consistent when an entry that
\* is not moving is the one its drive points to.
LEMMA EntryUpdate ==
  ASSUME NEW s, VmInv(s), NEW v \in DOMAIN s.list, NEW item \in VolRes,
         item.dev = s.list[v].dev, item.swapping \/ s.vol[item.dev] = v
  PROVE  LET t == [s EXCEPT !.list = [@ EXCEPT ![v] = item]] IN
         /\ VmInv(t) /\ Frame(s, t) /\ t.vol = s.vol
         /\ t.unload = s.unload /\ t.swap_dev = s.swap_dev
         /\ DOMAIN t.list = DOMAIN s.list /\ t.list[v] = item
         /\ \A x \in DOMAIN s.list \ {v} : t.list[x] = s.list[x]
         /\ \A e \in Drives : item.in_use \/ s.vol[e] # v => Safe(s, t, e)
<1>0. s \in VolState /\ Own(s) /\ HdrOK(s) /\ TapeOK(s)
  BY DEF VmInv
<1> DEFINE l == [s.list EXCEPT ![v] = item]
           t == [s EXCEPT !.list = l]
<1>1. /\ DOMAIN l = DOMAIN s.list /\ l \in [DOMAIN l -> VolRes] /\ l[v] = item
      /\ \A x \in DOMAIN s.list \ {v} : l[x] = s.list[x]
  BY <1>0, StateFields
<1> HIDE DEF l
<1>2. t \in VolState
  BY <1>0, <1>1, FieldUpdates, StateFields
<1>3. /\ t.list = l /\ t.vol = s.vol /\ Frame(s, t)
      /\ t.unload = s.unload /\ t.swap_dev = s.swap_dev
  BY <1>0 DEF VolState, Frame
<1> HIDE DEF t
<1>4. Own(t)
  <2>1. \A e \in Drives : t.vol[e] # NoVol => t.vol[e] \in DOMAIN t.list /\ t.list[t.vol[e]].dev = e
    BY <1>0, <1>1, <1>3 DEF Own
  <2>2. \A x \in DOMAIN t.list : t.list[x].swapping \/ t.vol[t.list[x].dev] = x
    BY <1>0, <1>1, <1>3 DEF Own
  <2> QED
    BY <2>1, <2>2 DEF Own
<1>5. \A e \in Drives : item.in_use \/ s.vol[e] # v => Safe(s, t, e)
  <2> TAKE e \in Drives
  <2>1. s.vol[e] # NoVol => s.vol[e] \in DOMAIN s.list
    BY <1>0 DEF Own
  <2> QED
    BY <2>1, <1>1, <1>3 DEF Safe, Frame
<1>6. VmInv(t)
  BY <1>0, <1>2, <1>3, <1>4, FrameVmInv DEF VmInv
<1>7. t = [s EXCEPT !.list = [@ EXCEPT ![v] = item]]
  BY DEF t, l
<1> QED
  BY <1>1, <1>3, <1>5, <1>6, <1>7

\* An entry is marked as in use, or not.
LEMMA Marked ==
  ASSUME NEW s, VmInv(s), NEW v \in DOMAIN s.list, NEW b \in BOOLEAN
  PROVE  LET t == MarkInUse(s, v, b) IN
         /\ VmInv(t) /\ Frame(s, t) /\ t.vol = s.vol
         /\ t.unload = s.unload /\ t.swap_dev = s.swap_dev
         /\ DOMAIN t.list = DOMAIN s.list /\ (b => t.list[v].in_use)
         /\ \A e \in Drives : b \/ s.vol[e] # v => Safe(s, t, e)
<1>0. s \in VolState /\ Own(s)
  BY DEF VmInv
<1> DEFINE item == [s.list[v] EXCEPT !.in_use = b]
<1>1. s.list[v] \in VolRes
  BY <1>0, StateFields
<1>2. /\ item \in VolRes /\ item.dev = s.list[v].dev
      /\ item.swapping = s.list[v].swapping /\ (b => item.in_use)
  BY <1>1 DEF VolRes
<1>3. MarkInUse(s, v, b) = [s EXCEPT !.list = [@ EXCEPT ![v] = item]]
  BY <1>0 DEF MarkInUse, VolState
<1> HIDE DEF item
<1>4. item.swapping \/ s.vol[item.dev] = v
  BY <1>0, <1>2 DEF Own
<1> DEFINE t == [s EXCEPT !.list = [@ EXCEPT ![v] = item]]
<1>5. /\ VmInv(t) /\ Frame(s, t) /\ t.vol = s.vol
      /\ t.unload = s.unload /\ t.swap_dev = s.swap_dev
      /\ DOMAIN t.list = DOMAIN s.list /\ t.list[v] = item
      /\ \A e \in Drives : item.in_use \/ s.vol[e] # v => Safe(s, t, e)
  BY <1>2, <1>4, EntryUpdate
<1>6. MarkInUse(s, v, b) = t
  BY <1>3
<1> HIDE DEF t
<1> QED
  BY <1>2, <1>5, <1>6

\* ClearInUse, and so volume_unused, concerns the entry of its drive alone.
LEMMA Unused ==
  ASSUME NEW s, VmInv(s), NEW d \in Drives
  PROVE  LET t == volume_unused(s, d) IN
         /\ VmInv(t) /\ Frame(s, t) /\ t.vol = s.vol
         /\ \A e \in Drives \ {d} : Safe(s, t, e)
<1>0. s \in VolState /\ Own(s)
  BY DEF VmInv
<1>1. CASE s.vol[d] = NoVol
  BY <1>1 DEF volume_unused, ClearInUse, Frame, Safe
<1>2. CASE s.vol[d] # NoVol
  <2>1. s.vol[d] \in DOMAIN s.list /\ s.list[s.vol[d]].dev = d
    BY <1>0, <1>2 DEF Own
  <2>2. \A e \in Drives \ {d} : s.vol[e] # s.vol[d]
    BY <1>0, <1>2, <2>1 DEF Own
  <2>3. volume_unused(s, d) = MarkInUse(s, s.vol[d], FALSE)
    BY <1>2 DEF volume_unused, ClearInUse
  <2> DEFINE t == MarkInUse(s, s.vol[d], FALSE)
  <2>4. /\ VmInv(t) /\ Frame(s, t) /\ t.vol = s.vol
        /\ \A e \in Drives : s.vol[e] # s.vol[d] => Safe(s, t, e)
    BY <2>1, Marked, FALSE \in BOOLEAN
  <2> HIDE DEF t
  <2> QED
    BY <2>2, <2>3, <2>4 DEF t
<1> QED
  BY <1>1, <1>2

\* ClearSwapping: the entry a drive points to is no longer moving.
LEMMA SwappingCleared ==
  ASSUME NEW s, VmInv(s), NEW d \in Drives
  PROVE  LET t == ClearSwapping(s, d) IN
         VmInv(t) /\ Frame(s, t) /\ \A e \in Drives : Safe(s, t, e)
<1>0. s \in VolState /\ Own(s)
  BY DEF VmInv
<1>1. CASE s.vol[d] = NoVol
  BY <1>1 DEF ClearSwapping, Frame, Safe
<1>2. CASE s.vol[d] # NoVol
  <2> DEFINE v == s.vol[d]
             item == [s.list[v] EXCEPT !.swapping = FALSE]
  <2>1. v \in DOMAIN s.list /\ s.list[v].dev = d
    BY <1>0, <1>2 DEF Own
  <2>2. s.list[v] \in VolRes
    BY <1>0, <2>1, StateFields
  <2>3. item \in VolRes /\ item.dev = d /\ item.in_use = s.list[v].in_use
    BY <2>1, <2>2 DEF VolRes
  <2>4. ClearSwapping(s, d) = [s EXCEPT !.list = [@ EXCEPT ![v] = item]]
    BY <1>0, <1>2 DEF ClearSwapping, VolState
  <2> HIDE DEF item
  <2> DEFINE t == [s EXCEPT !.list = [@ EXCEPT ![v] = item]]
  <2>5. /\ VmInv(t) /\ Frame(s, t) /\ t.vol = s.vol /\ t.list[v] = item
        /\ \A x \in DOMAIN s.list \ {v} : t.list[x] = s.list[x]
        /\ \A e \in Drives : s.vol[e] # v => Safe(s, t, e)
    BY <2>1, <2>3, EntryUpdate
  <2> HIDE DEF t
  <2>6. \A e \in Drives : s.vol[e] = v => Safe(s, t, e)
    BY <2>3, <2>5 DEF Safe, Frame
  <2>7. ClearSwapping(s, d) = t
    BY <2>4 DEF t
  <2> QED
    BY <2>5, <2>6, <2>7
<1> QED
  BY <1>1, <1>2

\* Flags and labels of the drives are no part of the agreement of the lists.
LEMMA OwnSame ==
  ASSUME NEW s, NEW t, Own(s), t.list = s.list, t.vol = s.vol
  PROVE  Own(t)
BY DEF Own

\* set_unload only sets the drive's unload flag.
LEMMA UnloadSet ==
  ASSUME NEW s, VmInv(s), NEW d \in Drives
  PROVE  LET t == set_unload(s, d) IN
         /\ VmInv(t) /\ Frame(s, t) /\ t.vol = s.vol /\ t.list = s.list
         /\ t.swap_dev = s.swap_dev
         /\ \A e \in Drives : Safe(s, t, e)
<1>0. s \in VolState /\ Own(s) /\ HdrOK(s) /\ TapeOK(s)
  BY DEF VmInv
<1>1. CASE s.hdr[d] = NoVol
  BY <1>1 DEF set_unload, Frame, Safe
<1>2. CASE s.hdr[d] # NoVol
  <2> DEFINE w == [s.unload EXCEPT ![d] = TRUE]
             t == [s EXCEPT !.unload = w]
  <2>1. w \in [Drives -> BOOLEAN]
    BY <1>0, StateFields
  <2>2. set_unload(s, d) = t
    BY <1>0, <1>2 DEF set_unload, VolState
  <2> HIDE DEF w
  <2>3. t \in VolState
    BY <1>0, <2>1, FieldUpdates
  <2>4. Frame(s, t) /\ t.vol = s.vol /\ t.list = s.list /\ t.swap_dev = s.swap_dev
    BY <1>0 DEF VolState, Frame
  <2> HIDE DEF t
  <2>5. VmInv(t)
    BY <1>0, <2>3, <2>4, OwnSame, FrameVmInv DEF VmInv
  <2>6. \A e \in Drives : Safe(s, t, e)
    BY <2>4 DEF Safe, Frame
  <2> QED
    BY <2>2, <2>4, <2>5, <2>6
<1> QED
  BY <1>1, <1>2

\* Closing drive d for appending, with or without its cartridge or file: x is
\* what the drive holds afterwards.
Shut(s, d, x) ==
  [s EXCEPT !.hdr = [@ EXCEPT ![d] = NoVol], !.append = [@ EXCEPT ![d] = FALSE],
            !.loaded = [@ EXCEPT ![d] = x]]

\* A drive that is shut is safe for all; a cartridge must not be elsewhere.
LEMMA ShutDrive ==
  ASSUME NEW s, VmInv(s), NEW d \in Drives, NEW x \in Volumes \cup {NoVol},
         \A e \in Drives \ {d} : kind = "tape" /\ x # NoVol => s.loaded[e] # x
  PROVE  LET t == Shut(s, d, x) IN
         /\ VmInv(t) /\ t.vol = s.vol /\ t.list = s.list
         /\ t.unload = s.unload /\ t.swap_dev = s.swap_dev
         /\ t.hdr[d] = NoVol /\ ~t.append[d] /\ t.loaded[d] = x
         /\ \A e \in Drives \ {d} : t.loaded[e] = s.loaded[e]
         /\ \A e \in Drives : Safe(s, t, e)
<1>0. s \in VolState /\ Own(s) /\ HdrOK(s) /\ TapeOK(s)
  BY DEF VmInv
<1> DEFINE h == [s.hdr EXCEPT ![d] = NoVol]
           a == [s.append EXCEPT ![d] = FALSE]
           l == [s.loaded EXCEPT ![d] = x]
           t == [[[s EXCEPT !.hdr = h] EXCEPT !.append = a] EXCEPT !.loaded = l]
<1>1. /\ h \in [Drives -> Volumes \cup {NoVol}] /\ a \in [Drives -> BOOLEAN]
      /\ l \in [Drives -> Volumes \cup {NoVol}]
      /\ h[d] = NoVol /\ a[d] = FALSE /\ l[d] = x
      /\ \A e \in Drives \ {d} : h[e] = s.hdr[e] /\ a[e] = s.append[e] /\ l[e] = s.loaded[e]
  BY <1>0, StateFields
<1>2. Shut(s, d, x) = t
  BY <1>0 DEF Shut, VolState
<1> HIDE DEF h, a, l
<1>3. t \in VolState
  <2>1. [s EXCEPT !.hdr = h] \in VolState
    BY <1>0, <1>1, FieldUpdates
  <2>2. [[s EXCEPT !.hdr = h] EXCEPT !.append = a] \in VolState
    BY <2>1, <1>1, FieldUpdates
  <2> QED
    BY <2>2, <1>1, FieldUpdates
<1>4. /\ t.hdr = h /\ t.append = a /\ t.loaded = l /\ t.vol = s.vol /\ t.list = s.list
      /\ t.unload = s.unload /\ t.swap_dev = s.swap_dev
  BY <1>0 DEF VolState
<1> HIDE DEF t
<1>5. HdrOK(t)
  BY <1>0, <1>1, <1>4 DEF HdrOK
<1>6. TapeOK(t)
  <2> SUFFICES ASSUME kind = "tape", NEW b \in Drives, NEW e \in Drives, b # e,
                      t.loaded[b] # NoVol
               PROVE  t.loaded[e] # t.loaded[b]
    BY DEF TapeOK
  <2>1. CASE b = d
    BY <2>1, <1>1, <1>4
  <2>2. CASE e = d
    BY <2>2, <1>1, <1>4
  <2>3. CASE b # d /\ e # d
    BY <2>3, <1>0, <1>1, <1>4 DEF TapeOK
  <2> QED
    BY <2>1, <2>2, <2>3
<1>7. \A e \in Drives : Safe(s, t, e)
  BY <1>1, <1>4 DEF Safe
<1>8. VmInv(t)
  BY <1>0, <1>3, <1>4, <1>5, <1>6, OwnSame DEF VmInv
<1> QED
  BY <1>1, <1>2, <1>4, <1>7, <1>8

\* DEVICE::close
LEMMA Closed ==
  ASSUME NEW s, VmInv(s), NEW d \in Drives
  PROVE  LET t == close(s, d) IN
         /\ VmInv(t) /\ t.vol = s.vol /\ t.list = s.list /\ t.swap_dev = s.swap_dev
         /\ t.hdr[d] = NoVol /\ ~t.append[d]
         /\ \A e \in Drives \ {d} : t.loaded[e] = s.loaded[e]
         /\ \A e \in Drives : Safe(s, t, e)
<1>0. s \in VolState /\ TapeOK(s)
  BY DEF VmInv
<1> DEFINE x == IF kind = "file" THEN NoVol ELSE s.loaded[d]
<1>1. x \in Volumes \cup {NoVol}
  BY <1>0, StateFields
<1>2. \A e \in Drives \ {d} : kind = "tape" /\ x # NoVol => s.loaded[e] # x
  BY <1>0 DEF TapeOK
<1>3. close(s, d) = Shut(s, d, x)
  BY <1>0 DEF close, Shut, VolState
<1> HIDE DEF x
<1> DEFINE t == Shut(s, d, x)
<1>4. /\ VmInv(t) /\ t.vol = s.vol /\ t.list = s.list /\ t.swap_dev = s.swap_dev
      /\ t.hdr[d] = NoVol /\ ~t.append[d]
      /\ \A e \in Drives \ {d} : t.loaded[e] = s.loaded[e]
      /\ \A e \in Drives : Safe(s, t, e)
  BY <1>1, <1>2, ShutDrive
<1> HIDE DEF t
<1> QED
  BY <1>3, <1>4 DEF t

\* The drive forgets that it is to be unloaded.
LEMMA UnloadCleared ==
  ASSUME NEW s, VmInv(s), NEW d \in Drives
  PROVE  LET t == [s EXCEPT !.unload = [@ EXCEPT ![d] = FALSE]] IN
         /\ VmInv(t) /\ Frame(s, t) /\ t.vol = s.vol /\ t.list = s.list
         /\ t.swap_dev = s.swap_dev
         /\ \A e \in Drives : Safe(s, t, e)
<1>0. s \in VolState /\ Own(s) /\ HdrOK(s) /\ TapeOK(s)
  BY DEF VmInv
<1> DEFINE w == [s.unload EXCEPT ![d] = FALSE]
           t == [s EXCEPT !.unload = w]
<1>1. w \in [Drives -> BOOLEAN]
  BY <1>0, StateFields
<1> HIDE DEF w
<1>3. t \in VolState
  BY <1>0, <1>1, FieldUpdates
<1>4. Frame(s, t) /\ t.vol = s.vol /\ t.list = s.list /\ t.swap_dev = s.swap_dev
  BY <1>0 DEF VolState, Frame
<1> HIDE DEF t
<1>5. VmInv(t)
  BY <1>0, <1>3, <1>4, OwnSame, FrameVmInv DEF VmInv
<1>6. \A e \in Drives : Safe(s, t, e)
  BY <1>4 DEF Safe, Frame
<1>7. t = [s EXCEPT !.unload = [@ EXCEPT ![d] = FALSE]]
  BY DEF t, w
<1> QED
  BY <1>4, <1>5, <1>6, <1>7

\* Freeing the entry of a drive that is closed does no harm.
LEMMA FreeClosed ==
  ASSUME NEW s, VmInv(s), NEW d \in Drives, ~s.append[d] \/ s.hdr[d] = NoVol
  PROVE  LET t == free_volume(s, d) IN
         VmInv(t) /\ Frame(s, t) /\ t.swap_dev = s.swap_dev /\ \A e \in Drives : Safe(s, t, e)
<1> DEFINE t == free_volume(s, d)
<1>1. /\ VmInv(t) /\ Frame(s, t) /\ t.swap_dev = s.swap_dev
      /\ \A e \in Drives \ {d} : Safe(s, t, e)
  BY FreeVolume
<1> HIDE DEF t
<1>2. Safe(s, t, d)
  BY <1>1 DEF Safe, Frame
<1> QED
  BY <1>1, <1>2 DEF t

\* The changer takes the cartridge out of a drive.
LEMMA Unloaded ==
  ASSUME NEW s, VmInv(s), NEW d \in Drives
  PROVE  LET t == unload_drive(s, d) IN
         /\ VmInv(t) /\ t.swap_dev = s.swap_dev /\ t.loaded[d] = NoVol
         /\ \A e \in Drives \ {d} : t.loaded[e] = s.loaded[e]
         /\ \A e \in Drives : Safe(s, t, e)
<1> DEFINE a == Shut(s, d, NoVol)
           b == [a EXCEPT !.unload = [@ EXCEPT ![d] = FALSE]]
           t == free_volume(b, d)
<1>0. s \in VolState
  BY DEF VmInv
<1>1. unload_drive(s, d) = t
  <2> DEFINE x == IF kind = "file" THEN NoVol ELSE s.loaded[d]
             l == [s.loaded EXCEPT ![d] = x]
             h == [s.hdr EXCEPT ![d] = NoVol]
             p == [s.append EXCEPT ![d] = FALSE]
             n == [s.unload EXCEPT ![d] = FALSE]
  <2>2. [l EXCEPT ![d] = NoVol] = [s.loaded EXCEPT ![d] = NoVol]
    BY <1>0, StateFields
  <2>3. close(s, d) = [s EXCEPT !.hdr = h, !.append = p, !.loaded = l]
    BY <1>0 DEF close, VolState
  <2>4. b = [s EXCEPT !.hdr = h, !.append = p, !.loaded = [s.loaded EXCEPT ![d] = NoVol], !.unload = n]
    BY <1>0 DEF Shut, VolState
  <2> HIDE DEF h, p, l
  <2>1. [close(s, d) EXCEPT !.loaded[d] = NoVol, !.unload[d] = FALSE] = b
    BY <1>0, <2>2, <2>3, <2>4 DEF VolState
  <2> QED
    BY <2>1 DEF unload_drive
<1>2. /\ VmInv(a) /\ a.swap_dev = s.swap_dev /\ a.hdr[d] = NoVol /\ a.loaded[d] = NoVol
      /\ \A e \in Drives \ {d} : a.loaded[e] = s.loaded[e]
      /\ \A e \in Drives : Safe(s, a, e)
  BY ShutDrive
<1> HIDE DEF a
<1>3. VmInv(b) /\ Frame(a, b) /\ b.swap_dev = a.swap_dev /\ \A e \in Drives : Safe(a, b, e)
  BY <1>2, UnloadCleared
<1> HIDE DEF b
<1>4. VmInv(t) /\ Frame(b, t) /\ t.swap_dev = b.swap_dev /\ \A e \in Drives : Safe(b, t, e)
  BY <1>2, <1>3, FreeClosed DEF Frame
<1> HIDE DEF t
<1>5. \A e \in Drives : Safe(s, t, e)
  BY <1>2, <1>3, <1>4, SafeTransitive
<1> QED
  BY <1>1, <1>2, <1>3, <1>4, <1>5 DEF Frame

\* unload_autochanger, whatever the changer is.
LEMMA ChangerUnloaded ==
  ASSUME NEW s, VmInv(s), NEW d \in Drives
  PROVE  LET t == unload_autochanger(s, d) IN
         VmInv(t) /\ t.swap_dev = s.swap_dev /\ \A e \in Drives : Safe(s, t, e)
<1>0. s \in VolState /\ HdrOK(s)
  BY DEF VmInv
<1>1. CASE kind = "file"
  <2>1. unload_autochanger(s, d) = [s EXCEPT !.unload = [@ EXCEPT ![d] = FALSE]]
    BY <1>0, <1>1 DEF unload_autochanger, VolState
  <2> QED
    BY <2>1, UnloadCleared
<1>2. CASE kind # "file" /\ s.loaded[d] # NoVol
  <2>1. unload_autochanger(s, d) = unload_drive(s, d)
    BY <1>2 DEF unload_autochanger
  <2> QED
    BY <2>1, Unloaded
<1>3. CASE kind # "file" /\ s.loaded[d] = NoVol
  <2>1. unload_autochanger(s, d) = free_volume(s, d)
    BY <1>3 DEF unload_autochanger
  <2>2. s.hdr[d] = NoVol
    BY <1>0, <1>3 DEF HdrOK
  <2> QED
    BY <2>1, <2>2, FreeClosed
<1> QED
  BY <1>1, <1>2, <1>3

\* release_volume
LEMMA Released ==
  ASSUME NEW s, VmInv(s), NEW d \in Drives
  PROVE  LET t == release_volume(s, d) IN
         VmInv(t) /\ t.swap_dev = s.swap_dev /\ \A e \in Drives : Safe(s, t, e)
<1> DEFINE u == unload_autochanger(s, d)
           c == IF kind = "file" THEN close(u, d) ELSE u
           f == free_volume(c, d)
           t == Shut(f, d, f.loaded[d])
<1>1. VmInv(u) /\ u.swap_dev = s.swap_dev /\ \A e \in Drives : Safe(s, u, e)
  BY ChangerUnloaded
<1> HIDE DEF u
<1>2. VmInv(c) /\ c.swap_dev = u.swap_dev /\ \A e \in Drives : Safe(u, c, e)
  <2>1. CASE kind = "file"
    BY <2>1, <1>1, Closed
  <2>2. CASE kind # "file"
    BY <2>2, <1>1 DEF Safe
  <2> QED
    BY <2>1, <2>2
<1> HIDE DEF c
<1>3. VmInv(f) /\ f.swap_dev = c.swap_dev /\ \A e \in Drives \ {d} : Safe(c, f, e)
  BY <1>2, FreeVolume
<1> HIDE DEF f
<1>4. f \in VolState /\ TapeOK(f)
  BY <1>3 DEF VmInv
<1>5. /\ VmInv(t) /\ t.swap_dev = f.swap_dev /\ ~t.append[d]
      /\ \A e \in Drives : Safe(f, t, e)
  <2>1. f.loaded[d] \in Volumes \cup {NoVol}
    BY <1>4, StateFields
  <2>2. \A e \in Drives \ {d} : kind = "tape" /\ f.loaded[d] # NoVol => f.loaded[e] # f.loaded[d]
    BY <1>4 DEF TapeOK
  <2> QED
    BY <1>3, <2>1, <2>2, ShutDrive
<1>6. release_volume(s, d) = t
  <2>1. [f EXCEPT !.hdr[d] = NoVol, !.append[d] = FALSE] = t
    BY <1>4, StateFields DEF Shut, VolState
  <2>2. release_volume(s, d) = [f EXCEPT !.hdr[d] = NoVol, !.append[d] = FALSE]
    BY DEF release_volume, u, c, f
  <2> QED
    BY <2>1, <2>2
<1> HIDE DEF t
<1>7. \A e \in Drives : Safe(s, t, e)
  <2>1. \A e \in Drives \ {d} : Safe(s, t, e)
    BY <1>1, <1>2, <1>3, <1>5, SafeTransitive
  <2>2. Safe(s, t, d)
    BY <1>5 DEF Safe
  <2> QED
    BY <2>1, <2>2
<1> QED
  BY <1>1, <1>2, <1>3, <1>5, <1>6, <1>7

\* The drive's swap_dev is no part of the invariant.
LEMMA SwapDevSet ==
  ASSUME NEW s, VmInv(s), NEW d \in Drives, NEW x \in Drives \cup {NoDrive}
  PROVE  LET t == [s EXCEPT !.swap_dev = [@ EXCEPT ![d] = x]] IN
         /\ VmInv(t) /\ Frame(s, t) /\ t.vol = s.vol /\ t.list = s.list
         /\ \A e \in Drives : Safe(s, t, e)
<1>0. s \in VolState /\ Own(s) /\ HdrOK(s) /\ TapeOK(s)
  BY DEF VmInv
<1> DEFINE w == [s.swap_dev EXCEPT ![d] = x]
           t == [s EXCEPT !.swap_dev = w]
<1>1. w \in [Drives -> Drives \cup {NoDrive}]
  BY <1>0, StateFields
<1> HIDE DEF w
<1>3. t \in VolState
  BY <1>0, <1>1, FieldUpdates
<1>4. Frame(s, t) /\ t.vol = s.vol /\ t.list = s.list
  BY <1>0 DEF VolState, Frame
<1> HIDE DEF t
<1>5. VmInv(t)
  BY <1>0, <1>3, <1>4, OwnSame, FrameVmInv DEF VmInv
<1>6. \A e \in Drives : Safe(s, t, e)
  BY <1>4 DEF Safe, Frame
<1>7. t = [s EXCEPT !.swap_dev = [@ EXCEPT ![d] = x]]
  BY DEF t, w
<1> QED
  BY <1>4, <1>5, <1>6, <1>7

\* do_swapping: the other drive is unloaded and the volume moves no more.
LEMMA SwapDone ==
  ASSUME NEW s, VmInv(s), NEW d \in Drives, s.swap_dev[d] # NoDrive
  PROVE  VmInv(Unswapped(s, d)) /\ \A e \in Drives : Safe(s, Unswapped(s, d), e)
<1>0. s \in VolState
  BY DEF VmInv
<1> DEFINE e0 == s.swap_dev[d]
           u == IF s.unload[e0] /\ s.loaded[e0] # NoVol /\ kind = "tape" THEN unload_drive(s, e0) ELSE s
           v == u.vol[d]
           item == [[u.list[v] EXCEPT !.swapping = FALSE] EXCEPT !.in_use = FALSE]
           m == [u EXCEPT !.list = [@ EXCEPT ![v] = item]]
           k == [m EXCEPT !.hdr = [@ EXCEPT ![d] = NoVol]]
           c == IF v = NoVol THEN u ELSE k
           t == [c EXCEPT !.swap_dev = [@ EXCEPT ![d] = NoDrive]]
<1>1. e0 \in Drives
  BY <1>0, StateFields
<1>2. VmInv(u) /\ \A e \in Drives : Safe(s, u, e)
  <2>1. CASE s.unload[e0] /\ s.loaded[e0] # NoVol /\ kind = "tape"
    BY <2>1, <1>1, Unloaded
  <2>2. CASE ~(s.unload[e0] /\ s.loaded[e0] # NoVol /\ kind = "tape")
    BY <2>2 DEF Safe
  <2> QED
    BY <2>1, <2>2
<1>3. Unswapped(s, d) = [(IF u.vol[d] = NoVol THEN u
           ELSE [u EXCEPT !.list[u.vol[d]].swapping = FALSE,
                          !.list[u.vol[d]].in_use = FALSE, !.hdr[d] = NoVol])
                         EXCEPT !.swap_dev[d] = NoDrive]
  BY DEF Unswapped
<1> HIDE DEF u
<1>4. u \in VolState /\ Own(u)
  BY <1>2 DEF VmInv
<1>5. VmInv(c) /\ \A e \in Drives : Safe(u, c, e)
  <2>1. CASE v = NoVol
    BY <2>1, <1>2 DEF Safe
  <2>2. CASE v # NoVol
    <3>1. v \in DOMAIN u.list /\ u.list[v].dev = d
      BY <1>4, <2>2 DEF Own
    <3>2. item \in VolRes /\ item.dev = d
      <4>1. u.list[v] \in VolRes
        BY <1>4, <3>1, StateFields
      <4> QED
        BY <4>1, <3>1 DEF VolRes
    <3> HIDE DEF item
    <3>3. /\ VmInv(m) /\ Frame(u, m) /\ m.vol = u.vol
          /\ \A e \in Drives : u.vol[e] # v => Safe(u, m, e)
      BY <1>2, <3>1, <3>2, EntryUpdate
    <3> HIDE DEF m
    <3>4. m \in VolState /\ Own(m) /\ HdrOK(m) /\ TapeOK(m)
      BY <3>3 DEF VmInv
    <3> DEFINE h == [m.hdr EXCEPT ![d] = NoVol]
    <3>5. /\ h \in [Drives -> Volumes \cup {NoVol}] /\ h[d] = NoVol
          /\ \A e \in Drives \ {d} : h[e] = m.hdr[e]
      BY <3>4, StateFields
    <3>6. k = [m EXCEPT !.hdr = h]
      OBVIOUS
    <3> HIDE DEF h, k
    <3>7. k \in VolState
      BY <3>4, <3>5, <3>6, FieldUpdates
    <3>8. /\ k.hdr = h /\ k.loaded = m.loaded /\ k.append = m.append
          /\ k.vol = m.vol /\ k.list = m.list
      BY <3>4, <3>6 DEF VolState
    <3>9. HdrOK(k) /\ TapeOK(k)
      BY <3>4, <3>5, <3>8 DEF HdrOK, TapeOK
    <3>10. VmInv(k)
      BY <3>4, <3>7, <3>8, <3>9, OwnSame DEF VmInv
    <3>11. Safe(u, k, d)
      BY <3>5, <3>8 DEF Safe
    <3>12. \A e \in Drives \ {d} : Safe(u, k, e)
      <4> TAKE e \in Drives \ {d}
      <4>1. u.vol[e] # v
        BY <1>4, <2>2, <3>1 DEF Own
      <4>2. Safe(u, m, e)
        BY <4>1, <3>3
      <4> QED
        BY <4>2, <3>5, <3>8 DEF Safe
    <3> QED
      BY <2>2, <3>10, <3>11, <3>12
  <2> QED
    BY <2>1, <2>2
<1>6. Unswapped(s, d) = t
  <2>1. CASE v = NoVol
    BY <2>1, <1>3, <1>4 DEF VolState
  <2>2. CASE v # NoVol
    <3>1. v \in DOMAIN u.list
      BY <1>4, <2>2 DEF Own
    <3>2. u.list[v] \in VolRes /\ u.list \in [DOMAIN u.list -> VolRes]
      BY <1>4, <3>1, StateFields
    <3>3. [u EXCEPT !.list[v].swapping = FALSE, !.list[v].in_use = FALSE, !.hdr[d] = NoVol] = k
      BY <1>4, <3>1, <3>2 DEF VolState
    <3>4. k \in VolState
      BY <1>5, <2>2 DEF VmInv
    <3> HIDE DEF k
    <3> QED
      BY <2>2, <1>3, <3>3, <3>4 DEF VolState
  <2> QED
    BY <2>1, <2>2
<1> HIDE DEF c
<1>7. VmInv(t) /\ \A e \in Drives : Safe(c, t, e)
  BY <1>5, SwapDevSet
<1> HIDE DEF t
<1> QED
  BY <1>2, <1>5, <1>6, <1>7, SafeTransitive

\* Drive d gets an entry of its own for volume v, w is then where the drives
\* point to: x is the drive that had the volume before, or d; an entry d
\* pointed to before is moving or gone.
Gives(s, t, d, v, item, x, w) ==
  /\ s.vol[d] # NoVol => s.list[s.vol[d]].swapping
  /\ v \in DOMAIN s.list => s.list[v].dev = x
  /\ w \in [Drives -> Volumes \cup {NoVol}] /\ w[d] = v
  /\ x # d => w[x] = NoVol /\ s.vol[x] = v
  /\ \A e \in Drives \ {d, x} : w[e] = s.vol[e]
  /\ item \in VolRes /\ item.dev = d /\ item.in_use
  /\ t = [s EXCEPT !.vol = w, !.list = With(s.list, v, item)]

\* The lists agree after that too.
LEMMA EntryGiven ==
  ASSUME NEW s, NEW t, NEW d \in Drives, NEW v \in Volumes, NEW item,
         NEW x \in Drives, NEW w, VmInv(s), Gives(s, t, d, v, item, x, w)
  PROVE  /\ VmInv(t) /\ Frame(s, t) /\ t.vol[d] = v
         /\ v \in DOMAIN t.list /\ t.list[v].in_use
         /\ \A e \in Drives \ {d, x} : Safe(s, t, e)
<1>0. s \in VolState /\ Own(s) /\ HdrOK(s) /\ TapeOK(s)
  BY DEF VmInv
<1> DEFINE l == With(s.list, v, item)
<1> /\ s.vol[d] # NoVol => s.list[s.vol[d]].swapping
    /\ v \in DOMAIN s.list => s.list[v].dev = x
    /\ w \in [Drives -> Volumes \cup {NoVol}] /\ w[d] = v
    /\ x # d => w[x] = NoVol /\ s.vol[x] = v
    /\ \A e \in Drives \ {d, x} : w[e] = s.vol[e]
    /\ item \in VolRes /\ item.dev = d /\ item.in_use
  BY DEF Gives
<1>1. /\ DOMAIN l = DOMAIN s.list \cup {v} /\ l \in [DOMAIN l -> VolRes] /\ l[v] = item
      /\ \A y \in DOMAIN s.list \ {v} : l[y] = s.list[y]
  BY <1>0, StateFields DEF With
<1>2. DOMAIN l \subseteq Volumes
  BY <1>0, <1>1, StateFields
<1>5. t = [[s EXCEPT !.vol = w] EXCEPT !.list = l]
  BY <1>0 DEF VolState, Gives
<1> HIDE DEF l
<1>3. t \in VolState
  <2>1. [s EXCEPT !.vol = w] \in VolState
    BY <1>0, FieldUpdates
  <2>2. [[s EXCEPT !.vol = w] EXCEPT !.list = l] \in VolState
    BY <2>1, <1>1, <1>2, FieldUpdates
  <2> QED
    BY <2>2, <1>5
<1>4. t.list = l /\ t.vol = w /\ Frame(s, t)
  BY <1>0, <1>5 DEF VolState, Frame
<1>6. v # NoVol
  BY VolumesAssumption
<1>7. \A e \in Drives \ {d, x} : s.vol[e] # v
  BY <1>0, <1>6 DEF Own
<1>8. Own(t)
  <2>1. \A e \in Drives : t.vol[e] # NoVol => t.vol[e] \in DOMAIN t.list /\ t.list[t.vol[e]].dev = e
    <3> SUFFICES ASSUME NEW e \in Drives, t.vol[e] # NoVol
                 PROVE  t.vol[e] \in DOMAIN t.list /\ t.list[t.vol[e]].dev = e
      OBVIOUS
    <3>1. CASE e = d
      BY <3>1, <1>1, <1>4
    <3>2. CASE e # d
      <4>1. e # x /\ t.vol[e] = s.vol[e]
        BY <3>2, <1>4
      <4>2. s.vol[e] \in DOMAIN s.list /\ s.list[s.vol[e]].dev = e /\ s.vol[e] # v
        BY <4>1, <3>2, <1>0, <1>7 DEF Own
      <4> QED
        BY <4>1, <4>2, <1>1, <1>4
    <3> QED
      BY <3>1, <3>2
  <2>2. \A y \in DOMAIN t.list : t.list[y].swapping \/ t.vol[t.list[y].dev] = y
    <3> SUFFICES ASSUME NEW y \in DOMAIN t.list, ~t.list[y].swapping
                 PROVE  t.vol[t.list[y].dev] = y
      OBVIOUS
    <3>1. CASE y = v
      BY <3>1, <1>1, <1>4
    <3>2. CASE y # v
      <4>1. y \in DOMAIN s.list /\ t.list[y] = s.list[y] /\ ~s.list[y].swapping
        BY <3>2, <1>1, <1>4
      <4>2. s.list[y].dev \in Drives
        BY <4>1, <1>0, StateFields DEF VolRes
      <4>3. s.vol[s.list[y].dev] = y
        BY <4>1, <1>0 DEF Own
      <4>4. y # NoVol
        BY <4>1, <1>0, StateFields
      <4>5. s.list[y].dev # d
        BY <4>1, <4>3, <4>4
      <4>6. s.list[y].dev # x
        BY <3>2, <4>3, <4>5
      <4> QED
        BY <4>1, <4>2, <4>3, <4>5, <4>6, <1>4
    <3> QED
      BY <3>1, <3>2
  <2> QED
    BY <2>1, <2>2 DEF Own
<1>9. \A e \in Drives \ {d, x} : Safe(s, t, e)
  <2> TAKE e \in Drives \ {d, x}
  <2>1. s.vol[e] # NoVol => s.vol[e] \in DOMAIN s.list \ {v}
    BY <1>0, <1>7 DEF Own
  <2> QED
    BY <2>1, <1>1, <1>4 DEF Safe, Frame
<1>10. VmInv(t)
  BY <1>0, <1>3, <1>4, <1>8, FrameVmInv DEF VmInv
<1> QED
  BY <1>1, <1>4, <1>9, <1>10

\* SwapTo: the entry of a volume that is not moving goes from its drive to d.
LEMMA Swapped ==
  ASSUME NEW s, VmInv(s), NEW d \in Drives, NEW v \in DOMAIN s.list,
         s.list[v].dev # d, ~s.list[v].swapping
  PROVE  LET t == SwapTo(s, d, v) IN
         /\ VmInv(t) /\ Frame(s, t) /\ t.vol[d] = v
         /\ v \in DOMAIN t.list /\ t.list[v].in_use
         /\ \A e \in Drives \ {d, s.list[v].dev} : Safe(s, t, e)
<1>0. s \in VolState /\ Own(s)
  BY DEF VmInv
<1> DEFINE x == s.list[v].dev
           f == free_volume(s, d)
           g == set_unload(f, d)
           u == set_unload(g, x)
           item == [dev |-> d, in_use |-> TRUE, swapping |-> TRUE]
           w == [[u.vol EXCEPT ![x] = NoVol] EXCEPT ![d] = v]
           k == [u EXCEPT !.vol = w, !.list = With(u.list, v, item)]
           t == [k EXCEPT !.swap_dev = [@ EXCEPT ![d] = x]]
<1>1. x \in Drives /\ v \in Volumes /\ item \in VolRes
  BY <1>0, StateFields DEF VolRes
<1>2. s.vol[x] = v
  BY <1>0 DEF Own
<1>3. v # s.vol[d]
  BY <1>0, StateFields DEF Own
<1>4. /\ VmInv(f) /\ Frame(s, f) /\ (f.vol[d] = NoVol \/ f = s)
      /\ v \in DOMAIN f.list /\ f.list[v] = s.list[v]
      /\ \A e \in Drives \ {d} : f.vol[e] = s.vol[e] /\ Safe(s, f, e)
  BY <1>3, FreeVolume
<1>5. f.vol[d] # NoVol => f.list[f.vol[d]].swapping
  <2>1. CASE s.vol[d] = NoVol \/ Swapping(s, d)
    BY <2>1 DEF free_volume, Swapping
  <2>2. CASE ~(s.vol[d] = NoVol \/ Swapping(s, d))
    BY <2>2, <1>0, StateFields DEF free_volume, VolState
  <2> QED
    BY <2>1, <2>2
<1>6. SwapTo(s, d, v) = [u EXCEPT !.vol[x] = NoVol, !.vol[d] = v, !.swap_dev[d] = x,
                                  !.list[v] = item]
  BY DEF SwapTo
<1> HIDE DEF f, x
<1>7. /\ VmInv(g) /\ Frame(f, g) /\ g.vol = f.vol /\ g.list = f.list
      /\ \A e \in Drives : Safe(f, g, e)
  BY <1>4, UnloadSet
<1> HIDE DEF g
<1>8. /\ VmInv(u) /\ Frame(g, u) /\ u.vol = g.vol /\ u.list = g.list
      /\ \A e \in Drives : Safe(g, u, e)
  BY <1>1, <1>7, UnloadSet
<1> HIDE DEF u
<1>9. u \in VolState
  BY <1>8 DEF VmInv
<1>10. x # d
  BY DEF x
<1>11. /\ w \in [Drives -> Volumes \cup {NoVol}] /\ w[d] = v /\ w[x] = NoVol
       /\ \A e \in Drives \ {d, x} : w[e] = u.vol[e]
  BY <1>1, <1>9, <1>10, StateFields
<1>12. k = [u EXCEPT !.vol = w, !.list = [@ EXCEPT ![v] = item]]
  <2>1. With(u.list, v, item) = [u.list EXCEPT ![v] = item]
    <3>1. u.list \in [DOMAIN u.list -> VolRes]
      BY <1>9, StateFields
    <3>2. v \in DOMAIN u.list
      BY <1>4, <1>7, <1>8
    <3>3. DOMAIN u.list \cup {v} = DOMAIN u.list
      BY <3>2
    <3> HIDE DEF item
    <3> QED
      BY <3>1, <3>2, <3>3 DEF With
  <2> QED
    BY <2>1
<1>13. SwapTo(s, d, v) = t
  <2>1. t = [[u EXCEPT !.vol = w, !.list = [@ EXCEPT ![v] = item]]
               EXCEPT !.swap_dev = [@ EXCEPT ![d] = x]]
    BY <1>12
  <2> QED
    BY <2>1, <1>6, <1>9 DEF VolState
<1>14. /\ VmInv(k) /\ Frame(u, k) /\ k.vol[d] = v
       /\ v \in DOMAIN k.list /\ k.list[v].in_use
       /\ \A e \in Drives \ {d, x} : Safe(u, k, e)
  <2>1. u.vol[d] # NoVol => u.list[u.vol[d]].swapping
    BY <1>5, <1>7, <1>8
  <2>2. u.list[v].dev = x
    BY <1>4, <1>7, <1>8 DEF x
  <2>3. u.vol[x] = v
    BY <1>1, <1>2, <1>4, <1>7, <1>8, <1>10
  <2>4. Gives(u, k, d, v, item, x, w)
    <3>1. item.dev = d /\ item.in_use
      OBVIOUS
    <3> HIDE DEF w, item
    <3> QED
      BY <3>1, <1>1, <1>11, <2>1, <2>2, <2>3 DEF Gives
  <2> HIDE DEF k, w, item
  <2> QED
    BY <1>1, <1>8, <2>4, EntryGiven
<1> HIDE DEF k
<1>15. /\ VmInv(t) /\ Frame(k, t) /\ t.vol = k.vol /\ t.list = k.list
       /\ \A e \in Drives : Safe(k, t, e)
  BY <1>1, <1>14, SwapDevSet
<1> HIDE DEF t
<1>16. \A e \in Drives \ {d, x} : Safe(s, t, e)
  BY <1>4, <1>7, <1>8, <1>14, <1>15, SafeTransitive
<1>17. Frame(s, t)
  BY <1>4, <1>7, <1>8, <1>14, <1>15 DEF Frame
<1> QED
  BY <1>13, <1>14, <1>15, <1>16, <1>17 DEF x

\* OldFreed: the drive's old entry is gone, unless it is moving.
LEMMA OldGone ==
  ASSUME NEW s, VmInv(s), NEW d \in Drives
  PROVE  LET t == OldFreed(s, d) IN
         /\ VmInv(t) /\ Frame(s, t)
         /\ t.vol[d] # NoVol => t.list[t.vol[d]].swapping
         /\ \A e \in Drives \ {d} : Safe(s, t, e)
<1>1. CASE s.vol[d] = NoVol
  BY <1>1 DEF OldFreed, Frame, Safe
<1>2. CASE s.vol[d] # NoVol
  <2> DEFINE u == IF s.vol[d] = s.hdr[d] THEN set_unload(s, d) ELSE s
             t == free_volume(u, d)
  <2>1. /\ VmInv(u) /\ Frame(s, u) /\ u.vol = s.vol /\ u.list = s.list
        /\ \A e \in Drives : Safe(s, u, e)
    <3>1. CASE s.vol[d] = s.hdr[d]
      BY <3>1, UnloadSet
    <3>2. CASE s.vol[d] # s.hdr[d]
      BY <3>2 DEF Safe, Frame
    <3> QED
      BY <3>1, <3>2
  <2>2. OldFreed(s, d) = t
    BY <1>2 DEF OldFreed
  <2> HIDE DEF u
  <2>3. u \in VolState
    BY <2>1 DEF VmInv
  <2>4. VmInv(t) /\ Frame(u, t) /\ \A e \in Drives \ {d} : Safe(u, t, e)
    BY <2>1, FreeVolume
  <2>5. t.vol[d] # NoVol => t.list[t.vol[d]].swapping
    <3>1. CASE u.vol[d] = NoVol \/ Swapping(u, d)
      BY <3>1 DEF free_volume, Swapping
    <3>2. CASE ~(u.vol[d] = NoVol \/ Swapping(u, d))
      BY <3>2, <2>3, StateFields DEF free_volume, VolState
    <3> QED
      BY <3>1, <3>2
  <2> HIDE DEF t
  <2>6. \A e \in Drives \ {d} : Safe(s, t, e)
    BY <2>1, <2>4, SafeTransitive
  <2>7. Frame(s, t)
    BY <2>1, <2>4 DEF Frame
  <2> QED
    BY <2>2, <2>4, <2>5, <2>6, <2>7
<1> QED
  BY <1>1, <1>2

\* Reserve: when it succeeds the drive points to the volume, in use;
\* drives in use are safe, and the drive itself when the job has no volume
\* reserved on it.
LEMMA VolumeReserved ==
  ASSUME NEW s, VmInv(s), NEW d \in Drives, NEW v \in Volumes, NEW mine
  PROVE  LET r == Reserve(s, d, v, mine) IN
         /\ VmInv(r.vm) /\ Frame(s, r.vm) /\ r.ok \in BOOLEAN
         /\ r.ok => r.vm.vol[d] = v /\ v \in DOMAIN r.vm.list /\ r.vm.list[v].in_use
         /\ \A e \in Drives \ {d} : is_busy(e) => Safe(s, r.vm, e)
         /\ ~mine => Safe(s, r.vm, d)
<1> DEFINE r == Reserve(s, d, v, mine)
           f == OldFreed(s, d)
<1>0. s \in VolState /\ Own(s) /\ v # NoVol
  BY VolumesAssumption DEF VmInv
<1>1. CASE KeptByOther(s, d, v, mine)
  <2>1. r = [ok |-> FALSE, vm |-> s]
    BY <1>1 DEF Reserve, Reserved
  <2> QED
    BY <2>1 DEF Frame, Safe
<1>2. CASE ~KeptByOther(s, d, v, mine) /\ s.vol[d] = v
  <2> DEFINE t == MarkInUse(s, v, TRUE)
  <2>1. r = [ok |-> TRUE, vm |-> t]
    BY <1>2 DEF Reserve, Reserved
  <2>2. v \in DOMAIN s.list
    BY <1>0, <1>2 DEF Own
  <2>3. /\ VmInv(t) /\ Frame(s, t) /\ t.vol = s.vol
        /\ v \in DOMAIN t.list /\ t.list[v].in_use
        /\ \A e \in Drives : Safe(s, t, e)
    BY <2>2, Marked, TRUE \in BOOLEAN
  <2> HIDE DEF t
  <2> QED
    BY <1>2, <2>1, <2>3
<1>3. CASE ~KeptByOther(s, d, v, mine) /\ s.vol[d] # v
  <2>1. /\ VmInv(f) /\ Frame(s, f) /\ (f.vol[d] # NoVol => f.list[f.vol[d]].swapping)
        /\ \A e \in Drives \ {d} : Safe(s, f, e)
    BY OldGone
  <2>2. r = IF v \notin DOMAIN f.list
              THEN Reserved(TRUE, [f EXCEPT !.vol[d] = v, !.list =
                     With(f.list, v, [dev |-> d, in_use |-> TRUE, swapping |-> FALSE])])
            ELSE IF f.list[v].dev = d
              THEN Reserved(TRUE, MarkInUse([f EXCEPT !.vol[d] = v], v, TRUE))
            ELSE IF CanSwap(f, v) THEN Reserved(TRUE, SwapTo(f, d, v))
            ELSE Reserved(FALSE, f)
    BY <1>3 DEF Reserve
  <2> HIDE DEF f, r
  <2>3. f \in VolState
    BY <2>1 DEF VmInv
  <2>4. SUFFICES /\ VmInv(r.vm) /\ Frame(f, r.vm) /\ r.ok \in BOOLEAN
                 /\ r.ok => r.vm.vol[d] = v /\ v \in DOMAIN r.vm.list /\ r.vm.list[v].in_use
                 /\ \A e \in Drives \ {d} : is_busy(e) => Safe(f, r.vm, e)
    <3>1. \A e \in Drives \ {d} : is_busy(e) => Safe(s, r.vm, e)
      BY <2>1, <2>4, SafeTransitive
    <3>2. Frame(s, r.vm)
      BY <2>1, <2>4 DEF Frame
    <3>3. ~mine => Safe(s, r.vm, d)
      BY <1>3, <3>2 DEF Safe, Frame, KeptByOther
    <3> QED
      BY <2>4, <3>1, <3>2, <3>3 DEF r
  <2> DEFINE w == [f.vol EXCEPT ![d] = v]
  <2>5. /\ w \in [Drives -> Volumes \cup {NoVol}] /\ w[d] = v
        /\ \A e \in Drives \ {d} : w[e] = f.vol[e]
    BY <2>3, StateFields
  <2>6. CASE v \notin DOMAIN f.list
    <3> DEFINE item == [dev |-> d, in_use |-> TRUE, swapping |-> FALSE]
               t == [f EXCEPT !.vol = w, !.list = With(f.list, v, item)]
    <3>1. r = [ok |-> TRUE, vm |-> t]
      BY <2>2, <2>6 DEF Reserved
    <3>2. Gives(f, t, d, v, item, d, w)
      <4>1. item \in VolRes /\ item.dev = d /\ item.in_use
        BY DEF VolRes
      <4> HIDE DEF w, item
      <4> QED
        BY <4>1, <2>1, <2>5, <2>6 DEF Gives
    <3> HIDE DEF t, w, item
    <3>3. /\ VmInv(t) /\ Frame(f, t) /\ t.vol[d] = v
          /\ v \in DOMAIN t.list /\ t.list[v].in_use
          /\ \A e \in Drives \ {d, d} : Safe(f, t, e)
      BY <2>1, <3>2, EntryGiven
    <3> QED
      BY <3>1, <3>3
  <2>7. CASE v \in DOMAIN f.list /\ f.list[v].dev = d
    <3> DEFINE item == [f.list[v] EXCEPT !.in_use = TRUE]
               t == [f EXCEPT !.vol = w, !.list = With(f.list, v, item)]
    <3>0. f.list[v] \in VolRes
      BY <2>3, <2>7, StateFields
    <3>1. item \in VolRes /\ item.dev = d /\ item.in_use
      BY <3>0, <2>7 DEF VolRes
    <3>2. MarkInUse([f EXCEPT !.vol[d] = v], v, TRUE) = t
      <4>1. MarkInUse([f EXCEPT !.vol[d] = v], v, TRUE)
              = [f EXCEPT !.vol = w, !.list = [f.list EXCEPT ![v] = item]]
        BY <2>3 DEF MarkInUse, VolState
      <4> HIDE DEF item, w
      <4>2. [f.list EXCEPT ![v] = item] = With(f.list, v, item)
        BY <2>3, <2>7, <3>1, StateFields DEF With
      <4> QED
        BY <4>1, <4>2
    <3>3. r = [ok |-> TRUE, vm |-> t] /\ Gives(f, t, d, v, item, d, w)
      <4> HIDE DEF w, item
      <4>1. Gives(f, t, d, v, item, d, w)
        BY <2>1, <2>5, <2>7, <3>1 DEF Gives
      <4> HIDE DEF t
      <4> QED
        BY <4>1, <2>2, <2>7, <3>2 DEF Reserved
    <3> HIDE DEF t, w, item
    <3>4. /\ VmInv(t) /\ Frame(f, t) /\ t.vol[d] = v
          /\ v \in DOMAIN t.list /\ t.list[v].in_use
          /\ \A e \in Drives \ {d, d} : Safe(f, t, e)
      BY <2>1, <3>3, EntryGiven
    <3> QED
      BY <3>3, <3>4
  <2>8. CASE v \in DOMAIN f.list /\ f.list[v].dev # d /\ CanSwap(f, v)
    <3> DEFINE t == SwapTo(f, d, v)
    <3>1. r = [ok |-> TRUE, vm |-> t]
      BY <2>2, <2>8 DEF Reserved
    <3>2. ~is_busy(f.list[v].dev) /\ ~f.list[v].swapping
      BY <2>8 DEF CanSwap
    <3>3. /\ VmInv(t) /\ Frame(f, t) /\ t.vol[d] = v
          /\ v \in DOMAIN t.list /\ t.list[v].in_use
          /\ \A e \in Drives \ {d, f.list[v].dev} : Safe(f, t, e)
      BY <2>1, <2>8, <3>2, Swapped
    <3> HIDE DEF t
    <3>4. \A e \in Drives \ {d} : is_busy(e) => Safe(f, t, e)
      BY <3>2, <3>3
    <3> QED
      BY <3>1, <3>3, <3>4
  <2>9. CASE v \in DOMAIN f.list /\ f.list[v].dev # d /\ ~CanSwap(f, v)
    <3>1. r = [ok |-> FALSE, vm |-> f]
      BY <2>2, <2>9 DEF Reserved
    <3> QED
      BY <3>1, <2>1 DEF Frame, Safe
  <2> QED
    BY <2>6, <2>7, <2>8, <2>9
<1> QED
  BY <1>1, <1>2, <1>3

\* Reservations on drive d, one after the other, keep what VolumeReserved says.
Derived(s, t, d, mine) ==
  /\ VmInv(t) /\ Frame(s, t)
  /\ \A e \in Drives \ {d} : is_busy(e) => Safe(s, t, e)
  /\ ~mine => Safe(s, t, d)

LEMMA DerivedMore ==
  ASSUME NEW s, NEW t, NEW u, NEW d, NEW mine, Derived(s, t, d, mine), Derived(t, u, d, mine)
  PROVE  Derived(s, u, d, mine)
<1>1. VmInv(u) /\ Frame(s, u)
  BY DEF Derived, Frame
<1>2. \A e \in Drives \ {d} : is_busy(e) => Safe(s, u, e)
  BY SafeTransitive DEF Derived
<1>3. ~mine => Safe(s, u, d)
  BY SafeTransitive DEF Derived
<1> QED
  BY <1>1, <1>2, <1>3 DEF Derived

\* What reserve_volume returns: nothing was done, or Reserve was.
LEMMA OutcomeReserved ==
  ASSUME NEW s, VmInv(s), NEW v \in Volumes, NEW j, dcr[j].dev \in Drives,
         NEW q \in reserve_volume(j, s, v)
  PROVE  /\ Derived(s, q.vm, dcr[j].dev, dcr[j].reserved_volume) /\ q.ok \in BOOLEAN
         /\ q.ok => q.vm.vol[dcr[j].dev] = v /\ v \in DOMAIN q.vm.list /\ q.vm.list[v].in_use
<1> DEFINE d == dcr[j].dev
           mine == dcr[j].reserved_volume
<1>1. CASE q = Reserved(FALSE, s)
  BY <1>1 DEF Reserved, Derived, Frame, Safe
<1>2. CASE q = Reserve(s, d, v, mine)
  <2>1. PICK e \in Drives : e = d
    OBVIOUS
  <2>2. PICK m : m = mine
    OBVIOUS
  <2>3. q = Reserve(s, e, v, m)
    BY <1>2, <2>1, <2>2
  <2> HIDE DEF d, mine
  <2>4. /\ VmInv(q.vm) /\ Frame(s, q.vm) /\ q.ok \in BOOLEAN
        /\ q.ok => q.vm.vol[e] = v /\ v \in DOMAIN q.vm.list /\ q.vm.list[v].in_use
        /\ \A x \in Drives \ {e} : is_busy(x) => Safe(s, q.vm, x)
        /\ ~m => Safe(s, q.vm, e)
    BY <2>3, VolumeReserved
  <2> QED
    BY <2>1, <2>2, <2>4 DEF Derived, d, mine
<1> QED
  BY <1>1, <1>2 DEF reserve_volume

\* Reading the label: the drive is not open for appending any more, and its
\* label is that of what it holds.
LEMMA LabelOfLoaded ==
  ASSUME NEW s, VmInv(s), NEW d \in Drives, NEW v \in Volumes \cup {NoVol}
  PROVE  LET t == LabelRead(s, d, v) IN
         /\ VmInv(t) /\ t.hdr[d] \in Volumes \cup {NoVol} /\ ~t.append[d]
         /\ \A e \in Drives : Safe(s, t, e)
<1>0. s \in VolState /\ Own(s) /\ HdrOK(s) /\ TapeOK(s)
  BY DEF VmInv
<1> DEFINE x == IF kind = "file" /\ s.loaded[d] = NoVol THEN v ELSE s.loaded[d]
           l == [s.loaded EXCEPT ![d] = x]
           h == [s.hdr EXCEPT ![d] = x]
           a == [s.append EXCEPT ![d] = FALSE]
           n == [s.unload EXCEPT ![d] = @ /\ kind = "tape"]
           t == [s EXCEPT !.loaded = l, !.hdr = h, !.append = a, !.unload = n]
<1>1. x \in Volumes \cup {NoVol}
  BY <1>0, StateFields
<1>2. LabelRead(s, d, v) = t
  <2>1. CASE kind = "file" /\ s.loaded[d] = NoVol
    BY <2>1, <1>0, StateFields DEF LabelRead, VolState
  <2>2. CASE ~(kind = "file" /\ s.loaded[d] = NoVol)
    <3>1. l = s.loaded /\ x = s.loaded[d]
      BY <2>2, <1>0, StateFields
    <3>2. LabelRead(s, d, v) = [s EXCEPT !.hdr = h, !.append = a, !.unload = n]
      BY <2>2, <3>1, <1>0 DEF LabelRead, VolState
    <3>3. s = [s EXCEPT !.loaded = l]
      BY <3>1, <1>0 DEF VolState
    <3> HIDE DEF l, h, a, n, x
    <3> QED
      BY <1>0, <3>2, <3>1 DEF VolState
  <2> QED
    BY <2>1, <2>2
<1>3. /\ l \in [Drives -> Volumes \cup {NoVol}] /\ h \in [Drives -> Volumes \cup {NoVol}]
      /\ a \in [Drives -> BOOLEAN] /\ n \in [Drives -> BOOLEAN]
      /\ l[d] = x /\ h[d] = x /\ ~a[d]
      /\ \A e \in Drives \ {d} : l[e] = s.loaded[e] /\ h[e] = s.hdr[e] /\ a[e] = s.append[e]
  BY <1>0, <1>1, StateFields
<1>4. kind = "tape" => l = s.loaded
  BY <1>0, StateFields
<1> HIDE DEF l, h, a, n, x
<1>5. t \in VolState
  BY <1>0, <1>3 DEF VolState
<1>6. t.loaded = l /\ t.hdr = h /\ t.append = a /\ t.vol = s.vol /\ t.list = s.list
  BY <1>0 DEF VolState
<1> HIDE DEF t
<1>7. HdrOK(t)
  BY <1>0, <1>3, <1>6 DEF HdrOK
<1>8. TapeOK(t)
  BY <1>0, <1>4, <1>6 DEF TapeOK
<1>9. \A e \in Drives : Safe(s, t, e)
  BY <1>3, <1>6 DEF Safe
<1>10. VmInv(t)
  BY <1>0, <1>5, <1>6, <1>7, <1>8, OwnSame DEF VmInv
<1> QED
  BY <1>1, <1>2, <1>3, <1>6, <1>9, <1>10

\* A drive with a writer is busy.
LEMMA WriterBusy ==
  ASSUME NEW d, HasWriter(d)
  PROVE  is_busy(d) /\ num_writers(d) # 0
<1> DEFINE S == {j \in Jobs : dcr[j].dev = d /\ dcr[j].writer}
<1>1. IsFiniteSet(S)
  BY JobsAssumption, FS_Subset
<1>2. S # {}
  BY DEF HasWriter
<1>3. Cardinality(S) \in Nat /\ Cardinality(S) # 0
  BY <1>1, <1>2, FS_CardinalityType, FS_EmptySet
<1> QED
  BY <1>3 DEF is_busy, num_writers

------------------------------------------------------------------------------
(***************************************************************************)
(* The invariant.  A step of a job changes its own pc and control record;  *)
(* StepOK collects what must be shown of it.                               *)
(***************************************************************************)

\* The drives stay as FileOK wants them; one that is opened anew is blocked by
\* job j.
FileStep(j) ==
  \A d \in Drives : kind = "file" /\ Active(d)' => Good(d)' /\ (Active(d) \/ blocked[d] = j)

StepOK(j, l, r) ==
  /\ kind' = kind /\ l \in Pcs /\ r \in Dcr
  /\ pc' = [pc EXCEPT ![j] = l] /\ dcr' = [dcr EXCEPT ![j] = r]
  /\ blocked' \in [Drives -> Jobs \cup {NoJob}]
  /\ \A d \in Drives : blocked'[d] = blocked[d] \/ blocked[d] \in {NoJob, j}
  /\ JobFact(j, l, r, blocked')
  /\ r.writer => (dcr[j].writer /\ r.dev = dcr[j].dev) \/ Lock(r.dev)
  /\ l \in {"unused", "unused_end"} => ~HasWriter(r.dev) /\ ~r.writer
  /\ full' \subseteq Volumes
  /\ VmInv(vm')
  /\ FileStep(j)
  /\ l \in AskPcs /\ kind = "file" => ~Active(r.dev)'

\* What StepOK collects is enough.
LEMMA StepKeeps ==
  ASSUME IInv, NEW j \in Jobs, NEW l, NEW r, StepOK(j, l, r)
  PROVE  IInv'
<1>0. VolTypes /\ VmInv(vm) /\ JobOK /\ UnusedOK /\ FileOK
  BY DEF IInv
<1>1. /\ kind' = kind /\ l \in Pcs /\ r \in Dcr
      /\ pc \in [Jobs \cup Readers -> Pcs] /\ pc' = [pc EXCEPT ![j] = l]
      /\ dcr \in [Jobs -> Dcr] /\ dcr' = [dcr EXCEPT ![j] = r]
      /\ kind \in Kinds
  BY <1>0 DEF VolTypes, StepOK
<1>2. /\ pc'[j] = l /\ dcr'[j] = r
      /\ \A k \in Jobs \ {j} : pc'[k] = pc[k] /\ dcr'[k] = dcr[k]
  BY <1>1
<1>3. /\ blocked' \in [Drives -> Jobs \cup {NoJob}] /\ full' \subseteq Volumes
      /\ VmInv(vm') /\ FileStep(j) /\ JobFact(j, l, r, blocked')
      /\ \A d \in Drives : blocked'[d] = blocked[d] \/ blocked[d] \in {NoJob, j}
      /\ r.writer => (dcr[j].writer /\ r.dev = dcr[j].dev) \/ Lock(r.dev)
      /\ l \in {"unused", "unused_end"} => ~HasWriter(r.dev) /\ ~r.writer
      /\ l \in AskPcs /\ kind = "file" => ~Active(r.dev)'
  BY DEF StepOK
<1>4. VolTypes'
  <2>1. pc' \in [Jobs \cup Readers -> Pcs] /\ dcr' \in [Jobs -> Dcr]
    BY <1>1
  <2> QED
    BY <2>1, <1>1, <1>3 DEF VolTypes
<1>5. VmInv(vm)'
  BY <1>1, <1>3 DEF VmInv, Own, HdrOK, TapeOK
<1>6. JobOK'
  <2>1. JobFact(j, pc[j], dcr[j], blocked)'
    BY <1>1, <1>2, <1>3 DEF JobFact
  <2>2. \A k \in Jobs \ {j} : JobFact(k, pc[k], dcr[k], blocked)'
    <3> TAKE k \in Jobs \ {j}
    <3>1. JobFact(k, pc[k], dcr[k], blocked)
      BY <1>0 DEF JobOK
    <3>2. pc[k] \in MountPcs => dcr[k].dev \in Drives /\ blocked[dcr[k].dev] = k
      BY <3>1 DEF JobFact, MountPcs
    <3>3. k # NoJob
      BY JobsAssumption
    <3>4. pc[k] \in MountPcs => blocked'[dcr[k].dev] = k
      BY <3>2, <3>3, <1>3
    <3> QED
      BY <3>1, <3>4, <1>1, <1>2 DEF JobFact
  <2> QED
    BY <2>1, <2>2 DEF JobOK
<1>7. UnusedOK'
  <2>1. SUFFICES ASSUME NEW k \in Jobs, pc'[k] \in {"unused", "unused_end"},
                        NEW i \in Jobs, dcr'[i].dev = dcr'[k].dev, dcr'[i].writer
                 PROVE  FALSE
    BY DEF UnusedOK, HasWriter
  <2>2. CASE k = j
    BY <2>1, <2>2, <1>2, <1>3 DEF HasWriter
  <2>3. CASE k # j /\ i # j
    BY <2>1, <2>3, <1>0, <1>2 DEF UnusedOK, HasWriter
  <2>4. CASE k # j /\ i = j
    <3>1. r.writer /\ dcr[k].dev = r.dev /\ pc[k] \in {"unused", "unused_end"}
      BY <2>1, <2>4, <1>2
    <3>2. CASE dcr[j].writer /\ r.dev = dcr[j].dev
      BY <3>1, <3>2, <1>0 DEF UnusedOK, HasWriter
    <3>3. CASE Lock(r.dev)
      BY <3>1, <3>3 DEF Lock
    <3> QED
      BY <3>1, <3>2, <3>3, <1>3
  <2> QED
    BY <2>2, <2>3, <2>4
<1>8. FileOK'
  <2>1. SUFFICES ASSUME kind = "file"
                 PROVE  /\ \A d \in Drives : Active(d)' => Good(d)'
                        /\ \A k \in Jobs : pc'[k] \in AskPcs => ~Active(dcr[k].dev)'
    BY <1>1 DEF FileOK
  <2>2. \A d \in Drives : Active(d)' => Good(d)'
    BY <2>1, <1>3 DEF FileStep
  <2>3. \A k \in Jobs : pc'[k] \in AskPcs => ~Active(dcr[k].dev)'
    <3> SUFFICES ASSUME NEW k \in Jobs, pc'[k] \in AskPcs
                 PROVE  ~Active(dcr[k].dev)'
      OBVIOUS
    <3>1. CASE k = j
      BY <3>1, <2>1, <1>2, <1>3 DEF Active
    <3>2. CASE k # j
      <4>1. pc[k] \in AskPcs /\ dcr'[k] = dcr[k]
        BY <3>2, <1>2
      <4>2. JobFact(k, pc[k], dcr[k], blocked) /\ ~Active(dcr[k].dev)
        BY <4>1, <2>1, <1>0 DEF JobOK, FileOK
      <4>3. dcr[k].dev \in Drives /\ blocked[dcr[k].dev] = k
        BY <4>1, <4>2 DEF JobFact, MountPcs, AskPcs
      <4>4. \A d \in Drives : blocked[d] = k => (Active(d)' => Active(d))
        BY <3>2, <2>1, <1>3 DEF FileStep
      <4>5. PICK d \in Drives : d = dcr[k].dev
        BY <4>3
      <4>6. ~Active(d)'
        BY <4>2, <4>3, <4>4, <4>5
      <4> QED
        BY <4>1, <4>5, <4>6 DEF Active
    <3> QED
      BY <3>1, <3>2
  <2> QED
    BY <2>2, <2>3
<1> QED
  BY <1>4, <1>5, <1>6, <1>7, <1>8 DEF IInv

\* What an operation leaves open was open before, with the same label.
Open(s, t, d) == t.append[d] /\ t.hdr[d] # NoVol => s.append[d] /\ s.hdr[d] = t.hdr[d]

\* A drive is as FileOK wants it after a step that is safe if it has a writer.
LEMMA DriveKept ==
  ASSUME IInv, NEW d \in Drives, full \subseteq full', Open(vm, vm', d),
         HasWriter(d) => Safe(vm, vm', d) /\ HasWriter(d)'
  PROVE  kind = "file" /\ Active(d)' => Good(d)' /\ Active(d)
<1> SUFFICES ASSUME kind = "file", Active(d)'
             PROVE  Good(d)' /\ Active(d)
  OBVIOUS
<1>1. vm'.append[d] /\ vm'.hdr[d] # NoVol /\ vm'.hdr[d] \notin full
  BY DEF Active
<1>2. Active(d)
  BY <1>1 DEF Active, Open
<1>3. Good(d)
  BY <1>2 DEF IInv, FileOK
<1> QED
  BY <1>1, <1>2, <1>3 DEF Good, Safe

\* A step that is safe for every drive and takes away no writer.
LEMMA SafeStep ==
  ASSUME IInv, NEW j, full \subseteq full', \A d \in Drives : Safe(vm, vm', d),
         \A d \in Drives : HasWriter(d) => HasWriter(d)'
  PROVE  FileStep(j)
<1>1. \A d \in Drives : Open(vm, vm', d)
  BY DEF Safe, Open
<1> QED
  BY <1>1, DriveKept DEF FileStep

\* A writer that stays a writer on its drive.
LEMMA WritersStay ==
  ASSUME NEW j \in Jobs, NEW r, dcr \in [Jobs -> Dcr], dcr' = [dcr EXCEPT ![j] = r],
         dcr[j].writer => r.writer /\ r.dev = dcr[j].dev, NEW d
  PROVE  HasWriter(d) => HasWriter(d)'
BY DEF HasWriter

\* What the invariant says of a job, in the form the steps below use it.
LEMMA JobIs ==
  ASSUME IInv, NEW j \in Jobs
  PROVE  /\ dcr \in [Jobs -> Dcr] /\ dcr[j] \in Dcr
         /\ dcr[j].dev \in Drives \cup {NoDrive}
         /\ dcr[j].VolumeName \in Volumes \cup {NoVol}
         /\ dcr[j].reserved \in BOOLEAN /\ dcr[j].writer \in BOOLEAN
         /\ dcr[j].reserved_volume \in BOOLEAN
         /\ dcr = [dcr EXCEPT ![j] = dcr[j]]
         /\ JobFact(j, pc[j], dcr[j], blocked)
         /\ VmInv(vm) /\ vm \in VolState /\ full \subseteq Volumes
         /\ blocked \in [Drives -> Jobs \cup {NoJob}]
<1>1. dcr \in [Jobs -> Dcr] /\ full \subseteq Volumes /\ blocked \in [Drives -> Jobs \cup {NoJob}]
  BY DEF IInv, VolTypes
<1>2. JobFact(j, pc[j], dcr[j], blocked) /\ VmInv(vm) /\ vm \in VolState
  BY DEF IInv, JobOK, VmInv
<1>3. dcr[j] \in Dcr
  BY <1>1
<1>4. /\ dcr[j].dev \in Drives \cup {NoDrive}
      /\ dcr[j].VolumeName \in Volumes \cup {NoVol}
      /\ dcr[j].reserved \in BOOLEAN /\ dcr[j].writer \in BOOLEAN
      /\ dcr[j].reserved_volume \in BOOLEAN
  BY <1>3 DEF Dcr
<1>5. dcr = [dcr EXCEPT ![j] = dcr[j]]
  BY <1>1
<1> QED
  BY <1>1, <1>2, <1>3, <1>4, <1>5

\* Nothing of the lists and drives changes.
LEMMA SameVm ==
  ASSUME NEW s, NEW d
  PROVE  Safe(s, s, d) /\ Open(s, s, d)
BY DEF Safe, Open

\* Attempting to reserve a drive.
LEMMA ReserveDevice ==
  ASSUME IInv, NEW j \in Jobs, NEW d \in Drives, reserve_device_for_append(j, d)
  PROVE  IInv'
<1> USE DEF reserve_device_for_append, Goto
<1> DEFINE r == [dcr[j] EXCEPT !.dev = d, !.reserved = TRUE]
<1>1. r \in Dcr /\ r.dev = d /\ r.writer = dcr[j].writer
      /\ r.reserved_volume = dcr[j].reserved_volume
  BY JobIs DEF Dcr
<1>2. ~dcr[j].writer /\ ~dcr[j].reserved_volume
  BY JobIs DEF JobFact
<1>3. dcr' = [dcr EXCEPT ![j] = r]
  OBVIOUS
<1> HIDE DEF r
<1>4. FileStep(j)
  BY <1>2, <1>3, JobIs, SameVm, SafeStep, WritersStay
<1>5. JobFact(j, "reserve", r, blocked)
  BY <1>1, <1>2 DEF JobFact, MountPcs
<1>6. StepOK(j, "reserve", r)
  BY <1>1, <1>2, <1>3, <1>4, <1>5, JobIs DEF StepOK, AskPcs, Pcs
<1> QED
  BY <1>6, StepKeeps

\* A reservation is given back.
LEMMA Unreserve ==
  ASSUME IInv, NEW j \in Jobs, unreserve_device(j)
  PROVE  IInv'
<1> DEFINE d == dcr[j].dev
           r == [[dcr[j] EXCEPT !.reserved = FALSE] EXCEPT !.reserved_volume = FALSE]
           last == num_reserved(d) = 1 /\ num_writers(d) = 0
           target == IF pc[j] = "start" /\ attempts < MaxAttempts THEN "start" ELSE "done"
           l == IF last /\ vm.vol[d] # NoVol
                  THEN IF target = "done" THEN "unused_end" ELSE "unused"
                  ELSE target
<1>1. /\ pc[j] \in {"start", "reserved"} /\ dcr[j].reserved
      /\ dcr' = [dcr EXCEPT ![j].reserved = FALSE, ![j].reserved_volume = FALSE]
      /\ pc' = [pc EXCEPT ![j] = l]
      /\ UNCHANGED <<kind, vm, blocked, full>>
  BY DEF unreserve_device, Goto
<1>2. r \in Dcr /\ r.dev = d /\ r.writer = dcr[j].writer /\ ~r.reserved_volume
  BY JobIs DEF Dcr
<1>3. dcr' = [dcr EXCEPT ![j] = r]
  BY <1>1, JobIs DEF Dcr
<1>4. ~dcr[j].writer /\ d \in Drives
  BY <1>1, JobIs DEF JobFact
<1>5. l \in {"start", "done", "unused", "unused_end"}
  OBVIOUS
<1>6. l \in {"unused", "unused_end"} => ~HasWriter(d)
  BY WriterBusy
<1> HIDE DEF r, l
<1>7. FileStep(j)
  BY <1>1, <1>3, <1>4, JobIs, SameVm, SafeStep, WritersStay
<1>8. JobFact(j, l, r, blocked)
  BY <1>2, <1>4, <1>5 DEF JobFact, MountPcs
<1>9. StepOK(j, l, r)
  BY <1>1, <1>2, <1>3, <1>4, <1>5, <1>6, <1>7, <1>8, JobIs DEF StepOK, AskPcs, Pcs
<1> QED
  BY <1>9, StepKeeps

\* Marking the volume of a drive without active writer as not used.
LEMMA UnusedStep ==
  ASSUME IInv, NEW j, NEW d \in Drives, kind = "file" => ~Active(d),
         vm' = volume_unused(vm, d), full' = full,
         \A e \in Drives : HasWriter(e) => HasWriter(e)'
  PROVE  /\ VmInv(vm') /\ FileStep(j)
         /\ kind = "file" => ~Active(d)'
<1>1. /\ VmInv(vm') /\ Frame(vm, vm')
      /\ \A e \in Drives \ {d} : Safe(vm, vm', e)
  BY Unused DEF IInv
<1>2. kind = "file" => ~Active(d)'
  BY <1>1 DEF Frame, Active
<1>3. \A e \in Drives : Open(vm, vm', e)
  BY <1>1 DEF Frame, Open
<1>4. \A e \in Drives \ {d} : kind = "file" /\ Active(e)' => Good(e)' /\ Active(e)
  BY <1>1, <1>3, DriveKept
<1> QED
  BY <1>1, <1>2, <1>4 DEF FileStep

\* unreserve_device goes on to mark the volume.
LEMMA UnreserveMarks ==
  ASSUME IInv, NEW j \in Jobs, unreserve_marks(j)
  PROVE  IInv'
<1> DEFINE d == dcr[j].dev
           r == dcr[j]
           l == IF pc[j] = "unused" THEN "start" ELSE "done"
<1>1. /\ pc[j] \in {"unused", "unused_end"} /\ vm' = volume_unused(vm, d)
      /\ pc' = [pc EXCEPT ![j] = l] /\ UNCHANGED <<kind, dcr, blocked, full>>
  BY DEF unreserve_marks, Goto
<1>2. d \in Drives /\ ~HasWriter(d) /\ ~r.writer
  BY <1>1, JobIs DEF JobFact, IInv, UnusedOK, HasWriter
<1>3. kind = "file" => ~Active(d)
  BY <1>2 DEF IInv, FileOK, Good
<1>4. r \in Dcr /\ dcr' = [dcr EXCEPT ![j] = r]
  BY <1>1, JobIs
<1>5. VmInv(vm') /\ FileStep(j)
  BY <1>1, <1>2, <1>3, UnusedStep DEF HasWriter
<1>6. JobFact(j, l, r, blocked)
  BY <1>1, <1>2, JobIs DEF JobFact, MountPcs
<1>7. l \in {"start", "done"}
  OBVIOUS
<1> HIDE DEF l
<1>8. StepOK(j, l, r)
  BY <1>1, <1>2, <1>4, <1>5, <1>6, <1>7, JobIs DEF StepOK, AskPcs, Pcs
<1> QED
  BY <1>8, StepKeeps

\* A step that reserves volumes on drive d, by a job without a volume there
\* or on a drive that is not appended to.
LEMMA ReserveStep ==
  ASSUME IInv, NEW j, NEW d \in Drives, NEW mine \in BOOLEAN,
         Derived(vm, vm', d, mine), full' = full,
         kind = "file" /\ mine => ~Active(d),
         \A e \in Drives : HasWriter(e) => HasWriter(e)'
  PROVE  /\ VmInv(vm') /\ FileStep(j)
         /\ kind = "file" /\ ~Active(d) => ~Active(d)'
<1>1. /\ VmInv(vm') /\ Frame(vm, vm')
      /\ \A e \in Drives \ {d} : is_busy(e) => Safe(vm, vm', e)
      /\ ~mine => Safe(vm, vm', d)
  BY DEF Derived
<1>2. kind = "file" /\ ~Active(d) => ~Active(d)'
  BY <1>1 DEF Frame, Active
<1>3. \A e \in Drives : Open(vm, vm', e)
  BY <1>1 DEF Frame, Open
<1>4. \A e \in Drives \ {d} : kind = "file" /\ Active(e)' => Good(e)' /\ Active(e)
  BY <1>1, <1>3, DriveKept, WriterBusy
<1>5. ~mine => (kind = "file" /\ Active(d)' => Good(d)' /\ Active(d))
  BY <1>1, <1>3, DriveKept
<1> QED
  BY <1>1, <1>2, <1>4, <1>5 DEF FileStep

\* What the search for an appendable volume returns: nothing was done, or a
\* volume was tried, after another one at most.
LEMMA FindIs ==
  ASSUME NEW j, NEW f \in FindResults(j)
  PROVE  LET try(s, v) == Reserve(s, dcr[j].dev, v, dcr[j].reserved_volume)
             offered == {v \in Volumes : NotFound(j, v)}
         IN  /\ f[1] \in Volumes \cup {NoVol}
             /\ \/ f[2] = Reserved(FALSE, vm)
                \/ \E v \in offered : f[2] = try(vm, v)
                \/ \E v \in offered, u \in offered : f[2] = try(try(vm, u).vm, v)
<1> DEFINE offered == {v \in Volumes \ full : can_i_write_volume(j, v)}
           try(s, v) == Reserve(s, dcr[j].dev, v, dcr[j].reserved_volume)
           before == {vm} \cup {try(vm, u).vm : u \in {w \in offered : ~try(vm, w).ok}}
           result(s, v) == <<IF try(s, v).ok THEN v ELSE NoVol, try(s, v)>>
<1>1. f = <<NoVol, Reserved(FALSE, vm)>> \/ \E s \in before : \E v \in offered : f = result(s, v)
  BY DEF FindResults
<1>2. offered \subseteq {v \in Volumes : NotFound(j, v)}
  BY DEF can_i_write_volume
<1>3. \A s \in before : s = vm \/ \E u \in offered : s = try(vm, u).vm
  OBVIOUS
<1> HIDE DEF try, offered, before
<1>4. CASE f = <<NoVol, Reserved(FALSE, vm)>>
  BY <1>4
<1>5. ASSUME NEW s \in before, NEW v \in offered, f = result(s, v)
      PROVE  /\ f[1] \in Volumes \cup {NoVol} /\ f[2] = try(s, v)
  BY <1>2, <1>5
<1>6. CASE \E s \in before : \E v \in offered : f = result(s, v)
  <2>1. PICK s \in before, v \in offered : f = result(s, v)
    BY <1>6
  <2>2. f[1] \in Volumes \cup {NoVol} /\ f[2] = try(s, v) /\ v \in Volumes /\ NotFound(j, v)
    BY <1>2, <1>5, <2>1
  <2>3. CASE s = vm
    BY <2>2, <2>3 DEF try
  <2>4. CASE \E u \in offered : s = try(vm, u).vm
    BY <1>2, <2>2, <2>4 DEF try
  <2> QED
    BY <1>3, <2>3, <2>4
<1> QED
  BY <1>1, <1>4, <1>6

LEMMA FindDerived ==
  ASSUME IInv, NEW j \in Jobs, dcr[j].dev \in Drives, NEW f \in FindResults(j)
  PROVE  Derived(vm, f[2].vm, dcr[j].dev, dcr[j].reserved_volume)
<1> DEFINE d == dcr[j].dev
           mine == dcr[j].reserved_volume
<1>1. VmInv(vm)
  BY JobIs
<1>2. ASSUME NEW s, VmInv(s), NEW v \in Volumes
      PROVE  Derived(s, Reserve(s, d, v, mine).vm, d, mine)
  BY <1>2, VolumeReserved DEF Derived
<1>3. CASE f[2] = Reserved(FALSE, vm)
  BY <1>1, <1>3 DEF Reserved, Derived, Frame, Safe
<1>4. CASE \E v \in Volumes : f[2] = Reserve(vm, d, v, mine)
  BY <1>1, <1>2, <1>4
<1>5. ASSUME NEW v \in Volumes, NEW u \in Volumes,
             f[2] = Reserve(Reserve(vm, d, u, mine).vm, d, v, mine)
      PROVE  Derived(vm, f[2].vm, d, mine)
  <2> DEFINE s == Reserve(vm, d, u, mine).vm
  <2>1. Derived(vm, s, d, mine)
    BY <1>1, <1>2
  <2>2. Derived(s, f[2].vm, d, mine)
    BY <1>2, <1>5, <2>1 DEF Derived
  <2> HIDE DEF s, d, mine
  <2> QED
    BY <2>1, <2>2, DerivedMore
<1> QED
  BY <1>3, <1>4, <1>5, FindIs

\* A step that looks for a volume and reserves it on drive d.
LEMMA FindStep ==
  ASSUME IInv, NEW j \in Jobs, dcr[j].dev \in Drives, NEW f \in FindResults(j),
         vm' = f[2].vm, full' = full,
         kind = "file" /\ dcr[j].reserved_volume => ~Active(dcr[j].dev),
         \A e \in Drives : HasWriter(e) => HasWriter(e)'
  PROVE  /\ VmInv(vm') /\ FileStep(j)
         /\ kind = "file" /\ ~Active(dcr[j].dev) => ~(vm'.append[dcr[j].dev] /\ vm'.hdr[dcr[j].dev] \notin full \cup {NoVol})
<1>1. PICK e \in Drives : e = dcr[j].dev
  OBVIOUS
<1>2. PICK m \in BOOLEAN : m = dcr[j].reserved_volume
  BY JobIs
<1>3. Derived(vm, vm', e, m)
  BY <1>1, <1>2, FindDerived
<1>4. VmInv(vm') /\ FileStep(j) /\ (kind = "file" /\ ~Active(e) => ~Active(e)')
  BY <1>1, <1>2, <1>3, ReserveStep
<1> QED
  BY <1>1, <1>4 DEF Active

\* Reserving a volume that is known.
LEMMA ReserveKnown ==
  ASSUME IInv, NEW j \in Jobs, NEW v \in Volumes, reserve_known_volume(j, v)
  PROVE  IInv'
<1>0. PICK q \in reserve_volume(j, vm, v) :
        /\ vm' = q.vm
        /\ dcr' = IF q.ok THEN [dcr EXCEPT ![j] = [@ EXCEPT !.VolumeName = v, !.reserved_volume = TRUE]]
                          ELSE dcr
        /\ pc' = [pc EXCEPT ![j] = IF q.ok THEN "reserved" ELSE "start"]
  BY DEF reserve_known_volume, Goto
<1> DEFINE d == dcr[j].dev
           r == IF q.ok THEN [[dcr[j] EXCEPT !.VolumeName = v] EXCEPT !.reserved_volume = TRUE]
                        ELSE dcr[j]
           l == IF q.ok THEN "reserved" ELSE "start"
<1>1. /\ pc[j] = "reserve" /\ vm' = q.vm
      /\ dcr' = IF q.ok THEN [dcr EXCEPT ![j] = [@ EXCEPT !.VolumeName = v, !.reserved_volume = TRUE]]
                        ELSE dcr
      /\ pc' = [pc EXCEPT ![j] = l] /\ UNCHANGED <<kind, blocked, full>>
  BY <1>0 DEF reserve_known_volume
<1>2. d \in Drives /\ ~dcr[j].writer /\ ~dcr[j].reserved_volume
  BY <1>1, JobIs DEF JobFact
<1>3. r \in Dcr /\ r.dev = d /\ r.writer = dcr[j].writer /\ (~q.ok => r = dcr[j])
  <2>1. [[dcr[j] EXCEPT !.VolumeName = v] EXCEPT !.reserved_volume = TRUE] \in Dcr
    BY JobIs DEF Dcr
  <2> QED
    BY <2>1, JobIs DEF Dcr
<1>4. dcr' = [dcr EXCEPT ![j] = r]
  <2>1. CASE q.ok
    BY <2>1, <1>1, JobIs DEF Dcr
  <2>2. CASE ~q.ok
    BY <2>2, <1>1, JobIs
  <2> QED
    BY <2>1, <2>2
<1>5. l \in {"start", "reserved"} /\ (l = "start" => ~q.ok)
  OBVIOUS
<1> HIDE DEF r, l
<1>6. \A e \in Drives : HasWriter(e) => HasWriter(e)'
  BY <1>2, <1>4, JobIs, WritersStay
<1>7. VmInv(vm') /\ FileStep(j)
  <2>1. PICK e \in Drives : e = d
    BY <1>2
  <2>2. Derived(vm, vm', d, dcr[j].reserved_volume)
    BY <1>0, <1>2, JobIs, OutcomeReserved
  <2>3. Derived(vm, vm', e, FALSE)
    BY <1>2, <2>1, <2>2 DEF Derived
  <2> QED
    BY <1>1, <1>6, <2>1, <2>3, ReserveStep
<1>8. JobFact(j, l, r, blocked)
  BY <1>2, <1>3, <1>5 DEF JobFact, MountPcs
<1>9. StepOK(j, l, r)
  BY <1>1, <1>2, <1>3, <1>4, <1>5, <1>7, <1>8, JobIs DEF StepOK, AskPcs, Pcs
<1> QED
  BY <1>9, StepKeeps

\* Named gives the job the volume that was found, if there is one.
LEMMA NamedIs ==
  ASSUME IInv, NEW j \in Jobs, NEW v \in Volumes \cup {NoVol}
  PROVE  \E r \in Dcr : /\ Named(j, v) = [dcr EXCEPT ![j] = r]
                        /\ r.dev = dcr[j].dev /\ r.writer = dcr[j].writer
                        /\ r.reserved = dcr[j].reserved
                        /\ v = NoVol => r.reserved_volume = dcr[j].reserved_volume
<1> DEFINE r == [[dcr[j] EXCEPT !.VolumeName = v] EXCEPT !.reserved_volume = @ \/ v # NoVol]
<1>1. r \in Dcr /\ r.dev = dcr[j].dev /\ r.writer = dcr[j].writer /\ r.reserved = dcr[j].reserved
  BY JobIs DEF Dcr
<1>2. Named(j, v) = [dcr EXCEPT ![j] = r]
  BY JobIs DEF Named, Dcr
<1>3. v = NoVol => r.reserved_volume = dcr[j].reserved_volume
  BY JobIs DEF Dcr
<1> QED
  BY <1>1, <1>2, <1>3

\* Reserving whatever volume the Director offers.
LEMMA ReserveAny ==
  ASSUME IInv, NEW j \in Jobs, reserve_any_volume(j)
  PROVE  IInv'
<1>1. PICK f \in FindResults(j) :
        /\ vm' = f[2].vm /\ dcr' = Named(j, f[1])
        /\ pc' = [pc EXCEPT ![j] = IF f[1] # NoVol \/ num_writers(dcr[j].dev) = 0 THEN "reserved" ELSE "start"]
  BY DEF reserve_any_volume, Goto
<1>2. pc[j] = "reserve" /\ UNCHANGED <<kind, blocked, full>>
  BY DEF reserve_any_volume
<1> DEFINE d == dcr[j].dev
           l == IF f[1] # NoVol \/ num_writers(d) = 0 THEN "reserved" ELSE "start"
<1>3. l \in {"reserved", "start"} /\ (l = "start" => f[1] = NoVol) /\ pc' = [pc EXCEPT ![j] = l]
  BY <1>1
<1> HIDE DEF l
<1>4. d \in Drives /\ ~dcr[j].writer /\ ~dcr[j].reserved_volume
  BY <1>2, JobIs DEF JobFact
<1>5. PICK r \in Dcr : /\ dcr' = [dcr EXCEPT ![j] = r]
                       /\ r.dev = dcr[j].dev /\ r.writer = dcr[j].writer
                       /\ f[1] = NoVol => r.reserved_volume = dcr[j].reserved_volume
  <2>1. f[1] \in Volumes \cup {NoVol}
    BY FindIs
  <2>2. PICK v \in Volumes \cup {NoVol} : v = f[1]
    BY <2>1
  <2>3. \E r \in Dcr : /\ Named(j, v) = [dcr EXCEPT ![j] = r]
                       /\ r.dev = dcr[j].dev /\ r.writer = dcr[j].writer
                       /\ v = NoVol => r.reserved_volume = dcr[j].reserved_volume
    BY NamedIs
  <2> QED
    BY <1>1, <2>2, <2>3
<1>6. \A e \in Drives : HasWriter(e) => HasWriter(e)'
  BY <1>4, <1>5, JobIs, WritersStay
<1>7. VmInv(vm') /\ FileStep(j)
  BY <1>1, <1>2, <1>4, <1>6, FindStep
<1>8. JobFact(j, l, r, blocked)
  BY <1>3, <1>4, <1>5 DEF JobFact, MountPcs
<1>9. StepOK(j, l, r)
  BY <1>2, <1>3, <1>4, <1>5, <1>7, <1>8, JobIs DEF StepOK, AskPcs, Pcs
<1> QED
  BY <1>9, StepKeeps

\* acquire_device_for_append
LEMMA Acquire ==
  ASSUME IInv, NEW j \in Jobs, acquire_device_for_append(j)
  PROVE  IInv'
<1> DEFINE d == dcr[j].dev
           s == [vm EXCEPT !.unload[d] = FALSE]
           ready == s.append[d] /\ Suitable(s, d)
<1>1. /\ pc[j] = "reserved" /\ blocked[d] = NoJob /\ Lock(d) /\ vm' = s
      /\ UNCHANGED <<kind, full>>
      /\ IF ready
           THEN /\ dcr' = [StartsWriting(j) EXCEPT ![j].VolumeName = s.hdr[d]]
                /\ pc' = [pc EXCEPT ![j] = "writing"] /\ UNCHANGED blocked
           ELSE /\ blocked' = [blocked EXCEPT ![d] = j]
                /\ pc' = [pc EXCEPT ![j] = "mount"] /\ UNCHANGED dcr
  BY DEF acquire_device_for_append, Goto
<1>2. d \in Drives /\ ~dcr[j].writer
  BY <1>1, JobIs DEF JobFact
<1>3. /\ VmInv(vm') /\ \A e \in Drives : Safe(vm, vm', e)
      /\ vm'.hdr = vm.hdr
  <2>1. s = [vm EXCEPT !.unload = [@ EXCEPT ![d] = FALSE]]
    OBVIOUS
  <2> QED
    BY <2>1, <1>1, <1>2, JobIs, UnloadCleared DEF Frame
<1>4. CASE ready
  <2> DEFINE r == [[[dcr[j] EXCEPT !.reserved = FALSE] EXCEPT !.writer = TRUE] EXCEPT !.VolumeName = s.hdr[d]]
  <2>1. s.hdr[d] \in Volumes \cup {NoVol}
    BY <1>1, <1>2, <1>3, JobIs, StateFields
  <2>2. r \in Dcr /\ r.dev = d /\ r.writer
    BY <2>1, JobIs DEF Dcr
  <2>3. dcr' = [dcr EXCEPT ![j] = r]
    <3> HIDE DEF s
    <3> QED
      BY <1>1, <1>4, JobIs DEF StartsWriting, Dcr
  <2> HIDE DEF r, s, ready
  <2>4. FileStep(j)
    BY <1>1, <1>2, <1>3, <2>3, JobIs, SafeStep, WritersStay
  <2>5. JobFact(j, "writing", r, blocked)
    BY <1>2, <2>2 DEF JobFact, MountPcs
  <2>6. StepOK(j, "writing", r)
    BY <1>1, <1>2, <1>3, <1>4, <2>2, <2>3, <2>4, <2>5, JobIs DEF StepOK, AskPcs, Pcs
  <2> QED
    BY <2>6, StepKeeps
<1>5. CASE ~ready
  <2> HIDE DEF s, ready
  <2>1. dcr' = [dcr EXCEPT ![j] = dcr[j]]
    BY <1>1, <1>5, JobIs
  <2>2. FileStep(j)
    BY <1>1, <1>2, <1>3, <2>1, JobIs, SafeStep, WritersStay
  <2>3. /\ blocked' \in [Drives -> Jobs \cup {NoJob}] /\ blocked'[d] = j
        /\ \A e \in Drives : blocked'[e] = blocked[e] \/ blocked[e] \in {NoJob, j}
    BY <1>1, <1>2, <1>5, JobIs
  <2>4. JobFact(j, "mount", dcr[j], blocked')
    BY <1>2, <2>3 DEF JobFact, MountPcs
  <2>5. StepOK(j, "mount", dcr[j])
    BY <1>1, <1>2, <1>3, <1>5, <2>1, <2>2, <2>3, <2>4, JobIs DEF StepOK, AskPcs, Pcs, MountPcs
  <2> QED
    BY <2>5, StepKeeps
<1> QED
  BY <1>4, <1>5

\* The mount of a volume begins.
LEMMA MountBegins ==
  ASSUME IInv, NEW j \in Jobs, mount_begins(j)
  PROVE  IInv'
<1> DEFINE d == dcr[j].dev
           u == IF vm.unload[d] THEN release_volume(vm, d) ELSE vm
           r == IF vm.unload[d] THEN [dcr[j] EXCEPT !.VolumeName = NoVol] ELSE dcr[j]
<1>1. /\ pc[j] \in {"mount", "remount"}
      /\ vm' = IF u.swap_dev[d] = NoDrive THEN u ELSE Unswapped(u, d)
      /\ dcr' = IF vm.unload[d] THEN [dcr EXCEPT ![j].VolumeName = NoVol] ELSE dcr
      /\ pc' = [pc EXCEPT ![j] = "find"] /\ UNCHANGED <<kind, blocked, full>>
  BY DEF mount_begins, Goto
<1>2. d \in Drives /\ blocked[d] = j
  BY <1>1, JobIs DEF JobFact, MountPcs
<1>3. VmInv(u) /\ \A e \in Drives : Safe(vm, u, e)
  <2>1. CASE vm.unload[d]
    BY <2>1, <1>2, JobIs, Released
  <2>2. CASE ~vm.unload[d]
    BY <2>2, JobIs, SameVm
  <2> QED
    BY <2>1, <2>2
<1>4. r \in Dcr /\ r.dev = d /\ r.writer = dcr[j].writer
  BY JobIs DEF Dcr
<1>5. dcr' = [dcr EXCEPT ![j] = r]
  BY <1>1, JobIs DEF Dcr
<1> HIDE DEF u, r
<1>6. VmInv(vm') /\ \A e \in Drives : Safe(vm, vm', e)
  <2>1. CASE u.swap_dev[d] = NoDrive
    BY <2>1, <1>1, <1>3
  <2>2. CASE u.swap_dev[d] # NoDrive
    <3>1. VmInv(vm') /\ \A e \in Drives : Safe(u, vm', e)
      BY <2>2, <1>1, <1>2, <1>3, SwapDone
    <3> QED
      BY <3>1, <1>3, SafeTransitive
  <2> QED
    BY <2>1, <2>2
<1>7. FileStep(j)
  BY <1>1, <1>4, <1>5, <1>6, JobIs, SafeStep, WritersStay
<1>8. JobFact(j, "find", r, blocked)
  BY <1>2, <1>4 DEF JobFact, MountPcs
<1>9. StepOK(j, "find", r)
  BY <1>1, <1>4, <1>5, <1>6, <1>7, <1>8, JobIs DEF StepOK, AskPcs, Pcs, MountPcs
<1> QED
  BY <1>9, StepKeeps

\* find_a_volume: a disk drive that appends to a volume with room is never
\* given another one.
LEMMA FindVolume ==
  ASSUME IInv, NEW j \in Jobs, find_a_volume(j)
  PROVE  IInv'
<1> DEFINE d == dcr[j].dev
           known == IF Suitable(vm, d) THEN vm.hdr[d] ELSE vm.vol[d]
<1>1. pc[j] = "find" /\ UNCHANGED <<kind, blocked, full>>
  BY DEF find_a_volume
<1>2. d \in Drives /\ blocked[d] = j
  BY <1>1, JobIs DEF JobFact, MountPcs
<1>3. CASE /\ known \notin full \cup {NoVol}
           /\ dcr' = [dcr EXCEPT ![j].VolumeName = known]
           /\ pc' = [pc EXCEPT ![j] = "load"] /\ vm' = vm
  <2> DEFINE r == [dcr[j] EXCEPT !.VolumeName = known]
  <2>1. known \in Volumes \cup {NoVol}
    BY <1>2, JobIs, StateFields
  <2> HIDE DEF known
  <2>2. r \in Dcr /\ r.dev = d /\ r.writer = dcr[j].writer
    BY <2>1, JobIs DEF Dcr
  <2>3. dcr' = [dcr EXCEPT ![j] = r]
    BY <1>3, JobIs DEF Dcr
  <2> HIDE DEF r
  <2>4. FileStep(j)
    BY <1>1, <1>3, <2>2, <2>3, JobIs, SameVm, SafeStep, WritersStay
  <2>5. JobFact(j, "load", r, blocked)
    BY <1>2, <2>2 DEF JobFact, MountPcs
  <2>6. StepOK(j, "load", r)
    BY <1>1, <1>3, <2>2, <2>3, <2>4, <2>5, JobIs DEF StepOK, AskPcs, Pcs, MountPcs
  <2> QED
    BY <2>6, StepKeeps
<1>4. CASE /\ known \in full \cup {NoVol}
           /\ \E f \in FindResults(j) :
                 /\ vm' = f[2].vm /\ dcr' = Named(j, f[1])
                 /\ pc' = [pc EXCEPT ![j] = IF f[1] = NoVol THEN "ask" ELSE "load"]
  <2>1. PICK f \in FindResults(j) :
          /\ vm' = f[2].vm /\ dcr' = Named(j, f[1])
          /\ pc' = [pc EXCEPT ![j] = IF f[1] = NoVol THEN "ask" ELSE "load"]
    BY <1>4
  <2> DEFINE l == IF f[1] = NoVol THEN "ask" ELSE "load"
  <2>2. l \in {"ask", "load"} /\ pc' = [pc EXCEPT ![j] = l]
    BY <2>1
  <2> HIDE DEF l
  <2>3. kind = "file" => ~Active(d)
    <3> SUFFICES ASSUME kind = "file", Active(d) PROVE FALSE
      OBVIOUS
    <3>1. vm.vol[d] = vm.hdr[d] /\ vm.hdr[d] \notin full \cup {NoVol}
      BY <1>2 DEF IInv, FileOK, Good, Active
    <3> QED
      BY <3>1, <1>4
  <2> HIDE DEF known
  <2>4. PICK r \in Dcr : /\ dcr' = [dcr EXCEPT ![j] = r]
                         /\ r.dev = dcr[j].dev /\ r.writer = dcr[j].writer
    <3>1. f[1] \in Volumes \cup {NoVol}
      BY FindIs
    <3>2. PICK v \in Volumes \cup {NoVol} : v = f[1]
      BY <3>1
    <3>3. \E r \in Dcr : /\ Named(j, v) = [dcr EXCEPT ![j] = r]
                         /\ r.dev = dcr[j].dev /\ r.writer = dcr[j].writer
      BY NamedIs
    <3> QED
      BY <2>1, <3>2, <3>3
  <2>5. \A e \in Drives : HasWriter(e) => HasWriter(e)'
    BY <2>4, JobIs, WritersStay
  <2>6. /\ VmInv(vm') /\ FileStep(j)
        /\ kind = "file" => ~(vm'.append[d] /\ vm'.hdr[d] \notin full \cup {NoVol})
    BY <1>1, <1>2, <2>1, <2>3, <2>5, FindStep
  <2>7. kind = "file" => ~Active(r.dev)'
    BY <1>1, <2>4, <2>6 DEF Active
  <2>8. JobFact(j, l, r, blocked)
    BY <1>2, <2>2, <2>4 DEF JobFact, MountPcs
  <2>9. StepOK(j, l, r)
    BY <1>1, <2>2, <2>4, <2>6, <2>7, <2>8, JobIs DEF StepOK, Pcs, MountPcs
  <2> QED
    BY <2>9, StepKeeps
<1> QED
  BY <1>3, <1>4 DEF find_a_volume, Goto

\* A step that leaves the control records alone and is safe for every drive.
LEMMA SafeJobStep ==
  ASSUME IInv, NEW j \in Jobs, NEW l \in Pcs,
         pc' = [pc EXCEPT ![j] = l], UNCHANGED <<kind, dcr, blocked, full>>,
         JobFact(j, l, dcr[j], blocked), l \notin {"unused", "unused_end"},
         VmInv(vm'), kind = "file" => \A e \in Drives : Safe(vm, vm', e),
         l \in AskPcs /\ kind = "file" => ~Active(dcr[j].dev)'
  PROVE  IInv'
<1>1. dcr' = [dcr EXCEPT ![j] = dcr[j]]
  BY JobIs
<1>2. FileStep(j)
  <2>1. CASE kind = "file"
    BY <2>1, <1>1, JobIs, SafeStep, WritersStay
  <2>2. CASE kind # "file"
    BY <2>2 DEF FileStep
  <2> QED
    BY <2>1, <2>2
<1>3. StepOK(j, l, dcr[j])
  BY <1>1, <1>2, JobIs DEF StepOK
<1> QED
  BY <1>3, StepKeeps

\* autoload_device
LEMMA Autoload ==
  ASSUME IInv, NEW j \in Jobs, autoload_device(j)
  PROVE  IInv'
<1> DEFINE d == dcr[j].dev
           v == dcr[j].VolumeName
<1>1. pc[j] = "load" /\ UNCHANGED <<kind, dcr, blocked, full>>
  BY DEF autoload_device
<1>2. d \in Drives /\ blocked[d] = j
  BY <1>1, JobIs DEF JobFact, MountPcs
<1>3. CASE kind = "file" \/ vm.loaded[d] = v
  <2>1. pc' = [pc EXCEPT ![j] = "label"] /\ vm' = vm
    BY <1>3 DEF autoload_device, Goto
  <2>2. JobFact(j, "label", dcr[j], blocked) /\ "label" \in Pcs \ AskPcs
    BY <1>2 DEF JobFact, MountPcs, Pcs, AskPcs
  <2> QED
    BY <1>1, <2>1, <2>2, JobIs, SameVm, SafeJobStep
<1>4. CASE ~(kind = "file" \/ vm.loaded[d] = v)
  <2>1. /\ pc' = [pc EXCEPT ![j] = "unload_other"]
        /\ vm' = IF vm.loaded[d] = NoVol THEN vm ELSE unload_drive(vm, d)
    BY <1>4 DEF autoload_device, Goto
  <2>2. VmInv(vm') /\ \A e \in Drives : Safe(vm, vm', e)
    <3>1. CASE vm.loaded[d] = NoVol
      BY <3>1, <2>1, JobIs, SameVm
    <3>2. CASE vm.loaded[d] # NoVol
      BY <3>2, <2>1, <1>2, JobIs, Unloaded
    <3> QED
      BY <3>1, <3>2
  <2>3. kind = "tape"
    BY <1>4, KindsAssumption DEF IInv, VolTypes
  <2>4. JobFact(j, "unload_other", dcr[j], blocked) /\ "unload_other" \in Pcs \ AskPcs
    BY <1>2, <2>3 DEF JobFact, MountPcs, Pcs, AskPcs
  <2> QED
    BY <1>1, <2>1, <2>2, <2>4, JobIs, SafeJobStep
<1> QED
  BY <1>3, <1>4

\* unload_other_drive
LEMMA UnloadOther ==
  ASSUME IInv, NEW j \in Jobs, unload_other_drive(j)
  PROVE  IInv'
<1> DEFINE d == dcr[j].dev
           busy == \E e \in Holding(dcr[j].VolumeName) : is_busy(e)
           l == IF busy THEN "label" ELSE "loading"
<1>1. /\ pc[j] = "unload_other" /\ UNCHANGED <<kind, dcr, blocked, full>>
      /\ vm' = IF busy THEN volume_unused(vm, d) ELSE vm
      /\ pc' = [pc EXCEPT ![j] = l]
  BY DEF unload_other_drive, Goto
<1>2. d \in Drives /\ blocked[d] = j /\ kind = "tape"
  BY <1>1, JobIs DEF JobFact, MountPcs
<1>3. l \in {"label", "loading"}
  OBVIOUS
<1> HIDE DEF l, busy
<1>4. VmInv(vm')
  BY <1>1, <1>2, JobIs, Unused
<1>5. JobFact(j, l, dcr[j], blocked) /\ l \in Pcs \ AskPcs
  BY <1>2, <1>3 DEF JobFact, MountPcs, Pcs, AskPcs
<1> QED
  BY <1>1, <1>2, <1>3, <1>4, <1>5, SafeJobStep

\* The changer loads the cartridge, from another drive if it is in one.
LEMMA LoadVolume ==
  ASSUME IInv, NEW j \in Jobs, load_volume(j)
  PROVE  IInv'
<1> DEFINE d == dcr[j].dev
           v == dcr[j].VolumeName
           other == Holding(v)
           u == IF other = {} THEN vm ELSE unload_drive(vm, CHOOSE e \in other : TRUE)
           c == Shut(u, d, v)
<1>1. /\ pc[j] = "loading" /\ UNCHANGED <<kind, dcr, blocked, full>>
      /\ vm' = ClearSwapping([close(u, d) EXCEPT !.loaded[d] = v], d)
      /\ pc' = [pc EXCEPT ![j] = "label"]
  BY DEF load_volume, Goto
<1>2. d \in Drives /\ blocked[d] = j /\ kind = "tape" /\ v \in Volumes \cup {NoVol}
  BY <1>1, JobIs DEF JobFact, MountPcs
<1>3. VmInv(u) /\ \A e \in Drives \ {d} : v # NoVol => u.loaded[e] # v
  <2>1. CASE other = {}
    BY <2>1, JobIs DEF Holding
  <2>2. CASE other # {}
    <3>1. PICK x \in Drives : x = (CHOOSE e \in other : TRUE) /\ vm.loaded[x] = v
      BY <2>2 DEF Holding
    <3>2. u = unload_drive(vm, x)
      BY <2>2, <3>1
    <3> HIDE DEF u
    <3>3. /\ VmInv(u) /\ u.loaded[x] = NoVol
          /\ \A e \in Drives \ {x} : u.loaded[e] = vm.loaded[e]
      BY <3>2, JobIs, Unloaded
    <3>4. v # NoVol => \A e \in Drives \ {x} : vm.loaded[e] # v
      BY <3>1, <1>2 DEF IInv, VmInv, TapeOK
    <3> QED
      BY <3>3, <3>4
  <2> QED
    BY <2>1, <2>2
<1> HIDE DEF u
<1>4. [close(u, d) EXCEPT !.loaded[d] = v] = c
  <2>1. u \in VolState
    BY <1>3 DEF VmInv
  <2> QED
    BY <2>1, StateFields DEF close, Shut, VolState
<1>5. VmInv(c)
  BY <1>2, <1>3, ShutDrive
<1> HIDE DEF c
<1>6. VmInv(vm')
  BY <1>1, <1>2, <1>4, <1>5, SwappingCleared
<1>7. JobFact(j, "label", dcr[j], blocked) /\ "label" \in Pcs \ AskPcs
  BY <1>2 DEF JobFact, MountPcs, Pcs, AskPcs
<1> QED
  BY <1>1, <1>2, <1>6, <1>7, SafeJobStep

\* The operator is asked for the volume.
LEMMA AskToMount ==
  ASSUME IInv, NEW j \in Jobs, ask_sysop_to_mount(j)
  PROVE  IInv'
<1>1. /\ pc[j] = "remount" /\ UNCHANGED <<kind, vm, dcr, blocked, full>>
      /\ pc' = [pc EXCEPT ![j] = "ask_mount"]
  BY DEF ask_sysop_to_mount, Goto
<1>2. JobFact(j, "ask_mount", dcr[j], blocked) /\ "ask_mount" \in Pcs
  BY <1>1, JobIs DEF JobFact, MountPcs, Pcs
<1>3. kind = "file" => ~Active(dcr[j].dev)'
  BY <1>1 DEF IInv, FileOK, AskPcs, Active
<1> QED
  BY <1>1, <1>2, <1>3, JobIs, SameVm, SafeJobStep

\* wait_for_sysop, and the job tries again.
LEMMA AskAgain ==
  ASSUME IInv, NEW j \in Jobs, ask_sysop_again(j)
  PROVE  IInv'
<1> DEFINE d == dcr[j].dev
           l == IF pc[j] = "ask" THEN "find" ELSE "mount"
<1>1. /\ pc[j] \in {"ask", "ask_mount"} /\ UNCHANGED <<kind, dcr, blocked, full>>
      /\ vm' = volume_unused(vm, d) /\ pc' = [pc EXCEPT ![j] = l]
  BY DEF ask_sysop_again, Goto
<1>2. d \in Drives /\ blocked[d] = j
  BY <1>1, JobIs DEF JobFact, MountPcs
<1>3. kind = "file" => ~Active(d)
  BY <1>1 DEF IInv, FileOK, AskPcs
<1>4. VmInv(vm') /\ FileStep(j)
  BY <1>1, <1>2, <1>3, UnusedStep DEF HasWriter
<1>5. l \in {"find", "mount"}
  OBVIOUS
<1> HIDE DEF l
<1>6. JobFact(j, l, dcr[j], blocked)
  BY <1>2, <1>5 DEF JobFact, MountPcs
<1>7. StepOK(j, l, dcr[j])
  BY <1>1, <1>4, <1>5, <1>6, JobIs DEF StepOK, AskPcs, Pcs, MountPcs
<1> QED
  BY <1>7, StepKeeps

\* A mount that fails, after a step of the lists that keeps FileStep.
LEMMA MountFailed ==
  ASSUME IInv, NEW j \in Jobs, pc[j] \in MountPcs, MountFails(j), VmInv(vm'),
         (\A e \in Drives : HasWriter(e) => HasWriter(e)') => FileStep(j)
  PROVE  IInv'
<1> DEFINE d == dcr[j].dev
           r == [dcr[j] EXCEPT !.reserved = FALSE]
           l == IF dcr[j].writer THEN "failed" ELSE "done"
<1>1. /\ UNCHANGED <<kind, full>> /\ blocked' = [blocked EXCEPT ![d] = NoJob]
      /\ dcr' = [dcr EXCEPT ![j].reserved = FALSE] /\ pc' = [pc EXCEPT ![j] = l]
  BY DEF MountFails, Goto
<1>2. d \in Drives /\ blocked[d] = j
  BY JobIs DEF JobFact, MountPcs
<1>3. r \in Dcr /\ r.dev = d /\ r.writer = dcr[j].writer
  BY JobIs DEF Dcr
<1>4. dcr' = [dcr EXCEPT ![j] = r]
  BY <1>1, JobIs DEF Dcr
<1> HIDE DEF r
<1>5. FileStep(j)
  BY <1>3, <1>4, JobIs, WritersStay
<1>6. /\ blocked' \in [Drives -> Jobs \cup {NoJob}]
      /\ \A e \in Drives : blocked'[e] = blocked[e] \/ blocked[e] \in {NoJob, j}
  BY <1>1, <1>2, JobIs
<1>7. l \in {"failed", "done"} /\ (l = "failed" => dcr[j].writer)
  OBVIOUS
<1> HIDE DEF l
<1>8. JobFact(j, l, r, blocked')
  BY <1>2, <1>3, <1>7 DEF JobFact, MountPcs
<1>9. StepOK(j, l, r)
  BY <1>1, <1>3, <1>4, <1>5, <1>6, <1>7, <1>8, JobIs DEF StepOK, AskPcs, Pcs
<1> QED
  BY <1>9, StepKeeps

\* The operator does not help.
LEMMA AskFails ==
  ASSUME IInv, NEW j \in Jobs, ask_sysop_fails(j)
  PROVE  IInv'
<1> DEFINE d == dcr[j].dev
<1>1. pc[j] \in {"ask", "ask_mount"} /\ vm' = volume_unused(vm, d) /\ MountFails(j) /\ full' = full
  BY DEF ask_sysop_fails, MountFails
<1>2. d \in Drives /\ pc[j] \in MountPcs
  BY <1>1, JobIs DEF JobFact, MountPcs
<1>3. kind = "file" => ~Active(d)
  BY <1>1 DEF IInv, FileOK, AskPcs
<1>4. (\A e \in Drives : HasWriter(e) => HasWriter(e)') => FileStep(j)
  BY <1>1, <1>2, <1>3, UnusedStep
<1>5. VmInv(vm')
  BY <1>1, <1>2, JobIs, Unused
<1> QED
  BY <1>1, <1>2, <1>4, <1>5, MountFailed

\* The job is canceled before the mount.
LEMMA MountCanceled ==
  ASSUME IInv, NEW j \in Jobs, mount_canceled(j)
  PROVE  IInv'
<1>1. pc[j] \in MountPcs /\ vm' = vm /\ MountFails(j) /\ full' = full
  BY DEF mount_canceled, MountFails, MountPcs
<1>2. (\A e \in Drives : HasWriter(e) => HasWriter(e)') => FileStep(j)
  BY <1>1, SameVm, SafeStep
<1> QED
  BY <1>1, <1>2, JobIs, MountFailed

\* Opening a drive for appending is not seen by the lists or other drives.
LEMMA AppendSet ==
  ASSUME NEW s, VmInv(s), NEW d \in Drives
  PROVE  LET t == [s EXCEPT !.append[d] = TRUE] IN
         /\ VmInv(t) /\ t.vol = s.vol /\ t.list = s.list /\ t.hdr = s.hdr
         /\ \A e \in Drives \ {d} : Safe(s, t, e)
<1>0. s \in VolState /\ Own(s) /\ HdrOK(s) /\ TapeOK(s)
  BY DEF VmInv
<1> DEFINE w == [s.append EXCEPT ![d] = TRUE]
           t == [s EXCEPT !.append = w]
<1>1. w \in [Drives -> BOOLEAN] /\ \A e \in Drives \ {d} : w[e] = s.append[e]
  BY <1>0, StateFields
<1>2. [s EXCEPT !.append[d] = TRUE] = t
  OBVIOUS
<1> HIDE DEF w
<1>3. t \in VolState
  BY <1>0, <1>1, FieldUpdates
<1>4. /\ t.vol = s.vol /\ t.list = s.list /\ t.hdr = s.hdr /\ t.loaded = s.loaded
      /\ t.append = w
  BY <1>0 DEF VolState
<1> HIDE DEF t
<1>5. HdrOK(t) /\ TapeOK(t)
  BY <1>0, <1>4 DEF HdrOK, TapeOK
<1>6. VmInv(t)
  BY <1>0, <1>3, <1>4, <1>5, OwnSame DEF VmInv
<1>7. \A e \in Drives \ {d} : Safe(s, t, e)
  BY <1>1, <1>4 DEF Safe
<1> QED
  BY <1>2, <1>4, <1>6, <1>7

\* A step that closes drive d, and then reserves a volume on it at most.
LEMMA OthersKept ==
  ASSUME IInv, NEW d \in Drives, full' = full, NEW s, NEW u,
         \A e \in Drives : Safe(vm, s, e), Frame(s, u),
         \A e \in Drives \ {d} : is_busy(e) => Safe(s, u, e),
         \A e \in Drives \ {d} : Safe(u, vm', e),
         \A e \in Drives : HasWriter(e) => HasWriter(e)'
  PROVE  \A e \in Drives \ {d} : kind = "file" /\ Active(e)' => Good(e)' /\ Active(e)
<1> TAKE e \in Drives \ {d}
<1>1. Open(vm, vm', e)
  BY DEF Safe, Frame, Open
<1>2. HasWriter(e) => Safe(vm, vm', e)
  <2>1. HasWriter(e) => is_busy(e)
    BY WriterBusy
  <2>2. Safe(vm, s, e) /\ Safe(u, vm', e) /\ (is_busy(e) => Safe(s, u, e))
    OBVIOUS
  <2> QED
    BY <2>1, <2>2, SafeTransitive
<1> QED
  BY <1>1, <1>2, DriveKept

\* What comes of reserving the volume whose label was read, if it is to be.
LEMMA LabelOutcome ==
  ASSUME NEW s, VmInv(s), NEW j, NEW d \in Drives, d = dcr[j].dev, NEW v \in Volumes \cup {NoVol},
         NEW a, a = Reserved(FALSE, s) \/ (v # NoVol /\ a \in reserve_volume(j, s, v))
  PROVE  /\ VmInv(a.vm) /\ Frame(s, a.vm)
         /\ a.ok => v # NoVol /\ a.vm.vol[d] = v /\ v \in DOMAIN a.vm.list /\ a.vm.list[v].in_use
         /\ \A e \in Drives \ {d} : is_busy(e) => Safe(s, a.vm, e)
<1>1. CASE v # NoVol /\ a \in reserve_volume(j, s, v)
  BY <1>1, OutcomeReserved DEF Derived
<1>2. CASE a = Reserved(FALSE, s)
  BY <1>2 DEF Reserved, Frame, Safe
<1> QED
  BY <1>1, <1>2

\* check_volume_label
LEMMA CheckLabel ==
  ASSUME IInv, NEW j \in Jobs, check_volume_label(j)
  PROVE  IInv'
<1> DEFINE d == dcr[j].dev
           s == LabelRead(vm, d, dcr[j].VolumeName)
           v == s.hdr[d]
           accepted == v # NoVol /\ (v = dcr[j].VolumeName \/ (~s.unload[d] /\ v \notin full))
<1>0. PICK a \in IF accepted THEN reserve_volume(j, s, v) ELSE {Reserved(FALSE, s)} :
        IF a.ok
           THEN /\ vm' = [a.vm EXCEPT !.append[d] = TRUE]
                /\ dcr' = [StartsWriting(j) EXCEPT ![j].VolumeName = v,
                                                   ![j].reserved_volume = TRUE]
                /\ blocked' = [blocked EXCEPT ![d] = NoJob]
                /\ pc' = [pc EXCEPT ![j] = "writing"]
           ELSE /\ vm' = set_unload(a.vm, d)
                /\ pc' = [pc EXCEPT ![j] = "remount"]
                /\ UNCHANGED <<dcr, blocked>>
  BY DEF check_volume_label, Goto
<1>1. pc[j] = "label" /\ Lock(d) /\ UNCHANGED <<kind, full>>
  BY DEF check_volume_label
<1>2. d \in Drives /\ blocked[d] = j
  BY <1>1, JobIs DEF JobFact, MountPcs
<1>3. /\ VmInv(s) /\ v \in Volumes \cup {NoVol} /\ ~s.append[d]
      /\ \A e \in Drives : Safe(vm, s, e)
  BY <1>2, JobIs, LabelOfLoaded
<1>4. a = Reserved(FALSE, s) \/ (v # NoVol /\ a \in reserve_volume(j, s, v))
  BY <1>0
<1> HIDE DEF s
<1>5. /\ VmInv(a.vm) /\ Frame(s, a.vm)
      /\ a.ok => v # NoVol /\ a.vm.vol[d] = v /\ v \in DOMAIN a.vm.list /\ a.vm.list[v].in_use
      /\ \A e \in Drives \ {d} : is_busy(e) => Safe(s, a.vm, e)
  BY <1>2, <1>3, <1>4, LabelOutcome
<1> HIDE DEF accepted
<1>6. CASE a.ok
  <2>1. /\ vm' = [a.vm EXCEPT !.append[d] = TRUE]
        /\ dcr' = [StartsWriting(j) EXCEPT ![j].VolumeName = v, ![j].reserved_volume = TRUE]
        /\ blocked' = [blocked EXCEPT ![d] = NoJob]
        /\ pc' = [pc EXCEPT ![j] = "writing"]
    BY <1>0, <1>6
  <2>2. /\ VmInv(a.vm) /\ Frame(s, a.vm) /\ a.vm.vol[d] = v /\ a.vm.list[v].in_use
        /\ \A e \in Drives \ {d} : is_busy(e) => Safe(s, a.vm, e)
    BY <1>5, <1>6
  <2> HIDE DEF v
  <2> DEFINE r == [[[[dcr[j] EXCEPT !.reserved = FALSE] EXCEPT !.writer = TRUE]
                      EXCEPT !.VolumeName = v] EXCEPT !.reserved_volume = TRUE]
  <2>3. r \in Dcr /\ r.dev = d /\ r.writer
    BY <1>3, JobIs DEF Dcr
  <2>4. dcr' = [dcr EXCEPT ![j] = r]
    BY <2>1, JobIs DEF StartsWriting, Dcr
  <2> HIDE DEF r
  <2>5. /\ VmInv(vm') /\ vm'.vol[d] = v /\ vm'.list[v].in_use /\ vm'.hdr[d] = v
        /\ \A e \in Drives \ {d} : Safe(a.vm, vm', e)
    BY <1>2, <2>1, <2>2, AppendSet DEF Frame, v
  <2>6. \A e \in Drives : HasWriter(e) => HasWriter(e)'
    BY <2>3, <2>4, JobIs, WritersStay
  <2>7. PICK x \in Drives : x = d
    BY <1>2
  <2>8. FileStep(j)
    <3>1. \A e \in Drives \ {d} : kind = "file" /\ Active(e)' => Good(e)' /\ Active(e)
      BY <1>1, <1>2, <1>3, <2>2, <2>5, <2>6, OthersKept
    <3>2. HasWriter(x)'
      BY <2>3, <2>4, <2>7, JobIs DEF HasWriter
    <3>3. Good(x)' /\ blocked[x] = j
      BY <1>2, <2>5, <2>7, <3>2 DEF Good
    <3> QED
      BY <2>7, <3>1, <3>3 DEF FileStep
  <2>9. /\ blocked' \in [Drives -> Jobs \cup {NoJob}]
        /\ \A e \in Drives : blocked'[e] = blocked[e] \/ blocked[e] \in {NoJob, j}
    BY <1>2, <2>1, JobIs
  <2>10. JobFact(j, "writing", r, blocked')
    BY <1>2, <2>3 DEF JobFact, MountPcs
  <2>11. StepOK(j, "writing", r)
    BY <1>1, <2>1, <2>3, <2>4, <2>5, <2>8, <2>9, <2>10, JobIs DEF StepOK, AskPcs, Pcs
  <2> QED
    BY <2>11, StepKeeps
<1>7. CASE ~a.ok
  <2> DEFINE m == a.vm
  <2>1. /\ vm' = set_unload(m, d) /\ pc' = [pc EXCEPT ![j] = "remount"]
        /\ UNCHANGED <<dcr, blocked>>
    BY <1>0, <1>7
  <2>2. /\ VmInv(m) /\ Frame(s, m)
        /\ \A e \in Drives \ {d} : is_busy(e) => Safe(s, m, e)
    BY <1>5
  <2> HIDE DEF m, v
  <2>3. VmInv(vm') /\ Frame(m, vm') /\ \A e \in Drives : Safe(m, vm', e)
    BY <1>2, <2>1, <2>2, UnloadSet
  <2>4. ~vm'.append[d]
    BY <1>3, <2>2, <2>3 DEF Frame
  <2>5. dcr' = [dcr EXCEPT ![j] = dcr[j]]
    BY <2>1, JobIs
  <2>6. \A e \in Drives : HasWriter(e) => HasWriter(e)'
    BY <2>1 DEF HasWriter
  <2>7. FileStep(j)
    <3>1. \A e \in Drives \ {d} : kind = "file" /\ Active(e)' => Good(e)' /\ Active(e)
      BY <1>1, <1>2, <1>3, <2>2, <2>3, <2>6, OthersKept
    <3>2. PICK x \in Drives : x = d
      BY <1>2
    <3>3. ~Active(x)'
      BY <2>4, <3>2 DEF Active
    <3> QED
      BY <3>1, <3>2, <3>3 DEF FileStep
  <2>8. ~Active(dcr[j].dev)'
    BY <2>1, <2>4 DEF Active
  <2>9. JobFact(j, "remount", dcr[j], blocked)
    BY <1>2 DEF JobFact, MountPcs
  <2>10. StepOK(j, "remount", dcr[j])
    BY <1>1, <2>1, <2>3, <2>5, <2>7, <2>8, <2>9, JobIs DEF StepOK, Pcs, MountPcs
  <2> QED
    BY <2>10, StepKeeps
<1> QED
  BY <1>6, <1>7

\* The job is canceled when the label has been read.
LEMMA LabelCanceled ==
  ASSUME IInv, NEW j \in Jobs, label_canceled(j)
  PROVE  IInv'
<1> DEFINE d == dcr[j].dev
           s == LabelRead(vm, d, dcr[j].VolumeName)
           v == s.hdr[d]
           wanted == v # NoVol /\ v = dcr[j].VolumeName
<1>0. PICK a \in IF wanted THEN reserve_volume(j, s, v) ELSE {Reserved(FALSE, s)} :
        vm' = volume_unused(a.vm, d)
  BY DEF label_canceled
<1>1. pc[j] = "label" /\ MountFails(j) /\ full' = full
  BY DEF label_canceled, MountFails
<1>2. d \in Drives /\ pc[j] \in MountPcs
  BY <1>1, JobIs DEF JobFact, MountPcs
<1>3. /\ VmInv(s) /\ v \in Volumes \cup {NoVol} /\ ~s.append[d]
      /\ \A e \in Drives : Safe(vm, s, e)
  BY <1>2, JobIs, LabelOfLoaded
<1>4. a = Reserved(FALSE, s) \/ (v # NoVol /\ a \in reserve_volume(j, s, v))
  BY <1>0
<1> HIDE DEF s, wanted
<1>5. /\ VmInv(a.vm) /\ Frame(s, a.vm)
      /\ a.ok => v # NoVol /\ a.vm.vol[d] = v /\ v \in DOMAIN a.vm.list /\ a.vm.list[v].in_use
      /\ \A e \in Drives \ {d} : is_busy(e) => Safe(s, a.vm, e)
  BY <1>2, <1>3, <1>4, LabelOutcome
<1> HIDE DEF v
<1>6. VmInv(vm') /\ Frame(a.vm, vm') /\ \A e \in Drives \ {d} : Safe(a.vm, vm', e)
  BY <1>0, <1>2, <1>5, Unused
<1>7. ~vm'.append[d]
  BY <1>3, <1>5, <1>6 DEF Frame
<1>8. ASSUME \A e \in Drives : HasWriter(e) => HasWriter(e)' PROVE FileStep(j)
  <2>1. \A e \in Drives \ {d} : kind = "file" /\ Active(e)' => Good(e)' /\ Active(e)
    BY <1>1, <1>2, <1>3, <1>5, <1>6, <1>8, OthersKept
  <2>2. PICK x \in Drives : x = d
    BY <1>2
  <2>3. ~Active(x)'
    BY <1>7, <2>2 DEF Active
  <2> QED
    BY <2>1, <2>2, <2>3 DEF FileStep
<1> QED
  BY <1>1, <1>2, <1>6, <1>8, MountFailed

\* The end of the volume: it is full, and the job mounts another one.
LEMMA VolumeFull ==
  ASSUME IInv, NEW j \in Jobs, fixup_device_block_write_error(j)
  PROVE  IInv'
<1> DEFINE d == dcr[j].dev
<1>1. /\ pc[j] = "writing" /\ blocked[d] = NoJob /\ UNCHANGED <<kind, dcr>>
      /\ full' = full \cup ({vm.hdr[d]} \ {NoVol}) /\ vm' = set_unload(vm, d)
      /\ blocked' = [blocked EXCEPT ![d] = j] /\ pc' = [pc EXCEPT ![j] = "mount"]
  BY DEF fixup_device_block_write_error, Goto
<1>2. d \in Drives
  BY <1>1, JobIs DEF JobFact
<1>3. full' \subseteq Volumes /\ full \subseteq full'
  BY <1>1, <1>2, JobIs, StateFields
<1>4. VmInv(vm') /\ \A e \in Drives : Safe(vm, vm', e)
  BY <1>1, <1>2, JobIs, UnloadSet
<1>5. dcr' = [dcr EXCEPT ![j] = dcr[j]]
  BY <1>1, JobIs
<1>6. FileStep(j)
  BY <1>3, <1>4, <1>5, JobIs, SafeStep, WritersStay
<1>7. /\ blocked' \in [Drives -> Jobs \cup {NoJob}] /\ blocked'[d] = j
      /\ \A e \in Drives : blocked'[e] = blocked[e] \/ blocked[e] \in {NoJob, j}
  BY <1>1, <1>2, JobIs
<1>8. JobFact(j, "mount", dcr[j], blocked')
  BY <1>2, <1>7 DEF JobFact, MountPcs
<1>9. StepOK(j, "mount", dcr[j])
  BY <1>1, <1>3, <1>4, <1>5, <1>6, <1>7, <1>8, JobIs DEF StepOK, AskPcs, Pcs, MountPcs
<1> QED
  BY <1>9, StepKeeps

\* A drive with more than one writer keeps one when a writer leaves.
LEMMA WriterLeft ==
  ASSUME NEW j \in Jobs, NEW d, dcr[j].dev = d, dcr[j].writer, num_writers(d) # 1
  PROVE  \E k \in Jobs \ {j} : dcr[k].dev = d /\ dcr[k].writer
<1> DEFINE S == {k \in Jobs : dcr[k].dev = d /\ dcr[k].writer}
<1>1. SUFFICES ASSUME \A k \in Jobs \ {j} : ~(dcr[k].dev = d /\ dcr[k].writer)
               PROVE  FALSE
  OBVIOUS
<1>2. S = {j}
  BY <1>1
<1>3. Cardinality(S) = 1
  BY <1>2, FS_Singleton
<1> QED
  BY <1>3 DEF num_writers

\* release_device
LEMMA ReleaseDevice ==
  ASSUME IInv, NEW j \in Jobs, release_device(j)
  PROVE  IInv'
<1> DEFINE d == dcr[j].dev
           last == num_writers(d) = 1
           r == [dcr[j] EXCEPT !.writer = FALSE]
<1>1. /\ pc[j] \in {"writing", "failed"} /\ UNCHANGED <<kind, blocked, full>>
      /\ dcr' = [dcr EXCEPT ![j].writer = FALSE] /\ pc' = [pc EXCEPT ![j] = "done"]
  BY DEF release_device, Goto
<1>2. PICK u \in Unmarked(d) :
        vm' = IF last /\ kind = "file" THEN free_volume(close(u, d), d) ELSE u
  BY DEF release_device
<1>3. d \in Drives /\ dcr[j].writer
  BY <1>1, JobIs DEF JobFact
<1>4. r \in Dcr /\ r.dev = d /\ ~r.writer /\ dcr' = [dcr EXCEPT ![j] = r]
  BY <1>1, JobIs DEF Dcr
<1>5. \A e \in Drives \ {d} : HasWriter(e) => HasWriter(e)'
  BY <1>4, JobIs DEF HasWriter
<1>6. num_writers(d) \in Nat \ {0}
  <2> DEFINE S == {k \in Jobs : dcr[k].dev = d /\ dcr[k].writer}
  <2>1. Cardinality(S) \in Nat
    BY JobsAssumption, FS_Subset, FS_CardinalityType
  <2>2. num_writers(d) # 0
    BY <1>3, WriterBusy DEF HasWriter
  <2> QED
    BY <2>1, <2>2 DEF num_writers
<1>7. u = vm \/ (last /\ u = volume_unused(vm, d))
  BY <1>2, <1>6 DEF Unmarked
<1> HIDE DEF r
<1>8. VmInv(u) /\ Frame(vm, u) /\ \A e \in Drives \ {d} : Safe(vm, u, e)
  <2>1. CASE u = vm
    BY <2>1, JobIs, SameVm DEF Frame
  <2>2. CASE u = volume_unused(vm, d)
    BY <2>2, <1>3, JobIs, Unused
  <2> QED
    BY <2>1, <2>2, <1>7
<1>9. VmInv(vm') /\ FileStep(j)
  <2>1. CASE last /\ kind = "file"
    <3> DEFINE c == close(u, d)
    <3>1. VmInv(c) /\ ~c.append[d] /\ \A e \in Drives : Safe(u, c, e)
      BY <1>3, <1>8, Closed
    <3> HIDE DEF c
    <3>2. vm' = free_volume(c, d)
      BY <1>2, <2>1 DEF c
    <3>3. VmInv(vm') /\ Frame(c, vm') /\ \A e \in Drives : Safe(c, vm', e)
      BY <1>3, <3>1, <3>2, FreeClosed
    <3>4. \A e \in Drives \ {d} : Safe(vm, vm', e)
      BY <1>8, <3>1, <3>3, SafeTransitive
    <3>5. \A e \in Drives \ {d} : kind = "file" /\ Active(e)' => Good(e)' /\ Active(e)
      <4> TAKE e \in Drives \ {d}
      <4>1. Open(vm, vm', e)
        BY <3>4 DEF Safe, Open
      <4> QED
        BY <1>1, <1>5, <3>4, <4>1, DriveKept
    <3>6. PICK x \in Drives : x = d
      BY <1>3
    <3>7. ~Active(x)'
      BY <3>1, <3>3, <3>6 DEF Active, Frame
    <3> QED
      BY <3>3, <3>5, <3>6, <3>7 DEF FileStep
  <2>2. CASE ~last /\ kind = "file"
    <3>1. vm' = vm
      BY <1>2, <1>7, <2>2
    <3>2. PICK k \in Jobs \ {j} : dcr[k].dev = d /\ dcr[k].writer
      BY <1>3, <2>2, WriterLeft
    <3>3. dcr'[k] = dcr[k]
      BY <1>4, JobIs
    <3>4. \A e \in Drives : HasWriter(e) => HasWriter(e)'
      BY <1>5, <3>2, <3>3 DEF HasWriter
    <3> QED
      BY <1>1, <3>1, <3>4, JobIs, SameVm, SafeStep
  <2>3. CASE kind # "file"
    BY <2>3, <1>2, <1>8 DEF FileStep
  <2> QED
    BY <2>1, <2>2, <2>3
<1>10. JobFact(j, "done", r, blocked)
  BY <1>3, <1>4 DEF JobFact, MountPcs
<1>11. StepOK(j, "done", r)
  BY <1>1, <1>4, <1>9, <1>10, JobIs DEF StepOK, AskPcs, Pcs
<1> QED
  BY <1>11, StepKeeps

\* The steps of the readers change none of this.
LEMMA ReaderKeeps ==
  ASSUME IInv, NEW i \in Readers, ReaderStep(i)
  PROVE  IInv'
<1>1. /\ UNCHANGED <<kind, vm, dcr, blocked, full>>
      /\ pc' = pc \/ pc' = [pc EXCEPT ![i] = "freeing"]
  BY DEF ReaderStep, add_restore_volume, free_restore_volume_list
<1>2. VolTypes /\ VmInv(vm) /\ JobOK /\ UnusedOK /\ FileOK
  BY DEF IInv
<1>3. pc' \in [Jobs \cup Readers -> Pcs] /\ \A j \in Jobs : pc'[j] = pc[j]
  BY <1>1, <1>2, JobsAssumption DEF VolTypes, Pcs
<1>4. VolTypes'
  BY <1>1, <1>2, <1>3 DEF VolTypes
<1>5. VmInv(vm)'
  BY <1>1, <1>2 DEF VmInv, Own, HdrOK, TapeOK
<1>6. JobOK'
  BY <1>1, <1>2, <1>3 DEF JobOK, JobFact
<1>7. UnusedOK'
  BY <1>1, <1>2, <1>3 DEF UnusedOK, HasWriter
<1>8. FileOK'
  BY <1>1, <1>2, <1>3 DEF FileOK, Good, Active, HasWriter
<1> QED
  BY <1>4, <1>5, <1>6, <1>7, <1>8 DEF IInv

\* The invariant holds at the start.
LEMMA InitInv ==
  ASSUME Init
  PROVE  IInv
<1>1. VolTypes
  BY JobsAssumption DEF Init, VolTypes, NoDcr, Dcr, Pcs
<1>2. VmInv(vm)
  <2>2. vm \in VolState
    <3>1. << >> \in [DOMAIN << >> -> VolRes] /\ DOMAIN << >> \subseteq Volumes
      OBVIOUS
    <3>2. vm.list \in Lists
      BY <3>1, ListType DEF Init
    <3> QED
      BY <3>2 DEF Init, VolState, Lists
  <2>3. Own(vm)
    BY DEF Init, Own
  <2>4. HdrOK(vm) /\ TapeOK(vm)
    BY DEF Init, HdrOK, TapeOK
  <2> QED
    BY <2>2, <2>3, <2>4 DEF VmInv
<1>3. \A j \in Jobs : pc[j] = "start" /\ dcr[j] = NoDcr
  BY DEF Init
<1>4. JobOK
  BY <1>3 DEF JobOK, JobFact, NoDcr, MountPcs
<1>5. UnusedOK
  BY <1>3 DEF UnusedOK
<1>6. FileOK
  BY <1>3 DEF Init, FileOK, Active, AskPcs
<1> QED
  BY <1>1, <1>2, <1>4, <1>5, <1>6 DEF IInv

\* Every step keeps the invariant.
LEMMA NextInv ==
  ASSUME IInv, [Next]_vars
  PROVE  IInv'
<1>1. ASSUME NEW j \in Jobs, JobStep(j) PROVE IInv'
  BY <1>1, ReserveDevice, ReserveKnown, ReserveAny, Unreserve, UnreserveMarks,
     Acquire, MountBegins, FindVolume, Autoload, UnloadOther, LoadVolume,
     CheckLabel, LabelCanceled, AskToMount, AskAgain, AskFails, MountCanceled, VolumeFull,
     ReleaseDevice DEF JobStep
<1>2. ASSUME NEW i \in Readers, ReaderStep(i) PROVE IInv'
  BY <1>2, ReaderKeeps
<1>3. CASE UNCHANGED vars
  BY <1>3 DEF vars, IInv, VolTypes, VmInv, Own, HdrOK, TapeOK, JobOK, JobFact,
     UnusedOK, HasWriter, FileOK, Good, Active
<1> QED
  BY <1>1, <1>2, <1>3 DEF Next

\* The inductive invariant holds in every state of every run: whatever drives,
\* volumes, jobs and restores there are.
THEOREM VolInvariant == Spec => []IInv
<1>1. Init => IInv
  BY InitInv
<1>2. IInv /\ [Next]_vars => IInv'
  BY NextInv
<1> QED
  BY <1>1, <1>2, PTL DEF Spec

\* dev->vol and the volume list always agree (reserve_volume, free_volume,
\* free_vol_item, unload_dev): two drives never point to one entry.
THEOREM VolOwned == Spec => []OwnedOrSwapping
<1>1. IInv => OwnedOrSwapping
  BY DEF IInv, VmInv, Own, OwnedOrSwapping
<1> QED
  BY <1>1, VolInvariant, PTL

\* A job on a virtual disk changer that writes on a volume with room writes on
\* the volume the list gives to its drive (the first rule of reserve_volume).
THEOREM VolDiskWriterOwns == Spec => []DiskWriterOwns
<1>1. IInv => DiskWriterOwns
  BY DEF IInv, FileOK, Active, Good, DiskWriterOwns, Writes
<1> QED
  BY <1>1, VolInvariant, PTL

\* No volume is appended to in two drives, and the label a drive has in memory
\* is that of the volume it holds.
THEOREM VolOneDriveWrites == Spec => []OneDriveWrites
<1>1. ASSUME IInv PROVE OneDriveWrites
  <2> SUFFICES ASSUME NEW d \in Drives, Writes(d), vm.hdr[d] # NoVol
               PROVE  /\ vm.loaded[d] = vm.hdr[d]
                      /\ kind = "tape" \/ vm.hdr[d] \notin full =>
                           \A e \in Drives \ {d} : Writes(e) => vm.hdr[e] # vm.hdr[d]
    BY DEF OneDriveWrites
  <2>1. Own(vm) /\ HdrOK(vm) /\ TapeOK(vm) /\ kind \in {"tape", "file"}
    BY <1>1, KindsAssumption DEF IInv, VmInv, VolTypes
  <2>2. vm.loaded[d] = vm.hdr[d]
    BY <2>1 DEF HdrOK
  <2>3. ASSUME NEW e \in Drives \ {d}, Writes(e), vm.hdr[e] = vm.hdr[d],
               kind = "tape" \/ vm.hdr[d] \notin full
        PROVE  FALSE
    <3>1. CASE kind = "tape"
      <4>1. vm.loaded[e] = vm.hdr[e]
        BY <2>1, <2>3 DEF HdrOK
      <4> QED
        BY <2>1, <2>2, <2>3, <3>1, <4>1 DEF TapeOK
    <3>2. CASE kind = "file"
      <4>1. vm.hdr[d] \notin full
        BY <2>3, <3>2
      <4>2. Active(d) /\ Active(e)
        BY <2>3, <4>1 DEF Active, Writes
      <4>3. vm.vol[d] = vm.hdr[d] /\ vm.vol[e] = vm.hdr[d]
        BY <1>1, <2>3, <3>2, <4>2 DEF IInv, FileOK, Good
      <4> QED
        BY <2>1, <4>3 DEF Own
    <3> QED
      BY <2>1, <3>1, <3>2
  <2> QED
    BY <2>2, <2>3
<1> QED
  BY <1>1, VolInvariant, PTL

------------------------------------------------------------------------------
(***************************************************************************)
(* The read list.  The search visits smaller and smaller parts of the      *)
(* list; a smallest part for which a claim fails is impossible.            *)
(***************************************************************************)
Small(n, k) == {p \in Parts(n) : p[2] - p[1] <= k}

\* f says for every part of at most this width what is compared last in it.
Finds(comp, f, S) == f = [p \in S |-> LastCompared(comp, f, p)]

\* Half a part is smaller than the part.
LEMMA HalfPart ==
  ASSUME NEW n \in Nat, NEW k \in Nat, NEW p \in Small(n, k)
  PROVE  LET mid == (p[1] + p[2]) \div 2 IN
         /\ mid \in 1 .. n /\ p[1] <= mid /\ mid < p[2]
         /\ mid # p[1] => k > 0 /\ <<p[1], mid>> \in Small(n, k - 1)
         /\ mid + 1 # p[2] => k > 0 /\ <<mid + 1, p[2]>> \in Small(n, k - 1)
<1>1. PICK a \in 1 .. n, b \in 1 .. n : p = <<a, b>> /\ a < b /\ b - a <= k
  BY DEF Small, Parts
<1> DEFINE mid == (a + b) \div 2
<1>2. mid \in Int /\ a <= mid /\ mid < b
  BY <1>1
<1> HIDE DEF mid
<1>3. mid \in 1 .. n
  BY <1>1, <1>2
<1>4. mid # a => k > 0 /\ <<a, mid>> \in Small(n, k - 1)
  BY <1>1, <1>2, <1>3 DEF Small, Parts
<1>5. mid + 1 # b => k > 0 /\ <<mid + 1, b>> \in Small(n, k - 1)
  BY <1>1, <1>2, <1>3 DEF Small, Parts
<1> QED
  BY <1>1, <1>2, <1>3, <1>4, <1>5 DEF mid

\* What is compared last in a part rests on its halves only.
LEMMA LastByHalves ==
  ASSUME NEW n \in Nat, NEW k \in Nat, NEW p \in Small(n, k), NEW comp, NEW f, NEW g,
         k > 0 => \A q \in Small(n, k - 1) : f[q] = g[q]
  PROVE  LastCompared(comp, f, p) = LastCompared(comp, g, p)
BY HalfPart DEF LastCompared

\* The search of the parts of a list is well defined.
LEMMA SearchDefined ==
  ASSUME NEW n \in Nat, NEW comp
  PROVE  \E f : Finds(comp, f, Parts(n))
<1> DEFINE Bad == {k \in Nat : ~\E f : Finds(comp, f, Small(n, k))}
<1>1. Bad = {}
  <2> SUFFICES ASSUME Bad # {} PROVE FALSE
    OBVIOUS
  <2> DEFINE m == Min(Bad)
  <2>1. m \in Bad /\ \A k \in Bad : m <= k
    <3>1. Bad \subseteq Nat
      OBVIOUS
    <3> HIDE DEF Bad
    <3> QED
      BY <3>1, MinInSet
  <2> HIDE DEF m
  <2>2. m \in Nat /\ ~\E f : Finds(comp, f, Small(n, m))
    BY <2>1
  <2>3. PICK g : m > 0 => Finds(comp, g, Small(n, m - 1))
    <3>1. m > 0 => m - 1 \in Nat /\ m - 1 \notin Bad
      <4> HIDE DEF Bad
      <4> QED
        BY <2>1, <2>2
    <3> QED
      BY <3>1
  <2> DEFINE f == [p \in Small(n, m) |-> LastCompared(comp, g, p)]
  <2>4. ASSUME m > 0, NEW q \in Small(n, m - 1) PROVE f[q] = g[q]
    <3>1. q \in Small(n, m)
      BY <2>2, <2>4 DEF Small, Parts
    <3>2. f[q] = LastCompared(comp, g, q)
      BY <3>1
    <3>3. g[q] = LastCompared(comp, g, q)
      BY <2>3, <2>4 DEF Finds
    <3> QED
      BY <3>2, <3>3
  <2>5. \A p \in Small(n, m) : LastCompared(comp, f, p) = LastCompared(comp, g, p)
    <3> HIDE DEF f
    <3> QED
      BY <2>2, <2>4, LastByHalves
  <2>6. Finds(comp, f, Small(n, m))
    BY <2>5 DEF Finds
  <2> QED
    BY <2>2, <2>6
<1>2. Small(n, n) = Parts(n)
  BY DEF Small, Parts
<1> QED
  BY <1>1, <1>2

\* In an ordered list the search ends at the entry searched for.
LEMMA SearchEnds ==
  ASSUME NEW n \in Nat, NEW comp, NEW last, Finds(comp, last, Parts(n)),
         NEW i \in 1 .. n, comp[i] = 0,
         \A k \in 1 .. n : (k < i => comp[k] > 0) /\ (k > i => comp[k] < 0),
         \A k \in 1 .. n : comp[k] \in Int,
         NEW p \in Parts(n), p[1] <= i, i <= p[2]
  PROVE  last[p] = i
<1> DEFINE Wrong(q) == q \in Parts(n) /\ q[1] <= i /\ i <= q[2] /\ last[q] # i
           Bad == {k \in Nat : \E q \in Parts(n) : Wrong(q) /\ q[2] - q[1] = k}
<1>1. Bad = {}
  <2> SUFFICES ASSUME Bad # {} PROVE FALSE
    OBVIOUS
  <2> DEFINE m == Min(Bad)
  <2>1. m \in Bad /\ \A k \in Bad : m <= k
    <3>1. Bad \subseteq Nat
      OBVIOUS
    <3> HIDE DEF Bad
    <3> QED
      BY <3>1, MinInSet
  <2> HIDE DEF m
  <2>2. PICK q \in Parts(n) : Wrong(q) /\ q[2] - q[1] = m
    BY <2>1
  <2> DEFINE mid == (q[1] + q[2]) \div 2
  <2>3. q \in Small(n, m) /\ m \in Nat
    BY <2>1, <2>2 DEF Small, Parts
  <2>4. /\ mid \in 1 .. n /\ q[1] <= mid /\ mid < q[2]
        /\ mid # q[1] => m > 0 /\ <<q[1], mid>> \in Small(n, m - 1)
        /\ mid + 1 # q[2] => m > 0 /\ <<mid + 1, q[2]>> \in Small(n, m - 1)
    BY <2>3, HalfPart
  <2>5. last[q] = LastCompared(comp, last, q)
    BY <2>2 DEF Finds
  <2>6. last[q] = IF comp[mid] = 0 THEN mid
                  ELSE IF comp[mid] < 0
                    THEN IF mid = q[1] THEN mid + 1 ELSE last[<<q[1], mid>>]
                    ELSE IF mid + 1 = q[2] THEN q[2] ELSE last[<<mid + 1, q[2]>>]
    BY <2>5 DEF LastCompared
  <2>7. q[1] \in 1 .. n /\ q[2] \in 1 .. n /\ q[1] < q[2] /\ q[1] <= i /\ i <= q[2] /\ last[q] # i
    BY <2>2 DEF Parts
  <2> HIDE DEF mid
  <2>8. ASSUME NEW r \in Small(n, m - 1), m > 0, r[1] <= i, i <= r[2] PROVE last[r] = i
    <3>1. r \in Parts(n) /\ r[2] - r[1] \in Nat /\ r[2] - r[1] <= m - 1
      BY <2>8 DEF Small, Parts
    <3>2. r[2] - r[1] \notin Bad
      <4> HIDE DEF Bad
      <4> QED
        BY <2>1, <2>3, <3>1
    <3> QED
      BY <2>8, <3>1, <3>2
  <2> HIDE DEF Bad, Wrong
  <2>9. CASE comp[mid] = 0
    BY <2>4, <2>6, <2>7, <2>9
  <2>10. CASE comp[mid] < 0
    <3>1. i < mid
      BY <2>4, <2>10
    <3>2. mid # q[1] /\ last[q] = last[<<q[1], mid>>]
      BY <2>4, <2>6, <2>7, <2>10, <3>1
    <3> QED
      BY <2>4, <2>7, <2>8, <3>1, <3>2
  <2>11. CASE comp[mid] > 0
    <3>1. mid < i
      BY <2>4, <2>11
    <3>2. CASE mid + 1 = q[2]
      BY <2>4, <2>6, <2>7, <2>11, <3>1, <3>2
    <3>3. CASE mid + 1 # q[2]
      BY <2>4, <2>6, <2>7, <2>8, <2>11, <3>1, <3>3
    <3> QED
      BY <3>2, <3>3
  <2> QED
    BY <2>4, <2>9, <2>10, <2>11
<1>2. p[2] - p[1] \in Nat
  BY DEF Parts
<1> QED
  BY <1>1, <1>2

\* binary_search finds an entry of an ordered list.
LEMMA SearchFinds ==
  ASSUME NEW n \in Nat, NEW comp \in [1 .. n -> Int], NEW i \in 1 .. n, comp[i] = 0,
         \A k \in 1 .. n : (k < i => comp[k] > 0) /\ (k > i => comp[k] < 0)
  PROVE  binary_search(comp)
<1> DEFINE last == CHOOSE f : f = [p \in Parts(n) |-> LastCompared(comp, f, p)]
<1>1. comp \in Seq(Int) /\ Len(comp) = n
  OBVIOUS
<1>2. binary_search(comp) <=> (n > 0 /\ comp[IF n = 1 THEN 1 ELSE last[<<1, n>>]] = 0)
  BY <1>1 DEF binary_search
<1>3. Finds(comp, last, Parts(n))
  BY SearchDefined DEF Finds
<1> HIDE DEF last
<1>4. CASE n = 1
  BY <1>2, <1>4
<1>5. CASE n > 1
  <2>1. <<1, n>> \in Parts(n)
    BY <1>5 DEF Parts
  <2>2. /\ \A k \in 1 .. n : comp[k] \in Int
        /\ <<1, n>>[1] <= i /\ i <= <<1, n>>[2]
    OBVIOUS
  <2>3. last[<<1, n>>] = i
    BY <1>3, <2>1, <2>2, SearchEnds
  <2> QED
    BY <1>2, <1>5, <2>3
<1> QED
  BY <1>4, <1>5

\* The read list is strictly ordered by JobId, then name.
Entries == Readers \X Volumes
Before(e, f) == read_compare(e, f) < 0
ReadOrdered(list) ==
  /\ list \in Seq(Entries)
  /\ \A a, b \in DOMAIN list : a < b => Before(list[a], list[b])

\* read_compare is a total order.
LEMMA CompareOrders ==
  /\ \A e, f \in Entries : /\ read_compare(e, f) \in Int
                           /\ e = f \/ Before(e, f) \/ Before(f, e)
                           /\ ~(Before(e, f) /\ Before(f, e))
                           /\ Before(f, e) <=> read_compare(e, f) > 0
                           /\ ~Before(e, e) /\ read_compare(e, e) = 0
  /\ \A e, f, g \in Entries : Before(e, f) /\ Before(f, g) => Before(e, g)
<1>1. ASSUME NEW e \in Entries
      PROVE  e[1] \in Nat /\ e[2] \in Nat /\ e = <<e[1], e[2]>>
  <2>1. PICK a \in Readers, b \in Volumes : e = <<a, b>>
    BY DEF Entries
  <2> QED
    BY <2>1, JobsAssumption, VolumesAssumption
<1>2. ASSUME NEW e \in Entries, NEW f \in Entries
      PROVE  /\ read_compare(e, f) \in Int
             /\ e = f \/ Before(e, f) \/ Before(f, e)
             /\ ~(Before(e, f) /\ Before(f, e))
             /\ Before(f, e) <=> read_compare(e, f) > 0
             /\ ~Before(e, e) /\ read_compare(e, e) = 0
  BY <1>1 DEF Before, read_compare, Sign
<1>3. ASSUME NEW e \in Entries, NEW f \in Entries, NEW g \in Entries,
             Before(e, f), Before(f, g)
      PROVE  Before(e, g)
  BY <1>1, <1>3 DEF Before, read_compare, Sign
<1> QED
  BY <1>2, <1>3

\* add_read_volume keeps the order.
LEMMA ReadAdded ==
  ASSUME NEW list, ReadOrdered(list), NEW e \in Entries
  PROVE  ReadOrdered(add_read_volume(list, e))
<1> DEFINE behind == {i \in DOMAIN list : read_compare(e, list[i]) < 0}
           n == Len(list)
           q == add_read_volume(list, e)
<1>1. list \in Seq(Entries) /\ n \in Nat /\ DOMAIN list = 1 .. n
  BY LenProperties DEF ReadOrdered
<1>2. \A i \in 1 .. n : list[i] \in Entries
  BY <1>1, ElementOfSeq
<1>3. \A a, b \in 1 .. n : a < b => Before(list[a], list[b])
  BY <1>1 DEF ReadOrdered
<1>4. CASE e \in Range(list)
  BY <1>4 DEF add_read_volume
<1>5. CASE e \notin Range(list) /\ behind = {}
  <2>1. q = Append(list, e)
    BY <1>5 DEF add_read_volume
  <2>2. /\ q \in Seq(Entries) /\ DOMAIN q = 1 .. (n + 1)
        /\ \A i \in 1 .. (n + 1) : q[i] = IF i <= n THEN list[i] ELSE e
    BY <1>1, <2>1, AppendProperties
  <2>3. \A i \in 1 .. n : list[i] # e /\ ~Before(e, list[i])
    BY <1>1, <1>5 DEF Range, Before
  <2>4. \A i \in 1 .. n : Before(list[i], e)
    BY <1>2, <2>3, CompareOrders
  <2> HIDE DEF behind, q, n
  <2>5. ASSUME NEW a \in 1 .. (n + 1), NEW b \in 1 .. (n + 1), a < b
        PROVE  Before(q[a], q[b])
    <3>1. a \in 1 .. n /\ q[a] = list[a]
      BY <1>1, <2>2, <2>5
    <3>2. CASE b \in 1 .. n
      BY <1>1, <1>3, <2>2, <2>5, <3>1, <3>2
    <3>3. CASE b = n + 1
      BY <1>1, <2>2, <2>4, <3>1, <3>3
    <3> QED
      BY <1>1, <3>2, <3>3
  <2> QED
    BY <2>2, <2>5 DEF ReadOrdered, q
<1>6. CASE e \notin Range(list) /\ behind # {}
  <2> DEFINE k == Min(behind)
  <2>1. q = InsertAt(list, k, e)
    BY <1>6 DEF add_read_volume
  <2>2. behind \subseteq Nat
    BY <1>1
  <2>3. k \in behind /\ \A i \in behind : k <= i
    <3> HIDE DEF behind
    <3> QED
      BY <1>6, <2>2, MinInSet
  <2> HIDE DEF k, q, n
  <2>4. k \in 1 .. n /\ Before(e, list[k])
    BY <1>1, <2>3 DEF Before
  <2>5. ASSUME NEW i \in 1 .. n, i < k PROVE Before(list[i], e)
    <3>1. i \notin behind
      <4> HIDE DEF behind
      <4> QED
        BY <2>3, <2>4, <2>5
    <3>2. ~Before(e, list[i])
      BY <1>1, <3>1 DEF Before
    <3>3. list[i] # e
      BY <1>1, <1>6 DEF Range
    <3> QED
      BY <1>2, <3>2, <3>3, CompareOrders
  <2> HIDE DEF behind
  <2>6. ASSUME NEW i \in 1 .. n, k <= i PROVE Before(e, list[i])
    <3>1. CASE i = k
      BY <2>4, <3>1
    <3>2. CASE k < i
      <4>1. Before(list[k], list[i])
        BY <1>3, <2>4, <3>2
      <4> QED
        BY <1>2, <2>4, <4>1, CompareOrders
    <3> QED
      BY <2>4, <2>6, <3>1, <3>2
  <2>7. /\ q \in Seq(Entries) /\ Len(q) = n + 1
        /\ \A i \in 1 .. (n + 1) :
              q[i] = IF i < k THEN list[i] ELSE IF i = k THEN e ELSE list[i - 1]
    <3>1. k \in 1 .. Len(list) /\ list \in Seq(Entries)
      BY <1>1, <2>4 DEF n
    <3>2. /\ InsertAt(list, k, e) \in Seq(Entries)
          /\ Len(InsertAt(list, k, e)) = Len(list) + 1
          /\ \A i \in 1 .. (Len(list) + 1) : InsertAt(list, k, e)[i] =
                IF i < k THEN list[i] ELSE IF i = k THEN e ELSE list[i - 1]
      BY <3>1, InsertAtList
    <3> QED
      BY <2>1, <3>2 DEF n
  <2>8. DOMAIN q = 1 .. (n + 1)
    BY <2>7, LenProperties
  <2>9. ASSUME NEW a \in 1 .. (n + 1), NEW b \in 1 .. (n + 1), a < b
        PROVE  Before(q[a], q[b])
    <3>1. CASE b < k
      <4>1. q[a] = list[a] /\ q[b] = list[b] /\ a \in 1 .. n /\ b \in 1 .. n
        BY <1>1, <2>4, <2>7, <2>9, <3>1
      <4> QED
        BY <1>3, <2>9, <4>1
    <3>2. CASE b = k
      <4>1. q[a] = list[a] /\ q[b] = e /\ a \in 1 .. n /\ a < k
        BY <1>1, <2>4, <2>7, <2>9, <3>2
      <4> QED
        BY <2>5, <4>1
    <3>3. CASE b > k
      <4>1. q[b] = list[b - 1] /\ b - 1 \in 1 .. n /\ k <= b - 1
        BY <1>1, <2>4, <2>7, <3>3
      <4>2. CASE a < k
        <5>1. q[a] = list[a] /\ a \in 1 .. n /\ a < b - 1
          BY <1>1, <2>4, <2>7, <4>1, <4>2
        <5> QED
          BY <1>3, <4>1, <5>1
      <4>3. CASE a = k
        BY <2>6, <2>7, <4>1, <4>3
      <4>4. CASE a > k
        <5>1. q[a] = list[a - 1] /\ a - 1 \in 1 .. n /\ a - 1 < b - 1
          BY <1>1, <2>4, <2>7, <2>9, <4>4
        <5> QED
          BY <1>3, <4>1, <5>1
      <4> QED
        BY <2>4, <4>2, <4>3, <4>4
    <3> QED
      BY <2>4, <3>1, <3>2, <3>3
  <2> QED
    BY <2>7, <2>8, <2>9 DEF ReadOrdered, q
<1> QED
  BY <1>4, <1>5, <1>6

\* remove_read_volume keeps the order.
LEMMA ReadRemoved ==
  ASSUME NEW list, ReadOrdered(list), NEW e
  PROVE  ReadOrdered(remove_read_volume(list, e))
<1> DEFINE n == Len(list)
           t == RemoveFirst(list, e)
<1>1. list \in Seq(Entries) /\ n \in Nat /\ DOMAIN list = 1 .. n
  BY LenProperties DEF ReadOrdered
<1>2. \A i \in 1 .. n : list[i] \in Entries
  BY <1>1, ElementOfSeq
<1>3. \A a, b \in 1 .. n : a < b => Before(list[a], list[b])
  BY <1>1 DEF ReadOrdered
<1>4. IsInjective(list)
  <2> SUFFICES ASSUME NEW a \in 1 .. n, NEW b \in 1 .. n, list[a] = list[b] PROVE a = b
    BY <1>1 DEF IsInjective
  <2>1. ~Before(list[a], list[b]) /\ ~Before(list[b], list[a])
    BY <1>2, CompareOrders
  <2>2. ~(a < b) /\ ~(b < a)
    BY <1>3, <2>1
  <2> QED
    BY <2>2
<1>5. ReadOrdered(t)
  <2>1. CASE \E i \in 1 .. n : list[i] = e
    <3> DEFINE I == {i \in 1 .. Len(list) : list[i] = e}
    <3>1. PICK k \in 1 .. Len(list) : list[k] = e
      BY <2>1
    <3>2. I = {k}
      BY <1>1, <1>4, <3>1 DEF IsInjective
    <3>3. Min(I) = k
      BY <3>2 DEF Min
    <3>4. t = RemoveAt(list, k)
      BY <2>1, <3>2, <3>3 DEF RemoveFirst, SelectInSeq
    <3> HIDE DEF I
    <3>5. /\ t \in Seq(Entries) /\ Len(t) = n - 1
          /\ \A i \in 1 .. (n - 1) : t[i] = IF i < k THEN list[i] ELSE list[i + 1]
      <4>1. list \in Seq(Entries) /\ k \in 1 .. Len(list)
        BY <1>1, <3>1
      <4>2. /\ RemoveAt(list, k) \in Seq(Entries)
            /\ Len(RemoveAt(list, k)) = Len(list) - 1
            /\ \A i \in 1 .. (Len(list) - 1) :
                 RemoveAt(list, k)[i] = IF i < k THEN list[i] ELSE list[i + 1]
        BY <1>4, <4>1, RemoveAtList
      <4> QED
        BY <3>4, <4>2
    <3>6. DOMAIN t = 1 .. (n - 1)
      BY <3>5, LenProperties
    <3>7. k \in 1 .. n
      BY <3>1
    <3> HIDE DEF t, n
    <3>8. ASSUME NEW a \in 1 .. (n - 1), NEW b \in 1 .. (n - 1), a < b
          PROVE  Before(t[a], t[b])
      <4>1. PICK c, d \in 1 .. n : c < d /\ t[a] = list[c] /\ t[b] = list[d]
        <5>1. CASE b < k
          BY <1>1, <3>5, <3>8, <5>1
        <5>2. CASE a < k /\ k <= b
          <6>1. a \in 1 .. n /\ b + 1 \in 1 .. n /\ a < b + 1
            BY <1>1, <3>8
          <6>2. t[a] = list[a] /\ t[b] = list[b + 1]
            BY <1>1, <3>5, <3>7, <5>2
          <6> QED
            BY <6>1, <6>2
        <5>3. CASE k <= a
          BY <1>1, <3>5, <3>8, <5>3
        <5> QED
          BY <3>7, <3>8, <5>1, <5>2, <5>3
      <4> QED
        BY <1>3, <4>1
    <3> QED
      BY <3>5, <3>6, <3>8 DEF ReadOrdered
  <2>2. CASE ~\E i \in 1 .. n : list[i] = e
    BY <2>2 DEF RemoveFirst
  <2> QED
    BY <2>1, <2>2
<1> QED
  BY <1>5 DEF remove_read_volume

\* In the list of one restore every volume of it is found by its name.
LEMMA ReadFound ==
  ASSUME NEW L, ReadOrdered(L), OneRestore(L), NEW x \in Range(L)
  PROVE  is_read_volume(L, x[2])
<1> DEFINE n == Len(L)
           v == x[2]
           comp == [i \in DOMAIN L |-> name_compare(<<0, v>>, L[i])]
<1>1. L \in Seq(Entries) /\ n \in Nat /\ DOMAIN L = 1 .. n
  BY LenProperties DEF ReadOrdered
<1>2. PICK i \in 1 .. n : L[i] = x
  BY <1>1 DEF Range
<1>3. \A k \in 1 .. n : L[k] \in Entries /\ L[k] \in Range(L)
  BY <1>1, ElementOfSeq DEF Range
<1>4. \A k \in 1 .. n : L[k][2] \in Nat /\ L[k][1] = x[1] /\ x[2] \in Nat
  BY <1>2, <1>3, VolumesAssumption DEF Entries, OneRestore
<1>5. ASSUME NEW k \in 1 .. n
      PROVE  comp[k] \in Int /\ (k < i => comp[k] > 0) /\ (k > i => comp[k] < 0)
             /\ (k = i => comp[k] = 0)
  <2>1. comp[k] = Sign(v, L[k][2])
    BY <1>1 DEF name_compare
  <2>2. (k < i => Before(L[k], x)) /\ (k > i => Before(x, L[k]))
    BY <1>1, <1>2 DEF ReadOrdered
  <2>3. (k < i => L[k][2] < v) /\ (k > i => v < L[k][2])
    BY <1>2, <1>4, <2>2 DEF Before, read_compare, Sign
  <2> HIDE DEF comp
  <2> QED
    BY <1>2, <1>4, <2>1, <2>3 DEF Sign
<1>6. DOMAIN comp = 1 .. n /\ comp = [k \in 1 .. n |-> comp[k]]
  BY <1>1
<1>7. is_read_volume(L, v) <=> binary_search(comp)
  BY DEF is_read_volume, SearchByName
<1> HIDE DEF comp, n
<1>8. comp \in [1 .. n -> Int]
  BY <1>5, <1>6
<1> QED
  BY <1>1, <1>5, <1>7, <1>8, SearchFinds

------------------------------------------------------------------------------
(***************************************************************************)
(* Which volumes an operation begins to use.                               *)
(***************************************************************************)
InUse(s) == {v \in DOMAIN s.list : s.list[v].in_use}

\* Every volume that comes into use is one a search of job j did not find in
\* the read list.
Uses(s, t, j) == \A v \in InUse(t) : v \in InUse(s) \/ NotFound(j, v)

\* Uses is transitive, ...
LEMMA UsesTransitive ==
  ASSUME NEW j, NEW s, NEW t, NEW u, Uses(s, t, j), Uses(t, u, j)
  PROVE  Uses(s, u, j)
BY DEF Uses

\* ... and holds of an operation that leaves the list alone.
LEMMA UsesSame ==
  ASSUME NEW j, NEW s, NEW t, t.list = s.list
  PROVE  Uses(s, t, j)
BY DEF Uses, InUse

\* free_volume only takes an entry out.
LEMMA FreeUses ==
  ASSUME NEW j, NEW s \in VolState, NEW d
  PROVE  Uses(s, free_volume(s, d), j)
<1>1. free_volume(s, d).list \in {s.list, Without(s.list, s.vol[d])}
  BY DEF free_volume, VolState
<1> QED
  BY <1>1 DEF Uses, InUse, Without

\* The entry of a volume is replaced by one whose use is not new.
LEMMA EntryUses ==
  ASSUME NEW j, NEW s \in VolState, NEW t, NEW v \in DOMAIN s.list, NEW item,
         t.list = [s.list EXCEPT ![v] = item], ~item.in_use \/ s.list[v].in_use
  PROVE  Uses(s, t, j)
BY StateFields DEF Uses, InUse

\* volume_unused takes a volume out of use.
LEMMA UnusedUses ==
  ASSUME NEW j, NEW s \in VolState, Own(s), NEW d \in Drives
  PROVE  Uses(s, volume_unused(s, d), j)
<1>3. CASE s.vol[d] = NoVol
  BY <1>3, UsesSame DEF volume_unused, ClearInUse
<1>4. CASE s.vol[d] # NoVol
  <2> DEFINE v == s.vol[d]
             item == [s.list[v] EXCEPT !.in_use = FALSE]
  <2>1. v \in DOMAIN s.list
    BY <1>4 DEF Own
  <2>2. s.list[v] \in VolRes
    BY <2>1, StateFields
  <2>3. ~item.in_use
    BY <2>2 DEF VolRes
  <2>4. volume_unused(s, d).list = [s.list EXCEPT ![v] = item]
    BY <1>4 DEF volume_unused, ClearInUse, MarkInUse, VolState
  <2> HIDE DEF item, v
  <2> QED
    BY <2>1, <2>3, <2>4, EntryUses
<1> QED
  BY <1>3, <1>4

\* Clearing the mark of a move uses nothing.
LEMMA SwappingUses ==
  ASSUME NEW j, NEW s \in VolState, Own(s), NEW d \in Drives
  PROVE  Uses(s, ClearSwapping(s, d), j)
<1>3. CASE s.vol[d] = NoVol
  BY <1>3, UsesSame DEF ClearSwapping
<1>4. CASE s.vol[d] # NoVol
  <2> DEFINE v == s.vol[d]
             item == [s.list[v] EXCEPT !.swapping = FALSE]
  <2>1. v \in DOMAIN s.list
    BY <1>4 DEF Own
  <2>2. s.list[v] \in VolRes
    BY <2>1, StateFields
  <2>3. ~item.in_use \/ s.list[v].in_use
    BY <2>2 DEF VolRes
  <2>4. ClearSwapping(s, d).list = [s.list EXCEPT ![v] = item]
    BY <1>4 DEF ClearSwapping, VolState
  <2> HIDE DEF item, v
  <2> QED
    BY <2>1, <2>3, <2>4, EntryUses
<1> QED
  BY <1>3, <1>4

\* Taking the cartridge out of a drive.
LEMMA UnloadDriveUses ==
  ASSUME NEW j, NEW s, VmInv(s), NEW d \in Drives
  PROVE  Uses(s, unload_drive(s, d), j)
<1> DEFINE c == close(s, d)
           t == [c EXCEPT !.loaded[d] = NoVol, !.unload[d] = FALSE]
<1>1. c.list = s.list /\ c \in VolState
  BY Closed DEF VmInv
<1>2. unload_drive(s, d) = free_volume(t, d)
  BY DEF unload_drive
<1> HIDE DEF c
<1>3. t \in VolState /\ t.list = c.list
  BY <1>1, StateFields DEF VolState
<1> HIDE DEF t
<1>4. Uses(s, t, j) /\ Uses(t, free_volume(t, d), j)
  BY <1>1, <1>3, FreeUses, UsesSame
<1> QED
  BY <1>2, <1>4, UsesTransitive

\* release_volume
LEMMA ReleaseUses ==
  ASSUME NEW j, NEW s, VmInv(s), NEW d \in Drives
  PROVE  Uses(s, release_volume(s, d), j)
<1> DEFINE u == unload_autochanger(s, d)
           c == IF kind = "file" THEN close(u, d) ELSE u
           f == free_volume(c, d)
<1>1. VmInv(u)
  BY ChangerUnloaded
<1>2. Uses(s, u, j)
  <2>0. s \in VolState
    BY DEF VmInv
  <2>1. [s EXCEPT !.unload[d] = FALSE].list = s.list
    BY <2>0 DEF VolState
  <2> QED
    BY <2>0, <2>1, UsesSame, UnloadDriveUses, FreeUses DEF unload_autochanger
<1> HIDE DEF u
<1>3. VmInv(c) /\ c.list = u.list
  BY <1>1, Closed
<1> HIDE DEF c
<1>4. VmInv(f) /\ Uses(c, f, j)
  BY <1>3, FreeVolume, FreeUses DEF VmInv
<1> HIDE DEF f
<1>5. release_volume(s, d) = [f EXCEPT !.hdr[d] = NoVol, !.append[d] = FALSE]
  BY DEF release_volume, u, c, f
<1>6. release_volume(s, d).list = f.list
  BY <1>4, <1>5 DEF VmInv, VolState
<1>7. Uses(u, c, j) /\ Uses(f, release_volume(s, d), j)
  BY <1>3, <1>6, UsesSame
<1> QED
  BY <1>2, <1>4, <1>7, UsesTransitive

\* do_unload and do_swapping
LEMMA UnswappedUses ==
  ASSUME NEW j, NEW s, VmInv(s), NEW d \in Drives, s.swap_dev[d] # NoDrive
  PROVE  Uses(s, Unswapped(s, d), j)
<1> DEFINE e == s.swap_dev[d]
           u == IF s.unload[e] /\ s.loaded[e] # NoVol /\ kind = "tape" THEN unload_drive(s, e) ELSE s
           c == IF u.vol[d] = NoVol THEN u
                ELSE [u EXCEPT !.list[u.vol[d]].swapping = FALSE,
                               !.list[u.vol[d]].in_use = FALSE, !.hdr[d] = NoVol]
<1>1. e \in Drives
  BY StateFields DEF VmInv
<1>2. VmInv(u) /\ Uses(s, u, j)
  BY <1>1, Unloaded, UnloadDriveUses, UsesSame
<1>3. Unswapped(s, d) = [c EXCEPT !.swap_dev[d] = NoDrive]
  BY DEF Unswapped
<1> HIDE DEF u
<1>4. u \in VolState /\ Own(u)
  BY <1>2 DEF VmInv
<1>5. CASE u.vol[d] = NoVol
  <2>1. Unswapped(s, d).list = u.list
    BY <1>3, <1>4, <1>5 DEF VolState
  <2> QED
    BY <1>2, <2>1, UsesSame, UsesTransitive
<1>6. CASE u.vol[d] # NoVol
  <2> DEFINE v == u.vol[d]
             item == [u.list[v] EXCEPT !.swapping = FALSE, !.in_use = FALSE]
  <2>1. v \in DOMAIN u.list
    BY <1>4, <1>6 DEF Own
  <2>2. u.list[v] \in VolRes
    BY <1>4, <2>1, StateFields
  <2>3. ~item.in_use
    BY <2>2 DEF VolRes
  <2>4. u.list \in [DOMAIN u.list -> VolRes]
    BY <1>4, StateFields
  <2>5. c.list = [[u.list EXCEPT ![v].swapping = FALSE] EXCEPT ![v].in_use = FALSE]
    BY <1>4, <1>6 DEF VolState
  <2>6. c.list = [u.list EXCEPT ![v] = item]
    BY <2>1, <2>2, <2>4, <2>5 DEF VolRes
  <2>7. Unswapped(s, d).list = c.list
    BY <1>3, <1>4, <1>6 DEF VolState
  <2> HIDE DEF item, v, c
  <2>8. Uses(u, Unswapped(s, d), j)
    BY <1>4, <2>1, <2>3, <2>6, <2>7, EntryUses
  <2> QED
    BY <1>2, <2>8, UsesTransitive
<1> QED
  BY <1>5, <1>6

\* Reading a label changes no entry.
LEMMA LabelUses ==
  ASSUME NEW j, NEW s, VmInv(s), NEW d, NEW v
  PROVE  Uses(s, LabelRead(s, d, v), j)
<1>1. s \in VolState
  BY DEF VmInv
<1>2. LabelRead(s, d, v).list = s.list
  BY <1>1 DEF LabelRead, VolState
<1> QED
  BY <1>2, UsesSame

\* An operation that changes the entry of one volume alone, which the search
\* does not find in the read list.
LEMMA GivenUses ==
  ASSUME NEW j, NEW s, NEW t, NEW v, NotFound(j, v), NEW x, NEW y,
         \A w : w # v /\ w \in DOMAIN x => w \in DOMAIN y /\ x[w] = y[w],
         t.list = x, s.list = y
  PROVE  Uses(s, t, j)
BY DEF Uses, InUse

\* SwapTo
LEMMA SwapUses ==
  ASSUME NEW j, NEW s, VmInv(s), NEW d \in Drives, NEW v \in DOMAIN s.list, NotFound(j, v)
  PROVE  Uses(s, SwapTo(s, d, v), j)
<1> DEFINE e == s.list[v].dev
           f == free_volume(s, d)
           g == set_unload(f, d)
           u == set_unload(g, e)
           item == [dev |-> d, in_use |-> TRUE, swapping |-> TRUE]
<1>0. s \in VolState
  BY DEF VmInv
<1>1. e \in Drives
  BY <1>0, StateFields DEF VolRes
<1>2. VmInv(f) /\ Uses(s, f, j)
  BY <1>0, FreeVolume, FreeUses
<1>3. VmInv(g) /\ g.list = f.list
  BY <1>2, UnloadSet
<1>4. VmInv(u) /\ u.list = g.list
  BY <1>1, <1>3, UnloadSet
<1>5. SwapTo(s, d, v) = [u EXCEPT !.vol[e] = NoVol, !.vol[d] = v, !.swap_dev[d] = e,
                                  !.list[v] = item]
  BY DEF SwapTo
<1> HIDE DEF f, g, u, e, item
<1>6. SwapTo(s, d, v).list = [u.list EXCEPT ![v] = item]
  BY <1>4, <1>5 DEF VmInv, VolState
<1>7. Uses(f, SwapTo(s, d, v), j)
  <2> DEFINE x == [u.list EXCEPT ![v] = item]
  <2>1. \A w : w # v /\ w \in DOMAIN x => w \in DOMAIN f.list /\ x[w] = f.list[w]
    BY <1>3, <1>4
  <2> HIDE DEF x
  <2> QED
    BY <1>6, <2>1, GivenUses DEF x
<1> QED
  BY <1>2, <1>7, UsesTransitive

\* Reserve begins to use no volume but the one it reserves.
LEMMA ReserveUses ==
  ASSUME NEW j, NEW s, VmInv(s), NEW d \in Drives, NEW v \in Volumes, NEW mine, NotFound(j, v)
  PROVE  Uses(s, Reserve(s, d, v, mine).vm, j)
<1> DEFINE r == Reserve(s, d, v, mine)
           f == OldFreed(s, d)
<1>0. s \in VolState
  BY DEF VmInv
<1>1. CASE KeptByOther(s, d, v, mine)
  BY <1>1, UsesSame DEF Reserve, Reserved
<1>2. CASE ~KeptByOther(s, d, v, mine) /\ s.vol[d] = v
  <2> DEFINE x == [s.list EXCEPT ![v].in_use = TRUE]
  <2>1. r.vm.list = x
    BY <1>0, <1>2 DEF Reserve, Reserved, MarkInUse, VolState
  <2>2. \A w : w # v /\ w \in DOMAIN x => w \in DOMAIN s.list /\ x[w] = s.list[w]
    OBVIOUS
  <2> HIDE DEF x, r
  <2> QED
    BY <1>2, <2>1, <2>2, GivenUses DEF r
<1>3. CASE ~KeptByOther(s, d, v, mine) /\ s.vol[d] # v
  <2>1. VmInv(f)
    BY OldGone
  <2>2. Uses(s, f, j)
    <3>1. set_unload(s, d) \in VolState /\ set_unload(s, d).list = s.list
      BY UnloadSet DEF VmInv
    <3> QED
      BY <1>0, <3>1, FreeUses, UsesSame, UsesTransitive DEF OldFreed
  <2> DEFINE item == [dev |-> d, in_use |-> TRUE, swapping |-> FALSE]
  <2>3. r = IF v \notin DOMAIN f.list
              THEN Reserved(TRUE, [f EXCEPT !.vol[d] = v, !.list = With(f.list, v, item)])
            ELSE IF f.list[v].dev = d
              THEN Reserved(TRUE, MarkInUse([f EXCEPT !.vol[d] = v], v, TRUE))
            ELSE IF CanSwap(f, v) THEN Reserved(TRUE, SwapTo(f, d, v))
            ELSE Reserved(FALSE, f)
    BY <1>3 DEF Reserve
  <2> HIDE DEF f, r, item
  <2>4. f \in VolState
    BY <2>1 DEF VmInv
  <2>5. Uses(f, r.vm, j)
    <3>1. CASE v \notin DOMAIN f.list
      <4> DEFINE x == With(f.list, v, item)
      <4>1. r.vm.list = x
        BY <2>3, <2>4, <3>1 DEF Reserved, VolState
      <4>2. \A w : w # v /\ w \in DOMAIN x => w \in DOMAIN f.list /\ x[w] = f.list[w]
        BY DEF With
      <4> HIDE DEF x
      <4> QED
        BY <1>3, <4>1, <4>2, GivenUses
    <3>2. CASE v \in DOMAIN f.list /\ f.list[v].dev = d
      <4> DEFINE x == [f.list EXCEPT ![v].in_use = TRUE]
      <4>1. r.vm.list = x
        BY <2>3, <2>4, <3>2 DEF Reserved, MarkInUse, VolState
      <4>2. \A w : w # v /\ w \in DOMAIN x => w \in DOMAIN f.list /\ x[w] = f.list[w]
        OBVIOUS
      <4> HIDE DEF x
      <4> QED
        BY <1>3, <4>1, <4>2, GivenUses
    <3>3. CASE v \in DOMAIN f.list /\ f.list[v].dev # d
      <4>1. r.vm = SwapTo(f, d, v) \/ r.vm = f
        BY <2>3, <3>3 DEF Reserved
      <4> QED
        BY <1>3, <2>1, <3>3, <4>1, SwapUses, UsesSame
    <3> QED
      BY <3>1, <3>2, <3>3
  <2> QED
    BY <2>2, <2>5, UsesTransitive DEF r
<1> QED
  BY <1>1, <1>2, <1>3

\* ... and so does reserve_volume, which searches the read list first.
LEMMA OutcomeUses ==
  ASSUME NEW s, VmInv(s), NEW v \in Volumes, NEW j, dcr[j].dev \in Drives,
         NEW q \in reserve_volume(j, s, v)
  PROVE  Uses(s, q.vm, j)
<1>1. CASE q = Reserved(FALSE, s)
  BY <1>1, UsesSame DEF Reserved
<1>2. CASE q = Reserve(s, dcr[j].dev, v, dcr[j].reserved_volume) /\ NotFound(j, v)
  BY <1>2, ReserveUses
<1> QED
  BY <1>1, <1>2 DEF reserve_volume

\* A job that looks for a volume.
LEMMA FindUses ==
  ASSUME IInv, NEW j \in Jobs, dcr[j].dev \in Drives, NEW f \in FindResults(j), vm' = f[2].vm
  PROVE  Uses(vm, vm', j)
<1> DEFINE d == dcr[j].dev
           mine == dcr[j].reserved_volume
           offered == {v \in Volumes : NotFound(j, v)}
<1>1. CASE f[2] = Reserved(FALSE, vm)
  BY <1>1, UsesSame DEF Reserved
<1>2. ASSUME NEW v \in offered, f[2] = Reserve(vm, d, v, mine)
      PROVE  Uses(vm, vm', j)
  BY <1>2, JobIs, ReserveUses
<1>3. ASSUME NEW v \in offered, NEW u \in offered,
             f[2] = Reserve(Reserve(vm, d, u, mine).vm, d, v, mine)
      PROVE  Uses(vm, vm', j)
  <2> DEFINE s == Reserve(vm, d, u, mine).vm
  <2>1. VmInv(s) /\ Uses(vm, s, j)
    BY JobIs, ReserveUses, VolumeReserved
  <2> HIDE DEF s
  <2>2. f[2] = Reserve(s, d, v, mine)
    BY <1>3 DEF s
  <2>3. Uses(s, vm', j)
    BY <2>1, <2>2, ReserveUses
  <2> QED
    BY <2>1, <2>3, UsesTransitive
<1> QED
  BY <1>1, <1>2, <1>3, FindIs

\* No step of a job begins to use a volume all its searches find in the read
\* list.
LEMMA JobUses ==
  ASSUME IInv, NEW j \in Jobs, JobStep(j)
  PROVE  Uses(vm, vm', j)
<1> DEFINE d == dcr[j].dev
<1>1. VmInv(vm) /\ vm \in VolState
  BY JobIs
<1>2. pc[j] \notin {"start", "done"} => d \in Drives
  BY JobIs DEF JobFact
<1>3. CASE UNCHANGED vm
  BY <1>3, UsesSame
<1>4. ASSUME NEW v \in Volumes, reserve_known_volume(j, v) PROVE Uses(vm, vm', j)
  <2>1. d \in Drives /\ \E q \in reserve_volume(j, vm, v) : vm' = q.vm
    BY <1>2, <1>4 DEF reserve_known_volume
  <2> QED
    BY <1>1, <2>1, OutcomeUses
<1>5. CASE reserve_any_volume(j)
  BY <1>2, <1>5, FindUses DEF reserve_any_volume
<1>6. ASSUME pc[j] \notin {"start", "done"}, vm' = volume_unused(vm, d) PROVE Uses(vm, vm', j)
  BY <1>1, <1>2, <1>6, UnusedUses DEF VmInv
<1>7. CASE acquire_device_for_append(j)
  <2>1. vm' = [vm EXCEPT !.unload[d] = FALSE]
    BY <1>7 DEF acquire_device_for_append
  <2>2. vm'.list = vm.list
    BY <1>1, <2>1 DEF VolState
  <2> QED
    BY <2>2, UsesSame
<1>8. CASE mount_begins(j)
  <2> DEFINE u == IF vm.unload[d] THEN release_volume(vm, d) ELSE vm
  <2>1. d \in Drives
    BY <1>2, <1>8 DEF mount_begins
  <2>2. vm' = IF u.swap_dev[d] = NoDrive THEN u ELSE Unswapped(u, d)
    BY <1>8 DEF mount_begins
  <2>3. VmInv(u) /\ Uses(vm, u, j)
    BY <1>1, <2>1, Released, ReleaseUses, UsesSame
  <2> HIDE DEF u
  <2>4. Uses(u, vm', j)
    BY <2>1, <2>2, <2>3, UnswappedUses, UsesSame
  <2> QED
    BY <2>3, <2>4, UsesTransitive
<1>9. CASE find_a_volume(j)
  <2>1. d \in Drives
    BY <1>2, <1>9 DEF find_a_volume
  <2>2. UNCHANGED vm \/ \E f \in FindResults(j) : vm' = f[2].vm
    BY <1>9 DEF find_a_volume
  <2> QED
    BY <2>1, <2>2, FindUses, UsesSame
<1>10. CASE autoload_device(j)
  <2>1. d \in Drives /\ vm' \in {vm, unload_drive(vm, d)}
    BY <1>2, <1>10 DEF autoload_device
  <2> QED
    BY <1>1, <2>1, UnloadDriveUses, UsesSame
<1>11. CASE unload_other_drive(j)
  <2>1. pc[j] = "unload_other" /\ vm' \in {vm, volume_unused(vm, d)}
    BY <1>11 DEF unload_other_drive
  <2> QED
    BY <1>6, <2>1, UsesSame
<1>12. CASE load_volume(j)
  <2> DEFINE other == Holding(dcr[j].VolumeName)
             u == IF other = {} THEN vm ELSE unload_drive(vm, CHOOSE e \in other : TRUE)
             c == [close(u, d) EXCEPT !.loaded[d] = dcr[j].VolumeName]
  <2>1. d \in Drives /\ vm' = ClearSwapping(c, d)
    BY <1>2, <1>12 DEF load_volume
  <2>2. VmInv(u) /\ Uses(vm, u, j)
    <3>1. CASE other = {}
      BY <1>1, <3>1, UsesSame
    <3>2. CASE other # {}
      <4>1. (CHOOSE e \in other : TRUE) \in Drives
        BY <3>2 DEF Holding
      <4> QED
        BY <1>1, <3>2, <4>1, Unloaded, UnloadDriveUses
    <3> QED
      BY <3>1, <3>2
  <2> HIDE DEF u
  <2>3. VmInv(close(u, d)) /\ close(u, d).list = u.list /\ close(u, d).vol = u.vol
    BY <2>1, <2>2, Closed
  <2>4. c \in VolState /\ c.list = u.list /\ c.vol = u.vol
    <3>1. close(u, d) \in VolState /\ dcr[j].VolumeName \in Volumes \cup {NoVol}
      BY <2>3, JobIs DEF VmInv
    <3> QED
      BY <2>3, <3>1, StateFields DEF VolState
  <2> HIDE DEF c
  <2>5. Own(c) /\ Uses(u, c, j)
    BY <2>2, <2>4, OwnSame, UsesSame DEF VmInv
  <2>6. Uses(c, vm', j)
    BY <2>1, <2>4, <2>5, SwappingUses
  <2> QED
    BY <2>2, <2>5, <2>6, UsesTransitive
<1>13. CASE check_volume_label(j) \/ label_canceled(j)
  <2> DEFINE s == LabelRead(vm, d, dcr[j].VolumeName)
             v == s.hdr[d]
  <2>1. /\ d \in Drives
        /\ \E a : /\ a = Reserved(FALSE, s) \/ (v # NoVol /\ a \in reserve_volume(j, s, v))
                  /\ \/ vm' = [a.vm EXCEPT !.append[d] = TRUE]
                     \/ vm' = set_unload(a.vm, d)
                     \/ vm' = volume_unused(a.vm, d)
    BY <1>2, <1>13 DEF check_volume_label, label_canceled
  <2>2. VmInv(s) /\ v \in Volumes \cup {NoVol} /\ Uses(vm, s, j)
    BY <1>1, <2>1, JobIs, LabelOfLoaded, LabelUses
  <2> HIDE DEF s
  <2>3. PICK a : /\ a = Reserved(FALSE, s) \/ (v # NoVol /\ a \in reserve_volume(j, s, v))
                 /\ \/ vm' = [a.vm EXCEPT !.append[d] = TRUE]
                    \/ vm' = set_unload(a.vm, d)
                    \/ vm' = volume_unused(a.vm, d)
    BY <2>1
  <2>4. VmInv(a.vm) /\ Uses(s, a.vm, j)
    <3>1. CASE a = Reserved(FALSE, s)
      BY <2>2, <3>1, UsesSame DEF Reserved
    <3>2. CASE v # NoVol /\ a \in reserve_volume(j, s, v)
      BY <2>1, <2>2, <3>2, OutcomeReserved, OutcomeUses DEF Derived
    <3> QED
      BY <2>3, <3>1, <3>2
  <2>5. Uses(a.vm, vm', j)
    <3>1. CASE vm' = [a.vm EXCEPT !.append[d] = TRUE]
      BY <2>4, <3>1, UsesSame DEF VmInv, VolState
    <3>2. CASE vm' = set_unload(a.vm, d)
      BY <2>1, <2>4, <3>2, UnloadSet, UsesSame
    <3>3. CASE vm' = volume_unused(a.vm, d)
      BY <2>1, <2>4, <3>3, UnusedUses DEF VmInv
    <3> QED
      BY <2>3, <3>1, <3>2, <3>3
  <2> QED
    BY <2>2, <2>4, <2>5, UsesTransitive
<1>14. CASE fixup_device_block_write_error(j)
  <2>1. d \in Drives /\ vm' = set_unload(vm, d)
    BY <1>2, <1>14 DEF fixup_device_block_write_error
  <2> QED
    BY <1>1, <2>1, UnloadSet, UsesSame
<1>15. CASE release_device(j)
  <2>1. d \in Drives
    BY <1>2, <1>15 DEF release_device
  <2>2. PICK u \in {vm, volume_unused(vm, d)} :
          vm' = u \/ vm' = free_volume(close(u, d), d)
    BY <1>15 DEF release_device, Unmarked
  <2>3. VmInv(u) /\ Uses(vm, u, j)
    BY <1>1, <2>1, Unused, UnusedUses, UsesSame DEF VmInv
  <2>4. close(u, d) \in VolState /\ Uses(u, close(u, d), j)
    BY <2>1, <2>3, Closed, UsesSame DEF VmInv
  <2>5. Uses(u, vm', j)
    BY <2>2, <2>4, FreeUses, UsesSame, UsesTransitive
  <2> QED
    BY <2>3, <2>5, UsesTransitive
<1>16. CASE unreserve_marks(j)
  BY <1>6, <1>16 DEF unreserve_marks
<1>17. CASE ask_sysop_again(j) \/ ask_sysop_fails(j)
  BY <1>6, <1>17 DEF ask_sysop_again, ask_sysop_fails
<1>18. CASE \/ \E e \in Drives : reserve_device_for_append(j, e)
            \/ unreserve_device(j) \/ ask_sysop_to_mount(j) \/ mount_canceled(j)
  BY <1>3, <1>18 DEF reserve_device_for_append, unreserve_device, ask_sysop_to_mount,
     mount_canceled
<1> QED
  BY <1>4, <1>5, <1>7, <1>8, <1>9, <1>10, <1>11, <1>12, <1>13, <1>14, <1>15, <1>16,
     <1>17, <1>18 DEF JobStep

\* The read list and the lists a job that looks for a volume can have met are
\* ordered.
OrderedLists == {list \in Seq(Entries) : ReadOrdered(list)}

ReadInv == read_vol_list \in OrderedLists /\ seen \in [Jobs -> SUBSET OrderedLists]

\* A job that goes somewhere begins to look for a volume, or stops to.
LEMMA GotoReads ==
  ASSUME ReadInv, NEW j \in Jobs, NEW l, Goto(j, l), UNCHANGED read_vol_list
  PROVE  ReadInv' /\ \A k \in Jobs \ {j} : pc'[k] = pc[k]
<1> DEFINE lists == IF l \in Searching THEN {read_vol_list} ELSE {}
<1>1. lists \in SUBSET OrderedLists
  BY DEF ReadInv
<1>2. seen' = [seen EXCEPT ![j] = lists] /\ pc' = [pc EXCEPT ![j] = l]
  BY DEF Goto
<1> HIDE DEF lists
<1>3. seen' \in [Jobs -> SUBSET OrderedLists]
  BY <1>1, <1>2 DEF ReadInv
<1>4. \A k \in Jobs \ {j} : pc'[k] = pc[k]
  BY <1>2
<1> QED
  BY <1>3, <1>4 DEF ReadInv

\* Every step of a job is one of these.
LEMMA JobReads ==
  ASSUME ReadInv, NEW j \in Jobs, JobStep(j)
  PROVE  ReadInv' /\ \A k \in Jobs \ {j} : pc'[k] = pc[k]
<1>1. UNCHANGED read_vol_list /\ \E l : Goto(j, l)
  <2>1. CASE \/ \E d \in Drives : reserve_device_for_append(j, d)
             \/ \E v \in Volumes : reserve_known_volume(j, v)
             \/ reserve_any_volume(j)
    BY <2>1 DEF reserve_device_for_append, reserve_known_volume, reserve_any_volume
  <2>2. CASE unreserve_device(j) \/ unreserve_marks(j) \/ acquire_device_for_append(j)
    BY <2>2 DEF unreserve_device, unreserve_marks, acquire_device_for_append
  <2>3. CASE mount_begins(j) \/ find_a_volume(j) \/ autoload_device(j)
    BY <2>3 DEF mount_begins, find_a_volume, autoload_device
  <2>4. CASE unload_other_drive(j) \/ load_volume(j) \/ check_volume_label(j)
    BY <2>4 DEF unload_other_drive, load_volume, check_volume_label
  <2>5. CASE ask_sysop_to_mount(j) \/ ask_sysop_again(j)
    BY <2>5 DEF ask_sysop_to_mount, ask_sysop_again
  <2>6. CASE ask_sysop_fails(j) \/ mount_canceled(j) \/ label_canceled(j)
    BY <2>6 DEF ask_sysop_fails, mount_canceled, label_canceled, MountFails
  <2>7. CASE fixup_device_block_write_error(j) \/ release_device(j)
    BY <2>7 DEF fixup_device_block_write_error, release_device
  <2> QED
    BY <2>1, <2>2, <2>3, <2>4, <2>5, <2>6, <2>7 DEF JobStep
<1> QED
  BY <1>1, GotoReads

\* A step of a restore changes the read list and keeps it ordered; the jobs
\* that look for a volume can meet the new list.
LEMMA ReaderReads ==
  ASSUME IInv, ReadInv, NEW r \in Readers, ReaderStep(r)
  PROVE  ReadInv' /\ UNCHANGED vm /\ \A k \in Jobs : pc'[k] = pc[k]
<1>1. PICK list : ReadListChanges(list) /\ list \in OrderedLists
  <2>1. ASSUME NEW i \in DOMAIN Bsr[r] PROVE <<r, Bsr[r][i]>> \in Entries
    <3>1. Bsr[r] \in Seq(Volumes)
      BY BsrAssumption
    <3>2. Bsr[r][i] \in Volumes
      BY <3>1, ElementOfSeq
    <3> QED
      BY <3>2 DEF Entries
  <2>2. CASE add_restore_volume(r)
    <3>1. PICK i \in DOMAIN Bsr[r] :
            ReadListChanges(add_read_volume(read_vol_list, <<r, Bsr[r][i]>>))
      BY <2>2 DEF add_restore_volume
    <3>2. ReadOrdered(add_read_volume(read_vol_list, <<r, Bsr[r][i]>>))
      BY <2>1, <3>1, ReadAdded DEF ReadInv, OrderedLists
    <3> QED
      BY <3>1, <3>2 DEF OrderedLists, ReadOrdered
  <2>3. CASE free_restore_volume_list(r)
    <3>1. PICK i \in DOMAIN Bsr[r] :
            ReadListChanges(remove_read_volume(read_vol_list, <<r, Bsr[r][i]>>))
      BY <2>3 DEF free_restore_volume_list
    <3>2. ReadOrdered(remove_read_volume(read_vol_list, <<r, Bsr[r][i]>>))
      BY ReadRemoved DEF ReadInv, OrderedLists
    <3> QED
      BY <3>1, <3>2 DEF OrderedLists, ReadOrdered
  <2> QED
    BY <2>2, <2>3 DEF ReaderStep
<1>2. seen' \in [Jobs -> SUBSET OrderedLists]
  BY <1>1 DEF ReadListChanges, ReadInv
<1>3. UNCHANGED vm /\ (pc' = pc \/ pc' = [pc EXCEPT ![r] = "freeing"])
  BY DEF ReaderStep, add_restore_volume, free_restore_volume_list
<1>4. \A k \in Jobs : pc'[k] = pc[k]
  BY <1>3, JobsAssumption DEF IInv, VolTypes
<1> QED
  BY <1>1, <1>2, <1>3, <1>4 DEF ReadInv, ReadListChanges

\* The lists that are searched are ordered in every state.
LEMMA ReadsOrdered == Spec => []ReadInv
<1>1. Init => ReadInv
  <2> SUFFICES ASSUME Init PROVE ReadInv
    OBVIOUS
  <2>1. << >> \in OrderedLists
    BY EmptyList DEF OrderedLists, ReadOrdered
  <2> QED
    BY <2>1 DEF Init, ReadInv
<1>2. IInv /\ ReadInv /\ [Next]_vars => ReadInv'
  <2>1. ASSUME ReadInv, UNCHANGED vars PROVE ReadInv'
    BY <2>1 DEF vars, ReadInv
  <2> QED
    BY <2>1, JobReads, ReaderReads DEF Next
<1> QED
  BY <1>1, <1>2, VolInvariant, PTL DEF Spec

\* The read list is in every state ordered by JobId, then name, with no entry
\* twice (add_read_volume, remove_read_volume).
THEOREM VolReadOrdered == Spec => []ReadOrdered(read_vol_list)
<1>1. ReadInv => ReadOrdered(read_vol_list)
  BY DEF ReadInv, OrderedLists
<1> QED
  BY <1>1, ReadsOrdered, PTL

\* As long as the read list holds the entries of one restore, no job begins to
\* use a volume that was there all the time since the job began to look for
\* one (reserve_volume, is_read_volume): although the list is searched by
\* name, and at a moment other than that of the reservation, binary_search
\* finds the volume in every list the job can have met.
THEOREM VolReadNotReserved == Spec => ReadNotReserved
<1> DEFINE Kept == \A j \in Jobs : pc'[j] # pc[j] /\ (\A list \in seen[j] : OneRestore(list))
                     => OnceUnannounced(j)
<1>1. ASSUME IInv, ReadInv, [Next]_vars PROVE [Kept]_vars
  <2>1. SUFFICES ASSUME Next, NEW j \in Jobs, pc'[j] # pc[j],
                        \A list \in seen[j] : OneRestore(list),
                        NEW v \in NewlyUsed
                 PROVE  \E list \in seen[j] : v \notin Announced(list)
    BY <1>1 DEF OnceUnannounced
  <2>2. JobStep(j)
    <3>1. ASSUME NEW k \in Jobs, JobStep(k) PROVE k = j
      BY <1>1, <2>1, <3>1, JobReads
    <3>2. ASSUME NEW r \in Readers, ReaderStep(r) PROVE FALSE
      BY <1>1, <2>1, <3>2, ReaderReads
    <3> QED
      BY <2>1, <3>1, <3>2 DEF Next
  <2>3. v \in InUse(vm') /\ v \notin InUse(vm)
    BY <2>1 DEF NewlyUsed, InUse
  <2>4. PICK list \in seen[j] : ~is_read_volume(list, v)
    BY <1>1, <2>2, <2>3, JobUses DEF Uses, NotFound
  <2>5. ReadOrdered(list) /\ OneRestore(list)
    BY <1>1, <2>1, <2>4 DEF ReadInv, OrderedLists
  <2>6. v \notin Announced(list)
    BY <2>4, <2>5, ReadFound DEF Announced
  <2> QED
    BY <2>4, <2>6
<1>2. IInv /\ ReadInv /\ [Next]_vars => [Kept]_vars
  BY <1>1
<1>3. Spec => [][Kept]_vars
  BY <1>2, VolInvariant, ReadsOrdered, PTL DEF Spec
<1> QED
  BY <1>3 DEF ReadNotReserved
=============================================================================
