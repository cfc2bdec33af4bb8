---------------------------- MODULE RWLockHolds -----------------------------
(***************************************************************************)
(* What a read/write lock promises its callers: holds are granted and      *)
(* given back one at a time; readers share, a writer excludes every other  *)
(* thread and may nest its holds.  Waiting, counters and wake-ups are      *)
(* invisible here.                                                         *)
(***************************************************************************)
EXTENDS Integers

CONSTANTS Threads, MaxDepth

VARIABLES readers,      \* read holds, as pairs <<thread, level>>
          wdepth        \* depth of each thread's write hold

holdVars == <<readers, wdepth>>

Init ==
    /\ readers = {}
    /\ wdepth = [t \in Threads |-> 0]

AcquireRead(h) ==
    /\ h \notin readers
    /\ \A u \in Threads : wdepth[u] = 0
    /\ readers' = readers \union {h}
    /\ UNCHANGED wdepth

ReleaseRead(h) ==
    /\ h \in readers
    /\ readers' = readers \ {h}
    /\ UNCHANGED wdepth

AcquireWrite(t) ==
    /\ readers = {}
    /\ \A u \in Threads \ {t} : wdepth[u] = 0
    /\ wdepth' = [wdepth EXCEPT ![t] = @ + 1]
    /\ UNCHANGED readers

ReleaseWrite(t) ==
    /\ wdepth[t] > 0
    /\ wdepth' = [wdepth EXCEPT ![t] = @ - 1]
    /\ UNCHANGED readers

Next ==
    \/ \E h \in Threads \X (1..MaxDepth) : AcquireRead(h) \/ ReleaseRead(h)
    \/ \E t \in Threads : AcquireWrite(t) \/ ReleaseWrite(t)

Spec == Init /\ [][Next]_holdVars
=============================================================================
