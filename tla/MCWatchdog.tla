----------------------------- MODULE MCWatchdog -----------------------------
(* A thread timer shorter than the watchdog's sleep, a child timer longer  *)
(* than it, and a periodic check.                                          *)
EXTENDS Watchdog

CONSTANTS th, ch, pe

Kinds == [t \in {th, ch, pe} |-> CASE t = th -> "thread" [] t = ch -> "child" [] t = pe -> "periodic"]

Waits == [t \in {th, ch, pe} |-> CASE t = th -> 1 [] t = ch -> 4 [] t = pe -> 2]
=============================================================================
