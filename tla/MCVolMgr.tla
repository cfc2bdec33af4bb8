------------------------------ MODULE MCVolMgr ------------------------------
(* The constants of VolMgr that a cfg cannot write.                        *)
EXTENDS VolMgr

\* One restore that reads one volume.
OneReader == [r \in {1} |-> <<1>>]

\* A restore that reads one volume, and an older one that reads the others.
TwoReaders == [r \in {1, 2} |-> IF r = 1 THEN <<2, 3>> ELSE <<1>>]

NoReader == << >>

\* Neither jobs nor drives are told apart.
Symmetry == Permutations(Jobs) \cup Permutations(Drives)
=============================================================================
