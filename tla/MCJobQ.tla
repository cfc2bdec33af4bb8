------------------------------- MODULE MCJobQ -------------------------------
(* Small instances of the job queue.  Jobs are j1..j4; j4 is the JCR a job *)
(* that wrote data is re-run under.                                        *)
EXTENDS JobQ

CONSTANTS j1, j2, j3, j4, client, disk, tape, jobres

Pick(a, b, c, d) == [j \in Jobs |-> CASE j = j1 -> a [] j = j2 -> b [] j = j3 -> c [] OTHER -> d]

(* j1 and j2 back up the same client; j1 also reads: it copies from tape.  *)
Clients == Pick(client, client, NoRes, client)
Reads == Pick(tape, NoRes, NoRes, NoRes)
Writes == Pick(disk, disk, tape, disk)
OneJobRes == Pick(jobres, jobres, jobres, jobres)

Limits == [r \in Resources |-> IF r = jobres THEN 2 ELSE 1]

TwoPriorities == Pick(10, 10, 20, 10)

(* j1 may join a mix that j3 runs; j2 is as bad as j3.                      *)
Between == Pick(10, 20, 20, 10)

Once == [j \in Jobs |-> 1]
NoClone == [j \in Jobs |-> NoJob]
CloneOfJ1 == [j \in Jobs |-> IF j = j1 THEN j4 ELSE NoJob]

(* Workers are interchangeable.                                            *)
WorkerSymmetry == Permutations(Workers)
=============================================================================
