----------------------------- MODULE MCJobQueue -----------------------------
(* Instances of JobQueue for TLC.                                          *)
EXTENDS JobQueue, TLC

CONSTANTS sync, A, B, p1, p2, a1, a2, c1, c2

NoSyncs == {}
OneSync == {sync}
OneJob == {1}
TwoJobs == {1, 2}
MCWorkspaces == {A, B}
(* The synchronous run shares the workspace of job 1.                      *)
TwoWorkspaces == [h \in Jobs \cup Syncs |-> IF h = 2 THEN B ELSE A]
OneWorkspace == [h \in Jobs \cup Syncs |-> A]
OnePass == {p1}
TwoPasses == {p1, p2}
Nobody == {}
OneApprover == {a1}
TwoApprovers == {a1, a2}
OneCanceller == {c1}
TwoCancellers == {c1, c2}
ClientSymmetry == Permutations(TwoPasses) \cup Permutations(TwoCancellers)
=============================================================================
