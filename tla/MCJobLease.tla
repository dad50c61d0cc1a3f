----------------------------- MODULE MCJobLease -----------------------------
(* Instances of JobLease for TLC.                                          *)
EXTENDS JobLease, TLC

CONSTANTS w1, w2

MCWorkers == {w1, w2}
OneJob == {1}
TwoJobs == {1, 2}
AllEligible == MCWorkers \X Jobs
Silent == {}
OneChatty == {w1}
WorkerSymmetry == Permutations(MCWorkers)
=============================================================================
