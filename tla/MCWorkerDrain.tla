--------------------------- MODULE MCWorkerDrain ---------------------------
(* An instance of WorkerRegistry for TLC.                                  *)
EXTENDS WorkerRegistry

CONSTANTS j1, j2

TwoJobs == {j1, j2}
=============================================================================
