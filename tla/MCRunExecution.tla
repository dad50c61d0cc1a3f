--------------------------- MODULE MCRunExecution ---------------------------
(* RunExecution over the approval policies of small runs.                  *)
EXTENDS RunExecution
=============================================================================
