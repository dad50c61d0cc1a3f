----------------------------- MODULE Components -----------------------------
(* The smaller components side by side: what they promise together, of     *)
(* what they keep and of what their steps do.  Each has its own state, so  *)
(* that a step of one leaves the others alone.                             *)
EXTENDS WorkerExecution, JobLock, JobStore, WorkerRegistry, SoloJobs, CommandRun,
        CodeIndex, MemoryFile, ProviderFailover, RunFiles, ServerFiles

componentVars ==
    <<execVars, lockVars, storeVars, regVars, soloVars, commandVars, indexVars, memoryVars,
      failoverVars, filesVars, serverVars>>

ComponentsSpec ==
    /\ ExecSpec /\ LockSpec /\ StoreSpec /\ RegSpec /\ SoloSpec /\ CommandSpec
    /\ IndexSpec /\ MemorySpec /\ FailoverSpec /\ FilesSpec /\ ServerSpec

(* What a job's, a run's and the server's files tell is so.                *)
RecordsAreTrue == RecordIsTrue /\ RunIsReadable /\ ServerFilesAreKept

(* What the vector index and the memory file tell is so.                   *)
KnowledgeIsTrue == IndexIsTrue /\ MemoryIsKept

(* What a step may do: of a worker to the phases of a task, of a store to  *)
(* a record, of a claim to a drained worker, of an undo to the files, of a *)
(* command that was aborted, and of a pass to the index.                   *)
StepsAreSound ==
    [][/\ ResumeIsExact /\ RecordIsMonotone /\ OrderIsKept
       /\ UndoIsExact /\ AbortSpawnsNothing /\ PassIsExact]_componentVars
=============================================================================
