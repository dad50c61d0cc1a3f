-------------------------- MODULE WorkerExecution --------------------------
(* The execution of one job by the workers that lease it                   *)
(* (src/ai-system/worker): the git worktree, the phases of the task with   *)
(* their state file, the manifest, the guards and the report.              *)
(*                                                                         *)
(* The files outlive an attempt: a later attempt resumes from them.  A     *)
(* worker may die between two steps and leave a file half written, and     *)
(* one whose lease was given to another goes on until it learns of it.     *)
(* JobLease models the lease in full; here it is a number.                 *)
EXTENDS Integers, FiniteSets, TLAPS

CONSTANTS
    Executors,  \* worker processes
    Roots,      \* workspace roots that hold the job's repository
    PhaseCount, \* phases of the plan
    MaxClaims   \* bound: attempts

ASSUME ExecutionAssumption ==
    /\ PhaseCount \in Nat \ {0}
    /\ MaxClaims \in Nat

VARIABLES
    task,   \* what of the job decides the flow: dry run, setup phase
    lease,  \* the record of the job at the server
    dir,    \* the artifact directory: phase state, pack, manifest, verdict
    tree,   \* per root: the worktree, and the phases whose changes it holds
    att,    \* the attempts under way
    past    \* history: roots used, attempts that overlapped, recoveries

execVars == <<task, lease, dir, tree, att, past>>

Phases == 1 .. PhaseCount
PhaseStatus == {"pending", "running", "completed", "failed"}
FreshPlan == [p \in Phases |-> "pending"]
Absent == [p \in Phases |-> "absent"]
Torn == [p \in Phases |-> "torn"]

NoAttempt(r) ==
    [pc |-> "off", lease |-> 0, root |-> r, phases |-> FreshPlan, index |-> 1,
     aborted |-> FALSE, ok |-> FALSE]

ExecInit ==
    /\ task \in [dryRun : BOOLEAN, setup : BOOLEAN]
    /\ lease = [status |-> "queued", number |-> 0, mutated |-> FALSE]
    /\ dir = [state |-> Absent, pack |-> FALSE, manifest |-> "none", verdict |-> "none"]
    /\ tree = [r \in Roots |-> [exists |-> FALSE, registered |-> FALSE, work |-> {}]]
    /\ \E r \in Roots : att = [w \in Executors |-> NoAttempt(r)]
    /\ past = [roots |-> {}, overlap |-> FALSE, recovered |-> FALSE]

----------------------------------------------------------------------------
(* The server.                                                             *)

Current(w) == lease.status = "running" /\ lease.number = att[w].lease

Go(w, pc) == att' = [att EXCEPT ![w].pc = pc]

(* finishWorkerJob, or an early return before there is a manifest.         *)
Close(w, ok) == att' = [att EXCEPT ![w].pc = "close", ![w].ok = ok]
ReportFailure(w) == att' = [att EXCEPT ![w].pc = "report", ![w].ok = FALSE]

ClaimLease(w, r) ==
    /\ att[w].pc = "off"
    /\ lease.status = "queued" /\ lease.number < MaxClaims
    /\ lease' = [lease EXCEPT !.status = "running", !.number = @ + 1]
    /\ att' = [att EXCEPT ![w] = [NoAttempt(r) EXCEPT !.pc = "prepare",
                                                      !.lease = lease.number + 1]]
    /\ past' = [past EXCEPT !.overlap = @ \/ \E v \in Executors : att[v].pc # "off"]
    /\ UNCHANGED <<task, dir, tree>>

(* detectStaleLeases: only an attempt that wrote nothing is queued again.  *)
SweepLease ==
    /\ lease.status = "running"
    /\ lease' = [lease EXCEPT !.status = IF lease.mutated THEN "stalled" ELSE "queued"]
    /\ UNCHANGED <<task, dir, tree, att, past>>

(* recoverStalledJob, by an operator.                                      *)
RecoverLease ==
    /\ lease.status = "stalled"
    /\ lease' = [lease EXCEPT !.status = "queued", !.mutated = FALSE]
    /\ past' = [past EXCEPT !.recovered = TRUE]
    /\ UNCHANGED <<task, dir, tree, att>>

(* A heartbeat is refused: the signal of the attempt is aborted.           *)
AbortSignal(w) ==
    /\ att[w].pc # "off" /\ ~Current(w) /\ ~att[w].aborted
    /\ att' = [att EXCEPT ![w].aborted = TRUE]
    /\ UNCHANGED <<task, lease, dir, tree, past>>

----------------------------------------------------------------------------
(* An attempt: executeProviderWorkerJob.                                   *)

(* Mutant: every attempt begins with a worktree of its own.                *)
PrepareAnew(w) ==
    /\ att[w].pc = "prepare"
    /\ LET r == att[w].root
       IN  /\ tree' = [tree EXCEPT ![r] = [exists |-> ~tree[r].registered,
                                           registered |-> TRUE, work |-> {}]]
           /\ IF tree[r].registered THEN ReportFailure(w) ELSE Go(w, "mark")
    /\ past' = [past EXCEPT !.roots = @ \cup {att[w].root}]
    /\ UNCHANGED <<task, lease, dir>>

(* prepareWorkerWorktree keeps the worktree when there is a state file, in *)
(* any condition.  Otherwise it removes the directory and adds a worktree, *)
(* which git refuses for a path it still has registered.                   *)
PrepareWorktree(w) ==
    /\ att[w].pc = "prepare"
    /\ LET r == att[w].root
       IN  IF dir.state # Absent /\ tree[r].exists
           THEN UNCHANGED tree /\ Go(w, "mark")
           ELSE /\ tree' = [tree EXCEPT ![r] = [exists |-> ~tree[r].registered,
                                                registered |-> TRUE, work |-> {}]]
                /\ IF tree[r].registered THEN ReportFailure(w) ELSE Go(w, "mark")
    /\ past' = [past EXCEPT !.roots = @ \cup {att[w].root}]
    /\ UNCHANGED <<task, lease, dir>>

(* Mutant: the refusal of a checkpoint is not looked at.                   *)
MarkUnheeded(w) ==
    /\ att[w].pc \in {"mark", "mark_phases"}
    /\ Go(w, IF att[w].pc = "mark" THEN "open" ELSE "loop")
    /\ lease' = IF Current(w) THEN [lease EXCEPT !.mutated = ~task.dryRun] ELSE lease
    /\ UNCHANGED <<task, dir, tree, past>>

(* markFilesystemMutation, before the manifest and again before the        *)
(* phases: the server acknowledges it, or it throws.                       *)
MarkMutation(w) ==
    /\ att[w].pc \in {"mark", "mark_phases"}
    /\ LET next == IF att[w].pc = "mark" THEN "open" ELSE "loop"
       IN  \/ task.dryRun /\ Go(w, next) /\ UNCHANGED lease
           \/ /\ ~task.dryRun /\ Current(w)
              /\ lease' = [lease EXCEPT !.mutated = TRUE]
              /\ Go(w, next)
           \/ ~task.dryRun /\ ReportFailure(w) /\ UNCHANGED lease
    /\ UNCHANGED <<task, dir, tree, past>>

(* initializeWorkerManifest writes a new manifest over one it cannot read. *)
OpenManifest(w) ==
    /\ att[w].pc = "open"
    /\ dir' = [dir EXCEPT !.manifest = "running"]
    /\ Go(w, "probe")
    /\ UNCHANGED <<task, lease, tree, past>>

ProbeProvider(w) ==
    /\ att[w].pc = "probe"
    /\ Go(w, "load") \/ Close(w, FALSE)
    /\ UNCHANGED <<task, lease, dir, tree, past>>

(* A manifest that another process left half written makes the next update *)
(* of it throw, and with it the attempt.                                   *)
Readable == dir.manifest # "torn"
ManifestThrows(w) ==
    /\ att[w].pc \in {"load", "guards", "close"} /\ ~Readable
    /\ ReportFailure(w)
    /\ UNCHANGED <<task, lease, dir, tree, past>>

(* getWorkerTaskPhaseResumeIndex.                                          *)
ResumeIndex(ph) ==
    IF \E p \in Phases : ph[p] = "running"
    THEN CHOOSE p \in Phases : ph[p] = "running" /\ \A q \in 1 .. p - 1 : ph[q] # "running"
    ELSE IF \A p \in Phases : ph[p] = "completed" THEN PhaseCount + 1
    ELSE CHOOSE p \in Phases : ph[p] # "completed" /\ \A q \in 1 .. p - 1 : ph[q] = "completed"

(* Mutant: an attempt makes its own plan.                                  *)
LoadAnew(w) ==
    /\ att[w].pc = "load" /\ Readable
    /\ dir' = [dir EXCEPT !.state = FreshPlan]
    /\ att' = [att EXCEPT ![w].pc = "mark_phases", ![w].phases = FreshPlan, ![w].index = 1]
    /\ UNCHANGED <<task, lease, tree, past>>

(* A state file that is missing or half written is planned anew.           *)
LoadPhases(w) ==
    /\ att[w].pc = "load" /\ Readable
    /\ LET ph == IF dir.state \in {Absent, Torn} THEN FreshPlan ELSE dir.state
       IN  /\ dir' = [dir EXCEPT !.state = ph]
           /\ att' = [att EXCEPT ![w].pc = "mark_phases", ![w].phases = ph,
                                 ![w].index = ResumeIndex(ph)]
    /\ UNCHANGED <<task, lease, tree, past>>

SavePhase(w, p, status, pc) ==
    LET ph == [att[w].phases EXCEPT ![p] = status]
    IN  /\ att' = [att EXCEPT ![w].phases = ph, ![w].pc = pc]
        /\ dir' = [dir EXCEPT !.state = ph]

(* Mutant: the end of the plan is found one phase late.                    *)
StartPastEnd(w) ==
    /\ att[w].pc = "loop"
    /\ IF att[w].index > PhaseCount + 1 THEN Go(w, "guards") /\ UNCHANGED dir
       ELSE IF att[w].aborted THEN Close(w, FALSE) /\ UNCHANGED dir
       ELSE SavePhase(w, att[w].index, "running", "execute")
    /\ UNCHANGED <<task, lease, tree, past>>

(* The signal is looked at between phases only.                            *)
StartPhase(w) ==
    /\ att[w].pc = "loop"
    /\ IF att[w].index > PhaseCount THEN Go(w, "guards") /\ UNCHANGED dir
       ELSE IF att[w].aborted THEN Close(w, FALSE) /\ UNCHANGED dir
       ELSE SavePhase(w, att[w].index, "running", "execute")
    /\ UNCHANGED <<task, lease, tree, past>>

(* Mutant: the phase is completed first, and the pack saved after it.      *)
ExecuteUnpacked(w) ==
    /\ att[w].pc = "execute"
    /\ tree' = [tree EXCEPT ![att[w].root].work = @ \cup {att[w].index}]
    /\ Go(w, "done")
    /\ UNCHANGED <<task, lease, dir, past>>

(* provider.execute: the changes of a failed phase may be there or not.    *)
ExecutePhase(w) ==
    /\ att[w].pc = "execute"
    /\ \/ /\ tree' = [tree EXCEPT ![att[w].root].work = @ \cup {att[w].index}]
          /\ Go(w, IF ~Readable THEN "throw"
                   ELSE IF task.setup /\ att[w].index = 1 THEN "pack" ELSE "done")
       \/ /\ tree' \in {tree, [tree EXCEPT ![att[w].root].work = @ \cup {att[w].index}]}
          /\ Go(w, IF Readable THEN "undone" ELSE "throw")
    /\ UNCHANGED <<task, lease, dir, past>>

Throw(w) ==
    /\ att[w].pc = "throw"
    /\ ReportFailure(w)
    /\ UNCHANGED <<task, lease, dir, tree, past>>

(* The context pack of a setup phase, or the fallback for it.              *)
SavePack(w) ==
    /\ att[w].pc = "pack"
    /\ dir' = [dir EXCEPT !.pack = TRUE]
    /\ Go(w, IF Readable THEN "done" ELSE "throw")
    /\ UNCHANGED <<task, lease, tree, past>>

CompletePhase(w) ==
    /\ att[w].pc = "done"
    /\ LET ph == [att[w].phases EXCEPT ![att[w].index] = "completed"]
       IN  /\ att' = [att EXCEPT ![w].phases = ph, ![w].pc = "loop", ![w].index = @ + 1]
           /\ dir' = [dir EXCEPT !.state = ph]
    /\ UNCHANGED <<task, lease, tree, past>>

FailPhase(w) ==
    /\ att[w].pc = "undone"
    /\ LET ph == [att[w].phases EXCEPT ![att[w].index] = "failed"]
       IN  /\ att' = [att EXCEPT ![w].phases = ph, ![w].pc = "close", ![w].ok = FALSE]
           /\ dir' = [dir EXCEPT !.state = ph]
    /\ UNCHANGED <<task, lease, tree, past>>

(* Mutant: a failed verification is a note in the manifest.                *)
GuardsLenient(w) ==
    /\ att[w].pc = "guards" /\ Readable
    /\ \E v \in {"passed", "failed"} : dir' = [dir EXCEPT !.verdict = v]
    /\ Close(w, TRUE)
    /\ UNCHANGED <<task, lease, tree, past>>

(* The diff boundary, the names and the verification, of a job that is not *)
(* a dry run; the first that fails ends it (WorkerGuards has the rules).   *)
CheckGuards(w) ==
    /\ att[w].pc = "guards" /\ Readable
    /\ IF task.dryRun THEN Close(w, TRUE) /\ UNCHANGED dir
       ELSE \/ Close(w, FALSE) /\ UNCHANGED dir
            \/ Close(w, FALSE) /\ dir' = [dir EXCEPT !.verdict = "failed"]
            \/ Close(w, TRUE) /\ dir' = [dir EXCEPT !.verdict = "passed"]
    /\ UNCHANGED <<task, lease, tree, past>>

CloseManifest(w) ==
    /\ att[w].pc = "close" /\ Readable
    /\ dir' = [dir EXCEPT !.manifest = IF att[w].ok THEN "completed" ELSE "failed"]
    /\ Go(w, "report")
    /\ UNCHANGED <<task, lease, tree, past>>

(* complete or fail; a worker that was told its lease is gone sends none,  *)
(* and a report without the lease is refused.                              *)
Report(w) ==
    /\ att[w].pc = "report"
    /\ lease' = IF Current(w) /\ ~att[w].aborted
                THEN [lease EXCEPT !.status = IF att[w].ok THEN "completed" ELSE "failed"]
                ELSE lease
    /\ att' = [att EXCEPT ![w] = NoAttempt(att[w].root)]
    /\ UNCHANGED <<task, dir, tree, past>>

(* The process dies.  A write under way leaves half a file.                *)
WorkerDies(w) ==
    /\ att[w].pc # "off"
    /\ att' = [att EXCEPT ![w] = NoAttempt(att[w].root)]
    /\ dir' \in {dir}
         \cup (IF att[w].pc \in {"load", "loop", "done", "undone"}
               THEN {[dir EXCEPT !.state = Torn]} ELSE {})
         \cup (IF att[w].pc \in {"open", "load", "done", "undone", "close"}
               THEN {[dir EXCEPT !.manifest = "torn"]} ELSE {})
    /\ UNCHANGED <<task, lease, tree, past>>

AttemptStep(w) ==
    \/ PrepareWorktree(w) \/ MarkMutation(w) \/ OpenManifest(w) \/ ProbeProvider(w)
    \/ ManifestThrows(w) \/ LoadPhases(w) \/ StartPhase(w) \/ ExecutePhase(w)
    \/ Throw(w) \/ SavePack(w) \/ CompletePhase(w) \/ FailPhase(w)
    \/ CheckGuards(w) \/ CloseManifest(w) \/ Report(w)

ExecNext ==
    \/ \E w \in Executors :
         \/ \E r \in Roots : ClaimLease(w, r)
         \/ AbortSignal(w)
         \/ AttemptStep(w)
         \/ WorkerDies(w)
    \/ SweepLease
    \/ RecoverLease

ExecSpec == ExecInit /\ [][ExecNext]_execVars

----------------------------------------------------------------------------
PhaseFiles == [Phases -> PhaseStatus]

(* Files, worktrees and attempts keep their shape.                         *)
ExecTypeOK ==
    /\ task \in [dryRun : BOOLEAN, setup : BOOLEAN]
    /\ lease \in [status : {"queued", "running", "stalled", "completed", "failed"},
                  number : 0 .. MaxClaims, mutated : BOOLEAN]
    /\ dir \in [state : PhaseFiles \cup {Absent, Torn}, pack : BOOLEAN,
                manifest : {"none", "torn", "running", "completed", "failed"},
                verdict : {"none", "passed", "failed"}]
    /\ tree \in [Roots -> [exists : BOOLEAN, registered : BOOLEAN, work : SUBSET Phases]]
    /\ att \in [Executors ->
                 [pc : {"off", "prepare", "mark", "open", "probe", "load", "mark_phases",
                        "loop", "execute", "throw", "pack", "done", "undone", "guards",
                        "close", "report"},
                  lease : 0 .. MaxClaims, root : Roots, phases : PhaseFiles,
                  index : 1 .. PhaseCount + 1, aborted : BOOLEAN, ok : BOOLEAN]]
    /\ past \in [roots : SUBSET Roots, overlap : BOOLEAN, recovered : BOOLEAN]

(* The implementation phases of a plan with a setup phase have its context *)
(* pack to load: the state file calls the phase completed only once the    *)
(* pack is on disk, whoever dies when and whoever else is at work.         *)
PackIsKept ==
    (task.setup /\ dir.state[1] = "completed") => dir.pack

(* A job is queued again without an operator only when no attempt can have *)
(* written to a worktree: before the first recovery, the changes of a      *)
(* phase are never there in a job that is queued.                          *)
RequeuedIsClean ==
    (~task.dryRun /\ ~past.recovered /\ lease.status = "queued")
        => \A r \in Roots : tree[r].work = {}

(* A job that completed in attempts which never overlapped and all used    *)
(* one workspace root has the changes of every phase in that worktree, a   *)
(* manifest that agrees and, unless it is a dry run, passed verification,  *)
(* however many workers died on the way.                                   *)
CompletedIsWhole ==
    (lease.status = "completed" /\ ~past.overlap /\ Cardinality(past.roots) = 1)
        => /\ \E r \in past.roots : tree[r].work = Phases
           /\ dir.manifest = "completed"
           /\ dir.verdict = IF task.dryRun THEN "none" ELSE "passed"

(* As long as attempts do not overlap, what the state file has completed   *)
(* stays completed, and is not started again by a later attempt; the only  *)
(* way to lose it is to die while the file is written.                     *)
ResumeIsExact ==
    (~past.overlap' /\ dir'.state # Torn) =>
        \A p \in Phases : dir.state[p] = "completed" => dir'.state[p] = "completed"

(* Once there is a state file to resume from, the worktree with the        *)
(* changes it tells of is there too, as long as attempts do not overlap.   *)
WorktreeIsKept ==
    (dir.state # Absent /\ ~past.overlap) => \E r \in past.roots : tree[r].exists

(* What a job can rely on from the workers that execute it, together.      *)
ExecutionIsSound ==
    ExecTypeOK /\ PackIsKept /\ RequeuedIsClean /\ CompletedIsWhole /\ WorktreeIsKept
=============================================================================
