# Orchestra: a verification development

Orchestra is a server, a set of workers and an orchestrator. The orchestrator
turns a task into a plan, asks language models for candidate files, checks and
reviews them, and writes the accepted candidate to a repository. The server
queues such runs as jobs, runs them in its own process or hands them to external
workers under leases, and asks people for approvals.

This directory models the parts of that program in which the order of steps
matters, in TLA+. TLC checks the models on small instances, and the TLA+ proof
system proves the most important properties for every value of the constants.
`PROJECT.json` lists the components, the runs with their properties, the source
lines each definition stands for, the hazards of the code, what was found, and
the theorems.

Line numbers below are those of the files under `ai-system/`.

## 1. Inventory

### The core of the system

| Component | State it keeps | Operations |
|---|---|---|
| Job store (`core/job-repositories.ts`, `core/postgres-job-repository.ts`) | one record per job; a lock per job | load, save (atomic), list newest first, delete, lock |
| Job queue, in process (`core/job-queue.ts`) | timer and promise of the drain, count of active runs, held workspaces, abort controllers, paused and stopped flags | enqueue, drain, runJob, cancel, runExclusive, setPaused, start, stop, retention |
| Approvals (`approvals/approval-wait.ts`, `jobs/job-service.ts`) | the pending request of each job | waitForApproval, approve, reject |
| Worker backend (`workers/worker-service.ts`, `workers/worker-routes.ts`, the lease operations of `core/job-queue.ts`) | lease, attempts and mutation checkpoint of each record | claim, start, heartbeat, checkpoint, logs, complete, fail, sweep, recover |
| Worker runtime (`worker/worker-runtime.ts`, `worker/worker-client.ts`) | the active job and its abort controller | the polling loop, the heartbeat timer, markFilesystemMutation |
| Orchestrator run (`core/orchestrator-run.ts`, `core/run-executor*.ts`, `core/execution-state-machine.ts`) | the working state, the iterations, the transitions, the budget | plan, context, checkpoints, generation loop, finalization |
| Orchestrator resume and apply (`core/orchestrator-resume.ts`, `core/artifact-apply.ts`, `core/artifact-persistence.ts`) | `run-state.json`, the directory of each iteration, the repository | resume, retry from a stage, apply a candidate |

How they interact:

- A drain pass reads the store, takes a slot and a workspace in memory, and
  starts `runJob`, which claims the record under the job lock, calls the
  orchestrator with an abort signal, and writes the result under the lock, or
  without it if the lock stays busy.
- The orchestrator calls back for an approval; the wait lives in a map of the
  server that `approveJob` and the abort both resolve, and a call nobody awaits
  records the wait.
- A worker calls the server over HTTP. Each call is one or more sections under
  the job lock; its answer may be lost after the section has run, and a worker
  gives up on an answer after fifteen seconds.
- Runs, resumes and `ai apply` share nothing but files: `run-state.json`, the
  iteration directories and the repository.

What is hard: several drain passes at once, each with a listing of its own;
cancels that race launches, approvals and results; writes of whole records read
before an await, without the lock; leases that expire while work goes on;
answers that are lost; a server or a worker that dies between two steps; a run
that fails, pauses or runs out of budget anywhere in its loop and is resumed by
a process that knows only what was recorded.

What makes each part correct:

- queue: a workspace has one run at a time; the concurrency bound; a cancel is
  final; a run that waits can be approved; nothing runs in a closed store; no
  record outlives its run as `running`; a queued job is eventually run;
- worker backend: a job whose files may have changed never goes to another
  worker by itself; a report acknowledged to a worker is not undone; a finished
  job stays finished; a claimed job is eventually settled;
- run: the repository never holds a candidate that nobody accepted; a run
  recorded as completed is in the repository, whole; a pause can be resumed; an
  accepted candidate is not generated anew; an invocation ends.

### The other components

| Component | State it keeps | What is hard, and what makes it correct |
|---|---|---|
| Job lock and stores (`core/job-repositories.ts`, `core/postgres-job-repository.ts`) | a lock file or row; a row and a snapshot of each record | a lock outlives its process and is taken by its age; the two copies of a record are written one after the other, and imported anew at a start. Exclusion; a record never goes back |
| Worker registry (`workers/worker-service.ts`) | one record per worker: status, current job | loaded and saved whole by heartbeats, claims, results and the operator. The record names the job that is held; an operator's word stands until the worker is heard |
| Work engine (`work/*.ts`) | an item: record, graph, checklist and runs, in files of their own; the jobs of its nodes | overlapping operations, saves that are cut short, reconciliation by reads. No node before those it depends on; nothing is done that no job completed; no job twice |
| Job executor (`worker/job-executor.ts`, `worker/task-phases.ts`) | worktree, phase state, manifest, verdict | deaths, half-written files, an attempt that goes on without its lease. No phase is lost or done twice; nothing is reported that was not verified |
| Solo jobs (`solo/*.ts`) | the user's tree, the stash, patches | what the user edited meanwhile is never lost; an undo takes away what the job did, and no more |
| Commands (`utils/api.ts`) | process groups, kill timers | retries over processes that ignore signals |
| Providers (`providers/registry.ts`) | the current provider of a role, those that failed | calls that overlap a failover |
| Run directory (`core/artifact-persistence.ts`, `core/artifact-apply.ts`) | iterations, manifests, state, index | deaths between files; iterations done again; readers meanwhile |
| Server files (`core/audit-log.ts`, `repos/repo-registry.ts`) | the audit log, the registry of repositories | whole rewrites beside appends |
| Vector index (`core/vector-index.ts`) | a snapshot: entries by size and time | files that change while they are read |
| Memory (`memory/local-file.ts`) | lines of JSON | appends, trims, torn lines |
| Rules without state | | the plan of a task, the boundary of a diff, approvals, routing, tool scopes, context, reviews, tokens and routes, rate limits, settings, the command line, reports, answers: what must hold of every input |

`mcp/` and the dashboard call the operations above and format the answers; they
are not modelled.

## 2. Modules

| Module | What it is |
|---|---|
| `JobRecord` | a job record and the guarded writes the queue makes to it: for each locked section the condition (`CanClaim`, `CanReport`, ...) and the record it writes (`Claimed`, `Reported`, ...) |
| `JobLifecycle` | abstract: the life a job's status may go through (`Ordinary`), and a job that goes astray from it (`Stray`) |
| `JobLease`, `JobLeaseProofs` | the worker backend: records, claim requests, worker sessions, heartbeats, log uploads, crashes and restarts |
| `WorkspaceHolds` | abstract: whoever runs holds its workspace alone |
| `JobQueue`, `JobQueueProofs` | the in-process queue: drain passes, runs, approvals, cancels, synchronous runs, pause, stop, exit, restart |
| `RunExecution`, `RunExecutionProofs` | one run of the orchestrator over its invocations: run, resumes, applications; theorems about it and about rules for every input |
| `JobLock` | the lock of a record, as a file and as a row: attempts, holds, deaths, theft, and the delete that takes the row with the record |
| `JobStore` | one record in the three stores: row and snapshot, writes, deletes without the lock, the import at a start |
| `WorkItems`, `WorkItemsProofs` | one work item: runs, dispatches, reads, reviews, handoffs, cancels and retries of several sessions, file by file, with the jobs of its nodes |
| `WorkPlanning` | graph, checklist, assessment, profile, schedule, checks of a pull request, lesson |
| `WorkerExecution`, `WorkerExecutionProofs` | the attempts at one job: worktree, setup, phases, verification, report |
| `WorkerGuards` | the phases of a task, the context pack, the boundary of a diff, the verdict |
| `WorkerRegistry` | the record of a worker and those that save it |
| `SoloJobs` | a tool in the user's checkout: runs, stash, worktree, undo, commit |
| `CommandRun` | a command with retries, timeouts, grace periods and an abort |
| `ProviderFailover` | the provider of a role under calls that overlap |
| `ProviderAnswer` | what is taken of an answer; the requests of an OpenAI compatible provider |
| `RunFiles` | the directory of a run, its writer, its resumes, its readers |
| `ServerFiles` | the audit log and the registry of repositories |
| `CodeIndex`, `MemoryFile` | the vector index; the memory file |
| `ToolChecks`, `ContextSelection` | which check covers a change; which files a provider is shown |
| `ChangeReview`, `RiskRouting` | what is reviewed and concluded; approvals, profiles and providers by risk |
| `ServerAccess`, `Settings` | tokens, actors, routes, limits; configuration, presets, secrets, `.env` |
| `CommandLine`, `RunReport` | words to command; failures, stages, listings, statistics |
| `Components` | the smaller components side by side, and what they promise together |
| `RecordProofs` | theorems about `JobLock`, `JobStore`, `WorkerRegistry`, `RunFiles`, `ServerFiles` |
| `RunPartProofs` | theorems about `CommandRun`, `ProviderFailover`, `CodeIndex`, `MemoryFile`, and about limits (`ServerAccess`) and schedules (`WorkPlanning`) |
| `ComponentProofs` | theorems about `SoloJobs`, and about `Components` from those of the parts |
| `RuleSamples` | samples of the inputs of the rules |
| `MCJobLease`, `MCJobQueue`, `MCRunExecution`, `MCWorkItems`, `MCWorkerDrain`, `MCComponents` | instances for TLC; the `.cfg` files say which values the constants have |

`MCComponents` instantiates `Components`, which joins eleven state machines that share no state: `part` says
which one moves, and the others stay as they begin, so that the states add up
and do not multiply. Its twelfth part evaluates the rules on `RuleSamples`, one
sample per state.

Operators whose comment begins with "Mutant" are plausible errors in the
definition that follows or stands above. No specification uses them: they serve
to confirm that a property fails when the code is wrong. There is at least one
for each part of a property that is a conjunction, though `PROJECT.json` lists
one for each property of a run.

### JobLease and the code

A record's expiry is kept as the time it has left, from `LeaseTtl` ticks down to
-1, which stands for every instant past the expiry: the code compares it both
with `<` (a report) and with `<=` (a sweep), so at 0 a lease is at once stale and
good. `Tick` is the clock.

| Action | Code |
|---|---|
| `Enqueue`, `Cancel`, `Recover` | job-service.ts `createJob`; job-queue.ts `cancel`, `recoverStalledJob` |
| `BeginClaim`, `SweepJob`, `SkipSweep` | worker-service.ts `claimJob`, which first calls `detectStaleLeases`: a listing, then one locked section per stale record |
| `BeginPick`, `ClaimJob`, `ClaimMissed`, `EndClaim` | the second listing and the locked claims, newest job first |
| `Start`, `BeginBeat`, `Renew`, `Abort` | `startJob`; a busy heartbeat is `startJob` and then `renewLease`, two sections; a 409 aborts the provider |
| `Checkpoint`, `Finish` | `markFilesystemMutation`, which lets the provider write only once the checkpoint is acknowledged; the end of the executor, by any of three outcomes |
| `ReadForLogs`, `WriteLogs`, `UploadFailed` | `appendWorkerLogs`: the record is read, and later written back whole, without the lock |
| `Complete`, `Fail`, `Abandon` | the report of the result, the second report when the first one throws, and the silence of an aborted run |
| `WorkerCrash`, `ServerRestart` | the process ends anywhere; the server loses its requests and runs `cleanupHungJobs` |

Every call may also take effect and have its answer lost. Three history variables
serve the properties: `dirty`, the lease that last changed a job's files,
`acked`, the verdicts a worker was told were recorded, and `strayed`, the jobs
of which a log upload has put back an older record, that is one with another
status, lease or mark than the one stored. Every executor uploads its log lines,
so every worker of the run `lease` does (`Chatty`); only `lease_live` has
workers that do not.

### JobQueue and the code

JavaScript runs one continuation at a time, so an action is a stretch of code
between two awaits or one section under the job lock. `pass` holds each drain
pass with the listing it took; `latest` is `drainPromise`, which is the pass that
fired last, not the only one. `activeJobs`, `activeWorkspaces`, `controllers` and
`pending` are the fields of the same meaning. The writes that do not take the
lock (`approveJob`, `cleanupHungJobs`, the last resort of `finishRun`) are split
into the read and the write. `Exit` loses every variable but `status` (and the
counters of the bounds); `asked` is kept so that the requests of two processes
are told apart.

A call of the store fails, or a lock stays busy through every retry, within the
bound `MaxFaults`: the listing of a pass, the claim of a run and what `runJob`
writes after it (`Fails`), the last write of a run with or without its effect
(`FinishFails`), an approval (`ApproveFails`), and the cleanup of a start at its
listing or at any of its writes (`CleanupFails`, after which the rest of what it
listed stays as it is). Where the code only warns, the record stays `running`
without a run: `orphans` are the jobs to which that happened since the start, by
a failed call or by an approval that wrote back what it had read. `FinishFails`
does not tell a runner that returned a failure from one that threw. An enqueue
whose write fails with the row written (its client is told that it failed) is not
modelled.

### RunExecution and the code

A candidate is a number and whether it holds every planned file; an issue list
is whether it blocks. An action is one stage of the execution machine with the
code up to the next stage. `saved` is `run-state.json`, `artifact` the directory
of the latest iteration, `repo` the candidate in the repository and `torn` that
some of its files are of another one.

- `StageFails`, `FailsOutside`, `FailsUncaught`: a call throws inside a stage,
  between stages, and where nothing catches it. A run catches and records; a
  resume does not. What the catch clause records is `Errored`: the state from
  before the loop, since the loop works on a copy.
- `Run`, `Plan`, `Confirmed`, `PausedAfterPlan`, `Declined`, `Context`,
  `Affordable`, `TooExpensive`: orchestrator-run.ts up to the loop.
- `Generate`, `SkipGeneration`, `Incomplete`, `Tools`, `Review`, `FixNext`,
  `Accept`, `PausedAfterGenerate`, `OverBudget`, `JudgedOverBudget`,
  `LimitReached`: run-executor.ts.
- `BeginWrite`, `Written`, `WriteFails`, `Record`, `GiveUp`:
  run-executor-finalize.ts and `writeFilesAtomically`; a failed write is rolled
  back, and the rollback may fail.
- `Resume`, `Prepare`: orchestrator-resume.ts, with `Strategy` for
  `resolveResumeStrategy` and `ForcedHint` for the stage a user names.
- `Apply`, `Abort`, `Crash`.

Two history variables: `vouched`, the candidates a review accepted or a user
forced, and `misled` (see section 5, reused directories).

### WorkItems and the code

`disk` is the item as its files have it; a session has a copy (`ses[s].copy`),
made file by file in the order of `load` and written file by file in the order
of `save`. Between, an operation does what its function of work-item-service.ts
or work-engine.ts does to the copy: `runWorkItem` reconciles, queues a job for
every executable node and links it; `getWorkItem` reconciles and saves;
`dispatchReadyWorkItems` lists first. A job ends at any time. `mishaps` counts
what the second half of the properties exempts: operations that begin during
another, saves that are cut short. `pruned` are the finished jobs of which the
queue keeps no record any more.

### WorkerExecution, WorkerRegistry, SoloJobs and the code

An attempt of `WorkerExecution` is a program counter over the stretches between
awaits of `executeWorkerJob`: `ClaimLease`, the preparation of the worktree, the
setup phase with its pack, each phase with its two writes of the state file, the
verification, the manifest, the report. `WorkerDies` leaves a file torn that was
being written. `SweepLease` and `RecoverLease` are the server's; `AbortSignal` is
how an attempt hears that its lease is gone.

In `WorkerRegistry` every request is a load and a save: `Timer*` the heartbeat,
`Claim*`, `Result*` and `Rest*` the loop, `Desk*` the operator.

In `SoloJobs` a file is the number of the edit that made it, a patch is what it
was and what it became. `RunOnCleanTree`, `RunOnDirtyTree`, `RunOnStashedTree`
and `RunInWorktree` are the four answers to a dirty tree. `RunOnDirtyTree` also stands
for a tree whose status git could not tell: `readGitValue` (solo-runner.ts:306)
then answers "", which counts as clean. Undo and commit look at no status, so the
job they are called for may still run.

### The rest of the state machines

`JobLock`: `lock` with its age, `proc` with the age of its hold; `DropLock` is the
delete of the Postgres repository, which removes the row whoever owns it and is
called by requests and by the retention without the lock (`cut`: whose row it
removed). `JobStore`: the number of the write that made row and snapshot;
`pending`, the writes whose snapshot is still to come, of which there may be
several and between whose halves a delete, a delete's own halves and an import
may fall. `CommandRun`: `group` per
attempt, its command and a helper that keeps the streams open. `ProviderFailover`:
`serving` is `activeProvider`, `progress` each call from its start through its
refusals. `RunFiles`: the making (a number) of each file of an iteration and of
its manifest. `ServerFiles`: `does` and `loaded`, what each request is doing and
what it read. Both files are rewritten in place, so a rewrite is two steps:
`EmptyLog` and `WriteLog`, `EmptyRepos` and `SaveRepos`; between them the file is
empty for who reads it or appends to it, and a death or a full disk there leaves
any beginning of what was to be written, whole lines and a torn one
(`WriteIsCut`, `SaveIsCut`; `AppendIsCut` for an append). `garbled` and
`readable` say that the log has a line that is no event, so that a listing
answers nothing, and that the registry can be read; a save that overlapped
another may leave it either way. `RegistrationFails` is a registration that
cannot read the registry. Cleanups of the log are a day apart or at a start, so
two do not overlap. `CodeIndex`: `disk` and `index` with size, time and text, and the
pass under way. `MemoryFile`: `lines`, `torn`, and each run between its append,
its read and its write.

## 3. What is checked

| Run | Instance | States | Shows |
|---|---|---|---|
| `lease` | 2 workers that both upload logs, 1 job, lease of 1 tick, 2 attempts, 2 leases | 2,178,765 | `TypeOK`, `LeaseShape`, `MutatedWorkIsFenced`, `AckedIsFinished`, `OnlyLogsReopen`, `ImplementsLifecycle` |
| `lease_live` | 2 workers without logs, lease of 1 tick, 2 attempts | 109,791 | `ClaimedIsSettled`, `QueuedIsClaimed` |
| `queue` | 2 jobs and a synchronous run in 2 workspaces, 2 passes, a pause, a fault, a restart | 1,705,887 | `TypeOK`, `OverlapBound`, `ClosedIsQuiet`, `RunningHasRun`, `RunsAlone` |
| `queue_approval` | 1 job with 2 approvals, 1 approver, 2 cancels, a fault, a restart | 409,344 | `AbortedNeverWaits`, `WaitingIsApprovable`, `LivesOneLife`, `AbortedRunEnds` |
| `queue_live` | 2 jobs, 2 passes, a pause, a fault, a restart | 848,360 | `QueuedIsRun` |
| `run` | 2 iterations, 3 retries, 2 resumes or applications, 2 faults, every policy and stage | 1,006,431 | `TypeOK`, `WrittenIsVouched`, `PausedIsResumable`, `CompletedIsWritten`, `AcceptedIsKept`, `RunEnds` |
| `work` | 1 item of 2 nodes, 2 sessions, 4 operations, 3 jobs, 1 mishap | 2,134,336 | `TypeOK`, `WorkIsEarned`, `UndisturbedIsExact`, `ProgressIsKept` |
| `components` | the parts below | 2,168,652 | `WorkRules`, `CodeRules`, `ExecutionIsSound`, `LockIsSafe`, `RecordsAreTrue`, `UserWorkIsKept`, `CommandIsContained`, `KnowledgeIsTrue`, `CallsAreServed`, `StepsAreSound` |
| `lease_final`, `queue_approve`, `run_resume`, `worker_drain` | small | | violations: section 5 |

The parts of `components`:

| Part | Instance | States |
|---|---|---|
| execution | 2 executors, 2 roots, 2 phases, 2 claims, dry run and setup or not | 306,623 |
| lock | 3 processes, an age of 1, as a file and as a row | 4,887 |
| store | 4 writes, each of the 3 stores, a legacy file or none | 9,153 |
| registry | 2 jobs, 2 changes by the operator | 232,901 |
| solo | 2 runs, 2 files, 2 edits by the user | 386,424 |
| command | 2 retries | 79 |
| index | 2 files, a clock of 2, 2 settings | 77,218 |
| memory | 4 runs, 2 entries | 60,532 |
| failover | 3 types of provider named in every order, 3 calls | 83,406 |
| files | 2 iterations, 2 that apply, 1 resume | 68,584 |
| server | 4 requests, 2 repositories, a read of 2 events, 2 days | 512,082 |
| rules | the samples | 426,763 |

What the properties say:

- `MutatedWorkIsFenced`: once a worker may change files for a job, the record
  keeps that worker's lease, marked, until the job finishes or an operator
  recovers it, whatever expires, crashes or is lost.
- `AckedIsFinished`: "ok" to a report means a finished job, now and later.
- `OnlyLogsReopen`: no other write takes a job out of a finished status.
- `ImplementsLifecycle`, `LivesOneLife`: the two backends follow
  `JobLifecycle`; the queue strays from it by its three unlocked writes only, and
  a leased job goes astray only where an upload puts an older record of it back.
- Log uploads break the fencing, the acknowledgement and the life of the job they
  put back: of such a job (`strayed`) these properties promise nothing any more,
  and `lease_final` shows one. They say that this upload is the only way, and that
  an upload that does no harm to a job does none later.
- `RunsAlone`: the queue implements `WorkspaceHolds`, with several passes
  holding listings in which the same job is queued.
- `OverlapBound`: passes that overlap exceed the concurrency by at most one run
  for each pass beyond the first.
- `ClosedIsQuiet`: `stop()` waits for the latest pass only, and still nothing
  runs once the store is closed.
- `RunningHasRun`: no record says `running` without a run, once the cleanup of a
  restart is over or has failed, but those a failed call of the store or an
  approval left behind since the start; the cleanup of the next one has them.
- `WrittenIsVouched`, `CompletedIsWritten`, `PausedIsResumable`,
  `AcceptedIsKept`: see section 1; they quantify over every order of failures,
  pauses, resumes, forced stages, applications and deaths.
- `WorkIsEarned`: no node runs before those it depends on have completed, done
  means that every node completed, passed evidence is a completed job of that
  node; whatever overlaps or dies. `UndisturbedIsExact` and `ProgressIsKept` add,
  for as long as nothing does: one live job per node, none unknown, nothing
  undone.
- `ExecutionIsSound`: `PackIsKept`, `RequeuedIsClean` (a job goes back to the
  queue by itself only while no worktree was touched), `CompletedIsWhole` (a
  completed job has the changes of every phase, a manifest that agrees and a
  verdict) and `WorktreeIsKept`, whoever dies when.
- `LockIsSafe`: two hold a file only after a theft, two hold a row only when one
  of them holds it longer than a lock lives or held it when a delete removed it.
- `RecordsAreTrue`: `RecordIsTrue` (worker registry), `RunIsReadable` (what is
  applied is one making, the one its manifest tells of; applies are counted),
  `ServerFilesAreKept` (events that are to be kept are, repositories stay
  registered, but for what a cut rewrite or an overlap takes; and a log that
  answers nothing, or an unreadable registry, comes from those alone).
- `UserWorkIsKept`: the user's last uncommitted edit is in a tree or in a stash.
- `CommandIsContained`: one attempt at a time, and a command that was left is
  due to be killed.
- `KnowledgeIsTrue`: `IndexIsTrue` (an entry with the time of a file has its
  text, all chunks are cut by the settings that are named) and `MemoryIsKept`
  (the newest memories are kept, the file is bounded).
- `CallsAreServed`: a role leaves each provider once at most; calls that follow
  one another are refused only when all providers refused; usage is counted.
- `WorkRules` and `CodeRules`: one requirement per rule, such as: a stricter
  boundary stops more, a wider request is no safer, refusals tell nothing,
  secrets survive a save, a checked command covers the change, pinned files are
  shown. Each compares the rule with itself on another input, or with what is
  asked for; none restates it.
- `StepsAreSound`: what one step may do: no completed phase is undone
  (`ResumeIsExact`), a record never goes back and, deleted, returns only by a write that the delete
  fell into (`RecordIsMonotone`), a drained
  worker that was not heard claims nothing (`OrderIsKept`), an undo is exact
  (`UndoIsExact`), no attempt after an abort (`AbortSpawnsNothing`), a pass of the
  index ends with every file that stood still (`PassIsExact`).
- liveness: `ClaimedIsSettled`, `QueuedIsClaimed`, `QueuedIsRun`,
  `AbortedRunEnds`, `RunEnds`.

### Bounds, and why they are enough

- Lease: one claim, one heartbeat and one upload per worker at a time, which is
  what a worker runtime has, since its loop awaits each call (a heartbeat timer
  whose call takes longer than its period could have two; the second is the same
  pair of sections). A lease is granted once per attempt, and recoveries count as
  attempts: `MaxLeases` binds only in `lease`, where an upload can put back a
  record of an earlier attempt, and cuts the attempts beyond the two of a job
  that has not strayed. Two workers are a holder and a rival; a lease of one tick
  has a fresh instant, the last one and the past. `lease_live` has no uploads: with
  them the temporal check takes far more than the minutes a run is given, and
  liveness of a job that uploads put back is not claimed.
- Queue: two overlapping passes, two jobs of which one shares its workspace
  with the synchronous run. `MaxAsks` counts the approvals of a run: two are
  needed for one to be confused with the next. `MaxFaults`, `MaxPauses` and
  `MaxRestarts` bound failed store calls, pauses and process ends: each property
  concerns what follows one of them.
- Run: two iterations reach a generation, a fix and the limit; `MaxRetries` is
  reached by resumed runs only, since it counts the rounds of all of them;
  `MaxCandidates` never binds (two attempts and the run make at most six).
  `MaxAttempts` bounds resumes and applications, `MaxFaults` failures and deaths:
  two of each, because a hazard of this code is a failure in the resume of a
  failure.

- Work: a chain of two nodes is the least in which one depends on another; three
  jobs are one more than there are nodes; one mishap, since the properties speak
  of none or any.
- Components: two actors of a kind are a holder and a rival, and a third process
  (lock, calls) or a fourth request (server) is there where two that are in each
  other's way meet one more. `LockTtl`, `KeptDays`, `ReadLimit`, `MaxEntries` and
  `LastDay` stand for 30 s, the retention, 10,000, the entries and the clock: what
  matters is to be within the bound, on it and beyond it. `MaxClaims`,
  `MaxWrites`, `MaxChanges`, `MaxSoloEdits`, `MaxClock`, `MaxResumes` bound how
  often something is done; the second time is the one that meets the first.
- Rules: the samples are products of the values that a rule distinguishes (a
  score below, on and above a bound; lists of none, one and two; every mode), cut
  to what a few minutes allow where a product is too large.

`CHECK_DEADLOCK FALSE` stands in the configurations of the run, of the work item
and of the components: each of these stops once what the instance allows has been
done.

### Fairness

- Lease (`FairSpec`): time passes; a worker keeps polling (one that
  ended is started again by whoever operates it: the code leaves that to the
  deployment); a handler that has begun goes on; an executor
  ends, as providers have timeouts; calls return or time out. Strong fairness is
  assumed of the sweep of a stale job, of the listing of queued jobs and of the
  claim of a job: the lock they may find busy is held for moments only. No
  heartbeat, cancel, recovery or crash is fair.
- Queue (`LiveSpec`): timers fire; passes, runs, marks, cleanup and cancels
  under way go on; synchronous runs end; a paused queue is resumed in the end; a
  server that has stopped exits and is started again. Nobody is obliged to
  enqueue, cancel, approve or stop.
- Run (`LiveSpec`): a call the run awaits returns or fails. A user need not
  answer; an aborted run has its answer (no) at once, which is why `RunEnds`
  exempts `Waits` and not `Asks`.
- `work` and `components` assume no fairness: what they check is safety. An
  operation, a process or a worker may stop anywhere.

## 4. What is proved

Every theorem holds for all values of the constants that satisfy the named
assumptions of the modules they are about (each module's `ASSUME`, which TLC
evaluates for the instances; see *Assumptions* below).

**JobLeaseProofs.** `TypeCorrect`, `Leasing`, `OnlyLogs`, `Fencing`,
`Acknowledgement` and `Refinement` hold of the whole specification, with any
workers uploading their logs, and without hypotheses on the behaviour. The
argument: every action of the system is, for one job, one of a few kinds of
writes (`JobStep`: unchanged, a guarded write, a checkpoint, a recovery, a
report, an overwrite by a log upload). The inductive invariant is `LeasedInv`
(the shape of every record by status, also of those that uploads are about to
write back) and, per job that has not strayed, `Fenced` and `Settled`
(`JobInv`), which every kind of write preserves; an overwrite either puts back
the status, lease and mark that are stored, or makes the job stray.
`Refinement` adds that a step moves at most one job, along an edge of
`JobLifecycle` or astray (`OneMove`). Two theorems say what the code is missing:
if no other call changes the status, lease or mark of a job between the read and
the write of an upload (`LockedUploads`), which is what the per-job lock that
`appendWorkerLogs` does not take would ensure, then no job ever strays
(`LockedUploadsKeepTrack`), so that the three hold with no exception, and a
finished job never leaves its status (`LockedUploadsKeepFinished`), which
`lease_final` refutes for the code as it is.

**JobQueueProofs.** `Pool` is the heart: `Counted` (activeJobs is the number of
live runs), `Taken` (activeWorkspaces is exactly the workspaces of what runs)
and `Apart` (no two share one). None is inductive alone: giving back a workspace
preserves `Taken` only if nobody else holds it. Every step is quiet, or starts or
ends one run, or ends all, and `Pool` is proved from these cases. From it:
`TypeCorrect` (activeJobs never goes negative) and `Exclusion` (the refinement
of `WorkspaceHolds`). `Overlap` counts runs and listings together: a pass adds a
run only by looking at the count again or by ending. `Closing` uses `StopInv`:
while `stop()` settles, what runs is among those it waits for. `OneLife` uses
`LifeInv`, which says whose late writes can only concern jobs that have begun.
`RunningRuns` uses `RunningInv`: a job recorded as running is past its claim and
before its last write, or the cleanup is still to list it or to fail it, or a
failed call or an approval has made it an orphan; it has no condition.
`Approvable` assumes that no two approvals of one job overlap (`ApprovalsApart`;
one approver, as in the run, is a case of it: `SoleApprover`) and uses
`ApprovalInv`, which ties the request kept for a job, the request an approver took
and the wait together. `Finality` follows from `OneLife`: a finished job, a
cancelled one above all, leaves its status only by one of the three writes made
to that job without the lock, of which `queue_approve` shows one.

**RunExecutionProofs.** `Vouched` rests on `VouchInv`: a candidate whose issues
do not block is vouched for, in the invocation from its review on (`Judged`), in
`run-state.json` (`SavedVouched`) and in its own manifest (`StoredVouched`);
wherever the code looks only at issues, it is right to. `PausedResumes`,
`CompletedMeansWritten` and `AcceptedKept` rest on `ResumeInv`: `SavedInv`, what
is recorded of a pause and of an accepted candidate (its hint is `write-files`
or none), and `StageInv`, what holds of the candidate at each stage; the lemma
`StrategyKinds` says what `resolveResumeStrategy` makes of every such record.

Its second part takes rules that `components` checks on samples and proves them
for every input: the phases of a task (`NodesCostThreeRounds`), the check of a diff
(`StricterStops`, `BoundaryIsHeld`), routing (`RolesServed`), approval
(`DangerWaits`, `MoreIsWeighedHigher`), reviews (`ChangesAreShown`,
`NothingTalkedAway`), profiles (`ProfilesTighten`), CI (`CiSober`), the
configuration (`SecretsAreKept`, `ToolsRunAsChosen`) and the checks of a change
(`ChecksCoverChange`, and `FailuresAreExcusedByMore`, which names each end of a command
that ran and failed, the one included in which its issue is lost: an output that quotes
"enoent" is called unavailable, tool-runner.ts:187). Their hypotheses say what an input is and no more: files,
packs, answers, texts and secrets are any values; modes, classes and severities
are those of the code; a check of CI has one of the six states that
`pollGhPrChecks` tells apart; and no secret is the mask itself, which
`restoreMaskedSecrets` could not tell from a secret that was not edited.
`SecretsAreKept` needs that a list which is masked, appended to, and filled in by
position is the old list with the new hook at its end (`AppendedComesBack`). `MoreIsWeighedHigher` compares
sums over sets of signals: a score is a sum of points times numbers of signals
(`ScoreIs`), and a larger set has no fewer of any severity (`ClassGrows`).
`ChecksCoverChange` says of each of the seven ways to a command where it looks
(`ResolvedCovers`, by `PackageIsWhole`, `WholeCovers`, `ScriptCovers` and
`AdapterFiles`).

**WorkItemsProofs.** `WorkSafety` holds for every length of the chain and any
number of sessions, jobs, operations and mishaps. Each file of an item is saved
alone, so what an item claims cannot be inductive as a whole: `IsTrue` splits it
into what each single file claims of the jobs (a node is completed because its
job completed; evidence is a completed job of that node; done means that all jobs
are settled as the status says), and `FilesMix` shows that files of two true
items make a true item. `TruthStays`: jobs only move forward. `EnqueuesInOrder`
carries what a session knew when it chose a node to the moment it queues the job.

`WorkUndisturbed` and `WorkProgress` exempt what overlapped or was cut short:
`UndisturbedInv` carries through each place of a session that it is alone
(`Alone`), that its copy is what the files say (`CopyIsExact`), and in which
order the jobs of a node were queued (`JobsInOrder`, `RetriesFollowFailures`).

**WorkerExecutionProofs.** `ExecutionSound` rests on `ExecInv`, of three parts.
What an attempt knows (`AttemptIsSound`): its plan is completed up to the phase
it is at and pending behind it, the pack it took is the one saved, the verdict it
reports is of what it changed. What the files tell (`FilesAreSound`): a plan on
disk is in order whoever wrote it last, and every phase that is marked has its
work in some worktree. And, while attempts do not overlap, that one attempt is
under way at most. Where a task is resumed is found by the phases' order: the
lemma `ResumeIndexIsRight` takes the least phase that is not completed, which
exists because the naturals are well founded (`LeastNumber`), for any number of
phases. `ExecutionResumes` follows from the same invariant.

**RecordProofs.** `LockSafety` rests on `LockInv`: `RowIsOwned` (a row whose
holder has not held it too long, and whose row no delete has removed, names that
holder, with the same age),
`FileIsOwned` (until a theft, a file that is held names its holder) and
`OwnSteps` (the file's steps belong to the file, the row's to the row).
`StoreIsMonotone` needs of a store only that no record is newer than what was
written, which snapshots are still to be written, and that an import comes before
anything is written; deletes fall anywhere. `RegistrySafety`
and `RegistryObeys` share `RegInv`: as long as requests did not overlap, the copy
that a request holds is the record (`LoopKnows`, `OneRequest`), and an order
stands until the worker is heard (`OrderStands`). `FilesSafety` says what the
writer of a run has behind it (`WriterIsSound`), what a manifest vouches for
(`WrittenIsSound`) and what a reader took (`ApplierIsSound`); that applies are
counted is an argument about cardinalities. `ServerSafety` turns on `Faithful`:
a list of events in order, each once, that has all which is young but what was
lost. A rewrite in place writes such a list over the lines appended since the file
was emptied, and what is there afterwards, cut or not, is one again, with what is
missing counted as lost (`RewriteIsFaithful`). A cleanup that reads the newest events only and finds an old one among them
leaves a faithful list, because all before it are older still
(`CleanupIsFaithful`); what the code's filter returns is `YoungSays`, by the least
prefix for which it would be wrong.

**RunPartProofs.** `CommandSafety` rests on `CommandInv`: attempts other than
the current one have no running command or a kill timer (`OthersAreOver`,
`BetweenAttempts`), and an exit code comes after the command (`ExitComesLast`).
`FailoverSafety` says that a role never takes more turns than it has providers,
for its turns have different names (`TurnsHaveNames`, `NamesAreFew`) and the one
it moves to is untried (`FallbackIsUntried`). That as many calls are counted as
were answered in time goes one answer at a time (`AnswersAreCounted`).
`IndexSafety` and `IndexCatchesUp` rest on `AllTell`: an entry that has the time of a file has its text, in the snapshot,
in the one a pass began with and in the one it makes. `MemorySafety` compares the
file with the order of the appends: its lines have the newest at the end
(`Aged`, `HasNewest`), and a trim of such a file leaves such a file
(`NewestOfAged`).

Four rules of the code are functions defined by recursion, over positions in a
text, spans of lines, the hits of a rate limiter and the items of a schedule. The
provers have no rule of induction for them, but its consequences follow from the
least number of a set: `RecursionExists` shows that a function with a given value at some
arguments, and at the others a value made from the one at a smaller argument,
exists, the arguments, values and steps being any sets and functions; and what
would fail somewhere fails at a least place. On it rest `ChunksCover` (the pace is
at least half a chunk, and the last start is the first that reaches the end),
`LinesAreFound` (the span that is searched always holds the line, `SearchExists`),
`ItemsTakeTurns` and `LimitKept`. For the last `WindowsSay` ties, hit by hit, the
counter that the limiter keeps of a key to the hits since its window was opened
(`WindowsGoOn`), and the sweep of expired windows is shown to take away none that counts.
`ItemsTakeTurns` first shows that the sort has each item once, cheaper ones first
(`OrderIsRight`: the number of items before one is its place, and no two share
one), and then follows the scheduler's walk item by item (`ChosenOfFirst`).

**ComponentProofs.** `SoloSafety` rests on `SoloInv`: no commit, stash or
patch takes what the user edited last for the state before it (`NeverBeneath`),
a job in the user's tree has not taken it into its own patch (`NeverTaken`), a job that was alone knows
what it began with (`AloneIsKnown`), and no value of a file comes twice
(`EditsAreCounted`). `SoloUndoes` follows. `RecordsTrue`, `KnowledgeTrue` and
`StepsSound` state for `ComponentsSpec`, in which every component runs beside the
others, what `components` checks: a step of one leaves the state of the others
alone, so that the theorems of the parts add up.

**Assumptions.** Beside types and finiteness: `SoloAssumption` says that the place of
a job's own worktree is not the root; `MemoryAssumption` and
`ServerFilesAssumption` that the values which stand for a torn line and for nobody
are no run and no request. Hypotheses on the behaviour are made in two places, each
about an overlap that the code permits and section 5 tells of: `LockedUploads` in the two
theorems about uploads that would take the lock, and `ApprovalsApart` in
`Approvable`. `LimitKept` takes hits in the
order of their times (`Timely`), which a clock that is not set back gives, and
`LinesAreFound` the starts of lines as `buildLineOffsets` makes them: from 0 on, each
after the one before.

**Only model-checked.** The five liveness properties, since the prover does not
reason about fairness, and the properties `WorkRules` and `CodeRules` as a whole,
which are about samples and reach a recursive operator (`ProviderAnswer`), behind
which the prover has no arithmetic. Of the 46 rules that they are made of 18 have a
theorem for every input; the others fold a sequence through an operator (the
selection of context, votes of a panel, words of a command line, scores of past runs,
statistics), walk a graph or a tree (batches, answers of a provider), or are about
so few inputs that the samples are all of them or nearly so (the verdict that is
filed, what a fix resumes, routes and tokens).

## 5. What was found

Runs that show a disagreement between the code and what is written about it:

- `queue_approve` / `CancelledForever`: `approveJob` (job-service.ts:188) writes
  the job it read over a cancel recorded in between.
- `run_resume` / `FailedIsResumable`: a run that fails in its loop is recorded
  without its candidate and with a hint that needs one, and its resume throws
  (orchestrator-run.ts:557).
- `lease_final` / `FinishedForever`: `appendWorkerLogs` (worker-service.ts:369)
  writes back, without the lock, a record it read before; a job that was cancelled
  or reported in between runs again, although job-queue.ts:13 lists statuses that a
  job never leaves. The same write can undo a fence, an acknowledged report and a
  lease; `OnlyLogsReopen` says that nothing else does.
- `worker_drain` / `DrainedTakesNothing`: a drained worker says idle with its next
  heartbeat, which is saved over the operator's word, and is given jobs again
  (worker-service.ts:114).

Disagreements of the same kind that earlier had a run of their own:

- `completeJob` (job-queue.ts:343) answers ok to a worker whose lease was replaced
  although the job is recorded as failed.
- A job that waited for an approval when the server ended stays
  `waiting_for_approval`, and cannot be approved (job-queue.ts:611).

Behaviours met while modelling that the models have and no run refutes:

- Two drain passes can exceed the configured concurrency by one run
  (job-queue.ts:652-664): `OverlapBound` is what holds.
- Two approvals of one job at the same time: the slower one deletes the request
  of the wait that follows (job-service.ts:186). Hence one approver in
  `WaitingIsApprovable`.
- A cancel that looks for the abort controller before the run has registered it
  (job-queue.ts:206) leaves the run un-aborted, with its job cancelled.
- A store call that fails in the startup cleanup, or after the claim of a run, is
  warned about only (job-queue.ts:584, 668): the record stays running without a run
  until the next start.
- A startup cleanup whose listing returns after the first launch, or after a
  cancel, fails a live run or undoes the cancel (job-queue.ts:610-614).
- A resume after the iteration limit starts beyond the limit and makes no
  iteration.
- A transition into a stage that cannot be recorded leaves the stage open, and
  every resume of that run throws (`saved.open`).
- If `run-state.json` cannot be written after the files were, the run counts as
  failed although it has written.
- `--stage memory` on a failed run without blocking issues records it as
  completed and writes nothing; `CompletedIsWritten` exempts it, as the user has
  named the stage.
- Reused directories: a resumed run that starts over stores its candidates in
  the directories of the first one. If it stops before it replaces the manifest,
  `ai apply` reads the old manifest beside the new files, and may write what no
  review has seen. `misled` marks this, and `WrittenIsVouched` exempts it.
- An abort is looked at before a run, at the head of the loop and at
  checkpoints: an aborted run may still write its candidate.
- Declining a plan records no state of the run; a `finalizeFailedRun` that is
  returned without being awaited throws past the catch clause of the run.
- A resume of a server job passes a job id where a path is expected
  (server-app.ts:181).

Work items:

- The handoff asks for files that the store does not keep, so it fails an item
  that is done. A dispatch runs items that are done again. Cancelling an item
  leaves its jobs alone, and the next read may take the item out of `cancelled`.
- The risk of an item is never set from its assessment, so no `ci_fix` node is
  ever planned; entries of the checklist carry evidence from the start, and those
  of the pull request, the profile and the full suite are never ticked.
  `validateChecklist` and `syncCiToWorkItem` have no caller. The repairs of checks
  count attempts even where none is needed (work-handler.ts:227).
- `work_item.*` audit events match every item (work-item-service.ts:602).

Workers and stores:

- A busy heartbeat puts a finished job back on the worker's record.
- A job that is resumed under another workspace root finds its phases completed
  and their changes missing; `git worktree add` fails where the path is gone and
  still registered (worker-worktree.ts:45-56).
- A strict boundary without a pack enforces nothing. `cleanupFinishedWorktree`
  removes the directory above the worktree; pruning by the time of a root can
  remove one that is in use.
- A delete takes no lock (job-queue.ts:282, 856): between the row and the snapshot
  of a write it leaves a snapshot that brings the job back, and in Postgres it
  removes the lock row of whoever holds the job (postgres-job-repository.ts:88).
- A delete that dies after the row brings the record back from its snapshot; the
  Postgres import at a start runs beside requests and without the lock
  (server-app.ts:209).

Solo jobs, commands and tools:

- The stash that is popped is the one on top, whoever pushed it; with a dirty
  tree allowed, an undo takes away what was there before.
- A helper that ignores SIGTERM outlives its command: the force kill asks for the
  command only (api.ts:246).

Files:

- The run's own writes of the index drop the count of applies, and an apply's
  write drops the approval policy and the summaries. A torn `run-state.json` makes
  "last" refuse although older runs exist; a torn index reads as none.
- The audit log and the registry are rewritten in place (audit-log.ts:91,
  repo-registry.ts:101): a death in between loses events that are to be kept, or
  leaves a registry that no request can load.
- The cleanup of the audit log reads the newest 10,000 events: a longer log whose
  newest are young never shrinks, and one torn line makes the list empty.
- An append between the read and the write of a trim, of the memory or of the
  audit log, is lost; a torn memory line hides the file, and it grows. A file
  saved twice within one tick at one size is taken for unchanged by the index,
  which does not compare `vector_search.parsers` either.

Providers and review:

- Of two calls that overlap, the second to be refused leaves the provider the
  first moved to; a late answer's usage is lost. Quota words are looked for in the
  whole message, quoted answers included. "quota exceeded" and "capacity" move on
  and are not retried; network errors are neither. Only the first balanced bracket
  of a text is tried.
- Lenses that disobey their own categories meet a quorum together
  (review-panel.ts:226). `review --base` passes over untracked files and the source
  of a rename; a staged review checks the working tree.
- The fixer of checks says ok when there are issues and no failing check. A pause
  after generation is for the class high only, so `blocked` pauses less; importers
  that no seed reaches are never found.

Server, settings, command line, reports:

- `canPerformAction` is never given a project, and actions without a named role
  are open. A malformed body of `POST /config` is answered by 500, contrary to the
  comment at read-json-body.ts:31. `SqliteAuditLog.setOnEvent` ignores webhooks.
- A provider's template is put together from all entries of its type
  (orchestrator-runtime.ts:431), so that a role's own model may be another's. Saving
  back what `GET /config` returned pins every role; masked secrets are put back by
  their place in a list; a `.env` line with blanks around `=` is not matched.
- The last command word wins anywhere in an unquoted task; `continue --json --job X`
  continues the last job; `work dispatch --json --write` does not write; `undo`,
  `apply` and `runs show` take a flag for their target.
- A run's status is normalized twice (job-service.ts:337): a paused run is listed
  as failed. `retry-limit-reached` is never classified; analytics read reasons
  anew, and budget failures become internal errors; a listing is cut before it is
  filtered, and runs are kept by the time of their directory.

## 6. Assumptions

- The queue and lease models take the job lock for exclusive and a record for
  written atomically. `JobLock` says how far the first is so: a section that takes
  longer than thirty seconds, or whose job is deleted meanwhile, is outside them. `JobStore` says what the second means
  for a row and its snapshot.
- Listings are not windowed: the code looks at the 100 or 200 newest records, and
  keeps 100 finished ones (job-queue.ts:858); `WorkItems` has the latter as
  `pruned`.
- Some hazards are covered in part, and `PROJECT.json` says of each which part is
  not: the cancel that comes before the controller, two approvals of one job, the
  startup cleanup's late listing, two passes over one index, the torn memory file,
  and the order in which routes are matched.
- Jobs are eligible for every worker in the instances; eligibility is a constant
  relation of the specification.
- `RunExecution` has one invocation at a time, and applies the latest iteration
  between invocations only; `RunFiles` has the overlap.
- Providers, tools, reviewers and git answer anything.
- In `SoloJobs` a patch applies when each of its files is what it left; hunks, the
  index and modes are left out.
- What a text means (a marked word in a task, a secret's name, a pattern that
  matches a path) is a field of a sample.

## 7. Not modelled

- The MCP server and the dashboard: they call what is modelled and format it.
- Lists of patterns (risky commands, ignored paths, secrets), prompts, symbol
  parsing, embeddings and their ranking by similarity: functions of text without a
  state, of which a model could only repeat the text.
- The two database audit logs and openmemory, whose operations are one call each.
- The handlers of the command line, beyond what they decide.
- Inside the modelled components: requirements and capabilities behind
  eligibility; the artifacts a run keeps beside its iterations; webhooks, which are sent
  once and whose failures change nothing.

## 8. What is left

- More rules as theorems for every input: the selection of context and the votes of
  a panel, which fold a sequence as the schedule does, and the `.env` file.
- Liveness of the worker backend with log uploads and of a worker that is drained.
- A composition of `WorkerExecution` with `JobLease`: the lease is a number in the
  one, the executor two actions in the other.
- Windows of listings smaller than the number of jobs.
