------------------------------ MODULE JobLease ------------------------------
(***************************************************************************)
(* The worker backend: job records, the leases under which external        *)
(* workers run them, and the workers' side of every call.                  *)
(*                                                                         *)
(* Every server operation on a record is one atomic step because it runs   *)
(* under the per-job lock, which is taken to be exclusive.  The one        *)
(* exception the code makes in this mode, the log upload, reads the record *)
(* and writes it back later without the lock, and is two steps here.       *)
(***************************************************************************)
EXTENDS JobRecord, FiniteSets

CONSTANTS
    Jobs,           \* jobs, numbered in order of creation
    Eligible,       \* <<w, j>>: w matches j's selector and workspace
    Chatty,         \* workers whose executor emits log lines to upload
    MaxLeases       \* bound: leases ever granted

ASSUME JobLeaseAssumption ==
    /\ Jobs \subseteq Nat \ {0}
    /\ Eligible \subseteq Workers \X Jobs
    /\ Chatty \subseteq Workers
    /\ MaxLeases \in Nat

VARIABLES
    job,            \* the stored record of each job
    nextLease,      \* the next fresh lease id
    poll,           \* the claim request each worker has at the server
    session,        \* the worker runtime: the job it works on, and how far
    upload,         \* the log upload each worker has at the server
    beat,           \* the heartbeat each worker has at the server
    dirty,          \* history: the lease that last changed a job's files
    acked,          \* history: the verdicts acknowledged to workers
    strayed         \* history: the jobs a log upload has put a stale record of back

vars == <<job, nextLease, poll, session, upload, beat, dirty, acked, strayed>>
calls == <<upload, beat>>
serverVars == <<poll, calls>>
history == <<dirty, acked, strayed>>

NoJob == 0

(* activeJob and the place in the loop of runWorkerRuntime.                *)
Phases == {"free", "claimed", "running", "uploading", "reporting"}

(* result.ok, or that something in the job's try block has thrown.         *)
Outcomes == {"ok", "failed", "thrown"}

Session ==
    {s \in [phase   : Phases,
            job     : Jobs \cup {NoJob},
            lease   : Nat,
            mutated : BOOLEAN,     \* the provider may have written to the worktree
            aborted : BOOLEAN,     \* controller.signal.aborted
            outcome : Outcomes] :
        s.phase # "free" => s.job \in Jobs}

Free ==
    [phase |-> "free", job |-> NoJob, lease |-> NoLease,
     mutated |-> FALSE, aborted |-> FALSE, outcome |-> "failed"]

Poll == [step : {"off", "sweep", "pick"}, todo : SUBSET Jobs]
PollOff == [step |-> "off", todo |-> {}]

Upload ==
    {u \in [on : BOOLEAN, job : Jobs \cup {NoJob}, record : QueueJob] :
        u.on => u.job \in Jobs}
UploadOff == [on |-> FALSE, job |-> NoJob, record |-> Absent]

Beat == [job : Jobs \cup {NoJob}, lease : Nat]
BeatOff == [job |-> NoJob, lease |-> NoLease]

TypeOK ==
    /\ job \in [Jobs -> QueueJob]
    /\ nextLease \in Nat \ {0}
    /\ poll \in [Workers -> Poll]
    /\ session \in [Workers -> Session]
    /\ upload \in [Workers -> Upload]
    /\ beat \in [Workers -> Beat]
    /\ dirty \in [Jobs -> Nat]
    /\ acked \in [Jobs -> SUBSET {"completed", "failed"}]
    /\ strayed \subseteq Jobs

Init ==
    /\ job = [j \in Jobs |-> Absent]
    /\ nextLease = 1
    /\ poll = [w \in Workers |-> PollOff]
    /\ session = [w \in Workers |-> Free]
    /\ upload = [w \in Workers |-> UploadOff]
    /\ beat = [w \in Workers |-> BeatOff]
    /\ dirty = [j \in Jobs |-> NoLease]
    /\ acked = [j \in Jobs |-> {}]
    /\ strayed = {}

-----------------------------------------------------------------------------
(* Jobs and operators.                                                     *)

Enqueue(j) ==
    /\ job[j].status = "absent"
    /\ \A k \in Jobs : k < j => job[k].status # "absent"
    /\ job' = [job EXCEPT ![j] = Enqueued]
    /\ UNCHANGED <<nextLease, serverVars, session, history>>

Cancel(j) ==
    /\ CanCancel(job[j])
    /\ job' = [job EXCEPT ![j] = Cancelled(@)]
    /\ UNCHANGED <<nextLease, serverVars, session, history>>

Recover(j) ==
    /\ CanRecover(job[j])
    /\ job' = [job EXCEPT ![j] = Recovered(@)]
    /\ dirty' = [dirty EXCEPT ![j] = NoLease]
    /\ UNCHANGED <<nextLease, serverVars, session, acked, strayed>>

-----------------------------------------------------------------------------
(* A claim request: the stale leases are swept, then the queued jobs are   *)
(* tried newest first.  Both loops run over a listing taken before they    *)
(* start, and each locked section looks at the record again.               *)

BeginClaim(w) ==
    /\ session[w].phase = "free" /\ poll[w].step = "off"
    /\ poll' = [poll EXCEPT ![w] =
                    [step |-> "sweep", todo |-> {j \in Jobs : IsStale(job[j])}]]
    /\ UNCHANGED <<job, nextLease, session, calls, history>>

SweepJob(w, j) ==
    /\ poll[w].step = "sweep" /\ j \in poll[w].todo
    /\ IsStale(job[j])
    /\ job' = [job EXCEPT ![j] = Swept(@)]
    /\ poll' = [poll EXCEPT ![w].todo = @ \ {j}]
    /\ UNCHANGED <<nextLease, session, calls, history>>

(* The lease is no longer stale, or the job stayed locked.                 *)
SkipSweep(w, j) ==
    /\ poll[w].step = "sweep" /\ j \in poll[w].todo
    /\ poll' = [poll EXCEPT ![w].todo = @ \ {j}]
    /\ UNCHANGED <<job, nextLease, session, calls, history>>

(* Mutant of Offered: the last attempt is never offered.                   *)
OfferedButLast(w, j) ==
    CanClaim(job[j]) /\ job[j].attempt + 1 < MaxAttempts /\ <<w, j>> \in Eligible

Offered(w, j) ==
    CanClaim(job[j]) /\ job[j].attempt < MaxAttempts /\ <<w, j>> \in Eligible

BeginPick(w) ==
    /\ poll[w].step = "sweep" /\ poll[w].todo = {}
    /\ poll' = [poll EXCEPT ![w] =
                    [step |-> "pick", todo |-> {j \in Jobs : Offered(w, j)}]]
    /\ UNCHANGED <<job, nextLease, session, calls, history>>

NewestIn(j, S) == j \in S /\ \A k \in S : k <= j

(* The answer reaches the worker, or it has given up waiting for it.       *)
ClaimJob(w, j) ==
    /\ poll[w].step = "pick" /\ NewestIn(j, poll[w].todo)
    /\ CanClaim(job[j])
    /\ nextLease <= MaxLeases
    /\ job' = [job EXCEPT ![j] = Claimed(@, w, nextLease)]
    /\ nextLease' = nextLease + 1
    /\ poll' = [poll EXCEPT ![w] = PollOff]
    /\ \/ session' = [session EXCEPT ![w] =
                          [Free EXCEPT !.phase = "claimed", !.job = j, !.lease = nextLease]]
       \/ UNCHANGED session
    /\ UNCHANGED <<calls, history>>

(* claimJob answered null: the job was taken, or it stayed locked.         *)
ClaimMissed(w, j) ==
    /\ poll[w].step = "pick" /\ NewestIn(j, poll[w].todo)
    /\ poll' = [poll EXCEPT ![w].todo = @ \ {j}]
    /\ UNCHANGED <<job, nextLease, session, calls, history>>

(* Nothing claimed: no candidate is left, or the registry does not have    *)
(* the worker as idle or online.                                           *)
EndClaim(w) ==
    /\ poll[w].step # "off" /\ poll[w].todo = {}
    /\ poll' = [poll EXCEPT ![w] = PollOff]
    /\ UNCHANGED <<job, nextLease, session, calls, history>>

-----------------------------------------------------------------------------
(* The worker's calls for the job it holds.                                *)

Record(w) == job[session[w].job]
SetRecord(w, r) == job' = [job EXCEPT ![session[w].job] = r]

(* A refusal, a lock that is busy or a lost answer throws out of the       *)
(* runtime's loop: the worker process ends.                                *)
Start(w) ==
    /\ session[w].phase = "claimed"
    /\ \/ /\ CanStart(Record(w), w, session[w].lease)
          /\ SetRecord(w, Started(Record(w)))
          /\ \/ session' = [session EXCEPT ![w].phase = "running"]
             \/ session' = [session EXCEPT ![w] = Free]
       \/ /\ session' = [session EXCEPT ![w] = Free]
          /\ UNCHANGED job
    /\ UNCHANGED <<nextLease, serverVars, history>>

Active(w) == session[w].phase \in {"running", "uploading", "reporting"}

(* The busy heartbeat, first half: startJob.  A refusal ends it.           *)
BeginBeat(w) ==
    /\ Active(w) /\ beat[w] = BeatOff
    /\ CanStart(Record(w), w, session[w].lease)
    /\ SetRecord(w, Started(Record(w)))
    /\ beat' = [beat EXCEPT ![w] = [job |-> session[w].job, lease |-> session[w].lease]]
    /\ UNCHANGED <<nextLease, poll, upload, session, history>>

(* Second half: renewLease, which looks at the record again.               *)
Renew(w) ==
    /\ beat[w].job \in Jobs
    /\ \/ /\ CanRenew(job[beat[w].job], beat[w].lease)
          /\ job' = [job EXCEPT ![beat[w].job] = Renewed(@)]
       \/ UNCHANGED job
    /\ beat' = [beat EXCEPT ![w] = BeatOff]
    /\ UNCHANGED <<nextLease, poll, upload, session, history>>

(* A heartbeat answered 409: the lease is refused, or the job stayed       *)
(* locked through every retry.  The provider is told to stop.              *)
Abort(w) ==
    /\ Active(w) /\ ~session[w].aborted
    /\ session' = [session EXCEPT ![w].aborted = TRUE]
    /\ UNCHANGED <<job, nextLease, serverVars, history>>

(* What the runtime does once the executor has returned, or once anything  *)
(* in the try block has thrown: the logs first, then the report.           *)
AfterRun(w, outcome) ==
    session' = [session EXCEPT
        ![w].outcome = outcome,
        ![w].phase = IF w \in Chatty THEN "uploading" ELSE "reporting"]

(* markFilesystemMutation: only an acknowledged checkpoint lets the        *)
(* provider run in the worktree; anything else makes the executor throw.   *)
Checkpoint(w) ==
    /\ session[w].phase = "running" /\ ~session[w].mutated
    /\ CanCheckpoint(Record(w), session[w].lease)
    /\ SetRecord(w, Checkpointed(Record(w)))
    /\ \/ /\ session' = [session EXCEPT ![w].mutated = TRUE]
          /\ dirty' = [dirty EXCEPT ![session[w].job] = session[w].lease]
       \/ /\ AfterRun(w, "thrown")
          /\ UNCHANGED dirty
    /\ UNCHANGED <<nextLease, serverVars, acked, strayed>>

(* The executor ends, also by a checkpoint that is refused.                *)
Finish(w, outcome) ==
    /\ session[w].phase = "running"
    /\ AfterRun(w, outcome)
    /\ UNCHANGED <<job, nextLease, serverVars, history>>

AfterUpload(w) == session' = [session EXCEPT ![w].phase = "reporting"]

(* appendWorkerLogs, first half: the record it will write back.            *)
ReadForLogs(w) ==
    /\ session[w].phase = "uploading" /\ ~upload[w].on
    /\ Holds(Record(w), session[w].lease) /\ Record(w).holder = w
    /\ upload' = [upload EXCEPT ![w] =
                      [on |-> TRUE, job |-> session[w].job, record |-> Record(w)]]
    /\ UNCHANGED <<job, nextLease, poll, beat, session, history>>

(* Second half: updateJob writes the whole record it read, with the new    *)
(* lines; the worker still waits for it, or has given up and moved on.     *)
WriteLogs(w) ==
    /\ upload[w].on
    /\ job' = [job EXCEPT ![upload[w].job] = upload[w].record]
    /\ upload' = [upload EXCEPT ![w] = UploadOff]
    /\ strayed' = IF SameState(upload[w].record, job[upload[w].job]) THEN strayed
                  ELSE strayed \cup {upload[w].job}
    /\ IF session[w].phase = "uploading" THEN AfterUpload(w) ELSE UNCHANGED session
    /\ UNCHANGED <<nextLease, poll, beat, dirty, acked>>

(* The upload is refused, or its answer does not come in time.             *)
UploadFailed(w) ==
    /\ session[w].phase = "uploading"
    /\ AfterUpload(w)
    /\ UNCHANGED <<job, nextLease, serverVars, history>>

Acknowledge(j, verdict) == acked' = [acked EXCEPT ![j] = @ \cup {verdict}]

(* The server's half of a complete or fail call.                           *)
ServeReport(w, verdict) ==
    IF CanReport(Record(w), session[w].lease)
    THEN SetRecord(w, Reported(Record(w), verdict))
    ELSE UNCHANGED job

Answered(w, verdict) ==
    \/ CanReport(Record(w), session[w].lease)
    \/ AlreadyReported(Record(w), session[w].lease, verdict)

(* client.complete.  A refusal or a lost answer throws.                    *)
Complete(w) ==
    /\ session[w].phase = "reporting" /\ session[w].outcome = "ok"
    /\ ~session[w].aborted
    /\ \/ /\ ServeReport(w, "completed")
          /\ \/ /\ Answered(w, "completed")
                /\ Acknowledge(session[w].job, "completed")
                /\ session' = [session EXCEPT ![w] = Free]
             \/ /\ AfterRun(w, "thrown")
                /\ UNCHANGED acked
       \/ /\ AfterRun(w, "thrown")
          /\ UNCHANGED <<job, acked>>
    /\ UNCHANGED <<nextLease, serverVars, dirty, strayed>>

(* client.fail.  A refusal or a lost answer throws too, once: the fail     *)
(* call of the catch block is the last one, whatever comes of it.          *)
Fail(w) ==
    /\ session[w].phase = "reporting" /\ session[w].outcome # "ok"
    /\ ~session[w].aborted
    /\ \/ /\ ServeReport(w, "failed")
          /\ Answered(w, "failed")
          /\ Acknowledge(session[w].job, "failed")
          /\ session' = [session EXCEPT ![w] = Free]
       \/ /\ ServeReport(w, "failed") \/ UNCHANGED job
          /\ IF session[w].outcome = "failed"
             THEN AfterRun(w, "thrown")
             ELSE session' = [session EXCEPT ![w] = Free]
          /\ UNCHANGED acked
    /\ UNCHANGED <<nextLease, serverVars, dirty, strayed>>

(* An aborted run is not reported.                                         *)
Abandon(w) ==
    /\ session[w].phase = "reporting" /\ session[w].aborted
    /\ session' = [session EXCEPT ![w] = Free]
    /\ UNCHANGED <<job, nextLease, serverVars, history>>

-----------------------------------------------------------------------------
(* The environment.                                                        *)

WorkerCrash(w) ==
    /\ session[w].phase # "free"
    /\ session' = [session EXCEPT ![w] = Free]
    /\ UNCHANGED <<job, nextLease, serverVars, history>>

(* The server dies with the requests it was serving, and starts again:     *)
(* cleanupHungJobs fails the runs that died with it.                       *)
ServerRestart ==
    /\ poll' = [w \in Workers |-> PollOff]
    /\ upload' = [w \in Workers |-> UploadOff]
    /\ beat' = [w \in Workers |-> BeatOff]
    /\ job' = [j \in Jobs |-> IF IsHung(job[j]) THEN Interrupted(job[j]) ELSE job[j]]
    /\ UNCHANGED <<nextLease, session, history>>

Tick ==
    /\ job' = [j \in Jobs |-> Aged(job[j])]
    /\ upload' = [w \in Workers |-> [upload[w] EXCEPT !.record = Aged(@)]]
    /\ UNCHANGED <<nextLease, poll, beat, session, history>>

-----------------------------------------------------------------------------
WorkerStep(w) ==
    \/ BeginClaim(w) \/ BeginPick(w) \/ EndClaim(w)
    \/ \E j \in Jobs : SweepJob(w, j) \/ SkipSweep(w, j)
                       \/ ClaimJob(w, j) \/ ClaimMissed(w, j)
    \/ Start(w) \/ BeginBeat(w) \/ Renew(w) \/ Abort(w) \/ Checkpoint(w)
    \/ \E outcome \in Outcomes : Finish(w, outcome)
    \/ ReadForLogs(w) \/ WriteLogs(w) \/ UploadFailed(w)
    \/ Complete(w) \/ Fail(w) \/ Abandon(w)
    \/ WorkerCrash(w)

OperatorStep(j) == Enqueue(j) \/ Cancel(j) \/ Recover(j)

Next ==
    \/ \E w \in Workers : WorkerStep(w)
    \/ \E j \in Jobs : OperatorStep(j)
    \/ ServerRestart
    \/ Tick

Spec == Init /\ [][Next]_vars

(* What the scheduling of the code gives: time passes; a worker (restarted *)
(* if it crashed) keeps polling, its claim handler runs to the end, its    *)
(* executor is bounded by the provider's timeouts, and its calls return.   *)
(* A busy lock may defeat a sweep or a claim, but not for ever: it is held *)
(* only for a moment, hence strong fairness on the two locked sections.    *)
Fairness ==
    /\ WF_vars(Tick)
    /\ \A w \in Workers :
        /\ WF_vars(BeginClaim(w))
        /\ WF_vars(\E j \in Jobs : SweepJob(w, j) \/ SkipSweep(w, j)
                                   \/ ClaimJob(w, j) \/ ClaimMissed(w, j))
        /\ SF_vars(BeginPick(w))
        /\ WF_vars(EndClaim(w))
        /\ SF_vars(\E j \in Jobs : SweepJob(w, j))
        /\ SF_vars(\E j \in Jobs : ClaimJob(w, j))
        /\ WF_vars(Start(w))
        /\ WF_vars(\E outcome \in Outcomes : Finish(w, outcome))
        /\ WF_vars(WriteLogs(w)) /\ WF_vars(UploadFailed(w))
        /\ WF_vars(Complete(w)) /\ WF_vars(Fail(w)) /\ WF_vars(Abandon(w))

FairSpec == Spec /\ Fairness

-----------------------------------------------------------------------------
(* A lease belongs to a record exactly while a worker may be at it: a      *)
(* queued job carries no lease and no mutation mark of an earlier attempt, *)
(* a claimed one carries its lease, and only a job whose files may have    *)
(* changed is parked for an operator (detectStaleLeases, claimJob).        *)
LeaseShape ==
    \A j \in Jobs :
        /\ job[j].status \in {"absent", "queued"} =>
               ~HasLease(job[j]) /\ job[j].holder = NoWorker /\ ~job[j].mutated
        /\ job[j].status \in {"assigned", "running", "stalled"} =>
               HasLease(job[j]) /\ job[j].holder \in Workers
        /\ job[j].status = "stalled" => job[j].mutated

(* Once a worker has been allowed to change files for a job, the job stays *)
(* with that worker's lease, marked, until it finishes or an operator      *)
(* recovers it: no sweep, crash, lost answer or late call hands it to      *)
(* another worker (saveCheckpoint, detectStaleLeases, claimJob), unless a  *)
(* log upload has put an older record of the job back.                     *)
MutatedWorkIsFenced ==
    \A j \in Jobs \ strayed : dirty[j] # NoLease =>
        /\ job[j].lease = dirty[j]
        /\ job[j].mutated
        /\ job[j].status \in {"assigned", "running", "stalled"} \cup FINISHED_STATUSES

(* job-queue.ts says of FINISHED_STATUSES "statuses a job never leaves".   *)
FinishedForever ==
    [][\A j \in Jobs : Finished(job[j]) => job'[j].status = job[j].status]_vars

(* The log upload is the only write that can take a job out of a finished  *)
(* status: every other path of the worker backend looks at the record      *)
(* under its lock before it writes.                                        *)
OnlyLogsReopen ==
    [][\/ \A j \in Jobs : Finished(job[j]) => job'[j].status = job[j].status
       \/ \E w \in Workers : WriteLogs(w)]_vars

(* Every step moves the jobs' statuses along the life JobLifecycle allows: *)
(* a job leaves it only where a log upload puts an older record of it back *)
(* (appendWorkerLogs).                                                     *)
Lifecycle ==
    INSTANCE JobLifecycle WITH
        status <- [j \in Jobs |-> IF j \in strayed THEN "astray" ELSE job[j].status]
ImplementsLifecycle == Lifecycle!Spec

(* A worker told ok by complete or fail has a finished job behind it: the  *)
(* answer is never given for a job that may run again, unless a log upload *)
(* has put an older record of the job back.                                *)
AckedIsFinished ==
    \A j \in Jobs \ strayed : acked[j] # {} => job[j].status \in {"completed", "failed"}

(* A claimed job does not stay claimed for ever: it finishes, or its lease *)
(* runs out and the sweep of a later claim requeues or parks it, whatever  *)
(* crashes or answers are lost (the point of the lease in claimJob).       *)
ClaimedIsSettled ==
    \A j \in Jobs :
        job[j].status \in {"assigned", "running"}
            ~> job[j].status \notin {"assigned", "running"}

(* A queued job with attempts left is claimed or cancelled in the end,     *)
(* although claims of it keep being lost to a busy lock.                   *)
QueuedIsClaimed ==
    \A j \in Jobs :
        job[j].status = "queued" /\ job[j].attempt < MaxAttempts
            ~> job[j].status # "queued"

=============================================================================
