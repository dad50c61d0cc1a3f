------------------------------ MODULE JobRecord ------------------------------
(***************************************************************************)
(* One job record of the queue and the guarded writes                      *)
(* FileBackedJobQueue makes to it: for each locked section, the condition  *)
(* under which it writes (Can...) and the record it writes (a past         *)
(* participle).  A lease's expiry is kept as the time it has LEFT: "expiresAt *)
(* < now" is left < 0 and "expiresAt <= now" is left <= 0, so no absolute  *)
(* clock is needed and -1 stands for every instant past the expiry.        *)
(***************************************************************************)
EXTENDS Integers

CONSTANTS
    Workers,        \* the registered workers
    NoWorker,       \* holder of a record without a lease
    LeaseTtl,       \* the five minutes a claim or a renewal grants, in ticks
    MaxAttempts     \* claims offer a job while it has fewer attempts than this

ASSUME JobRecordAssumption ==
    /\ NoWorker \notin Workers
    /\ LeaseTtl \in Nat \ {0}
    /\ MaxAttempts \in Nat \ {0}

NoLease == 0

(* "absent" is a job the store has no record of; the rest are QueueJobStatus. *)
QueueJobStatus ==
    {"absent", "queued", "assigned", "running", "waiting_for_approval",
     "completed", "failed", "cancel_requested", "cancelled", "stalled"}

FINISHED_STATUSES == {"completed", "failed", "cancelled"}

QueueJob ==
    [status  : QueueJobStatus,
     lease   : Nat,
     holder  : Workers \cup {NoWorker},
     left    : -1 .. LeaseTtl,
     attempt : Nat,
     mutated : BOOLEAN]

Absent ==
    [status |-> "absent", lease |-> NoLease, holder |-> NoWorker,
     left |-> -1, attempt |-> 0, mutated |-> FALSE]

Enqueued == [Absent EXCEPT !.status = "queued"]

Finished(r) == r.status \in FINISHED_STATUSES
HasLease(r) == r.lease # NoLease
SameState(r, s) == r.status = s.status /\ r.lease = s.lease /\ r.mutated = s.mutated
Holds(r, l) == HasLease(r) /\ r.lease = l
Unexpired(r) == r.left >= 0

(* Time passes for a record. *)
Aged(r) == [r EXCEPT !.left = IF @ = -1 THEN -1 ELSE @ - 1]

-----------------------------------------------------------------------------
(* claimJob: the locked re-check, then the lease of worker w.              *)
CanClaim(r) == r.status = "queued" /\ (HasLease(r) => r.left <= 0)

Claimed(r, w, l) ==
    [status |-> "assigned", lease |-> l, holder |-> w, left |-> LeaseTtl,
     attempt |-> r.attempt + 1, mutated |-> r.mutated]

(* Mutant of CanStart: the status is not looked at.                        *)
CanStartAnyStatus(r, w, l) == Holds(r, l) /\ r.holder = w /\ Unexpired(r)

(* startJob, idempotent while the job runs.                                *)
CanStart(r, w, l) ==
    /\ Holds(r, l) /\ r.holder = w
    /\ Unexpired(r)
    /\ r.status \in {"assigned", "running"}

Started(r) == [r EXCEPT !.status = "running"]

(* Mutant of Renewed: the five minutes are added to what is left.          *)
RenewedOnTop(r) == [r EXCEPT !.left = @ + LeaseTtl]

(* renewLease.                                                             *)
CanRenew(r, l) == Holds(r, l) /\ Unexpired(r) /\ ~Finished(r)

Renewed(r) == [r EXCEPT !.left = LeaseTtl]

(* saveCheckpoint, which does not look at the expiry.                      *)
CanCheckpoint(r, l) == Holds(r, l) /\ ~Finished(r)

Checkpointed(r) == [r EXCEPT !.mutated = TRUE]

(* Mutants of CanReport and AlreadyReported: a report overwrites another,  *)
(* and one under a lost lease is answered ok.                              *)
CanReportTwice(r, l) == Holds(r, l) /\ Unexpired(r)
AlreadyReportedAnyway(r, l, verdict) ==
    HasLease(r) /\ (r.lease # l \/ r.status = verdict)

(* completeJob and failJob: a report that is written, and a report that is  *)
(* answered ok because the job had already finished.                       *)
CanReport(r, l) == Holds(r, l) /\ ~Finished(r) /\ Unexpired(r)

Reported(r, verdict) == [r EXCEPT !.status = verdict]

AlreadyReported(r, l, verdict) ==
    /\ HasLease(r)
    /\ \/ r.lease # l /\ r.status \in {"completed", "failed"}
       \/ r.lease = l /\ r.status = verdict

-----------------------------------------------------------------------------
(* Mutants of IsStale and Requeued: a claim that was never started is not  *)
(* swept, and the mark of an earlier attempt stays on a requeued job.      *)
IsStaleRun(r) == HasLease(r) /\ r.left <= 0 /\ r.status = "running"

RequeuedMarked(r) ==
    [status |-> "queued", lease |-> NoLease, holder |-> NoWorker, left |-> -1,
     attempt |-> r.attempt, mutated |-> r.mutated]

(* detectStaleLeases, for one record.                                      *)
IsStale(r) ==
    /\ HasLease(r) /\ r.left <= 0
    /\ r.status \in {"assigned", "running", "waiting_for_approval"}

Requeued(r) ==
    [status |-> "queued", lease |-> NoLease, holder |-> NoWorker, left |-> -1,
     attempt |-> r.attempt, mutated |-> FALSE]

(* Mutant of Swept: a job whose files may have changed is requeued.        *)
SweptMutated(r) == Requeued(r)

Swept(r) == IF r.mutated THEN [r EXCEPT !.status = "stalled"] ELSE Requeued(r)

(* recoverStalledJob.                                                      *)
CanRecover(r) == r.status = "stalled"

Recovered(r) == [Requeued(r) EXCEPT !.attempt = @ + 1]

(* cancel.                                                                 *)
CanCancel(r) == r.status # "absent" /\ ~Finished(r)

Cancelled(r) == [r EXCEPT !.status = "cancelled"]

(* cleanupHungJobs, when the server starts.                                *)
IsHung(r) == ~HasLease(r) /\ r.status \in {"running", "cancel_requested"}

Interrupted(r) == [r EXCEPT !.status = "failed"]

=============================================================================
