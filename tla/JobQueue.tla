------------------------------ MODULE JobQueue ------------------------------
(***************************************************************************)
(* The in-process execution backend of FileBackedJobQueue: drain passes    *)
(* that list the store and launch runs, the run of a job from its claim to *)
(* its final write, approval waits, cancels, synchronous runs, pause,      *)
(* shutdown and restart of the server process.                             *)
(*                                                                         *)
(* JavaScript runs one continuation at a time, so an action is one stretch *)
(* of code between two awaits, or one section under the job lock.  Writes  *)
(* made WITHOUT the lock (approveJob, cleanupHungJobs, the last resort of  *)
(* finishRun) are split into the read and the write.  A crash loses every  *)
(* variable but status.                                                    *)
(***************************************************************************)
EXTENDS Integers, FiniteSets

CONSTANTS
    Jobs,           \* job numbers, in the order the jobs are created
    Syncs,          \* POST /run requests
    Workspaces,
    Workspace,      \* the cwd of each job and each synchronous run
    Passes,         \* drain passes that may be under way at once
    NoPass,
    Approvers,      \* POST /jobs/:id/approve or reject requests under way
    Cancellers,     \* POST /jobs/:id/cancel requests under way
    Concurrency,    \* options.concurrency
    MaxAsks,        \* bound: approvals one run asks for
    MaxFaults,      \* bound: store calls that fail and locks that stay busy
    MaxPauses,      \* bound: times the operator pauses the queue
    MaxRestarts     \* bound: times the server process ends and starts again

ASSUME JobQueueAssumption ==
    /\ Jobs \subseteq Nat /\ IsFiniteSet(Jobs) /\ IsFiniteSet(Passes)
    /\ Jobs \cap Syncs = {}
    /\ Workspace \in [Jobs \cup Syncs -> Workspaces]
    /\ NoPass \notin Passes
    /\ Concurrency \in Nat \ {0}
    /\ MaxAsks \in Nat /\ MaxFaults \in Nat
    /\ MaxPauses \in Nat /\ MaxRestarts \in Nat

VARIABLES
    status,             \* the stored status of each job
    server,             \* the process: "down", "up", the steps of stop(), "closed"
    paused,             \* isPaused
    timer,              \* a drainTimer is set
    pass,               \* each drain pass: where it is and the queued jobs it listed
    latest,             \* drainPromise: the pass that fired last
    awaited,            \* the pass stop() waits for
    settlers,           \* the runs stop() waits for after it
    activeJobs,         \* runs of jobs, as the drain counts them
    activeWorkspaces,
    run,                \* how far the run of each job is
    verdict,            \* the status a finished run is about to record
    controllers,        \* jobs cancel() finds an AbortController for
    aborted,            \* runs whose signal is aborted
    syncs,              \* synchronous runs under way
    asked,              \* approvals the run of each job has asked for
    pending,            \* pendingApprovals: the ask kept for each job, 0 for none
    marks,              \* markWaitingForApproval calls not yet done
    approver,           \* each approveJob call
    canceller,          \* each cancel call
    cleanup,            \* cleanupHungJobs: where it is and the jobs it listed
    orphans,            \* history: jobs whose record was left running since the start,
                        \* by a store call that failed or an approval that wrote
    faults, pauses, restarts

drainVars  == <<timer, pass, latest>>
poolVars   == <<activeJobs, activeWorkspaces>>
runVars    == <<run, verdict, controllers, aborted>>
askVars    == <<asked, pending, marks>>
clientVars == <<approver, canceller>>
serverVars == <<server, awaited, settlers, cleanup>>
boundVars  == <<orphans, faults, pauses, restarts>>
vars == <<status, paused, syncs, drainVars, poolVars, runVars, askVars,
          clientVars, serverVars, boundVars>>

Finished == {"completed", "failed", "cancelled"}
JobStatus == {"absent", "queued", "running", "waiting_for_approval"} \cup Finished

NoListing == [pc |-> "off", seen |-> {}]
NoCleanup == [pc |-> "off", hung |-> {}]
NoApproval == [pc |-> "idle", job |-> 0, ask |-> 0, seen |-> "absent"]
NoCancel == [pc |-> "idle", job |-> 0]

Live(j) == run[j] # "off"
Active == {j \in Jobs : Live(j)} \cup syncs
Alive == server # "down"
Serving == server \in {"up", "draining", "settling"}
isStopped == server # "up"

TypeOK ==
    /\ status \in [Jobs -> JobStatus]
    /\ server \in {"down", "up", "draining", "settling", "closed"}
    /\ paused \in BOOLEAN /\ timer \in BOOLEAN
    /\ pass \in [Passes -> [pc : {"off", "listing", "listed"}, seen : SUBSET Jobs]]
    /\ latest \in Passes \cup {NoPass} /\ awaited \in Passes \cup {NoPass}
    /\ settlers \subseteq Jobs \cup Syncs
    /\ activeJobs \in Nat /\ activeWorkspaces \subseteq Workspaces
    /\ run \in [Jobs -> {"off", "claiming", "running", "waiting", "finishing",
                         "forcing", "settling"}]
    /\ verdict \in [Jobs -> Finished]
    /\ controllers \subseteq Jobs /\ aborted \subseteq Jobs /\ syncs \subseteq Syncs
    /\ asked \in [Jobs -> Nat] /\ pending \in [Jobs -> Nat] /\ marks \in [Jobs -> Nat]
    /\ approver \in [Approvers ->
           [pc : {"idle", "reading", "deciding", "writing"}, job : Jobs \cup {0},
            ask : Nat, seen : JobStatus]]
    /\ canceller \in [Cancellers -> [pc : {"idle", "recording"}, job : Jobs \cup {0}]]
    /\ cleanup \in [pc : {"off", "listing", "writing"}, hung : SUBSET Jobs]
    /\ orphans \subseteq Jobs
    /\ faults \in Nat /\ pauses \in Nat /\ restarts \in Nat

Init ==
    /\ status = [j \in Jobs |-> "absent"]
    /\ server = "down" /\ paused = FALSE /\ timer = FALSE
    /\ pass = [p \in Passes |-> NoListing]
    /\ latest = NoPass /\ awaited = NoPass /\ settlers = {}
    /\ activeJobs = 0 /\ activeWorkspaces = {}
    /\ run = [j \in Jobs |-> "off"]
    /\ verdict = [j \in Jobs |-> "failed"]
    /\ controllers = {} /\ aborted = {} /\ syncs = {}
    /\ asked = [j \in Jobs |-> 0]
    /\ pending = [j \in Jobs |-> 0]
    /\ marks = [j \in Jobs |-> 0]
    /\ approver = [a \in Approvers |-> NoApproval]
    /\ canceller = [c \in Cancellers |-> NoCancel]
    /\ cleanup = NoCleanup
    /\ orphans = {} /\ faults = 0 /\ pauses = 0 /\ restarts = 0

SetStatus(j, s) == status' = [status EXCEPT ![j] = s]

(* scheduleDrain: does nothing once stopped or while a timer is set.       *)
scheduleDrain == timer' = (timer \/ ~isStopped)

(* A store call fails, or a lock stays busy through every retry: it may    *)
(* leave records running that no run will finish.                          *)
Leaves(js) == orphans' = orphans \cup js
Fails(js) ==
    /\ faults < MaxFaults /\ faults' = faults + 1
    /\ Leaves(js)
    /\ UNCHANGED <<pauses, restarts>>
Fault == Fails({})

Runs(j) == run[j] \in {"running", "waiting", "finishing", "forcing"}

-----------------------------------------------------------------------------
(* The queue's operations.                                                 *)

enqueue(j) ==
    /\ Serving /\ status[j] = "absent"
    /\ \A k \in Jobs : k < j => status[k] # "absent"
    /\ SetStatus(j, "queued")
    /\ scheduleDrain
    /\ UNCHANGED <<paused, syncs, pass, latest, poolVars, runVars, askVars,
                   clientVars, serverVars, boundVars>>

pause ==
    /\ Serving /\ ~paused /\ pauses < MaxPauses
    /\ paused' = TRUE /\ pauses' = pauses + 1
    /\ UNCHANGED <<status, syncs, drainVars, poolVars, runVars, askVars, clientVars,
                   serverVars, orphans, faults, restarts>>

resume ==
    /\ Serving
    /\ paused' = FALSE
    /\ scheduleDrain
    /\ UNCHANGED <<status, syncs, pass, latest, poolVars, runVars, askVars, clientVars,
                   serverVars, boundVars>>

-----------------------------------------------------------------------------
(* The drain.  The timer fires a pass, which becomes drainPromise even if  *)
(* it returns at once and an earlier pass is still listing.                *)

(* Mutant of MayLoop: one run too many.                                    *)
MayLoopOneMore(n) == n <= Concurrency

MayLoop(n) == n < Concurrency

FireTimer(p) ==
    /\ Alive /\ timer /\ pass[p].pc = "off"
    /\ timer' = FALSE
    /\ IF paused \/ isStopped \/ ~MayLoop(activeJobs)
       THEN latest' = NoPass /\ UNCHANGED pass
       ELSE /\ latest' = p
            /\ pass' = [pass EXCEPT ![p] = [pc |-> "listing", seen |-> {}]]
    /\ UNCHANGED <<status, paused, syncs, poolVars, runVars, askVars, clientVars,
                   serverVars, boundVars>>

Settled(p) ==
    /\ pass' = [pass EXCEPT ![p] = NoListing]
    /\ latest' = IF latest = p THEN NoPass ELSE latest

(* The listing reads the store.                                            *)
List(p) ==
    /\ Alive /\ pass[p].pc = "listing"
    /\ pass' = [pass EXCEPT ![p] =
           [pc |-> "listed", seen |-> {j \in Jobs : status[j] = "queued"}]]
    /\ UNCHANGED <<status, paused, syncs, timer, latest, poolVars, runVars, askVars,
                   clientVars, serverVars, boundVars>>

ListFails(p) ==
    /\ Alive /\ pass[p].pc = "listing"
    /\ Fault
    /\ Settled(p)
    /\ scheduleDrain
    /\ UNCHANGED <<status, paused, syncs, poolVars, runVars, askVars, clientVars,
                   serverVars>>

(* Mutant of Launchable: the workspace is not looked at.                   *)
LaunchableAnywhere(p) == {j \in pass[p].seen : ~Live(j)}

(* The jobs a pass may launch: listed as queued, in a workspace that is    *)
(* free NOW.                                                               *)
Launchable(p) == {j \in pass[p].seen : Workspace[j] \notin activeWorkspaces}

(* Mutant of Halted: stop() is not looked for after the listing.           *)
HaltedByPause == paused

Halted == paused \/ isStopped

StopLooping(p) ==
    /\ Alive /\ pass[p].pc = "listed"
    /\ Halted \/ Launchable(p) = {}
    /\ Settled(p)
    /\ UNCHANGED <<status, paused, syncs, timer, poolVars, runVars, askVars, clientVars,
                   serverVars, boundVars>>

(* Launch the oldest such job.  Its controller is registered at once; the  *)
(* pass goes on to another listing while there is room.                    *)
Launch(p, j) ==
    /\ Alive /\ pass[p].pc = "listed" /\ ~Halted
    /\ j \in Launchable(p) /\ \A k \in Launchable(p) : j <= k
    /\ activeJobs' = activeJobs + 1
    /\ activeWorkspaces' = activeWorkspaces \cup {Workspace[j]}
    /\ run' = [run EXCEPT ![j] = "claiming"]
    /\ controllers' = controllers \cup {j}
    /\ aborted' = aborted \ {j}
    /\ IF MayLoop(activeJobs + 1)
       THEN /\ pass' = [pass EXCEPT ![p] = [pc |-> "listing", seen |-> {}]]
            /\ UNCHANGED latest
       ELSE Settled(p)
    /\ UNCHANGED <<status, paused, syncs, timer, verdict, askVars, clientVars,
                   serverVars, boundVars>>

-----------------------------------------------------------------------------
(* runJob.                                                                 *)

To(j, pc) == run' = [run EXCEPT ![j] = pc]

(* Mutant of StillQueued: the status is not read again under the lock.     *)
StillQueuedOrNot(j) == TRUE

StillQueued(j) == status[j] = "queued"

Claim(j) ==
    /\ Alive /\ run[j] = "claiming" /\ StillQueued(j)
    /\ SetStatus(j, "running")
    /\ To(j, "running")
    /\ UNCHANGED <<paused, syncs, drainVars, poolVars, verdict, controllers, aborted,
                   askVars, clientVars, serverVars, boundVars>>

(* Mutant of ClaimRefused: the slot is given back here, and by Settle.     *)
ClaimRefusedFreeing(j) ==
    /\ Alive /\ run[j] = "claiming" /\ ~StillQueued(j)
    /\ To(j, "settling")
    /\ activeJobs' = activeJobs - 1
    /\ controllers' = controllers \ {j}
    /\ UNCHANGED <<status, paused, syncs, drainVars, activeWorkspaces, verdict, aborted,
                   askVars, clientVars, serverVars, boundVars>>

(* The job is no longer queued, its lock stays busy or the store fails,    *)
(* with or without the claim written: nothing runs, and the drain only     *)
(* warns.                                                                  *)
ClaimRefused(j) ==
    /\ Alive /\ run[j] = "claiming"
    /\ To(j, "settling")
    /\ controllers' = controllers \ {j}
    /\ \/ ~StillQueued(j) /\ UNCHANGED <<status, boundVars>>
       \/ Fault /\ UNCHANGED status
       \/ StillQueued(j) /\ SetStatus(j, "running") /\ Fails({j})
    /\ UNCHANGED <<paused, syncs, drainVars, poolVars, verdict, aborted, askVars,
                   clientVars, serverVars>>

(* Mutant of MayAsk: an aborted run parks for an approval nobody gives.    *)
MayAskAborted(j) == TRUE

MayAsk(j) == j \notin aborted

(* waitForApproval, of a run whose signal is not aborted (for one that is, *)
(* the answer is no, at once).  Recording the wait is not waited for.      *)
Ask(j) ==
    /\ Alive /\ run[j] = "running" /\ MayAsk(j) /\ asked[j] < MaxAsks
    /\ asked' = [asked EXCEPT ![j] = @ + 1]
    /\ pending' = [pending EXCEPT ![j] = asked[j] + 1]
    /\ marks' = [marks EXCEPT ![j] = @ + 1]
    /\ To(j, "waiting")
    /\ UNCHANGED <<status, paused, syncs, drainVars, poolVars, verdict, controllers,
                   aborted, clientVars, serverVars, boundVars>>

(* markWaitingForApproval, under the lock; given up if it stays busy.      *)
Mark(j) ==
    /\ Alive /\ marks[j] > 0
    /\ marks' = [marks EXCEPT ![j] = @ - 1]
    /\ \/ /\ IF status[j] \in Finished THEN UNCHANGED status
                                       ELSE SetStatus(j, "waiting_for_approval")
          /\ UNCHANGED boundVars
       \/ UNCHANGED status /\ Fault
    /\ UNCHANGED <<paused, syncs, drainVars, poolVars, runVars, asked, pending,
                   clientVars, serverVars>>

(* What a runner that returns or throws leads to.  It may throw an         *)
(* AbortError of its own; an aborted run is never recorded as completed.   *)
Verdicts(j) == IF j \in aborted THEN {"cancelled", "failed"} ELSE Finished

RunnerEnds(j) ==
    /\ Alive /\ run[j] = "running"
    /\ \E v \in Verdicts(j) : verdict' = [verdict EXCEPT ![j] = v]
    /\ To(j, "finishing")
    /\ UNCHANGED <<status, paused, syncs, drainVars, poolVars, controllers, aborted,
                   askVars, clientVars, serverVars, boundVars>>

(* Mutant of MayFinish: the run's result is written over a cancel.         *)
MayFinishAnyway(j) == status[j] # "absent"

(* finishRun, under the lock.                                              *)
MayFinish(j) == status[j] \notin Finished

FinishLocked(j) ==
    /\ Alive /\ run[j] = "finishing"
    /\ IF MayFinish(j) THEN SetStatus(j, verdict[j]) ELSE UNCHANGED status
    /\ To(j, "settling")
    /\ UNCHANGED <<paused, syncs, drainVars, poolVars, verdict, controllers, aborted,
                   askVars, clientVars, serverVars, boundVars>>

(* finishRun, when the lock stays busy: it reads, and writes later.        *)
FinishUnlocked(j) ==
    /\ Alive /\ run[j] = "finishing"
    /\ Fault
    /\ To(j, IF MayFinish(j) THEN "forcing" ELSE "settling")
    /\ UNCHANGED <<status, paused, syncs, drainVars, poolVars, verdict, controllers,
                   aborted, askVars, clientVars, serverVars>>

ForceFinish(j) ==
    /\ Alive /\ run[j] = "forcing"
    /\ SetStatus(j, verdict[j])
    /\ To(j, "settling")
    /\ UNCHANGED <<paused, syncs, drainVars, poolVars, verdict, controllers, aborted,
                   askVars, clientVars, serverVars, boundVars>>

(* A store call of finishRun fails, with or without the write.  The result *)
(* of a runner that returned is then recorded as failed, once; the error   *)
(* of one that threw is not recorded again, and the drain only warns.  (A  *)
(* run that failed or was cancelled may be either.)                        *)
FinishFails(j) ==
    /\ Alive /\ run[j] \in {"finishing", "forcing"}
    /\ \/ UNCHANGED status
       \/ (run[j] = "forcing" \/ MayFinish(j)) /\ SetStatus(j, verdict[j])
    /\ \/ /\ verdict' = [verdict EXCEPT ![j] = "failed"]
          /\ To(j, "finishing")
          /\ Fault
       \/ /\ verdict[j] # "completed"
          /\ To(j, "settling")
          /\ Fails({j})
          /\ UNCHANGED verdict
    /\ UNCHANGED <<paused, syncs, drainVars, poolVars, controllers, aborted, askVars,
                   clientVars, serverVars>>

(* Mutant of SettleDrain: a run that ends wakes nobody.                    *)
SettleQuietly == UNCHANGED timer

SettleDrain == scheduleDrain

(* The run is over: its slot and its workspace are free.                   *)
Settle(j) ==
    /\ Alive /\ run[j] = "settling"
    /\ To(j, "off")
    /\ controllers' = controllers \ {j}
    /\ activeJobs' = activeJobs - 1
    /\ activeWorkspaces' = activeWorkspaces \ {Workspace[j]}
    /\ SettleDrain
    /\ verdict' = [verdict EXCEPT ![j] = "failed"]
    /\ aborted' = aborted \ {j}
    /\ UNCHANGED <<status, paused, syncs, pass, latest, askVars, clientVars,
                   serverVars, boundVars>>

-----------------------------------------------------------------------------
(* runExclusive.                                                           *)

(* Mutant of MayRunNow: only other synchronous runs are looked at.         *)
MayRunNowBesideJobs(s) ==
    ~paused /\ ~isStopped /\ \A t \in syncs : Workspace[t] # Workspace[s]

MayRunNow(s) == ~paused /\ ~isStopped /\ Workspace[s] \notin activeWorkspaces

runExclusive(s) ==
    /\ Serving /\ s \notin syncs /\ MayRunNow(s)
    /\ syncs' = syncs \cup {s}
    /\ activeWorkspaces' = activeWorkspaces \cup {Workspace[s]}
    /\ UNCHANGED <<status, paused, drainVars, activeJobs, runVars, askVars, clientVars,
                   serverVars, boundVars>>

EndExclusive(s) ==
    /\ Alive /\ s \in syncs
    /\ syncs' = syncs \ {s}
    /\ activeWorkspaces' = activeWorkspaces \ {Workspace[s]}
    /\ scheduleDrain
    /\ UNCHANGED <<status, paused, pass, latest, activeJobs, runVars, askVars,
                   clientVars, serverVars, boundVars>>

-----------------------------------------------------------------------------
(* cancel: abort at once what the map of controllers reaches, then record  *)
(* the cancel under the lock, or report that the lock stays busy.          *)

(* Mutant of Released: the wait does not listen for the abort.             *)
ReleasedNever(j) == FALSE

Released(j) == j \in controllers /\ run[j] = "waiting"

CancelSignal(c, j) ==
    /\ Serving /\ canceller[c].pc = "idle" /\ status[j] # "absent"
    /\ canceller' = [canceller EXCEPT ![c] = [pc |-> "recording", job |-> j]]
    /\ IF j \in controllers THEN aborted' = aborted \cup {j} ELSE UNCHANGED aborted
    /\ controllers' = controllers \ {j}
    /\ IF Released(j)
       THEN pending' = [pending EXCEPT ![j] = 0] /\ To(j, "running")
       ELSE UNCHANGED <<pending, run>>
    /\ UNCHANGED <<status, paused, syncs, drainVars, poolVars, verdict, asked, marks,
                   approver, serverVars, boundVars>>

CancelRecord(c) ==
    /\ Alive /\ canceller[c].pc = "recording"
    /\ canceller' = [canceller EXCEPT ![c] = NoCancel]
    /\ LET j == canceller[c].job IN
       \/ /\ IF status[j] \in Finished THEN UNCHANGED status ELSE SetStatus(j, "cancelled")
          /\ UNCHANGED boundVars
       \/ UNCHANGED status /\ Fault
    /\ UNCHANGED <<paused, syncs, drainVars, poolVars, runVars, askVars, approver,
                   serverVars>>

-----------------------------------------------------------------------------
(* approveJob, for approve and reject alike.  It takes the request, reads  *)
(* the job, and after the read deletes whatever request is kept THEN,      *)
(* resolves the one it took and writes the job it read, without the lock.  *)

ApproveBegin(a, j) ==
    /\ Serving /\ approver[a].pc = "idle" /\ pending[j] # 0
    /\ approver' = [approver EXCEPT ![a] =
           [pc |-> "reading", job |-> j, ask |-> pending[j], seen |-> "absent"]]
    /\ UNCHANGED <<status, paused, syncs, drainVars, poolVars, runVars, askVars,
                   canceller, serverVars, boundVars>>

ApproveRead(a) ==
    /\ Alive /\ approver[a].pc = "reading"
    /\ approver' = [approver EXCEPT ![a] =
           [@ EXCEPT !.pc = "deciding", !.seen = status[approver[a].job]]]
    /\ UNCHANGED <<status, paused, syncs, drainVars, poolVars, runVars, askVars,
                   canceller, serverVars, boundVars>>

(* Mutant of PendingWhenRefused: the request is deleted before the proof   *)
(* is looked at.                                                           *)
PendingDeleted(a) == [pending EXCEPT ![approver[a].job] = 0]

(* A proof that does not match leaves the request for another attempt.     *)
PendingWhenRefused(a) == pending

ApproveRefused(a) ==
    /\ Alive /\ approver[a].pc = "deciding"
    /\ pending' = PendingWhenRefused(a)
    /\ approver' = [approver EXCEPT ![a] = NoApproval]
    /\ UNCHANGED <<status, paused, syncs, drainVars, poolVars, runVars, asked, marks,
                   canceller, serverVars, boundVars>>

Resolves(j, ask) == run[j] = "waiting" /\ asked[j] = ask

ApproveDecide(a) ==
    /\ Alive /\ approver[a].pc = "deciding"
    /\ LET j == approver[a].job IN
       /\ pending' = [pending EXCEPT ![j] = 0]
       /\ IF Resolves(j, approver[a].ask) THEN To(j, "running") ELSE UNCHANGED run
    /\ approver' = [approver EXCEPT ![a].pc = "writing"]
    /\ UNCHANGED <<status, paused, syncs, drainVars, poolVars, verdict, controllers,
                   aborted, asked, marks, canceller, serverVars, boundVars>>

ApproveWrite(a) ==
    /\ Alive /\ approver[a].pc = "writing"
    /\ LET j == approver[a].job IN
       /\ SetStatus(j, approver[a].seen)
       /\ Leaves(IF approver[a].seen = "running" /\ ~Runs(j) THEN {j} ELSE {})
    /\ approver' = [approver EXCEPT ![a] = NoApproval]
    /\ UNCHANGED <<paused, syncs, drainVars, poolVars, runVars, askVars, canceller,
                   serverVars, faults, pauses, restarts>>

(* Its read or its write fails.                                            *)
ApproveFails(a) ==
    /\ Alive /\ approver[a].pc \in {"reading", "writing"}
    /\ approver' = [approver EXCEPT ![a] = NoApproval]
    /\ Fault
    /\ UNCHANGED <<status, paused, syncs, drainVars, poolVars, runVars, askVars,
                   canceller, serverVars>>

-----------------------------------------------------------------------------
(* start, stop and the end of the process.                                 *)

Start ==
    /\ server = "down"
    /\ server' = "up"
    /\ timer' = TRUE
    /\ cleanup' = [pc |-> "listing", hung |-> {}]
    /\ orphans' = {}
    /\ UNCHANGED <<status, paused, syncs, pass, latest, poolVars, runVars, askVars,
                   clientVars, awaited, settlers, faults, pauses, restarts>>

(* Mutant of IsHung: only runs that waited for an approval are recognised. *)
IsHungWaiting(j) == status[j] = "waiting_for_approval"

IsHung(j) == status[j] = "running"

(* cleanupHungJobs: list what the last process left behind, then fail the  *)
(* jobs one after the other, the newest first, from that listing.          *)
CleanupList ==
    /\ Alive /\ cleanup.pc = "listing"
    /\ cleanup' = [pc |-> "writing", hung |-> {j \in Jobs : IsHung(j)}]
    /\ UNCHANGED <<status, paused, syncs, drainVars, poolVars, runVars, askVars,
                   clientVars, server, awaited, settlers, boundVars>>

CleanupWrite(j) ==
    /\ Alive /\ cleanup.pc = "writing"
    /\ j \in cleanup.hung /\ \A k \in cleanup.hung : k <= j
    /\ SetStatus(j, "failed")
    /\ cleanup' = [cleanup EXCEPT !.hung = @ \ {j}]
    /\ UNCHANGED <<paused, syncs, drainVars, poolVars, runVars, askVars, clientVars,
                   server, awaited, settlers, boundVars>>

CleanupDone ==
    /\ Alive /\ cleanup.pc = "writing" /\ cleanup.hung = {}
    /\ cleanup' = NoCleanup
    /\ UNCHANGED <<status, paused, syncs, drainVars, poolVars, runVars, askVars,
                   clientVars, server, awaited, settlers, boundVars>>

(* The listing or a write fails: start() only warns, and the records not   *)
(* failed yet stay as they are.                                            *)
CleanupFails ==
    /\ Alive
    /\ \/ cleanup.pc = "listing" /\ UNCHANGED status
       \/ \E j \in cleanup.hung :
            (\A k \in cleanup.hung : k <= j) /\ (UNCHANGED status \/ SetStatus(j, "failed"))
    /\ cleanup' = NoCleanup
    /\ Fails({j \in Jobs : status[j] = "running" /\ ~Runs(j)})
    /\ UNCHANGED <<paused, syncs, drainVars, poolVars, runVars, askVars, clientVars,
                   server, awaited, settlers>>

stop ==
    /\ server = "up" /\ restarts < MaxRestarts
    /\ server' = "draining"
    /\ timer' = FALSE
    /\ awaited' = latest
    /\ UNCHANGED <<status, paused, syncs, pass, latest, poolVars, runVars, askVars,
                   clientVars, settlers, cleanup, boundVars>>

PassIsOver == awaited \in Passes => pass[awaited].pc = "off"

StopDrained ==
    /\ server = "draining" /\ PassIsOver
    /\ server' = "settling"
    /\ settlers' = Active
    /\ UNCHANGED <<status, paused, syncs, drainVars, poolVars, runVars, askVars,
                   clientVars, awaited, cleanup, boundVars>>

(* Mutant of AllSettled: the runs that end are not taken off the list.     *)
AllSettledNever == settlers = {}

AllSettled == settlers \cap Active = {}

StopSettled ==
    /\ server = "settling" /\ AllSettled
    /\ server' = "closed"
    /\ UNCHANGED <<status, paused, syncs, drainVars, poolVars, runVars, askVars,
                   clientVars, awaited, settlers, cleanup, boundVars>>

(* The process ends: after stop(), at the end of the grace period, or      *)
(* killed.  Only what is stored survives.                                  *)
Exit ==
    /\ Alive /\ restarts < MaxRestarts
    /\ restarts' = restarts + 1
    /\ server' = "down" /\ paused' = FALSE /\ timer' = FALSE
    /\ pass' = [p \in Passes |-> NoListing]
    /\ latest' = NoPass /\ awaited' = NoPass /\ settlers' = {}
    /\ activeJobs' = 0 /\ activeWorkspaces' = {}
    /\ run' = [j \in Jobs |-> "off"]
    /\ controllers' = {} /\ aborted' = {} /\ syncs' = {}
    /\ pending' = [j \in Jobs |-> 0]
    /\ marks' = [j \in Jobs |-> 0]
    /\ approver' = [a \in Approvers |-> NoApproval]
    /\ canceller' = [c \in Cancellers |-> NoCancel]
    /\ cleanup' = NoCleanup
    /\ verdict' = [j \in Jobs |-> "failed"]
    /\ UNCHANGED <<status, asked, orphans, faults, pauses>>

-----------------------------------------------------------------------------
DrainStep == \E p \in Passes : List(p) \/ ListFails(p) \/ StopLooping(p) \/ \E j \in Jobs : Launch(p, j)

RunStep(j) ==
    \/ Claim(j) \/ ClaimRefused(j) \/ RunnerEnds(j) \/ FinishLocked(j)
    \/ FinishUnlocked(j) \/ ForceFinish(j) \/ FinishFails(j) \/ Settle(j)

CancelStep == \E c \in Cancellers : CancelRecord(c) \/ \E j \in Jobs : CancelSignal(c, j)

ApproveStep ==
    \E a \in Approvers :
        \/ ApproveRead(a) \/ ApproveRefused(a) \/ ApproveDecide(a) \/ ApproveWrite(a)
        \/ ApproveFails(a)
        \/ \E j \in Jobs : ApproveBegin(a, j)

CleanupStep == CleanupList \/ CleanupDone \/ CleanupFails \/ \E j \in Jobs : CleanupWrite(j)

Next ==
    \/ \E j \in Jobs : enqueue(j) \/ RunStep(j) \/ Ask(j) \/ Mark(j)
    \/ pause \/ resume
    \/ \E p \in Passes : FireTimer(p)
    \/ DrainStep
    \/ \E s \in Syncs : runExclusive(s) \/ EndExclusive(s)
    \/ CancelStep \/ ApproveStep
    \/ Start \/ CleanupStep \/ stop \/ StopDrained \/ StopSettled \/ Exit

Spec == Init /\ [][Next]_vars

(* Timers fire, awaited store calls return, a runner ends (each of its     *)
(* provider calls and tool runs has a timeout), and so does a synchronous  *)
(* run; a server that has closed exits and is started again, and a paused  *)
(* queue is resumed.  Pauses, failures and restarts are bounded, so that   *)
(* none goes on forever.  No fairness is assumed of who enqueues, cancels, *)
(* approves or stops, nor of the end of the grace period.                  *)
Fairness ==
    /\ WF_vars(\E p \in Passes : FireTimer(p))
    /\ \A p \in Passes :
           WF_vars(List(p) \/ ListFails(p) \/ StopLooping(p) \/ \E j \in Jobs : Launch(p, j))
    /\ \A j \in Jobs : WF_vars(RunStep(j)) /\ WF_vars(Mark(j))
    /\ \A s \in Syncs : WF_vars(EndExclusive(s))
    /\ \A c \in Cancellers : WF_vars(CancelRecord(c))
    /\ WF_vars(CleanupStep) /\ WF_vars(paused /\ resume) /\ WF_vars(Start)
    /\ WF_vars(StopDrained) /\ WF_vars(StopSettled) /\ WF_vars(server = "closed" /\ Exit)

LiveSpec == Spec /\ Fairness

-----------------------------------------------------------------------------
(* The properties.                                                         *)

(* Whatever runs, a queued job or a synchronous request, runs alone in its *)
(* workspace, however many drain passes overlap: activeWorkspaces is read  *)
(* and extended in one continuation, after the listing.                    *)
Holds == INSTANCE WorkspaceHolds WITH
    Holders <- Jobs \cup Syncs,
    held <- {<<h, Workspace[h]>> : h \in Active}
RunsAlone == Holds!Spec

(* Drain passes that overlap across a listing can exceed the concurrency,  *)
(* since activeJobs is read before the listing and not after it, but by at *)
(* most one run for each pass beyond the first.                            *)
Listing == {p \in Passes : pass[p].pc # "off"}
OverlapBound == activeJobs + Cardinality(Listing) < Concurrency + Cardinality(Passes)

(* Once stop() has closed the store nothing runs and nothing will: a pass  *)
(* it did not wait for finds the queue stopped after its listing.          *)
ClosedIsQuiet == server = "closed" => Active = {}

(* A run whose signal is aborted does not wait for an approval.  (A cancel *)
(* that looked for the controller before the run registered it aborts      *)
(* nothing: such a run waits on, though its job is recorded as cancelled.) *)
AbortedNeverWaits == \A j \in Jobs : run[j] = "waiting" => j \notin aborted

(* A run that waits can be approved: the request kept for its job is the   *)
(* one it waits for.  Only one approver at a time: the slower of two       *)
(* deletes the request of the wait that follows.                           *)
WaitingIsApprovable ==
    \A j \in Jobs : run[j] = "waiting" => pending[j] = asked[j]

(* A job recorded as running has a run, once the cleanup of a restart is   *)
(* over: an in-process run's record does not outlive the run, but for the  *)
(* records that a store call which failed since the start left behind (the *)
(* cleanup's, a claim's, the last write of a run), or an approval that     *)
(* wrote back what it had read.  The next start fails those too.           *)
RunningHasRun ==
    server = "up" /\ cleanup.pc = "off" =>
        \A j \in Jobs : status[j] = "running" => Live(j) \/ j \in orphans

(* The job lock keeps a job to the life JobLifecycle allows; in particular *)
(* a cancel is final, whatever its run reports afterwards.  Only the three *)
(* writes made without the lock can stray from it: approveJob's,           *)
(* cleanupHungJobs' and the last resort of finishRun.                      *)
Lifecycle == INSTANCE JobLifecycle
UnlockedWrite(j) ==
    /\ status' = [status EXCEPT ![j] = status'[j]]
    /\ \/ run[j] = "forcing"
       \/ j \in cleanup.hung
       \/ \E a \in Approvers : approver[a].pc = "writing" /\ approver[a].job = j
LivesOneLife == [][Lifecycle!Ordinary \/ \E j \in Jobs : UnlockedWrite(j)]_status

(* A queued job is eventually run or cancelled, across pauses, overlapping *)
(* passes, failed listings, a stop and restarts.                           *)
QueuedIsRun == \A j \in Jobs : status[j] = "queued" ~> status[j] # "queued"

(* A run that is aborted ends and gives its workspace back.                *)
AbortedRunEnds == \A j \in Jobs : j \in aborted ~> ~Live(j)

-----------------------------------------------------------------------------
(* What the documentation and the comments say, and the code does not do.  *)

(* production-ready.md: "A cancelled job stays cancelled, whoever reports  *)
(* a result afterwards."  Here whoever is not the cleanup of a restart.    *)
CancelledForever ==
    [][\A j \in Jobs : status[j] = "cancelled" /\ j \notin cleanup.hung =>
          status'[j] = "cancelled"]_vars
=============================================================================
