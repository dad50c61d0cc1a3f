--------------------------- MODULE WorkerRegistry ---------------------------
(* The record the server keeps of an external worker                       *)
(* (workers/worker-service.ts), written whole by every request that        *)
(* touches it: the heartbeats of the worker's timer, the claims and        *)
(* results of its loop, and the operator's drain, disable and enable.      *)
(* Each loads the record, awaits, and saves what it made of it.  The       *)
(* leases themselves are JobLease's; here a job is queued, held or over.   *)
EXTENDS Integers, FiniteSets

CONSTANTS
    RegJobs,    \* jobs any worker may claim
    NoRegJob,   \* no job
    MaxChanges  \* bound: changes of status by the operator

ASSUME RegistryAssumption == NoRegJob \notin RegJobs /\ MaxChanges \in Nat

VARIABLES
    record,  \* the worker as stored: status and current job
    queued,  \* the jobs in the queue
    held,    \* the job whose lease the worker holds
    active,  \* the job its loop believes it has (activeJob)
    loop,    \* the request of the worker's loop under way
    timer,   \* the request of its heartbeat timer under way
    desk,    \* the operator's request under way
    order,   \* history: the operator's last word, and whether the worker
             \* was heard since
    mishap,  \* history: requests overlapped, or a lease was lost
    changes  \* requests of the operator so far

regVars == <<record, queued, held, active, loop, timer, desk, order, mishap, changes>>

Statuses == {"online", "idle", "busy", "draining", "disabled"}
Idle == [at |-> "none", copy |-> [status |-> "online", current |-> NoRegJob]]
Loaded(at) == [at |-> at, copy |-> record]
LoopAway == loop.at \in {"none", "work"}
TimerAway == timer.at = "none"
DeskAway == desk.at = "none"
Quiet == LoopAway /\ TimerAway /\ DeskAway

(* registerWorker.                                                         *)
RegInit ==
    /\ record = [status |-> "online", current |-> NoRegJob]
    /\ queued = RegJobs
    /\ held = NoRegJob
    /\ active = NoRegJob
    /\ loop = Idle /\ timer = Idle /\ desk = Idle
    /\ order = [word |-> "none", heard |-> TRUE]
    /\ mishap = FALSE
    /\ changes = 0

(* A request that begins while another is under way, its answer included,  *)
(* may overlap with it.                                                    *)
Begins(othersAway) == mishap' = (mishap \/ ~othersAway)
HeardFrom == order' = [order EXCEPT !.heard = TRUE]

----------------------------------------------------------------------------
(* The heartbeats                                                          *)

(* updateHeartbeat: the status sent; a job not sent stays on record.       *)
Beaten(copy, status) ==
    [status |-> status, current |-> IF active = NoRegJob THEN copy.current ELSE active]

Beat == IF active = NoRegJob THEN "idle" ELSE "busy"

TimerLoads ==
    /\ timer.at = "none"
    /\ timer' = Loaded(Beat)
    /\ Begins(LoopAway /\ DeskAway)
    /\ UNCHANGED <<record, queued, held, active, loop, desk, order, changes>>

TimerSaves ==
    /\ timer.at # "none"
    /\ record' = Beaten(timer.copy, timer.at)
    /\ timer' = Idle
    /\ HeardFrom
    /\ UNCHANGED <<queued, held, active, loop, desk, mishap, changes>>

----------------------------------------------------------------------------
(* The operator                                                            *)

StatusOf(action) ==
    CASE action = "disable" -> "disabled"
      [] action = "enable" -> "idle"
      [] action = "drain" -> "draining"

DeskLoads ==
    /\ desk.at = "none" /\ changes < MaxChanges
    /\ \E action \in {"disable", "enable", "drain"} : desk' = Loaded(action)
    /\ changes' = changes + 1
    /\ Begins(LoopAway /\ TimerAway)
    /\ UNCHANGED <<record, queued, held, active, loop, timer, order>>

(* setWorkerStatus.                                                        *)
DeskSaves ==
    /\ desk.at # "none"
    /\ record' = [desk.copy EXCEPT !.status = StatusOf(desk.at)]
    /\ order' = [word |-> desk.at, heard |-> FALSE]
    /\ desk' = Idle
    /\ UNCHANGED <<queued, held, active, loop, timer, mishap, changes>>

----------------------------------------------------------------------------
(* The worker's loop                                                       *)

(* Mutant: any worker that is not disabled may claim.                      *)
MayClaimEnabled(worker) == worker.status # "disabled"

MayClaim(worker) == worker.status \in {"idle", "online"}

ClaimLoads ==
    /\ loop.at = "none"
    /\ IF MayClaim(record) /\ queued # {} THEN loop' = Loaded("claim") ELSE UNCHANGED loop
    /\ Begins(TimerAway /\ DeskAway)
    /\ UNCHANGED <<record, queued, held, active, timer, desk, order, changes>>

(* claimJob of the queue: the lease is the worker's before its record says *)
(* so.                                                                     *)
ClaimLeases ==
    /\ loop.at = "claim" /\ held = NoRegJob
    /\ \E j \in queued : queued' = queued \ {j} /\ held' = j
    /\ UNCHANGED <<record, active, loop, timer, desk, order, mishap, changes>>

ClaimSaves ==
    /\ loop.at = "claim" /\ held # NoRegJob
    /\ record' = [status |-> "busy", current |-> held]
    /\ loop' = [Idle EXCEPT !.at = "claimed", !.copy.current = held]
    /\ HeardFrom
    /\ UNCHANGED <<queued, held, active, timer, desk, mishap, changes>>

ClaimHeard ==
    /\ loop.at = "claimed"
    /\ active' = loop.copy.current
    /\ loop' = [Idle EXCEPT !.at = "work"]
    /\ UNCHANGED <<record, queued, held, timer, desk, order, mishap, changes>>

(* The lease expires and the sweep gives the job back.                     *)
LeaseLost ==
    /\ loop.at = "work" /\ held # NoRegJob
    /\ queued' = queued \cup {held}
    /\ held' = NoRegJob
    /\ mishap' = TRUE
    /\ UNCHANGED <<record, active, loop, timer, desk, order, changes>>

(* Mutant: the result is taken from the record loaded before it.           *)
ResultKeeps(copy) == [copy EXCEPT !.status = "idle"]

Rested(copy) == [status |-> "idle", current |-> NoRegJob]

(* completeJob and failJob of the queue, then of the worker: one that is   *)
(* refused leaves the record alone.                                        *)
ResultLoads ==
    /\ loop.at = "work"
    /\ held' = NoRegJob
    /\ loop' = IF held = NoRegJob THEN [Idle EXCEPT !.at = "rest"] ELSE Loaded("result")
    /\ Begins(TimerAway /\ DeskAway)
    /\ UNCHANGED <<record, queued, active, timer, desk, order, changes>>

ResultSaves ==
    /\ loop.at = "result"
    /\ record' = Rested(loop.copy)
    /\ loop' = [Idle EXCEPT !.at = "rest"]
    /\ HeardFrom
    /\ UNCHANGED <<queued, held, active, timer, desk, mishap, changes>>

(* activeJob is cleared, and a heartbeat says so.                          *)
RestLoads ==
    /\ loop.at = "rest"
    /\ active' = NoRegJob
    /\ loop' = Loaded("idle")
    /\ Begins(TimerAway /\ DeskAway)
    /\ UNCHANGED <<record, queued, held, timer, desk, order, changes>>

RestSaves ==
    /\ loop.at = "idle"
    /\ record' = Beaten(loop.copy, "idle")
    /\ loop' = Idle
    /\ HeardFrom
    /\ UNCHANGED <<queued, held, active, timer, desk, mishap, changes>>

RegNext ==
    \/ TimerLoads \/ TimerSaves
    \/ DeskLoads \/ DeskSaves
    \/ ClaimLoads \/ ClaimLeases \/ ClaimSaves \/ ClaimHeard \/ LeaseLost
    \/ ResultLoads \/ ResultSaves \/ RestLoads \/ RestSaves

RegSpec == RegInit /\ [][RegNext]_regVars

----------------------------------------------------------------------------
(* Between requests the record names the job whose lease the worker holds, *)
(* and no other, whatever heartbeats, results and changes of status went   *)
(* before, as long as none overlapped and no lease was lost.  (An overlap  *)
(* leaves a finished job on the record, or a current one off it, until the *)
(* next claim or heartbeat.)                                               *)
RecordIsTrue ==
    (Quiet /\ ~mishap) => record.current = held

(* A worker that was drained or disabled claims nothing before it is heard *)
(* from again: no earlier word of its own outlives the operator's, unless  *)
(* the two overlapped.                                                     *)
OrderIsKept ==
    (held' # held /\ held' # NoRegJob /\ ~mishap') =>
        order.word \notin {"drain", "disable"} \/ order.heard

(* A worker that was drained accepts no new job until it is enabled        *)
(* (README.md:538: "Drain a worker without accepting new jobs").           *)
DrainedTakesNothing ==
    [][(held' # held /\ held' # NoRegJob) => (order.word # "drain" \/ mishap')]_regVars
=============================================================================
