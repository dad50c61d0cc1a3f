---------------------------- MODULE JobLifecycle ----------------------------
(***************************************************************************)
(* What the queue promises about a job, whoever runs it: the life its      *)
(* status may go through.  JobLease (external workers) and JobQueue        *)
(* (in-process runs) implement it; a job whose record a writer without the *)
(* job's lock has replaced by an older one is astray, and promised nothing.*)
(***************************************************************************)
CONSTANT Jobs

VARIABLE status     \* the status of each job, as in QueueJobStatus

Unfinished ==
    {"queued", "assigned", "running", "waiting_for_approval",
     "cancel_requested", "stalled"}

Init == status = [j \in Jobs |-> "absent"]

Move(j, from, to) ==
    /\ status[j] \in from
    /\ status' = [status EXCEPT ![j] = to]

Submit(j)   == Move(j, {"absent"}, "queued")
Assign(j)   == Move(j, {"queued"}, "assigned")
Run(j)      == Move(j, {"queued", "assigned"}, "running")
Wait(j)     == Move(j, {"running"}, "waiting_for_approval")
Requeue(j)  == Move(j, {"assigned", "running", "waiting_for_approval", "stalled"}, "queued")
Park(j)     == Move(j, {"assigned", "running", "waiting_for_approval"}, "stalled")
Succeed(j)  == Move(j, {"assigned", "running", "waiting_for_approval", "stalled"}, "completed")
GiveUp(j)   == Move(j, {"assigned", "running", "waiting_for_approval", "stalled"}, "failed")
Cancel(j)   == Move(j, Unfinished, "cancelled")

(* A write without the lock puts an older record back.                     *)
Stray(j) ==
    /\ status[j] \notin {"absent", "astray"}
    /\ status' = [status EXCEPT ![j] = "astray"]

Ordinary ==
    \E j \in Jobs :
        \/ Submit(j) \/ Assign(j) \/ Run(j) \/ Wait(j) \/ Requeue(j)
        \/ Park(j) \/ Succeed(j) \/ GiveUp(j) \/ Cancel(j)

Next == Ordinary \/ \E j \in Jobs : Stray(j)

Spec == Init /\ [][Next]_status
=============================================================================
