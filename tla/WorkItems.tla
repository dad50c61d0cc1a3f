----------------------------- MODULE WorkItems -----------------------------
(* One work item of the work engine (src/ai-system/work): its graph of     *)
(* nodes, the jobs queued for them and the checklist, as the requests of   *)
(* the HTTP service and the commands of the CLI change it.                 *)
(*                                                                         *)
(* Every operation loads the whole item, changes its copy and saves the    *)
(* whole copy; no lock is held anywhere.  The item is kept in several      *)
(* files that load and save take one after the other, so the operations    *)
(* of two sessions interleave file by file, and a crash leaves some files  *)
(* of a save behind.                                                       *)
EXTENDS Integers, FiniteSets, TLAPS

CONSTANTS
    Sessions,   \* requests and commands that may be under way together
    NodeCount,  \* nodes of the graph: buildTaskGraph makes a chain
    MaxJobs,    \* bound: jobs queued for the item
    MaxOps,     \* bound: operations begun
    MaxMishaps  \* bound: overlaps, crashes and failed writes

ASSUME WorkAssumption ==
    /\ NodeCount \in Nat \ {0}
    /\ MaxJobs \in Nat
    /\ MaxOps \in Nat
    /\ MaxMishaps \in Nat

VARIABLES
    disk,     \* the files of the item
    ses,      \* the sessions: what each does, where it is, its copy
    job,      \* the jobs of the item in the queue
    pruned,   \* the finished jobs the queue keeps no record of any more
    ops,      \* operations begun
    mishaps   \* operations begun during another, and saves cut short

vars == <<disk, ses, job, pruned, ops, mishaps>>

Nodes == 1 .. NodeCount
Jobs == 1 .. MaxJobs
NoJob == 0
Files == <<"status", "graph", "checklist", "runs">>
NodeStatus == {"pending", "running", "completed", "failed", "skipped"}
Finished == {"completed", "failed", "cancelled"}
Ops == {"get", "assess", "run", "dispatch", "handoff", "cancel", "retry",
        "ci_fix", "annotate"}

(* An item without a graph: task-graph.json holds an empty one.            *)
NoGraph == [n \in Nodes |-> [status |-> "none", run |-> NoJob]]
NoChecklist == [n \in Nodes |-> [status |-> "none", ref |-> NoJob]]
Created == [status |-> "created", graph |-> NoGraph,
            checklist |-> NoChecklist, runs |-> {}]
Idle == [pc |-> "idle", op |-> "get", file |-> 1, node |-> 1, item |-> Created]

----------------------------------------------------------------------------
(* The engine: functions of an item and of the jobs read for it.           *)

HasGraph(item) == \A n \in Nodes : item.graph[n].status # "none"

(* buildTaskGraph and buildChecklist, for the parts the item has not got.  *)
Assess(item) ==
    [item EXCEPT
        !.status = "assessing",
        !.graph = IF HasGraph(item) THEN @
                  ELSE [n \in Nodes |-> [status |-> "pending", run |-> NoJob]],
        !.checklist = IF \A n \in Nodes : @[n].status # "none" THEN @
                      ELSE [n \in Nodes |-> [status |-> "todo", ref |-> NoJob]]]

Plan(item) == [(IF HasGraph(item) THEN item ELSE Assess(item))
                  EXCEPT !.status = "planning"]

Dependencies(n) == {n - 1} \cap Nodes
(* Mutant: a node that was skipped counts as completed.                    *)
ExecutableAfterSkipped(item) ==
    {n \in Nodes :
        /\ item.graph[n].status \in {"pending", "failed"}
        /\ \A d \in Dependencies(n) : item.graph[d].status \in {"completed", "skipped"}}

Executable(item) ==
    {n \in Nodes :
        /\ item.graph[n].status \in {"pending", "failed"}
        /\ \A d \in Dependencies(n) : item.graph[d].status = "completed"}

(* Mutant: the run is attached to the node and not to the item.            *)
AttachUnlinked(item, n, j) ==
    [item EXCEPT !.status = "executing",
                 !.graph[n] = [status |-> "running", run |-> j]]

Attach(item, n, j) ==
    [item EXCEPT
        !.status = "executing",
        !.graph[n] = [status |-> "running", run |-> j],
        !.checklist[n] = IF @.status = "none" THEN @
                         ELSE [status |-> "doing", ref |-> j],
        !.runs = @ \cup {j}]

(* Mutant: the status of the job is taken for that of the node.            *)
GraphStatusOfJob(j) ==
    IF job[j].status = "live" THEN "running" ELSE job[j].status

GraphStatus(j) ==
    CASE job[j].status = "completed" -> "completed"
      [] job[j].status = "failed" -> "failed"
      [] job[j].status = "cancelled" -> "skipped"
      [] OTHER -> "running"

(* The linked jobs that the queue still knows.                             *)
Readable(item) == {j \in item.runs : j \in Jobs \ pruned}

(* Mutant: a node whose job is gone starts over.                           *)
ReconciledAnew(item) ==
    [n \in Nodes |->
        IF item.graph[n].run \in Readable(item)
        THEN [item.graph[n] EXCEPT !.status = GraphStatus(item.graph[n].run)]
        ELSE [item.graph[n] EXCEPT !.status = "pending"]]

Reconciled(item) ==
    [n \in Nodes |->
        IF item.graph[n].run \in Readable(item)
        THEN [item.graph[n] EXCEPT !.status = GraphStatus(item.graph[n].run)]
        ELSE item.graph[n]]

(* Mutant: some node completed, instead of every.                          *)
WorkStatusOfSome(graph) ==
    IF \E n \in Nodes : graph[n].status = "failed" THEN "failed"
    ELSE IF \E n \in Nodes : graph[n].status = "running" THEN "executing"
    ELSE IF \E n \in Nodes : graph[n].status = "completed" THEN "done"
    ELSE "planning"

WorkStatus(graph) ==
    IF \E n \in Nodes : graph[n].status = "failed" THEN "failed"
    ELSE IF \E n \in Nodes : graph[n].status = "running" THEN "executing"
    ELSE IF \A n \in Nodes : graph[n].status \in {"completed", "skipped"} THEN "done"
    ELSE "planning"

(* Mutant: a node that was skipped passes its check.                       *)
CheckedBySkipped(node, old) ==
    IF node.run # NoJob /\ old.status # "none" /\ node.status \in {"completed", "skipped"}
    THEN [status |-> "passed", ref |-> node.run] ELSE old

CheckedBy(node, old) ==
    IF node.run = NoJob \/ old.status = "none" THEN old
    ELSE CASE node.status = "completed" -> [status |-> "passed", ref |-> node.run]
           [] node.status \in {"failed", "skipped"} -> [status |-> "failed", ref |-> node.run]
           [] node.status = "running" -> [status |-> "doing", ref |-> node.run]
           [] OTHER -> old

Reconcile(item) ==
    IF Readable(item) = {} THEN item
    ELSE LET graph == Reconciled(item)
         IN  [item EXCEPT
                !.status = WorkStatus(graph),
                !.graph = graph,
                !.checklist = [n \in Nodes |-> CheckedBy(graph[n], @[n])]]

(* The scheduler's verdict on the item alone.                              *)
Ready(item) == item.status \notin {"failed", "cancelled"}

----------------------------------------------------------------------------
Init ==
    /\ disk = Created
    /\ ses = [s \in Sessions |-> Idle]
    /\ job = [j \in Jobs |-> [node |-> 1, status |-> "none"]]
    /\ pruned = {}
    /\ ops = 0
    /\ mishaps = 0

Move(s, pc) == ses' = [ses EXCEPT ![s].pc = pc, ![s].file = 1]
Store(s, item) ==
    ses' = [ses EXCEPT ![s].pc = "save", ![s].file = 1, ![s].item = item]
End(s) == ses' = [ses EXCEPT ![s] = Idle]

(* Something that keeps an operation from being alone and whole.           *)
Mishap ==
    /\ mishaps < MaxMishaps
    /\ mishaps' = mishaps + 1

(* A request or a command arrives.                                         *)
Begin(s, op) ==
    /\ ses[s].pc = "idle"
    /\ ops < MaxOps
    /\ ses' = [ses EXCEPT ![s] =
                 [Idle EXCEPT !.op = op,
                              !.pc = IF op = "dispatch" THEN "list" ELSE "load"]]
    /\ ops' = ops + 1
    /\ IF \E t \in Sessions \ {s} : ses[t].pc # "idle" THEN Mishap ELSE UNCHANGED mishaps
    /\ UNCHANGED <<disk, job, pruned>>

(* WorkStore.load reads the next file.                                     *)
Read(s) ==
    /\ ses[s].pc \in {"list", "load"}
    /\ LET f == ses[s].file
           last == f = 4
       IN  ses' = [ses EXCEPT
                    ![s].item[Files[f]] = disk[Files[f]],
                    ![s].file = IF last THEN 1 ELSE f + 1,
                    ![s].pc = IF ~last THEN @
                              ELSE IF @ = "list" THEN "schedule" ELSE "handle"]
    /\ UNCHANGED <<disk, job, pruned, ops, mishaps>>

(* dispatchReadyWorkItems runs what the scheduler did not block.           *)
Schedule(s) ==
    /\ ses[s].pc = "schedule"
    /\ IF Ready(ses[s].item) THEN Move(s, "load") ELSE End(s)
    /\ UNCHANGED <<disk, job, pruned, ops, mishaps>>

(* assessWorkItem, cancelOrRetryWorkItem and the commands of the CLI       *)
(* change the copy without a look at the jobs.                             *)
Handles(s, op) == ses[s].pc = "handle" /\ ses[s].op = op
OnlySession == UNCHANGED <<disk, job, pruned, ops, mishaps>>

AssessItem(s) ==
    /\ Handles(s, "assess")
    /\ Store(s, Assess(ses[s].item))
    /\ OnlySession

(* A cancel leaves the jobs of the item alone.                             *)
CancelItem(s) ==
    /\ Handles(s, "cancel")
    /\ Store(s, [ses[s].item EXCEPT !.status = "cancelled"])
    /\ OnlySession

RetryItem(s) ==
    /\ Handles(s, "retry")
    /\ Store(s, [ses[s].item EXCEPT !.status = "created"])
    /\ OnlySession

(* work-ci-fix asks for a repair of the checks of the pull request.        *)
CiFix(s) ==
    /\ Handles(s, "ci_fix")
    /\ Store(s, [ses[s].item EXCEPT !.status = "running_checks"])
    /\ OnlySession

(* The branch, the worktree or the CI status is noted in the item, which   *)
(* is saved whole all the same.                                            *)
Annotate(s) ==
    /\ Handles(s, "annotate")
    /\ Store(s, ses[s].item)
    /\ OnlySession

(* getWorkItem and getWorkItemLesson save what they reconciled.            *)
Get(s) ==
    /\ Handles(s, "get")
    /\ IF Readable(ses[s].item) = {} THEN End(s)
       ELSE Store(s, Reconcile(ses[s].item))
    /\ OnlySession

(* handoffToPR: the store keeps no appliedFiles, so the list is empty and  *)
(* the item fails; a repository with changes makes it throw before that.   *)
Handoff(s) ==
    /\ Handles(s, "handoff")
    /\ \/ Store(s, [Reconcile(ses[s].item) EXCEPT !.status = "failed"])
       \/ End(s)
    /\ OnlySession

(* runWorkItem: the requests of createNodeExecutionRequests, at most one.  *)
Request(s) ==
    /\ ses[s].pc = "handle"
    /\ ses[s].op \in {"run", "dispatch"}
    /\ LET planned == Plan(Reconcile(ses[s].item))
           ready == Executable(planned)
       IN  IF ready = {}
           THEN Store(s, [planned EXCEPT !.status =
                   IF \E n \in Nodes : planned.graph[n].status = "failed"
                   THEN "failed" ELSE @])
           ELSE \E n \in ready :
                  /\ \A k \in ready : n <= k
                  /\ ses' = [ses EXCEPT ![s].pc = "enqueue", ![s].node = n,
                                        ![s].item = planned]
    /\ OnlySession

(* queue.enqueue, and attachQueuedRuns on the copy.                        *)
Enqueue(s, j) ==
    /\ ses[s].pc = "enqueue"
    /\ job[j].status = "none"
    /\ \A k \in Jobs : job[k].status = "none" => j <= k
    /\ job' = [job EXCEPT ![j] = [node |-> ses[s].node, status |-> "live"]]
    /\ Store(s, Attach(ses[s].item, ses[s].node, j))
    /\ UNCHANGED <<disk, pruned, ops, mishaps>>

(* The queue refuses the job: the request throws, and saves nothing.       *)
Refused(s) ==
    /\ ses[s].pc = "enqueue"
    /\ End(s)
    /\ OnlySession

(* WorkStore.save writes the next file.                                    *)
Write(s) ==
    /\ ses[s].pc = "save"
    /\ LET f == ses[s].file
       IN  /\ disk' = [disk EXCEPT ![Files[f]] = ses[s].item[Files[f]]]
           /\ IF f = 4 THEN End(s) ELSE ses' = [ses EXCEPT ![s].file = f + 1]
    /\ UNCHANGED <<job, pruned, ops, mishaps>>

(* A write throws: the request fails, with some files saved.               *)
WriteFails(s) ==
    /\ ses[s].pc = "save"
    /\ End(s)
    /\ Mishap
    /\ UNCHANGED <<disk, job, pruned, ops>>

(* The server dies with its requests.                                      *)
Crash ==
    /\ \E s \in Sessions : ses[s].pc # "idle"
    /\ ses' = [s \in Sessions |-> Idle]
    /\ Mishap
    /\ UNCHANGED <<disk, job, pruned, ops>>

(* The queue runs the job to one of its terminal statuses (JobQueue and    *)
(* JobLease model how), and may prune it later.                            *)
Finish(j, status) ==
    /\ job[j].status = "live"
    /\ job' = [job EXCEPT ![j].status = status]
    /\ UNCHANGED <<disk, ses, pruned, ops, mishaps>>

Prune(j) ==
    /\ job[j].status \in Finished
    /\ j \notin pruned
    /\ pruned' = pruned \cup {j}
    /\ UNCHANGED <<disk, ses, job, ops, mishaps>>

Next ==
    \/ \E s \in Sessions :
         \/ \E op \in Ops : Begin(s, op)
         \/ Read(s)
         \/ Schedule(s)
         \/ AssessItem(s)
         \/ CancelItem(s)
         \/ RetryItem(s)
         \/ CiFix(s)
         \/ Annotate(s)
         \/ Get(s)
         \/ Handoff(s)
         \/ Request(s)
         \/ \E j \in Jobs : Enqueue(s, j)
         \/ Refused(s)
         \/ Write(s)
         \/ WriteFails(s)
    \/ Crash
    \/ \E j \in Jobs : \/ \E status \in Finished : Finish(j, status)
                       \/ Prune(j)

Spec == Init /\ [][Next]_vars

----------------------------------------------------------------------------
ItemStatus == {"created", "assessing", "planning", "executing", "done",
               "failed", "cancelled", "running_checks"}
Items == [status : ItemStatus,
          graph : [Nodes -> [status : NodeStatus \cup {"none"},
                             run : Jobs \cup {NoJob}]],
          checklist : [Nodes -> [status : {"none", "todo", "doing", "passed", "failed"},
                                 ref : Jobs \cup {NoJob}]],
          runs : SUBSET Jobs]
PCs == {"idle", "list", "schedule", "load", "handle", "enqueue", "save"}

(* Every file, every copy and every job record is well formed, however     *)
(* the files of several saves are mixed.                                   *)
TypeOK ==
    /\ disk \in Items
    /\ ses \in [Sessions -> [pc : PCs, op : Ops, file : 1 .. 4,
                             node : Nodes, item : Items]]
    /\ job \in [Jobs -> [node : Nodes, status : Finished \cup {"none", "live"}]]
    /\ pruned \in SUBSET Jobs
    /\ ops \in Nat
    /\ mishaps \in Nat

Succeeded(n) == \E j \in Jobs : job[j].node = n /\ job[j].status = "completed"
Settled(n) == \E j \in Jobs : /\ job[j].node = n
                              /\ job[j].status \in {"completed", "cancelled"}

(* A job is queued for a node only when a job of every node it depends on  *)
(* has completed, whatever copies of the graph the sessions work with.     *)
DependencyOrder ==
    \A j \in Jobs : job[j].status # "none" =>
        \A d \in Dependencies(job[j].node) : Succeeded(d)

(* An item that its file calls done has, for every node, a job that        *)
(* completed or was cancelled.                                             *)
DoneIsEarned == disk.status = "done" => \A n \in Nodes : Settled(n)

(* The evidence of a passed checklist item is a job of that very node, and *)
(* the job completed.                                                      *)
EvidenceIsReal ==
    \A n \in Nodes : disk.checklist[n].status = "passed" =>
        \E j \in Jobs : /\ j = disk.checklist[n].ref
                        /\ job[j].node = n
                        /\ job[j].status = "completed"

(* What an item says was reached was reached by its jobs.                  *)
WorkIsEarned == DependencyOrder /\ DoneIsEarned /\ EvidenceIsReal

(* As long as operations do not overlap and no save is cut short, a node   *)
(* has one unfinished job at most, a node that has completed is not run    *)
(* again, and the item knows all its jobs between operations.              *)
UndisturbedIsExact ==
    mishaps = 0 =>
        /\ \A j, k \in Jobs :
             /\ j # k
             /\ job[j].node = job[k].node
             /\ job[j].status # "none"
             /\ job[k].status # "none"
             => job[IF j < k THEN j ELSE k].status = "failed"
        /\ (\A s \in Sessions : ses[s].pc = "idle") =>
             disk.runs = {j \in Jobs : job[j].status # "none"}

(* As long as nothing overlaps or is cut short, a node that is completed   *)
(* on disk stays so.                                                       *)
ProgressIsKept ==
    [][mishaps' = 0 =>
        \A n \in Nodes : disk.graph[n].status = "completed"
                         => disk'.graph[n].status = "completed"]_vars
=============================================================================
