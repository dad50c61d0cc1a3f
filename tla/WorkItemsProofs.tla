--------------------------- MODULE WorkItemsProofs ---------------------------
(* What a work item says was reached was reached by its jobs, for any      *)
(* number of sessions, nodes and jobs, however many operations overlap and *)
(* however their saves are mixed and cut short.  The argument goes file by *)
(* file: what one file of a copy says of the jobs is true by itself and    *)
(* stays true, so it does not matter which files were saved together.      *)
EXTENDS WorkItems

(* A node that has a run has one of its own; it is completed or skipped    *)
(* only when the run was completed or cancelled.                           *)
GraphIsTrue(graph, jobs) ==
    \A n \in Nodes :
        /\ graph[n].run # NoJob => jobs[graph[n].run].node = n /\ jobs[graph[n].run].status # "none"
        /\ graph[n].status = "completed" => graph[n].run # NoJob /\ jobs[graph[n].run].status = "completed"
        /\ graph[n].status = "skipped" => graph[n].run # NoJob /\ jobs[graph[n].run].status = "cancelled"

ChecklistIsTrue(checklist, jobs) ==
    \A n \in Nodes : checklist[n].status = "passed" =>
        /\ checklist[n].ref # NoJob
        /\ jobs[checklist[n].ref].node = n
        /\ jobs[checklist[n].ref].status = "completed"

AllSettled(jobs) ==
    \A n \in Nodes : \E j \in Jobs : jobs[j].node = n /\ jobs[j].status \in {"completed", "cancelled"}

IsTrue(item, jobs) ==
    /\ GraphIsTrue(item.graph, jobs)
    /\ ChecklistIsTrue(item.checklist, jobs)
    /\ item.status = "done" => AllSettled(jobs)

JobRecords == [Jobs -> [node : Nodes, status : Finished \cup {"none", "live"}]]

(* What the queue does to jobs: a job keeps its node, and its end.         *)
JobsGrow(jobs, later) ==
    \A j \in Jobs :
        /\ jobs[j].status # "none" => later[j].node = jobs[j].node /\ later[j].status # "none"
        /\ jobs[j].status \in Finished => later[j] = jobs[j]

(* A session is about to queue a job for a node that may have one.         *)
EnqueuesInOrder ==
    \A s \in Sessions : ses[s].pc = "enqueue" =>
        \A d \in Dependencies(ses[s].node) : Succeeded(d)

WorkInv ==
    /\ TypeOK
    /\ IsTrue(disk, job)
    /\ \A s \in Sessions : IsTrue(ses[s].item, job)
    /\ EnqueuesInOrder
    /\ DependencyOrder

----------------------------------------------------------------------------
LEMMA NodesAndJobs == Jobs \subseteq Nat /\ NoJob \notin Jobs /\ 1 \in Nodes
  BY WorkAssumption DEF Jobs, NoJob, Nodes

(* What is true of the jobs stays true of them.                            *)
LEMMA TruthStays ==
  ASSUME NEW jobs \in JobRecords, NEW later \in JobRecords, JobsGrow(jobs, later),
         NEW item \in Items, IsTrue(item, jobs)
  PROVE  IsTrue(item, later)
  <1>1. \A n \in Nodes : item.graph[n].run \in Jobs \cup {NoJob} /\ item.checklist[n].ref \in Jobs \cup {NoJob}
    BY DEF Items
  <1>2. GraphIsTrue(item.graph, later)
    BY <1>1 DEF IsTrue, GraphIsTrue, JobsGrow, Finished
  <1>3. ChecklistIsTrue(item.checklist, later)
    BY <1>1 DEF IsTrue, ChecklistIsTrue, JobsGrow, Finished
  <1>4. AllSettled(jobs) => AllSettled(later)
    BY DEF AllSettled, JobsGrow, Finished
  <1>5. QED
    BY <1>2, <1>3, <1>4 DEF IsTrue

(* One file of an item replaced by that of another.                        *)
LEMMA FilesMix ==
  ASSUME NEW item \in Items, NEW other \in Items, NEW f \in 1 .. 4, NEW jobs
  PROVE  /\ [item EXCEPT ![Files[f]] = other[Files[f]]] \in Items
         /\ IsTrue(item, jobs) /\ IsTrue(other, jobs)
              => IsTrue([item EXCEPT ![Files[f]] = other[Files[f]]], jobs)
  <1>1. CASE f = 1
    BY <1>1 DEF Files, Items, IsTrue
  <1>2. CASE f = 2
    BY <1>2 DEF Files, Items, IsTrue
  <1>3. CASE f = 3
    BY <1>3 DEF Files, Items, IsTrue
  <1>4. CASE f = 4
    BY <1>4 DEF Files, Items, IsTrue
  <1>5. QED
    BY <1>1, <1>2, <1>3, <1>4

----------------------------------------------------------------------------
(* The engine.                                                             *)

LEMMA CreatedIsTrue == Created \in Items /\ \A jobs : IsTrue(Created, jobs)
  <1>1. Created \in Items
    BY DEF Created, Items, NoGraph, NoChecklist, ItemStatus
  <1>2. ASSUME NEW jobs PROVE IsTrue(Created, jobs)
    BY DEF Created, NoGraph, NoChecklist, IsTrue, GraphIsTrue, ChecklistIsTrue
  <1>3. QED
    BY <1>1, <1>2

LEMMA StatusIsTrue ==
  ASSUME NEW item \in Items, NEW jobs, IsTrue(item, jobs), NEW status \in ItemStatus \ {"done"}
  PROVE  [item EXCEPT !.status = status] \in Items /\ IsTrue([item EXCEPT !.status = status], jobs)
  BY DEF Items, IsTrue

LEMMA AssessIsTrue ==
  ASSUME NEW item \in Items, NEW jobs, IsTrue(item, jobs)
  PROVE  Assess(item) \in Items /\ IsTrue(Assess(item), jobs)
  <1> DEFINE graph == IF HasGraph(item) THEN item.graph
                      ELSE [n \in Nodes |-> [status |-> "pending", run |-> NoJob]]
             checklist == IF \A n \in Nodes : item.checklist[n].status # "none" THEN item.checklist
                          ELSE [n \in Nodes |-> [status |-> "todo", ref |-> NoJob]]
  <1>1. graph \in [Nodes -> [status : NodeStatus \cup {"none"}, run : Jobs \cup {NoJob}]]
    BY DEF Items, NodeStatus
  <1>2. checklist \in [Nodes -> [status : {"none", "todo", "doing", "passed", "failed"}, ref : Jobs \cup {NoJob}]]
    BY DEF Items
  <1>3. GraphIsTrue(graph, jobs)
    BY DEF IsTrue, GraphIsTrue
  <1>4. ChecklistIsTrue(checklist, jobs)
    BY DEF IsTrue, ChecklistIsTrue
  <1>5. Assess(item) = [status |-> "assessing", graph |-> graph, checklist |-> checklist, runs |-> item.runs]
    <2>1. Assess(item) = [item EXCEPT !.status = "assessing", !.graph = graph, !.checklist = checklist]
      BY Zenon DEF Assess
    <2> HIDE DEF graph, checklist
    <2>2. QED
      BY <2>1 DEF Items
  <1> HIDE DEF graph, checklist
  <1>6. QED
    BY <1>1, <1>2, <1>3, <1>4, <1>5 DEF IsTrue, Items, ItemStatus

LEMMA PlanIsTrue ==
  ASSUME NEW item \in Items, NEW jobs, IsTrue(item, jobs)
  PROVE  Plan(item) \in Items /\ IsTrue(Plan(item), jobs)
  <1>1. Assess(item) \in Items /\ IsTrue(Assess(item), jobs)
    BY AssessIsTrue
  <1>2. "planning" \in ItemStatus \ {"done"}
    BY DEF ItemStatus
  <1>3. QED
    BY <1>1, <1>2, StatusIsTrue DEF Plan

LEMMA ReconcileIsTrue ==
  ASSUME TypeOK, NEW item \in Items, IsTrue(item, job)
  PROVE  Reconcile(item) \in Items /\ IsTrue(Reconcile(item), job)
  <1> DEFINE graph == Reconciled(item)
             checklist == [n \in Nodes |-> CheckedBy(graph[n], item.checklist[n])]
  <1>1. \A n \in Nodes : item.graph[n] \in [status : NodeStatus \cup {"none"}, run : Jobs \cup {NoJob}]
                         /\ item.checklist[n] \in [status : {"none", "todo", "doing", "passed", "failed"},
                                                   ref : Jobs \cup {NoJob}]
    BY DEF Items
  <1>2. \A j \in Jobs : GraphStatus(j) \in {"completed", "failed", "skipped", "running"}
    BY DEF GraphStatus
  <1>3. Readable(item) \subseteq Jobs
    BY DEF Readable
  <1>4. graph \in [Nodes -> [status : NodeStatus \cup {"none"}, run : Jobs \cup {NoJob}]]
    BY <1>1, <1>2, <1>3 DEF Reconciled, NodeStatus
  <1>5. GraphIsTrue(graph, job)
    BY <1>1, <1>2, <1>3, NodesAndJobs DEF Reconciled, GraphStatus, IsTrue, GraphIsTrue, TypeOK
  <1>6. \A n \in Nodes : graph[n] \in [status : NodeStatus \cup {"none"}, run : Jobs \cup {NoJob}]
    BY <1>4
  <1> HIDE DEF graph
  <1>7. checklist \in [Nodes -> [status : {"none", "todo", "doing", "passed", "failed"}, ref : Jobs \cup {NoJob}]]
    BY <1>1, <1>6 DEF CheckedBy
  <1>8. ChecklistIsTrue(checklist, job)
    BY <1>1, <1>5, <1>6 DEF CheckedBy, IsTrue, ChecklistIsTrue, GraphIsTrue
  <1>9. WorkStatus(graph) \in ItemStatus
    BY DEF WorkStatus, ItemStatus
  <1>10. WorkStatus(graph) = "done" => AllSettled(job)
    <2>1. WorkStatus(graph) = "done" => \A n \in Nodes : graph[n].status \in {"completed", "skipped"}
      BY DEF WorkStatus
    <2>2. QED
      BY <2>1, <1>5, <1>6 DEF AllSettled, GraphIsTrue
  <1>11. CASE Readable(item) = {}
    BY <1>11 DEF Reconcile
  <1>12. CASE Readable(item) # {}
    <2>1. Reconcile(item) = [status |-> WorkStatus(graph), graph |-> graph, checklist |-> checklist,
                             runs |-> item.runs]
      BY <1>12 DEF Reconcile, Items, graph
    <2>2. item.runs \in SUBSET Jobs
      BY DEF Items
    <2> HIDE DEF checklist
    <2>3. QED
      BY <2>1, <2>2, <1>4, <1>5, <1>7, <1>8, <1>9, <1>10 DEF IsTrue, Items
  <1>13. QED
    BY <1>11, <1>12

LEMMA AttachIsTrue ==
  ASSUME NEW item \in Items, NEW jobs, IsTrue(item, jobs), NEW n \in Nodes, NEW j \in Jobs,
         jobs[j].node = n, jobs[j].status # "none"
  PROVE  Attach(item, n, j) \in Items /\ IsTrue(Attach(item, n, j), jobs)
  <1> DEFINE graph == [item.graph EXCEPT ![n] = [status |-> "running", run |-> j]]
             entry == IF item.checklist[n].status = "none" THEN item.checklist[n]
                      ELSE [status |-> "doing", ref |-> j]
             checklist == [item.checklist EXCEPT ![n] = entry]
  <1>1. graph \in [Nodes -> [status : NodeStatus \cup {"none"}, run : Jobs \cup {NoJob}]]
    BY DEF Items, NodeStatus
  <1>2. checklist \in [Nodes -> [status : {"none", "todo", "doing", "passed", "failed"}, ref : Jobs \cup {NoJob}]]
    BY DEF Items
  <1>3. GraphIsTrue(graph, jobs)
    BY DEF IsTrue, GraphIsTrue, Items
  <1>4. ChecklistIsTrue(checklist, jobs)
    BY DEF IsTrue, ChecklistIsTrue, Items
  <1>5. Attach(item, n, j) = [status |-> "executing", graph |-> graph, checklist |-> checklist,
                              runs |-> item.runs \cup {j}]
    <2>1. Attach(item, n, j) = [item EXCEPT !.status = "executing", !.graph = graph, !.checklist = checklist,
                                            !.runs = item.runs \cup {j}]
      BY Zenon DEF Attach
    <2> HIDE DEF graph, checklist
    <2>2. QED
      BY <2>1 DEF Items
  <1>6. item.runs \cup {j} \in SUBSET Jobs
    BY DEF Items
  <1> HIDE DEF graph, checklist
  <1>7. QED
    BY <1>1, <1>2, <1>3, <1>4, <1>5, <1>6 DEF IsTrue, Items, ItemStatus

----------------------------------------------------------------------------
(* The sessions.                                                           *)

SessionType == [pc : PCs, op : Ops, file : 1 .. 4, node : Nodes, item : Items]

LEMMA IdleIsSession == Idle \in SessionType /\ \A jobs : IsTrue(Idle.item, jobs)
  <1>1. Idle \in SessionType
    BY CreatedIsTrue, NodesAndJobs DEF Idle, SessionType, PCs, Ops
  <1>2. Idle.item = Created
    BY DEF Idle
  <1>3. QED
    BY <1>1, <1>2, CreatedIsTrue

LEMMA WorkInitInv == Init => WorkInv
  <1> SUFFICES ASSUME Init PROVE WorkInv
    OBVIOUS
  <1>1. disk \in Items /\ IsTrue(disk, job) /\ pruned \in SUBSET Jobs /\ ops \in Nat /\ mishaps \in Nat
    BY CreatedIsTrue DEF Init
  <1>2. ses \in [Sessions -> SessionType] /\ \A s \in Sessions : IsTrue(ses[s].item, job) /\ ses[s].pc = "idle"
    <2>1. Idle.pc = "idle"
      BY DEF Idle
    <2>2. QED
      BY <2>1, IdleIsSession DEF Init
  <1>3. job \in JobRecords /\ \A j \in Jobs : job[j].status = "none"
    BY NodesAndJobs DEF Init, JobRecords
  <1>4. QED
    BY <1>1, <1>2, <1>3 DEF WorkInv, TypeOK, SessionType, JobRecords, EnqueuesInOrder, DependencyOrder

(* A session moves on with a copy that is true, and does not queue a job.  *)
LEMMA SessionMoves ==
  ASSUME WorkInv, NEW s \in Sessions, NEW new \in SessionType, IsTrue(new.item, job), new.pc # "enqueue",
         ses' = [ses EXCEPT ![s] = new], UNCHANGED <<disk, job, pruned>>, ops' \in Nat, mishaps' \in Nat
  PROVE  WorkInv'
  <1> USE DEF WorkInv
  <1>1. TypeOK'
    BY DEF TypeOK, SessionType
  <1>2. \A t \in Sessions : ses'[t] = IF t = s THEN new ELSE ses[t]
    BY DEF TypeOK
  <1>3. IsTrue(disk, job)' /\ \A t \in Sessions : IsTrue(ses'[t].item, job')
    BY <1>2
  <1>4. EnqueuesInOrder'
    BY <1>2 DEF EnqueuesInOrder, Succeeded
  <1>5. DependencyOrder'
    BY DEF DependencyOrder, Succeeded
  <1>6. QED
    BY <1>1, <1>3, <1>4, <1>5

LEMMA SessionStores ==
  ASSUME WorkInv, NEW s \in Sessions, NEW item \in Items, IsTrue(item, job), Store(s, item), OnlySession
  PROVE  WorkInv'
  <1> DEFINE new == [ses[s] EXCEPT !.pc = "save", !.file = 1, !.item = item]
  <1>1. ses[s] \in SessionType
    BY DEF WorkInv, TypeOK, SessionType
  <1>2. new \in SessionType /\ new.item = item /\ new.pc = "save"
    <2>1. 1 \in 1 .. 4 /\ "save" \in PCs
      BY DEF PCs
    <2>2. QED
      BY <1>1, <2>1 DEF SessionType
  <1>3. ses' = [ses EXCEPT ![s] = new]
    BY DEF Store
  <1>4. UNCHANGED <<disk, job, pruned>> /\ ops' \in Nat /\ mishaps' \in Nat
    BY DEF OnlySession, WorkInv, TypeOK
  <1> HIDE DEF new
  <1>5. QED
    BY <1>2, <1>3, <1>4, SessionMoves

LEMMA SessionEnds ==
  ASSUME WorkInv, NEW s \in Sessions, End(s), UNCHANGED <<disk, job, pruned>>, ops' \in Nat, mishaps' \in Nat
  PROVE  WorkInv'
  <1>1. Idle \in SessionType /\ IsTrue(Idle.item, job) /\ Idle.pc # "enqueue"
    BY IdleIsSession DEF Idle
  <1>2. QED
    BY <1>1, SessionMoves DEF End

LEMMA MishapCounts == ASSUME TypeOK, Mishap \/ UNCHANGED mishaps PROVE mishaps' \in Nat
  BY DEF TypeOK, Mishap

(* The queue changes a job, and the item's files and copies stay true.     *)
LEMMA JobsMove ==
  ASSUME WorkInv, job' \in JobRecords, JobsGrow(job, job'), pruned' \in SUBSET Jobs,
         \A j \in Jobs : job'[j].status # "none" => job[j].status # "none",
         UNCHANGED <<disk, ses, ops, mishaps>>
  PROVE  WorkInv'
  <1> USE DEF WorkInv
  <1>1. TypeOK'
    BY DEF TypeOK, JobRecords
  <1>2. job \in JobRecords /\ disk \in Items /\ \A s \in Sessions : ses[s].item \in Items
    BY DEF TypeOK, JobRecords
  <1>3. IsTrue(disk, job') /\ \A s \in Sessions : IsTrue(ses[s].item, job')
    BY <1>2, TruthStays
  <1>4. \A n \in Nodes : Succeeded(n) => Succeeded(n)'
    BY DEF Succeeded, JobsGrow, Finished
  <1>5. \A n \in Nodes : Dependencies(n) \subseteq Nodes
    BY DEF Dependencies
  <1>6. EnqueuesInOrder'
    BY <1>4, <1>5 DEF EnqueuesInOrder, TypeOK
  <1>7. DependencyOrder'
    BY <1>2, <1>4, <1>5 DEF DependencyOrder, JobsGrow, JobRecords
  <1>8. QED
    BY <1>1, <1>3, <1>6, <1>7

----------------------------------------------------------------------------
(* The operations.                                                         *)

LEMMA SessionSteps ==
  ASSUME WorkInv, NEW s \in Sessions,
         \/ Read(s) \/ Schedule(s) \/ AssessItem(s) \/ CancelItem(s) \/ RetryItem(s) \/ CiFix(s)
         \/ Annotate(s) \/ Get(s) \/ Handoff(s) \/ Refused(s) \/ WriteFails(s)
  PROVE  WorkInv'
  <1>t. TypeOK /\ ses[s] \in SessionType /\ ses[s].item \in Items /\ disk \in Items
        /\ IsTrue(ses[s].item, job) /\ IsTrue(disk, job)
    BY DEF WorkInv, TypeOK, SessionType
  <1>s. \A status \in ItemStatus \ {"done"} :
          /\ [ses[s].item EXCEPT !.status = status] \in Items
          /\ IsTrue([ses[s].item EXCEPT !.status = status], job)
    BY <1>t, StatusIsTrue
  <1>r. Reconcile(ses[s].item) \in Items /\ IsTrue(Reconcile(ses[s].item), job)
    BY <1>t, ReconcileIsTrue
  <1>1. CASE Read(s)
    <2> DEFINE f == ses[s].file
               item == [ses[s].item EXCEPT ![Files[f]] = disk[Files[f]]]
               pc == IF f # 4 THEN ses[s].pc ELSE IF ses[s].pc = "list" THEN "schedule" ELSE "handle"
               new == [ses[s] EXCEPT !.item = item, !.file = IF f = 4 THEN 1 ELSE f + 1, !.pc = pc]
    <2>1. f \in 1 .. 4 /\ (IF f = 4 THEN 1 ELSE f + 1) \in 1 .. 4
      BY <1>t DEF SessionType
    <2>2. item \in Items /\ IsTrue(item, job)
      BY <1>t, <2>1, FilesMix
    <2>3. pc \in PCs /\ pc # "enqueue"
      BY <1>1, <1>t DEF Read, PCs
    <2>4. ses' = [ses EXCEPT ![s] = new]
      BY <1>1, <1>t DEF Read, TypeOK
    <2> HIDE DEF item, pc
    <2>5. new \in SessionType /\ new.item = item /\ new.pc = pc
      BY <1>t, <2>1, <2>2, <2>3 DEF SessionType
    <2>6. UNCHANGED <<disk, job, pruned>> /\ ops' \in Nat /\ mishaps' \in Nat
      BY <1>1, <1>t DEF Read, TypeOK
    <2> HIDE DEF new
    <2>7. QED
      BY <2>2, <2>3, <2>4, <2>5, <2>6, SessionMoves
  <1>2. CASE Schedule(s)
    <2>1. UNCHANGED <<disk, job, pruned>> /\ ops' \in Nat /\ mishaps' \in Nat
      BY <1>2, <1>t DEF Schedule, TypeOK
    <2>2. CASE Move(s, "load")
      <3> DEFINE new == [ses[s] EXCEPT !.pc = "load", !.file = 1]
      <3>1. 1 \in 1 .. 4 /\ "load" \in PCs
        BY DEF PCs
      <3>2. new \in SessionType /\ new.item = ses[s].item /\ new.pc = "load"
        BY <1>t, <3>1 DEF SessionType
      <3>3. ses' = [ses EXCEPT ![s] = new]
        BY <2>2 DEF Move
      <3> HIDE DEF new
      <3>4. QED
        BY <1>t, <2>1, <3>2, <3>3, SessionMoves
    <2>3. CASE End(s)
      BY <2>1, <2>3, SessionEnds
    <2>4. QED
      BY <1>2, <2>2, <2>3 DEF Schedule
  <1>3. CASE AssessItem(s)
    <2>1. Assess(ses[s].item) \in Items /\ IsTrue(Assess(ses[s].item), job)
      BY <1>t, AssessIsTrue
    <2>2. QED
      BY <1>3, <2>1, SessionStores DEF AssessItem
  <1>4. CASE CancelItem(s) \/ RetryItem(s) \/ CiFix(s)
    <2>1. {"cancelled", "created", "running_checks"} \subseteq ItemStatus \ {"done"}
      BY DEF ItemStatus
    <2>2. PICK status \in ItemStatus \ {"done"} :
             Store(s, [ses[s].item EXCEPT !.status = status]) /\ OnlySession
      BY <1>4, <2>1 DEF CancelItem, RetryItem, CiFix
    <2>3. QED
      BY <1>s, <2>2, SessionStores
  <1>5. CASE Annotate(s)
    BY <1>5, <1>t, SessionStores DEF Annotate
  <1>6. CASE Get(s)
    <2>1. UNCHANGED <<disk, job, pruned>> /\ ops' \in Nat /\ mishaps' \in Nat
      BY <1>6, <1>t DEF Get, OnlySession, TypeOK
    <2>2. CASE End(s)
      BY <2>1, <2>2, SessionEnds
    <2>3. CASE Store(s, Reconcile(ses[s].item))
      BY <1>6, <1>r, <2>3, SessionStores DEF Get
    <2>4. QED
      BY <1>6, <2>2, <2>3 DEF Get
  <1>7. CASE Handoff(s)
    <2>1. UNCHANGED <<disk, job, pruned>> /\ ops' \in Nat /\ mishaps' \in Nat
      BY <1>7, <1>t DEF Handoff, OnlySession, TypeOK
    <2>2. CASE End(s)
      BY <2>1, <2>2, SessionEnds
    <2>3. CASE Store(s, [Reconcile(ses[s].item) EXCEPT !.status = "failed"])
      <3>1. "failed" \in ItemStatus \ {"done"}
        BY DEF ItemStatus
      <3>2. /\ [Reconcile(ses[s].item) EXCEPT !.status = "failed"] \in Items
            /\ IsTrue([Reconcile(ses[s].item) EXCEPT !.status = "failed"], job)
        BY <1>r, <3>1, StatusIsTrue
      <3>3. QED
        BY <1>7, <2>3, <3>2, SessionStores DEF Handoff
    <2>4. QED
      BY <1>7, <2>2, <2>3 DEF Handoff
  <1>8. CASE Refused(s)
    BY <1>8, <1>t, SessionEnds DEF Refused, OnlySession, TypeOK
  <1>9. CASE WriteFails(s)
    BY <1>9, <1>t, SessionEnds, MishapCounts DEF WriteFails, TypeOK
  <1>10. QED
    BY <1>1, <1>2, <1>3, <1>4, <1>5, <1>6, <1>7, <1>8, <1>9

(* An operation begins.                                                    *)
LEMMA BeginStep ==
  ASSUME WorkInv, NEW s \in Sessions, NEW op \in Ops, Begin(s, op)
  PROVE  WorkInv'
  <1> DEFINE new == [Idle EXCEPT !.op = op, !.pc = IF op = "dispatch" THEN "list" ELSE "load"]
  <1>1. new \in SessionType /\ new.item = Idle.item /\ new.pc # "enqueue"
    BY IdleIsSession DEF SessionType, PCs
  <1>2. IsTrue(new.item, job)
    BY <1>1, IdleIsSession
  <1>3. ses' = [ses EXCEPT ![s] = new] /\ UNCHANGED <<disk, job, pruned>>
    BY DEF Begin
  <1>4. ops' \in Nat /\ mishaps' \in Nat
    BY MishapCounts DEF Begin, WorkInv, TypeOK
  <1> HIDE DEF new
  <1>5. QED
    BY <1>1, <1>2, <1>3, <1>4, SessionMoves

(* runWorkItem: a node is executable when all it depends on completed.     *)
LEMMA RequestStep ==
  ASSUME WorkInv, NEW s \in Sessions, Request(s)
  PROVE  WorkInv'
  <1> DEFINE planned == Plan(Reconcile(ses[s].item))
             ready == Executable(planned)
  <1>t. TypeOK /\ ses[s] \in SessionType /\ ses[s].item \in Items /\ IsTrue(ses[s].item, job)
    BY DEF WorkInv, TypeOK, SessionType
  <1>1. planned \in Items /\ IsTrue(planned, job)
    BY <1>t, ReconcileIsTrue, PlanIsTrue
  <1>2. CASE ready = {}
    <2> DEFINE status == IF \E n \in Nodes : planned.graph[n].status = "failed" THEN "failed" ELSE planned.status
               item == [planned EXCEPT !.status = status]
    <2>1. Store(s, item) /\ OnlySession
      BY <1>2 DEF Request
    <2> HIDE DEF planned
    <2>2. item \in Items /\ IsTrue(item, job)
      BY <1>1 DEF Items, IsTrue, ItemStatus
    <2> HIDE DEF item
    <2>3. QED
      BY <2>1, <2>2, SessionStores
  <1>3. CASE ready # {}
    <2>1. PICK n \in ready :
             ses' = [ses EXCEPT ![s].pc = "enqueue", ![s].node = n, ![s].item = planned]
      BY <1>3 DEF Request
    <2>2. OnlySession
      BY DEF Request
    <2> HIDE DEF planned
    <2>3. n \in Nodes /\ \A d \in Dependencies(n) : planned.graph[d].status = "completed"
      BY DEF Executable
    <2>4. ASSUME NEW d \in Dependencies(n) PROVE Succeeded(d)
      <3>1. d \in Nodes
        BY <2>3, NodesAndJobs DEF Dependencies
      <3>2. planned.graph[d].run \in Jobs \cup {NoJob}
        BY <1>1, <3>1 DEF Items
      <3>3. /\ planned.graph[d].run # NoJob
            /\ job[planned.graph[d].run].node = d /\ job[planned.graph[d].run].status = "completed"
        BY <1>1, <2>3, <3>1 DEF IsTrue, GraphIsTrue
      <3>4. QED
        BY <3>2, <3>3 DEF Succeeded
    <2> DEFINE new == [ses[s] EXCEPT !.pc = "enqueue", !.node = n, !.item = planned]
    <2>5. ses' = [ses EXCEPT ![s] = new]
      BY <2>1
    <2>6. new \in SessionType /\ new.item = planned /\ new.pc = "enqueue" /\ new.node = n
      <3>1. "enqueue" \in PCs
        BY DEF PCs
      <3>2. QED
        BY <1>t, <1>1, <2>3, <3>1 DEF SessionType
    <2> HIDE DEF new
    <2>7. \A t \in Sessions : ses'[t] = IF t = s THEN new ELSE ses[t]
      BY <1>t, <2>5 DEF TypeOK
    <2>8. TypeOK'
      BY <1>t, <2>2, <2>5, <2>6 DEF TypeOK, SessionType, OnlySession
    <2>9. IsTrue(disk, job)' /\ \A t \in Sessions : IsTrue(ses'[t].item, job')
      BY <1>1, <2>2, <2>6, <2>7 DEF WorkInv, OnlySession
    <2>10. EnqueuesInOrder'
      BY <2>2, <2>4, <2>6, <2>7 DEF WorkInv, EnqueuesInOrder, Succeeded, OnlySession
    <2>11. DependencyOrder'
      BY <2>2 DEF WorkInv, DependencyOrder, Succeeded, OnlySession
    <2>12. QED
      BY <2>8, <2>9, <2>10, <2>11 DEF WorkInv
  <1>4. QED
    BY <1>2, <1>3

(* queue.enqueue: what a node depends on completed before it was chosen,   *)
(* and has not ceased to be completed since.                               *)
LEMMA EnqueueStep ==
  ASSUME WorkInv, NEW s \in Sessions, NEW j \in Jobs, Enqueue(s, j)
  PROVE  WorkInv'
  <1> DEFINE n == ses[s].node
             item == Attach(ses[s].item, n, j)
             new == [ses[s] EXCEPT !.pc = "save", !.file = 1, !.item = item]
  <1>t. TypeOK /\ ses[s] \in SessionType /\ ses[s].item \in Items /\ disk \in Items /\ n \in Nodes
        /\ job \in JobRecords
    BY DEF WorkInv, TypeOK, SessionType, JobRecords
  <1>1. job' = [job EXCEPT ![j] = [node |-> n, status |-> "live"]] /\ job[j].status = "none"
    BY DEF Enqueue
  <1>2. job' \in JobRecords /\ job'[j].node = n /\ job'[j].status = "live"
        /\ \A k \in Jobs \ {j} : job'[k] = job[k]
    BY <1>1, <1>t DEF JobRecords
  <1>3. JobsGrow(job, job')
    BY <1>1, <1>2 DEF JobsGrow, Finished
  <1>4. IsTrue(disk, job') /\ \A t \in Sessions : IsTrue(ses[t].item, job')
    <2>1. \A t \in Sessions : ses[t].item \in Items /\ IsTrue(ses[t].item, job)
      BY <1>t DEF WorkInv, TypeOK
    <2>2. QED
      BY <1>2, <1>3, <1>t, <2>1, TruthStays DEF WorkInv
  <1>5. item \in Items /\ IsTrue(item, job')
    BY <1>2, <1>4, <1>t, AttachIsTrue
  <1>6. ses' = [ses EXCEPT ![s] = new] /\ UNCHANGED <<disk, pruned, ops, mishaps>>
    BY DEF Enqueue, Store
  <1> HIDE DEF item
  <1>7. new \in SessionType /\ new.item = item /\ new.pc = "save"
    <2>1. 1 \in 1 .. 4 /\ "save" \in PCs
      BY DEF PCs
    <2>2. QED
      BY <1>5, <1>t, <2>1 DEF SessionType
  <1> HIDE DEF new
  <1>8. \A t \in Sessions : ses'[t] = IF t = s THEN new ELSE ses[t]
    BY <1>6, <1>t DEF TypeOK
  <1>9. TypeOK'
    BY <1>2, <1>6, <1>7, <1>t DEF TypeOK, SessionType, JobRecords
  <1>10. IsTrue(disk, job)' /\ \A t \in Sessions : IsTrue(ses'[t].item, job')
    BY <1>4, <1>5, <1>6, <1>7, <1>8
  <1>11. \A m \in Nodes : Succeeded(m) => Succeeded(m)'
    BY <1>3 DEF Succeeded, JobsGrow, Finished
  <1>12. \A m \in Nodes : Dependencies(m) \subseteq Nodes
    BY DEF Dependencies
  <1>13. EnqueuesInOrder'
    BY <1>7, <1>8, <1>11, <1>12, <1>t DEF WorkInv, EnqueuesInOrder, TypeOK
  <1>14. \A d \in Dependencies(n) : Succeeded(d)
    BY DEF WorkInv, EnqueuesInOrder, Enqueue
  <1>15. DependencyOrder'
    BY <1>2, <1>11, <1>12, <1>14, <1>t DEF WorkInv, DependencyOrder, JobRecords
  <1>16. QED
    BY <1>9, <1>10, <1>13, <1>15 DEF WorkInv

(* WorkStore.save: one file at a time.                                     *)
LEMMA WriteStep ==
  ASSUME WorkInv, NEW s \in Sessions, Write(s)
  PROVE  WorkInv'
  <1> DEFINE f == ses[s].file
             file == [disk EXCEPT ![Files[f]] = ses[s].item[Files[f]]]
             new == IF f = 4 THEN Idle ELSE [ses[s] EXCEPT !.file = f + 1]
  <1>t. TypeOK /\ ses[s] \in SessionType /\ ses[s].item \in Items /\ disk \in Items /\ f \in 1 .. 4
        /\ IsTrue(ses[s].item, job) /\ IsTrue(disk, job) /\ ses[s].pc = "save"
    BY DEF WorkInv, TypeOK, SessionType, Write
  <1>1. disk' = file /\ UNCHANGED <<job, pruned, ops, mishaps>>
    BY DEF Write
  <1>2. file \in Items /\ IsTrue(file, job)
    BY <1>t, FilesMix
  <1>3. ses' = [ses EXCEPT ![s] = new]
    BY <1>t DEF Write, End, TypeOK
  <1>4. new \in SessionType /\ IsTrue(new.item, job) /\ new.pc # "enqueue"
    <2>1. CASE f = 4
      BY <2>1, IdleIsSession DEF Idle
    <2>2. CASE f # 4
      <3>1. f + 1 \in 1 .. 4
        BY <1>t, <2>2
      <3>2. new \in SessionType /\ new.item = ses[s].item /\ new.pc = ses[s].pc
        BY <1>t, <2>2, <3>1 DEF SessionType
      <3>3. QED
        BY <1>t, <3>2
    <2>3. QED
      BY <2>1, <2>2
  <1> HIDE DEF file, new
  <1>5. \A t \in Sessions : ses'[t] = IF t = s THEN new ELSE ses[t]
    BY <1>3, <1>t DEF TypeOK
  <1>6. TypeOK'
    BY <1>1, <1>2, <1>3, <1>4, <1>t DEF TypeOK, SessionType
  <1>7. IsTrue(disk, job)' /\ \A t \in Sessions : IsTrue(ses'[t].item, job')
    BY <1>1, <1>2, <1>4, <1>5 DEF WorkInv
  <1>8. EnqueuesInOrder' /\ DependencyOrder'
    BY <1>1, <1>4, <1>5 DEF WorkInv, EnqueuesInOrder, DependencyOrder, Succeeded
  <1>9. QED
    BY <1>6, <1>7, <1>8 DEF WorkInv

LEMMA CrashStep == ASSUME WorkInv, Crash PROVE WorkInv'
  <1>1. ses' = [s \in Sessions |-> Idle] /\ UNCHANGED <<disk, job, pruned, ops>>
    BY DEF Crash
  <1>2. mishaps' \in Nat
    BY MishapCounts DEF Crash, WorkInv
  <1>3. \A s \in Sessions : ses'[s] = Idle
    BY <1>1
  <1>4. TypeOK'
    BY <1>1, <1>2, IdleIsSession DEF WorkInv, TypeOK, SessionType
  <1>5. IsTrue(disk, job)' /\ \A t \in Sessions : IsTrue(ses'[t].item, job')
    BY <1>1, <1>3, IdleIsSession DEF WorkInv
  <1>6. EnqueuesInOrder' /\ DependencyOrder'
    BY <1>1, <1>3 DEF WorkInv, EnqueuesInOrder, DependencyOrder, Succeeded, Idle
  <1>7. QED
    BY <1>4, <1>5, <1>6 DEF WorkInv

LEMMA QueueStep ==
  ASSUME WorkInv, NEW j \in Jobs, (\E status \in Finished : Finish(j, status)) \/ Prune(j)
  PROVE  WorkInv'
  <1>t. job \in JobRecords /\ pruned \in SUBSET Jobs
    BY DEF WorkInv, TypeOK, JobRecords
  <1>1. CASE \E status \in Finished : Finish(j, status)
    <2>1. PICK status \in Finished : Finish(j, status)
      BY <1>1
    <2>2. job' = [job EXCEPT ![j] = [job[j] EXCEPT !.status = status]] /\ job[j].status = "live"
      BY <2>1 DEF Finish
    <2>3. job' \in JobRecords /\ job'[j].node = job[j].node /\ job'[j].status = status
          /\ \A k \in Jobs \ {j} : job'[k] = job[k]
      BY <1>t, <2>2 DEF JobRecords
    <2>4. JobsGrow(job, job') /\ \A k \in Jobs : job'[k].status # "none" => job[k].status # "none"
      BY <2>2, <2>3 DEF JobsGrow, Finished
    <2>5. UNCHANGED <<disk, ses, pruned, ops, mishaps>>
      BY <2>1 DEF Finish
    <2>6. QED
      BY <1>t, <2>3, <2>4, <2>5, JobsMove
  <1>2. CASE Prune(j)
    <2>1. job' = job /\ pruned' \in SUBSET Jobs /\ UNCHANGED <<disk, ses, ops, mishaps>>
      BY <1>2, <1>t DEF Prune
    <2>2. JobsGrow(job, job')
      BY <2>1 DEF JobsGrow
    <2>3. QED
      BY <1>t, <2>1, <2>2, JobsMove
  <1>3. QED
    BY <1>1, <1>2

LEMMA WorkStepInv == ASSUME WorkInv, [Next]_vars PROVE WorkInv'
  <1>1. ASSUME NEW s \in Sessions, NEW op \in Ops, Begin(s, op) PROVE WorkInv'
    BY <1>1, BeginStep
  <1>2. ASSUME NEW s \in Sessions,
               \/ Read(s) \/ Schedule(s) \/ AssessItem(s) \/ CancelItem(s) \/ RetryItem(s) \/ CiFix(s)
               \/ Annotate(s) \/ Get(s) \/ Handoff(s) \/ Refused(s) \/ WriteFails(s)
        PROVE  WorkInv'
    BY <1>2, SessionSteps
  <1>3. ASSUME NEW s \in Sessions, Request(s) PROVE WorkInv'
    BY <1>3, RequestStep
  <1>4. ASSUME NEW s \in Sessions, NEW j \in Jobs, Enqueue(s, j) PROVE WorkInv'
    BY <1>4, EnqueueStep
  <1>5. ASSUME NEW s \in Sessions, Write(s) PROVE WorkInv'
    BY <1>5, WriteStep
  <1>6. ASSUME NEW j \in Jobs, (\E status \in Finished : Finish(j, status)) \/ Prune(j) PROVE WorkInv'
    BY <1>6, QueueStep
  <1>7. CASE Crash
    BY <1>7, CrashStep
  <1>8. CASE UNCHANGED vars
    BY <1>8 DEF vars, WorkInv, TypeOK, EnqueuesInOrder, DependencyOrder, Succeeded
  <1>9. QED
    BY <1>1, <1>2, <1>3, <1>4, <1>5, <1>6, <1>7, <1>8 DEF Next

LEMMA WorkInvIsEarned == WorkInv => WorkIsEarned
  <1> SUFFICES ASSUME WorkInv PROVE WorkIsEarned
    OBVIOUS
  <1>1. DoneIsEarned
    BY DEF WorkInv, IsTrue, AllSettled, DoneIsEarned, Settled
  <1>2. EvidenceIsReal
    <2>1. \A n \in Nodes : disk.checklist[n].ref \in Jobs \cup {NoJob}
      BY DEF WorkInv, TypeOK, Items
    <2>2. ChecklistIsTrue(disk.checklist, job)
      BY DEF WorkInv, IsTrue
    <2>3. QED
      BY <2>1, <2>2 DEF ChecklistIsTrue, EvidenceIsReal
  <1>3. QED
    BY <1>1, <1>2 DEF WorkIsEarned, WorkInv

----------------------------------------------------------------------------
(* Operations that do not overlap, and that save all they have to.  The    *)
(* graph is exact when it has the newest job of every node: a node is      *)
(* pending only without a job, and failed only when its newest job failed. *)

Queued == {j \in Jobs : job[j].status # "none"}

GraphIsExact(graph) ==
    /\ \A n \in Nodes :
         /\ \A j \in Queued : job[j].node = n => graph[n].run # NoJob /\ j <= graph[n].run
         /\ graph[n].status \in {"pending", "none"} => graph[n].run = NoJob
         /\ graph[n].status = "failed" => graph[n].run # NoJob /\ job[graph[n].run].status = "failed"
    /\ \A m, n \in Nodes : graph[m].status = "none" => graph[n].status = "none"

IsExact(item) == GraphIsExact(item.graph) /\ item.runs = Queued

(* What is completed on disk is completed in the copy that replaces it.    *)
Keeps(graph) == \A n \in Nodes : disk.graph[n].status = "completed" => graph[n].status = "completed"

(* The queue names its jobs in the order in which they came.               *)
JobsInOrder == \A j \in Jobs : \A k \in Queued : j < k => j \in Queued

RetriesFollowFailures ==
    \A j, k \in Queued : j < k /\ job[j].node = job[k].node => job[j].status = "failed"

Alone == \A s, t \in Sessions : ses[s].pc # "idle" /\ ses[t].pc # "idle" => s = t

(* The one session under way: what it has read so far is what is on disk,  *)
(* its copy is exact from then on, and what it has saved is its copy.      *)
CopyIsExact(session) ==
    /\ session.pc \in {"list", "load"} /\ session.file > 2 => session.item.graph = disk.graph
    /\ session.pc \in {"handle", "enqueue", "save"} => IsExact(session.item) /\ Keeps(session.item.graph)
    /\ session.pc = "enqueue" => session.item.graph[session.node].status \in {"pending", "failed"}
    /\ session.pc = "save" /\ session.file > 2 => session.item.graph = disk.graph

UndisturbedInv ==
    /\ WorkInv
    /\ JobsInOrder
    /\ mishaps = 0 =>
         /\ Alone
         /\ RetriesFollowFailures
         /\ (\A s \in Sessions : ses[s].pc # "save") => IsExact(disk)
         /\ \A s \in Sessions : CopyIsExact(ses[s])

----------------------------------------------------------------------------
LEMMA ReconcileIsExact ==
  ASSUME TypeOK, NEW item \in Items, IsTrue(item, job), IsExact(item), Keeps(item.graph)
  PROVE  IsExact(Reconcile(item)) /\ Keeps(Reconcile(item).graph)
  <1> DEFINE graph == Reconciled(item)
  <1>1. \A n \in Nodes : item.graph[n] \in [status : NodeStatus \cup {"none"}, run : Jobs \cup {NoJob}]
    BY DEF Items
  <1>2. \A j \in Jobs : /\ GraphStatus(j) \in {"completed", "failed", "skipped", "running"}
                        /\ GraphStatus(j) = "failed" => job[j].status = "failed"
                        /\ job[j].status = "completed" => GraphStatus(j) = "completed"
    BY DEF GraphStatus
  <1>3. Readable(item) \subseteq Jobs
    BY DEF Readable
  <1>4. \A n \in Nodes :
          /\ graph[n].run = item.graph[n].run
          /\ graph[n].status = IF item.graph[n].run \in Readable(item)
                               THEN GraphStatus(item.graph[n].run) ELSE item.graph[n].status
    BY <1>1 DEF Reconciled
  <1>5. \A n \in Nodes : item.graph[n].status = "none" => item.graph[n].run \notin Readable(item)
    BY <1>1, <1>3, NodesAndJobs DEF IsExact, GraphIsExact
  <1> HIDE DEF graph
  <1>6. GraphIsExact(graph)
    <2>1. ASSUME NEW n \in Nodes
          PROVE  /\ \A j \in Queued : job[j].node = n => graph[n].run # NoJob /\ j <= graph[n].run
                 /\ graph[n].status \in {"pending", "none"} => graph[n].run = NoJob
                 /\ graph[n].status = "failed" => graph[n].run # NoJob /\ job[graph[n].run].status = "failed"
      BY <1>2, <1>3, <1>4, NodesAndJobs DEF IsExact, GraphIsExact
    <2>2. ASSUME NEW m \in Nodes, NEW n \in Nodes, graph[m].status = "none"
          PROVE  graph[n].status = "none"
      <3>1. item.graph[m].status = "none"
        BY <1>2, <1>3, <1>4, <2>2
      <3>2. item.graph[n].status = "none"
        BY <3>1 DEF IsExact, GraphIsExact
      <3>3. QED
        BY <1>4, <1>5, <3>2
    <2>3. QED
      BY <2>1, <2>2 DEF GraphIsExact
  <1>7. Keeps(graph)
    BY <1>2, <1>3, <1>4 DEF Keeps, IsTrue, GraphIsTrue
  <1>8. Reconcile(item).graph = (IF Readable(item) = {} THEN item.graph ELSE graph)
        /\ Reconcile(item).runs = item.runs
    BY DEF Reconcile, Items, graph
  <1>9. QED
    BY <1>6, <1>7, <1>8 DEF IsExact

LEMMA AssessIsExact ==
  ASSUME TypeOK, NEW item \in Items, IsExact(item), Keeps(item.graph)
  PROVE  IsExact(Assess(item)) /\ Keeps(Assess(item).graph)
  <1>1. Assess(item).runs = item.runs
        /\ Assess(item).graph = IF HasGraph(item) THEN item.graph
                                ELSE [n \in Nodes |-> [status |-> "pending", run |-> NoJob]]
    BY DEF Assess, Items
  <1>2. CASE HasGraph(item)
    BY <1>1, <1>2 DEF IsExact
  <1>3. CASE ~HasGraph(item)
    <2>1. \A n \in Nodes : item.graph[n].status = "none" /\ item.graph[n].run = NoJob
      BY <1>3 DEF HasGraph, IsExact, GraphIsExact
    <2>2. \A j \in Queued : FALSE
      BY <2>1 DEF IsExact, GraphIsExact, Queued, TypeOK
    <2>3. \A n \in Nodes : Assess(item).graph[n] = [status |-> "pending", run |-> NoJob]
      BY <1>1, <1>3
    <2>4. GraphIsExact(Assess(item).graph)
      BY <2>2, <2>3 DEF GraphIsExact
    <2>5. Keeps(Assess(item).graph)
      BY <2>1 DEF Keeps
    <2>6. QED
      BY <1>1, <2>4, <2>5 DEF IsExact
  <1>4. QED
    BY <1>2, <1>3

LEMMA StatusIsExact ==
  ASSUME NEW item \in Items, NEW status
  PROVE  /\ [item EXCEPT !.status = status].graph = item.graph
         /\ [item EXCEPT !.status = status].runs = item.runs
  BY DEF Items

LEMMA PlanIsExact ==
  ASSUME TypeOK, NEW item \in Items, IsTrue(item, job), IsExact(item), Keeps(item.graph)
  PROVE  IsExact(Plan(item)) /\ Keeps(Plan(item).graph)
  <1>1. Assess(item) \in Items /\ IsExact(Assess(item)) /\ Keeps(Assess(item).graph)
    BY AssessIsTrue, AssessIsExact
  <1>2. QED
    BY <1>1, StatusIsExact DEF Plan, IsExact

(* What one file of an item brings of the graph and the runs.              *)
LEMMA FileBrings ==
  ASSUME NEW item \in Items, NEW other \in Items, NEW f \in 1 .. 4
  PROVE  /\ [item EXCEPT ![Files[f]] = other[Files[f]]].graph = IF f = 2 THEN other.graph ELSE item.graph
         /\ [item EXCEPT ![Files[f]] = other[Files[f]]].runs = IF f = 4 THEN other.runs ELSE item.runs
  <1>1. CASE f = 1
    BY <1>1 DEF Files, Items
  <1>2. CASE f = 2
    BY <1>2 DEF Files, Items
  <1>3. CASE f = 3
    BY <1>3 DEF Files, Items
  <1>4. CASE f = 4
    BY <1>4 DEF Files, Items
  <1>5. QED
    BY <1>1, <1>2, <1>3, <1>4

LEMMA UndisturbedInit == Init => UndisturbedInv
  <1> SUFFICES ASSUME Init PROVE UndisturbedInv
    OBVIOUS
  <1>1. WorkInv
    BY WorkInitInv
  <1>2. \A s \in Sessions : ses[s].pc = "idle"
    BY DEF Init, Idle
  <1>3. Queued = {}
    BY DEF Init, Queued
  <1>4. disk.runs = {} /\ \A n \in Nodes : disk.graph[n] = [status |-> "none", run |-> NoJob]
    BY DEF Init, Created, NoGraph
  <1>5. IsExact(disk)
    BY <1>3, <1>4 DEF IsExact, GraphIsExact
  <1>6. QED
    BY <1>1, <1>2, <1>3, <1>5 DEF UndisturbedInv, JobsInOrder, RetriesFollowFailures, Alone, CopyIsExact

(* A session that is not saving moves on; the files and jobs stay.         *)
LEMMA UndisturbedMoves ==
  ASSUME UndisturbedInv, WorkInv', NEW s \in Sessions, NEW new, ses' = [ses EXCEPT ![s] = new],
         UNCHANGED <<disk, job>>, ses[s].pc # "save",
         mishaps' = 0 => /\ mishaps = 0
                         /\ \A t \in Sessions \ {s} : new.pc # "idle" => ses[t].pc = "idle"
                         /\ CopyIsExact(new)
  PROVE  UndisturbedInv'
  <1>1. \A t \in Sessions : ses'[t] = IF t = s THEN new ELSE ses[t]
    BY DEF UndisturbedInv, WorkInv, TypeOK
  <1>2. JobsInOrder' /\ Queued' = Queued
    BY DEF UndisturbedInv, JobsInOrder, Queued
  <1>3. RetriesFollowFailures => RetriesFollowFailures'
    BY <1>2 DEF RetriesFollowFailures
  <1>4. \A item : (IsExact(item) => IsExact(item)') 
    BY <1>2 DEF IsExact, GraphIsExact
  <1>5. QED
    BY <1>1, <1>2, <1>3, <1>4 DEF UndisturbedInv, Alone, CopyIsExact, Keeps

LEMMA UndisturbedEnds ==
  ASSUME UndisturbedInv, WorkInv', NEW s \in Sessions, End(s), UNCHANGED <<disk, job>>,
         ses[s].pc # "save", mishaps' = 0 => mishaps = 0
  PROVE  UndisturbedInv'
  <1>1. Idle.pc = "idle"
    BY DEF Idle
  <1>2. CopyIsExact(Idle)
    BY <1>1 DEF CopyIsExact
  <1> HIDE DEF Idle
  <1>3. QED
    BY <1>1, <1>2, UndisturbedMoves DEF End

(* The session under way saves a copy that is exact.                       *)
LEMMA UndisturbedStores ==
  ASSUME UndisturbedInv, WorkInv', NEW s \in Sessions, NEW item, Store(s, item), OnlySession,
         ses[s].pc = "handle", mishaps = 0 => IsExact(item) /\ Keeps(item.graph)
  PROVE  UndisturbedInv'
  <1> DEFINE new == [ses[s] EXCEPT !.pc = "save", !.file = 1, !.item = item]
  <1>1. new.pc = "save" /\ new.file = 1 /\ new.item = item
    <2>1. ses[s] \in SessionType
      BY DEF UndisturbedInv, WorkInv, TypeOK, SessionType
    <2>2. QED
      BY <2>1 DEF SessionType
  <1>2. ses' = [ses EXCEPT ![s] = new]
    BY DEF Store
  <1> HIDE DEF new
  <1>3. mishaps = 0 => CopyIsExact(new)
    BY <1>1 DEF CopyIsExact
  <1>4. mishaps = 0 => \A t \in Sessions \ {s} : ses[t].pc = "idle"
    BY DEF UndisturbedInv, Alone
  <1>5. QED
    BY <1>2, <1>3, <1>4, UndisturbedMoves DEF OnlySession

LEMMA UndisturbedSessionSteps ==
  ASSUME UndisturbedInv, WorkInv', NEW s \in Sessions,
         \/ Read(s) \/ Schedule(s) \/ AssessItem(s) \/ CancelItem(s) \/ RetryItem(s) \/ CiFix(s)
         \/ Annotate(s) \/ Get(s) \/ Handoff(s) \/ Refused(s)
  PROVE  UndisturbedInv'
  <1>t. TypeOK /\ ses[s] \in SessionType /\ ses[s].item \in Items /\ disk \in Items /\ IsTrue(ses[s].item, job)
    BY DEF UndisturbedInv, WorkInv, TypeOK, SessionType
  <1>a. mishaps = 0 => \A t \in Sessions \ {s} : ses[s].pc # "idle" => ses[t].pc = "idle"
    BY DEF UndisturbedInv, Alone
  <1>h. ses[s].pc = "handle" /\ mishaps = 0 => IsExact(ses[s].item) /\ Keeps(ses[s].item.graph)
    BY DEF UndisturbedInv, CopyIsExact
  <1>s. \A item \in Items : \A status : IsExact(item) /\ Keeps(item.graph) =>
          IsExact([item EXCEPT !.status = status]) /\ Keeps([item EXCEPT !.status = status].graph)
    BY StatusIsExact DEF IsExact
  <1>r. ses[s].pc = "handle" /\ mishaps = 0 =>
          /\ Reconcile(ses[s].item) \in Items
          /\ IsExact(Reconcile(ses[s].item)) /\ Keeps(Reconcile(ses[s].item).graph)
    BY <1>t, <1>h, ReconcileIsTrue, ReconcileIsExact
  <1>1. CASE Read(s)
    <2> DEFINE f == ses[s].file
               item == [ses[s].item EXCEPT ![Files[f]] = disk[Files[f]]]
               pc == IF f # 4 THEN ses[s].pc ELSE IF ses[s].pc = "list" THEN "schedule" ELSE "handle"
               new == [ses[s] EXCEPT !.item = item, !.file = IF f = 4 THEN 1 ELSE f + 1, !.pc = pc]
    <2>1. f \in 1 .. 4 /\ ses[s].pc \in {"list", "load"}
      BY <1>1, <1>t DEF SessionType, Read
    <2>2. /\ item.graph = IF f = 2 THEN disk.graph ELSE ses[s].item.graph
          /\ item.runs = IF f = 4 THEN disk.runs ELSE ses[s].item.runs
      BY <1>t, <2>1, FileBrings
    <2>3. ses' = [ses EXCEPT ![s] = new] /\ UNCHANGED <<disk, job, mishaps>>
      <3>1. ses' = [ses EXCEPT ![s].item = item, ![s].file = IF f = 4 THEN 1 ELSE f + 1, ![s].pc = pc]
        BY <1>1, <1>t, <2>1 DEF Read, SessionType, TypeOK
      <3> HIDE DEF item, pc
      <3>2. QED
        BY <1>1, <3>1 DEF Read
    <2> HIDE DEF item
    <2>4. new.item = item /\ new.file = (IF f = 4 THEN 1 ELSE f + 1) /\ new.pc = pc
      BY <1>t DEF SessionType
    <2> HIDE DEF new
    <2>5. mishaps = 0 => IsExact(disk) /\ Keeps(disk.graph)
      BY <1>a, <2>1 DEF UndisturbedInv, Keeps
    <2>6. mishaps = 0 => (f > 2 => ses[s].item.graph = disk.graph)
      BY <2>1 DEF UndisturbedInv, CopyIsExact
    <2>7. mishaps = 0 => CopyIsExact(new)
      <3>1. CASE f = 4
        BY <2>1, <2>2, <2>4, <2>5, <2>6, <3>1 DEF CopyIsExact, IsExact
      <3>2. CASE f # 4
        BY <2>1, <2>2, <2>4, <2>6, <3>2 DEF CopyIsExact
      <3>3. QED
        BY <3>1, <3>2
    <2>8. QED
      BY <1>a, <2>1, <2>3, <2>7, UndisturbedMoves
  <1>2. CASE Schedule(s)
    <2>1. UNCHANGED <<disk, job, mishaps>> /\ ses[s].pc = "schedule"
      BY <1>2 DEF Schedule
    <2>2. CASE Move(s, "load")
      <3> DEFINE new == [ses[s] EXCEPT !.pc = "load", !.file = 1]
      <3>1. new.pc = "load" /\ new.file = 1
        BY <1>t DEF SessionType
      <3>2. ses' = [ses EXCEPT ![s] = new]
        BY <2>2 DEF Move
      <3> HIDE DEF new
      <3>3. CopyIsExact(new)
        BY <3>1 DEF CopyIsExact
      <3>4. QED
        BY <1>a, <2>1, <3>2, <3>3, UndisturbedMoves
    <2>3. CASE End(s)
      BY <2>1, <2>3, UndisturbedEnds
    <2>4. QED
      BY <1>2, <2>2, <2>3 DEF Schedule
  <1>3. CASE AssessItem(s)
    BY <1>3, <1>h, <1>t, AssessIsExact, UndisturbedStores DEF AssessItem, Handles
  <1>4. CASE CancelItem(s) \/ RetryItem(s) \/ CiFix(s)
    <2>1. PICK status : Store(s, [ses[s].item EXCEPT !.status = status]) /\ OnlySession
      BY <1>4 DEF CancelItem, RetryItem, CiFix
    <2>2. ses[s].pc = "handle"
      BY <1>4 DEF CancelItem, RetryItem, CiFix, Handles
    <2>3. QED
      BY <1>h, <1>s, <1>t, <2>1, <2>2, UndisturbedStores
  <1>5. CASE Annotate(s)
    BY <1>5, <1>h, <1>t, UndisturbedStores DEF Annotate, Handles
  <1>6. CASE Get(s)
    <2>1. OnlySession /\ ses[s].pc = "handle"
      BY <1>6 DEF Get, Handles
    <2>2. QED
      BY <1>6, <1>r, <2>1, UndisturbedEnds, UndisturbedStores DEF Get, OnlySession
  <1>7. CASE Handoff(s)
    <2>1. OnlySession /\ ses[s].pc = "handle"
      BY <1>7 DEF Handoff, Handles
    <2>2. QED
      BY <1>7, <1>r, <1>s, <2>1, UndisturbedEnds, UndisturbedStores DEF Handoff, OnlySession
  <1>8. CASE Refused(s)
    BY <1>8, UndisturbedEnds DEF Refused, OnlySession
  <1>9. QED
    BY <1>1, <1>2, <1>3, <1>4, <1>5, <1>6, <1>7, <1>8

(* An operation that begins while another is under way is a mishap, and so *)
(* are a failed write and a crash.                                         *)
LEMMA UndisturbedBegins ==
  ASSUME UndisturbedInv, WorkInv', NEW s \in Sessions, NEW op \in Ops, Begin(s, op)
  PROVE  UndisturbedInv'
  <1> DEFINE new == [Idle EXCEPT !.op = op, !.pc = IF op = "dispatch" THEN "list" ELSE "load"]
  <1>1. new.pc \in {"list", "load"} /\ new.file = 1
    BY DEF Idle
  <1>2. ses' = [ses EXCEPT ![s] = new] /\ UNCHANGED <<disk, job>> /\ ses[s].pc = "idle"
    BY DEF Begin
  <1>3. mishaps' = 0 => mishaps = 0 /\ \A t \in Sessions \ {s} : ses[t].pc = "idle"
    BY DEF Begin, Mishap, UndisturbedInv, WorkInv, TypeOK
  <1> HIDE DEF new
  <1>4. CopyIsExact(new)
    BY <1>1 DEF CopyIsExact
  <1>5. QED
    BY <1>2, <1>3, <1>4, UndisturbedMoves

LEMMA UndisturbedMishaps ==
  ASSUME UndisturbedInv, WorkInv', Mishap, UNCHANGED job
  PROVE  UndisturbedInv'
  <1>1. mishaps' # 0
    BY DEF Mishap, UndisturbedInv, WorkInv, TypeOK
  <1>2. JobsInOrder'
    BY DEF UndisturbedInv, JobsInOrder, Queued
  <1>3. QED
    BY <1>1, <1>2 DEF UndisturbedInv

(* runWorkItem: the node that is chosen has no job, or its newest failed.  *)
LEMMA UndisturbedRequests ==
  ASSUME UndisturbedInv, WorkInv', NEW s \in Sessions, Request(s)
  PROVE  UndisturbedInv'
  <1> DEFINE planned == Plan(Reconcile(ses[s].item))
             ready == Executable(planned)
  <1>t. TypeOK /\ ses[s] \in SessionType /\ ses[s].item \in Items /\ IsTrue(ses[s].item, job)
        /\ ses[s].pc = "handle"
    BY DEF UndisturbedInv, WorkInv, TypeOK, SessionType, Request
  <1>1. planned \in Items
    BY <1>t, ReconcileIsTrue, PlanIsTrue
  <1>2. mishaps = 0 => IsExact(planned) /\ Keeps(planned.graph)
    <2>1. mishaps = 0 => IsExact(ses[s].item) /\ Keeps(ses[s].item.graph)
      BY <1>t DEF UndisturbedInv, CopyIsExact
    <2>2. QED
      BY <1>t, <2>1, ReconcileIsTrue, ReconcileIsExact, PlanIsExact
  <1>3. OnlySession
    BY DEF Request
  <1>4. CASE ready = {}
    <2> DEFINE status == IF \E n \in Nodes : planned.graph[n].status = "failed" THEN "failed" ELSE planned.status
    <2>1. Store(s, [planned EXCEPT !.status = status])
      BY <1>4 DEF Request
    <2> HIDE DEF planned, status
    <2>2. mishaps = 0 => IsExact([planned EXCEPT !.status = status])
                         /\ Keeps([planned EXCEPT !.status = status].graph)
      BY <1>1, <1>2, StatusIsExact DEF IsExact
    <2>3. QED
      BY <1>3, <1>t, <2>1, <2>2, UndisturbedStores
  <1>5. CASE ready # {}
    <2>1. PICK n \in ready :
             ses' = [ses EXCEPT ![s].pc = "enqueue", ![s].node = n, ![s].item = planned]
      BY <1>5 DEF Request
    <2> HIDE DEF planned
    <2>2. n \in Nodes /\ planned.graph[n].status \in {"pending", "failed"}
      BY DEF Executable
    <2> DEFINE new == [ses[s] EXCEPT !.pc = "enqueue", !.node = n, !.item = planned]
    <2>3. ses' = [ses EXCEPT ![s] = new]
      BY <2>1
    <2>4. new.item = planned /\ new.pc = "enqueue" /\ new.node = n
      BY <1>t DEF SessionType
    <2> HIDE DEF new
    <2>5. mishaps = 0 => CopyIsExact(new)
      BY <1>2, <2>2, <2>4 DEF CopyIsExact
    <2>6. mishaps = 0 => \A t \in Sessions \ {s} : ses[t].pc = "idle"
      BY <1>t DEF UndisturbedInv, Alone
    <2>7. QED
      BY <1>3, <1>t, <2>3, <2>5, <2>6, UndisturbedMoves DEF OnlySession
  <1>6. QED
    BY <1>4, <1>5


(* queue.enqueue: the new job is the newest of its node, and the copy has  *)
(* it; what ran for the node before has failed.                            *)
LEMMA UndisturbedEnqueues ==
  ASSUME UndisturbedInv, WorkInv', NEW s \in Sessions, NEW j \in Jobs, Enqueue(s, j)
  PROVE  UndisturbedInv'
  <1> DEFINE n == ses[s].node
             old == ses[s].item
             item == Attach(old, n, j)
             new == [ses[s] EXCEPT !.pc = "save", !.file = 1, !.item = item]
  <1>t. TypeOK /\ ses[s] \in SessionType /\ old \in Items /\ n \in Nodes /\ job \in JobRecords
        /\ IsTrue(old, job) /\ ses[s].pc = "enqueue"
    BY DEF UndisturbedInv, WorkInv, TypeOK, SessionType, JobRecords, Enqueue
  <1>1. job' = [job EXCEPT ![j] = [node |-> n, status |-> "live"]] /\ job[j].status = "none"
    BY DEF Enqueue
  <1>2. job'[j].node = n /\ job'[j].status = "live" /\ \A k \in Jobs \ {j} : job'[k] = job[k]
    BY <1>1, <1>t DEF JobRecords
  <1>3. Queued' = Queued \cup {j} /\ j \notin Queued
    BY <1>1, <1>2 DEF Queued
  <1>4. \A k \in Queued : k < j
    <2>1. \A k \in Queued : ~(j < k)
      BY <1>3 DEF UndisturbedInv, JobsInOrder
    <2>2. Queued \subseteq Jobs
      BY DEF Queued
    <2>3. QED
      BY <1>3, <2>1, <2>2, NodesAndJobs
  <1>5. JobsInOrder'
    <2>1. \A k \in Jobs : k < j => k \in Queued
      BY NodesAndJobs DEF Enqueue, Queued
    <2>2. QED
      BY <1>3, <2>1 DEF UndisturbedInv, JobsInOrder
  <1>6. ses' = [ses EXCEPT ![s] = new] /\ UNCHANGED <<disk, mishaps>>
    BY DEF Enqueue, Store
  <1>7. new.pc = "save" /\ new.file = 1 /\ new.item = item
    BY <1>t DEF SessionType
  <1>8. /\ item.graph = [old.graph EXCEPT ![n] = [status |-> "running", run |-> j]]
        /\ item.runs = old.runs \cup {j}
    BY <1>t DEF Attach, Items
  <1> HIDE DEF new, item
  <1>9. \A t \in Sessions : ses'[t] = IF t = s THEN new ELSE ses[t]
    BY <1>6, <1>t DEF TypeOK
  <1>10. SUFFICES ASSUME mishaps = 0
         PROVE  /\ Alone'
                /\ RetriesFollowFailures'
                /\ (\A t \in Sessions : ses'[t].pc # "save") => IsExact(disk)'
                /\ \A t \in Sessions : CopyIsExact(ses[t])'
    BY <1>5, <1>6 DEF UndisturbedInv
  <1>11. /\ IsExact(old) /\ Keeps(old.graph) /\ old.graph[n].status \in {"pending", "failed"}
         /\ RetriesFollowFailures
    BY <1>10, <1>t DEF UndisturbedInv, CopyIsExact
  <1>12. \A t \in Sessions \ {s} : ses[t].pc = "idle"
    BY <1>10, <1>t DEF UndisturbedInv, Alone
  <1>13. \A m \in Nodes : item.graph[m] = IF m = n THEN [status |-> "running", run |-> j] ELSE old.graph[m]
    BY <1>8, <1>t DEF Items
  <1>14. \A m \in Nodes : old.graph[m].run \in Jobs \cup {NoJob}
    BY <1>t DEF Items
  <1>15. \A m \in Nodes : old.graph[m].status # "none"
    BY <1>11, <1>t DEF IsExact, GraphIsExact
  <1>16. IsExact(ses[s].item)'
    <2>0. ses'[s].item = item
      BY <1>7, <1>9
    <2>1. item.runs = Queued'
      BY <1>3, <1>8, <1>11 DEF IsExact
    <2>2. ASSUME NEW m \in Nodes
          PROVE  /\ \A k \in Queued' : job'[k].node = m => item.graph[m].run # NoJob /\ k <= item.graph[m].run
                 /\ item.graph[m].status \in {"pending", "none"} => item.graph[m].run = NoJob
                 /\ item.graph[m].status = "failed" =>
                      item.graph[m].run # NoJob /\ job'[item.graph[m].run].status = "failed"
      <3>1. CASE m = n
        BY <1>3, <1>4, <1>13, <3>1, NodesAndJobs DEF Queued
      <3>2. CASE m # n
        BY <1>1, <1>2, <1>3, <1>11, <1>13, <1>14, <3>2 DEF IsExact, GraphIsExact, Queued
      <3>3. QED
        BY <3>1, <3>2
    <2>3. \A m \in Nodes : item.graph[m].status # "none"
      BY <1>13, <1>15
    <2> HIDE DEF n
    <2>4. GraphIsExact(ses[s].item.graph)'
      BY <2>0, <2>2, <2>3 DEF GraphIsExact
    <2>5. QED
      BY <2>0, <2>1, <2>4 DEF IsExact
  <1>17. Keeps(ses[s].item.graph)'
    BY <1>6, <1>7, <1>9, <1>11, <1>13 DEF Keeps
  <1>18. RetriesFollowFailures'
    <2>1. \A k \in Queued : job[k].node = n => job[k].status = "failed"
      <3>1. ASSUME NEW k \in Queued, job[k].node = n PROVE job[k].status = "failed"
        <4>1. old.graph[n].run \in Queued /\ job[old.graph[n].run].node = n /\ k <= old.graph[n].run
              /\ old.graph[n].status = "failed"
          BY <1>11, <1>14, <1>t, <3>1 DEF IsExact, GraphIsExact, IsTrue, GraphIsTrue, Queued
        <4>2. job[old.graph[n].run].status = "failed"
          BY <1>11, <1>t, <4>1 DEF IsExact, GraphIsExact
        <4>3. k = old.graph[n].run \/ k < old.graph[n].run
          <5>1. \A l, m \in Nat : l <= m => l = m \/ l < m
            OBVIOUS
          <5>2. k \in Nat /\ old.graph[n].run \in Nat
            BY <3>1, <4>1, NodesAndJobs DEF Queued
          <5>3. QED
            BY <4>1, <5>1, <5>2
        <4>4. QED
          BY <1>11, <3>1, <4>1, <4>2, <4>3 DEF RetriesFollowFailures
      <3>2. QED
        BY <3>1
    <2>2. ASSUME NEW k \in Queued', NEW l \in Queued', k < l, job'[k].node = job'[l].node
          PROVE  job'[k].status = "failed"
      <3>1. CASE l = j
        <4>1. k \in Queued
          BY <1>3, <2>2, <3>1, NodesAndJobs
        <4>2. QED
          BY <1>1, <1>2, <2>1, <2>2, <3>1, <4>1 DEF Queued
      <3>2. CASE l # j
        <4>1. l \in Queued /\ k \in Queued
          <5>1. l \in Queued
            BY <1>3, <3>2
          <5>2. k # j
            BY <1>4, <2>2, <5>1, NodesAndJobs DEF Queued
          <5>3. QED
            BY <1>3, <5>1, <5>2
        <4>2. QED
          BY <1>1, <1>2, <1>11, <2>2, <4>1 DEF RetriesFollowFailures, Queued
      <3>3. QED
        BY <3>1, <3>2
    <2>3. QED
      BY <2>2 DEF RetriesFollowFailures
  <1>19. QED
    BY <1>7, <1>9, <1>12, <1>16, <1>17, <1>18 DEF Alone, CopyIsExact

(* WorkStore.save: when the last file is written the files are the copy.   *)
LEMMA UndisturbedWrites ==
  ASSUME UndisturbedInv, WorkInv', NEW s \in Sessions, Write(s)
  PROVE  UndisturbedInv'
  <1> DEFINE f == ses[s].file
             item == ses[s].item
             new == IF f = 4 THEN Idle ELSE [ses[s] EXCEPT !.file = f + 1]
  <1>t. TypeOK /\ ses[s] \in SessionType /\ item \in Items /\ disk \in Items /\ f \in 1 .. 4
        /\ ses[s].pc = "save"
    BY DEF UndisturbedInv, WorkInv, TypeOK, SessionType, Write
  <1>1. UNCHANGED <<job, mishaps>> /\ disk' = [disk EXCEPT ![Files[f]] = item[Files[f]]]
    BY DEF Write
  <1>2. /\ disk'.graph = IF f = 2 THEN item.graph ELSE disk.graph
        /\ disk'.runs = IF f = 4 THEN item.runs ELSE disk.runs
    BY <1>1, <1>t, FileBrings
  <1>3. \A t \in Sessions : ses'[t] = IF t = s THEN new ELSE ses[t]
    BY <1>t DEF Write, End, TypeOK
  <1>4. new.pc = (IF f = 4 THEN "idle" ELSE "save") /\ (f # 4 => new.item = item /\ new.file = f + 1)
    BY <1>t DEF Idle, SessionType
  <1> HIDE DEF new
  <1>5. Queued' = Queued /\ JobsInOrder' /\ (RetriesFollowFailures => RetriesFollowFailures')
    BY <1>1 DEF UndisturbedInv, JobsInOrder, Queued, RetriesFollowFailures
  <1>6. \A any : IsExact(any) => IsExact(any)'
    BY <1>1, <1>5 DEF IsExact, GraphIsExact
  <1>7. SUFFICES ASSUME mishaps = 0
        PROVE  /\ Alone'
               /\ RetriesFollowFailures'
               /\ (\A t \in Sessions : ses'[t].pc # "save") => IsExact(disk)'
               /\ \A t \in Sessions : CopyIsExact(ses[t])'
    BY <1>1, <1>5 DEF UndisturbedInv
  <1>8. IsExact(item) /\ Keeps(item.graph) /\ (f > 2 => item.graph = disk.graph) /\ RetriesFollowFailures
    BY <1>7, <1>t DEF UndisturbedInv, CopyIsExact
  <1>9. \A t \in Sessions \ {s} : ses[t].pc = "idle"
    BY <1>7, <1>t DEF UndisturbedInv, Alone
  <1>10. Alone'
    BY <1>3, <1>9 DEF Alone
  <1>11. (\A t \in Sessions : ses'[t].pc # "save") => IsExact(disk)'
    <2>1. CASE f = 4
      <3>1. disk'.graph = item.graph /\ disk'.runs = item.runs
        BY <1>2, <1>8, <2>1
      <3>2. QED
        BY <1>6, <1>8, <3>1 DEF IsExact
    <2>2. CASE f # 4
      BY <1>3, <1>4, <2>2
    <2>3. QED
      BY <2>1, <2>2
  <1>12. (\A n \in Nodes : disk'.graph[n].status = "completed" => item.graph[n].status = "completed")
         /\ (f >= 2 => item.graph = disk'.graph)
    BY <1>2, <1>8, <1>t DEF Keeps
  <1>13. CopyIsExact(ses[s])'
    <2>1. CASE f = 4
      BY <1>3, <1>4, <2>1 DEF CopyIsExact
    <2>2. CASE f # 4
      <3>1. ses'[s].item = item /\ ses'[s].pc = "save" /\ (ses'[s].file > 2 => f >= 2)
        BY <1>3, <1>4, <1>t, <2>2
      <3>2. IsExact(ses[s].item)' /\ Keeps(ses[s].item.graph)'
        BY <1>6, <1>8, <1>12, <3>1 DEF Keeps
      <3>3. QED
        BY <1>12, <3>1, <3>2 DEF CopyIsExact
    <2>3. QED
      BY <2>1, <2>2
  <1>14. \A t \in Sessions : CopyIsExact(ses[t])'
    BY <1>3, <1>9, <1>13 DEF CopyIsExact
  <1>15. QED
    BY <1>5, <1>8, <1>10, <1>11, <1>14

(* A job that ends, or that is pruned, disturbs nothing: what failed has   *)
(* failed, whatever the others come to.                                    *)
LEMMA UndisturbedQueue ==
  ASSUME UndisturbedInv, WorkInv', NEW j \in Jobs, (\E status \in Finished : Finish(j, status)) \/ Prune(j)
  PROVE  UndisturbedInv'
  <1>1. UNCHANGED <<disk, ses, mishaps>>
    BY DEF Finish, Prune
  <1>2. \A k \in Jobs : /\ job'[k].node = job[k].node
                        /\ job[k].status = "failed" => job'[k].status = "failed"
                        /\ job'[k].status = "none" <=> job[k].status = "none"
    <2>1. job \in JobRecords
      BY DEF UndisturbedInv, WorkInv, TypeOK, JobRecords
    <2>2. CASE \E status \in Finished : Finish(j, status)
      <3>1. PICK status \in Finished : Finish(j, status)
        BY <2>2
      <3>2. job' = [job EXCEPT ![j] = [job[j] EXCEPT !.status = status]] /\ job[j].status = "live"
        BY <3>1 DEF Finish
      <3>3. QED
        BY <2>1, <3>2 DEF JobRecords, Finished
    <2>3. CASE Prune(j)
      BY <2>3 DEF Prune
    <2>4. QED
      BY <2>2, <2>3
  <1>3. Queued' = Queued /\ Queued \subseteq Jobs
    BY <1>2 DEF Queued
  <1>4. \A graph \in [Nodes -> [status : NodeStatus \cup {"none"}, run : Jobs \cup {NoJob}]] :
          GraphIsExact(graph) => GraphIsExact(graph)'
    BY <1>2, <1>3 DEF GraphIsExact
  <1>5. \A item \in Items : IsExact(item) => IsExact(item)'
    BY <1>3, <1>4 DEF IsExact, Items
  <1>6. disk \in Items /\ \A s \in Sessions : ses[s].item \in Items
    BY DEF UndisturbedInv, WorkInv, TypeOK
  <1>7. JobsInOrder' /\ (RetriesFollowFailures => RetriesFollowFailures')
    BY <1>2, <1>3 DEF UndisturbedInv, JobsInOrder, RetriesFollowFailures
  <1>8. QED
    BY <1>1, <1>5, <1>6, <1>7 DEF UndisturbedInv, Alone, CopyIsExact, Keeps

LEMMA UndisturbedStep == ASSUME UndisturbedInv, [Next]_vars PROVE UndisturbedInv'
  <1>0. WorkInv'
    BY WorkStepInv DEF UndisturbedInv
  <1>1. ASSUME NEW s \in Sessions, NEW op \in Ops, Begin(s, op) PROVE UndisturbedInv'
    BY <1>0, <1>1, UndisturbedBegins
  <1>2. ASSUME NEW s \in Sessions,
               \/ Read(s) \/ Schedule(s) \/ AssessItem(s) \/ CancelItem(s) \/ RetryItem(s) \/ CiFix(s)
               \/ Annotate(s) \/ Get(s) \/ Handoff(s) \/ Refused(s)
        PROVE  UndisturbedInv'
    BY <1>0, <1>2, UndisturbedSessionSteps
  <1>3. ASSUME NEW s \in Sessions, Request(s) PROVE UndisturbedInv'
    BY <1>0, <1>3, UndisturbedRequests
  <1>4. ASSUME NEW s \in Sessions, NEW j \in Jobs, Enqueue(s, j) PROVE UndisturbedInv'
    BY <1>0, <1>4, UndisturbedEnqueues
  <1>5. ASSUME NEW s \in Sessions, Write(s) PROVE UndisturbedInv'
    BY <1>0, <1>5, UndisturbedWrites
  <1>6. ASSUME NEW j \in Jobs, (\E status \in Finished : Finish(j, status)) \/ Prune(j) PROVE UndisturbedInv'
    BY <1>0, <1>6, UndisturbedQueue
  <1>7. ASSUME (\E s \in Sessions : WriteFails(s)) \/ Crash PROVE UndisturbedInv'
    BY <1>0, <1>7, UndisturbedMishaps DEF WriteFails, Crash
  <1>8. CASE UNCHANGED vars
    BY <1>0, <1>8, SMTT(30) DEF vars, UndisturbedInv, JobsInOrder, Queued, RetriesFollowFailures, Alone, CopyIsExact,
                      IsExact, GraphIsExact, Keeps
  <1>9. QED
    BY <1>1, <1>2, <1>3, <1>4, <1>5, <1>6, <1>7, <1>8 DEF Next

LEMMA UndisturbedInvIsExact == UndisturbedInv => UndisturbedIsExact
  <1> SUFFICES ASSUME UndisturbedInv, mishaps = 0
      PROVE  /\ \A j, k \in Jobs :
                  /\ j # k
                  /\ job[j].node = job[k].node
                  /\ job[j].status # "none"
                  /\ job[k].status # "none"
                  => job[IF j < k THEN j ELSE k].status = "failed"
             /\ (\A s \in Sessions : ses[s].pc = "idle") => disk.runs = {j \in Jobs : job[j].status # "none"}
    BY DEF UndisturbedIsExact
  <1>1. ASSUME NEW j \in Jobs, NEW k \in Jobs, j # k, job[j].node = job[k].node,
               job[j].status # "none", job[k].status # "none"
        PROVE  job[IF j < k THEN j ELSE k].status = "failed"
    <2>1. j \in Queued /\ k \in Queued /\ RetriesFollowFailures
      BY <1>1 DEF Queued, UndisturbedInv
    <2>2. CASE j < k
      BY <1>1, <2>1, <2>2 DEF RetriesFollowFailures
    <2>3. CASE ~(j < k)
      <3>1. k < j
        BY <1>1, <2>3, NodesAndJobs
      <3>2. QED
        BY <1>1, <2>1, <2>3, <3>1 DEF RetriesFollowFailures
    <2>4. QED
      BY <2>2, <2>3
  <1>2. (\A s \in Sessions : ses[s].pc = "idle") => disk.runs = {j \in Jobs : job[j].status # "none"}
    BY DEF UndisturbedInv, IsExact, Queued
  <1>3. QED
    BY <1>1, <1>2

(* Only a write changes a file, and the copy it writes keeps what is       *)
(* completed.                                                              *)
LEMMA UndisturbedKeeps ==
  ASSUME UndisturbedInv, [Next]_vars, mishaps' = 0, NEW n \in Nodes, disk.graph[n].status = "completed"
  PROVE  disk'.graph[n].status = "completed"
  <1>1. ASSUME NEW s \in Sessions, Write(s) PROVE disk'.graph[n].status = "completed"
    <2> DEFINE f == ses[s].file
    <2>1. ses[s].item \in Items /\ disk \in Items /\ f \in 1 .. 4 /\ ses[s].pc = "save" /\ mishaps = 0
      BY <1>1 DEF UndisturbedInv, WorkInv, TypeOK, Write
    <2>2. disk'.graph = IF f = 2 THEN ses[s].item.graph ELSE disk.graph
      BY <1>1, <2>1, FileBrings DEF Write
    <2>3. Keeps(ses[s].item.graph)
      BY <2>1 DEF UndisturbedInv, CopyIsExact
    <2>4. QED
      BY <2>2, <2>3 DEF Keeps
  <1>2. CASE UNCHANGED disk
    BY <1>2
  <1>3. QED
    BY <1>1, <1>2 DEF Next, vars, Begin, Read, Schedule, AssessItem, CancelItem, RetryItem, CiFix, Annotate,
                      Get, Handoff, Request, Enqueue, Refused, WriteFails, Crash, Finish, Prune, OnlySession

----------------------------------------------------------------------------
(* Every file of an item, every copy and every job record is well formed,  *)
(* however the saves are mixed (WorkStore.save).                           *)
THEOREM WorkType == Spec => []TypeOK
  <1>1. WorkInv => TypeOK
    BY DEF WorkInv
  <1>2. Init => WorkInv
    BY WorkInitInv
  <1>3. WorkInv /\ [Next]_vars => WorkInv'
    BY WorkStepInv
  <1>4. QED
    BY <1>1, <1>2, <1>3, PTL DEF Spec

(* A node is run only after what it depends on, an item is done only when  *)
(* all its nodes are settled, and a passed check has a completed job of    *)
(* its own node for evidence (runWorkItem, reconcileWorkItem, syncNodes).  *)
THEOREM WorkSafety == Spec => []WorkIsEarned
  <1>1. Init => WorkInv
    BY WorkInitInv
  <1>2. WorkInv /\ [Next]_vars => WorkInv'
    BY WorkStepInv
  <1>3. QED
    BY <1>1, <1>2, WorkInvIsEarned, PTL DEF Spec

(* While operations do not overlap and no save is cut short: a node has    *)
(* one unfinished job at most, a retry follows a failure, and between      *)
(* operations the item knows all its jobs (createNodeExecutionRequests,    *)
(* attachQueuedRuns, WorkStore.save).                                      *)
THEOREM WorkUndisturbed == Spec => []UndisturbedIsExact
  <1>1. Init => UndisturbedInv
    BY UndisturbedInit
  <1>2. UndisturbedInv /\ [Next]_vars => UndisturbedInv'
    BY UndisturbedStep
  <1>3. QED
    BY <1>1, <1>2, UndisturbedInvIsExact, PTL DEF Spec

(* And a node that is completed on disk stays completed: a retry, a plan   *)
(* and a reconciliation with pruned jobs all keep it (reconcileWorkItem).  *)
THEOREM WorkProgress == Spec => ProgressIsKept
  <1>1. Init => UndisturbedInv
    BY UndisturbedInit
  <1>2. UndisturbedInv /\ [Next]_vars => UndisturbedInv'
    BY UndisturbedStep
  <1>3. UndisturbedInv /\ [Next]_vars =>
          [mishaps' = 0 => \A n \in Nodes : disk.graph[n].status = "completed"
                                            => disk'.graph[n].status = "completed"]_vars
    BY UndisturbedKeeps
  <1>4. QED
    BY <1>1, <1>2, <1>3, PTL DEF Spec, ProgressIsKept
=============================================================================
