---------------------------- MODULE WorkPlanning ----------------------------
(* What the work engine decides about a work item: its graph and checklist *)
(* (work/task-graph.ts, work/checklist.ts), its assessment                 *)
(* (work/assessment.ts), the approval a workflow profile asks for          *)
(* (workflows/workflow-registry.ts), which items run together              *)
(* (work/scheduler.ts), what its pull request's checks say (work/ci.ts)    *)
(* and the lesson drawn from it (work/lesson-exporter.ts).                 *)
EXTENDS RiskRouting

----------------------------------------------------------------------------
(* The graph: a chain of nodes.                                            *)

(* Mutant: a docs item is checked before its pull request only.            *)
KindsUnchecked(item) ==
    (CASE item.type = "review" -> <<"inspect", "check", "review">>
       [] item.type = "docs" -> <<"inspect", "implement">>
       [] OTHER -> <<"inspect", "test", "implement", "check", "review">>)
      \o (IF item.output = "pull_request" THEN <<"pr">> ELSE <<>>)
      \o (IF item.risk \in {"high", "blocked"} THEN <<"ci_fix">> ELSE <<>>)

Kinds(item) ==
    (CASE item.type = "review" -> <<"inspect", "check", "review">>
       [] item.type = "docs" -> <<"inspect", "implement", "check">>
       [] OTHER -> <<"inspect", "test", "implement", "check", "review">>)
      \o (IF item.output = "pull_request" THEN <<"pr">> ELSE <<>>)
      \o (IF item.risk \in {"high", "blocked"} THEN <<"ci_fix">> ELSE <<>>)

DependsOn(n) == {n - 1} \ {0}

(* workflowModeForNode: the workflow of the run that is queued for a node. *)
Mode(item, kind) ==
    CASE kind \in {"review", "inspect", "check"} -> "review"
      [] kind = "ci_fix" -> "fix"
      [] kind = "implement" -> IF item.type = "refactor" THEN "refactor" ELSE "implement"
      [] kind = "test" -> "standard"
      [] OTHER -> IF item.output = "pull_request" THEN "review" ELSE "standard"

(* buildChecklist, and the evidence a profile asks for: an entry begins    *)
(* as "todo"; those that no node stands for are never ticked by a run.     *)
Evidence(profile) ==
    CASE profile = "fast-fix" -> {"scope"}
      [] profile = "balanced" -> {"plan", "verification"}
      [] profile = "superpowers" -> {"plan-artifact", "plan-approval", "changed-files",
                                     "verification", "delivery-approval", "lesson"}
      [] profile = "strict-review" -> {"plan-approval", "delivery-approval", "regression"}
      [] OTHER -> {}

Checklist(item) ==
    [n \in DOMAIN Kinds(item) |-> Kinds(item)[n]]
      \o (IF item.output = "pull_request" THEN <<"pr-body">> ELSE <<>>)
      \o (IF item.risk # "low" THEN <<"full-suite">> ELSE <<>>)
      \o SetToSeq(Evidence(item.profile))

(* Nothing is written by a run before a run has looked, and what was       *)
(* written is checked after it; every node has its own entry of the        *)
(* checklist (buildTaskGraph, buildChecklist, workflowModeForNode): the    *)
(* graph is put together from templates and tails.                         *)
WritesAreChecked(item) ==
    LET kinds == Kinds(item)
        writes(n) == Mode(item, kinds[n]) # "review"
    IN \A n \in DOMAIN kinds :
         /\ writes(n) => DependsOn(n) # {}
         /\ writes(n) /\ kinds[n] # "ci_fix" => \E m \in DOMAIN kinds : m > n /\ kinds[m] = "check"
         /\ \E e \in DOMAIN Checklist(item) : Checklist(item)[e] = kinds[n]
         /\ Cardinality(ToSet(Checklist(item))) = Len(Checklist(item))

----------------------------------------------------------------------------
(* The assessment of an item: the request is what its words mark.          *)

Complexity(r, long) ==
    LET severities == Severities(RiskSignals(r))
    IN IF Approval(r).class \in {"blocked", "high"} \/ "high" \in severities THEN "large"
       ELSE IF long \/ "medium" \in severities THEN "medium" ELSE "small"

Tier(complexity) ==
    CASE complexity = "small" -> 0 [] complexity = "medium" -> 1 [] complexity = "large" -> 2

Assessment(r, long, output) ==
    LET approval == Approval(r)
    IN [class |-> approval.class, tier |-> Tier(Complexity(r, long)),
        branch |-> approval.class # "low" \/ output \in {"branch", "pull_request"},
        human |-> ~approval.auto, suite |-> approval.class # "low"]

(* An item that touches more is not given a smaller model, and one that    *)
(* stops for a human is not planned without a branch of its own.           *)
AssessmentGrows(r, wider, long, output) ==
    LET small == Assessment(r, long, output)
    IN /\ Within(r, wider) => small.tier <= Assessment(wider, long, output).tier
       /\ small.human => small.branch

----------------------------------------------------------------------------
(* tightenApprovalPolicyForProfile.                                        *)

Floor(profile) ==
    CASE profile = "balanced" -> "medium" [] profile \in {"superpowers", "strict-review"} -> "high"
      [] OTHER -> "low"
Gated(profile) == profile \in {"superpowers", "strict-review"}

(* Mutant: the floor of the profile is the class.                          *)
TightenedToFloor(policy, profile) ==
    IF profile = "default" THEN policy
    ELSE [policy EXCEPT !.class = Floor(profile), !.auto = @ /\ Floor(profile) = "low"]

Tightened(policy, profile) ==
    IF profile = "default" THEN policy
    ELSE LET class == IF Rank(Floor(profile)) > Rank(policy.class) THEN Floor(profile)
                      ELSE policy.class
             manual == ~policy.auto \/ Gated(profile) \/ class # "low"
         IN [class |-> class, auto |-> ~manual, afterPlan |-> policy.afterPlan \/ manual,
             afterGenerate |-> policy.afterGenerate \/ Gated(profile)]

(* A profile "can tighten but not weaken" the gates of a policy            *)
(* (workflow-registry.ts:133), and it is applied where a job is queued and *)
(* where it is run: the second time changes nothing.                       *)
ProfileOnlyTightens(policy, profile) ==
    LET tight == Tightened(policy, profile)
    IN /\ Rank(tight.class) >= Rank(policy.class)
       /\ tight.auto => policy.auto
       /\ policy.afterPlan => tight.afterPlan
       /\ policy.afterGenerate => tight.afterGenerate
       /\ Tightened(tight, profile) = tight

----------------------------------------------------------------------------
(* scheduleWorkItems: a stable sort by the tier, then by the number of     *)
(* nodes with a dependency; then each item in turn.                        *)

Before(items, i, j) ==
    \/ items[i].tier < items[j].tier
    \/ items[i].tier = items[j].tier /\ items[i].deps < items[j].deps
    \/ items[i].tier = items[j].tier /\ items[i].deps = items[j].deps /\ i < j
Order(items) ==
    LET place(i) == Cardinality({j \in DOMAIN items : Before(items, j, i)}) + 1
    IN [p \in DOMAIN items |-> CHOOSE i \in DOMAIN items : place(i) = p]

(* Mutant: a path is looked up among the items of other paths.             *)
MayRunAnywhere(item, taken, cap) == item.live /\ Cardinality(taken) < cap

MayRun(item, taken, cap) ==
    /\ item.path \notin taken
    /\ item.live
    /\ Cardinality(taken) < cap

ReadyItems(items, cap) ==
    LET order == Order(items)
        step(acc, i) == IF MayRun(items[i], acc.taken, cap)
                        THEN [ready |-> acc.ready \cup {i}, taken |-> acc.taken \cup {items[i].path}]
                        ELSE acc
    IN FoldLeft(step, [ready |-> {}, taken |-> {}], order).ready

(* Items that run together have branches or worktrees of their own, fit    *)
(* the limit, and a live item is held back only by a limit that is reached *)
(* or by its path being taken, and then by items that are no dearer.       *)
ScheduleIsFair(items, cap) ==
    LET ready == ReadyItems(items, cap)
    IN /\ \A i, j \in ready : i # j => items[i].path # items[j].path
       /\ Cardinality(ready) <= cap
       /\ \A i \in DOMAIN items \ ready :
            items[i].live =>
                \/ \E j \in ready : items[j].path = items[i].path /\ items[j].tier <= items[i].tier
                \/ /\ Cardinality(ready) = cap
                   /\ \A j \in ready : items[j].tier <= items[i].tier

----------------------------------------------------------------------------
(* pollGhPrChecks and watchCiForWorkItem: the states of the checks, or     *)
(* nothing when gh cannot be asked; what the item remembers of CI.         *)

(* Mutant: the checks that are over are looked at first.                   *)
PolledEarly(states) ==
    IF states \cap {"FAILURE", "CANCELLED"} # {} THEN "failing"
    ELSE IF states \cap {"SUCCESS", "SKIPPED"} # {} THEN "passing" ELSE "unknown"

Polled(states) ==
    IF states \cap {"FAILURE", "CANCELLED"} # {} THEN "failing"
    ELSE IF states \cap {"PENDING", "EXPECTED"} # {} THEN "unknown"
    ELSE IF states \cap {"SUCCESS", "SKIPPED"} # {} THEN "passing" ELSE "unknown"

Ci(asked, states, old) == IF asked THEN Polled(states) ELSE old.status
RepairNeeded(status, old) == status = "failing" /\ old.attempts < 2

(* work-ci-fix: the attempt is counted whether a repair is needed or not.  *)
AfterCiFix(asked, states, old) ==
    [status |-> Ci(asked, states, old), attempts |-> old.attempts + 1]

(* CI passes only when every check has ended well; a check more can turn a *)
(* verdict for the worse alone, except for one from no checks at all; and  *)
(* after two repairs nothing asks for a third.                             *)
CiIsSober(states, old) ==
    /\ Polled(states) = "passing" =>
         states \cap {"FAILURE", "CANCELLED", "PENDING", "EXPECTED"} = {}
    /\ \A more \in {"SUCCESS", "SKIPPED", "FAILURE", "PENDING", "CANCELLED", "EXPECTED"} :
         /\ Polled(states) = "failing" => Polled(states \cup {more}) = "failing"
         /\ Polled(states) = "unknown" /\ states # {} => Polled(states \cup {more}) # "passing"
    /\ LET twice == AfterCiFix(TRUE, states, AfterCiFix(TRUE, states, old))
       IN ~RepairNeeded(twice.status, twice)

----------------------------------------------------------------------------
(* generateWorkItemLesson: of an item and the jobs the queue still knows.  *)

JobWentWrong(job) == job.status = "failed" \/ job.error
LessonType(status, jobs) ==
    IF status = "failed" \/ \E j \in jobs : JobWentWrong(j) THEN "failure"
    ELSE IF status = "done" THEN "success" ELSE "in-progress"

(* A lesson that is kept is replaced once the item is done or has failed.  *)
KeepsLesson(exists, status) == exists /\ status \notin {"done", "failed"}

(* The lesson of a finished item is never one of work in progress, and no  *)
(* job that went wrong is behind a success: the status of the item and the *)
(* statuses of its jobs are read at different times.                       *)
LessonIsTrue(exists, status, jobs) ==
    /\ status \in {"done", "failed"} =>
         ~KeepsLesson(exists, status) /\ LessonType(status, jobs) # "in-progress"
    /\ LessonType(status, jobs) = "success" => \A j \in jobs : ~JobWentWrong(j)
=============================================================================
