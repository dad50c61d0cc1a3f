------------------------------ MODULE RunReport ------------------------------
(* What is told of runs: why one failed and where it stands                *)
(* (core/execution-summary.ts), which one "last" is and which are listed   *)
(* (core/artifact-query.ts, jobs/job-service.ts), and the statistics       *)
(* (core/server-analytics.ts).                                             *)
EXTENDS Integers, Sequences, FiniteSets, FiniteSetsExt, SequencesExt

Statuses ==
    {"running", "completed", "resumed_completed", "failed", "cancelled", "paused_after_plan",
     "paused_after_generate"}
Done == {"completed", "resumed_completed"}
Paused == {"paused_after_plan", "paused_after_generate"}

----------------------------------------------------------------------------
(* One run: its status, the steps it took, what its providers used, its    *)
(* last tool results and its last issues.                                  *)

(* recordExecutionStep and buildProviderMetrics: a role's metric has what  *)
(* the role used and how long its steps took; a step of no role has none.  *)
RoleOf(step) ==
    CASE step = "planner" -> "planner" [] step = "iteration-generate" -> "generator"
      [] step = "iteration-fix" -> "fixer" [] step = "iteration-review" -> "reviewer"
      [] OTHER -> "none"

Metric(role, provider, time, cost) ==
    [role |-> role, provider |-> provider, time |-> time, cost |-> cost]
NamedBy(usage, providers) == IF usage.provider = "none" THEN providers[usage.role] ELSE usage.provider

(* Mutant: what another provider than the role's own used is left out.     *)
MetricsOfRoles(run) ==
    LET keys == {<<r, run.providers[r]>> : r \in DOMAIN run.providers}
        use(k) == {i \in DOMAIN run.usages : <<run.usages[i].role, NamedBy(run.usages[i], run.providers)>> = k}
    IN {Metric(k[1], k[2], 0, MapThenSumSet(LAMBDA i : run.usages[i].cost, use(k))) : k \in keys}

Metrics(run) ==
    LET used == {<<run.usages[i].role, NamedBy(run.usages[i], run.providers)>> : i \in DOMAIN run.usages}
        spent == {<<RoleOf(run.steps[i].name), run.providers[RoleOf(run.steps[i].name)]>> :
                    i \in {j \in DOMAIN run.steps : RoleOf(run.steps[j].name) # "none"}}
        use(k) == {i \in DOMAIN run.usages : <<run.usages[i].role, NamedBy(run.usages[i], run.providers)>> = k}
        took(k) == {i \in DOMAIN run.steps :
                      /\ RoleOf(run.steps[i].name) = k[1] /\ run.providers[k[1]] = k[2]}
    IN {Metric(k[1], k[2], MapThenSumSet(LAMBDA i : run.steps[i].time, took(k)),
               MapThenSumSet(LAMBDA i : run.usages[i].cost, use(k))) : k \in used \cup spent}

(* buildExecutionBudgetSummary: no limit is 0; the time is asked for first.*)
TotalTime(run) == MapThenSumSet(LAMBDA i : run.steps[i].time, DOMAIN run.steps)
TotalCost(run) == MapThenSumSet(LAMBDA x : x.cost, Metrics(run))
Exceeded(run, limits) ==
    IF limits.time > 0 /\ TotalTime(run) > limits.time THEN "duration"
    ELSE IF limits.cost > 0 /\ TotalCost(run) > limits.cost THEN "cost" ELSE "none"

(* classifyRunFailure.  Tools are what failed of them: "crash", "output",  *)
(* "missing" or "plain"; an issue has a category and a severity.  The      *)
(* retries that it asks for are never counted for it.                      *)
Blocking(issues) == {i \in issues : i.severity \in {"high", "medium"}}
ToolClass(tools) ==
    IF "missing" \in tools THEN "missing-file" ELSE IF "crash" \in tools THEN "tool-crash"
    ELSE IF "output" \in tools THEN "tool-output-error" ELSE "tool-check-failed"

IssueClass(status, issues) ==
    IF \E i \in Blocking(issues) : i.category = "validation" THEN "validation-failed"
    ELSE IF \E i \in issues : i.category = "generation" /\ i.severity = "high" THEN "partial-generation"
    ELSE IF Blocking(issues) # {}
    THEN IF status = "failed" THEN "iteration-limit" ELSE "review-blocking-issues"
    ELSE IF status = "failed" THEN "unknown" ELSE "none"

(* Mutant: the status is asked for when nothing else failed.               *)
ClassOfCauseFirst(status, exceeded, tools, issues) ==
    IF exceeded # "none" THEN exceeded
    ELSE IF tools # {} THEN ToolClass(tools)
    ELSE CASE status \in Done -> "none" [] status = "cancelled" -> "cancelled" [] status \in Paused -> "paused"
           [] OTHER -> IssueClass(status, issues)

FailureClass(status, exceeded, tools, issues) ==
    CASE status \in Done -> "none"
      [] status = "cancelled" -> "cancelled"
      [] status \in Paused -> "paused"
      [] OTHER -> IF exceeded # "none" THEN exceeded
                  ELSE IF tools # {} THEN ToolClass(tools) ELSE IssueClass(status, issues)

(* buildExecutionSummary                                                   *)
Failure(run, limits) == FailureClass(run.status, Exceeded(run, limits), run.tools, run.issues)

(* A run that failed is told for a cause that it has, and never for none;  *)
(* one that ended well, was stopped or waits is told for that and no other *)
(* cause, whatever its tools and issues say.  More steps or use never      *)
(* bring a run back within its limits, and all that was used is counted.   *)
FailureIsExplained(run, limits, more) ==
    LET class == Failure(run, limits)
    IN /\ run.status \in Done => class = "none"
       /\ run.status = "failed" => class # "none"
       /\ class \in {"cancelled", "paused"} <=> run.status \in Paused \cup {"cancelled"}
       /\ class \in {"duration", "cost"} =>
            \/ TotalTime(run) > limits.time
            \/ MapThenSumSet(LAMBDA i : run.usages[i].cost, DOMAIN run.usages) > limits.cost
       /\ class = "unknown" => run.tools = {} /\ Blocking(run.issues) = {}
       /\ class \in {"missing-file", "tool-crash", "tool-output-error", "tool-check-failed"} => run.tools # {}
       /\ Exceeded(run, limits) # "none" =>
            Exceeded([run EXCEPT !.usages = Append(@, more)], limits) # "none"
       /\ (limits.time = 0 /\ limits.cost > 0
            /\ MapThenSumSet(LAMBDA i : run.usages[i].cost, DOMAIN run.usages) > limits.cost)
            => Exceeded(run, limits) = "cost"

----------------------------------------------------------------------------
(* Where a run stands: its transitions, a stage that is entered and one    *)
(* that ended.                                                             *)

(* deriveCurrentStage and deriveTerminalStage                              *)
(* Mutant: what was entered last is current, ended or not.                 *)
LastEntered(transitions) ==
    LET entered == SelectSeq(transitions, LAMBDA t : t.status = "entered")
    IN IF entered = <<>> THEN "none" ELSE Last(entered).stage

CurrentStage(transitions) ==
    FoldLeft(LAMBDA active, t : IF t.status = "entered" THEN t.stage
                                ELSE IF active = t.stage THEN "none" ELSE active,
             "none", transitions)

TerminalStage(transitions) ==
    LET ended == SelectSeq(transitions, LAMBDA t : t.status # "entered")
    IN IF ended = <<>> THEN "none" ELSE Last(ended).stage

(* Of stages that were gone through one after the other, of which the last *)
(* may be under way, the summary says which is and which ended last, also  *)
(* when a stage was gone through twice.                                    *)
StageIsFound(stages, open) ==
    LET through == FlattenSeq([i \in DOMAIN stages |->
                     <<[stage |-> stages[i], status |-> "entered"],
                       [stage |-> stages[i], status |-> "completed"]>>])
        transitions == IF open THEN SubSeq(through, 1, Len(through) - 1) ELSE through
        last == Len(stages)
    IN stages # <<>> =>
         /\ CurrentStage(transitions) = (IF open THEN stages[last] ELSE "none")
         /\ TerminalStage(transitions) =
              (IF ~open THEN stages[last] ELSE IF last = 1 THEN "none" ELSE stages[last - 1])

----------------------------------------------------------------------------
(* The runs of a directory, newest first.  Of each: whether its state file *)
(* is there and says enough, whether its index is there, the status that   *)
(* they say ("none": an index that was made by applying its files), and    *)
(* its age in days since something was made in it.                         *)

(* resolveLatestRunStatePath: the newest with a state file.                *)
(* Mutant: the newest run, whatever is there of it.                        *)
NewestAtAll(runs) == IF runs = <<>> THEN 0 ELSE 1

LatestRun(runs) == SelectInSeq(runs, LAMBDA r : r.state # "missing")

(* artifact-utils: how a status is reported.                               *)
Reported(status) ==
    CASE status \in Done -> "completed" [] status \in {"failed", "cancelled"} -> status
      [] status \in Paused -> "waiting_for_approval" [] OTHER -> "failed"

(* loadRunSummaryFromDirectory: a state file that says too little hides    *)
(* the run; without one its index is enough.                               *)
Listed(r) == IF r.state = "missing" THEN r.index ELSE r.state = "whole"
StatusOf(r) == IF r.status = "none" THEN "running" ELSE Reported(r.status)

(* listRecentRunSummaries: of the newest, those that can be read.          *)
Recent(runs, limit) ==
    LET window == SubSeq(runs, 1, IF Len(runs) < limit THEN Len(runs) ELSE limit)
    IN SelectSeq(window, LAMBDA r : Listed(r))

(* mapRunSummaryToQueueJob: what was reported is reported once more.       *)
JobStatusOf(r) == Reported(StatusOf(r))

(* listJobs: a run that a job of the queue points to is not listed twice.  *)
JobsOf(runs, jobs, limit) ==
    jobs \cup {[name |-> r.name, status |-> JobStatusOf(r)] :
                 r \in {x \in Range(Recent(runs, limit)) : x.name \notin {j.name : j \in jobs}}}

(* runArtifactRetentionCleanup                                             *)
AfterCleanup(runs, days) == IF days = 0 THEN runs ELSE SelectSeq(runs, LAMBDA r : r.age <= days)

(* "last" has a state and is never older than a listed run with one, cleaning *)
(* up old runs takes no newer one from it, no run is listed twice, and     *)
(* what is listed as completed is, and no other.  (A run that waits for    *)
(* approval, reported as that by its summary, is listed as failed.)        *)
ListIsTrue(runs, jobs, limit, days) ==
    LET listed == JobsOf(runs, jobs, limit)
        kept == AfterCleanup(runs, days)
        place(r) == CHOOSE i \in DOMAIN runs : runs[i] = r
    IN /\ \A r \in Range(Recent(runs, limit)) :
            r.state = "whole" =>
                LatestRun(runs) \in 1 .. place(r) /\ runs[LatestRun(runs)].state # "missing"
       /\ (LatestRun(runs) # 0 /\ runs[LatestRun(runs)].age <= days) =>
            kept[LatestRun(kept)] = runs[LatestRun(runs)]
       /\ \A a, b \in listed : a.name = b.name => a = b
       /\ \A r \in Range(Recent(runs, limit)) : r.name \notin {j.name : j \in jobs} =>
            (JobStatusOf(r) = "completed" <=> r.status \in Done)

----------------------------------------------------------------------------
(* The statistics of the runs that are listed.                             *)

(* classifyServerError, of the telling words in the text of a failure: the *)
(* first of them that it asks for.                                         *)
ReasonClasses ==
    <<[words |-> "timed out", class |-> "provider-timeout"], [words |-> "too often", class |-> "provider-error"],
      [words |-> "too long", class |-> "context-overflow"], [words |-> "budget", class |-> "cost-budget-exceeded"],
      [words |-> "command failed", class |-> "tool-execution-failed"]>>
ReasonClass(words) ==
    LET asked == SelectSeq(ReasonClasses, LAMBDA c : c.words \in words)
    IN IF asked = <<>> THEN "internal-error" ELSE Head(asked).class

(* aggregateProjectStats                                                   *)
CountBy(runs, key(_), Value(_)) ==
    [k \in {key(runs[i]) : i \in DOMAIN runs} |->
        MapThenSumSet(LAMBDA i : Value(runs[i]), {j \in DOMAIN runs : key(runs[j]) = k})]
FailuresByClass(runs) ==
    CountBy(SelectSeq(runs, LAMBDA r : r.status = "failed"), LAMBDA r : ReasonClass(r.words), LAMBDA r : 1)
CostByDay(runs) == CountBy(runs, LAMBDA r : r.day, LAMBDA r : r.cost)

(* A run counts for a provider once for each role it served in.            *)
Performance(runs, provider) ==
    LET serves(r) == Cardinality({x \in r.metrics : x[2] = provider})
        sum(S) == MapThenSumSet(LAMBDA i : serves(runs[i]), S)
    IN [runs |-> sum(DOMAIN runs), failures |-> sum({i \in DOMAIN runs : runs[i].status = "failed"})]
Degraded(p) == p.runs > 0 /\ 10 * p.failures > 3 * p.runs

(* Nothing is lost in the sums; a provider is degraded when all its runs   *)
(* failed and not when none did; one more run that it served well never    *)
(* makes it degraded, and one that failed never makes it good again.       *)
StatisticsAddUp(runs, more) ==
    LET sumOf(f) == MapThenSumSet(LAMBDA k : f[k], DOMAIN f)
        failed == SelectSeq(runs, LAMBDA r : r.status = "failed")
    IN /\ sumOf(FailuresByClass(runs)) = Len(failed)
       /\ sumOf(CostByDay(runs)) = MapThenSumSet(LAMBDA i : runs[i].cost, DOMAIN runs)
       /\ \A p \in {"p", "q"} :
            LET now == Performance(runs, p)
                then == Performance(Append(runs, more), p)
            IN /\ now.failures = 0 => ~Degraded(now)
               /\ (now.runs > 0 /\ \A r \in Range(runs) : (\E x \in r.metrics : x[2] = p) => r.status = "failed")
                    => Degraded(now)
               /\ more.status # "failed" => (Degraded(then) => Degraded(now))
               /\ more.status = "failed" => (Degraded(now) => Degraded(then))
=============================================================================
