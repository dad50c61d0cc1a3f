---------------------------- MODULE RiskRouting ----------------------------
(* How a task is weighed before it runs: the approval it needs             *)
(* (core/risk-policy.ts) and the providers it is given                     *)
(* (core/provider-router*.ts).  A task and a path are what their words     *)
(* match; scores are in eightieths, so that the weights are whole numbers. *)
EXTENDS Integers, Sequences, FiniteSets, FiniteSetsExt, SequencesExt

----------------------------------------------------------------------------
(* Approval.  A request: the marks found in the task's words and in its    *)
(* target paths, how much it changes, and the rules' skip_approval.        *)

Marks == {"security", "critical", "rewrite", "dependency", "contract"}

Signal(name, severity) == [name |-> name, severity |-> severity]
Classes == <<"low", "medium", "high", "blocked">>
Rank(class) == CHOOSE i \in 1 .. 4 : Classes[i] = class

MarkSeverity(mark) ==
    CASE mark \in {"security", "rewrite"} -> "blocked"
      [] mark \in {"critical", "dependency"} -> "high"
      [] mark = "contract" -> "medium"

(* Mutant: a rewrite of the whole repository takes many generated files.   *)
SignalsOfGenerated(r) ==
    LET marked == {Signal(m, MarkSeverity(m)) : m \in r.task \cup (r.paths \ {"rewrite"})}
        large == IF r.lines >= 250 THEN {Signal("large-diff", "high")} ELSE {}
        broad == IF r.generated >= 8
                 THEN {Signal("broad", IF r.changed >= 30 THEN "blocked" ELSE "medium")}
                 ELSE IF r.changed >= 8 THEN {Signal("broad", "medium")} ELSE {}
        all == marked \cup large \cup broad
    IN IF all = {} THEN {Signal("standard", "low")} ELSE all

(* collectRiskSignals: only words, not paths, speak of a rewrite.          *)
RiskSignals(r) ==
    LET marked == {Signal(m, MarkSeverity(m)) : m \in r.task \cup (r.paths \ {"rewrite"})}
        large == IF r.lines >= 250 THEN {Signal("large-diff", "high")} ELSE {}
        broad == IF r.generated >= 8 \/ r.changed >= 8
                 THEN {Signal("broad", IF r.changed >= 30 THEN "blocked" ELSE "medium")} ELSE {}
        all == marked \cup large \cup broad
    IN IF all = {} THEN {Signal("standard", "low")} ELSE all

Severities(signals) == {s.severity : s \in signals}
Points(severity) ==
    CASE severity = "blocked" -> 10 [] severity = "high" -> 5
      [] severity = "medium" -> 3 [] severity = "low" -> 1

(* The riskScore of resolveApprovalPolicy, summed severity by severity.    *)
Score(signals) ==
    LET of(severity) == Points(severity) * Cardinality({s \in signals : s.severity = severity})
    IN of("blocked") + of("high") + of("medium") + of("low")

(* Mutant: a blocked signal counts by its points alone.                    *)
ClassByPoints(signals) ==
    LET score == Score(signals)
    IN IF score > 10 THEN "blocked"
       ELSE IF "high" \in Severities(signals) \/ score >= 6 THEN "high"
       ELSE IF "medium" \in Severities(signals) \/ score >= 3 THEN "medium" ELSE "low"

ClassOf(signals) ==
    LET score == Score(signals)
    IN IF "blocked" \in Severities(signals) THEN "blocked"
       ELSE IF "high" \in Severities(signals) \/ score >= 6 THEN "high"
       ELSE IF "medium" \in Severities(signals) \/ score >= 3 THEN "medium" ELSE "low"

(* resolveApprovalPolicy.                                                  *)
Approval(r) ==
    LET class == ClassOf(RiskSignals(r))
        auto == (r.skip \/ class = "low") /\ class # "blocked"
    IN [class |-> class, auto |-> auto, afterPlan |-> ~auto,
        afterGenerate |-> ~auto /\ class = "high"]

(* What a request touches is in the other's, too.                          *)
Within(r, wider) ==
    /\ r.task \subseteq wider.task /\ r.paths \subseteq wider.paths
    /\ r.lines <= wider.lines /\ r.generated <= wider.generated /\ r.changed <= wider.changed

(* A request that touches more is not of a lower class, and no request     *)
(* with a reason to be blocked runs by itself, skip_approval or not        *)
(* (resolveApprovalPolicy): the classes are taken from a sum of points and *)
(* from the worst signal, by thresholds that could disagree.               *)
MoreIsNoSafer(r, wider) ==
    /\ Within(r, wider) => Rank(Approval(r).class) <= Rank(Approval(wider).class)
    /\ (r.task \cup r.paths) \cap {"security"} # {} \/ "rewrite" \in r.task \/ r.changed >= 30
         => ~Approval(r).auto

----------------------------------------------------------------------------
(* Routing.  A question: the stage, the default and the forced profile,    *)
(* the marks of the task's words, files of the repository, the plan's      *)
(* paths by kind, earlier runs, and the providers the rules know.          *)

Profiles == <<"fast", "balanced", "safe">>
Roles == {"planner", "reviewer", "generator", "fixer"}
PathKinds == {"code", "doc", "risky", "config"}

(* The signals of a task, a repository and a plan: what each adds to the   *)
(* scores of fast, balanced and safe.                                      *)
TaskScores(q) ==
    (IF "fast" \in q.words THEN {<<"fast words", <<3, 0, 0>>>>} ELSE {}) \cup
    (IF "safe" \in q.words THEN {<<"safe words", <<0, 0, 4>>>>} ELSE {})

RepoScores(q) ==
    {<<f, CASE f = "schema.prisma" -> <<0, 0, 2>>
            [] f = "docker-compose.yml" -> <<0, 1, 1>>
            [] f = "Dockerfile" -> <<0, 0, 1>>
            [] f \in {"pnpm-lock.yaml", "tsconfig.json"} -> <<0, 1, 0>>>> : f \in q.repo}

DocsOnly(plan) == plan.reads \cup plan.writes = {"doc"}
Risky(plan) == "risky" \in plan.writes

(* Mutant: one document makes it a change of documents.                    *)
PlanScoresOfSome(plan) ==
    (IF plan.many THEN {<<"many writes", <<0, 1, 2>>>>} ELSE {}) \cup
    (IF "doc" \in plan.reads \cup plan.writes THEN {<<"docs only", <<3, 0, 0>>>>} ELSE {}) \cup
    (IF Risky(plan) THEN {<<"risky paths", <<0, 0, 1>>>>} ELSE {})

(* buildPlanSignals.                                                       *)
PlanScores(plan) ==
    (IF plan.many THEN {<<"many writes", <<0, 1, 2>>>>} ELSE {}) \cup
    (IF Risky(plan) THEN {<<"risky paths", <<0, 0, 4>>>>} ELSE {}) \cup
    (IF DocsOnly(plan) THEN {<<"docs only", <<3, 0, 0>>>>} ELSE {}) \cup
    (IF "config" \in plan.writes THEN {<<"config paths", <<0, 0, 2>>>>} ELSE {})

(* classifyRoutingCategory.                                                *)
Category(q) ==
    IF "safe" \in q.words \/ (q.plan.reads \cup q.plan.writes) \cap {"risky", "config"} # {}
    THEN "risky"
    ELSE IF "fast" \in q.words \/ DocsOnly(q.plan) THEN "docs" ELSE "general"

(* buildAdaptiveRoleStats: a run of a provider, in eightieths, before the  *)
(* weight of its role.                                                     *)
RunScore(run) ==
    (IF run.ok THEN 20 ELSE 0 - 30)
    - (IF run.over # "none" THEN 20 ELSE 0) - 3 * run.seconds - 2 * run.cost

Weight(role) == CASE role = "planner" -> 4 [] role = "reviewer" -> 6
                  [] role \in {"generator", "fixer"} -> 3

(* getRoutingProfile and createRoleProviders: the profile's provider, or   *)
(* the role's own when no rule knows it.                                   *)
Wanted(profile, role) ==
    CASE role = "planner" -> "agy" [] role \in {"generator", "fixer"} -> "codex"
      [] role = "reviewer" -> CASE profile = "fast" -> "codex"
                                [] profile = "balanced" -> "agy"
                                [] profile = "safe" -> "claude"

Known(q) == {q.own[role] : role \in Roles}
Preferred(q, first, second) == IF first \in Known(q) THEN first
                               ELSE IF second \in Known(q) THEN second ELSE first
RoleProvider(q, profile, role) == Preferred(q, Wanted(profile, role), q.own[role])

(* buildAdaptiveProfileScores and createAdaptiveProfileSignal: of the last *)
(* runs, those of the category, when there are two; a provider counts from *)
(* two samples on, and the signal from half a point on.                    *)
Relevant(q) ==
    SelectSeq(SubSeq(q.runs, 1, IF Len(q.runs) < 12 THEN Len(q.runs) ELSE 12),
              LAMBDA run : run.category = Category(q))
Samples(q, role, provider) ==
    SelectSeq(Relevant(q), LAMBDA run : run.providers[role] = provider)
RoleScore(q, profile, role) ==
    LET runs == Samples(q, role, RoleProvider(q, profile, role))
    IN IF Len(runs) < 2 THEN 0
       ELSE Weight(role) * FoldSeq(LAMBDA run, sum : sum + RunScore(run), 0, runs)
HistoryScores(q) ==
    LET roles == IF q.stage = "planning" THEN {"planner"} ELSE Roles \ {"planner"}
        scores == [i \in 1 .. 3 |->
                     MapThenSumSet(LAMBDA role : RoleScore(q, Profiles[i], role), roles)]
    IN IF Len(Relevant(q)) >= 2 /\ \E i \in 1 .. 3 : scores[i] >= 40 \/ scores[i] <= -40
       THEN scores ELSE <<0, 0, 0>>

(* chooseProfile: the default has a point to start with and wins a draw.   *)
Totals(q) ==
    LET signals == TaskScores(q) \cup RepoScores(q) \cup
                   (IF q.stage = "implementation" THEN PlanScores(q.plan) ELSE {})
    IN [i \in 1 .. 3 |-> HistoryScores(q)[i] +
            80 * ((IF Profiles[i] = q.default THEN 1 ELSE 0) +
                  MapThenSumSet(LAMBDA s : s[2][i], signals))]
Winner(q) ==
    LET totals == Totals(q)
        best == Max(Range(totals))
        d == CHOOSE i \in 1 .. 3 : Profiles[i] = q.default
    IN IF totals[d] = best THEN d
       ELSE CHOOSE i \in 1 .. 3 : totals[i] = best /\ \A k \in 1 .. i - 1 : totals[k] < best

(* Mutant: the reviewer of a plan is taken as it is.                       *)
ReviewerUnknown(q, given) ==
    IF q.stage # "implementation" THEN given
    ELSE IF DocsOnly(q.plan) THEN "codex"
    ELSE IF Risky(q.plan) \/ q.plan.many THEN "claude" ELSE given

(* resolveRoleProviders: the plan may ask for another reviewer.            *)
Reviewer(q, given) ==
    IF q.stage # "implementation" THEN given
    ELSE IF DocsOnly(q.plan) THEN Preferred(q, "codex", given)
    ELSE IF Risky(q.plan) \/ q.plan.many THEN Preferred(q, "claude", given) ELSE given

(* buildRoutingDecision.                                                   *)
Route(q) ==
    LET profile == IF ~q.enabled THEN q.default
                   ELSE IF q.forced # "none" THEN q.forced ELSE Profiles[Winner(q)]
        given == [role \in Roles |-> RoleProvider(q, profile, role)]
    IN [profile |-> profile, providers |-> [given EXCEPT !["reviewer"] = Reviewer(q, given["reviewer"])]]

ProfileRank(profile) == CHOOSE i \in 1 .. 3 : Profiles[i] = profile

(* A plan that also writes a risky path, or more files, is not given a     *)
(* faster profile: the signals of a plan take away what speaks for "fast"  *)
(* and add to "safe" (buildPlanSignals, chooseProfile).  Earlier runs may  *)
(* say otherwise, so this is about a question without any.                 *)
RiskNeverSpeedsUp(q) ==
    (q.runs = <<>> /\ q.plan.writes # {}) =>
        LET riskier == [q EXCEPT !.plan.writes = @ \cup {"risky"}]
            wider == [q EXCEPT !.plan.many = TRUE]
        IN /\ ProfileRank(Route(q).profile) <= ProfileRank(Route(riskier).profile)
           /\ ProfileRank(Route(q).profile) <= ProfileRank(Route(wider).profile)

(* Every role is given a provider the rules know, whatever profile was     *)
(* forced or won and whatever the plan asks of its reviewer                *)
(* (resolvePreferredProviderType).                                         *)
RolesAreServed(q) == Range(Route(q).providers) \subseteq Known(q)
=============================================================================
