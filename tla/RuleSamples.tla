----------------------------- MODULE RuleSamples -----------------------------
(* The rules that have no behaviour over time, and samples of the inputs   *)
(* they are asked about.                                                   *)
EXTENDS Integers, Sequences, FiniteSets

Guards == INSTANCE WorkerGuards
Risk == INSTANCE RiskRouting
Tools == INSTANCE ToolChecks
Selection == INSTANCE ContextSelection
Planning == INSTANCE WorkPlanning
Review == INSTANCE ChangeReview
Access == INSTANCE ServerAccess
Words == INSTANCE CommandLine
Config == INSTANCE Settings
Told == INSTANCE RunReport
Reply == INSTANCE ProviderAnswer

----------------------------------------------------------------------------
(* WorkerGuards                                                            *)

Tasks ==
    [packMode : {"off", "auto", "required"}, length : {100, 200, 300}, profile : {"default", "strict"},
     risky : BOOLEAN, bullets : {0, 1, 3}, clauses : {1, 2}, sentences : {1, 3},
     preDecomposed : BOOLEAN]

GuardFiles == {<<"src", "a">>, <<"src", "lib", "b">>, <<"doc", "c">>}
Patterns ==
    {[kind |-> "deep", at |-> <<"src">>], [kind |-> "flat", at |-> <<"src">>],
     [kind |-> "plain", at |-> <<"doc", "c">>], [kind |-> "glob", at |-> <<"src", "*", "b">>]}
Packs ==
    [confidence : {"low", "high"}, allowed : {{}} \cup {{p} : p \in Patterns},
     doNotTouch : {{}} \cup {{p} : p \in Patterns}, proposed : {{}, {<<"doc", "c">>}}]
GuardChecks ==
    [mode : {"off", "warn", "strict"}, newFiles : {"allow", "warn", "strict"}, pack : Packs,
     changed : SUBSET GuardFiles, added : {{}, {<<"src", "a">>}, {<<"doc", "c">>}}]
Answers ==
    {[marked |-> m, json |-> j, pack |-> [confidence |-> "unsure", allowed |-> {}, doNotTouch |-> {}, proposed |-> {}]] :
        m, j \in BOOLEAN}
CheckResults == [tool : {"lint", "test"}, ok : BOOLEAN, skipped : BOOLEAN]

GuardSamples ==
    [kind : {"task"}, in : Tasks]
      \cup [kind : {"diff"}, in : GuardChecks]
      \cup [kind : {"verification"}, in : SUBSET CheckResults, issues : SUBSET {"high", "low"}]

----------------------------------------------------------------------------
(* RiskRouting                                                             *)

Requests ==
    [task : SUBSET Risk!Marks, paths : SUBSET (Risk!Marks \ {"rewrite"}), lines : {0, 250},
     generated : {0, 8}, changed : {0, 8, 30}, skip : BOOLEAN]

NoPlan == [reads |-> {}, writes |-> {}, many |-> FALSE]
Own == [planner |-> "agy", reviewer |-> "claude", generator |-> "codex", fixer |-> "codex"]
OneProvider == [role \in Risk!Roles |-> "local"]
PastRun(ok, own, category) ==
    [ok |-> ok, over |-> "none", seconds |-> 1, cost |-> 1, providers |-> own, category |-> category]
Question ==
    [stage |-> "planning", default |-> "balanced", forced |-> "none", enabled |-> TRUE, words |-> {},
     repo |-> {}, plan |-> NoPlan, runs |-> <<>>, own |-> Own]
PlanQuestions ==
    {[Question EXCEPT !.stage = "implementation", !.default = d, !.words = w, !.repo = r, !.plan = p] :
        d \in {"fast", "balanced", "safe"}, w \in SUBSET {"fast", "safe"},
        r \in {{}, {"schema.prisma", "tsconfig.json"}, {"docker-compose.yml"}},
        p \in [reads : SUBSET {"code", "doc"}, writes : SUBSET Risk!PathKinds, many : BOOLEAN]}
RoleQuestions ==
    {[Question EXCEPT !.stage = s, !.forced = f, !.own = o, !.runs = h, !.plan = p] :
        s \in {"planning", "implementation"}, f \in {"none", "fast", "balanced", "safe"},
        o \in {Own, OneProvider, [OneProvider EXCEPT !.reviewer = "claude"], [Own EXCEPT !.reviewer = "agy"]},
        h \in {<<>>, <<PastRun(FALSE, Own, "general"), PastRun(FALSE, Own, "general")>>,
               [i \in 1 .. 13 |-> PastRun(i % 2 = 0, OneProvider, "general")]},
        p \in [reads : {{}, {"doc"}}, writes : SUBSET {"doc", "risky"}, many : BOOLEAN]}

RiskSamples ==
    [kind : {"request"}, in : Requests]
      \cup [kind : {"plan"}, in : PlanQuestions] \cup [kind : {"roles"}, in : RoleQuestions]

(* A request that touches a little more.                                   *)
Wider(r) ==
    {[r EXCEPT !.task = @ \cup {m}] : m \in Risk!Marks}
      \cup {[r EXCEPT !.paths = @ \cup {m}] : m \in Risk!Marks \ {"rewrite"}}
      \cup {[r EXCEPT !.lines = 250], [r EXCEPT !.generated = 8], [r EXCEPT !.changed = 30]}

----------------------------------------------------------------------------
(* ToolChecks                                                              *)

ToolPackages == {"root", "a", "b"}
Change(pkg, ext) == [pkg |-> pkg, ext |-> ext]
Changes ==
    {{}, {Change("a", "ts")}, {Change("a", "ts"), Change("a", "py")},
     {Change("a", "ts"), Change("b", "ts")}, {Change("a", "py"), Change("root", "ts")},
     {Change("nowhere", "py")}, {Change("a", "ts"), Change("b", "ts"), Change("root", "md")}}
PythonIn(dir) == [dir |-> dir, exts |-> {"py"}, tools |-> {"lint", "test"}, append |-> dir = "root"]
ToolQuestions ==
    [tool : {"lint", "typecheck", "test"},
     config : {[kind |-> "none", append |-> FALSE], [kind |-> "script", append |-> TRUE]},
     manager : {"pnpm"}, workspace : BOOLEAN,
     scripts : [ToolPackages -> {{}, {"plain"}, {"files", "plain"}, {"affected", "changed"}}],
     named : {{"a", "b"}}, tsconfig : {{"root"}, {"root", "a"}}, eslint : {{"a"}},
     compiler : {TRUE}, adapters : {<<>>, <<PythonIn("root"), PythonIn("a")>>}, changed : Changes]
ToolSamples == [kind : {"tool"}, in : ToolQuestions]

----------------------------------------------------------------------------
(* ContextSelection                                                        *)

GraphFiles == 1 .. 7
Chain(a, b) == {<<i, i + 1>> : i \in a .. b - 1}
Star(m, s) == {<<i, m>> : i \in s}
ImportGraphs ==
    [imports : {{}, Chain(1, 7), Star(1, 2 .. 7), Star(7, 1 .. 6), Chain(1, 3) \cup Star(4, 5 .. 7),
                Star(3, {1, 2}) \cup Star(7, 4 .. 6), Chain(2, 4) \cup Chain(5, 7) \cup {<<1, 5>>}},
     dir : {[f \in GraphFiles |-> IF f \in lib THEN "lib" ELSE "src"] :
               lib \in {{}, {1}, {7}, {1, 2, 3}, 1 .. 6, {2, 4, 6}}}]
Selections ==
    [planner : {{}, {1}, {1, 2}}, writes : {{}, {2}, 3 .. 7}, hints : {{}, {3}},
     dependencies : {{}, {3, 4, 5}},
     semantic : {[f \in GraphFiles |-> IF f \in s THEN 45 ELSE 0] : s \in {{}, {5}, {4, 5, 6}}},
     size : {[f \in GraphFiles |-> IF f \in s THEN 60 ELSE 30] : s \in {{}, {1}, {3, 5}, {4, 6}}},
     maxFiles : {0, 2}, results : {1, 4}, maxBytes : {61, 100}]
SelectionSamples ==
    [kind : {"batches"}, in : ImportGraphs, changed : {{1}, {7}, {3}, {1, 5}, GraphFiles}]
      \cup [kind : {"selection"}, in : Selections]

----------------------------------------------------------------------------
(* The arithmetic of CodeIndex                                             *)

IndexSamples ==
    [kind : {"chunks"}, length : {1, 199, 200, 201, 350, 400, 701}, size : {0, 200, 260},
     overlap : {-5, 0, 50, 100, 130, 300}]
      \cup [kind : {"line"}, offset : 0 .. 10,
            lines : {<<0>>, <<0, 1>>, <<0, 3, 4, 9>>, <<0, 2, 5, 7, 8>>, <<0, 1, 2, 3, 4, 5, 6>>}]

(* WorkPlanning                                                            *)

Items ==
    [type : {"feature", "refactor", "docs", "review"}, output : {"patch", "branch", "pull_request"},
     risk : {"low", "medium", "high", "blocked"},
     profile : {"default", "fast-fix", "balanced", "superpowers", "strict-review"}]
Policies ==
    [class : {"low", "medium", "high", "blocked"}, auto : BOOLEAN, afterPlan : BOOLEAN,
     afterGenerate : BOOLEAN]
Queued == [tier : {0, 1}, deps : {2, 4}, live : BOOLEAN, path : {"main", "side"}]
CheckStates == {"SUCCESS", "SKIPPED", "FAILURE", "PENDING", "CANCELLED", "EXPECTED"}
PlanningSamples ==
    [kind : {"item"}, in : Items]
      \cup [kind : {"policy"}, in : Policies, profile : {i.profile : i \in Items}]
      \cup [kind : {"schedule"}, in : Queued \X Queued \X Queued, cap : {1, 2, 9}]
      \cup [kind : {"ci"}, in : SUBSET CheckStates,
            old : [status : {"passing", "failing", "unknown"}, attempts : 0 .. 3]]
      \cup [kind : {"lesson"}, exists : BOOLEAN, status : {"created", "executing", "done", "failed"},
            in : SUBSET [status : {"completed", "failed", "running"}, error : BOOLEAN]]

----------------------------------------------------------------------------
(* ChangeReview                                                            *)

Blobs == {"none", "x", "y"}
Versions == [head : Blobs, base : {"none", "x"}, index : Blobs, work : Blobs]
Said(severity, category, path, line) ==
    [severity |-> severity, category |-> category, path |-> path, line |-> line, text |-> "words"]
AnsweredIssues ==
    {Said(s, "bug", p, 0) : s \in {"high", "grave", "low"}, p \in {"", "a", "other"}}
      \cup {[Said("high", "bug", "a", 0) EXCEPT !.text = ""]}
LensAnswer == [ok : {TRUE}, issues : {<<>>} \cup {<<Said(s, "bug", "a", l)>> :
                 s \in {"high", "medium", "low"}, l \in {0, 1, 4, 7, 10}}]
                \cup {[ok |-> FALSE, issues |-> <<>>]}
ReviewSamples ==
    [kind : {"change"}, in : [{"a", "b"} -> Versions],
     mode : {"working-tree", "staged", "base-ref", "files"}, asked : {{}, {"a"}, {"."}}]
      \cup [kind : {"answer"}, in : SUBSET AnsweredIssues, checks : SUBSET {Said("low", "lint", "", 0), Said("medium", "test", "", 0)}]
      \cup [kind : {"panel"}, in : [1 .. 3 -> LensAnswer], quorum : 1 .. 3]
      \cup [kind : {"rerun"}, in : [status : {"paused_after_plan", "paused_after_generate", "failed",
                                     "completed", "cancelled", "running"}, hint : BOOLEAN, stage : BOOLEAN]]

----------------------------------------------------------------------------
(* ServerAccess                                                            *)

Hits == {h \in [1 .. 4 -> [key : {"a", "b"}, time : 0 .. 4]] :
            \A i \in 1 .. 3 : h[i].time <= h[i + 1].time}
AccessSamples ==
    [kind : {"http"}, set : {{}, {"server"}, {"server", "worker", "hermes"}},
     needed : {"none", "viewer", "operator", "admin"}, in : Access!Routes]
      \cup [kind : {"hits"}, in : Hits, limit : {1, 2}, length : {2, 3}]

----------------------------------------------------------------------------
(* Settings                                                                *)

Providers(planner, reviewer, generator) ==
    [r \in Config!RoleSet |->
        CASE r = "planner" -> [Config!Unset EXCEPT !.type = planner]
          [] r = "reviewer" -> [Config!Unset EXCEPT !.type = reviewer, !.retries = IF reviewer = "none" THEN "none" ELSE "five"]
          [] r = "generator" -> [Config!Unset EXCEPT !.type = generator]
          [] OTHER -> Config!Unset]
Types == {"none", "agy-cli", "claude-cli", "codex-cli"}
Files ==
    [key : {"none", "k1"}, plain : {"none", "p1"},
     hooks : {[set |-> FALSE, list |-> <<>>]}
               \cup [set : {TRUE}, list : {<<>>, <<Config!Hook("u1", "s1")>>,
                     <<Config!Hook("u1", "s1"), Config!Hook("u2", "none")>>}]]
EnvLines == [key : {"K1", "K2"}, shape : {"plain", "export", "spaced", "comment"}, value : {"v1", "v2"}]
ConfigSamples ==
    [kind : {"layers"}, types : {Providers(p, r, g) : p, r, g \in Types},
     routing : {"none", "on"}, profile : {"none", "codex-all", "safe-review"},
     global : {"none", "hybrid", "codex-all"}, planning : {"hybrid", "safe-review"}]
      \cup [kind : {"setup"}, types : {Providers(p, r, "none") : p, r \in {"none", "codex-cli"}},
            below : {Config!NoLayer.providers, Providers("claude-cli", "none", "none")},
            profile : {"none", "codex-all"}, global : {"none", "hybrid", "safe-review"},
            name : {"codex-all", "hybrid", "safe-review"},
            choices : [Config!RoleSet -> {"auto", "claude-cli", "codex-cli"}]]
      \cup [kind : {"script"}, global : {Config!NoCommand, Config!Command("yes", "s0", "none")},
            current : {Config!NoCommand, Config!Command("no", "none", "more"), Config!Command("yes", "s3", "more")},
            first : {"none", "auto", "disabled", "script"}, second : {"none", "auto", "disabled", "script"}]
      \cup [kind : {"file"}, global : Files, in : Files, edit : {"none", "plain", "key", "append"}]
      \cup [kind : {"env"}, process : {"none", "v0"}, in : UNION {[1 .. n -> EnvLines] : n \in 0 .. 2},
            changes : [{"K1", "K3"} -> {"v9", "quoted", "remove", "keep"}]]

----------------------------------------------------------------------------
(* CommandLine                                                             *)

ManyWords ==
    {"run", "undo", "review", "fix", "--from-run", "continue", "--job", "--dry-run", "--files", "worker",
     "start", "--once", "diff", "explain", "--save", "--json", "a"}
FewWords == {"fix", "review", "continue", "--job", "--dry-run", "--files", "--json", "a"}
WordSamples ==
    [kind : {"words"}, in : UNION {[1 .. n -> ManyWords] : n \in 0 .. 3} \cup [1 .. 4 -> FewWords]]
      \cup [kind : {"flag"},
            in : {<<"a">>, <<"run", "a">>, <<"undo", "a">>, <<"review", "a">>, <<"fix", "a">>, <<"continue">>,
                  <<"continue", "--job", "a">>, <<"retry", "a">>, <<"diff", "explain">>, <<"commit", "a">>,
                  <<"diff", "explain", "a">>, <<"fix", "--from-run", "a">>, <<"runs", "show", "a">>,
                  <<"work", "create", "a">>, <<"work", "dispatch", "--write">>, <<"setup">>, <<"job", "list">>},
            flag : {<<f>> : f \in Words!Switches} \cup {<<f, "b">> : f \in Words!Valued}
                     \cup {<<"--save", "b", "--json">>}]

----------------------------------------------------------------------------
(* RunReport                                                               *)

Use(role, provider, cost) == [role |-> role, provider |-> provider, cost |-> cost]
Steps == {<<>>, <<[name |-> "planner", time |-> 2]>>,
          <<[name |-> "planner", time |-> 1], [name |-> "iteration-generate", time |-> 2],
            [name |-> "context", time |-> 1], [name |-> "iteration-generate", time |-> 2]>>}
Usages == {<<>>, <<Use("planner", "none", 1), Use("reviewer", "none", 2)>>,
           <<Use("reviewer", "q", 2), Use("reviewer", "none", 1)>>}
Reported ==
    [status : Told!Statuses, steps : Steps, usages : Usages,
     providers : {[planner |-> "p", generator |-> "p", fixer |-> "q", reviewer |-> "p"]},
     tools : SUBSET {"crash", "output", "missing", "plain"},
     issues : SUBSET {<<"validation", "high">>, <<"validation", "low">>, <<"generation", "high">>, <<"bug", "high">>}]
Kept == {r \in [name : {"r"}, state : {"missing", "partial", "whole"}, index : BOOLEAN, age : {1, 9},
                status : {"none", "completed", "failed", "paused_after_plan", "running"}] :
            r.state = "whole" => r.status # "none"}
Counted == [status : {"completed", "failed", "running"}, words : {{}, {"timed out"}, {"budget", "timed out"}},
            day : {1, 2}, cost : {0, 3}, metrics : SUBSET {<<"planner", "p">>, <<"reviewer", "p">>, <<"reviewer", "q">>}]
OneDay == {r \in Counted : r.day = 1 /\ r.cost = 3 /\ r.words = {}}
ReportSamples ==
    [kind : {"told"}, in : Reported, time : {0, 4}, cost : {0, 2}]
      \cup [kind : {"stages"}, in : UNION {[1 .. n -> {"plan", "generate", "review"}] : n \in 0 .. 4}, open : BOOLEAN]
      \cup [kind : {"kept"}, in : UNION {[1 .. n -> Kept] : n \in 0 .. 2}, limit : {1, 2}, days : {0, 5}]
      \cup [kind : {"counted"}, in : UNION {[1 .. n -> OneDay] : n \in 0 .. 2} \cup ({r \in Counted : Cardinality(r.metrics) = 2} \X OneDay), more : OneDay]

----------------------------------------------------------------------------
(* ProviderAnswer                                                          *)

Trees ==
    UNION {{v \in [kind : [1 .. n -> Reply!Kinds], parent : [1 .. n -> 1 .. n - 1 \cup {1}],
                   key : [1 .. n -> {"a", "b", "result"}]] :
              v.key[1] = "a" /\ v.parent[1] = 1 /\ Reply!IsValue(v)} : n \in 1 .. 3}
(* Two wrappers, or one in the other, and what is in them.                 *)
TwoByTwo ==
    {v \in [kind : {<<k, l, m, o, p>> : k, l, m \in {"object", "list", "text"}, o, p \in Reply!Kinds},
            parent : {<<1, 1, 1, 2, 3>>, <<1, 1, 2, 2, 3>>, <<1, 1, 2, 1, 4>>, <<1, 1, 1, 2, 4>>},
            key : {<<"a", k, l, m, o>> : k, l, m, o \in {"a", "b", "result"}}] : Reply!IsValue(v)}
Outcomes ==
    [brings : {"answer", "busy", "slow", "spent", "wrong"}, aborted : BOOLEAN, when : {"before", "during"}]
AnswerSamples ==
    [kind : {"tree"}, in : Trees \cup TwoByTwo,
     schema : [required : {{}, {"a"}}, named : {{"a"}, {"a", "b"}}, open : BOOLEAN]]
      \cup [kind : {"stream"}, in : UNION {[1 .. n -> {"x", "y"}] : n \in 0 .. 3}, split : 0 .. 3,
            noise : [kind : {"other", "no json"}, says : {<<"z">>}]]
      \cup [kind : {"attempts"}, in : [1 .. 3 -> Outcomes], retries : 0 .. 2]

----------------------------------------------------------------------------
Samples ==
    GuardSamples \cup RiskSamples \cup ToolSamples \cup SelectionSamples \cup IndexSamples
      \cup PlanningSamples \cup ReviewSamples \cup AccessSamples
      \cup ConfigSamples \cup WordSamples \cup ReportSamples \cup AnswerSamples
=============================================================================
