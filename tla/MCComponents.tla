---------------------------- MODULE MCComponents ----------------------------
(* The smaller components, each with a state space of its own: "part" says *)
(* which of them moves, and the others stay as they begin.  What has no    *)
(* behaviour over time is evaluated on samples of its inputs.              *)
EXTENDS RuleSamples, Components, TLC

VARIABLES part, sample

vars == <<part, sample, componentVars>>

(* The same names serve the actors of several components.                  *)
Sym == Permutations(Executors) \cup Permutations(Roots)

NoSample == [kind |-> "none"]

Init ==
    /\ part \in {"execution", "lock", "store", "registry", "solo", "command", "index",
                 "memory", "failover", "files", "server", "rules"}
    /\ sample = NoSample
    /\ ExecInit /\ (part = "execution" \/ task = [dryRun |-> FALSE, setup |-> FALSE])
    /\ LockInit /\ (part = "lock" \/ store = "file")
    /\ StoreInit /\ (part = "store" \/ (kind = "file" /\ snapshot = 0))
    /\ RegInit
    /\ SoloInit
    /\ CommandInit
    /\ IndexInit /\ (part = "index" \/ setting = "small")
    /\ MemoryInit
    /\ FailoverInit /\ (part = "failover" \/ named = <<SafeType>>)
    /\ FilesInit /\ ServerInit

Next ==
    \/ /\ part = "execution" /\ ExecNext
       /\ UNCHANGED <<part, sample, lockVars, storeVars, regVars, soloVars, commandVars,
                      indexVars, memoryVars, failoverVars, filesVars, serverVars>>
    \/ /\ part = "lock" /\ LockNext
       /\ UNCHANGED <<part, sample, execVars, storeVars, regVars, soloVars, commandVars,
                      indexVars, memoryVars, failoverVars, filesVars, serverVars>>
    \/ /\ part = "store" /\ StoreNext
       /\ UNCHANGED <<part, sample, execVars, lockVars, regVars, soloVars, commandVars,
                      indexVars, memoryVars, failoverVars, filesVars, serverVars>>
    \/ /\ part = "registry" /\ RegNext
       /\ UNCHANGED <<part, sample, execVars, lockVars, storeVars, soloVars, commandVars,
                      indexVars, memoryVars, failoverVars, filesVars, serverVars>>
    \/ /\ part = "solo" /\ SoloNext
       /\ UNCHANGED <<part, sample, execVars, lockVars, storeVars, regVars, commandVars,
                      indexVars, memoryVars, failoverVars, filesVars, serverVars>>
    \/ /\ part = "command" /\ CommandNext
       /\ UNCHANGED <<part, sample, execVars, lockVars, storeVars, regVars, soloVars,
                      indexVars, memoryVars, failoverVars, filesVars, serverVars>>
    \/ /\ part = "index" /\ IndexNext
       /\ UNCHANGED <<part, sample, execVars, lockVars, storeVars, regVars, soloVars,
                      commandVars, memoryVars, failoverVars, filesVars, serverVars>>
    \/ /\ part = "memory" /\ MemoryNext
       /\ UNCHANGED <<part, sample, execVars, lockVars, storeVars, regVars, soloVars,
                      commandVars, indexVars, failoverVars, filesVars, serverVars>>
    \/ /\ part = "failover" /\ FailoverNext
       /\ UNCHANGED <<part, sample, execVars, lockVars, storeVars, regVars, soloVars,
                      commandVars, indexVars, memoryVars, filesVars, serverVars>>
    \/ /\ part = "files" /\ FilesNext
       /\ UNCHANGED <<part, sample, execVars, lockVars, storeVars, regVars, soloVars,
                      commandVars, indexVars, memoryVars, failoverVars, serverVars>>
    \/ /\ part = "server" /\ ServerNext
       /\ UNCHANGED <<part, sample, execVars, lockVars, storeVars, regVars, soloVars,
                      commandVars, indexVars, memoryVars, failoverVars, filesVars>>
    \/ /\ part = "rules" /\ sample = NoSample
       /\ \E s \in Samples : sample' = s
       /\ UNCHANGED <<part, execVars, lockVars, storeVars, regVars, soloVars, commandVars,
                      indexVars, memoryVars, failoverVars, filesVars, serverVars>>

Spec == Init /\ [][Next]_vars

----------------------------------------------------------------------------
(* The rules, on the samples.                                              *)

(* buildWorkerTaskPhasePlan, of every task.                                *)
NodeCostsThreeRounds == sample.kind = "task" => Guards!NodeCostsThreeRounds(sample.in)

(* runDiffBoundaryCheck, of every mode, policy, pack and diff.             *)
StricterStopsMore == sample.kind = "diff" => Guards!StricterStopsMore(sample.in)

(* runDiffBoundaryCheck, after every answer of a setup phase.              *)
BoundaryHolds ==
    sample.kind = "diff" => \A answer \in Answers : Guards!BoundaryHolds(sample.in, answer)

(* runWorkerVerification and writeVerificationArtifacts.                   *)
VerdictIsFiled ==
    sample.kind = "verification" => Guards!VerdictIsFiled(sample.in, sample.issues)

(* resolveApprovalPolicy, of every request and those that touch more.      *)
MoreIsNoSafer ==
    sample.kind = "request" => \A wider \in Wider(sample.in) : Risk!MoreIsNoSafer(sample.in, wider)

(* buildRoutingDecision, of plans.                                         *)
RiskNeverSpeedsUp == sample.kind = "plan" => Risk!RiskNeverSpeedsUp(sample.in)

(* buildRoutingDecision, of rules that know few providers.                 *)
RolesAreServed == sample.kind = "roles" => Risk!RolesAreServed(sample.in)

(* resolveToolCommand.                                                     *)
CheckCoversChange == sample.kind = "tool" => Tools!CheckCoversChange(sample.in)

(* runToolChecks, however the command and its second run end.              *)
FailureIsExcusedByMore ==
    sample.kind = "tool" =>
        \A docker \in BOOLEAN, first, again \in {"passed", "failed"} \cup Tools!LooksMissing :
            Tools!FailureIsExcusedByMore(sample.in, docker, first, again)

(* performRefactorAnalysis.                                                *)
BatchesAreWhole == sample.kind = "batches" => Selection!BatchesAreWhole(sample.in, sample.changed)

(* computeExpandedContextLimit and trimRankedCandidatesByBudget.           *)
PinnedAreShown == sample.kind = "selection" => Selection!PinnedAreShown(sample.in)

(* trimRankedCandidatesByBudget.                                           *)
BudgetIsUsed == sample.kind = "selection" => Selection!BudgetIsUsed(sample.in)

(* chunkTextFixed.                                                         *)
ChunksAreWhole ==
    sample.kind = "chunks" => ChunksCoverText(sample.length, sample.size, sample.overlap)

(* offsetToLine.                                                           *)
LinesAreFound == sample.kind = "line" => LineIsFound(sample.offset, sample.lines)

(* The plan of an item, its assessment, its approval, its turn, its checks *)
(* and its lesson (WorkPlanning).                                          *)
PlansAreSound ==
    /\ sample.kind = "item" => Planning!WritesAreChecked(sample.in)
    /\ sample.kind = "request" =>
         \A wider \in Wider(sample.in), long \in BOOLEAN :
             Planning!AssessmentGrows(sample.in, wider, long, "patch")
    /\ sample.kind = "policy" => Planning!ProfileOnlyTightens(sample.in, sample.profile)
    /\ sample.kind = "schedule" => Planning!ScheduleIsFair(sample.in, sample.cap)
    /\ sample.kind = "ci" => Planning!CiIsSober(sample.in, sample.old)
    /\ sample.kind = "lesson" => Planning!LessonIsTrue(sample.exists, sample.status, sample.in)

(* What is reviewed, what a review and a panel conclude, and what is fixed *)
(* (ChangeReview).                                                         *)
ReviewsAreSound ==
    /\ sample.kind = "change" => Review!ChangeIsShown(sample.in, sample.mode, sample.asked)
    /\ sample.kind = "answer" => Review!NothingIsTalkedAway(sample.in, {"a"}, sample.checks)
    /\ sample.kind = "panel" =>
         /\ Review!PanelIsFair(sample.in, sample.quorum)
         /\ Review!ObedientPanelAdvises(
              [l \in DOMAIN sample.in |->
                [sample.in[l] EXCEPT !.issues =
                    [i \in DOMAIN @ |-> [@[i] EXCEPT !.category = <<"lens one", "lens two", "lens three">>[l]]]]],
              sample.quorum)
    /\ sample.kind = "rerun" => Review!FixAgreesWithResume(sample.in)

(* What the server answers to whom, and how often (ServerAccess).          *)
RequestsAreSound ==
    /\ sample.kind = "http" =>
         /\ Access!RefusalIsBlind(sample.set, sample.needed, sample.in)
         /\ Access!RolesAreApart(sample.set, sample.needed, sample.in)
         /\ Access!TokensOnlyTakeAway(sample.needed, sample.in)
    /\ sample.kind = "hits" => Access!LimitIsKept(sample.in, sample.limit, sample.length)

(* Who serves a role, and what saving a configuration keeps (Settings).    *)
ConfigIsKept ==
    /\ sample.kind = "layers" =>
         LET project == Config!Layer(sample.types, sample.routing, sample.profile)
             global == Config!Layer(Config!NoLayer.providers, "none", sample.global)
             targets(name) == [r \in Config!RoleSet |->
                 Config!PresetTypes(name)[CHOOSE i \in 1 .. 4 : Config!Roles[i] = r]]
         IN \A provider \in {"none", "local", "openai-compatible"}, explicit \in {"none", "claude-cli"},
               implementation \in {"codex-all", "safe-review"} :
              LET env == [provider |-> provider, retries |-> "none", model |-> "none",
                          roles |-> [r \in Config!RoleSet |-> IF r = "fixer" THEN explicit ELSE "none"]]
              IN /\ Config!ChoiceIsServed(global, project, env, targets(sample.planning), targets(implementation))
                 /\ Config!ControlsAreKept(global, project, env, targets(sample.planning), targets(implementation))
                 /\ Config!CommandsAreMatched(global, project, env, targets(sample.planning), targets(implementation))
    /\ sample.kind = "setup" =>
         Config!CommandsTakeEffect(Config!Layer(sample.below, "none", sample.global),
             Config!Layer(sample.types, "none", sample.profile), sample.name, sample.choices)
    /\ sample.kind = "script" =>
         Config!ToolRunsAsChosen(sample.global, sample.current, sample.first, sample.second)
    /\ sample.kind = "file" => Config!SavingKeepsSecrets(sample.global, sample.in, sample.edit)
    /\ sample.kind = "env" => Config!EnvIsUpdated(sample.process, sample.in, sample.changes)

(* How a command line is read (CommandLine).                               *)
WordsAreRead ==
    /\ sample.kind = "words" => Words!DryRunIsKept(sample.in) /\ Words!AllIsRead(sample.in)
    /\ sample.kind = "flag" => Words!FlagsCommute(sample.in, sample.flag)

(* Why runs failed, where they stand, which are listed and what they add   *)
(* up to (RunReport).                                                      *)
ReportsAreTrue ==
    /\ sample.kind = "told" =>
         LET run == [sample.in EXCEPT !.issues = {[category |-> i[1], severity |-> i[2]] : i \in @}]
         IN Told!FailureIsExplained(run, [time |-> sample.time, cost |-> sample.cost], Use("fixer", "q", 1))
    /\ sample.kind = "stages" => Told!StageIsFound(sample.in, sample.open)
    /\ sample.kind = "kept" =>
         LET runs == [i \in DOMAIN sample.in |-> [sample.in[i] EXCEPT !.name = <<"r1", "r2">>[i]]]
         IN \A jobs \in {{}, {[name |-> "r1", status |-> "running"]}} :
              Told!ListIsTrue(runs, jobs, sample.limit, sample.days)
    /\ sample.kind = "counted" => Told!StatisticsAddUp(sample.in, sample.more)

(* The rules by which tasks and diffs are judged.                          *)
WorkRules ==
    /\ PlansAreSound /\ ReviewsAreSound /\ RequestsAreSound /\ ConfigIsKept /\ WordsAreRead
    /\ ReportsAreTrue
    /\ NodeCostsThreeRounds /\ StricterStopsMore /\ BoundaryHolds /\ VerdictIsFiled
    /\ MoreIsNoSafer /\ RiskNeverSpeedsUp /\ RolesAreServed

(* What is taken of a provider's answer, and how it is asked for           *)
(* (ProviderAnswer).                                                       *)
AnswersAreRead ==
    /\ sample.kind = "tree" => Reply!NearestIsTaken(sample.in, sample.schema)
    /\ (sample.kind = "stream" /\ sample.split <= Len(sample.in)) =>
         Reply!StreamIsRead(sample.in, sample.split, sample.noise)
    /\ sample.kind = "attempts" => Reply!RequestsAreSpared(sample.in, sample.retries)

(* The rules by which the code is checked, searched and shown, and by      *)
(* which what the providers say of it is read.                             *)
CodeRules ==
    /\ AnswersAreRead
    /\ CheckCoversChange /\ FailureIsExcusedByMore
    /\ BatchesAreWhole /\ PinnedAreShown /\ BudgetIsUsed
    /\ ChunksAreWhole /\ LinesAreFound
=============================================================================
