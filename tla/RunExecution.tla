---------------------------- MODULE RunExecution ----------------------------
(***************************************************************************)
(* One run of the orchestrator: plan, context, the loop of generation,     *)
(* tool checks and review, the write of the accepted candidate, and what   *)
(* run-state.json keeps for the invocations that resume it.                *)
(*                                                                         *)
(* A candidate (a set of generated files) is a number, its content is not  *)
(* looked at; a list of issues is whether one of them blocks.  An action   *)
(* is one stage of the execution machine, with the code up to the next     *)
(* stage.  The invocations of a run follow one another; each ends by       *)
(* returning, by throwing, or with its process.                            *)
(***************************************************************************)
EXTENDS Integers

CONSTANTS
    MaxIterations,  \* rules.max_iterations
    MaxRetries,     \* rules.execution.budgets.max_retries
    MaxCandidates,  \* bound: candidates a run makes; large enough never to bind
    MaxAttempts,    \* bound: resumes of the run and applications of its candidates
    MaxFaults       \* bound: calls that fail, processes that die

ASSUME RunExecutionAssumption ==
    /\ MaxIterations \in Nat \ {0} /\ MaxRetries \in Nat
    /\ MaxCandidates \in Nat /\ MaxAttempts \in Nat /\ MaxFaults \in Nat

VARIABLES
    pc,             \* where the invocation is, "idle" when there is none
    resumed,        \* it is a resume, not the first run
    forced,         \* options.stage: the stage the user asks to retry from
    policy,         \* the approval policy and dryRun
    aborted,        \* its signal is aborted
    outcome,        \* how the last invocation ended
    cand,           \* state.currentResult
    blocking,       \* hasBlockingIssues(state.acceptedIssues)
    found,          \* whether one of preReviewIssues blocks
    rounds,         \* state.iterationResults.length
    iteration, start,
    skip,           \* pendingResumeStage = "iteration-tools"
    over,           \* the budget is exceeded
    failed,         \* the last failed transition: its stage and iteration
    open,           \* a stage was entered and never finished
    saved,          \* run-state.json
    artifact,       \* the directory of the latest iteration: its manifest, its files
    repo,           \* the candidate the repository holds, 0 for none
    torn,           \* some of its files are of another candidate
    vouched,        \* history: candidates a review accepted or the user forced
    misled,         \* history: the repository was written by the manifest of other files
    made, attempts, faults

callVars    == <<resumed, forced, policy, aborted>>
loopVars    == <<cand, blocking, found, rounds, iteration, start, skip>>
machineVars == <<over, failed, open>>
diskVars    == <<saved, artifact, repo, torn, misled>>
vars == <<pc, outcome, callVars, loopVars, machineVars, diskVars, vouched, made,
          attempts, faults>>

NoCand == [id |-> 0, whole |-> TRUE]
NoStage == [stage |-> "none", iteration |-> 0]
NoState == [status |-> "none", cand |-> NoCand, blocking |-> FALSE, rounds |-> 0,
            hint |-> NoStage, open |-> FALSE, pauseAfterGenerate |-> FALSE]
NoArtifact == [id |-> 0, iteration |-> 0, blocking |-> FALSE, mixed |-> FALSE]

Candidates == [id : 0..MaxCandidates, whole : BOOLEAN]

(* What ai retry --stage can name.                                         *)
RetryStages == {"context", "iteration-generate", "iteration-tools", "iteration-review",
                "iteration-fix", "write-files", "memory-store"}
Hints == [stage : RetryStages \cup {"none"}, iteration : Nat]

Paused == {"paused_after_plan", "paused_after_generate"}
Completed == {"completed", "resumed_completed"}
RunStates == [status : {"none", "failed"} \cup Paused \cup Completed, cand : Candidates,
              blocking : BOOLEAN, rounds : Nat, hint : Hints, open : BOOLEAN,
              pauseAfterGenerate : BOOLEAN]

TypeOK ==
    /\ pc \in {"idle", "plan", "confirm", "context", "checkpoint", "estimate", "prepare", "loop",
               "incomplete", "tools", "review", "judge", "write", "writing", "record", "giveup", "catch"}
    /\ resumed \in BOOLEAN /\ aborted \in BOOLEAN
    /\ forced \in RetryStages \cup {"none"}
    /\ policy \in [dryRun : BOOLEAN, interactive : BOOLEAN, pauseAfterPlan : BOOLEAN,
                   pauseAfterGenerate : BOOLEAN]
    /\ outcome \in {"none", "returned", "threw", "refused"}
    /\ cand \in Candidates /\ blocking \in BOOLEAN /\ found \in BOOLEAN
    /\ rounds \in Nat /\ iteration \in Nat \ {0} /\ start \in Nat \ {0} /\ skip \in BOOLEAN
    /\ over \in BOOLEAN /\ failed \in Hints /\ open \in BOOLEAN
    /\ saved \in RunStates
    /\ artifact \in [id : 0..MaxCandidates, iteration : Nat, blocking : BOOLEAN, mixed : BOOLEAN]
    /\ repo \in 0..MaxCandidates /\ torn \in BOOLEAN /\ misled \in BOOLEAN
    /\ vouched \subseteq 0..MaxCandidates
    /\ made \in 0..MaxCandidates /\ attempts \in Nat /\ faults \in Nat

Init ==
    /\ pc = "idle" /\ resumed = FALSE /\ forced = "none" /\ aborted = FALSE
    /\ policy = [dryRun |-> FALSE, interactive |-> FALSE, pauseAfterPlan |-> FALSE,
                 pauseAfterGenerate |-> FALSE]
    /\ outcome = "none"
    /\ cand = NoCand /\ blocking = FALSE /\ found = FALSE /\ rounds = 0
    /\ iteration = 1 /\ start = 1 /\ skip = FALSE
    /\ over = FALSE /\ failed = NoStage /\ open = FALSE
    /\ saved = NoState /\ artifact = NoArtifact /\ repo = 0 /\ torn = FALSE /\ misled = FALSE
    /\ vouched = {} /\ made = 0 /\ attempts = 0 /\ faults = 0

Goto(p) == pc' = p /\ UNCHANGED outcome
End(how) == pc' = "idle" /\ outcome' = how

NoFault == UNCHANGED faults
Fault == faults < MaxFaults /\ faults' = faults + 1

(* A stage takes time and money: from some stage on the budget is exceeded.*)
Spend == over' \in {over, TRUE}

-----------------------------------------------------------------------------
(* Errors.  runOrchestrator catches those of the stages after the plan;    *)
(* resumeOrchestrator catches none.                                        *)

Throw == IF resumed THEN End("threw") ELSE Goto("catch")

(* The action of a stage throws, or the transition out of it is not        *)
(* recorded; the transition into it is not, and the stage stays entered.   *)
StageFails(stage, i) ==
    /\ Fault /\ Throw
    /\ \/ failed' = [stage |-> stage, iteration |-> i] /\ UNCHANGED open
       \/ open' = TRUE /\ UNCHANGED failed
    /\ UNCHANGED <<callVars, loopVars, over, diskVars, vouched, made, attempts>>

Limit == pc = "loop" /\ iteration > MaxIterations

(* Code between two stages throws: artifacts or run-state.json are not     *)
(* written, a file cannot be read.                                         *)
FailsOutside ==
    /\ pc \in {"checkpoint", "estimate", "loop", "incomplete", "tools", "review", "judge", "write",
              "record"}
    /\ Fault /\ Throw
    /\ UNCHANGED <<callVars, loopVars, machineVars, diskVars, vouched, made, attempts>>

(* Nothing catches it: before the try block, in the catch clause, and in a *)
(* finalizeFailedRun that the try block returns without awaiting.          *)
FailsUncaught ==
    /\ pc \in {"plan", "confirm", "estimate", "prepare", "giveup", "catch"} \/ Limit
    /\ Fault /\ End("threw")
    /\ UNCHANGED <<callVars, loopVars, machineVars, diskVars, vouched, made, attempts>>

(* createRetryHintFromState.  The iterations it counts are those the catch *)
(* clause sees, of which there are none.                                   *)
HintFromFailure ==
    CASE failed.stage \in {"iteration-tools", "iteration-review"} ->
             [stage |-> "iteration-tools", iteration |-> failed.iteration]
      [] failed.stage = "none" -> [stage |-> "iteration-generate", iteration |-> 1]
      [] OTHER -> failed

(* Mutant of CaughtResult: the catch clause sees the loop's own state.     *)
CaughtResultLive == cand

(* workingState is the state from before the loop when the loop throws.    *)
CaughtResult == NoCand

Errored ==
    [status |-> "failed", cand |-> CaughtResult, blocking |-> FALSE, rounds |-> 0,
     hint |-> HintFromFailure, open |-> open, pauseAfterGenerate |-> policy.pauseAfterGenerate]

(* The catch clause of runOrchestrator.                                    *)
Catch ==
    /\ pc = "catch"
    /\ NoFault /\ End("returned")
    /\ saved' = Errored
    /\ UNCHANGED <<callVars, loopVars, machineVars, artifact, repo, torn, misled, vouched, made,
                   attempts>>

-----------------------------------------------------------------------------
(* What an invocation leaves behind.                                       *)

State(status, hint) ==
    [status |-> status, cand |-> cand, blocking |-> blocking, rounds |-> rounds, hint |-> hint,
     open |-> FALSE, pauseAfterGenerate |-> policy.pauseAfterGenerate]

Save(state) ==
    /\ NoFault /\ End("returned")
    /\ saved' = state
    /\ UNCHANGED <<callVars, loopVars, machineVars, artifact, repo, torn, misled, vouched, made,
                   attempts>>

(* Mutant of BudgetHint: an accepted candidate is fixed further.           *)
BudgetHintFix(next) ==
    IF rounds >= MaxRetries THEN NoStage
    ELSE IF cand.id # 0 THEN [stage |-> "iteration-fix", iteration |-> next]
    ELSE [stage |-> "iteration-generate", iteration |-> next]

BudgetHint(next) ==
    IF rounds >= MaxRetries THEN NoStage
    ELSE IF cand.id # 0 /\ ~blocking THEN [stage |-> "write-files", iteration |-> 0]
    ELSE IF cand.id # 0 THEN [stage |-> "iteration-fix", iteration |-> next]
    ELSE [stage |-> "iteration-generate", iteration |-> next]

(* createIterationLimitRetryHint, of a run and of a resume.                *)
LimitHint ==
    IF cand.id = 0 \/ (resumed /\ ~blocking) THEN NoStage
    ELSE [stage |-> "iteration-fix", iteration |-> rounds + 1]

-----------------------------------------------------------------------------
(* runOrchestrator.                                                        *)

Run(p) ==
    /\ pc = "idle" /\ outcome = "none"
    /\ Goto("plan")
    /\ policy' = p
    /\ UNCHANGED <<resumed, forced, aborted, loopVars, machineVars, diskVars, vouched, made,
                   attempts, faults>>

Plan ==
    /\ pc = "plan"
    /\ NoFault /\ Goto("confirm")
    /\ Spend
    /\ UNCHANGED <<callVars, loopVars, failed, open, diskVars, vouched, made, attempts>>

(* A checkpoint, or the plan itself, waits for the user's word.  After an  *)
(* abort the answer is no, at once.                                        *)
Asks ==
    \/ pc = "confirm" /\ (policy.pauseAfterPlan \/ policy.interactive)
    \/ pc = "checkpoint" /\ policy.pauseAfterPlan
    \/ pc = "estimate" /\ policy.interactive
    \/ pc = "judge" /\ ~over /\ policy.pauseAfterGenerate

Waits == Asks /\ ~aborted

(* Mutant of No: an abort does not close the question.                     *)
NoOfUser == Waits

Yes == Asks => ~aborted
No == Asks

Confirmed ==
    /\ pc \in {"confirm", "checkpoint"} /\ Yes
    /\ Goto(IF pc = "confirm" THEN "context" ELSE "estimate")
    /\ UNCHANGED <<callVars, loopVars, machineVars, diskVars, vouched, made, attempts, faults>>

PausedAfterPlan ==
    /\ pc \in {"confirm", "checkpoint"} /\ policy.pauseAfterPlan /\ No
    /\ Save(State("paused_after_plan", NoStage))

(* Declining the plan cancels the run and records nothing.                 *)
Declined ==
    /\ pc = "confirm" /\ policy.interactive /\ No
    /\ End("returned")
    /\ UNCHANGED <<callVars, loopVars, machineVars, diskVars, vouched, made, attempts, faults>>

Context ==
    /\ pc = "context"
    /\ NoFault /\ Goto("checkpoint")
    /\ Spend
    /\ UNCHANGED <<callVars, loopVars, failed, open, diskVars, vouched, made, attempts>>

ContextFails == pc = "context" /\ StageFails("context", 0)

(* The estimate is within the budget, or the user accepts it.  An aborted  *)
(* run stops at the head of executeGenerationLoop.                         *)
Affordable ==
    /\ pc = "estimate"
    /\ Goto(IF aborted THEN "catch" ELSE "loop")
    /\ UNCHANGED <<callVars, loopVars, machineVars, diskVars, vouched, made, attempts, faults>>

TooExpensive ==
    /\ pc = "estimate"
    /\ Save(State("failed", [stage |-> "iteration-generate", iteration |-> 0]))

-----------------------------------------------------------------------------
(* executeGenerationLoop.                                                  *)

LimitReached ==
    /\ Limit
    /\ Save(State("failed", LimitHint))

OverBudget ==
    /\ pc = "loop" /\ iteration <= MaxIterations /\ over
    /\ Save(State("failed", BudgetHint(start))) \/ StageFails("memory-store", 0)

InLoop == pc = "loop" /\ iteration <= MaxIterations /\ ~over

GenerationStage == IF iteration = 1 /\ cand.id = 0 THEN "iteration-generate" ELSE "iteration-fix"

Generate ==
    /\ InLoop /\ ~skip /\ (iteration = 1 \/ cand.id # 0) /\ made < MaxCandidates
    /\ NoFault /\ Spend
    /\ made' = made + 1
    /\ \E whole \in BOOLEAN : cand' = [id |-> made + 1, whole |-> whole]
    /\ Goto(IF cand'.whole THEN "tools" ELSE "incomplete")
    /\ UNCHANGED <<callVars, blocking, found, rounds, iteration, start, skip, failed, open, diskVars,
                   vouched, attempts>>

GenerateFails == InLoop /\ ~skip /\ StageFails(GenerationStage, iteration)

(* A retry from the checks takes the saved candidate.                      *)
SkipGeneration ==
    /\ InLoop /\ skip /\ cand.id # 0
    /\ Goto(IF cand.whole THEN "tools" ELSE "incomplete")
    /\ UNCHANGED <<callVars, loopVars, machineVars, diskVars, vouched, made, attempts, faults>>

(* persistIterationArtifacts: the files of the candidate, then a manifest  *)
(* with its issues.                                                        *)
Store(objected) ==
    artifact' = [id |-> cand.id, iteration |-> iteration, blocking |-> objected, mixed |-> FALSE]

(* A candidate that misses a planned file is not checked.                  *)
Incomplete ==
    /\ pc = "incomplete"
    /\ Goto("loop")
    /\ blocking' = TRUE
    /\ Store(TRUE)
    /\ rounds' = rounds + 1
    /\ iteration' = iteration + 1 /\ skip' = FALSE
    /\ UNCHANGED <<callVars, cand, found, start, machineVars, saved, repo, torn, misled, vouched,
                   made, attempts, faults>>

(* A resumed run that starts over writes its candidate over the one of the *)
(* same iteration, and stops before it replaces the manifest.              *)
StoreFails ==
    /\ pc \in {"incomplete", "review"}
    /\ artifact.iteration = iteration /\ artifact.id # cand.id
    /\ Fault /\ (Throw \/ End("threw"))
    /\ artifact' = [artifact EXCEPT !.id = cand.id, !.mixed = TRUE]
    /\ UNCHANGED <<callVars, loopVars, machineVars, saved, repo, torn, misled, vouched, made,
                   attempts>>

(* There is no candidate to fix, or to check.                              *)
NothingToWorkOn ==
    /\ InLoop /\ cand.id = 0 /\ (skip \/ iteration # 1)
    /\ End("refused")
    /\ UNCHANGED <<callVars, loopVars, machineVars, diskVars, vouched, made, attempts, faults>>

Tools ==
    /\ pc = "tools"
    /\ NoFault /\ Goto("review")
    /\ found' \in BOOLEAN
    /\ Spend
    /\ UNCHANGED <<callVars, cand, blocking, rounds, iteration, start, skip, failed, open, diskVars,
                   vouched, made, attempts>>

ToolsFail == pc = "tools" /\ StageFails("iteration-tools", iteration)

(* The issues of the review and of the checks are about this candidate     *)
(* only: those of the one before are forgotten.                            *)
Review ==
    /\ pc = "review"
    /\ NoFault /\ Goto("judge")
    /\ \E objects \in BOOLEAN : blocking' = (objects \/ found)
    /\ Store(blocking')
    /\ rounds' = rounds + 1
    /\ vouched' = IF blocking' THEN vouched ELSE vouched \cup {cand.id}
    /\ Spend
    /\ UNCHANGED <<callVars, cand, found, iteration, start, skip, failed, open, saved, repo, torn,
                   misled, made, attempts>>

ReviewFails == pc = "review" /\ StageFails("iteration-review", iteration)

(* After the review: the budget, the checkpoint, the verdict.              *)
JudgedOverBudget ==
    /\ pc = "judge" /\ over
    /\ Save(State("failed", BudgetHint(iteration + 1))) \/ StageFails("memory-store", 0)

PausedAfterGenerate ==
    /\ pc = "judge" /\ ~over /\ policy.pauseAfterGenerate /\ No
    /\ Save(State("paused_after_generate", NoStage))

FixNext ==
    /\ pc = "judge" /\ ~over /\ Yes /\ blocking
    /\ Goto("loop")
    /\ iteration' = iteration + 1 /\ skip' = FALSE
    /\ UNCHANGED <<callVars, cand, blocking, found, rounds, start, machineVars, diskVars, vouched,
                   made, attempts, faults>>

Accept ==
    /\ pc = "judge" /\ ~over /\ Yes /\ ~blocking
    /\ Goto("write")
    /\ UNCHANGED <<callVars, loopVars, machineVars, diskVars, vouched, made, attempts, faults>>

-----------------------------------------------------------------------------
(* finalizeSuccessfulRun and the end of finalizeFailedRun.                 *)

BeginWrite ==
    /\ pc = "write"
    /\ Goto(IF policy.dryRun THEN "record" ELSE "writing")
    /\ UNCHANGED <<callVars, loopVars, machineVars, diskVars, vouched, made, attempts, faults>>

Written ==
    /\ pc = "writing"
    /\ NoFault /\ Goto("record")
    /\ repo' = cand.id /\ torn' = FALSE /\ misled' = FALSE
    /\ UNCHANGED <<callVars, loopVars, machineVars, saved, artifact, vouched, made, attempts>>

(* A failed write is rolled back; the rollback may fail too.  Or the files *)
(* are written and that is not recorded; or the stage is not even entered. *)
WriteFails ==
    /\ pc = "writing"
    /\ Fault /\ Throw
    /\ \/ /\ failed' = [stage |-> "write-files", iteration |-> 0]
          /\ \/ torn' \in {torn, TRUE} /\ UNCHANGED <<repo, misled>>
             \/ torn' = FALSE /\ repo' = cand.id /\ misled' = FALSE
          /\ UNCHANGED open
       \/ open' = TRUE /\ UNCHANGED <<failed, torn, repo, misled>>
    /\ UNCHANGED <<callVars, loopVars, over, saved, artifact, vouched, made, attempts>>

Record ==
    /\ pc = "record"
    /\ \/ Save(State(IF resumed THEN "resumed_completed" ELSE "completed", NoStage))
       \/ StageFails("memory-store", 0)

(* A resume of a run that failed while it stored its summary.              *)
GiveUp ==
    /\ pc = "giveup"
    /\ Save(State("failed", IF saved.hint # NoStage THEN saved.hint ELSE LimitHint))

-----------------------------------------------------------------------------
(* resumeOrchestrator.                                                     *)

(* Mutant of MayResume: a hint is asked of a paused run too.               *)
MayResumeHinted(stage) == saved.hint # NoStage \/ stage # "none"

(* isResumableRunStatus.                                                   *)
MayResume(stage) ==
    \/ saved.status \in Paused
    \/ saved.status = "failed" /\ (saved.hint # NoStage \/ stage # "none")

AtLeastOne(n) == IF n = 0 THEN 1 ELSE n

(* createForcedRetryHint.                                                  *)
ForcedHint(stage) ==
    LET has == saved.cand.id # 0
        latest == AtLeastOne(saved.rounds)
    IN  CASE stage \in {"iteration-tools", "iteration-review"} ->
                 [stage |-> "iteration-tools", iteration |-> IF has THEN latest ELSE 1]
          [] stage = "iteration-fix" ->
                 [stage |-> "iteration-fix", iteration |-> IF has THEN latest + 1 ELSE 1]
          [] stage = "iteration-generate" ->
                 [stage |-> "iteration-generate", iteration |-> IF has THEN latest + 1 ELSE 1]
          [] OTHER -> [stage |-> stage, iteration |-> 0]

Looping(from, checks) == [kind |-> "loop", start |-> from, checks |-> checks]
Finalizing(kind) == [kind |-> kind, start |-> 1, checks |-> FALSE]

(* Mutant of WriteStrategy: the write is taken for done.                   *)
WriteStrategyDone == Finalizing("record")

WriteStrategy == Finalizing("write")

(* Mutant of NextRound: a run without a candidate restarts at round 0.     *)
NextRoundBare == saved.rounds

NextRound == IF saved.cand.id # 0 THEN saved.rounds + 1 ELSE 1

(* resolveResumeStrategy.                                                  *)
Strategy(stage) ==
    LET hint == IF stage = "none" THEN saved.hint ELSE ForcedHint(stage)
        From(n) == IF hint.iteration # 0 THEN hint.iteration ELSE n
    IN  CASE saved.status = "paused_after_plan" -> Looping(1, FALSE)
          [] saved.status = "paused_after_generate" ->
                 IF saved.cand.id # 0 /\ ~saved.blocking THEN WriteStrategy
                                                         ELSE Looping(NextRound, FALSE)
          [] saved.status = "failed" /\ hint.stage = "write-files" -> WriteStrategy
          [] saved.status = "failed" /\ hint.stage = "memory-store" ->
                 Finalizing(IF saved.blocking THEN "giveup" ELSE "record")
          [] saved.status = "failed" /\ hint.stage = "iteration-tools" ->
                 Looping(From(AtLeastOne(saved.rounds)), TRUE)
          [] saved.status = "failed" /\ hint.stage \in {"iteration-generate", "iteration-fix"} ->
                 Looping(From(NextRound), FALSE)
          [] OTHER -> Looping(NextRound, FALSE)

Attempt == attempts < MaxAttempts /\ attempts' = attempts + 1

(* The saved run is loaded, by a process with a budget of its own.         *)
Resume(stage) ==
    /\ pc = "idle" /\ saved.status # "none"
    /\ Attempt
    /\ forced' = stage /\ resumed' = TRUE /\ aborted' = FALSE
    /\ IF MayResume(stage) /\ ~saved.open
       THEN pc' = "prepare" /\ outcome' = "none" ELSE End("refused")
    /\ policy' = [policy EXCEPT !.pauseAfterPlan = FALSE, !.interactive = FALSE,
                                !.pauseAfterGenerate = saved.pauseAfterGenerate]
    /\ cand' = saved.cand /\ blocking' = saved.blocking /\ rounds' = saved.rounds
    /\ found' = FALSE
    /\ start' = Strategy(stage).start /\ iteration' = Strategy(stage).start
    /\ skip' = Strategy(stage).checks
    /\ over' \in BOOLEAN /\ failed' = NoStage /\ open' = FALSE
    /\ UNCHANGED <<diskVars, vouched, made, faults>>

(* Routing, memory and context; then the strategy is followed, if it can   *)
(* be: an accepted candidate is written, a loop entered.                   *)
Prepare ==
    LET kind == Strategy(forced).kind IN
    /\ pc = "prepare"
    /\ CASE kind \in {"write", "record"} /\ (cand.id = 0 \/ blocking) -> End("refused")
         [] kind = "loop" /\ aborted -> End("threw")
         [] OTHER -> Goto(kind)
    /\ UNCHANGED <<callVars, loopVars, machineVars, diskVars, vouched, made, attempts, faults>>

-----------------------------------------------------------------------------
(* ai apply, the user's abort, the end of the process.                     *)

(* applyArtifactCandidate, of the latest iteration.                        *)
Apply(force) ==
    /\ pc = "idle" /\ artifact.id # 0 /\ (force \/ ~artifact.blocking)
    /\ Attempt
    /\ repo' = artifact.id /\ torn' = FALSE
    /\ misled' = (~force /\ artifact.mixed)
    /\ vouched' = IF force THEN vouched \cup {artifact.id} ELSE vouched
    /\ UNCHANGED <<pc, outcome, callVars, loopVars, machineVars, saved, artifact, made, faults>>

Abort ==
    /\ pc # "idle" /\ ~aborted
    /\ aborted' = TRUE
    /\ UNCHANGED <<pc, outcome, resumed, forced, policy, loopVars, machineVars, diskVars, vouched,
                   made, attempts, faults>>

(* A process that dies while it writes leaves some of the files written.   *)
Crash ==
    /\ pc # "idle"
    /\ Fault /\ End("threw")
    /\ IF pc = "writing" THEN torn' \in {torn, TRUE} ELSE UNCHANGED torn
    /\ UNCHANGED <<callVars, loopVars, machineVars, saved, artifact, repo, misled, vouched, made,
                   attempts>>

-----------------------------------------------------------------------------
StartStep == Plan \/ Context \/ ContextFails
AnswerStep ==
    \/ Confirmed \/ PausedAfterPlan \/ Declined \/ Affordable \/ TooExpensive
    \/ PausedAfterGenerate \/ FixNext \/ Accept
LoopStep ==
    \/ LimitReached \/ OverBudget \/ Generate \/ GenerateFails \/ SkipGeneration
    \/ Incomplete \/ NothingToWorkOn \/ Tools \/ ToolsFail \/ Review \/ ReviewFails \/ JudgedOverBudget
EndStep == BeginWrite \/ Written \/ WriteFails \/ Record \/ GiveUp \/ Catch
FailStep == FailsOutside \/ FailsUncaught \/ StoreFails

Next ==
    \/ \E p \in [dryRun : BOOLEAN, interactive : BOOLEAN, pauseAfterPlan : BOOLEAN,
                 pauseAfterGenerate : BOOLEAN] : Run(p)
    \/ StartStep \/ AnswerStep \/ LoopStep \/ EndStep \/ FailStep \/ Prepare
    \/ \E stage \in RetryStages \cup {"none"} : Resume(stage)
    \/ \E force \in BOOLEAN : Apply(force)
    \/ Abort \/ Crash

Spec == Init /\ [][Next]_vars

(* Every call a run awaits returns or fails (providers and tools have      *)
(* timeouts).  Nothing makes a user answer.                                *)
Fairness == WF_vars(StartStep \/ LoopStep \/ EndStep \/ Prepare \/ (~Waits /\ AnswerStep))

LiveSpec == Spec /\ Fairness

-----------------------------------------------------------------------------
(* The properties.                                                         *)

(* The repository never holds a candidate that no review accepted and no   *)
(* user forced, whatever is retried, forced or interrupted: unless ai apply*)
(* read the manifest of the files that an interrupted store replaced.      *)
WrittenIsVouched == repo # 0 /\ ~misled => repo \in vouched

(* A run recorded as completed has its candidate, and nothing else, in the *)
(* repository.  (A user who retries from the memory stage says that the    *)
(* write is done.)                                                         *)
CompletedIsWritten ==
    [][ saved' # saved /\ saved'.status \in Completed /\ ~policy.dryRun /\ forced # "memory-store"
            => repo = saved'.cand.id /\ ~torn ]_vars

(* A paused run can be resumed: no resume of it is refused.                *)
PausedIsResumable == outcome = "refused" => saved.status \notin Paused

(* A candidate that was accepted is not replaced: a resume of a run that   *)
(* stopped after its review writes it, it does not generate another.       *)
AcceptedIsKept ==
    [][ made' # made /\ resumed /\ forced = "none" /\ saved.cand.id # 0 => saved.blocking ]_vars

(* An invocation ends, unless it waits for a user; one that was aborted    *)
(* waits for nobody.                                                       *)
RunEnds == pc # "idle" ~> pc = "idle" \/ Waits

(* docs/WORKSPACE.md: "Runs are resumable from any paused or failed stage."*)
(* Here: a run that failed in its loop, with a retry hint, and all of whose*)
(* stages are finished, is resumed when the user asks for no other stage.  *)
FailedIsResumable ==
    /\ outcome = "refused" /\ forced = "none"
    /\ saved.status = "failed"
    /\ saved.hint.stage \in {"iteration-generate", "iteration-tools", "iteration-fix"}
    => saved.open
=============================================================================
