------------------------- MODULE RunExecutionProofs -------------------------
(***************************************************************************)
(* Theorems about RunExecution, for every number of iterations, retries,   *)
(* resumes and failures; and then about the rules that a run, its server   *)
(* and its worker follow, for every input.                                 *)
(***************************************************************************)
EXTENDS RunExecution, FiniteSetTheorems, SequenceTheorems, TLAPS

(* Before the loop a first run has no candidate, and neither has a         *)
(* repository that was never run on.                                       *)
AtStart == cand = NoCand /\ ~resumed /\ forced = "none" /\ iteration = 1 /\ ~skip
Started ==
    pc \in {"plan", "confirm", "context", "checkpoint", "estimate"}
        \/ (pc = "idle" /\ outcome = "none") => AtStart

(* A candidate whose issues do not block is vouched for, in the invocation *)
(* (from its review on), in run-state.json and in its own manifest.        *)
Judged ==
    pc \notin {"idle", "catch", "incomplete", "tools", "review"} /\ cand.id # 0 /\ ~blocking
        => cand.id \in vouched
Accepted == pc \in {"write", "writing", "record"} => cand.id # 0 /\ ~blocking
SavedVouched == saved.cand.id # 0 /\ ~saved.blocking => saved.cand.id \in vouched
StoredVouched ==
    artifact.id # 0 /\ ~artifact.blocking /\ ~artifact.mixed => artifact.id \in vouched
HasCand == pc \in {"incomplete", "tools", "review", "judge"} => cand.id # 0
VouchInv ==
    /\ Started /\ HasCand /\ Judged /\ Accepted
    /\ SavedVouched /\ StoredVouched /\ WrittenIsVouched

(* What is recorded of a paused run and of an accepted candidate.          *)
PausedClosed == saved.status \in Paused => ~saved.open
PlanPaused == saved.status = "paused_after_plan" => saved.cand.id = 0
HintKeeps ==
    saved.status = "failed" /\ saved.cand.id # 0 /\ ~saved.blocking
        => saved.hint = NoStage \/ saved.hint.stage = "write-files"
SavedInv == PausedClosed /\ PlanPaused /\ HintKeeps

(* What holds of the candidate at each stage.                              *)
Blocked == pc = "loop" /\ ~resumed /\ cand.id # 0 => blocking
GivingUp == pc = "giveup" => blocking
Prepared ==
    pc = "prepare" =>
        /\ resumed /\ MayResume(forced)
        /\ cand = saved.cand /\ blocking = saved.blocking
        /\ iteration = Strategy(forced).start /\ skip = Strategy(forced).checks
Recording == pc = "record" /\ ~policy.dryRun /\ forced # "memory-store" => repo = cand.id /\ ~torn
Kept ==
    pc \in {"loop", "incomplete", "tools", "review", "judge"} /\ resumed /\ forced = "none"
        /\ saved.cand.id # 0 => saved.blocking
PausedLoop == pc = "loop" /\ saved.status \in Paused => ~skip /\ (iteration = 1 \/ cand.id # 0)
StageInv == Blocked /\ GivingUp /\ Prepared /\ Recording /\ Kept /\ PausedLoop
ResumeInv == SavedInv /\ StageInv /\ PausedIsResumable

USE RunExecutionAssumption

-----------------------------------------------------------------------------
(* Types.                                                                  *)

(* What a resume makes of the saved run is a known strategy.               *)
Strategies == [kind : {"loop", "write", "record", "giveup"}, start : Nat \ {0}, checks : BOOLEAN]

LEMMA ForcedHintType ==
    ASSUME saved \in RunStates, NEW stage \in RetryStages
    PROVE ForcedHint(stage) \in Hints
  BY DEF ForcedHint, Hints, RetryStages, RunStates, AtLeastOne

LEMMA StrategyType ==
    ASSUME saved \in RunStates, NEW stage \in RetryStages \cup {"none"}
    PROVE Strategy(stage) \in Strategies
<1> DEFINE hint == IF stage = "none" THEN saved.hint ELSE ForcedHint(stage)
<1>1. hint \in Hints
  BY ForcedHintType DEF RunStates
<1>2. NextRound \in Nat \ {0} /\ AtLeastOne(saved.rounds) \in Nat \ {0}
  BY DEF NextRound, AtLeastOne, RunStates
<1>3. hint.iteration \in Nat
  BY <1>1 DEF Hints
<1> HIDE DEF hint
<1> QED
  BY <1>2, <1>3 DEF Strategy, hint, Strategies, Looping, Finalizing, WriteStrategy

(* The frame of the steps that leave the disk and the history alone.       *)
LEMMA SaveType ==
    ASSUME TypeOK, NEW state \in RunStates, Save(state)
    PROVE TypeOK'
<1>1. UNCHANGED <<callVars, loopVars, machineVars, artifact, repo, torn, misled, vouched, made, attempts, faults>>
  BY DEF Save, NoFault
<1>2. pc' = "idle" /\ outcome' = "returned" /\ saved' = state
  BY DEF Save, End
<1> QED
  BY <1>1, <1>2, SMTT(60) DEF TypeOK, callVars, loopVars, machineVars

LEMMA SpendType == ASSUME TypeOK, Spend PROVE over' \in BOOLEAN
  BY DEF TypeOK, Spend

LEMMA StateType ==
    ASSUME TypeOK, NEW status \in {"failed"} \cup Paused \cup Completed, NEW hint \in Hints
    PROVE State(status, hint) \in RunStates
  BY DEF TypeOK, State, RunStates

LEMMA StageFailsType ==
    ASSUME TypeOK, NEW stage \in RetryStages, NEW i \in Nat, StageFails(stage, i)
    PROVE TypeOK'
<1> DEFINE here == [stage |-> stage, iteration |-> i]
<1>1. here \in Hints
  BY DEF Hints
<1> HIDE DEF here
<1>3. faults' \in Nat
  BY DEF TypeOK, StageFails, Fault
<1>4. failed' \in {failed, here} /\ open' \in {open, TRUE}
  BY DEF StageFails, here
<1>5. failed' \in Hints /\ open' \in BOOLEAN
  BY <1>1, <1>4 DEF TypeOK
<1>6. UNCHANGED <<callVars, loopVars, over, diskVars, vouched, made, attempts>>
  BY DEF StageFails
<1>2. pc' \in {"idle", "catch"} /\ outcome' \in {"none", "returned", "threw", "refused"}
  BY DEF TypeOK, StageFails, Throw, End, Goto
<1> QED
  BY <1>2, <1>3, <1>5, <1>6, SMTT(60) DEF TypeOK, callVars, loopVars, diskVars

LEMMA HintTypes ==
    ASSUME TypeOK
    PROVE /\ NoStage \in Hints /\ LimitHint \in Hints /\ HintFromFailure \in Hints
          /\ BudgetHint(start) \in Hints /\ BudgetHint(iteration + 1) \in Hints
<1>0. NoStage \in Hints
  BY DEF NoStage, Hints
<1>1. LimitHint \in Hints
  BY <1>0 DEF TypeOK, Hints, RetryStages, LimitHint
<1>2. HintFromFailure \in Hints
  BY DEF TypeOK, Hints, RetryStages, HintFromFailure
<1>3. \A n \in Nat : BudgetHint(n) \in Hints
  BY <1>0 DEF TypeOK, Hints, RetryStages, BudgetHint
<1>4. start \in Nat /\ iteration + 1 \in Nat
  BY DEF TypeOK
<1> QED
  BY <1>0, <1>4, <1>1, <1>2, <1>3

LEMMA StartTypes ==
    ASSUME TypeOK, StartStep \/ AnswerStep PROVE TypeOK'
<1>1. CASE Plan
  BY <1>1, SpendType, SMTT(60) DEF Plan, TypeOK, Goto, End, NoFault, Fault, callVars,
     loopVars, machineVars, diskVars
<1>2. CASE Context
  BY <1>2, SpendType, SMTT(60) DEF Context, TypeOK, Goto, End, NoFault, Fault, callVars,
     loopVars, machineVars, diskVars
<1>3. CASE Confirmed
  BY <1>3 DEF Confirmed, TypeOK, Goto, End, NoFault, Fault, Spend, callVars,
     loopVars, machineVars, diskVars
<1>4. CASE Declined
  BY <1>4 DEF Declined, TypeOK, Goto, End, NoFault, Fault, Spend, callVars,
     loopVars, machineVars, diskVars
<1>5. CASE Affordable
  BY <1>5 DEF Affordable, TypeOK, Goto, End, NoFault, Fault, Spend, callVars,
     loopVars, machineVars, diskVars
<1>6. CASE FixNext
  <2>1. iteration' \in Nat \ {0}
    BY <1>6 DEF FixNext, TypeOK
  <2>3. skip' \in BOOLEAN
    BY <1>6 DEF FixNext
  <2>2. /\ pc' = "loop" /\ UNCHANGED outcome
        /\ UNCHANGED <<callVars, cand, blocking, found, rounds, start, machineVars, diskVars, vouched,
                       made, attempts, faults>>
    BY <1>6 DEF FixNext, Goto
  <2> QED
    BY <2>1, <2>2, <2>3 DEF TypeOK, callVars, machineVars, diskVars
<1>7. CASE Accept
  BY <1>7 DEF Accept, TypeOK, Goto, End, NoFault, Fault, Spend, callVars,
     loopVars, machineVars, diskVars
<1>8. CASE PausedAfterPlan
  BY <1>8, StateType, SaveType, HintTypes DEF PausedAfterPlan, Paused
<1>9. CASE PausedAfterGenerate
  BY <1>9, StateType, SaveType, HintTypes DEF PausedAfterGenerate, Paused
<1>10. CASE TooExpensive
  <2>1. [stage |-> "iteration-generate", iteration |-> 0] \in Hints
    BY DEF Hints, RetryStages
  <2> QED
    BY <1>10, <2>1, StateType, SaveType DEF TooExpensive
<1>11. CASE ContextFails
  BY <1>11, StageFailsType DEF ContextFails, RetryStages
<1> QED
  BY <1>1, <1>2, <1>3, <1>4, <1>5, <1>6, <1>7, <1>8, <1>9, <1>10, <1>11 DEF StartStep, AnswerStep

LEMMA LoopTypes ==
    ASSUME TypeOK, LoopStep PROVE TypeOK'
<1>1. CASE LimitReached
  BY <1>1, StateType, SaveType, HintTypes DEF LimitReached
<1>2. CASE OverBudget
  BY <1>2, StateType, SaveType, HintTypes, StageFailsType DEF OverBudget, RetryStages
<1>3. CASE JudgedOverBudget
  BY <1>3, StateType, SaveType, HintTypes, StageFailsType DEF JudgedOverBudget, RetryStages
<1>4. CASE Generate
  <2>1. made' \in 0..MaxCandidates /\ \E whole \in BOOLEAN : cand' = [id |-> made + 1, whole |-> whole]
    BY <1>4 DEF Generate, TypeOK
  <2>2. made + 1 \in 0..MaxCandidates
    BY <1>4 DEF Generate, TypeOK
  <2>3. cand' \in Candidates
    BY <2>1, <2>2 DEF Candidates
  <2> QED
    BY <1>4, <2>1, <2>3, SpendType, SMTT(60) DEF Generate, TypeOK, Goto, NoFault, callVars, diskVars
<1>5. CASE GenerateFails
  BY <1>5, StageFailsType DEF GenerateFails, GenerationStage, TypeOK, RetryStages
<1>6. CASE SkipGeneration
  BY <1>6 DEF SkipGeneration, TypeOK, Goto, End, NoFault, Fault, Spend, callVars,
     loopVars, machineVars, diskVars, InLoop
<1>7. CASE NothingToWorkOn
  BY <1>7 DEF NothingToWorkOn, TypeOK, Goto, End, NoFault, Fault, Spend, callVars,
     loopVars, machineVars, diskVars, InLoop
<1>8. CASE Tools
  BY <1>8, SpendType, SMTT(60) DEF Tools, TypeOK, Goto, End, NoFault, Fault, callVars,
     loopVars, machineVars, diskVars, InLoop
<1>9. CASE Incomplete
  <2>1. artifact' \in [id : 0..MaxCandidates, iteration : Nat, blocking : BOOLEAN, mixed : BOOLEAN]
    BY <1>9 DEF Incomplete, Store, TypeOK, Candidates
  <2>2. iteration' \in Nat \ {0} /\ rounds' \in Nat
    BY <1>9 DEF Incomplete, TypeOK
  <2>4. skip' \in BOOLEAN /\ blocking' \in BOOLEAN
    BY <1>9 DEF Incomplete
  <2>3. /\ pc' = "loop" /\ UNCHANGED outcome
        /\ UNCHANGED <<callVars, cand, found, start, machineVars, saved, repo, torn, misled, vouched,
                       made, attempts, faults>>
    BY <1>9 DEF Incomplete, Goto
  <2> QED
    BY <2>1, <2>2, <2>3, <2>4 DEF TypeOK, callVars, machineVars
<1>10. CASE Review
  <2>1. artifact' \in [id : 0..MaxCandidates, iteration : Nat, blocking : BOOLEAN, mixed : BOOLEAN]
    BY <1>10 DEF Review, Store, TypeOK, Candidates
  <2>2. vouched' \subseteq 0..MaxCandidates /\ blocking' \in BOOLEAN
    BY <1>10 DEF Review, TypeOK, Candidates
  <2> QED
    BY <1>10, <2>1, <2>2, SpendType, SMTT(60) DEF Review, TypeOK, Goto, NoFault, callVars
<1>11. CASE ToolsFail
  BY <1>11, StageFailsType DEF ToolsFail, TypeOK, RetryStages
<1>12. CASE ReviewFails
  BY <1>12, StageFailsType DEF ReviewFails, TypeOK, RetryStages
<1> QED
  BY <1>1, <1>2, <1>3, <1>4, <1>5, <1>6, <1>7, <1>8, <1>9, <1>10, <1>11, <1>12 DEF LoopStep

LEMMA EndTypes ==
    ASSUME TypeOK, EndStep \/ FailStep PROVE TypeOK'
<1>1. CASE BeginWrite
  BY <1>1 DEF BeginWrite, TypeOK, Goto, End, NoFault, Fault, Spend, callVars,
     loopVars, machineVars, diskVars
<1>2. CASE Written
  <2>1. repo' \in 0..MaxCandidates /\ torn' \in BOOLEAN /\ misled' \in BOOLEAN
    BY <1>2 DEF Written, TypeOK, Candidates
  <2>2. /\ pc' = "record" /\ UNCHANGED outcome
        /\ UNCHANGED <<callVars, loopVars, machineVars, saved, artifact, vouched, made, attempts, faults>>
    BY <1>2 DEF Written, Goto, NoFault
  <2> QED
    BY <2>1, <2>2 DEF TypeOK, callVars, loopVars, machineVars
<1>3. CASE WriteFails
  <2>1. [stage |-> "write-files", iteration |-> 0] \in Hints
    BY DEF Hints, RetryStages
  <2>2. failed' \in Hints /\ open' \in BOOLEAN /\ torn' \in BOOLEAN /\ misled' \in BOOLEAN
    BY <1>3, <2>1 DEF WriteFails, TypeOK
  <2>3. repo' \in 0..MaxCandidates
    BY <1>3 DEF WriteFails, TypeOK, Candidates
  <2>4. faults' \in Nat /\ pc' \in {"idle", "catch"} /\ outcome' \in {outcome, "threw"}
    BY <1>3 DEF WriteFails, Fault, Throw, End, Goto, TypeOK
  <2>5. UNCHANGED <<callVars, loopVars, over, saved, artifact, vouched, made, attempts>>
    BY <1>3 DEF WriteFails
  <2> QED
    BY <2>2, <2>3, <2>4, <2>5 DEF TypeOK, callVars, loopVars
<1>4. CASE Record
  BY <1>4, StateType, SaveType, HintTypes, StageFailsType DEF Record, RetryStages, Completed
<1>5. CASE GiveUp
  <2>1. saved.hint \in Hints
    BY DEF TypeOK, RunStates
  <2> QED
    BY <1>5, <2>1, StateType, SaveType, HintTypes DEF GiveUp
<1>6. CASE Catch
  <2>1. Errored \in RunStates
    BY HintTypes DEF TypeOK, Errored, RunStates, CaughtResult, NoCand, Candidates
  <2>2. Save(Errored)
    BY <1>6 DEF Catch, Save
  <2> QED
    BY <2>1, <2>2, SaveType
<1>7. CASE FailsOutside
  BY <1>7 DEF FailsOutside, Throw, TypeOK, Goto, End, Fault, callVars, loopVars, machineVars, diskVars
<1>8. CASE FailsUncaught
  BY <1>8 DEF FailsUncaught, TypeOK, End, Fault, callVars, loopVars, machineVars, diskVars
<1>9. CASE StoreFails
  <2>1. artifact' \in [id : 0..MaxCandidates, iteration : Nat, blocking : BOOLEAN, mixed : BOOLEAN]
    BY <1>9 DEF StoreFails, TypeOK, Candidates
  <2> QED
    BY <1>9, <2>1 DEF StoreFails, Throw, TypeOK, Goto, End, Fault, callVars, loopVars, machineVars
<1> QED
  BY <1>1, <1>2, <1>3, <1>4, <1>5, <1>6, <1>7, <1>8, <1>9 DEF EndStep, FailStep

LEMMA ResumeTypes ==
    ASSUME TypeOK, NEW stage \in RetryStages \cup {"none"}, Resume(stage) PROVE TypeOK'
<1>1. Strategy(stage) \in Strategies
  BY StrategyType DEF TypeOK
<1>2. start' \in Nat \ {0} /\ iteration' \in Nat \ {0} /\ skip' \in BOOLEAN
  BY <1>1 DEF Resume, Strategies
<1>3. cand' \in Candidates /\ blocking' \in BOOLEAN /\ rounds' \in Nat
  BY DEF Resume, TypeOK, RunStates
<1>4. policy' \in [dryRun : BOOLEAN, interactive : BOOLEAN, pauseAfterPlan : BOOLEAN,
                   pauseAfterGenerate : BOOLEAN]
  BY DEF Resume, TypeOK, RunStates
<1>5. pc' \in {"idle", "prepare"} /\ outcome' \in {"none", "refused"} /\ attempts' \in Nat
  BY DEF Resume, End, Attempt, TypeOK
<1>6. NoStage \in Hints
  BY HintTypes
<1>7. /\ forced' = stage /\ resumed' = TRUE /\ aborted' = FALSE /\ found' = FALSE
      /\ over' \in BOOLEAN /\ failed' = NoStage /\ open' = FALSE
      /\ UNCHANGED <<diskVars, vouched, made, faults>>
  BY DEF Resume
<1> QED
  BY <1>2, <1>3, <1>4, <1>5, <1>6, <1>7 DEF TypeOK, diskVars

(* The variables keep their types, for every number of iterations, retries, *)
(* resumes and failures.                                                   *)
THEOREM TypeCorrect == Spec => []TypeOK
<1>1. Init => TypeOK
  <2>1. NoCand \in Candidates /\ NoStage \in Hints
    BY DEF NoCand, Candidates, NoStage, Hints
  <2>2. NoState \in RunStates
    BY <2>1 DEF NoState, RunStates
  <2>3. NoArtifact \in [id : 0..MaxCandidates, iteration : Nat, blocking : BOOLEAN, mixed : BOOLEAN]
    BY DEF NoArtifact
  <2> SUFFICES ASSUME Init PROVE TypeOK
    OBVIOUS
  <2>4. /\ resumed \in BOOLEAN /\ aborted \in BOOLEAN /\ blocking \in BOOLEAN /\ found \in BOOLEAN
        /\ skip \in BOOLEAN /\ over \in BOOLEAN /\ open \in BOOLEAN /\ torn \in BOOLEAN
        /\ misled \in BOOLEAN
    BY DEF Init
  <2>5. /\ pc = "idle" /\ forced = "none" /\ outcome = "none" /\ cand = NoCand /\ rounds = 0
        /\ iteration = 1 /\ start = 1 /\ failed = NoStage /\ saved = NoState /\ artifact = NoArtifact
        /\ repo = 0 /\ vouched = {} /\ made = 0 /\ attempts = 0 /\ faults = 0
    BY DEF Init
  <2>6. policy \in [dryRun : BOOLEAN, interactive : BOOLEAN, pauseAfterPlan : BOOLEAN,
                    pauseAfterGenerate : BOOLEAN]
    BY DEF Init
  <2> QED
    BY <2>1, <2>2, <2>3, <2>4, <2>5, <2>6 DEF TypeOK
<1>2. TypeOK /\ [Next]_vars => TypeOK'
  <2> SUFFICES ASSUME TypeOK, [Next]_vars PROVE TypeOK'
    OBVIOUS
  <2>1. ASSUME NEW p \in [dryRun : BOOLEAN, interactive : BOOLEAN, pauseAfterPlan : BOOLEAN,
                          pauseAfterGenerate : BOOLEAN], Run(p) PROVE TypeOK'
    BY <2>1 DEF Run, TypeOK, Goto, loopVars, machineVars, diskVars
  <2>2. CASE StartStep \/ AnswerStep
    BY <2>2, StartTypes
  <2>3. CASE LoopStep
    BY <2>3, LoopTypes
  <2>4. CASE EndStep \/ FailStep
    BY <2>4, EndTypes
  <2>5. CASE Prepare
    <3>1. Strategy(forced) \in Strategies
      BY StrategyType DEF TypeOK
    <3>2. pc' \in {"idle", "loop", "write", "record", "giveup"}
          /\ outcome' \in {"none", "returned", "threw", "refused"}
      BY <2>5, <3>1 DEF Prepare, Goto, End, Strategies, TypeOK
    <3> QED
      BY <2>5, <3>2 DEF Prepare, TypeOK, callVars, loopVars, machineVars, diskVars
  <2>6. ASSUME NEW stage \in RetryStages \cup {"none"}, Resume(stage) PROVE TypeOK'
    BY <2>6, ResumeTypes
  <2>7. ASSUME NEW force \in BOOLEAN, Apply(force) PROVE TypeOK'
    <3>1. repo' \in 0..MaxCandidates /\ misled' \in BOOLEAN /\ vouched' \subseteq 0..MaxCandidates
      BY <2>7 DEF Apply, TypeOK
    <3>2. attempts' \in Nat
      BY <2>7 DEF Apply, TypeOK, Attempt
    <3>4. torn' \in BOOLEAN
      BY <2>7 DEF Apply
    <3>3. UNCHANGED <<pc, outcome, callVars, loopVars, machineVars, saved, artifact, made, faults>>
      BY <2>7 DEF Apply
    <3> QED
      BY <3>1, <3>2, <3>3, <3>4 DEF TypeOK, callVars, loopVars, machineVars
  <2>8. CASE Abort
    BY <2>8 DEF Abort, TypeOK, loopVars, machineVars, diskVars
  <2>10. CASE Crash
    <3>1. torn' \in BOOLEAN /\ UNCHANGED misled
      BY <2>10 DEF Crash, TypeOK
    <3> QED
      BY <2>10, <3>1 DEF Crash, TypeOK, Fault, End, callVars, loopVars, machineVars
  <2>9. CASE UNCHANGED vars
    BY <2>9 DEF vars, TypeOK, callVars, loopVars, machineVars, diskVars
  <2> QED
    BY <2>1, <2>2, <2>3, <2>4, <2>5, <2>6, <2>7, <2>8, <2>9, <2>10 DEF Next
<1> QED
  BY <1>1, <1>2, PTL DEF Spec

-----------------------------------------------------------------------------
(* What reaches the repository.                                            *)

DiskKept == UNCHANGED <<saved, artifact, repo, misled, vouched>>

LEMMA DiskVouch ==
    ASSUME VouchInv, DiskKept PROVE SavedVouched' /\ StoredVouched' /\ WrittenIsVouched'
  BY DEF VouchInv, DiskKept, SavedVouched, StoredVouched, WrittenIsVouched

Ended == pc' = "catch" \/ (pc' = "idle" /\ outcome' # "none")

LEMMA EndedVouch ==
    ASSUME Ended PROVE Started' /\ HasCand' /\ Judged' /\ Accepted'
  BY DEF Ended, Started, HasCand, Judged, Accepted

LEMMA FailVouch ==
    ASSUME VouchInv, DiskKept, Ended PROVE VouchInv'
  BY DiskVouch, EndedVouch DEF VouchInv

LEMMA SaveVouch ==
    ASSUME VouchInv, pc \notin {"idle", "catch", "incomplete", "tools", "review"},
           NEW status, NEW hint, Save(State(status, hint))
    PROVE VouchInv'
<1>1. Ended /\ UNCHANGED <<artifact, repo, misled, vouched>>
  BY DEF Save, End, Ended
<1>2. saved'.cand = cand /\ saved'.blocking = blocking
  BY DEF Save, State
<1>3. SavedVouched'
  BY <1>1, <1>2 DEF VouchInv, Judged, SavedVouched
<1>4. StoredVouched' /\ WrittenIsVouched'
  BY <1>1 DEF VouchInv, StoredVouched, WrittenIsVouched
<1> QED
  BY <1>1, <1>3, <1>4, EndedVouch DEF VouchInv

LEMMA StageFailVouch ==
    ASSUME VouchInv, NEW stage, NEW i, StageFails(stage, i) PROVE VouchInv'
<1>1. DiskKept /\ Ended
  BY DEF StageFails, DiskKept, Ended, Throw, End, Goto, diskVars
<1> QED
  BY <1>1, FailVouch

LEMMA StartVouch ==
    ASSUME VouchInv, StartStep \/ AnswerStep PROVE VouchInv'
<1>1. CASE Plan
  <2>1. DiskKept
    BY <1>1 DEF Plan, DiskKept, diskVars
  <2>2. Started' /\ HasCand' /\ Judged' /\ Accepted'
    BY <1>1 DEF Plan, VouchInv, Started, AtStart, HasCand, Judged, Accepted, Goto, callVars, loopVars,
       NoCand
  <2> QED
    BY <2>1, <2>2, DiskVouch DEF VouchInv
<1>2. CASE Context
  <2>1. DiskKept
    BY <1>2 DEF Context, DiskKept, diskVars
  <2>2. Started' /\ HasCand' /\ Judged' /\ Accepted'
    BY <1>2 DEF Context, VouchInv, Started, AtStart, HasCand, Judged, Accepted, Goto, callVars, loopVars,
       NoCand
  <2> QED
    BY <2>1, <2>2, DiskVouch DEF VouchInv
<1>3. CASE Confirmed
  <2>1. DiskKept
    BY <1>3 DEF Confirmed, DiskKept, diskVars
  <2>2. Started' /\ HasCand' /\ Judged' /\ Accepted'
    BY <1>3 DEF Confirmed, VouchInv, Started, AtStart, HasCand, Judged, Accepted, Goto, callVars, loopVars,
       NoCand
  <2> QED
    BY <2>1, <2>2, DiskVouch DEF VouchInv
<1>4. CASE Affordable
  <2>1. DiskKept
    BY <1>4 DEF Affordable, DiskKept, diskVars
  <2>2. Started' /\ HasCand' /\ Judged' /\ Accepted'
    BY <1>4 DEF Affordable, VouchInv, Started, AtStart, HasCand, Judged, Accepted, Goto, callVars, loopVars,
       NoCand
  <2> QED
    BY <2>1, <2>2, DiskVouch DEF VouchInv
<1>5. CASE FixNext
  <2>1. DiskKept
    BY <1>5 DEF FixNext, DiskKept, diskVars
  <2>2. Started' /\ HasCand' /\ Judged' /\ Accepted'
    BY <1>5 DEF FixNext, VouchInv, Started, AtStart, HasCand, Judged, Accepted, Goto, callVars, loopVars,
       NoCand
  <2> QED
    BY <2>1, <2>2, DiskVouch DEF VouchInv
<1>6. CASE Accept
  <2>1. DiskKept
    BY <1>6 DEF Accept, DiskKept, diskVars
  <2>2. Started' /\ HasCand' /\ Judged' /\ Accepted'
    BY <1>6 DEF Accept, VouchInv, Started, AtStart, HasCand, Judged, Accepted, Goto, callVars, loopVars,
       NoCand
  <2> QED
    BY <2>1, <2>2, DiskVouch DEF VouchInv
<1>7. CASE PausedAfterPlan
  BY <1>7, SaveVouch DEF PausedAfterPlan
<1>8. CASE TooExpensive
  BY <1>8, SaveVouch DEF TooExpensive
<1>9. CASE PausedAfterGenerate
  BY <1>9, SaveVouch DEF PausedAfterGenerate
<1>10. CASE Declined
  <2>1. DiskKept /\ Ended
    BY <1>10 DEF Declined, DiskKept, Ended, End, diskVars
  <2> QED
    BY <2>1, FailVouch
<1>11. CASE ContextFails
  BY <1>11, StageFailVouch DEF ContextFails
<1> QED
  BY <1>1, <1>2, <1>3, <1>4, <1>5, <1>6, <1>7, <1>8, <1>9, <1>10, <1>11 DEF StartStep, AnswerStep

LEMMA LoopVouch ==
    ASSUME TypeOK, VouchInv, LoopStep PROVE VouchInv'
<1>1. CASE LimitReached
  BY <1>1, SaveVouch DEF LimitReached, Limit
<1>2. CASE OverBudget
  BY <1>2, SaveVouch, StageFailVouch DEF OverBudget
<1>3. CASE JudgedOverBudget
  BY <1>3, SaveVouch, StageFailVouch DEF JudgedOverBudget
<1>4. CASE GenerateFails \/ ToolsFail \/ ReviewFails
  BY <1>4, StageFailVouch DEF GenerateFails, ToolsFail, ReviewFails
<1>5. CASE NothingToWorkOn
  <2>1. DiskKept /\ Ended
    BY <1>5 DEF NothingToWorkOn, DiskKept, Ended, End, diskVars
  <2> QED
    BY <2>1, FailVouch
<1>6. CASE Generate
  <2>1. DiskKept /\ pc' \in {"tools", "incomplete"}
    BY <1>6 DEF Generate, DiskKept, Goto, diskVars
  <2>2. cand'.id # 0
    BY <1>6 DEF Generate, TypeOK
  <2> QED
    BY <2>1, <2>2, DiskVouch DEF VouchInv, Started, HasCand, Judged, Accepted
<1>7. CASE SkipGeneration
  <2>1. DiskKept /\ pc' \in {"tools", "incomplete"} /\ cand'.id # 0
    BY <1>7 DEF SkipGeneration, DiskKept, Goto, diskVars, loopVars
  <2> QED
    BY <2>1, DiskVouch DEF VouchInv, Started, HasCand, Judged, Accepted
<1>8. CASE Tools
  <2>1. DiskKept /\ pc' = "review" /\ cand' = cand
    BY <1>8 DEF Tools, DiskKept, Goto, diskVars
  <2>2. cand'.id # 0
    BY <1>8, <2>1 DEF Tools, VouchInv, HasCand
  <2> QED
    BY <2>1, <2>2, DiskVouch DEF VouchInv, Started, HasCand, Judged, Accepted
<1>9. CASE Incomplete
  <2>1. pc' = "loop" /\ blocking' = TRUE /\ artifact'.blocking = TRUE
        /\ UNCHANGED <<saved, repo, misled, vouched>>
    BY <1>9 DEF Incomplete, Goto, Store
  <2> QED
    BY <2>1 DEF VouchInv, Started, HasCand, Judged, Accepted, SavedVouched, StoredVouched,
       WrittenIsVouched
<1>10. CASE Review
  <2>1. pc' = "judge" /\ UNCHANGED <<cand, saved, repo, misled>> /\ cand.id # 0
    BY <1>10 DEF Review, Goto, VouchInv, HasCand
  <2>2. vouched \subseteq vouched' /\ (~blocking' => cand.id \in vouched')
    BY <1>10 DEF Review
  <2>3. artifact'.id = cand.id /\ artifact'.blocking = blocking'
    BY <1>10 DEF Review, Store
  <2> QED
    BY <2>1, <2>2, <2>3 DEF VouchInv, Started, HasCand, Judged, Accepted, SavedVouched,
       StoredVouched, WrittenIsVouched
<1> QED
  BY <1>1, <1>2, <1>3, <1>4, <1>5, <1>6, <1>7, <1>8, <1>9, <1>10 DEF LoopStep

LEMMA EndVouch ==
    ASSUME TypeOK, VouchInv, EndStep \/ FailStep PROVE VouchInv'
<1>1. CASE BeginWrite
  <2>1. DiskKept /\ pc' \in {"record", "writing"} /\ UNCHANGED <<cand, blocking>>
    BY <1>1 DEF BeginWrite, DiskKept, Goto, diskVars, loopVars
  <2>2. pc = "write"
    BY <1>1 DEF BeginWrite
  <2> QED
    BY <2>1, <2>2, DiskVouch DEF VouchInv, Started, HasCand, Judged, Accepted, DiskKept
<1>2. CASE Written
  <2>1. pc = "writing" /\ pc' = "record" /\ repo' = cand.id
        /\ UNCHANGED <<cand, blocking, saved, artifact, vouched>>
    BY <1>2 DEF Written, Goto, loopVars
  <2>2. cand.id \in vouched
    BY <2>1 DEF VouchInv, Judged, Accepted
  <2> QED
    BY <2>1, <2>2 DEF VouchInv, Started, HasCand, Judged, Accepted, SavedVouched, StoredVouched,
       WrittenIsVouched
<1>3. CASE WriteFails
  <2>1. Ended /\ pc = "writing" /\ UNCHANGED <<saved, artifact, vouched>>
    BY <1>3 DEF WriteFails, Throw, End, Goto, Ended
  <2>2. (UNCHANGED <<repo, misled>>) \/ repo' = cand.id
    BY <1>3 DEF WriteFails
  <2>3. cand.id \in vouched
    BY <2>1 DEF VouchInv, Judged, Accepted
  <2>4. SavedVouched' /\ StoredVouched' /\ WrittenIsVouched'
    BY <2>1, <2>2, <2>3 DEF VouchInv, SavedVouched, StoredVouched, WrittenIsVouched
  <2> QED
    BY <2>1, <2>4, EndedVouch DEF VouchInv
<1>4. CASE Record
  BY <1>4, SaveVouch, StageFailVouch DEF Record
<1>5. CASE GiveUp
  BY <1>5, SaveVouch DEF GiveUp
<1>6. CASE Catch
  <2>1. Ended /\ UNCHANGED <<artifact, repo, misled, vouched>> /\ saved'.cand.id = 0
    BY <1>6 DEF Catch, End, Ended, Errored, CaughtResult, NoCand
  <2>2. SavedVouched' /\ StoredVouched' /\ WrittenIsVouched'
    BY <2>1 DEF VouchInv, SavedVouched, StoredVouched, WrittenIsVouched
  <2> QED
    BY <2>1, <2>2, EndedVouch DEF VouchInv
<1>7. CASE FailsOutside \/ FailsUncaught
  <2>1. DiskKept /\ Ended
    BY <1>7 DEF FailsOutside, FailsUncaught, Throw, End, Goto, DiskKept, Ended, diskVars
  <2> QED
    BY <2>1, FailVouch
<1>8. CASE StoreFails
  <2>1. Ended /\ UNCHANGED <<saved, repo, misled, vouched>>
    BY <1>8 DEF StoreFails, Throw, End, Goto, Ended
  <2>2. artifact' = [artifact EXCEPT !.id = cand.id, !.mixed = TRUE]
    BY <1>8 DEF StoreFails
  <2>3. StoredVouched'
    BY <2>2 DEF TypeOK, StoredVouched
  <2>4. SavedVouched' /\ WrittenIsVouched'
    BY <2>1 DEF VouchInv, SavedVouched, WrittenIsVouched
  <2> QED
    BY <2>1, <2>3, <2>4, EndedVouch DEF VouchInv
<1> QED
  BY <1>1, <1>2, <1>3, <1>4, <1>5, <1>6, <1>7, <1>8 DEF EndStep, FailStep

LEMMA VouchStep ==
    ASSUME TypeOK, VouchInv, [Next]_vars PROVE VouchInv'
<1>1. ASSUME NEW p \in [dryRun : BOOLEAN, interactive : BOOLEAN, pauseAfterPlan : BOOLEAN,
                        pauseAfterGenerate : BOOLEAN], Run(p) PROVE VouchInv'
  <2>1. DiskKept /\ pc' = "plan"
    BY <1>1 DEF Run, DiskKept, Goto, diskVars
  <2>2. AtStart'
    BY <1>1 DEF Run, VouchInv, Started, AtStart, loopVars
  <2>3. cand'.id = 0
    BY <2>2 DEF AtStart, NoCand
  <2> QED
    BY <2>1, <2>2, <2>3, DiskVouch DEF VouchInv, Started, HasCand, Judged, Accepted
<1>2. CASE StartStep \/ AnswerStep
  BY <1>2, StartVouch
<1>3. CASE LoopStep
  BY <1>3, LoopVouch
<1>4. CASE EndStep \/ FailStep
  BY <1>4, EndVouch
<1>5. CASE Prepare
  <2>1. DiskKept
    BY <1>5 DEF Prepare, DiskKept, diskVars
  <2>2. Strategy(forced).kind \in {"loop", "write", "record", "giveup"}
    BY StrategyType DEF TypeOK, Strategies
  <2>3. \/ Ended
        \/ /\ pc' = Strategy(forced).kind /\ UNCHANGED <<cand, blocking>>
           /\ pc' \in {"write", "record"} => cand.id # 0 /\ ~blocking
    BY <1>5, <2>2 DEF Prepare, End, Goto, Ended, loopVars
  <2>4. pc = "prepare"
    BY <1>5 DEF Prepare
  <2>5. Started' /\ HasCand' /\ Judged' /\ Accepted'
    BY <2>1, <2>2, <2>3, <2>4, EndedVouch DEF VouchInv, Started, HasCand, Judged, Accepted, DiskKept
  <2> QED
    BY <2>1, <2>5, DiskVouch DEF VouchInv
<1>6. ASSUME NEW stage \in RetryStages \cup {"none"}, Resume(stage) PROVE VouchInv'
  <2>1. DiskKept /\ (Ended \/ pc' = "prepare") /\ cand' = saved.cand /\ blocking' = saved.blocking
    BY <1>6 DEF Resume, DiskKept, Ended, End, diskVars
  <2>2. Started' /\ HasCand' /\ Judged' /\ Accepted'
    BY <2>1, EndedVouch DEF VouchInv, Started, HasCand, Judged, Accepted, SavedVouched, DiskKept
  <2> QED
    BY <2>1, <2>2, DiskVouch DEF VouchInv
<1>7. ASSUME NEW force \in BOOLEAN, Apply(force) PROVE VouchInv'
  <2>1. /\ UNCHANGED <<pc, outcome, callVars, loopVars, saved, artifact>>
        /\ vouched \subseteq vouched' /\ repo' = artifact.id /\ artifact.id # 0 /\ pc = "idle"
    BY <1>7 DEF Apply
  <2>2. artifact.id \in vouched' \/ misled'
    BY <1>7 DEF Apply, VouchInv, StoredVouched
  <2>3. Started' /\ HasCand' /\ Judged' /\ Accepted'
    BY <2>1 DEF VouchInv, Started, AtStart, HasCand, Judged, Accepted, callVars, loopVars
  <2>4. SavedVouched' /\ StoredVouched' /\ WrittenIsVouched'
    BY <2>1, <2>2 DEF VouchInv, SavedVouched, StoredVouched, WrittenIsVouched
  <2> QED
    BY <2>3, <2>4 DEF VouchInv
<1>8. CASE Abort
  <2>1. DiskKept /\ UNCHANGED <<pc, outcome, resumed, forced, cand, blocking, iteration, skip>>
    BY <1>8 DEF Abort, DiskKept, loopVars, diskVars
  <2> QED
    BY <2>1, DiskVouch DEF VouchInv, Started, AtStart, HasCand, Judged, Accepted, DiskKept
<1>9. CASE Crash
  <2>1. DiskKept /\ Ended
    BY <1>9 DEF Crash, End, DiskKept, Ended
  <2> QED
    BY <2>1, FailVouch
<1>10. CASE UNCHANGED vars
  <2>1. DiskKept /\ UNCHANGED <<pc, outcome, resumed, forced, cand, blocking, iteration, skip>>
    BY <1>10 DEF vars, DiskKept, loopVars, callVars, diskVars
  <2> QED
    BY <2>1, DiskVouch DEF VouchInv, Started, AtStart, HasCand, Judged, Accepted, DiskKept
<1> QED
  BY <1>1, <1>2, <1>3, <1>4, <1>5, <1>6, <1>7, <1>8, <1>9, <1>10 DEF Next

LEMMA InitVouch == Init => VouchInv
  BY DEF Init, VouchInv, Started, AtStart, HasCand, Judged, Accepted, SavedVouched, StoredVouched,
     WrittenIsVouched, NoCand, NoState, NoArtifact

(* Whatever is retried, forced, applied or interrupted, the repository     *)
(* holds no candidate that no review accepted and no user forced (ai apply *)
(* of a directory with the manifest of other files aside).                 *)
THEOREM Vouched == Spec => []WrittenIsVouched
<1>1. TypeOK /\ VouchInv /\ [Next]_vars => VouchInv'
  BY VouchStep
<1>2. VouchInv => WrittenIsVouched
  BY DEF VouchInv
<1> QED
  BY <1>1, <1>2, InitVouch, TypeCorrect, PTL DEF Spec

-----------------------------------------------------------------------------
(* What a resume finds, and what it does with it.                          *)

LEMMA EndedStage == ASSUME Ended PROVE StageInv'
  BY DEF Ended, StageInv, Blocked, GivingUp, Prepared, Recording, Kept, PausedLoop

LEMMA FailResume ==
    ASSUME ResumeInv, Ended, UNCHANGED saved,
           outcome' = "refused" => outcome = "refused" \/ saved.status \notin Paused
    PROVE ResumeInv'
<1>1. SavedInv'
  BY DEF ResumeInv, SavedInv, PausedClosed, PlanPaused, HintKeeps
<1>2. PausedIsResumable'
  BY DEF ResumeInv, PausedIsResumable
<1> QED
  BY <1>1, <1>2, EndedStage DEF ResumeInv

LEMMA StageFailResume ==
    ASSUME ResumeInv, NEW stage, NEW i, StageFails(stage, i) PROVE ResumeInv'
<1>1. Ended /\ UNCHANGED saved /\ (outcome' = outcome \/ outcome' = "threw")
  BY DEF StageFails, Throw, End, Goto, Ended, diskVars
<1> QED
  BY <1>1, FailResume DEF ResumeInv, PausedIsResumable

(* A recorded state keeps what is to be kept when its hint does.           *)
LEMMA SaveResume ==
    ASSUME NEW status, NEW hint, Save(State(status, hint)),
           status = "paused_after_plan" => cand.id = 0,
           status = "failed" /\ cand.id # 0 /\ ~blocking
               => hint = NoStage \/ hint.stage = "write-files"
    PROVE ResumeInv'
<1>1. Ended /\ outcome' = "returned"
  BY DEF Save, End, Ended
<1>2. /\ saved'.status = status /\ saved'.cand = cand /\ saved'.blocking = blocking
      /\ saved'.hint = hint /\ saved'.open = FALSE
  BY DEF Save, State
<1>3. SavedInv'
  BY <1>2 DEF SavedInv, PausedClosed, PlanPaused, HintKeeps
<1>4. PausedIsResumable'
  BY <1>1 DEF PausedIsResumable
<1> QED
  BY <1>1, <1>3, <1>4, EndedStage DEF ResumeInv

(* What the resume of each kind of record is.                              *)
LEMMA StrategyKinds ==
    ASSUME TypeOK, SavedInv, NEW stage \in RetryStages \cup {"none"}, MayResume(stage)
    PROVE /\ saved.status \in Paused /\ Strategy(stage).kind = "loop"
               => /\ ~Strategy(stage).checks
                  /\ saved.cand.id = 0 => Strategy(stage).start = 1
          /\ saved.status \in Paused /\ Strategy(stage).kind # "loop"
               => saved.cand.id # 0 /\ ~saved.blocking /\ Strategy(stage).kind = "write"
          /\ Strategy(stage).kind = "record" /\ stage # "memory-store" /\ saved.cand.id # 0
               => saved.blocking
          /\ Strategy(stage).kind = "giveup" => saved.blocking
          /\ Strategy(stage).kind = "loop" /\ stage = "none" /\ saved.cand.id # 0
               => saved.blocking
<1>1. CASE saved.status = "paused_after_plan"
  BY <1>1 DEF Strategy, Looping, SavedInv, PlanPaused, Paused
<1>2. CASE saved.status = "paused_after_generate"
  <2>1. Strategy(stage) = IF saved.cand.id # 0 /\ ~saved.blocking THEN WriteStrategy
                                                               ELSE Looping(NextRound, FALSE)
    BY <1>2 DEF Strategy
  <2> QED
    BY <1>2, <2>1 DEF Looping, Finalizing, WriteStrategy, NextRound, Paused
<1>3. CASE saved.status = "failed"
  <2>1. stage # "none" => (ForcedHint(stage).stage = "memory-store" => stage = "memory-store")
    BY DEF ForcedHint, RetryStages
  <2>2. stage = "none" /\ saved.cand.id # 0 /\ ~saved.blocking => saved.hint.stage = "write-files"
    BY <1>3 DEF MayResume, SavedInv, HintKeeps, Paused
  <2>3. stage = "none" /\ saved.hint.stage = "write-files" => Strategy(stage).kind = "write"
    BY <1>3 DEF Strategy, WriteStrategy, Finalizing
  <2> DEFINE hint == IF stage = "none" THEN saved.hint ELSE ForcedHint(stage)
  <2>4. Strategy(stage).kind = "record" => hint.stage = "memory-store" /\ ~saved.blocking
    BY <1>3 DEF Strategy, WriteStrategy, Finalizing, Looping
  <2>5. Strategy(stage).kind = "giveup" => saved.blocking
    BY <1>3 DEF Strategy, WriteStrategy, Finalizing, Looping
  <2> QED
    BY <1>3, <2>1, <2>2, <2>3, <2>4, <2>5 DEF Paused
<1> QED
  BY <1>1, <1>2, <1>3 DEF MayResume, Paused

LEMMA StartResume ==
    ASSUME TypeOK, VouchInv, ResumeInv, StartStep \/ AnswerStep PROVE ResumeInv'
<1>0. SavedInv /\ PausedIsResumable
  BY DEF ResumeInv
<1>1. CASE Plan
  <2>1. UNCHANGED saved /\ (outcome' = "refused" => outcome = "refused")
    BY <1>1 DEF Plan, Goto, diskVars
  <2>2. SavedInv' /\ PausedIsResumable'
    BY <1>0, <2>1 DEF SavedInv, PausedClosed, PlanPaused, HintKeeps, PausedIsResumable
  <2>3. StageInv'
    BY <1>1 DEF Plan, Goto, ResumeInv, StageInv, Blocked, GivingUp, Prepared, Recording, Kept, PausedLoop,
       VouchInv, Started, AtStart, NoCand, HasCand, callVars, loopVars, diskVars
  <2> QED
    BY <2>2, <2>3 DEF ResumeInv
<1>2. CASE Context
  <2>1. UNCHANGED saved /\ (outcome' = "refused" => outcome = "refused")
    BY <1>2 DEF Context, Goto, diskVars
  <2>2. SavedInv' /\ PausedIsResumable'
    BY <1>0, <2>1 DEF SavedInv, PausedClosed, PlanPaused, HintKeeps, PausedIsResumable
  <2>3. StageInv'
    BY <1>2 DEF Context, Goto, ResumeInv, StageInv, Blocked, GivingUp, Prepared, Recording, Kept, PausedLoop,
       VouchInv, Started, AtStart, NoCand, HasCand, callVars, loopVars, diskVars
  <2> QED
    BY <2>2, <2>3 DEF ResumeInv
<1>3. CASE Confirmed
  <2>1. UNCHANGED saved /\ (outcome' = "refused" => outcome = "refused")
    BY <1>3 DEF Confirmed, Goto, diskVars
  <2>2. SavedInv' /\ PausedIsResumable'
    BY <1>0, <2>1 DEF SavedInv, PausedClosed, PlanPaused, HintKeeps, PausedIsResumable
  <2>3. StageInv'
    BY <1>3 DEF Confirmed, Goto, ResumeInv, StageInv, Blocked, GivingUp, Prepared, Recording, Kept, PausedLoop,
       VouchInv, Started, AtStart, NoCand, HasCand, callVars, loopVars, diskVars
  <2> QED
    BY <2>2, <2>3 DEF ResumeInv
<1>4. CASE Affordable
  <2>1. UNCHANGED saved /\ (outcome' = "refused" => outcome = "refused")
    BY <1>4 DEF Affordable, Goto, diskVars
  <2>2. SavedInv' /\ PausedIsResumable'
    BY <1>0, <2>1 DEF SavedInv, PausedClosed, PlanPaused, HintKeeps, PausedIsResumable
  <2>3. StageInv'
    BY <1>4 DEF Affordable, Goto, ResumeInv, StageInv, Blocked, GivingUp, Prepared, Recording, Kept, PausedLoop,
       VouchInv, Started, AtStart, NoCand, HasCand, callVars, loopVars, diskVars
  <2> QED
    BY <2>2, <2>3 DEF ResumeInv
<1>5. CASE FixNext
  <2>1. UNCHANGED saved /\ (outcome' = "refused" => outcome = "refused")
    BY <1>5 DEF FixNext, Goto, diskVars
  <2>2. SavedInv' /\ PausedIsResumable'
    BY <1>0, <2>1 DEF SavedInv, PausedClosed, PlanPaused, HintKeeps, PausedIsResumable
  <2>3. StageInv'
    BY <1>5 DEF FixNext, Goto, ResumeInv, StageInv, Blocked, GivingUp, Prepared, Recording, Kept, PausedLoop,
       VouchInv, Started, AtStart, NoCand, HasCand, callVars, loopVars, diskVars
  <2> QED
    BY <2>2, <2>3 DEF ResumeInv
<1>6. CASE Accept
  <2>1. UNCHANGED saved /\ (outcome' = "refused" => outcome = "refused")
    BY <1>6 DEF Accept, Goto, diskVars
  <2>2. SavedInv' /\ PausedIsResumable'
    BY <1>0, <2>1 DEF SavedInv, PausedClosed, PlanPaused, HintKeeps, PausedIsResumable
  <2>3. StageInv'
    BY <1>6 DEF Accept, Goto, ResumeInv, StageInv, Blocked, GivingUp, Prepared, Recording, Kept, PausedLoop,
       VouchInv, Started, AtStart, NoCand, HasCand, callVars, loopVars, diskVars
  <2> QED
    BY <2>2, <2>3 DEF ResumeInv
<1>7. CASE PausedAfterPlan
  <2>1. cand.id = 0
    BY <1>7 DEF PausedAfterPlan, VouchInv, Started, AtStart, NoCand
  <2> QED
    BY <1>7, <2>1, SaveResume DEF PausedAfterPlan
<1>8. CASE TooExpensive
  <2>1. cand.id = 0
    BY <1>8 DEF TooExpensive, VouchInv, Started, AtStart, NoCand
  <2> QED
    BY <1>8, <2>1, SaveResume DEF TooExpensive
<1>9. CASE PausedAfterGenerate
  BY <1>9, SaveResume DEF PausedAfterGenerate
<1>10. CASE Declined
  <2>1. Ended /\ UNCHANGED saved /\ outcome' = "returned"
    BY <1>10 DEF Declined, Ended, End, diskVars
  <2> QED
    BY <2>1, FailResume
<1>11. CASE ContextFails
  BY <1>11, StageFailResume DEF ContextFails
<1> QED
  BY <1>1, <1>2, <1>3, <1>4, <1>5, <1>6, <1>7, <1>8, <1>9, <1>10, <1>11 DEF StartStep, AnswerStep

LEMMA LoopResume ==
    ASSUME TypeOK, VouchInv, ResumeInv, LoopStep PROVE ResumeInv'
<1>0. SavedInv /\ PausedIsResumable
  BY DEF ResumeInv
<1>1. CASE LimitReached
  <2>1. cand.id # 0 /\ ~blocking => LimitHint = NoStage
    BY <1>1 DEF LimitReached, Limit, LimitHint, ResumeInv, StageInv, Blocked
  <2> QED
    BY <1>1, <2>1, SaveResume DEF LimitReached
<1>2. \A n : cand.id # 0 /\ ~blocking => BudgetHint(n) = NoStage \/ BudgetHint(n).stage = "write-files"
  BY DEF BudgetHint
<1>3. CASE OverBudget
  BY <1>2, <1>3, SaveResume, StageFailResume DEF OverBudget
<1>4. CASE JudgedOverBudget
  BY <1>2, <1>4, SaveResume, StageFailResume DEF JudgedOverBudget
<1>5. CASE GenerateFails \/ ToolsFail \/ ReviewFails
  BY <1>5, StageFailResume DEF GenerateFails, ToolsFail, ReviewFails
<1>6. CASE NothingToWorkOn
  <2>1. Ended /\ UNCHANGED saved
    BY <1>6 DEF NothingToWorkOn, Ended, End, diskVars
  <2>2. saved.status \notin Paused
    BY <1>6 DEF NothingToWorkOn, InLoop, ResumeInv, StageInv, PausedLoop
  <2> QED
    BY <2>1, <2>2, FailResume
<1>7. CASE Generate
  <2>1. UNCHANGED saved /\ (outcome' = "refused" => outcome = "refused")
    BY <1>7 DEF Generate, Goto, diskVars
  <2>2. SavedInv' /\ PausedIsResumable'
    BY <1>0, <2>1 DEF SavedInv, PausedClosed, PlanPaused, HintKeeps, PausedIsResumable
  <2>3. StageInv'
    BY <1>7 DEF Generate, Goto, ResumeInv, StageInv, Blocked, GivingUp, Prepared, Recording, Kept, PausedLoop,
       VouchInv, Started, AtStart, NoCand, HasCand, callVars, loopVars, diskVars, InLoop
  <2> QED
    BY <2>2, <2>3 DEF ResumeInv
<1>8. CASE SkipGeneration
  <2>1. UNCHANGED saved /\ (outcome' = "refused" => outcome = "refused")
    BY <1>8 DEF SkipGeneration, Goto, diskVars
  <2>2. SavedInv' /\ PausedIsResumable'
    BY <1>0, <2>1 DEF SavedInv, PausedClosed, PlanPaused, HintKeeps, PausedIsResumable
  <2>3. StageInv'
    BY <1>8 DEF SkipGeneration, Goto, ResumeInv, StageInv, Blocked, GivingUp, Prepared, Recording, Kept, PausedLoop,
       VouchInv, Started, AtStart, NoCand, HasCand, callVars, loopVars, diskVars, InLoop
  <2> QED
    BY <2>2, <2>3 DEF ResumeInv
<1>9. CASE Tools
  <2>1. UNCHANGED saved /\ (outcome' = "refused" => outcome = "refused")
    BY <1>9 DEF Tools, Goto, diskVars
  <2>2. SavedInv' /\ PausedIsResumable'
    BY <1>0, <2>1 DEF SavedInv, PausedClosed, PlanPaused, HintKeeps, PausedIsResumable
  <2>3. StageInv'
    BY <1>9 DEF Tools, Goto, ResumeInv, StageInv, Blocked, GivingUp, Prepared, Recording, Kept, PausedLoop,
       VouchInv, Started, AtStart, NoCand, HasCand, callVars, loopVars, diskVars, InLoop
  <2> QED
    BY <2>2, <2>3 DEF ResumeInv
<1>10. CASE Incomplete
  <2>1. UNCHANGED saved /\ (outcome' = "refused" => outcome = "refused")
    BY <1>10 DEF Incomplete, Goto, diskVars
  <2>2. SavedInv' /\ PausedIsResumable'
    BY <1>0, <2>1 DEF SavedInv, PausedClosed, PlanPaused, HintKeeps, PausedIsResumable
  <2>3. StageInv'
    BY <1>10 DEF Incomplete, Goto, ResumeInv, StageInv, Blocked, GivingUp, Prepared, Recording, Kept, PausedLoop,
       VouchInv, Started, AtStart, NoCand, HasCand, callVars, loopVars, diskVars, InLoop
  <2> QED
    BY <2>2, <2>3 DEF ResumeInv
<1>11. CASE Review
  <2>1. UNCHANGED saved /\ (outcome' = "refused" => outcome = "refused")
    BY <1>11 DEF Review, Goto, diskVars
  <2>2. SavedInv' /\ PausedIsResumable'
    BY <1>0, <2>1 DEF SavedInv, PausedClosed, PlanPaused, HintKeeps, PausedIsResumable
  <2>3. StageInv'
    BY <1>11 DEF Review, Goto, ResumeInv, StageInv, Blocked, GivingUp, Prepared, Recording, Kept, PausedLoop,
       VouchInv, Started, AtStart, NoCand, HasCand, callVars, loopVars, diskVars, InLoop
  <2> QED
    BY <2>2, <2>3 DEF ResumeInv
<1> QED
  BY <1>1, <1>3, <1>4, <1>5, <1>6, <1>7, <1>8, <1>9, <1>10, <1>11 DEF LoopStep

LEMMA EndResume ==
    ASSUME TypeOK, VouchInv, ResumeInv, EndStep \/ FailStep PROVE ResumeInv'
<1>0. SavedInv /\ PausedIsResumable
  BY DEF ResumeInv
<1>1. CASE BeginWrite
  <2>1. UNCHANGED saved /\ (outcome' = "refused" => outcome = "refused")
    BY <1>1 DEF BeginWrite, Goto, diskVars
  <2>2. SavedInv' /\ PausedIsResumable'
    BY <1>0, <2>1 DEF SavedInv, PausedClosed, PlanPaused, HintKeeps, PausedIsResumable
  <2>3. StageInv'
    BY <1>1 DEF BeginWrite, Goto, ResumeInv, StageInv, Blocked, GivingUp, Prepared, Recording, Kept, PausedLoop,
       VouchInv, Started, AtStart, NoCand, HasCand, callVars, loopVars, diskVars
  <2> QED
    BY <2>2, <2>3 DEF ResumeInv
<1>2. CASE Written
  <2>1. UNCHANGED saved /\ (outcome' = "refused" => outcome = "refused")
    BY <1>2 DEF Written, Goto, diskVars
  <2>2. SavedInv' /\ PausedIsResumable'
    BY <1>0, <2>1 DEF SavedInv, PausedClosed, PlanPaused, HintKeeps, PausedIsResumable
  <2>3. StageInv'
    BY <1>2 DEF Written, Goto, ResumeInv, StageInv, Blocked, GivingUp, Prepared, Recording, Kept, PausedLoop,
       VouchInv, Started, AtStart, NoCand, HasCand, callVars, loopVars, diskVars
  <2> QED
    BY <2>2, <2>3 DEF ResumeInv
<1>3. CASE WriteFails
  <2>1. Ended /\ UNCHANGED saved /\ (outcome' = outcome \/ outcome' = "threw")
    BY <1>3 DEF WriteFails, Throw, End, Goto, Ended
  <2> QED
    BY <1>0, <2>1, FailResume DEF PausedIsResumable
<1>4. CASE Record
  BY <1>4, SaveResume, StageFailResume DEF Record
<1>5. CASE GiveUp
  <2>1. blocking
    BY <1>5 DEF GiveUp, ResumeInv, StageInv, GivingUp
  <2> QED
    BY <1>5, <2>1, SaveResume DEF GiveUp
<1>6. CASE Catch
  <2>1. Ended /\ outcome' = "returned"
    BY <1>6 DEF Catch, End, Ended
  <2>2. saved'.status = "failed" /\ saved'.cand.id = 0
    BY <1>6 DEF Catch, Errored, CaughtResult, NoCand
  <2>3. SavedInv' /\ PausedIsResumable'
    BY <2>1, <2>2 DEF SavedInv, PausedClosed, PlanPaused, HintKeeps, PausedIsResumable, Paused
  <2> QED
    BY <2>1, <2>3, EndedStage DEF ResumeInv
<1>7. CASE FailsOutside \/ FailsUncaught \/ StoreFails
  <2>1. Ended /\ UNCHANGED saved /\ (outcome' = outcome \/ outcome' = "threw")
    BY <1>7 DEF FailsOutside, FailsUncaught, StoreFails, Throw, End, Goto, Ended, diskVars
  <2> QED
    BY <1>0, <2>1, FailResume DEF PausedIsResumable
<1> QED
  BY <1>1, <1>2, <1>3, <1>4, <1>5, <1>6, <1>7 DEF EndStep, FailStep

LEMMA ResumeStep ==
    ASSUME TypeOK, VouchInv, ResumeInv, [Next]_vars PROVE ResumeInv'
<1>0. SavedInv /\ PausedIsResumable
  BY DEF ResumeInv
<1>1. ASSUME NEW p \in [dryRun : BOOLEAN, interactive : BOOLEAN, pauseAfterPlan : BOOLEAN,
                        pauseAfterGenerate : BOOLEAN], Run(p) PROVE ResumeInv'
  <2>1. UNCHANGED <<saved, outcome>> /\ pc' = "plan"
    BY <1>1 DEF Run, Goto, diskVars
  <2> QED
    BY <1>0, <2>1 DEF ResumeInv, SavedInv, PausedClosed, PlanPaused, HintKeeps, PausedIsResumable,
       StageInv, Blocked, GivingUp, Prepared, Recording, Kept, PausedLoop
<1>2. CASE StartStep \/ AnswerStep
  BY <1>2, StartResume
<1>3. CASE LoopStep
  BY <1>3, LoopResume
<1>4. CASE EndStep \/ FailStep
  BY <1>4, EndResume
<1>5. CASE Prepare
  <2>1. /\ pc = "prepare" /\ UNCHANGED <<saved, cand, blocking, resumed, forced, iteration, skip>>
    BY <1>5 DEF Prepare, callVars, loopVars, diskVars
  <2>2. /\ resumed /\ MayResume(forced) /\ cand = saved.cand /\ blocking = saved.blocking
        /\ iteration = Strategy(forced).start /\ skip = Strategy(forced).checks
    BY <2>1 DEF ResumeInv, StageInv, Prepared
  <2>3. forced \in RetryStages \cup {"none"}
    BY DEF TypeOK
  <2>4. CASE Strategy(forced).kind \in {"write", "record"} /\ (cand.id = 0 \/ blocking)
    <3>1. Ended /\ outcome' = "refused"
      BY <1>5, <2>4 DEF Prepare, End, Ended
    <3>2. saved.status \notin Paused
      BY <1>0, <2>2, <2>3, <2>4, StrategyKinds
    <3> QED
      BY <2>1, <3>1, <3>2, FailResume
  <2>5. CASE Strategy(forced).kind = "loop" /\ aborted
    <3>1. Ended /\ outcome' = "threw"
      BY <1>5, <2>5 DEF Prepare, End, Ended
    <3> QED
      BY <2>1, <3>1, FailResume
  <2>6. CASE /\ ~(Strategy(forced).kind \in {"write", "record"} /\ (cand.id = 0 \/ blocking))
             /\ ~(Strategy(forced).kind = "loop" /\ aborted)
    <3>1. pc' = Strategy(forced).kind /\ UNCHANGED outcome
      BY <1>5, <2>6 DEF Prepare, Goto
    <3>2. Strategy(forced).kind \in {"loop", "write", "record", "giveup"}
      BY <2>3, StrategyType DEF TypeOK, Strategies
    <3>3. SavedInv' /\ PausedIsResumable'
      BY <1>0, <2>1, <3>1 DEF SavedInv, PausedClosed, PlanPaused, HintKeeps, PausedIsResumable
    <3>4. Blocked' /\ Prepared'
      BY <2>1, <2>2, <3>1, <3>2 DEF Blocked, Prepared
    <3>5. GivingUp' /\ Kept' /\ PausedLoop'
      BY <1>0, <2>1, <2>2, <2>3, <3>1, <3>2, StrategyKinds DEF GivingUp, Kept, PausedLoop
    <3>6. Recording'
      BY <1>0, <2>1, <2>2, <2>3, <2>6, <3>1, <3>2, StrategyKinds DEF Recording
    <3> QED
      BY <3>3, <3>4, <3>5, <3>6 DEF ResumeInv, StageInv
  <2> QED
    BY <2>4, <2>5, <2>6
<1>6. ASSUME NEW stage \in RetryStages \cup {"none"}, Resume(stage) PROVE ResumeInv'
  <2>1. UNCHANGED saved
    BY <1>6 DEF Resume, diskVars
  <2>2. CASE MayResume(stage) /\ ~saved.open
    <3>1. pc' = "prepare" /\ outcome' = "none" /\ resumed' = TRUE /\ forced' = stage
      BY <1>6, <2>2 DEF Resume
    <3>2. /\ cand' = saved.cand /\ blocking' = saved.blocking
          /\ iteration' = Strategy(stage).start /\ skip' = Strategy(stage).checks
      BY <1>6 DEF Resume
    <3>3. MayResume(forced)' /\ Strategy(forced)' = Strategy(stage)
      BY <2>1, <2>2, <3>1 DEF MayResume, Strategy, ForcedHint, NextRound
    <3>4. Prepared'
      BY <2>1, <3>1, <3>2, <3>3 DEF Prepared
    <3>5. SavedInv' /\ PausedIsResumable'
      BY <1>0, <2>1, <3>1 DEF SavedInv, PausedClosed, PlanPaused, HintKeeps, PausedIsResumable
    <3> QED
      BY <3>1, <3>4, <3>5 DEF ResumeInv, StageInv, Blocked, GivingUp, Recording, Kept, PausedLoop
  <2>3. CASE ~(MayResume(stage) /\ ~saved.open)
    <3>1. Ended /\ outcome' = "refused"
      BY <1>6, <2>3 DEF Resume, End, Ended
    <3>2. saved.status \notin Paused
      BY <1>0, <2>3 DEF SavedInv, PausedClosed, MayResume
    <3> QED
      BY <2>1, <3>1, <3>2, FailResume
  <2> QED
    BY <2>2, <2>3
<1>7. ASSUME NEW force \in BOOLEAN, Apply(force) PROVE ResumeInv'
  <2>1. UNCHANGED <<saved, pc, outcome>> /\ pc = "idle"
    BY <1>7 DEF Apply
  <2> QED
    BY <1>0, <2>1 DEF ResumeInv, SavedInv, PausedClosed, PlanPaused, HintKeeps, PausedIsResumable,
       StageInv, Blocked, GivingUp, Prepared, Recording, Kept, PausedLoop
<1>8. CASE Abort \/ UNCHANGED vars
  <2>1. UNCHANGED <<pc, outcome, resumed, forced, policy, loopVars, saved, repo, torn>>
    BY <1>8 DEF Abort, vars, callVars, diskVars
  <2>2. Prepared'
    <3>1. MayResume(forced)' = MayResume(forced) /\ Strategy(forced)' = Strategy(forced)
      BY <2>1 DEF MayResume, Strategy, ForcedHint, NextRound
    <3> QED
      BY <2>1, <3>1 DEF ResumeInv, StageInv, Prepared, loopVars
  <2> QED
    BY <1>0, <2>1, <2>2 DEF ResumeInv, SavedInv, PausedClosed, PlanPaused, HintKeeps,
       PausedIsResumable, StageInv, Blocked, GivingUp, Recording, Kept, PausedLoop, loopVars
<1>9. CASE Crash
  <2>1. Ended /\ UNCHANGED saved /\ outcome' = "threw"
    BY <1>9 DEF Crash, End, Ended
  <2> QED
    BY <2>1, FailResume
<1> QED
  BY <1>1, <1>2, <1>3, <1>4, <1>5, <1>6, <1>7, <1>8, <1>9 DEF Next

LEMMA InitResume == Init => ResumeInv
  BY DEF Init, ResumeInv, SavedInv, PausedClosed, PlanPaused, HintKeeps, PausedIsResumable, StageInv,
     Blocked, GivingUp, Prepared, Recording, Kept, PausedLoop, NoState, NoCand, Paused

(* The invariants of a run, together, for the steps.                       *)
LEMMA RunInvariant == Spec => [](TypeOK /\ VouchInv /\ ResumeInv)
<1>1. TypeOK /\ VouchInv /\ [Next]_vars => VouchInv'
  BY VouchStep
<1>2. TypeOK /\ VouchInv /\ ResumeInv /\ [Next]_vars => ResumeInv'
  BY ResumeStep
<1> QED
  BY <1>1, <1>2, InitVouch, InitResume, TypeCorrect, PTL DEF Spec

(* No resume of a paused run is refused.                                   *)
THEOREM PausedResumes == Spec => []PausedIsResumable
<1>1. ResumeInv => PausedIsResumable
  BY DEF ResumeInv
<1> QED
  BY <1>1, RunInvariant, PTL

-----------------------------------------------------------------------------
(* What a step may never do.                                               *)

(* Every run-state.json but the one Record writes says that the run is     *)
(* paused or failed.                                                       *)
LEMMA OnlyRecordCompletes ==
    ASSUME Next PROVE Record \/ saved' = saved \/ saved'.status \notin Completed
<1>1. ASSUME NEW status, status \notin Completed, NEW hint, Save(State(status, hint))
      PROVE saved'.status \notin Completed
  BY <1>1 DEF Save, State
<1>2. ASSUME NEW stage, NEW i, StageFails(stage, i) PROVE saved' = saved
  BY <1>2 DEF StageFails, diskVars
<1>3. {"failed", "paused_after_plan", "paused_after_generate"} \cap Completed = {}
  BY DEF Completed
<1>4. CASE (\E p \in [dryRun : BOOLEAN, interactive : BOOLEAN, pauseAfterPlan : BOOLEAN,
                      pauseAfterGenerate : BOOLEAN] : Run(p)) \/ StartStep
  BY <1>2, <1>4 DEF Run, StartStep, Plan, Context, ContextFails, diskVars
<1>5. CASE AnswerStep
  BY <1>1, <1>3, <1>5 DEF AnswerStep, Confirmed, PausedAfterPlan, Declined, Affordable, TooExpensive,
     PausedAfterGenerate, FixNext, Accept, diskVars
<1>6. CASE LoopStep
  BY <1>1, <1>2, <1>3, <1>6 DEF LoopStep, LimitReached, OverBudget, Generate, GenerateFails,
     SkipGeneration, Incomplete, NothingToWorkOn, Tools, ToolsFail, Review, ReviewFails,
     JudgedOverBudget, diskVars
<1>7. CASE EndStep
  <2>1. Catch => saved'.status = "failed"
    BY DEF Catch, Errored
  <2> QED
    BY <1>1, <1>3, <1>7, <2>1 DEF EndStep, BeginWrite, Written, WriteFails, GiveUp, diskVars
<1>8. CASE FailStep \/ Prepare \/ Abort \/ Crash
  BY <1>8 DEF FailStep, FailsOutside, FailsUncaught, StoreFails, Prepare, Abort, Crash, diskVars
<1>9. CASE (\E stage \in RetryStages \cup {"none"} : Resume(stage))
           \/ (\E force \in BOOLEAN : Apply(force))
  BY <1>9 DEF Resume, Apply, diskVars
<1> QED
  BY <1>4, <1>5, <1>6, <1>7, <1>8, <1>9 DEF Next

LEMMA OnlyGenerateMakes == ASSUME Next PROVE Generate \/ made' = made
<1>1. ASSUME NEW state, Save(state) PROVE made' = made
  BY <1>1 DEF Save
<1>2. ASSUME NEW stage, NEW i, StageFails(stage, i) PROVE made' = made
  BY <1>2 DEF StageFails
<1>3. CASE (\E p \in [dryRun : BOOLEAN, interactive : BOOLEAN, pauseAfterPlan : BOOLEAN,
                      pauseAfterGenerate : BOOLEAN] : Run(p)) \/ StartStep
  BY <1>2, <1>3 DEF Run, StartStep, Plan, Context, ContextFails
<1>4. CASE AnswerStep
  BY <1>1, <1>4 DEF AnswerStep, Confirmed, PausedAfterPlan, Declined, Affordable, TooExpensive,
     PausedAfterGenerate, FixNext, Accept
<1>5. CASE LoopStep
  BY <1>1, <1>2, <1>5 DEF LoopStep, LimitReached, OverBudget, GenerateFails, SkipGeneration,
     Incomplete, NothingToWorkOn, Tools, ToolsFail, Review, ReviewFails, JudgedOverBudget
<1>6. CASE EndStep
  BY <1>1, <1>2, <1>6 DEF EndStep, BeginWrite, Written, WriteFails, Record, GiveUp, Catch
<1>7. CASE FailStep \/ Prepare \/ Abort \/ Crash
  BY <1>7 DEF FailStep, FailsOutside, FailsUncaught, StoreFails, Prepare, Abort, Crash
<1>8. CASE (\E stage \in RetryStages \cup {"none"} : Resume(stage))
           \/ (\E force \in BOOLEAN : Apply(force))
  BY <1>8 DEF Resume, Apply
<1> QED
  BY <1>3, <1>4, <1>5, <1>6, <1>7, <1>8 DEF Next

(* A run recorded as completed has its candidate, whole, in the repository.*)
THEOREM CompletedMeansWritten == Spec => CompletedIsWritten
<1> DEFINE Step ==
      saved' # saved /\ saved'.status \in Completed /\ ~policy.dryRun /\ forced # "memory-store"
          => repo = saved'.cand.id /\ ~torn
<1>1. ASSUME ResumeInv, Next PROVE Step
  <2>1. ASSUME Record, saved' # saved PROVE pc = "record" /\ saved'.cand = cand
    BY <2>1 DEF Record, Save, State, StageFails, diskVars
  <2> QED
    BY <1>1, <2>1, OnlyRecordCompletes DEF ResumeInv, StageInv, Recording
<1>2. ResumeInv /\ [Next]_vars => [Step]_vars
  BY <1>1
<1>3. []ResumeInv /\ [][Next]_vars => [][Step]_vars
  BY <1>2, PTL
<1> QED
  BY <1>3, RunInvariant, PTL DEF Spec, CompletedIsWritten

(* A resume never generates over a candidate that was accepted.            *)
THEOREM AcceptedKept == Spec => AcceptedIsKept
<1> DEFINE Step ==
      made' # made /\ resumed /\ forced = "none" /\ saved.cand.id # 0 => saved.blocking
<1>1. ASSUME ResumeInv, Next PROVE Step
  <2>1. Generate => pc = "loop"
    BY DEF Generate, InLoop
  <2> QED
    BY <1>1, <2>1, OnlyGenerateMakes DEF ResumeInv, StageInv, Kept
<1>2. ResumeInv /\ [Next]_vars => [Step]_vars
  BY <1>1
<1>3. []ResumeInv /\ [][Next]_vars => [][Step]_vars
  BY <1>2, PTL
<1> QED
  BY <1>3, RunInvariant, PTL DEF Spec, AcceptedIsKept

----------------------------------------------------------------------------
(* The rules.  What the runs check of them on samples of their inputs,     *)
(* here for every input.                                                   *)

Guards == INSTANCE WorkerGuards
Planning == INSTANCE WorkPlanning
Changes == INSTANCE ChangeReview
Config == INSTANCE Settings

(* The phases of n pieces of work, with a setup first or not.              *)
LEMMA PhasesOf ==
  ASSUME NEW n \in Nat \ {0}, NEW first \in {<<>>, <<"setup">>}, NEW p,
         p = first \o [i \in 1 .. n |-> "implementation"] \o <<"verification">>
  PROVE  /\ p[Len(p)] = "verification" /\ p[Len(p) - 1] = "implementation"
         /\ n = 1 => Len(p) <= 3
         /\ \A i \in 2 .. Len(p) : p[i] # "setup"
  <1> DEFINE PhaseNames == {"setup", "implementation", "verification"}
             work == [i \in 1 .. n |-> "implementation"]
             last == <<"verification">>
  <1>1. /\ first \in Seq(PhaseNames) /\ Len(first) \in {0, 1}
    <2>1. <<>> \in Seq(PhaseNames) /\ Len(<<>>) = 0
      BY EmptySeq
    <2>2. CASE first = <<"setup">>
      <3>1. Append(<<>>, "setup") = first
        BY <2>2
      <3>2. QED
        BY <2>1, <3>1, AppendProperties
    <2>3. QED
      BY <2>1, <2>2
  <1>2. work \in Seq(PhaseNames) /\ Len(work) = n /\ \A i \in 1 .. n : work[i] = "implementation"
    <2>1. work \in [1 .. n -> PhaseNames]
      OBVIOUS
    <2>2. QED
      BY <2>1
  <1>3. last \in Seq(PhaseNames) /\ Len(last) = 1 /\ last[1] = "verification"
    <2>1. <<>> \in Seq(PhaseNames) /\ Len(<<>>) = 0
      BY EmptySeq
    <2>2. Append(<<>>, "verification") = last
      OBVIOUS
    <2>3. QED
      BY <2>1, <2>2, AppendProperties
  <1>4. p = first \o work \o last
    OBVIOUS
  <1> HIDE DEF work, last
  <1> DEFINE before == first \o work
  <1>5. /\ before \in Seq(PhaseNames) /\ Len(before) = Len(first) + n
        /\ \A i \in Len(first) + 1 .. Len(first) + n : before[i] = "implementation"
    <2> HIDE DEF PhaseNames
    <2>1. /\ before \in Seq(PhaseNames) /\ Len(before) = Len(first) + n
          /\ \A i \in 1 .. Len(first) + n :
               before[i] = IF i <= Len(first) THEN first[i] ELSE work[i - Len(first)]
      <3>1. /\ before \in Seq(PhaseNames) /\ Len(before) = Len(first) + Len(work)
            /\ \A i \in 1 .. Len(first) + Len(work) :
                 before[i] = IF i <= Len(first) THEN first[i] ELSE work[i - Len(first)]
        <4>1. first \in Seq(PhaseNames) /\ work \in Seq(PhaseNames)
          BY <1>1, <1>2
        <4>2. QED
          BY <4>1, ConcatProperties, Zenon
      <3> HIDE DEF before
      <3>2. QED
        BY <1>2, <3>1
    <2> HIDE DEF before
    <2>2. ASSUME NEW i \in Len(first) + 1 .. Len(first) + n PROVE before[i] = "implementation"
      <3>1. i \in 1 .. Len(first) + n /\ ~(i <= Len(first)) /\ i - Len(first) \in 1 .. n
        BY <1>1
      <3>2. QED
        BY <1>2, <2>1, <3>1
    <2>3. QED
      BY <2>1, <2>2
  <1>6. p = before \o last
    BY <1>4
  <1> HIDE DEF before
  <1>7. /\ p \in Seq(PhaseNames) /\ Len(p) = Len(first) + n + 1 /\ p[Len(p)] = "verification"
        /\ \A i \in Len(first) + 1 .. Len(first) + n : p[i] = "implementation"
    BY <1>1, <1>3, <1>5, <1>6
  <1>8. Len(p) - 1 \in Len(first) + 1 .. Len(first) + n /\ (n = 1 => Len(p) <= 3)
    BY <1>1, <1>7
  <1>9. ASSUME NEW i \in 2 .. Len(p) PROVE p[i] # "setup"
    <2>1. i \in Len(first) + 1 .. Len(first) + n \/ i = Len(p)
      BY <1>1, <1>7
    <2>2. QED
      BY <1>7, <2>1
  <1>10. QED
    BY <1>7, <1>8, <1>9

(* buildWorkerTaskPhasePlan (task-phases.ts): whatever its text looks      *)
(* like, a task of a work item is one piece of work, with one setup before *)
(* it at most and one verification after it, and every task ends with a    *)
(* verification of what was implemented.                                   *)
THEOREM NodesCostThreeRounds ==
  ASSUME NEW t, t.bullets \in Nat, t.clauses \in Nat, t.sentences \in Nat
  PROVE  Guards!NodeCostsThreeRounds(t)
  <1> DEFINE n == Guards!Slices(t)
             first == IF Guards!SetupWanted(t, n) THEN <<"setup">> ELSE <<>>
  <1>1. n \in Nat \ {0} /\ (t.preDecomposed => n = 1)
    BY DEF Guards!Slices, Guards!TaskClauses, Guards!LongTask
  <1>2. first \in {<<>>, <<"setup">>}
    OBVIOUS
  <1>3. Guards!PhasePlan(t) = first \o [i \in 1 .. n |-> "implementation"] \o <<"verification">>
    BY DEF Guards!PhasePlan
  <1> HIDE DEF n, first
  <1> DEFINE p == Guards!PhasePlan(t)
  <1>4. /\ p[Len(p)] = "verification" /\ p[Len(p) - 1] = "implementation"
        /\ n = 1 => Len(p) <= 3
        /\ \A i \in 2 .. Len(p) : p[i] # "setup"
    BY <1>1, <1>2, <1>3, PhasesOf
  <1>5. QED
    BY <1>1, <1>4 DEF Guards!NodeCostsThreeRounds

----------------------------------------------------------------------------
(* A diff as it is checked: any pack, any files.                           *)
DiffChecks(pack, changed, added) ==
    [mode : {"off", "warn", "strict"}, newFiles : {"allow", "warn", "strict"},
     pack : {pack}, changed : {changed}, added : {added}]

LEMMA WeakerSays ==
  /\ \A x : \A y \in Guards!Weaker(x, <<"off", "warn", "strict">>) :
        \/ x = "warn" /\ y = "off"
        \/ x = "strict" /\ y \in {"off", "warn"}
  /\ \A x : \A y \in Guards!Weaker(x, <<"allow", "warn", "strict">>) :
        \/ x = "warn" /\ y = "allow"
        \/ x = "strict" /\ y \in {"allow", "warn"}
  BY DEF Guards!Weaker

(* What is found, by its parts.                                            *)
LEMMA FindingsSay ==
  ASSUME NEW pack, NEW changed, NEW added, NEW c \in DiffChecks(pack, changed, added), c.mode # "off"
  PROVE  /\ Guards!BoundaryOk(c) <=>
              /\ Guards!Touched(c) = {}
              /\ c.mode = "strict" => Guards!Outside(c) \ Guards!Touched(c) = {}
              /\ c.newFiles = "strict" => c.added \ c.pack.proposed = {}
         /\ {x.file : x \in Guards!BoundaryFindings(c)} =
              (IF c.pack.confidence \in {"none", "low"} THEN {<<>>} ELSE {})
                \cup Guards!Touched(c) \cup Guards!Outside(c)
                \cup (IF c.newFiles = "allow" THEN {} ELSE c.added \ c.pack.proposed)
  <1> DEFINE low == IF c.pack.confidence \in {"none", "low"}
                    THEN {[code |-> "LOW_CONFIDENCE_CONTEXT", severity |-> "warning", file |-> <<>>]} ELSE {}
             touched == Guards!Findings("TOUCHED_DO_NOT_TOUCH", "error", Guards!Touched(c))
             outside == Guards!Findings("BOUNDARY_OUTSIDE_ALLOWED", Guards!Graded(c.mode), Guards!Outside(c) \ Guards!Touched(c))
  <1>1. Guards!BoundaryFindings(c) = low \cup (touched \cup outside) \cup Guards!NewFileFindings(c)
    BY DEF Guards!BoundaryFindings, Guards!FileFindings
  <1>2. ASSUME NEW code, NEW severity, NEW files
        PROVE  /\ {x.file : x \in Guards!Findings(code, severity, files)} = files
               /\ \A x \in Guards!Findings(code, severity, files) : x.severity = severity
               /\ Guards!Findings(code, severity, files) = {} <=> files = {}
    <2> DEFINE finding(f) == [code |-> code, severity |-> severity, file |-> f]
    <2>1. Guards!Findings(code, severity, files) = {finding(f) : f \in files}
      BY DEF Guards!Findings
    <2>2. \A f : finding(f).file = f /\ finding(f).severity = severity
      OBVIOUS
    <2> HIDE DEF finding
    <2>3. QED
      BY <2>1, <2>2
  <1>3. {x.file : x \in low} = (IF c.pack.confidence \in {"none", "low"} THEN {<<>>} ELSE {})
        /\ \A x \in low : x.severity = "warning"
    <2> DEFINE note == [code |-> "LOW_CONFIDENCE_CONTEXT", severity |-> "warning", file |-> <<>>]
    <2>1. note.file = <<>> /\ note.severity = "warning"
      OBVIOUS
    <2>2. low = IF c.pack.confidence \in {"none", "low"} THEN {note} ELSE {}
      OBVIOUS
    <2> HIDE DEF note, low
    <2>3. QED
      BY <2>1, <2>2
  <1>4. /\ {x.file : x \in touched} = Guards!Touched(c)
        /\ \A x \in touched : x.severity = "error"
        /\ touched = {} <=> Guards!Touched(c) = {}
    BY <1>2
  <1>5. /\ {x.file : x \in outside} = Guards!Outside(c) \ Guards!Touched(c)
        /\ \A x \in outside : x.severity = IF c.mode = "strict" THEN "error" ELSE "warning"
        /\ outside = {} <=> Guards!Outside(c) \ Guards!Touched(c) = {}
    BY <1>2 DEF Guards!Graded
  <1>6. /\ {x.file : x \in Guards!NewFileFindings(c)} = (IF c.newFiles = "allow" THEN {} ELSE c.added \ c.pack.proposed)
        /\ \A x \in Guards!NewFileFindings(c) : x.severity = IF c.newFiles = "strict" THEN "error" ELSE "warning"
        /\ c.newFiles = "strict" => (Guards!NewFileFindings(c) = {} <=> c.added \ c.pack.proposed = {})
    <2>1. CASE c.newFiles = "allow"
      BY <2>1 DEF Guards!NewFileFindings
    <2>2. CASE c.newFiles # "allow"
      <3>1. Guards!NewFileFindings(c) =
              Guards!Findings("NEW_FILE_NOT_DECLARED", Guards!Graded(c.newFiles), c.added \ c.pack.proposed)
        BY <2>2 DEF Guards!NewFileFindings
      <3>2. QED
        BY <1>2, <2>2, <3>1 DEF Guards!Graded
    <2>3. QED
      BY <2>1, <2>2
  <1> HIDE DEF low, touched, outside
  <1>7. {x.file : x \in Guards!BoundaryFindings(c)} =
          {x.file : x \in low} \cup ({x.file : x \in touched} \cup {x.file : x \in outside})
             \cup {x.file : x \in Guards!NewFileFindings(c)}
    BY <1>1
  <1>8. QED
    <2>1. Guards!BoundaryOk(c) <=>
            /\ touched = {}
            /\ c.mode = "strict" => outside = {}
            /\ c.newFiles = "strict" => Guards!NewFileFindings(c) = {}
      BY <1>1, <1>3, <1>4, <1>5, <1>6 DEF Guards!BoundaryOk
    <2>2. QED
      BY <2>1, <1>3, <1>4, <1>5, <1>6, <1>7

(* runDiffBoundaryCheck (diff-boundary-checker.ts): a stricter mode or     *)
(* policy for new files never lets a diff pass that a weaker one stops,    *)
(* and reports every file the weaker one reports, whatever the pack says.  *)
THEOREM StricterStops ==
  ASSUME NEW pack, NEW changed, NEW added, NEW c \in DiffChecks(pack, changed, added)
  PROVE  Guards!StricterStopsMore(c)
  <1>1. ASSUME NEW m \in Guards!Weaker(c.mode, <<"off", "warn", "strict">>), NEW weak, weak = [c EXCEPT !.mode = m]
        PROVE  /\ Guards!BoundaryOk(c) => Guards!BoundaryOk(weak)
               /\ {x.file : x \in Guards!BoundaryFindings(weak)} \subseteq {x.file : x \in Guards!BoundaryFindings(c)}
    <2>1. /\ c.mode \in {"warn", "strict"} /\ m \in {"off", "warn"} /\ c.mode # "off"
          /\ c.mode = "warn" => m = "off"
      BY WeakerSays
    <2>2. /\ weak \in DiffChecks(pack, changed, added) /\ weak.mode = m /\ weak.newFiles = c.newFiles
          /\ weak.pack = c.pack /\ weak.changed = c.changed /\ weak.added = c.added
      BY <1>1, <2>1 DEF DiffChecks
    <2>3. Guards!Touched(weak) = Guards!Touched(c) /\ Guards!Outside(weak) = Guards!Outside(c)
      BY <2>2 DEF Guards!Touched, Guards!Outside
    <2>4. CASE m = "off"
      <3>1. Guards!BoundaryFindings(weak) = {}
        BY <2>2, <2>4 DEF Guards!BoundaryFindings
      <3>2. QED
        BY <3>1 DEF Guards!BoundaryOk
    <2>5. CASE m # "off"
      <3>1. /\ Guards!BoundaryOk(c) <=>
               /\ Guards!Touched(c) = {}
               /\ c.mode = "strict" => Guards!Outside(c) \ Guards!Touched(c) = {}
               /\ c.newFiles = "strict" => c.added \ c.pack.proposed = {}
            /\ {x.file : x \in Guards!BoundaryFindings(c)} =
                 (IF c.pack.confidence \in {"none", "low"} THEN {<<>>} ELSE {})
                   \cup Guards!Touched(c) \cup Guards!Outside(c)
                   \cup (IF c.newFiles = "allow" THEN {} ELSE c.added \ c.pack.proposed)
        BY <2>1, <2>5, FindingsSay
      <3>2. /\ Guards!BoundaryOk(weak) <=>
               /\ Guards!Touched(c) = {}
               /\ m = "strict" => Guards!Outside(c) \ Guards!Touched(c) = {}
               /\ c.newFiles = "strict" => c.added \ c.pack.proposed = {}
            /\ {x.file : x \in Guards!BoundaryFindings(weak)} =
                 (IF c.pack.confidence \in {"none", "low"} THEN {<<>>} ELSE {})
                   \cup Guards!Touched(c) \cup Guards!Outside(c)
                   \cup (IF c.newFiles = "allow" THEN {} ELSE c.added \ c.pack.proposed)
        BY <2>2, <2>3, <2>5, FindingsSay
      <3>3. Guards!BoundaryOk(c) => Guards!BoundaryOk(weak)
        BY <2>1, <3>1, <3>2
      <3>4. QED
        BY <2>1, <3>1, <3>2, <3>3
    <2>6. QED
      BY <2>4, <2>5
  <1>2. ASSUME NEW m \in Guards!Weaker(c.newFiles, <<"allow", "warn", "strict">>), NEW weak, weak = [c EXCEPT !.newFiles = m]
        PROVE  /\ Guards!BoundaryOk(c) => Guards!BoundaryOk(weak)
               /\ {x.file : x \in Guards!BoundaryFindings(weak)} \subseteq {x.file : x \in Guards!BoundaryFindings(c)}
    <2>1. /\ c.newFiles \in {"warn", "strict"} /\ m \in {"allow", "warn"}
          /\ c.newFiles = "warn" => m = "allow"
      BY WeakerSays
    <2>2. /\ weak \in DiffChecks(pack, changed, added) /\ weak.mode = c.mode /\ weak.newFiles = m
          /\ weak.pack = c.pack /\ weak.changed = c.changed /\ weak.added = c.added
      BY <1>2, <2>1 DEF DiffChecks
    <2>3. Guards!Touched(weak) = Guards!Touched(c) /\ Guards!Outside(weak) = Guards!Outside(c)
      BY <2>2 DEF Guards!Touched, Guards!Outside
    <2>4. CASE c.mode = "off"
      <3>1. Guards!BoundaryFindings(weak) = {}
        BY <2>2, <2>4 DEF Guards!BoundaryFindings
      <3>2. QED
        BY <3>1 DEF Guards!BoundaryOk
    <2>5. CASE c.mode # "off"
      <3>1. /\ Guards!BoundaryOk(c) <=>
               /\ Guards!Touched(c) = {}
               /\ c.mode = "strict" => Guards!Outside(c) \ Guards!Touched(c) = {}
               /\ c.newFiles = "strict" => c.added \ c.pack.proposed = {}
            /\ {x.file : x \in Guards!BoundaryFindings(c)} =
                 (IF c.pack.confidence \in {"none", "low"} THEN {<<>>} ELSE {})
                   \cup Guards!Touched(c) \cup Guards!Outside(c)
                   \cup (IF c.newFiles = "allow" THEN {} ELSE c.added \ c.pack.proposed)
        BY <2>1, <2>5, FindingsSay
      <3>2. /\ Guards!BoundaryOk(weak) <=>
               /\ Guards!Touched(c) = {}
               /\ c.mode = "strict" => Guards!Outside(c) \ Guards!Touched(c) = {}
               /\ m = "strict" => c.added \ c.pack.proposed = {}
            /\ {x.file : x \in Guards!BoundaryFindings(weak)} =
                 (IF c.pack.confidence \in {"none", "low"} THEN {<<>>} ELSE {})
                   \cup Guards!Touched(c) \cup Guards!Outside(c)
                   \cup (IF m = "allow" THEN {} ELSE c.added \ c.pack.proposed)
        BY <2>2, <2>3, <2>5, FindingsSay
      <3>3. Guards!BoundaryOk(c) => Guards!BoundaryOk(weak)
        BY <2>1, <3>1, <3>2
      <3>4. QED
        BY <2>1, <3>1, <3>2, <3>3
    <2>6. QED
      BY <2>4, <2>5
  <1>3. QED
    BY <1>1, <1>2 DEF Guards!StricterStopsMore

(* runDiffBoundaryCheck: a diff that passes with the check on has no file  *)
(* of the do-not-touch list and, in strict mode, is inside the boundary;   *)
(* and a setup answer that cannot be read (context-pack-parser.ts) leaves  *)
(* a pack that the check reports.                                          *)
THEOREM BoundaryIsHeld ==
  ASSUME NEW pack, NEW changed, NEW added, NEW c \in DiffChecks(pack, changed, added), NEW answer
  PROVE  Guards!BoundaryHolds(c, answer)
  <1>1. ASSUME c.mode # "off", Guards!BoundaryOk(c)
        PROVE  /\ \A f \in c.changed : ~Guards!Matches(f, c.pack.doNotTouch)
               /\ (c.mode = "strict" /\ c.pack.allowed # {}) => \A f \in c.changed : Guards!Matches(f, c.pack.allowed)
    BY <1>1, FindingsSay DEF Guards!Touched, Guards!Outside
  <1>2. ASSUME c.mode # "off", ~(answer.marked /\ answer.json)
        PROVE  \E x \in Guards!BoundaryFindings([c EXCEPT !.pack = Guards!SetupPack(answer)]) :
                 x.code = "LOW_CONFIDENCE_CONTEXT"
    <2> DEFINE d == [c EXCEPT !.pack = Guards!SetupPack(answer)]
               low == [code |-> "LOW_CONFIDENCE_CONTEXT", severity |-> "warning", file |-> <<>>]
    <2>1. Guards!FallbackPack.confidence = "low"
      BY DEF Guards!FallbackPack, Guards!NormalizedPack, Guards!NoPack
    <2>2. Guards!NoPack.confidence = "none"
      BY DEF Guards!NoPack
    <2>3. Guards!SetupPack(answer) = Guards!FallbackPack
      <3>1. Guards!ExtractedPack(answer) \in {Guards!NoPack, Guards!FallbackPack}
        <4>1. CASE ~answer.marked
          BY <4>1, <1>2 DEF Guards!ExtractedPack
        <4>2. CASE answer.marked /\ ~answer.json
          BY <4>2, <1>2 DEF Guards!ExtractedPack
        <4>3. QED
          BY <4>1, <4>2, <1>2
      <3>2. QED
        BY <3>1, <2>1, <2>2 DEF Guards!SetupPack
    <2>4. d.mode = c.mode /\ d.pack = Guards!SetupPack(answer)
      BY DEF DiffChecks
    <2>5. low \in Guards!BoundaryFindings(d)
      BY <1>2, <2>1, <2>3, <2>4 DEF Guards!BoundaryFindings
    <2>6. QED
      BY <2>5
  <1>3. QED
    BY <1>1, <1>2 DEF Guards!BoundaryHolds

----------------------------------------------------------------------------
(* resolveApprovalPolicy (core/risk-policy.ts): no request with a reason   *)
(* to be blocked runs by itself, whatever skip_approval says and whatever  *)
(* else is in it.                                                          *)
THEOREM DangerWaits ==
  ASSUME NEW r, r.changed \in Nat,
         "security" \in r.task \cup r.paths \/ "rewrite" \in r.task \/ r.changed >= 30
  PROVE  ~Planning!Approval(r).auto
  <1> DEFINE signals == Planning!RiskSignals(r)
             marked == {Planning!Signal(m, Planning!MarkSeverity(m)) : m \in r.task \cup (r.paths \ {"rewrite"})}
             broad == IF r.generated >= 8 \/ r.changed >= 8
                      THEN {Planning!Signal("broad", IF r.changed >= 30 THEN "blocked" ELSE "medium")} ELSE {}
  <1>1. \A name, severity : Planning!Signal(name, severity).severity = severity
    BY DEF Planning!Signal
  <1>2. Planning!MarkSeverity("security") = "blocked" /\ Planning!MarkSeverity("rewrite") = "blocked"
    BY DEF Planning!MarkSeverity
  <1>3. \E s \in marked \cup broad : s.severity = "blocked"
    <2>1. CASE \E m \in {"security", "rewrite"} : m \in r.task \cup (r.paths \ {"rewrite"})
      <3>1. PICK m \in {"security", "rewrite"} : m \in r.task \cup (r.paths \ {"rewrite"})
        BY <2>1
      <3>2. Planning!Signal(m, Planning!MarkSeverity(m)) \in marked
        BY <3>1
      <3>3. QED
        BY <1>1, <1>2, <3>1, <3>2
    <2>2. CASE r.changed >= 30
      <3>1. Planning!Signal("broad", "blocked") \in broad
        BY <2>2
      <3>2. QED
        BY <1>1, <3>1
    <2>3. QED
      BY <2>1, <2>2
  <1>4. marked \cup broad \subseteq signals
    <2> HIDE DEF marked, broad
    <2> DEFINE large == IF r.lines >= 250 THEN {Planning!Signal("large-diff", "high")} ELSE {}
               all == marked \cup large \cup broad
    <2>1. signals = IF all = {} THEN {Planning!Signal("standard", "low")} ELSE all
      BY DEF Planning!RiskSignals, marked, broad
    <2>2. QED
      BY <2>1
  <1> HIDE DEF signals, marked, broad
  <1>5. "blocked" \in Planning!Severities(signals)
    BY <1>3, <1>4 DEF Planning!Severities
  <1>6. Planning!ClassOf(signals) = "blocked"
    BY <1>5 DEF Planning!ClassOf
  <1>7. QED
    BY <1>6 DEF Planning!Approval, signals

(* The places of the classes and of the models' tiers.                     *)
LEMMA ClassRanks ==
  /\ Planning!Rank("low") = 1 /\ Planning!Rank("medium") = 2
  /\ Planning!Rank("high") = 3 /\ Planning!Rank("blocked") = 4
  BY DEF Planning!Rank, Planning!Classes

(* The same cardinality in the instance and outside it.                    *)
LEMMA CardinalityIs ==
  ASSUME NEW S
  PROVE  Planning!Cardinality(S) = Cardinality(S)
  BY DEF Planning!Cardinality, Cardinality

(* The points of a set of signals, by severity.                            *)
LEMMA ScoreIs ==
  ASSUME NEW S
  PROVE  Planning!Score(S) = 10 * Cardinality({s \in S : s.severity = "blocked"})
                               + 5 * Cardinality({s \in S : s.severity = "high"})
                               + 3 * Cardinality({s \in S : s.severity = "medium"})
                               + 1 * Cardinality({s \in S : s.severity = "low"})
  <1> DEFINE of(severity) == Cardinality({s \in S : s.severity = severity})
  <1>1. /\ Planning!Points("blocked") = 10 /\ Planning!Points("high") = 5
        /\ Planning!Points("medium") = 3 /\ Planning!Points("low") = 1
    BY DEF Planning!Points
  <1>2. Planning!Score(S) = Planning!Points("blocked") * of("blocked") + Planning!Points("high") * of("high")
                              + Planning!Points("medium") * of("medium") + Planning!Points("low") * of("low")
    BY CardinalityIs DEF Planning!Score
  <1>3. QED
    BY <1>1, <1>2

(* More signals are of no lower class: the score only grows.               *)
LEMMA ClassGrows ==
  ASSUME NEW signals, NEW wider, IsFiniteSet(wider), signals \subseteq wider,
         \A s \in wider : s.severity \in {"low", "medium", "high", "blocked"}
  PROVE  Planning!Rank(Planning!ClassOf(signals)) <= Planning!Rank(Planning!ClassOf(wider))
  <1> DEFINE Of(S, severity) == {s \in S : s.severity = severity}
  <1>1. ASSUME NEW severity
        PROVE  /\ Cardinality(Of(signals, severity)) \in Nat /\ Cardinality(Of(wider, severity)) \in Nat
               /\ Cardinality(Of(signals, severity)) <= Cardinality(Of(wider, severity))
    <2>1. IsFiniteSet(Of(wider, severity))
      BY FS_Subset
    <2>2. Of(signals, severity) \in SUBSET Of(wider, severity)
      OBVIOUS
    <2> HIDE DEF Of
    <2>3. QED
      BY <2>1, <2>2, FS_Subset, FS_CardinalityType
  <1>2. \A S : Planning!Score(S) = 10 * Cardinality(Of(S, "blocked")) + 5 * Cardinality(Of(S, "high"))
                                     + 3 * Cardinality(Of(S, "medium")) + 1 * Cardinality(Of(S, "low"))
    BY ScoreIs
  <1> HIDE DEF Of
  <1>3. /\ Planning!Score(signals) \in Nat /\ Planning!Score(wider) \in Nat
        /\ Planning!Score(signals) <= Planning!Score(wider)
    <2> DEFINE b == Cardinality(Of(signals, "blocked"))  b2 == Cardinality(Of(wider, "blocked"))
               h == Cardinality(Of(signals, "high"))     h2 == Cardinality(Of(wider, "high"))
               m == Cardinality(Of(signals, "medium"))   m2 == Cardinality(Of(wider, "medium"))
               l == Cardinality(Of(signals, "low"))      l2 == Cardinality(Of(wider, "low"))
    <2>1. b \in Nat /\ b2 \in Nat /\ b <= b2 /\ h \in Nat /\ h2 \in Nat /\ h <= h2
          /\ m \in Nat /\ m2 \in Nat /\ m <= m2 /\ l \in Nat /\ l2 \in Nat /\ l <= l2
      BY <1>1
    <2>2. /\ Planning!Score(signals) = 10 * b + 5 * h + 3 * m + 1 * l
          /\ Planning!Score(wider) = 10 * b2 + 5 * h2 + 3 * m2 + 1 * l2
      BY <1>2
    <2> HIDE DEF b, b2, h, h2, m, m2, l, l2
    <2>3. QED
      BY <2>1, <2>2
  <1>4. Planning!Severities(signals) \subseteq Planning!Severities(wider)
    BY DEF Planning!Severities
  <1>5. QED
    BY <1>3, <1>4, ClassRanks DEF Planning!ClassOf

(* The signals of a request by what they come from.                        *)
LEMMA SignalsOf ==
  ASSUME NEW r, r.task \subseteq Planning!Marks, r.paths \subseteq Planning!Marks,
         r.lines \in Nat, r.generated \in Nat, r.changed \in Nat,
         NEW wider, wider.task \subseteq Planning!Marks, wider.paths \subseteq Planning!Marks,
         wider.lines \in Nat, wider.generated \in Nat, wider.changed \in Nat,
         Planning!Within(r, wider)
  PROVE  /\ IsFiniteSet(Planning!RiskSignals(wider))
         /\ \A s \in Planning!RiskSignals(wider) : s.severity \in {"low", "medium", "high", "blocked"}
         /\ \/ "blocked" \in Planning!Severities(Planning!RiskSignals(wider))
            \/ Planning!RiskSignals(r) = {Planning!Signal("standard", "low")}
            \/ Planning!RiskSignals(r) \subseteq Planning!RiskSignals(wider)
  <1> DEFINE marked(q) == {Planning!Signal(m, Planning!MarkSeverity(m)) : m \in q.task \cup (q.paths \ {"rewrite"})}
             large(q) == IF q.lines >= 250 THEN {Planning!Signal("large-diff", "high")} ELSE {}
             broad(q) == IF q.generated >= 8 \/ q.changed >= 8
                         THEN {Planning!Signal("broad", IF q.changed >= 30 THEN "blocked" ELSE "medium")} ELSE {}
             all(q) == marked(q) \cup large(q) \cup broad(q)
  <1>1. \A q : Planning!RiskSignals(q) = IF all(q) = {} THEN {Planning!Signal("standard", "low")} ELSE all(q)
    BY DEF Planning!RiskSignals
  <1>2. \A name, severity : Planning!Signal(name, severity).severity = severity
    BY DEF Planning!Signal
  <1>3. marked(r) \subseteq marked(wider) /\ large(r) \subseteq large(wider)
    BY DEF Planning!Within
  <1>4. /\ broad(r) \subseteq broad(wider) \/ wider.changed >= 30
        /\ wider.changed >= 30 => Planning!Signal("broad", "blocked") \in broad(wider)
    BY DEF Planning!Within
  <1>5. IsFiniteSet(all(wider))
    <2> DEFINE each == {Planning!Signal(m, Planning!MarkSeverity(m)) : m \in Planning!Marks}
               most == each \cup {Planning!Signal("large-diff", "high")}
                         \cup {Planning!Signal("broad", "blocked")} \cup {Planning!Signal("broad", "medium")}
    <2>1. each = {Planning!Signal("security", Planning!MarkSeverity("security"))}
                   \cup {Planning!Signal("critical", Planning!MarkSeverity("critical"))}
                   \cup {Planning!Signal("rewrite", Planning!MarkSeverity("rewrite"))}
                   \cup {Planning!Signal("dependency", Planning!MarkSeverity("dependency"))}
                   \cup {Planning!Signal("contract", Planning!MarkSeverity("contract"))}
      BY DEF Planning!Marks
    <2>2. \A x, S : IsFiniteSet(S) => IsFiniteSet(S \cup {x})
      BY FS_AddElement
    <2>3. \A x : IsFiniteSet({x})
      BY FS_Singleton
    <2>4. IsFiniteSet(each)
      BY <2>1, <2>2, <2>3
    <2>5. IsFiniteSet(most)
      <3> HIDE DEF each
      <3>1. QED
        BY <2>2, <2>4
    <2>6. marked(wider) \subseteq each
      OBVIOUS
    <2>7. all(wider) \in SUBSET most
      <3> HIDE DEF marked, each
      <3>1. QED
        BY <2>6
    <2> HIDE DEF most, all
    <2>8. QED
      BY <2>5, <2>7, FS_Subset
  <1>6. \A s \in all(wider) : s.severity \in {"low", "medium", "high", "blocked"}
    <2>1. \A m \in Planning!Marks : Planning!MarkSeverity(m) \in {"low", "medium", "high", "blocked"}
      BY DEF Planning!MarkSeverity, Planning!Marks
    <2>2. \A s \in marked(wider) : s.severity \in {"low", "medium", "high", "blocked"}
      BY <1>2, <2>1
    <2>3. \A s \in large(wider) \cup broad(wider) : s.severity \in {"low", "medium", "high", "blocked"}
      BY <1>2
    <2> HIDE DEF marked, large, broad
    <2>4. QED
      BY <2>2, <2>3
  <1> HIDE DEF marked, large, broad
  <1>7. CASE wider.changed >= 30
    BY <1>1, <1>2, <1>4, <1>5, <1>6, <1>7 DEF Planning!Severities
  <1>8. CASE wider.changed < 30
    <2>1. all(r) \subseteq all(wider)
      BY <1>3, <1>4, <1>8
    <2>2. Planning!RiskSignals(r) = {Planning!Signal("standard", "low")}
          \/ Planning!RiskSignals(r) \subseteq Planning!RiskSignals(wider)
      <3> HIDE DEF all
      <3>1. QED
        BY <1>1, <2>1
    <2>3. /\ IsFiniteSet(Planning!RiskSignals(wider))
          /\ \A s \in Planning!RiskSignals(wider) : s.severity \in {"low", "medium", "high", "blocked"}
      <3> HIDE DEF all
      <3>1. IsFiniteSet({Planning!Signal("standard", "low")})
        BY FS_Singleton
      <3>2. Planning!Signal("standard", "low").severity = "low"
        BY <1>2
      <3>3. QED
        BY <1>1, <1>5, <1>6, <3>1, <3>2
    <2>4. QED
      BY <2>2, <2>3
  <1>9. QED
    BY <1>7, <1>8

(* resolveApprovalPolicy and the assessment (core/risk-policy.ts,          *)
(* work/assessment.ts): a request that touches more is of no lower class   *)
(* and is given no smaller model, what has a reason to be blocked does not *)
(* run by itself, and what stops for a human has a branch of its own, for  *)
(* any marks and any numbers.                                              *)
THEOREM MoreIsWeighedHigher ==
  ASSUME NEW r, r.task \subseteq Planning!Marks, r.paths \subseteq Planning!Marks,
         r.lines \in Nat, r.generated \in Nat, r.changed \in Nat, r.skip \in BOOLEAN,
         NEW wider, wider.task \subseteq Planning!Marks, wider.paths \subseteq Planning!Marks,
         wider.lines \in Nat, wider.generated \in Nat, wider.changed \in Nat,
         NEW long \in BOOLEAN, NEW output
  PROVE  Planning!MoreIsNoSafer(r, wider) /\ Planning!AssessmentGrows(r, wider, long, output)
  <1> DEFINE signals == Planning!RiskSignals(r)
             more == Planning!RiskSignals(wider)
             standard == {Planning!Signal("standard", "low")}
  <1>1. /\ Planning!Approval(r).class = Planning!ClassOf(signals)
        /\ Planning!Approval(wider).class = Planning!ClassOf(more)
        /\ ~Planning!Approval(r).auto => Planning!Approval(r).class # "low"
    BY DEF Planning!Approval
  <1>2. Planning!ClassOf(more) \in {"low", "medium", "high", "blocked"}
    BY DEF Planning!ClassOf
  <1>3. Planning!ClassOf(standard) = "low" /\ Planning!Severities(standard) = {"low"}
    <2> DEFINE of(severity) == {s \in standard : s.severity = severity}
    <2>1. Planning!Signal("standard", "low").severity = "low"
      BY DEF Planning!Signal
    <2>2. Planning!Severities(standard) = {"low"}
      BY <2>1 DEF Planning!Severities
    <2>3. /\ of("blocked") = {} /\ of("high") = {} /\ of("medium") = {} /\ of("low") = standard
      BY <2>1
    <2>4. Cardinality({}) = 0 /\ Cardinality(standard) = 1
      BY FS_EmptySet, FS_Singleton
    <2>5. Planning!Score(standard) = 1
      <3>1. Planning!Score(standard) = 10 * Cardinality(of("blocked")) + 5 * Cardinality(of("high"))
                                         + 3 * Cardinality(of("medium")) + 1 * Cardinality(of("low"))
        BY ScoreIs
      <3>2. /\ Cardinality(of("blocked")) = 0 /\ Cardinality(of("high")) = 0
            /\ Cardinality(of("medium")) = 0 /\ Cardinality(of("low")) = 1
        BY <2>3, <2>4
      <3>3. ASSUME NEW a, NEW b, NEW c, NEW d, a = 0, b = 0, c = 0, d = 1
            PROVE  10 * a + 5 * b + 3 * c + 1 * d = 1
        BY <3>3
      <3> HIDE DEF of, standard
      <3>4. QED
        BY <3>1, <3>2, <3>3
    <2>6. QED
      BY <2>2, <2>5 DEF Planning!ClassOf
  <1>4. ASSUME Planning!Within(r, wider)
        PROVE  /\ Planning!Rank(Planning!ClassOf(signals)) <= Planning!Rank(Planning!ClassOf(more))
               /\ \/ Planning!ClassOf(more) = "blocked"
                  \/ Planning!Severities(signals) \subseteq Planning!Severities(more) \cup {"low"}
    <2>1. CASE "blocked" \in Planning!Severities(more)
      <3>1. Planning!ClassOf(more) = "blocked"
        BY <2>1 DEF Planning!ClassOf
      <3>2. Planning!ClassOf(signals) \in {"low", "medium", "high", "blocked"}
        BY DEF Planning!ClassOf
      <3>3. QED
        BY <3>1, <3>2, ClassRanks
    <2>2. CASE signals = standard
      BY <1>2, <1>3, <2>2, ClassRanks
    <2>3. CASE signals \subseteq more
      <3>1. Planning!Severities(signals) \subseteq Planning!Severities(more)
        BY <2>3 DEF Planning!Severities
      <3>2. IsFiniteSet(more) /\ \A s \in more : s.severity \in {"low", "medium", "high", "blocked"}
        BY <1>4, SignalsOf
      <3>3. QED
        BY <2>3, <3>1, <3>2, ClassGrows
    <2>4. QED
      BY <1>4, <2>1, <2>2, <2>3, SignalsOf
  <1>5. Planning!MoreIsNoSafer(r, wider)
    BY <1>1, <1>4, DangerWaits DEF Planning!MoreIsNoSafer
  <1>6. ASSUME Planning!Within(r, wider)
        PROVE  Planning!Tier(Planning!Complexity(r, long)) <= Planning!Tier(Planning!Complexity(wider, long))
    <2>1. Planning!Tier("small") = 0 /\ Planning!Tier("medium") = 1 /\ Planning!Tier("large") = 2
      BY DEF Planning!Tier
    <2>2. Planning!ClassOf(signals) \in {"high", "blocked"} => Planning!ClassOf(more) \in {"high", "blocked"}
      BY <1>2, <1>4, <1>6, ClassRanks
    <2>3. QED
      BY <1>1, <1>4, <1>6, <2>1, <2>2 DEF Planning!Complexity
  <1>7. Planning!AssessmentGrows(r, wider, long, output)
    BY <1>1, <1>6 DEF Planning!AssessmentGrows, Planning!Assessment
  <1>8. QED
    BY <1>5, <1>7

(* resolveRoleProviders (core/provider-router.ts): every role is given a   *)
(* provider that the rules know, whatever profile was forced or won,       *)
(* whatever earlier runs say, and whatever the plan asks of its reviewer.  *)
THEOREM RolesServed ==
  ASSUME NEW q, NEW provider, q.own \in [Planning!Roles -> provider]
  PROVE  Planning!RolesAreServed(q)
  <1>1. \A role \in Planning!Roles : q.own[role] \in Planning!Known(q)
    BY DEF Planning!Known
  <1>2. \A first, second : second \in Planning!Known(q) => Planning!Preferred(q, first, second) \in Planning!Known(q)
    BY DEF Planning!Preferred
  <1>3. \A profile : \A role \in Planning!Roles : Planning!RoleProvider(q, profile, role) \in Planning!Known(q)
    BY <1>1, <1>2 DEF Planning!RoleProvider
  <1>4. \A given \in Planning!Known(q) : Planning!Reviewer(q, given) \in Planning!Known(q)
    BY <1>2 DEF Planning!Reviewer
  <1>5. PICK profile : Planning!Route(q).providers =
          [[role \in Planning!Roles |-> Planning!RoleProvider(q, profile, role)] EXCEPT
             !["reviewer"] = Planning!Reviewer(q, Planning!RoleProvider(q, profile, "reviewer"))]
    BY DEF Planning!Route, Planning!Roles
  <1>6. QED
    <2>1. "reviewer" \in Planning!Roles
      BY DEF Planning!Roles
    <2>2. \A role \in DOMAIN Planning!Route(q).providers : Planning!Route(q).providers[role] \in Planning!Known(q)
      BY <1>3, <1>4, <1>5, <2>1
    <2>3. QED
      BY <2>2 DEF Planning!RolesAreServed, Planning!Range

----------------------------------------------------------------------------
(* collectReviewChanges (core/current-change-review.ts): what differs      *)
(* between the two sides of a review is shown with both its texts, whatever*)
(* the files hold, for every mode and every list of paths; but for a file  *)
(* that git does not track, in the review against a base, and the old path *)
(* of a rename.                                                            *)
THEOREM ChangesAreShown ==
  ASSUME NEW files, NEW asked, NEW mode \in {"working-tree", "staged", "base-ref", "files"}
  PROVE  Changes!ChangeIsShown(files, mode, asked)
  <1> DEFINE scope == Changes!InScope(files, mode, asked)
             side == Changes!Side(mode)
             against == Changes!Against(mode)
  <1>1. DOMAIN scope \subseteq DOMAIN files /\ \A f \in DOMAIN scope : scope[f] = files[f]
    BY DEF Changes!InScope
  <1>2. side \in {"index", "work"} /\ against \in {"base", "head"}
        /\ (mode = "staged" <=> side = "index") /\ (mode = "base-ref" <=> against = "base")
    BY DEF Changes!Side, Changes!Against
  <1>3. ASSUME NEW f \in DOMAIN scope, files[f][side] # files[f][against],
               ~(mode = "base-ref" /\ files[f].index = "none"),
               ~(/\ scope[f][side] = "none"
                 /\ \E g \in DOMAIN scope :
                      /\ scope[g][against] = "none"
                      /\ scope[f][against] \in {scope[g][side], scope[g].index})
        PROVE  f \in Changes!Listed(scope, mode)
    <2> HIDE DEF scope
    <2> DEFINE of(field) == [e \in DOMAIN scope |-> scope[e][field]]
               tracked == [e \in DOMAIN scope |-> Changes!Tracked(scope[e])]
    <2>1. CASE mode = "staged"
      <3>1. Changes!Changed(scope, f, of("head"), of("index"))
        BY <1>1, <1>3, <2>1 DEF Changes!Changed, Changes!Renamed, Changes!Side, Changes!Against
      <3>2. QED
        BY <2>1, <3>1 DEF Changes!Listed
    <2>2. CASE mode = "base-ref"
      <3>1. Changes!Changed(scope, f, of("base"), tracked)
        BY <1>1, <1>3, <2>2 DEF Changes!Changed, Changes!Renamed, Changes!Side, Changes!Against, Changes!Tracked
      <3>2. QED
        BY <2>2, <3>1 DEF Changes!Listed
    <2>3. CASE mode \notin {"staged", "base-ref"}
      <3>1. scope[f].work # scope[f].head
        BY <1>1, <1>3, <2>3 DEF Changes!Side, Changes!Against
      <3>2. Changes!Changed(scope, f, of("head"), of("index")) \/ scope[f].work # scope[f].index
        <4> SUFFICES ASSUME scope[f].work = scope[f].index PROVE Changes!Changed(scope, f, of("head"), of("index"))
          OBVIOUS
        <4>1. side = "work" /\ against = "head"
          BY <2>3 DEF Changes!Side, Changes!Against
        <4>2. ~Changes!Renamed(scope, f, of("head"), of("index"))
          BY <1>1, <1>3, <4>1 DEF Changes!Renamed
        <4>3. QED
          BY <3>1, <4>2 DEF Changes!Changed
      <3>3. QED
        BY <2>3, <3>2 DEF Changes!Listed
    <2>4. QED
      BY <2>1, <2>2, <2>3
  <1>4. ASSUME NEW f \in Changes!Listed(scope, mode)
        PROVE  \E s \in Changes!Shown(files, mode, asked) :
                 /\ s.path = f
                 /\ s.before = Changes!Text(files[f][against])
                 /\ s.after = Changes!Text(files[f][side])
    <2> DEFINE s == [path |-> f, before |-> Changes!Text(files[f][against]),
                     after |-> Changes!Text(files[f][side]),
                     create |-> files[f][against] = "none" /\ files[f][side] # "none"]
    <2>1. s \in Changes!Shown(files, mode, asked)
      BY DEF Changes!Shown
    <2>2. QED
      BY <2>1
  <1>5. QED
    BY <1>3, <1>4, Zenon DEF Changes!ChangeIsShown

(* reviewCurrentRepoChanges and reviewFailingChecks: a review completes    *)
(* only when neither the checks nor the answer say something that blocks,  *)
(* however the answer is worded and whatever severities it makes up.       *)
THEOREM NothingTalkedAway ==
  ASSUME NEW severities, NEW categories, NEW names, NEW paths, NEW places, NEW texts,
         NEW answer \in SUBSET [severity : severities, category : categories, path : names, line : places, text : texts],
         NEW checks \in SUBSET [severity : severities, category : categories, path : names, line : places, text : texts]
  PROVE  Changes!NothingIsTalkedAway(answer, paths, checks)
  <1> DEFINE Issue == [severity : severities, category : categories, path : names, line : places, text : texts]
             graded(i) == [i EXCEPT !.severity = IF @ \in {"high", "medium", "low"} THEN @ ELSE "medium"]
  <1>1. ASSUME NEW i \in Issue
        PROVE  /\ graded(i).text = i.text
               /\ graded(i).severity = IF i.severity \in {"high", "medium", "low"} THEN i.severity ELSE "medium"
    OBVIOUS
  <1>2. ASSUME NEW i \in Issue, i.severity # "low"
        PROVE  Changes!SeverityRank(graded(i).severity) > 0 /\ graded(graded(i)).severity = graded(i).severity
    <2>1. graded(i).severity \in {"high", "medium"}
      BY <1>1, <1>2
    <2>2. graded(graded(i)).severity = graded(i).severity
      BY <2>1
    <2>3. QED
      BY <2>1, <2>2 DEF Changes!SeverityRank
  <1>3. ASSUME NEW i \in checks, i.severity # "low", i.text # ""
        PROVE  Changes!Blocking(Changes!Merged(Changes!Normalized(Changes!InReview(answer, paths)), checks))
    <2>1. graded(i) \in Changes!Normalized(checks)
      BY <1>3 DEF Changes!Normalized
    <2>2. QED
      BY <1>2, <1>3, <2>1 DEF Changes!Merged, Changes!Blocking
  <1>4. ASSUME NEW i \in answer, i.severity # "low", i.text # "", i.path \in paths \cup {""}
        PROVE  Changes!Blocking(Changes!Merged(Changes!Normalized(Changes!InReview(answer, paths)), checks))
    <2>1. i \in Changes!InReview(answer, paths)
      BY <1>4 DEF Changes!InReview
    <2>2. graded(i) \in Changes!Normalized(Changes!InReview(answer, paths))
      BY <1>4, <2>1 DEF Changes!Normalized
    <2>3. graded(graded(i)) \in Changes!Normalized(Changes!Normalized(Changes!InReview(answer, paths)))
      BY <1>1, <1>4, <2>2 DEF Changes!Normalized
    <2>4. graded(graded(i)) \in Changes!Merged(Changes!Normalized(Changes!InReview(answer, paths)), checks)
      BY <2>3 DEF Changes!Merged
    <2>5. Changes!SeverityRank(graded(graded(i)).severity) > 0
      BY <1>2, <1>4
    <2> HIDE DEF graded
    <2>6. QED
      BY <2>4, <2>5 DEF Changes!Blocking
  <1>5. QED
    BY <1>3, <1>4 DEF Changes!NothingIsTalkedAway, Changes!ReviewStatus

----------------------------------------------------------------------------
(* tightenApprovalPolicyForProfile (workflows/workflow-registry.ts): a     *)
(* profile takes nothing from the gates of a policy, and to apply it where *)
(* the job is queued and again where it is run is to apply it once.        *)
THEOREM ProfilesTighten ==
  ASSUME NEW gates \in [class : {"low", "medium", "high", "blocked"}, auto : BOOLEAN,
                         afterPlan : BOOLEAN, afterGenerate : BOOLEAN],
         NEW profile
  PROVE  Planning!ProfileOnlyTightens(gates, profile)
  <1> DEFINE Class == {"low", "medium", "high", "blocked"}
  <1>1. /\ Planning!Rank("low") = 1 /\ Planning!Rank("medium") = 2
        /\ Planning!Rank("high") = 3 /\ Planning!Rank("blocked") = 4
    BY DEF Planning!Rank, Planning!Classes
  <1>2. Planning!Floor(profile) \in Class
    BY DEF Planning!Floor
  <1>3. CASE profile = "default"
    <2>1. \A p : Planning!Tightened(p, profile) = p
      BY <1>3 DEF Planning!Tightened
    <2>2. QED
      BY <1>1, <2>1 DEF Planning!ProfileOnlyTightens
  <1>4. CASE profile # "default"
    <2> DEFINE higher(class) == IF Planning!Rank(Planning!Floor(profile)) > Planning!Rank(class)
                                THEN Planning!Floor(profile) ELSE class
               manual(p) == ~p.auto \/ Planning!Gated(profile) \/ higher(p.class) # "low"
    <2>1. \A p : Planning!Tightened(p, profile) =
            [class |-> higher(p.class), auto |-> ~manual(p), afterPlan |-> p.afterPlan \/ manual(p),
             afterGenerate |-> p.afterGenerate \/ Planning!Gated(profile)]
      BY <1>4 DEF Planning!Tightened
    <2>2. \A class \in Class : /\ higher(class) \in Class /\ higher(higher(class)) = higher(class)
                               /\ Planning!Rank(higher(class)) >= Planning!Rank(class)
      BY <1>1, <1>2
    <2>3. Planning!Gated(profile) \in BOOLEAN
      BY DEF Planning!Gated
    <2> HIDE DEF higher
    <2> DEFINE tight == Planning!Tightened(gates, profile)
    <2>4. /\ tight.class = higher(gates.class) /\ tight.auto = ~manual(gates)
          /\ tight.afterPlan = (gates.afterPlan \/ manual(gates))
          /\ tight.afterGenerate = (gates.afterGenerate \/ Planning!Gated(profile))
      BY <2>1
    <2>5. Planning!Tightened(tight, profile) = tight
      <3>1. higher(tight.class) = tight.class
        BY <2>2, <2>4
      <3>2. manual(tight) = manual(gates)
        BY <2>4, <3>1
      <3>3. ~manual(tight) = tight.auto
        BY <2>4, <3>2
      <3>4. (tight.afterPlan \/ manual(tight)) = tight.afterPlan
        BY <2>4, <3>2
      <3>5. (tight.afterGenerate \/ Planning!Gated(profile)) = tight.afterGenerate
        BY <2>4
      <3>6. Planning!Tightened(tight, profile) =
              [class |-> tight.class, auto |-> tight.auto, afterPlan |-> tight.afterPlan,
               afterGenerate |-> tight.afterGenerate]
        BY <2>1, <3>1, <3>3, <3>4, <3>5
      <3>7. QED
        BY <2>1, <2>4, <3>6
    <2>6. tight.auto => gates.auto
      BY <2>4
    <2>7. QED
      BY <2>2, <2>4, <2>5, <2>6 DEF Planning!ProfileOnlyTightens
  <1>5. QED
    BY <1>3, <1>4

(* pollGhPrChecks, watchCiForWorkItem and work-ci-fix (work/ci.ts): CI     *)
(* passes only when no check is pending or failed, a check more never makes*)
(* a failure or a wait into a pass, and after two repairs nothing asks for *)
(* a third.                                                                *)
THEOREM CiSober ==
  ASSUME NEW states \in SUBSET {"SUCCESS", "SKIPPED", "FAILURE", "PENDING", "CANCELLED", "EXPECTED"},
         NEW old \in [status : {"passing", "failing", "unknown"}, attempts : Nat]
  PROVE  Planning!CiIsSober(states, old)
  <1>1. ASSUME NEW s
        PROVE  /\ Planning!Polled(s) = "failing" <=> s \cap {"FAILURE", "CANCELLED"} # {}
               /\ Planning!Polled(s) = "passing" => s \cap {"FAILURE", "CANCELLED", "PENDING", "EXPECTED"} = {}
               /\ Planning!Polled(s) = "unknown" =>
                    s \cap {"PENDING", "EXPECTED"} # {} \/ s \cap {"SUCCESS", "SKIPPED", "FAILURE", "CANCELLED"} = {}
    <2>1. CASE s \cap {"FAILURE", "CANCELLED"} # {}
      <3>1. Planning!Polled(s) = "failing"
        BY <2>1, Zenon DEF Planning!Polled
      <3>2. QED
        BY <2>1, <3>1
    <2>2. CASE s \cap {"FAILURE", "CANCELLED"} = {} /\ s \cap {"PENDING", "EXPECTED"} # {}
      <3>1. Planning!Polled(s) = "unknown"
        BY <2>2 DEF Planning!Polled
      <3>2. QED
        BY <2>2, <3>1
    <2>3. CASE s \cap {"FAILURE", "CANCELLED"} = {} /\ s \cap {"PENDING", "EXPECTED"} = {}
      <3>1. Planning!Polled(s) = IF s \cap {"SUCCESS", "SKIPPED"} # {} THEN "passing" ELSE "unknown"
        BY <2>3 DEF Planning!Polled
      <3>2. QED
        BY <2>3, <3>1
    <2>4. QED
      BY <2>1, <2>2, <2>3
  <1>2. ASSUME NEW more
        PROVE  /\ Planning!Polled(states) = "failing" => Planning!Polled(states \cup {more}) = "failing"
               /\ Planning!Polled(states) = "unknown" /\ states # {} => Planning!Polled(states \cup {more}) # "passing"
    <2>1. ASSUME Planning!Polled(states) = "failing" PROVE Planning!Polled(states \cup {more}) = "failing"
      BY <1>1, <2>1
    <2>2. ASSUME Planning!Polled(states) = "unknown", states # {}
          PROVE  Planning!Polled(states \cup {more}) # "passing"
      <3>1. states \cap {"PENDING", "EXPECTED"} # {}
        BY <1>1, <2>2
      <3>2. (states \cup {more}) \cap {"FAILURE", "CANCELLED", "PENDING", "EXPECTED"} # {}
        BY <3>1
      <3>3. QED
        BY <1>1, <3>2
    <2>3. QED
      BY <2>1, <2>2
  <1>3. LET twice == Planning!AfterCiFix(TRUE, states, Planning!AfterCiFix(TRUE, states, old))
        IN ~Planning!RepairNeeded(twice.status, twice)
    <2> DEFINE once == Planning!AfterCiFix(TRUE, states, old)
               twice == Planning!AfterCiFix(TRUE, states, once)
    <2>1. once.attempts = old.attempts + 1 /\ old.attempts \in Nat
      BY DEF Planning!AfterCiFix
    <2>2. twice.attempts = once.attempts + 1
      BY DEF Planning!AfterCiFix
    <2> HIDE DEF once, twice
    <2>3. twice.attempts \in Nat \ {0, 1}
      BY <2>1, <2>2
    <2>4. ~(twice.attempts < 2)
      BY <2>3
    <2>5. QED
      BY <2>4 DEF Planning!RepairNeeded, once, twice
  <1>4. QED
    BY <1>1, <1>2, <1>3 DEF Planning!CiIsSober

----------------------------------------------------------------------------
(* A list of hooks, what is shown of it and what comes back of that.       *)
HookLists(Text, Secret) == Seq([url : Text, secret : Secret])
ShownOf(list) == [i \in DOMAIN list |-> Config!Hook(list[i].url, Config!MaskOf(list[i].secret))]
BackOf(value, old) == IF value = "mask" THEN old ELSE value
ReturnOf(list, there) ==
    [i \in DOMAIN list |->
        Config!Hook(list[i].url, BackOf(list[i].secret, IF i \in DOMAIN there THEN there[i].secret ELSE "none"))]

ListedHooks(hooks, Text, Secret) ==
    /\ hooks.list \in HookLists(Text, Secret)
    /\ ~hooks.set => hooks.list = <<>>

(* A file of the configuration: a list that it does not have is empty.     *)
ConfigFiles(Text, Secret) ==
    [key : Secret, plain : Text,
     hooks : {Config!NoHooks} \cup [set : {TRUE}, list : HookLists(Text, Secret)]]

LEMMA FilesAre ==
  ASSUME NEW Text, NEW Secret, NEW file \in ConfigFiles(Text, Secret)
  PROVE  file.key \in Secret /\ file.hooks.set \in BOOLEAN /\ ListedHooks(file.hooks, Text, Secret)
  <1>1. file.key \in Secret /\ file.hooks \in {Config!NoHooks} \cup [set : {TRUE}, list : HookLists(Text, Secret)]
    BY DEF ConfigFiles
  <1>2. CASE file.hooks = Config!NoHooks
    <2>1. file.hooks.set = FALSE /\ file.hooks.list = <<>>
      BY <1>2 DEF Config!NoHooks
    <2>2. <<>> \in HookLists(Text, Secret)
      BY EmptySeq DEF HookLists
    <2>3. QED
      BY <1>1, <2>1, <2>2 DEF ListedHooks
  <1>3. CASE file.hooks \in [set : {TRUE}, list : HookLists(Text, Secret)]
    BY <1>1, <1>3 DEF ListedHooks
  <1>4. QED
    BY <1>1, <1>2, <1>3

LEMMA FileParts ==
  ASSUME NEW file, NEW there
  PROVE  /\ Config!Masked(file) = Config!File(Config!MaskOf(file.key), file.plain,
                                     [set |-> file.hooks.set, list |-> ShownOf(file.hooks.list)])
         /\ Config!Restored(file, there) = Config!File(BackOf(file.key, there.key), file.plain,
                                     [set |-> file.hooks.set, list |-> ReturnOf(file.hooks.list, there.hooks.list)])
  <1>1. Config!Masked(file) = Config!File(Config!MaskOf(file.key), file.plain,
                                     [set |-> file.hooks.set, list |-> ShownOf(file.hooks.list)])
    BY DEF Config!Masked, ShownOf
  <1>2. Config!Restored(file, there) = Config!File(BackOf(file.key, there.key), file.plain,
                                     [set |-> file.hooks.set, list |-> ReturnOf(file.hooks.list, there.hooks.list)])
    BY DEF Config!Restored, ReturnOf, BackOf
  <1>3. QED
    BY <1>1, <1>2

(* A list that is shown and comes back is the list, with a hook more or    *)
(* without; where there was none it comes back without its secrets.        *)
LEMMA ListComesBack ==
  ASSUME NEW Text, NEW Secret, "mask" \notin Secret, NEW list \in HookLists(Text, Secret)
  PROVE  /\ DOMAIN ShownOf(list) = DOMAIN list
         /\ ReturnOf(ShownOf(list), list) = list
         /\ \A i \in DOMAIN list : ReturnOf(ShownOf(list), <<>>)[i].secret = "none"
  <1>1. list \in [1 .. Len(list) -> [url : Text, secret : Secret]] /\ DOMAIN list = 1 .. Len(list) /\ Len(list) \in Nat
    BY LenProperties DEF HookLists
  <1>2. ASSUME NEW i \in DOMAIN list
        PROVE  /\ list[i] = Config!Hook(list[i].url, list[i].secret) /\ list[i].secret \in Secret
    BY <1>1 DEF Config!Hook
  <1>3. ASSUME NEW url, NEW secret
        PROVE  Config!Hook(url, secret).url = url /\ Config!Hook(url, secret).secret = secret
    BY DEF Config!Hook
  <1>4. DOMAIN ShownOf(list) = DOMAIN list
        /\ \A i \in DOMAIN list : /\ ShownOf(list)[i].url = list[i].url
                                  /\ ShownOf(list)[i].secret = Config!MaskOf(list[i].secret)
    BY <1>3 DEF ShownOf
  <1>5. \A i \in DOMAIN list : BackOf(Config!MaskOf(list[i].secret), list[i].secret) = list[i].secret
    BY <1>2 DEF BackOf, Config!MaskOf
  <1>6. \A i \in DOMAIN list : ReturnOf(ShownOf(list), list)[i] = list[i]
    BY <1>2, <1>4, <1>5 DEF ReturnOf
  <1>7. ReturnOf(ShownOf(list), list) = list
    <2>1. ReturnOf(ShownOf(list), list) = [i \in DOMAIN list |-> list[i]]
      <3>1. ReturnOf(ShownOf(list), list) = [i \in DOMAIN list |-> ReturnOf(ShownOf(list), list)[i]]
        BY <1>4 DEF ReturnOf
      <3>2. QED
        BY <3>1, <1>6
    <2>2. QED
      BY <1>1, <2>1
  <1>8. \A i \in DOMAIN list : ReturnOf(ShownOf(list), <<>>)[i].secret = "none"
    <2>1. ASSUME NEW i \in DOMAIN list PROVE i \notin DOMAIN <<>>
      OBVIOUS
    <2>2. \A i \in DOMAIN list : BackOf(Config!MaskOf(list[i].secret), "none") = "none"
      BY <1>2 DEF BackOf, Config!MaskOf
    <2>3. QED
      BY <1>3, <1>4, <2>1, <2>2 DEF ReturnOf
  <1>9. QED
    BY <1>4, <1>7, <1>8

LEMMA NoMask ==
  /\ \A Text, Secret : \A list \in HookLists(Text, Secret) :
        "mask" \notin Secret => \A i \in DOMAIN list : list[i].secret # "mask"
  /\ \A list, there : (\A i \in DOMAIN there : there[i].secret # "mask") =>
        \A i \in DOMAIN ReturnOf(list, there) : ReturnOf(list, there)[i].secret # "mask"
  <1>1. ASSUME NEW Text, NEW Secret, "mask" \notin Secret, NEW list \in HookLists(Text, Secret)
        PROVE  \A i \in DOMAIN list : list[i].secret # "mask"
    <2>1. list \in [1 .. Len(list) -> [url : Text, secret : Secret]] /\ DOMAIN list = 1 .. Len(list)
      BY LenProperties DEF HookLists
    <2>2. QED
      BY <1>1, <2>1
  <1>2. ASSUME NEW list, NEW there, \A i \in DOMAIN there : there[i].secret # "mask", NEW i \in DOMAIN list
        PROVE  ReturnOf(list, there)[i].secret # "mask"
    <2>1. \A url, secret : Config!Hook(url, secret).secret = secret
      BY DEF Config!Hook
    <2>2. \A old : old # "mask" => BackOf(list[i].secret, old) # "mask"
      BY DEF BackOf
    <2>3. QED
      BY <1>2, <2>1, <2>2 DEF ReturnOf
  <1>3. QED
    BY <1>1, <1>2 DEF ReturnOf

(* And a hook that was appended to what is shown is appended to it.        *)
LEMMA AppendedComesBack ==
  ASSUME NEW Text, NEW Secret, "mask" \notin Secret, NEW list \in HookLists(Text, Secret), NEW there,
         there = list \/ (there = <<>> /\ list = <<>>), NEW url
  PROVE  ReturnOf(Append(ShownOf(list), Config!Hook(url, "new")), there) = Append(list, Config!Hook(url, "new"))
  <1> DEFINE hook == Config!Hook(url, "new")
             Hooks == [url : Text \cup {url}, secret : Secret \cup {"new", "mask", "none"}]
             shown == ShownOf(list)
             more == Append(shown, hook)
  <1>1. list \in Seq(Hooks) /\ DOMAIN list = 1 .. Len(list) /\ Len(list) \in Nat
        /\ \A i \in 1 .. Len(list) : list[i].secret \in Secret /\ list[i].url \in Text
    <2>1. list \in [1 .. Len(list) -> [url : Text, secret : Secret]] /\ DOMAIN list = 1 .. Len(list) /\ Len(list) \in Nat
      BY LenProperties DEF HookLists
    <2>2. [url : Text, secret : Secret] \subseteq Hooks
      OBVIOUS
    <2>3. \A i \in 1 .. Len(list) : list[i].secret \in Secret /\ list[i].url \in Text
      BY <2>1
    <2> HIDE DEF Hooks
    <2>4. list \in Seq(Hooks)
      BY <2>1, <2>2
    <2>5. QED
      BY <2>1, <2>3, <2>4
  <1>2. hook \in Hooks /\ hook.url = url /\ hook.secret = "new"
    BY DEF Config!Hook
  <1>3. shown \in [1 .. Len(list) -> Hooks] /\ DOMAIN shown = 1 .. Len(list)
    BY <1>1 DEF ShownOf, Config!Hook, Config!MaskOf
  <1>4. shown \in Seq(Hooks) /\ Len(shown) = Len(list)
    BY <1>1, <1>3
  <1>5. ReturnOf(shown, there) = list
    BY ListComesBack
  <1>6. DOMAIN ReturnOf(shown, there) = DOMAIN shown
        /\ \A i \in DOMAIN shown : ReturnOf(shown, there)[i] = list[i]
    BY <1>5 DEF ReturnOf
  <1> HIDE DEF hook, shown, Hooks
  <1>7. /\ DOMAIN more = 1 .. Len(list) + 1 /\ more[Len(list) + 1] = hook
        /\ \A i \in 1 .. Len(list) : more[i] = shown[i]
    BY <1>2, <1>4, <1>1
  <1>8. /\ Append(list, hook) \in Seq(Hooks) /\ DOMAIN Append(list, hook) = 1 .. Len(list) + 1
        /\ Append(list, hook)[Len(list) + 1] = hook
        /\ \A i \in 1 .. Len(list) : Append(list, hook)[i] = list[i]
    BY <1>2, <1>1
  <1> HIDE DEF more
  <1>9. DOMAIN ReturnOf(more, there) = 1 .. Len(list) + 1
    BY <1>7 DEF ReturnOf
  <1>10. ASSUME NEW i \in 1 .. Len(list) PROVE ReturnOf(more, there)[i] = list[i]
    <2>1. ReturnOf(more, there)[i] = ReturnOf(shown, there)[i]
      BY <1>1, <1>3, <1>7 DEF ReturnOf
    <2>2. QED
      BY <1>6, <1>3, <2>1
  <1>11. ReturnOf(more, there)[Len(list) + 1] = hook
    <2>1. more[Len(list) + 1].secret = "new" /\ more[Len(list) + 1].url = url
      BY <1>2, <1>7
    <2>2. Len(list) + 1 \in DOMAIN more
      BY <1>1, <1>7
    <2>3. QED
      BY <2>1, <2>2 DEF ReturnOf, BackOf, hook
  <1>12. ReturnOf(more, there) = Append(list, hook)
    <2>1. \A i \in 1 .. Len(list) + 1 : ReturnOf(more, there)[i] = Append(list, hook)[i]
      <3>1. \A i \in 1 .. Len(list) + 1 : i \in 1 .. Len(list) \/ i = Len(list) + 1
        BY <1>1
      <3>2. QED
        BY <3>1, <1>8, <1>10, <1>11
    <2>2. ReturnOf(more, there) = [i \in 1 .. Len(list) + 1 |-> ReturnOf(more, there)[i]]
      BY <1>9 DEF ReturnOf
    <2>3. Append(list, hook) = [i \in 1 .. Len(list) + 1 |-> Append(list, hook)[i]]
      <3>1. Len(Append(list, hook)) = Len(list) + 1
        BY <1>1, <1>2, AppendProperties
      <3>2. Append(list, hook) \in [1 .. Len(list) + 1 -> Hooks]
        BY <1>8, <3>1, LenProperties
      <3>3. QED
        BY <3>2
    <2>4. QED
      BY <2>1, <2>2, <2>3
  <1>13. QED
    BY <1>12 DEF more, shown, hook

(* POST /config of what GET /config answered (server-config.ts): a secret  *)
(* that was shown as a mask comes back as it was, no mask is stored, and   *)
(* only what was edited is changed, for every file and every edit, but for *)
(* a list of hooks that the project's file did not have itself.            *)
THEOREM SecretsAreKept ==
  ASSUME NEW Text, NEW Secret, "mask" \notin Secret,
         NEW global \in ConfigFiles(Text, Secret), NEW project \in ConfigFiles(Text, Secret), NEW edit
  PROVE  Config!SavingKeepsSecrets(global, project, edit)
  <1> DEFINE before == Config!MergeFile(global, project)
             shown == Config!Masked(before)
             sent == Config!Edited(shown, edit)
             back == Config!Restored(sent, project)
             filed == Config!SavedFile(project, sent)
             after == Config!MergeFile(global, filed)
             wanted == Config!Edited(before, edit)
             hooks == before.hooks
             there == project.hooks.list
             u == Config!Hook("u9", "new")
  <1>1. /\ global.key \in Secret /\ project.key \in Secret
        /\ global.hooks.set \in BOOLEAN /\ project.hooks.set \in BOOLEAN
        /\ ListedHooks(global.hooks, Text, Secret) /\ ListedHooks(project.hooks, Text, Secret)
    BY FilesAre
  <1>2. /\ before = Config!File(Config!Over(global.key, project.key), Config!Over(global.plain, project.plain), hooks)
        /\ hooks = IF project.hooks.set THEN project.hooks ELSE global.hooks
        /\ before.key \in Secret
    BY <1>1 DEF Config!MergeFile, Config!File, Config!Over
  <1>3. shown = Config!File(Config!MaskOf(before.key), before.plain, [set |-> hooks.set, list |-> ShownOf(hooks.list)])
    BY FileParts
  <1> HIDE DEF before, shown
  <1>4. /\ sent.key = IF edit = "key" THEN "new" ELSE Config!MaskOf(before.key)
        /\ sent.plain = IF edit = "plain" THEN "new" ELSE before.plain
        /\ sent.hooks.set = (edit = "append" \/ hooks.set)
        /\ sent.hooks.list = IF edit = "append" THEN Append(ShownOf(hooks.list), u) ELSE ShownOf(hooks.list)
    <2> DEFINE masked == [set |-> hooks.set, list |-> ShownOf(hooks.list)]
    <2>1. shown = [key |-> Config!MaskOf(before.key), plain |-> before.plain, hooks |-> masked]
      BY <1>3 DEF Config!File
    <2> hooks.set \in BOOLEAN
      BY <1>1, <1>2
    <2> HIDE DEF hooks, sent, u
    <2>2. CASE edit = "append"
      <3>1. sent = [shown EXCEPT !.hooks = [set |-> TRUE, list |-> Append(@.list, u)]]
        BY <2>2 DEF Config!Edited, sent, u
      <3>2. QED
        BY <2>1, <2>2, <3>1
    <2>3. CASE edit = "plain"
      <3>1. sent = [shown EXCEPT !.plain = "new"]
        BY <2>3 DEF Config!Edited, sent
      <3>2. QED
        BY <2>1, <2>3, <3>1
    <2>4. CASE edit = "key"
      <3>1. sent = [shown EXCEPT !.key = "new"]
        BY <2>4 DEF Config!Edited, sent
      <3>2. QED
        BY <2>1, <2>4, <3>1
    <2>5. CASE edit \notin {"append", "plain", "key"}
      <3>1. sent = shown
        BY <2>5 DEF Config!Edited, sent
      <3>2. QED
        BY <2>1, <2>5, <3>1
    <2>6. QED
      BY <2>2, <2>3, <2>4, <2>5
  <1>5. /\ wanted.key = IF edit = "key" THEN "new" ELSE before.key
        /\ wanted.plain = IF edit = "plain" THEN "new" ELSE before.plain
        /\ wanted.hooks.list = IF edit = "append" THEN Append(hooks.list, u) ELSE hooks.list
    BY <1>2 DEF Config!Edited, Config!File
  <1> HIDE DEF sent, wanted, u, hooks
  <1>6. /\ back.key = BackOf(sent.key, project.key) /\ back.plain = sent.plain
        /\ back.hooks.set = sent.hooks.set /\ back.hooks.list = ReturnOf(sent.hooks.list, there)
    BY FileParts DEF Config!File
  <1>7. /\ filed.key = Config!Over(project.key, back.key) /\ filed.plain = Config!Over(project.plain, back.plain)
        /\ filed.hooks = IF back.hooks.set THEN back.hooks ELSE project.hooks
    BY DEF Config!SavedFile, Config!MergeFile, Config!File
  <1> HIDE DEF back, filed
  <1>8. /\ after.key = Config!Over(global.key, filed.key) /\ after.plain = Config!Over(global.plain, filed.plain)
        /\ after.hooks = IF filed.hooks.set THEN filed.hooks ELSE global.hooks
    BY DEF Config!MergeFile, Config!File
  <1> HIDE DEF after
  <1>9. filed.key # "mask" /\ after.key = wanted.key /\ after.plain = wanted.plain
    <2>1. before.key = Config!Over(global.key, project.key) /\ before.plain = Config!Over(global.plain, project.plain)
      BY <1>2 DEF Config!File
    <2>2. QED
      BY <1>1, <1>4, <1>5, <1>6, <1>7, <1>8, <2>1 DEF Config!Over, Config!MaskOf, BackOf
  <1>10. \A i \in DOMAIN filed.hooks.list : filed.hooks.list[i].secret # "mask"
    <2>1. \A i \in DOMAIN there : there[i].secret # "mask"
      BY <1>1, NoMask DEF ListedHooks
    <2>2. \A i \in DOMAIN back.hooks.list : back.hooks.list[i].secret # "mask"
      BY <1>6, <2>1, NoMask
    <2>3. QED
      BY <1>7, <2>1, <2>2
  <1>11. ASSUME project.hooks.set \/ global.hooks.list = <<>>
         PROVE  after.hooks.list = wanted.hooks.list
    <2>1. /\ ListedHooks(hooks, Text, Secret)
          /\ there = hooks.list \/ (there = <<>> /\ hooks.list = <<>>)
      BY <1>1, <1>2, <1>11 DEF ListedHooks
    <2>2. back.hooks.list = wanted.hooks.list
      <3>1. CASE edit = "append"
        BY <1>4, <1>5, <1>6, <2>1, <3>1, AppendedComesBack DEF ListedHooks, u
      <3>2. CASE edit # "append"
        <4>1. ReturnOf(ShownOf(hooks.list), there) = hooks.list
          BY <2>1, ListComesBack DEF ListedHooks
        <4>2. QED
          BY <1>4, <1>5, <1>6, <3>2, <4>1
      <3>3. QED
        BY <3>1, <3>2
    <2>3. CASE back.hooks.set
      BY <1>7, <1>8, <2>2, <2>3
    <2>4. CASE ~back.hooks.set
      <3>1. edit # "append" /\ ~hooks.set
        BY <1>4, <1>6, <2>4
      <3>2. ~project.hooks.set /\ ~global.hooks.set
        BY <1>1, <1>2, <3>1
      <3>3. after.hooks.list = global.hooks.list /\ wanted.hooks.list = hooks.list
        BY <1>1, <1>5, <1>7, <1>8, <2>4, <3>1, <3>2
      <3>4. QED
        BY <1>2, <3>2, <3>3
    <2>5. QED
      BY <2>3, <2>4
  <1>12. QED
    BY <1>9, <1>10, <1>11 DEF Config!SavingKeepsSecrets, Config!SecretsOf, before, shown, sent, filed, after, wanted

(* buildToolCommandsConfig: a tool runs as it was chosen last, whatever    *)
(* the two files of the configuration said of it and was chosen before.    *)
THEOREM ToolsRunAsChosen ==
  ASSUME NEW global \in [enabled : {"none", "yes", "no"}, script : STRING, more : STRING],
         NEW current \in [enabled : {"none", "yes", "no"}, script : STRING, more : STRING],
         NEW first \in {"none", "auto", "disabled", "script"},
         NEW second \in {"none", "auto", "disabled", "script"}
  PROVE  Config!ToolRunsAsChosen(global, current, first, second)
  <1> DEFINE once == Config!Selected(current, first, "s1")
             filed == Config!Selected(once, second, "s2")
             runs == Config!MergeEntry(global, filed)
  <1>1. /\ runs.enabled = Config!Over(global.enabled, filed.enabled)
        /\ runs.script = Config!Over(global.script, filed.script)
    BY DEF Config!MergeEntry
  <1> HIDE DEF once
  <1>2. /\ second = "auto" => filed.enabled = "yes" /\ filed.script = "none" /\ filed.more = once.more
        /\ second = "disabled" => filed.enabled = "no" /\ filed.script = "none"
        /\ second = "script" => filed.enabled = "yes" /\ filed.script = "s2"
    BY DEF Config!Selected, Config!Command
  <1> HIDE DEF filed, runs
  <1>3. QED
    BY <1>1, <1>2 DEF Config!ToolRunsAsChosen, Config!Over, once, filed, runs

----------------------------------------------------------------------------
(* The checks of a change (ToolChecks)                                      *)

Checks == INSTANCE ToolChecks

(* The commands by which a check of the change looks at what it must.      *)
Covering(t) ==
    {c \in [by : {"auto", "eslint", "workspace", "tsc", "package", "root", "config", "adapter"},
            dirs : SUBSET (Checks!PackagesOf(t) \cup {"root"}),
            scoped : BOOLEAN, files : SUBSET t.changed,
            scope : {"full", "package", "changed-files", "workspace"}] :
        CASE c.by \in {"config", "adapter"} -> TRUE
          [] c.by = "eslint" -> \A f \in t.changed : f.ext \in Checks!Eslintable => f \in Checks!Looks(t, c)
          [] OTHER -> t.changed \subseteq Checks!Looks(t, c)}
      \cup {Checks!Adapter(t)[i] : i \in DOMAIN Checks!Adapter(t)}

LEMMA ToolCardinality ==
  ASSUME NEW S
  PROVE  Checks!Cardinality(S) = Cardinality(S)
  BY DEF Checks!Cardinality, Cardinality

(* A package that is the scope holds every changed file.                   *)
LEMMA PackageIsWhole ==
  ASSUME NEW t, IsFiniteSet(t.changed)
  PROVE  /\ Checks!PackageScope(t) \subseteq Checks!PackagesOf(t)
         /\ \A p \in Checks!PackageScope(t) : Checks!PackagesOf(t) = {p} /\ Checks!PackageScope(t) = {p}
         /\ Checks!WorkspaceScope(t) \in {{}, Checks!PackagesOf(t)}
  <1>1. IsFiniteSet(Checks!PackagesOf(t))
    <2> DEFINE package == [f \in t.changed |-> f.pkg]
    <2>1. package \in Surjection(t.changed, Checks!PackagesOf(t))
      BY DEF Surjection, Checks!PackagesOf
    <2>2. QED
      BY <2>1, FS_Surjection
  <1>2. Cardinality(Checks!PackagesOf(t)) = 1 => \E p : Checks!PackagesOf(t) = {p}
    BY <1>1, FS_Singleton
  <1>3. Checks!PackageScope(t) \in {{}, Checks!PackagesOf(t)}
        /\ (Checks!PackageScope(t) # {} => Cardinality(Checks!PackagesOf(t)) = 1)
    BY ToolCardinality DEF Checks!PackageScope
  <1>4. Checks!WorkspaceScope(t) \in {{}, Checks!PackagesOf(t)}
    BY DEF Checks!WorkspaceScope
  <1>5. QED
    BY <1>2, <1>3, <1>4

(* A command of packages that hold every changed file covers them.         *)
LEMMA WholeCovers ==
  ASSUME NEW t, NEW by \in {"auto", "workspace", "tsc", "package", "root"},
         NEW dirs \in SUBSET (Checks!PackagesOf(t) \cup {"root"}), NEW scoped \in BOOLEAN,
         NEW files \in {{}, t.changed}, scoped => files = t.changed,
         NEW scope \in {"full", "package", "changed-files", "workspace"},
         "root" \in dirs \/ Checks!PackagesOf(t) \subseteq dirs
  PROVE  <<Checks!Command(by, dirs, scoped, files, scope)>> \in Seq(Covering(t))
  <1> DEFINE c == Checks!Command(by, dirs, scoped, files, scope)
  <1>1. c = [by |-> by, dirs |-> dirs, scoped |-> scoped, files |-> files, scope |-> scope]
    BY DEF Checks!Command
  <1>2. t.changed \subseteq Checks!Looks(t, c)
    BY <1>1 DEF Checks!Looks, Checks!PackagesOf
  <1>3. c \in Covering(t)
    BY <1>1, <1>2 DEF Covering
  <1>4. QED
    BY <1>3

LEMMA ScriptCovers ==
  ASSUME NEW t, IsFiniteSet(t.changed), NEW script
  PROVE  Checks!PackageOrRoot(t, script) \in Seq(Covering(t))
  <1>1. ASSUME NEW p \in Checks!PackageScope(t) \cup {"root"}
        PROVE  Checks!ScopedScript(t, p, script) \in Seq(Covering(t))
    <2>1. /\ {p} \in SUBSET (Checks!PackagesOf(t) \cup {"root"})
          /\ "root" \in {p} \/ Checks!PackagesOf(t) \subseteq {p}
      BY PackageIsWhole
    <2>2. /\ <<Checks!Command("auto", {p}, TRUE, t.changed, "changed-files")>> \in Seq(Covering(t))
          /\ \A scope \in {"full", "package"} :
                <<Checks!Command("auto", {p}, FALSE, {}, scope)>> \in Seq(Covering(t))
      BY <2>1, WholeCovers
    <2>3. <<>> \in Seq(Covering(t))
      OBVIOUS
    <2>4. QED
      BY <2>2, <2>3 DEF Checks!ScopedScript
  <1>2. Checks!PackageScope(t) # {} => (CHOOSE p \in Checks!PackageScope(t) : TRUE) \in Checks!PackageScope(t)
    OBVIOUS
  <1>3. QED
    BY <1>1, <1>2, ConcatProperties DEF Checks!PackageOrRoot

(* Whichever way a command is found, it is one of those.                   *)
LEMMA ResolvedCovers ==
  ASSUME NEW t, IsFiniteSet(t.changed), t.config.append \in BOOLEAN,
         t.config.kind \in {"off", "command", "script", "none"}
  PROVE  Checks!Resolve(t) \in Seq(Covering(t))
  <1>1. \A u, v \in Seq(Covering(t)) : u \o v \in Seq(Covering(t))
    BY ConcatProperties
  <1>2. <<>> \in Seq(Covering(t))
    OBVIOUS
  <1>3. Checks!Candidates(t) \in Seq(Covering(t))
    <2>1. \A script : Checks!PackageOrRoot(t, script) \in Seq(Covering(t))
      BY ScriptCovers
    <2>2. QED
      BY <1>1, <1>2, <2>1 DEF Checks!Candidates
  <1>4. Checks!DirectLint(t) \in Seq(Covering(t))
    <2> DEFINE lintable == {f \in t.changed : f.ext \in Checks!Eslintable}
               c == Checks!Command("eslint", Checks!PackageScope(t), TRUE, lintable, "changed-files")
    <2>1. c = [by |-> "eslint", dirs |-> Checks!PackageScope(t), scoped |-> TRUE,
               files |-> lintable, scope |-> "changed-files"]
      BY DEF Checks!Command
    <2> HIDE DEF c
    <2>2. Checks!Looks(t, c) = lintable
      BY <2>1 DEF Checks!Looks
    <2>3. lintable \in SUBSET t.changed
          /\ Checks!PackageScope(t) \in SUBSET (Checks!PackagesOf(t) \cup {"root"})
      BY PackageIsWhole
    <2>4. \A f \in t.changed : f.ext \in Checks!Eslintable => f \in lintable
      OBVIOUS
    <2> HIDE DEF lintable
    <2>5. c \in Covering(t)
      BY <2>1, <2>2, <2>3, <2>4 DEF Covering
    <2>6. <<c>> \in Seq(Covering(t))
      BY <2>5
    <2>7. QED
      BY <1>2, <2>6 DEF Checks!DirectLint, c, lintable
  <1>5. Checks!AutoScoped(t) \in Seq(Covering(t))
    BY <1>1, <1>2, <1>3, <1>4 DEF Checks!AutoScoped
  <1>6. Checks!Workspace(t) \in Seq(Covering(t))
    <2>1. ASSUME Checks!WorkspaceScope(t) # {}
          PROVE  <<Checks!Command("workspace", Checks!WorkspaceScope(t), FALSE, {}, "workspace")>> \in Seq(Covering(t))
      BY <2>1, PackageIsWhole, WholeCovers
    <2>2. QED
      BY <1>2, <2>1 DEF Checks!Workspace
  <1>7. ASSUME Checks!PackageScope(t) # {}
        PROVE  /\ Checks!PackageScope(t) \in SUBSET (Checks!PackagesOf(t) \cup {"root"})
               /\ Checks!PackagesOf(t) \subseteq Checks!PackageScope(t)
    BY <1>7, PackageIsWhole
  <1>8. Checks!PackageTypecheck(t) \in Seq(Covering(t))
    <2>1. ASSUME Checks!PackageScope(t) # {}
          PROVE  <<Checks!Command("tsc", Checks!PackageScope(t), FALSE, {}, "package")>> \in Seq(Covering(t))
      BY <1>7, <2>1, WholeCovers
    <2>2. QED
      BY <1>2, <2>1 DEF Checks!PackageTypecheck
  <1>9. Checks!PackageScript(t) \in Seq(Covering(t))
    <2>1. ASSUME Checks!PackageScope(t) # {}
          PROVE  <<Checks!Command("package", Checks!PackageScope(t), t.config.append, t.changed, "package")>>
                   \in Seq(Covering(t))
      BY <1>7, <2>1, WholeCovers
    <2>2. QED
      BY <1>2, <2>1 DEF Checks!PackageScript
  <1>10. {"root"} \in SUBSET (Checks!PackagesOf(t) \cup {"root"}) /\ "root" \in {"root"}
    OBVIOUS
  <1>11. Checks!RootScript(t) \in Seq(Covering(t))
    <2>1. \A scope \in {"full", "changed-files"} :
             <<Checks!Command("root", {"root"}, t.config.append, t.changed, scope)>> \in Seq(Covering(t))
      BY <1>10, WholeCovers
    <2>2. QED
      BY <1>2, <2>1 DEF Checks!RootScript
  <1>12. Checks!RootTypecheck(t) \in Seq(Covering(t))
    <2>1. <<Checks!Command("tsc", {"root"}, FALSE, {}, "full")>> \in Seq(Covering(t))
      BY <1>10, WholeCovers
    <2>2. QED
      BY <1>2, <2>1 DEF Checks!RootTypecheck
  <1>13. Checks!Adapter(t) \in Seq(Covering(t))
    <2>1. Checks!Adapter(t) = <<>> \/ \E c : Checks!Adapter(t) = <<c>>
      BY DEF Checks!Adapter
    <2>2. \A i \in DOMAIN Checks!Adapter(t) : Checks!Adapter(t)[i] \in Covering(t)
      BY DEF Covering
    <2>3. ASSUME NEW c, Checks!Adapter(t) = <<c>>
          PROVE  Checks!Adapter(t) \in Seq(Covering(t))
      <3>1. c \in Covering(t)
        <4>1. 1 \in DOMAIN <<c>> /\ <<c>>[1] = c
          OBVIOUS
        <4>2. QED
          BY <2>2, <2>3, <4>1
      <3>2. QED
        BY <2>3, <3>1
    <2>4. QED
      BY <1>2, <2>1, <2>3
  <1>14. ASSUME NEW scope \in {"full", "changed-files"}
         PROVE  <<Checks!Command("config", {"root"}, t.config.append, t.changed, scope)>> \in Seq(Covering(t))
    <2> DEFINE c == Checks!Command("config", {"root"}, t.config.append, t.changed, scope)
    <2>1. c = [by |-> "config", dirs |-> {"root"}, scoped |-> t.config.append, files |-> t.changed, scope |-> scope]
      BY DEF Checks!Command
    <2> HIDE DEF c
    <2>2. c \in Covering(t)
      BY <2>1 DEF Covering
    <2>3. <<c>> \in Seq(Covering(t))
      BY <2>2
    <2>4. QED
      BY <2>3 DEF c
  <1>15. CASE t.config.kind = "none"
    <2>1. Checks!Resolve(t) = Checks!AutoScoped(t) \o Checks!Workspace(t) \o Checks!PackageTypecheck(t)
            \o Checks!PackageScript(t) \o Checks!RootScript(t) \o Checks!Adapter(t) \o Checks!RootTypecheck(t)
      BY <1>15 DEF Checks!Resolve
    <2>2. QED
      BY <1>1, <1>5, <1>6, <1>8, <1>9, <1>11, <1>12, <1>13, <2>1
  <1>16. CASE t.config.kind # "none"
    <2>1. t.config.kind \in {"off", "command", "script"}
      BY <1>16
    <2>2. QED
      BY <1>2, <1>11, <1>14, <2>1 DEF Checks!Resolve
  <1>17. QED
    BY <1>15, <1>16

(* The command of an adapter is for changed files.                         *)
LEMMA AdapterFiles ==
  ASSUME NEW t, NEW i \in DOMAIN Checks!Adapter(t)
  PROVE  Checks!Adapter(t)[i].by = "adapter" /\ Checks!Adapter(t)[i].files \subseteq t.changed
  <1> DEFINE with == Checks!SelectSeq(Checks!Adapters(t), LAMBDA a : t.tool \in a.tools)
             handled == {f \in t.changed : Checks!Handles(with[1], f)}
             c == Checks!Command("adapter", {with[1].dir}, with[1].append, handled,
                                IF with[1].dir = "root" THEN "full" ELSE "package")
  <1>1. Checks!Adapter(t) \in {<<>>, <<c>>}
    BY DEF Checks!Adapter
  <1>2. c.by = "adapter" /\ c.files = handled
    BY DEF Checks!Command
  <1>3. handled \subseteq t.changed
    OBVIOUS
  <1> HIDE DEF c, handled
  <1>4. QED
    BY <1>1, <1>2, <1>3

(* resolveToolCommand (core/tool-scoping.ts): the command of a check looks *)
(* at every changed file that it is for, for any change, any packages with *)
(* any scripts and any adapters.                                           *)
THEOREM ChecksCoverChange ==
  ASSUME NEW t, IsFiniteSet(t.changed), t.config.append \in BOOLEAN,
         t.config.kind \in {"off", "command", "script", "none"}
  PROVE  Checks!CheckCoversChange(t)
  <1>1. Checks!Resolve(t) # <<>> => Checks!Resolve(t)[1] \in Covering(t)
    BY ResolvedCovers
  <1>2. \A i \in DOMAIN Checks!Adapter(t) : Checks!Adapter(t)[i].by = "adapter"
    BY AdapterFiles
  <1>3. QED
    BY <1>1, <1>2 DEF Covering, Checks!CheckCoversChange

(* runToolChecks and resolveFullScopeFallback: a command that ran and      *)
(* failed is a failed check with its issue, or one that a second run, which *)
(* as a script of the root looks at all that the first one looked at,      *)
(* calls passed, or one that quotes ENOENT and is called unavailable.      *)
THEOREM FailuresAreExcusedByMore ==
  ASSUME NEW t, IsFiniteSet(t.changed), t.config.append \in BOOLEAN,
         t.config.kind \in {"off", "command", "script", "none"},
         NEW docker \in BOOLEAN, NEW first \in {"passed", "failed", "missing", "quoted"},
         NEW again \in {"passed", "failed", "missing", "quoted"}
  PROVE  Checks!FailureIsExcusedByMore(t, docker, first, again)
  <1> DEFINE retried == /\ \/ Checks!Resolve(t)[1].scoped
                            \/ Checks!Resolve(t)[1].scope \in {"changed-files", "package"}
                        /\ Checks!FullScope(t) # <<>>
             r == Checks!Check(t, docker, first, again)
             covers == Checks!RootScript(t) # <<>> =>
                         Checks!Looks(t, Checks!Resolve(t)[1]) \subseteq Checks!Looks(t, Checks!FullScope(t)[1])
  <1> SUFFICES ASSUME Checks!Resolve(t) # <<>>, docker, first \in {"failed", "quoted"}
               PROVE  \/ r.status = "failed" /\ r.issue /\ ~(r.fallback /\ again = "passed")
                      \/ r.status = "passed" /\ r.issue /\ r.fallback /\ again = "passed" /\ covers
                      \/ r.status = "unavailable" /\ first = "quoted" /\ ~r.issue /\ ~r.fallback
    BY Zenon DEF Checks!FailureIsExcusedByMore
  <1>1. r = IF first = "quoted" THEN Checks!Result("unavailable", FALSE, FALSE)
            ELSE IF retried /\ again = "passed" THEN Checks!Result("passed", TRUE, TRUE)
            ELSE Checks!Result("failed", TRUE, retried)
    BY DEF Checks!Check, Checks!LooksMissing
  <1> HIDE DEF retried, r
  <1>3. Checks!Resolve(t)[1] \in Covering(t)
    BY ResolvedCovers
  <1>4. \A i \in DOMAIN Checks!Adapter(t) : Checks!Adapter(t)[i].files \subseteq t.changed
    BY AdapterFiles
  <1>5. Checks!Looks(t, Checks!Resolve(t)[1]) \subseteq t.changed
    BY <1>3, <1>4 DEF Covering, Checks!Looks
  <1>6. Checks!RootScript(t) # <<>> => t.changed \subseteq Checks!Looks(t, Checks!FullScope(t)[1])
    <2>1. ASSUME Checks!RootScript(t) # <<>>
          PROVE  Checks!FullScope(t)[1] = [by |-> "root", dirs |-> {"root"}, scoped |-> FALSE, files |-> {}, scope |-> "full"]
      BY <2>1 DEF Checks!FullScope, Checks!Command
    <2>2. QED
      BY <2>1 DEF Checks!Looks
  <1>7. covers
    BY <1>5, <1>6
  <1> HIDE DEF covers
  <1>8. QED
    BY <1>1, <1>7 DEF Checks!Result

=============================================================================
