---------------------------- MODULE WorkerGuards ----------------------------
(* What a worker decides about a task and a diff (src/ai-system/worker):   *)
(* the phases of a task, the context pack of the setup phase, and the      *)
(* checks of the changed files.  A path is the sequence of its segments.   *)
EXTENDS Integers, Sequences, FiniteSets

----------------------------------------------------------------------------
(* The plan (task-phases.ts).  A task is told by the clauses that          *)
(* extractTaskClauses finds and the sentences of splitLongTask, and by     *)
(* what its text and its profile say.                                      *)

SetupWanted(t, slices) ==
    \/ t.packMode = "required"
    \/ /\ t.packMode = "auto"
       /\ t.length > 220 \/ slices > 2 \/ t.profile = "strict" \/ t.risky

TaskClauses(t) == IF t.bullets >= 2 THEN t.bullets ELSE IF t.clauses >= 2 THEN t.clauses ELSE 1
LongTask(t) == IF t.sentences >= 2 THEN t.sentences ELSE 2

(* Mutant: a node of a work item is cut up again.                          *)
SlicesAgain(t) ==
    IF TaskClauses(t) > 1 THEN TaskClauses(t) ELSE IF t.length > 180 THEN LongTask(t) ELSE 1

Slices(t) ==
    IF t.preDecomposed THEN 1
    ELSE IF TaskClauses(t) > 1 THEN TaskClauses(t)
    ELSE IF t.length > 180 THEN LongTask(t) ELSE 1

PhasePlan(t) ==
    (IF SetupWanted(t, Slices(t)) THEN <<"setup">> ELSE <<>>)
        \o [i \in 1 .. Slices(t) |-> "implementation"] \o <<"verification">>

(* The rounds of the provider that a node of a work item can cost.         *)
(* buildWorkerTaskPhasePlan takes such a task for one unit of work,        *)
(* whatever its text looks like, and every task ends with one              *)
(* verification phase after at least one of implementation.                *)
NodeCostsThreeRounds(t) ==
    LET p == PhasePlan(t)
    IN  /\ t.preDecomposed => Len(p) <= 3
        /\ p[Len(p)] = "verification" /\ p[Len(p) - 1] = "implementation"
        /\ \A i \in 2 .. Len(p) : p[i] # "setup"

----------------------------------------------------------------------------
(* The context pack (context-pack.ts, context-pack-parser.ts).             *)

NoPack == [confidence |-> "none", allowed |-> {}, doNotTouch |-> {}, proposed |-> {}]

NormalizedPack(raw) ==
    [raw EXCEPT !.confidence = IF @ \in {"low", "medium", "high"} THEN @ ELSE "low"]

FallbackPack == NormalizedPack([NoPack EXCEPT !.confidence = "low"])

(* Mutant: a block that is no JSON gives no pack.                          *)
ExtractedOrNone(answer) ==
    CASE ~answer.marked -> NoPack
      [] answer.marked /\ ~answer.json -> NoPack
      [] OTHER -> NormalizedPack(answer.pack)

ExtractedPack(answer) ==
    CASE ~answer.marked -> NoPack
      [] answer.marked /\ ~answer.json -> FallbackPack
      [] OTHER -> NormalizedPack(answer.pack)

(* The setup phase always leaves a pack.                                   *)
SetupPack(answer) ==
    IF ExtractedPack(answer) = NoPack THEN FallbackPack ELSE ExtractedPack(answer)

----------------------------------------------------------------------------
(* The diff boundary (diff-boundary-checker.ts).                           *)

Within(f, d) == Len(d) <= Len(f) /\ SubSeq(f, 1, Len(d)) = d

(* A pattern is a path, one that ends in "/**" or "/*", or has a "*"       *)
(* further up.                                                             *)
MatchesPattern(f, p) ==
    CASE p.kind \in {"plain", "deep"} -> Within(f, p.at)
      [] p.kind = "flat" -> Within(f, p.at) /\ Len(f) = Len(p.at) + 1
      [] p.kind = "glob" -> /\ Len(f) = Len(p.at)
                            /\ \A i \in 1 .. Len(f) : p.at[i] \in {f[i], "*"}

Matches(f, ps) == \E p \in ps : MatchesPattern(f, p)

Touched(c) == {f \in c.changed : Matches(f, c.pack.doNotTouch)}
Outside(c) == {f \in c.changed : c.pack.allowed # {} /\ ~Matches(f, c.pack.allowed)}
Findings(code, severity, files) == {[code |-> code, severity |-> severity, file |-> f] : f \in files}
Graded(policy) == IF policy = "strict" THEN "error" ELSE "warning"

(* Mutant: a file of the do-not-touch list is judged by the mode.          *)
FileFindingsByMode(c) ==
    Findings("TOUCHED_DO_NOT_TOUCH", Graded(c.mode), Touched(c))
        \cup Findings("BOUNDARY_OUTSIDE_ALLOWED", Graded(c.mode), Outside(c) \ Touched(c))

(* Mutant: a strict boundary is all there is to say.                       *)
FileFindingsStrictly(c) ==
    IF c.mode = "strict" /\ c.pack.allowed # {}
    THEN Findings("BOUNDARY_OUTSIDE_ALLOWED", "error", Outside(c))
    ELSE Findings("TOUCHED_DO_NOT_TOUCH", "error", Touched(c))

FileFindings(c) ==
    Findings("TOUCHED_DO_NOT_TOUCH", "error", Touched(c))
        \cup Findings("BOUNDARY_OUTSIDE_ALLOWED", Graded(c.mode), Outside(c) \ Touched(c))

NewFileFindings(c) ==
    IF c.newFiles = "allow" THEN {}
    ELSE Findings("NEW_FILE_NOT_DECLARED", Graded(c.newFiles), c.added \ c.pack.proposed)

BoundaryFindings(c) ==
    IF c.mode = "off" THEN {}
    ELSE (IF c.pack.confidence \in {"none", "low"}
          THEN {[code |-> "LOW_CONFIDENCE_CONTEXT", severity |-> "warning", file |-> <<>>]} ELSE {})
         \cup FileFindings(c) \cup NewFileFindings(c)

BoundaryOk(c) == \A x \in BoundaryFindings(c) : x.severity # "error"

Weaker(x, order) == {order[i] : i \in {j \in 1 .. Len(order) : \E k \in j + 1 .. Len(order) : order[k] = x}}

(* A stricter mode or policy never lets a diff pass that a weaker one      *)
(* stops (runDiffBoundaryCheck), and it reports every file the weaker one  *)
(* reports.                                                                *)
StricterStopsMore(c) ==
    \A weak \in {[c EXCEPT !.mode = m] : m \in Weaker(c.mode, <<"off", "warn", "strict">>)}
            \cup {[c EXCEPT !.newFiles = m] : m \in Weaker(c.newFiles, <<"allow", "warn", "strict">>)} :
        /\ BoundaryOk(c) => BoundaryOk(weak)
        /\ {x.file : x \in BoundaryFindings(weak)} \subseteq {x.file : x \in BoundaryFindings(c)}

(* A diff that passes with the check on leaves the do-not-touch files of   *)
(* the pack alone; in strict mode, with a pack that names a boundary, it   *)
(* is inside it; and a setup answer that cannot be read is reported.       *)
BoundaryHolds(c, answer) ==
    /\ (c.mode # "off" /\ BoundaryOk(c)) =>
         /\ \A f \in c.changed : ~Matches(f, c.pack.doNotTouch)
         /\ (c.mode = "strict" /\ c.pack.allowed # {}) => \A f \in c.changed : Matches(f, c.pack.allowed)
    /\ (c.mode # "off" /\ ~(answer.marked /\ answer.json)) =>
         \E x \in BoundaryFindings([c EXCEPT !.pack = SetupPack(answer)]) :
            x.code = "LOW_CONFIDENCE_CONTEXT"

----------------------------------------------------------------------------
(* The names of the changed files (naming-guard.ts), by what the patterns  *)
(* find in them, and the verdict of verification-runner.ts.                *)

NameFindings(n, mode, conventions) ==
    LET graded == IF mode = "strict" THEN "error" ELSE "warning"
    IN  IF mode = "off" THEN {}
        ELSE (IF n.scenario THEN {<<"SUSPICIOUS_SCENARIO_ID_IN_NAME", graded>>} ELSE {})
             \cup (IF n.mixed THEN {<<"MIXED_CASE_WITH_DIGIT", graded>>} ELSE {})
             \cup (IF n.abbreviation THEN {<<"UNEXPLAINED_ABBREVIATION", "warning">>} ELSE {})
             \cup (IF conventions /\ n.test /\ ~n.conforms
                   THEN {<<"CONVENTION_MISMATCH", "warning">>} ELSE {})

NamesOk(names, mode, conventions) ==
    \A n \in names : \A x \in NameFindings(n, mode, conventions) : x[2] # "error"

VerificationOk(results, issues) ==
    /\ \A r \in results : r.skipped \/ r.ok
    /\ "high" \notin issues

(* Mutant: the file counts a check that was skipped as one that failed.    *)
VerificationFileStrict(results, issues) ==
    IF {r \in results : ~r.ok} = {} /\ "high" \notin issues THEN "passed" ELSE "failed"

VerificationFile(results, issues) ==
    IF {r \in results : ~r.ok /\ ~r.skipped} = {} /\ "high" \notin issues THEN "passed" ELSE "failed"

(* What the worker reports is what verification.json says                  *)
(* (runWorkerVerification, writeVerificationArtifacts).                    *)
VerdictIsFiled(results, issues) ==
    VerificationOk(results, issues) <=> VerificationFile(results, issues) = "passed"
=============================================================================
