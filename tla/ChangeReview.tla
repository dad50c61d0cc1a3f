---------------------------- MODULE ChangeReview ----------------------------
(* How a change is reviewed: what is shown of it                           *)
(* (core/current-change-review.ts), what the panel of lenses makes of its  *)
(* findings (core/review-panel.ts), what is kept of an answer              *)
(* (core/reviewer.ts, agents/reviewer.ts), and what a failing check or a   *)
(* failed run is turned into (core/review-failing-checks.ts,               *)
(* core/fix-checks.ts, core/fix-from-run.ts).                              *)
EXTENDS Integers, Sequences, FiniteSets, FiniteSetsExt, SequencesExt

----------------------------------------------------------------------------
(* The files: what HEAD, the base, the index and the working tree hold of  *)
(* each, "none" for no file.                                               *)

Side(mode) == CASE mode = "staged" -> "index" [] OTHER -> "work"
Against(mode) == CASE mode = "base-ref" -> "base" [] OTHER -> "head"

Tracked(file) == IF file.index = "none" THEN "none" ELSE file.work

(* git shows a file that is gone and another that has its content as one   *)
(* renamed: the new path is listed, and the old one is not.                *)
Renamed(files, f, from, to) ==
    /\ from[f] # "none" /\ to[f] = "none"
    /\ \E g \in DOMAIN files : from[g] = "none" /\ to[g] = from[f]

Changed(files, f, from, to) == from[f] # to[f] /\ ~Renamed(files, f, from, to)

(* What git status, git diff --cached and git diff <base> list.            *)
Listed(files, mode) ==
    LET of(field) == [f \in DOMAIN files |-> files[f][field]]
        tracked == [f \in DOMAIN files |-> Tracked(files[f])]
    IN {f \in DOMAIN files :
          CASE mode = "staged" -> Changed(files, f, of("head"), of("index"))
            [] mode = "base-ref" -> Changed(files, f, of("base"), tracked)
            [] OTHER -> \/ Changed(files, f, of("head"), of("index"))
                        \/ files[f].work # files[f].index}

(* A path asked for that is the repository itself is no path; review of    *)
(* files that names no path is refused.                                    *)
InScope(files, mode, asked) ==
    LET paths == asked \ {"."}
    IN IF paths = {} THEN files ELSE [f \in DOMAIN files \cap paths |-> files[f]]
Refused(mode, asked) == mode = "files" /\ asked \ {"."} = {}

(* A file that is not there is shown as an empty one.                      *)
Text(content) == IF content = "none" THEN "" ELSE content
(* Mutant: a staged change is shown as it is in the working tree.          *)
ShownOnDisk(files, mode, asked) ==
    {[path |-> f, before |-> Text(files[f][Against(mode)]), after |-> Text(files[f].work),
      create |-> files[f][Against(mode)] = "none"] :
        f \in Listed(InScope(files, mode, asked), mode)}

Shown(files, mode, asked) ==
    {[path |-> f, before |-> Text(files[f][Against(mode)]),
      after |-> Text(files[f][Side(mode)]),
      create |-> files[f][Against(mode)] = "none" /\ files[f][Side(mode)] # "none"] :
        f \in Listed(InScope(files, mode, asked), mode)}

(* What differs between the two sides is in the review with both its       *)
(* texts, except for a file that git does not track, in the review against *)
(* a base, and for the old path of a rename (collectReviewChanges): each   *)
(* mode asks git in its own way, and reads the contents in another.        *)
ChangeIsShown(files, mode, asked) ==
    LET scope == InScope(files, mode, asked)
        passed(f) == \/ mode = "base-ref" /\ files[f].index = "none"
                     \/ /\ scope[f][Side(mode)] = "none"
                        /\ \E g \in DOMAIN scope :
                             /\ scope[g][Against(mode)] = "none"
                             /\ scope[f][Against(mode)] \in {scope[g][Side(mode)], scope[g].index}
    IN ~Refused(mode, asked) =>
         \A f \in DOMAIN scope :
           files[f][Side(mode)] # files[f][Against(mode)] =>
             \/ passed(f)
             \/ \E s \in Shown(files, mode, asked) :
                  /\ s.path = f
                  /\ s.before = Text(files[f][Against(mode)])
                  /\ s.after = Text(files[f][Side(mode)])

----------------------------------------------------------------------------
(* Issues: a severity, a category, a path ("" for none), a line (0 for     *)
(* none) and a text ("" for none).                                         *)

SeverityRank(severity) ==
    CASE severity = "high" -> 2 [] severity = "medium" -> 1 [] OTHER -> 0
Blocking(issues) == \E i \in issues : SeverityRank(i.severity) > 0

(* validateOutput: an issue of another file is dropped, with a note.       *)
Note == [severity |-> "low", category |-> "validation", path |-> "", line |-> 0, text |-> "note"]
InReview(issues, paths) ==
    LET inside == {i \in issues : i.path \in paths \cup {""}}
    IN inside \cup (IF inside = issues THEN {} ELSE {Note})

(* normalizeIssue: an unknown severity is medium, and an issue without a   *)
(* text is none.                                                           *)
(* Mutant: an unknown severity is low.                                     *)
NormalizedLow(issues) ==
    {[i EXCEPT !.severity = IF @ \in {"high", "medium", "low"} THEN @ ELSE "low"] :
        i \in {j \in issues : j.text # ""}}

Normalized(issues) ==
    {[i EXCEPT !.severity = IF @ \in {"high", "medium", "low"} THEN @ ELSE "medium"] :
        i \in {j \in issues : j.text # ""}}

(* mergeIssues of the checks and the review.                               *)
Merged(review, checks) == Normalized(checks) \cup Normalized(review)

(* reviewCurrentRepoChanges and reviewFailingChecks.                       *)
ReviewStatus(answer, paths, checks) ==
    IF Blocking(Merged(Normalized(InReview(answer, paths)), checks)) THEN "failed" ELSE "completed"

(* A review completes only when neither the checks nor the answer, however *)
(* it is worded, say something that blocks about what was reviewed.        *)
NothingIsTalkedAway(answer, paths, checks) ==
    ReviewStatus(answer, paths, checks) = "completed" =>
        \A i \in answer \cup checks :
            i.severity = "low" \/ i.text = "" \/ i.path \notin paths \cup {""}

----------------------------------------------------------------------------
(* The panel.                                                              *)

(* resolveReviewPanelConfig; quorum 0 stands for one that is not given.    *)
PanelQuorum(asked, lenses) ==
    Min({IF asked > 0 THEN asked ELSE 2, Max({1, Cardinality(lenses)})})

SameDefect(a, b) ==
    /\ a.path = b.path /\ a.category = b.category
    /\ IF a.line = 0 \/ b.line = 0 THEN a.line = b.line ELSE a.line - b.line \in -3 .. 3

(* A finding joins the first group it belongs with; the group is known by  *)
(* its worst finding.                                                      *)
Placed(groups, found) ==
    LET same == {g \in DOMAIN groups : SameDefect(groups[g].issue, found.issue)}
    IN IF same = {} THEN Append(groups, [issue |-> found.issue, lenses |-> {found.lens}])
       ELSE LET g == Min(same)
                worse == SeverityRank(found.issue.severity)
                           > SeverityRank(groups[g].issue.severity)
            IN [groups EXCEPT ![g].lenses = @ \cup {found.lens},
                              ![g].issue = IF worse THEN found.issue ELSE @]

(* Mutant: what is below the quorum keeps its severity.                    *)
JudgedAlike(group, quorum) == group.issue

Judged(group, quorum) ==
    [group.issue EXCEPT !.severity = IF Cardinality(group.lenses) >= quorum THEN @ ELSE "low"]

(* runReviewPanel: the answers of the lenses, in their order; one that     *)
(* failed has none, and if all failed the panel throws.                    *)
Panel(answers, quorum) ==
    LET answered == SelectSeq([l \in DOMAIN answers |-> l], LAMBDA l : answers[l].ok)
        found == FlattenSeq([a \in DOMAIN answered |->
                    [i \in DOMAIN answers[answered[a]].issues |->
                        [lens |-> answered[a], issue |-> answers[answered[a]].issues[i]]]])
        groups == FoldLeft(Placed, <<>>, found)
        needed == Min({quorum, Len(answered)})
    IN {Judged(groups[g], needed) : g \in DOMAIN groups}

(* A lens alone does not block a run when two are needed; a panel in which *)
(* a lens fails blocks whatever it blocked had that lens found nothing;    *)
(* and each finding is near one that is reported, within the nine lines    *)
(* that a group can drift as worse findings join it (runReviewPanel).      *)
PanelIsFair(answers, quorum) ==
    LET result == Panel(answers, quorum)
        silent(l) == [answers EXCEPT ![l] = [ok |-> TRUE, issues |-> <<>>]]
        lost(l) == [answers EXCEPT ![l] = [ok |-> FALSE, issues |-> <<>>]]
        working == {l \in DOMAIN answers : answers[l].ok}
    IN /\ (quorum > 1 /\ Cardinality(working) > 1
             /\ Cardinality({l \in working : answers[l].issues # <<>>}) = 1)
             => ~Blocking(result)
       /\ \A l \in DOMAIN answers : working \ {l} # {} =>
            (Blocking(Panel(silent(l), quorum)) => Blocking(Panel(lost(l), quorum)))
       /\ \A l \in working : \A i \in ToSet(answers[l].issues) :
            \E r \in result : /\ r.path = i.path /\ r.category = i.category
                              /\ r.line - i.line \in -9 .. 9

(* The prompt tells each lens to name its findings after itself            *)
(* (agents/reviewer.ts:51), and findings are only ever the same defect     *)
(* within a category: a panel that does as told never reaches a quorum of  *)
(* two (isSameDefect).                                                     *)
ObedientPanelAdvises(answers, quorum) ==
    (/\ quorum > 1
     /\ Cardinality({l \in DOMAIN answers : answers[l].ok}) > 1
     /\ \A k, l \in DOMAIN answers : \A i \in ToSet(answers[k].issues), j \in ToSet(answers[l].issues) :
          k # l => i.category # j.category)
    => ~Blocking(Panel(answers, quorum))

----------------------------------------------------------------------------
(* What is to be fixed.                                                    *)

FailingChecks(results) == {r \in results : ~r.skipped /\ ~r.ok}
NothingFails(results, issues) == FailingChecks(results) = {} /\ issues = {}

(* extractExistingFileHints: the first eight files the output names.       *)
FileHints(mentions, exists) ==
    LET first(i) == \A j \in 1 .. i - 1 : mentions[j] # mentions[i]
        named == SelectSeq([i \in DOMAIN mentions |-> i],
                           LAMBDA i : first(i) /\ mentions[i] \in exists)
    IN [n \in 1 .. Min({8, Len(named)}) |-> mentions[named[n]]]

(* prepareFixFromRun, and isResumableRunStatus of the resume it calls.     *)
(* Mutant: any failed run is resumed.                                      *)
FixResumesFailed(run) == run.status \in {"paused_after_plan", "paused_after_generate", "failed"}

FixResumes(run) ==
    \/ run.status \in {"paused_after_plan", "paused_after_generate"}
    \/ run.status = "failed" /\ run.hint
ResumeAccepts(run) ==
    \/ run.status \in {"paused_after_plan", "paused_after_generate"}
    \/ run.status = "failed" /\ (run.hint \/ run.stage)

(* A fix that resumes a run is not refused by the resume, and a run that a *)
(* plain resume takes is not started anew: the two files each have a test  *)
(* of their own for it (prepareFixFromRun, isResumableRunStatus).          *)
FixAgreesWithResume(run) ==
    FixResumes(run) = ResumeAccepts([run EXCEPT !.stage = FALSE])
=============================================================================
