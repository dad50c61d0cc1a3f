------------------------------ MODULE SoloJobs ------------------------------
(* Solo jobs: a coding tool edits the user's own checkout, and the job can *)
(* be undone, continued and committed afterwards (solo/solo-runner.ts,     *)
(* solo/solo-jobs.ts, solo/solo-dirty-tree.ts).                            *)
(*                                                                         *)
(* A file is the number of the edit that made it, and a patch applies when *)
(* every file in it is what the patch left; hunks, the index and file      *)
(* modes are left out.  Only the working tree at the repository's root is  *)
(* shared with the user; a job in a worktree of its own has one more.      *)
EXTENDS Integers, Sequences, FiniteSets

CONSTANTS
    SoloFiles,   \* the files of the repository
    SoloRuns,    \* the jobs
    MaxSoloEdits \* bound: edits by the user and by the tool

VARIABLES
    head,    \* the files as committed, in the repository and, detached, in
             \* each worktree
    trees,   \* the working trees: the user's, and one per job
    stashes, \* git's stack of stashes
    solo,    \* the jobs: their runs and manifests
    edits,   \* the number of the last edit
    mine,    \* history: the user's last uncommitted edit of each file
    exposed  \* history: files whose uncommitted edits a job may have touched

soloVars == <<head, trees, stashes, solo, edits, mine, exposed>>

Root == "root"

(* The names that are used besides the jobs' are no job's.                 *)
ASSUME SoloAssumption ==
    Root \notin SoloRuns /\ "nobody" \notin SoloRuns /\ MaxSoloEdits \in Nat

Places == {Root} \cup SoloRuns
Contents == 0 .. MaxSoloEdits
Clean == trees[Root] = head[Root]
NoPatch == [f \in {} |-> <<0, 0>>]

(* A job that was not begun.  "alone" is history: the tree was clean when  *)
(* it began and nobody but its tool edited it until its diff was taken.    *)
NoRun == [at |-> "away", status |-> "none", place |-> Root, stashed |-> FALSE,
          patch |-> NoPatch, base |-> [f \in SoloFiles |-> 0], alone |-> FALSE]

SoloInit ==
    /\ trees = [p \in Places |-> [f \in SoloFiles |-> 0]]
    /\ head = trees
    /\ stashes = <<>>
    /\ solo = [j \in SoloRuns |-> NoRun]
    /\ edits = 0
    /\ mine = [f \in SoloFiles |-> 0]
    /\ exposed = {}

DiffIn(place) ==
    [f \in {g \in SoloFiles : trees[place][g] # head[place][g]} |->
        <<head[place][f], trees[place][f]>>]

Running(j) == solo[j].at # "away"
Beside(but) == \E j \in SoloRuns : j # but /\ Running(j) /\ solo[j].place = Root
Disturbed(place, but) ==
    [j \in SoloRuns |-> IF j # but /\ Running(j) /\ solo[j].place = place
                        THEN [solo[j] EXCEPT !.alone = FALSE] ELSE solo[j]]

(* The user edits a file; a job under way there is not alone any more.     *)
UserEdits(f) ==
    /\ edits < MaxSoloEdits
    /\ edits' = edits + 1
    /\ trees' = [trees EXCEPT ![Root][f] = edits + 1]
    /\ mine' = [mine EXCEPT ![f] = edits + 1]
    /\ exposed' = IF Beside("nobody") THEN exposed \cup {f} ELSE exposed \ {f}
    /\ solo' = Disturbed(Root, "nobody")
    /\ UNCHANGED <<head, stashes>>

----------------------------------------------------------------------------
(* A run                                                                   *)

Started(j, place, stashed) ==
    [solo EXCEPT ![j] = [NoRun EXCEPT !.at = "run", !.status = "running",
        !.place = place, !.stashed = stashed,
        !.base = IF place = Root /\ ~stashed THEN trees[Root] ELSE head[Root],
        !.alone = (place = Root => stashed \/ Clean) /\
                  ~ \E k \in SoloRuns \ {j} : Running(k) /\ solo[k].place = place]]

(* Mutant: the tree need not be clean.                                     *)
RunAnyway(j) ==
    /\ solo[j].status = "none"
    /\ solo' = [Started(j, Root, FALSE) EXCEPT ![j].alone = TRUE]
    /\ UNCHANGED <<head, trees, stashes, edits, mine, exposed>>

(* assertCleanWorkingTree: otherwise the run is refused.                   *)
RunOnCleanTree(j) ==
    /\ solo[j].status = "none" /\ Clean
    /\ solo' = Started(j, Root, FALSE)
    /\ UNCHANGED <<head, trees, stashes, edits, mine, exposed>>

(* --allow-dirty, every continueSoloJob, and a run for which git status    *)
(* fails: readGitValue answers "" then, as for a clean tree.               *)
RunOnDirtyTree(j) ==
    /\ solo[j].status = "none"
    /\ solo' = Started(j, Root, FALSE)
    /\ exposed' = SoloFiles
    /\ UNCHANGED <<head, trees, stashes, edits, mine>>

(* --stash: git stash push, when there is something to push.               *)
RunOnStashedTree(j) ==
    /\ solo[j].status = "none" /\ ~Clean
    /\ stashes' = Append(stashes, DiffIn(Root))
    /\ trees' = [trees EXCEPT ![Root] = head[Root]]
    /\ solo' = [Disturbed(Root, j) EXCEPT ![j] = Started(j, Root, TRUE)[j]]
    /\ UNCHANGED <<head, edits, mine, exposed>>

(* --worktree: git worktree add --detach HEAD.                             *)
RunInWorktree(j) ==
    /\ solo[j].status = "none"
    /\ trees' = [trees EXCEPT ![j] = head[Root]]
    /\ head' = [head EXCEPT ![j] = head[Root]]
    /\ solo' = Started(j, j, FALSE)
    /\ UNCHANGED <<stashes, edits, mine, exposed>>

(* provider.execute: a file at a time.                                     *)
ToolEdits(j, f) ==
    /\ solo[j].at = "run" /\ edits < MaxSoloEdits
    /\ edits' = edits + 1
    /\ trees' = [trees EXCEPT ![solo[j].place][f] = edits + 1]
    /\ solo' = Disturbed(solo[j].place, j)
    /\ UNCHANGED <<head, stashes, mine, exposed>>

(* captureGitArtifacts: the difference to HEAD, whoever made it.           *)
CaptureDiff(j) ==
    /\ solo[j].at = "run"
    /\ solo' = [solo EXCEPT ![j].at = "guard", ![j].patch = DiffIn(solo[j].place)]
    /\ UNCHANGED <<head, trees, stashes, edits, mine, exposed>>

(* finishSoloJob: before the diff, for a tool that is not there; after it, *)
(* by the tool's result, the guards and the verification.                  *)
FinishRun(j) ==
    /\ solo[j].at \in {"run", "guard"}
    /\ \E status \in {"completed", "failed"} :
         /\ solo[j].at = "run" => status = "failed" /\ trees[solo[j].place] = solo[j].base
         /\ solo' = [solo EXCEPT ![j].status = status,
                        ![j].at = IF solo[j].stashed THEN "cleanup" ELSE "away"]
    /\ UNCHANGED <<head, trees, stashes, edits, mine, exposed>>

Top == stashes[Len(stashes)]
Popped == SubSeq(stashes, 1, Len(stashes) - 1)

(* The stash applies where the files are still those it was made upon.     *)
Applies(stash) == \A f \in DOMAIN stash : trees[Root][f] = stash[f][1]
Applied(stash) ==
    [trees EXCEPT ![Root] = [f \in SoloFiles |-> IF f \in DOMAIN stash THEN stash[f][2] ELSE @[f]]]

(* Mutant: the stash is dropped whether it applied or not.                 *)
DropStash(j) ==
    /\ solo[j].at = "cleanup"
    /\ IF stashes # <<>>
       THEN /\ stashes' = Popped
            /\ IF Applies(Top)
               THEN trees' = Applied(Top)
               ELSE UNCHANGED trees
       ELSE UNCHANGED <<stashes, trees>>
    /\ solo' = [Disturbed(Root, j) EXCEPT ![j].at = "away"]
    /\ exposed' = IF Beside(j) THEN SoloFiles ELSE exposed
    /\ UNCHANGED <<head, edits, mine>>

(* cleanup: git stash pop, of whatever stash is on top by now; one that    *)
(* does not apply stays.                                                   *)
PopStash(j) ==
    /\ solo[j].at = "cleanup"
    /\ IF stashes # <<>> /\ Applies(Top)
       THEN /\ stashes' = Popped
            /\ trees' = Applied(Top)
       ELSE UNCHANGED <<stashes, trees>>
    /\ solo' = [Disturbed(Root, j) EXCEPT ![j].at = "away"]
    /\ exposed' = IF Beside(j) THEN SoloFiles ELSE exposed
    /\ UNCHANGED <<head, edits, mine>>

(* The process dies: its stash stays, and the manifest, written in place,  *)
(* is what it was or cannot be read.                                       *)
RunDies(j) ==
    /\ Running(j)
    /\ \E status \in {solo[j].status, "torn"} :
         solo' = [solo EXCEPT ![j].at = "away", ![j].status = status]
    /\ UNCHANGED <<head, trees, stashes, edits, mine, exposed>>

----------------------------------------------------------------------------
(* Afterwards                                                              *)

Shown(j) == solo[j].status \notin {"none", "torn"}
Reverses(j) ==
    /\ solo[j].patch # NoPatch
    /\ \A f \in DOMAIN solo[j].patch : trees[solo[j].place][f] = solo[j].patch[f][2]

(* Mutant: the patch is forced upon the tree.                              *)
UndoForced(j) ==
    /\ Shown(j) /\ solo[j].patch # NoPatch
    /\ trees' = [trees EXCEPT ![solo[j].place] = [f \in SoloFiles |->
           IF f \in DOMAIN solo[j].patch THEN solo[j].patch[f][1] ELSE @[f]]]
    /\ solo' = [Disturbed(solo[j].place, j) EXCEPT ![j].status = "reverted"]
    /\ UNCHANGED <<head, stashes, edits, mine, exposed>>

(* undoSoloJob: git apply -R, of a job that may not be over; a patch that  *)
(* does not apply changes nothing.                                         *)
Undo(j) ==
    /\ Shown(j) /\ Reverses(j)
    /\ trees' = [trees EXCEPT ![solo[j].place] = [f \in SoloFiles |->
           IF f \in DOMAIN solo[j].patch THEN solo[j].patch[f][1] ELSE @[f]]]
    /\ solo' = [Disturbed(solo[j].place, j) EXCEPT ![j].status = "reverted"]
    /\ UNCHANGED <<head, stashes, edits, mine, exposed>>

(* commitSoloJob: the job's files as they are by now.                      *)
CommitJob(j) ==
    LET place == solo[j].place
        committed == [f \in SoloFiles |->
            IF f \in DOMAIN solo[j].patch THEN trees[place][f] ELSE head[place][f]]
    IN /\ Shown(j) /\ committed # head[place]
       /\ head' = [head EXCEPT ![place] = committed]
       /\ mine' = IF place # Root THEN mine
                  ELSE [f \in SoloFiles |-> IF committed[f] = mine[f] THEN 0 ELSE mine[f]]
       /\ solo' = Disturbed(place, j)
       /\ UNCHANGED <<trees, stashes, edits, exposed>>

SoloNext ==
    \/ \E f \in SoloFiles : UserEdits(f)
    \/ \E j \in SoloRuns :
         \/ RunOnCleanTree(j) \/ RunOnDirtyTree(j) \/ RunOnStashedTree(j) \/ RunInWorktree(j)
         \/ \E f \in SoloFiles : ToolEdits(j, f)
         \/ CaptureDiff(j) \/ FinishRun(j) \/ PopStash(j) \/ RunDies(j)
         \/ Undo(j) \/ CommitJob(j)

SoloSpec == SoloInit /\ [][SoloNext]_soloVars

----------------------------------------------------------------------------
(* Undoing a job that was alone in a clean tree leaves the files it        *)
(* touched as it found them and the others alone, whatever was stashed,    *)
(* unstashed, committed and run since (solo-runner.ts:301: "so job         *)
(* artifacts and undo remain isolated").                                   *)
UndoIsExact ==
    \A j \in SoloRuns :
        (solo[j].status # "reverted" /\ solo'[j].status = "reverted" /\ solo[j].alone) =>
            \A f \in SoloFiles :
                trees'[solo[j].place][f] =
                    IF f \in DOMAIN solo[j].patch THEN solo[j].base[f]
                    ELSE trees[solo[j].place][f]

(* What the user last edited and nobody committed is in the tree or in a   *)
(* stash, unless a job was let into the tree with it (asked for, or since  *)
(* git did not answer), or it got there (edited, or unstashed) while one   *)
(* ran: whatever runs, crashes, undos and commits there were.              *)
UserWorkIsKept ==
    \A f \in SoloFiles \ exposed :
        mine[f] # 0 =>
            \/ trees[Root][f] = mine[f]
            \/ \E i \in DOMAIN stashes : f \in DOMAIN stashes[i] /\ stashes[i][f][2] = mine[f]
=============================================================================
