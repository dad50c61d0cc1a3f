------------------------------- MODULE RunFiles -------------------------------
(* The directory of one run (core/artifact-persistence.ts): its iterations *)
(* with their files and manifests, its state file and its index.  The run  *)
(* writes them one after the other, dies at any point and is resumed from  *)
(* its state file, which does an iteration again in the directory that it  *)
(* has; "runs apply" of other processes (core/artifact-apply.ts) reads an  *)
(* iteration meanwhile and notes in the index that it was applied.         *)
EXTENDS Integers, Sequences, FiniteSets

CONSTANTS
    Iterations,     \* max_iterations
    Appliers,       \* processes that apply an iteration of the run
    MaxResumes      \* bounds how often the run is resumed

ASSUME RunFilesAssumption == Iterations \in Nat \ {0} /\ MaxResumes \in Nat

Artifacts == {"x", "y"}

VARIABLES
    written,      \* iteration -> the making of each of its files, and of its manifest
    stateFile,    \* run-state.json
    indexFile,    \* artifact-index.json
    applyEvents,  \* the events in apply-events
    writer,       \* the run's process
    resumes, makings,
    applier,      \* applier -> where it stands
    dirty,        \* iterations that were begun and whose manifest was not written since
    muddled,      \* an index that is newer was overwritten, or one was left torn
    since         \* the appliers that wrote the index after the run did

filesVars == <<written, stateFile, indexFile, applyEvents, writer, resumes, makings, applier, dirty, muddled, since>>

NoIndex == [applied |-> 0, torn |-> TRUE]
NoStateFile == [done |-> 0, torn |-> TRUE]
NoWriter == [at |-> "off", iteration |-> 0, making |-> 0, left |-> {}, then |-> "none"]
NoApplier == [at |-> "none", iteration |-> 0, making |-> 0, left |-> {}, took |-> {}, saw |-> NoIndex,
              clean |-> TRUE]

(* createArtifactState                                                     *)
FilesInit ==
    /\ written = [i \in 1 .. Iterations |-> [files |-> [f \in Artifacts |-> 0], manifest |-> 0]]
    /\ stateFile = NoStateFile /\ indexFile = NoIndex /\ applyEvents = {}
    /\ writer = [NoWriter EXCEPT !.at = "running"]
    /\ resumes = 0 /\ makings = 0
    /\ applier = [p \in Appliers |-> NoApplier]
    /\ dirty = {} /\ muddled = FALSE /\ since = {}

(* What is torn is not there (readJsonIfExists).                           *)
Known(i) == i.torn = FALSE

----------------------------------------------------------------------------
(* The run.                                                                *)

(* persistRoutingArtifacts, persistPlanArtifacts, persistContextArtifacts: *)
(* what a run and a resumed run note before their iterations, each in a    *)
(* step's directory of its own, and then in the index.                     *)
Checkpoint ==
    /\ writer.at = "running" /\ writer.making = 0
    /\ writer' = [writer EXCEPT !.at = "index", !.then = "running"]
    /\ UNCHANGED <<written, stateFile, indexFile, applyEvents, resumes, makings, applier, dirty, muddled, since>>

(* persistIterationArtifacts: the files first.                             *)
BeginIteration ==
    /\ writer.at = "running" /\ writer.iteration < Iterations
    /\ makings' = makings + 1
    /\ writer' = [writer EXCEPT !.at = "files", !.iteration = @ + 1, !.making = makings', !.left = Artifacts]
    /\ dirty' = dirty \cup {writer'.iteration}
    /\ applier' = [p \in Appliers |->
                     [applier[p] EXCEPT !.clean = @ /\ applier[p].iteration # writer'.iteration]]
    /\ UNCHANGED <<written, stateFile, indexFile, applyEvents, resumes, muddled, since>>

WriteFile(f) ==
    /\ writer.at = "files" /\ f \in writer.left
    /\ written' = [written EXCEPT ![writer.iteration].files[f] = writer.making]
    /\ writer' = [writer EXCEPT !.left = @ \ {f}]
    /\ UNCHANGED <<stateFile, indexFile, applyEvents, resumes, makings, applier, dirty, muddled, since>>

(* Then the manifest, which says what is in it.                            *)
(* Mutant: it is written before the last file.                             *)
WriteManifestEarly ==
    /\ writer.at = "files" /\ Cardinality(writer.left) <= 1
    /\ written' = [written EXCEPT ![writer.iteration].manifest = writer.making]
    /\ writer' = [writer EXCEPT !.at = "index", !.left = {}, !.then = "running"]
    /\ dirty' = dirty \ {writer.iteration}
    /\ UNCHANGED <<stateFile, indexFile, applyEvents, resumes, makings, applier, muddled, since>>

WriteManifest ==
    /\ writer.at = "files" /\ writer.left = {}
    /\ written' = [written EXCEPT ![writer.iteration].manifest = writer.making]
    /\ writer' = [writer EXCEPT !.at = "index", !.then = "running"]
    /\ dirty' = dirty \ {writer.iteration}
    /\ UNCHANGED <<stateFile, indexFile, applyEvents, resumes, makings, applier, muddled, since>>

(* writeArtifactIndex: what was applied is not carried over.               *)
WriteIndex ==
    /\ writer.at = "index"
    /\ indexFile' = [applied |-> 0, torn |-> FALSE]
    /\ writer' = [writer EXCEPT !.at = writer.then]
    /\ since' = {}
    /\ muddled' = \E p \in Appliers : applier[p].at = "counting"
    /\ UNCHANGED <<written, stateFile, applyEvents, resumes, makings, applier, dirty>>

(* persistRunState: when the run pauses or ends; then the index.           *)
SaveState ==
    /\ writer.at = "running"
    /\ stateFile' = [done |-> writer.iteration, torn |-> FALSE]
    /\ writer' = [writer EXCEPT !.at = "index", !.then = "off"]
    /\ UNCHANGED <<written, indexFile, applyEvents, resumes, makings, applier, dirty, muddled, since>>

(* The process dies: what it was writing may be half there.                *)
WriterDies ==
    /\ writer.at # "off"
    /\ writer' = NoWriter
    /\ \/ UNCHANGED <<written, stateFile, indexFile, muddled>>
       \/ /\ writer.at = "files" /\ writer.left = {}
          /\ written' = [written EXCEPT ![writer.iteration].manifest = 0]
          /\ UNCHANGED <<stateFile, indexFile, muddled>>
       \/ /\ writer.at = "index" /\ indexFile' = NoIndex /\ muddled' = TRUE /\ UNCHANGED <<written, stateFile>>
       \/ /\ writer.at = "running"
          /\ stateFile' = NoStateFile /\ UNCHANGED <<written, indexFile, muddled>>
    /\ UNCHANGED <<applyEvents, resumes, makings, applier, dirty, since>>

(* restoreArtifactState: the next iteration, or the last one once more.    *)
ResumeFiles ==
    /\ writer.at = "off" /\ Known(stateFile) /\ resumes < MaxResumes
    /\ resumes' = resumes + 1
    /\ \E last \in {stateFile.done - 1, stateFile.done} \cap Nat :
         writer' = [NoWriter EXCEPT !.at = "running", !.iteration = last]
    /\ UNCHANGED <<written, stateFile, indexFile, applyEvents, makings, applier, dirty, muddled, since>>

----------------------------------------------------------------------------
(* Those who apply.                                                        *)

(* loadArtifactCandidate: the manifest of the last iteration that the      *)
(* state file names, or of one that is given.                              *)
ReadManifest(p) ==
    /\ applier[p].at = "none"
    /\ \E i \in 1 .. Iterations :
         /\ written[i].manifest # 0
         /\ applier' = [applier EXCEPT ![p] = [@ EXCEPT !.at = "reading", !.iteration = i, !.left = Artifacts,
                          !.making = written[i].manifest, !.clean = i \notin dirty]]
    /\ UNCHANGED <<written, stateFile, indexFile, applyEvents, writer, resumes, makings, dirty, muddled, since>>

ReadFile(p, f) ==
    /\ applier[p].at = "reading" /\ f \in applier[p].left
    /\ applier' = [applier EXCEPT ![p].left = @ \ {f}, ![p].took = @ \cup {written[applier[p].iteration].files[f]}]
    /\ UNCHANGED <<written, stateFile, indexFile, applyEvents, writer, resumes, makings, dirty, muddled, since>>

(* applyArtifactCandidate writes them; persistApplyEvent reads the index.  *)
ReadIndex(p) ==
    /\ applier[p].at = "reading" /\ applier[p].left = {}
    /\ applier' = [applier EXCEPT ![p] = [@ EXCEPT !.at = "counting", !.saw = indexFile]]
    /\ UNCHANGED <<written, stateFile, indexFile, applyEvents, writer, resumes, makings, dirty, muddled, since>>

(* persistApplyEvent: the event, and the index with one more.              *)
CountApply(p) ==
    LET saw == applier[p].saw
    IN /\ applier[p].at = "counting"
       /\ applyEvents' = applyEvents \cup {p}
       /\ indexFile' = [applied |-> (IF Known(saw) THEN saw.applied ELSE 0) + 1, torn |-> FALSE]
       /\ applier' = [applier EXCEPT ![p].at = "done"]
       /\ muddled' = (muddled \/ \E q \in Appliers \ {p} : applier[q].at = "counting")
       /\ since' = since \cup {p}
       /\ UNCHANGED <<written, stateFile, writer, resumes, makings, dirty>>

FilesNext ==
    \/ Checkpoint \/ BeginIteration \/ (\E f \in Artifacts : WriteFile(f)) \/ WriteManifest \/ WriteIndex
    \/ SaveState \/ WriterDies \/ ResumeFiles
    \/ \E p \in Appliers :
         ReadManifest(p) \/ (\E f \in Artifacts : ReadFile(p, f)) \/ ReadIndex(p) \/ CountApply(p)

FilesSpec == FilesInit /\ [][FilesNext]_filesVars

----------------------------------------------------------------------------
(* What is applied is what one making of an iteration left, and the one    *)
(* that the manifest tells of, its issues and its task, unless the files   *)
(* were rewritten under the manifest: by an iteration that is done again,  *)
(* now or before the run died in it.                                       *)
AppliedIsWhole ==
    \A p \in Appliers :
        (applier[p].at \in {"counting", "done"} /\ applier[p].clean) => applier[p].took = {applier[p].making}

(* A manifest tells of files that are all there, whenever the run died.    *)
ManifestIsLast ==
    \A i \in 1 .. Iterations :
        written[i].manifest # 0 =>
            /\ \A f \in Artifacts : written[i].files[f] >= written[i].manifest
            /\ i \notin dirty => \A f \in Artifacts : written[i].files[f] = written[i].manifest

(* The index counts each time that the run was applied since the run wrote *)
(* it, unless two processes wrote it over each other, and never more.      *)
AppliesAreCounted ==
    /\ indexFile.applied <= Cardinality(applyEvents)
    /\ ~muddled => indexFile.applied = Cardinality(since)

(* What a reader of a run's directory can rely on.                         *)
RunIsReadable == AppliedIsWhole /\ ManifestIsLast /\ AppliesAreCounted
=============================================================================
