------------------------ MODULE WorkerExecutionProofs ------------------------
(* What a job can rely on from the workers that execute it, for any number *)
(* of workers, workspace roots, phases and attempts.  Each attempt is      *)
(* sound by itself; what one does to the files leaves the others sound,    *)
(* and as long as attempts do not overlap there is no other.               *)
EXTENDS WorkerExecution, FiniteSetTheorems, WellFoundedInduction

(* Where an attempt has its plan, and where it has a worktree.             *)
Planned == {"mark_phases", "loop", "execute", "pack", "done", "undone"}
Housed == Planned \cup {"mark", "open", "probe", "load", "throw", "guards", "close"}

AttemptType ==
    [pc : Housed \cup {"off", "prepare", "report"},
     lease : 0 .. MaxClaims, root : Roots, phases : PhaseFiles,
     index : 1 .. PhaseCount + 1, aborted : BOOLEAN, ok : BOOLEAN]

(* A plan is worked off in its order.                                      *)
Ordered(phases) ==
    \A p, q \in Phases : p < q /\ phases[q] # "pending" => phases[p] = "completed"

WorkedUpTo(phases, index) ==
    \A p \in Phases : /\ p < index => phases[p] = "completed"
                      /\ p > index => phases[p] = "pending"
                      /\ p = index => phases[p] # "completed"

PlanIsOrdered(a) ==
    a.pc \in Planned => /\ WorkedUpTo(a.phases, a.index)
                        /\ a.pc \notin {"mark_phases", "loop"} => a.index \in Phases

PackIsSaved(a) ==
    task.setup => /\ a.phases[1] = "completed" => dir.pack
                  /\ a.pc = "done" /\ a.index = 1 => dir.pack

(* Who may write to a worktree was acknowledged to.                        *)
WriterIsKnown(a) ==
    ~task.dryRun /\ ~past.recovered /\ a.pc \in {"loop", "execute", "pack", "done"} => lease.mutated

(* An attempt that is alone has a worktree, and its plan is in the file.   *)
FilesAreFound(a) ==
    /\ a.pc \in Housed => tree[a.root].exists
    /\ a.pc \notin {"off", "prepare"} => a.root \in past.roots
    /\ a.pc \in Planned => dir.state = a.phases

VerdictIsRight == dir.verdict = IF task.dryRun THEN "none" ELSE "passed"
OneRoot == \A r, q \in past.roots : r = q

(* And when all attempts used one root, what it says was done is there.    *)
WorkIsThere(a) ==
    OneRoot =>
        /\ a.pc \in {"pack", "done"} => a.index \in tree[a.root].work
        /\ a.pc = "guards" => tree[a.root].work = Phases
        /\ a.pc \in {"close", "report"} /\ a.ok => tree[a.root].work = Phases /\ VerdictIsRight
        /\ a.pc = "report" /\ a.ok => dir.manifest = "completed"

AttemptIsSound(a) ==
    /\ PlanIsOrdered(a) /\ PackIsSaved(a) /\ WriterIsKnown(a)
    /\ ~past.overlap => FilesAreFound(a) /\ WorkIsThere(a)

(* What is shared by the attempts: the lease, the files and the worktrees. *)
FilesAreOrdered ==
    /\ IsFiniteSet(past.roots)
    /\ task.dryRun => dir.verdict = "none"
    /\ dir.state \in PhaseFiles => Ordered(dir.state)

WritesAreKnown ==
    (~task.dryRun /\ ~past.recovered) =>
        /\ lease.mutated => lease.status # "queued"
        /\ \A r \in Roots : tree[r].work # {} => lease.mutated

FilesTellTheWork ==
    ~past.overlap =>
        /\ dir.state # Absent => \E r \in past.roots : tree[r].exists
        /\ OneRoot =>
             /\ \A r \in past.roots, p \in Phases : dir.state[p] = "completed" => p \in tree[r].work
             /\ lease.status = "completed" =>
                  /\ \A r \in past.roots : tree[r].work = Phases
                  /\ VerdictIsRight
                  /\ dir.manifest = "completed"

FilesAreSound == FilesAreOrdered /\ PackIsKept /\ WritesAreKnown /\ FilesTellTheWork

OneAtATime ==
    ~past.overlap =>
        /\ \A v, w \in Executors : att[v].pc # "off" /\ att[w].pc # "off" => v = w
        /\ lease.status = "completed" => \A w \in Executors : att[w].pc = "off"

ExecInv ==
    /\ ExecTypeOK
    /\ FilesAreSound
    /\ \A w \in Executors : AttemptIsSound(att[w])
    /\ OneAtATime

----------------------------------------------------------------------------
LEMMA PhasesAreNumbers ==
  /\ Phases \subseteq Nat /\ 1 \in Phases /\ PhaseCount \in Nat /\ 1 \in 1 .. PhaseCount + 1
  /\ Phases \subseteq 1 .. PhaseCount + 1
  BY ExecutionAssumption DEF Phases

LEMMA PlansDiffer ==
  /\ FreshPlan \in PhaseFiles /\ Ordered(FreshPlan) /\ Absent # Torn
  /\ Absent \notin PhaseFiles /\ Torn \notin PhaseFiles
  /\ \A p \in Phases : FreshPlan[p] = "pending" /\ Absent[p] # "completed" /\ Torn[p] # "completed"
  <1>1. FreshPlan \in PhaseFiles /\ Ordered(FreshPlan)
    BY DEF FreshPlan, PhaseFiles, PhaseStatus, Ordered
  <1>2. Absent[1] = "absent" /\ Torn[1] = "torn"
    BY PhasesAreNumbers DEF Absent, Torn
  <1>3. \A ph \in PhaseFiles : ph[1] \notin {"absent", "torn"}
    BY PhasesAreNumbers DEF PhaseFiles, PhaseStatus
  <1>4. \A p \in Phases : FreshPlan[p] = "pending" /\ Absent[p] # "completed" /\ Torn[p] # "completed"
    BY DEF FreshPlan, Absent, Torn
  <1>5. QED
    BY <1>1, <1>2, <1>3, <1>4

(* The naturals are well founded, so some numbers have a least one.        *)
LEMMA LeastNumber ==
  ASSUME NEW S \in SUBSET Nat, S # {}
  PROVE  \E p \in S : \A q \in S : p <= q
  <1> DEFINE less == OpToRel(<, Nat)
  <1>1. less = {ss \in Nat \X Nat : ss[1] < ss[2]}
    BY Zenon DEF OpToRel
  <1>2. IsWellFoundedOn(less, Nat)
    BY Zenon, NatLessThanWellFounded
  <1> HIDE DEF less
  <1>3. PICK p \in S : \A q \in S : ~(<<q, p>> \in less)
    BY Zenon, <1>2, WFMin
  <1>4. \A q \in S : p <= q
    <2>1. ASSUME NEW q \in S PROVE p <= q
      <3>1. <<q, p>> \notin {ss \in Nat \X Nat : ss[1] < ss[2]}
        BY Zenon, <1>1, <1>3
      <3>2. ~(q < p)
        BY <3>1
      <3>3. QED
        BY <3>2
    <2>2. QED
      BY <2>1
  <1>5. QED
    BY <1>4

(* The first of some phases.                                               *)
LEMMA FirstPhase ==
  ASSUME NEW S \in SUBSET Phases, S # {}
  PROVE  \E p \in S : \A q \in 1 .. p - 1 : q \notin S
  <1>1. S \in SUBSET Nat
    BY PhasesAreNumbers
  <1>2. PICK p \in S : \A q \in S : p <= q
    BY <1>1, LeastNumber
  <1>3. \A q \in 1 .. p - 1 : q \notin S
    BY <1>1, <1>2
  <1>4. QED
    BY <1>3

(* getWorkerTaskPhaseResumeIndex: what comes before it is done, and        *)
(* nothing after it was begun.                                             *)
LEMMA ResumeIndexIsRight ==
  ASSUME NEW ph \in PhaseFiles, Ordered(ph)
  PROVE  ResumeIndex(ph) \in 1 .. PhaseCount + 1 /\ WorkedUpTo(ph, ResumeIndex(ph))
  <1> DEFINE i == ResumeIndex(ph)
  <1>1. CASE \E p \in Phases : ph[p] = "running"
    <2>1. \E p \in Phases : ph[p] = "running" /\ \A q \in 1 .. p - 1 : ph[q] # "running"
      <3>1. PICK p \in {p \in Phases : ph[p] = "running"} :
               \A q \in 1 .. p - 1 : q \notin {r \in Phases : ph[r] = "running"}
        BY <1>1, FirstPhase
      <3>2. 1 .. p - 1 \subseteq Phases
        BY PhasesAreNumbers DEF Phases
      <3>3. QED
        BY <3>1, <3>2
    <2>2. i \in Phases /\ ph[i] = "running"
      BY <1>1, <2>1 DEF ResumeIndex
    <2>3. QED
      BY <2>2, PhasesAreNumbers DEF WorkedUpTo, Ordered
  <1>2. CASE \A p \in Phases : ph[p] = "completed"
    <2>1. i = PhaseCount + 1
      BY <1>2 DEF ResumeIndex
    <2>2. QED
      BY <1>2, <2>1, PhasesAreNumbers DEF WorkedUpTo, Phases
  <1>3. CASE ~(\E p \in Phases : ph[p] = "running") /\ ~(\A p \in Phases : ph[p] = "completed")
    <2>1. \E p \in Phases : ph[p] # "completed" /\ \A q \in 1 .. p - 1 : ph[q] = "completed"
      <3>1. PICK p \in {p \in Phases : ph[p] # "completed"} :
               \A q \in 1 .. p - 1 : q \notin {r \in Phases : ph[r] # "completed"}
        BY <1>3, FirstPhase
      <3>2. 1 .. p - 1 \subseteq Phases
        BY PhasesAreNumbers DEF Phases
      <3>3. QED
        BY <3>1, <3>2
    <2>2. i \in Phases /\ ph[i] # "completed" /\ \A q \in 1 .. i - 1 : ph[q] = "completed"
      BY <1>3, <2>1 DEF ResumeIndex
    <2>3. QED
      BY <2>2, PhasesAreNumbers DEF WorkedUpTo, Ordered, Phases
  <1>4. QED
    BY <1>1, <1>2, <1>3

(* A plan that is worked off up to a phase is ordered, whatever becomes of *)
(* that phase.                                                             *)
LEMMA SavedPlanIsOrdered ==
  ASSUME NEW ph \in PhaseFiles, NEW i \in Phases, WorkedUpTo(ph, i), NEW status \in PhaseStatus
  PROVE  /\ [ph EXCEPT ![i] = status] \in PhaseFiles
         /\ Ordered([ph EXCEPT ![i] = status])
         /\ status # "completed" => WorkedUpTo([ph EXCEPT ![i] = status], i)
  BY PhasesAreNumbers DEF PhaseFiles, WorkedUpTo, Ordered

LEMMA ExecInitInv == ExecInit => ExecInv
  <1> SUFFICES ASSUME ExecInit PROVE ExecInv
    OBVIOUS
  <1>1. PICK r \in Roots : att = [w \in Executors |-> NoAttempt(r)]
    BY DEF ExecInit
  <1>2. NoAttempt(r) \in AttemptType
    BY PlansDiffer, PhasesAreNumbers, ExecutionAssumption DEF NoAttempt, AttemptType
  <1>3. ExecTypeOK
    BY <1>1, <1>2, ExecutionAssumption DEF ExecInit, ExecTypeOK, AttemptType, Housed, Planned
  <1>4. FilesAreSound
    BY PlansDiffer, PhasesAreNumbers, FS_EmptySet
    DEF ExecInit, FilesAreSound, FilesAreOrdered, PackIsKept, WritesAreKnown, FilesTellTheWork
  <1>5. \A w \in Executors : att[w].pc = "off" /\ att[w].phases = FreshPlan
    BY <1>1 DEF NoAttempt
  <1>6. \A w \in Executors : AttemptIsSound(att[w])
    BY <1>5, PlansDiffer, PhasesAreNumbers
    DEF AttemptIsSound, PlanIsOrdered, PackIsSaved, WriterIsKnown, FilesAreFound, WorkIsThere, Housed, Planned
  <1>7. QED
    BY <1>3, <1>4, <1>5, <1>6 DEF ExecInv, OneAtATime

(* An attempt takes a step.  The others may only rely on what it cannot    *)
(* take away: the pack, and the acknowledgement.                           *)
LEMMA AttemptMoves ==
  ASSUME ExecInv, NEW w \in Executors, att[w].pc # "off",
         ExecTypeOK', \A v \in Executors \ {w} : att'[v] = att[v],
         UNCHANGED <<task, past.overlap, past.recovered>>,
         dir.pack => dir'.pack, lease.mutated => lease'.mutated,
         ~past.overlap /\ lease'.status = "completed" => att'[w].pc = "off",
         FilesAreSound', AttemptIsSound(att[w])'
  PROVE  ExecInv'
  <1>1. ~past.overlap => \A v \in Executors \ {w} : att[v].pc = "off"
    BY DEF ExecInv, OneAtATime
  <1>2. OneAtATime'
    BY <1>1 DEF OneAtATime
  <1>3. ASSUME NEW v \in Executors \ {w} PROVE AttemptIsSound(att[v])'
    <2>1. AttemptIsSound(att[v]) /\ att'[v] = att[v]
      BY DEF ExecInv
    <2>2. PlanIsOrdered(att[v])' /\ PackIsSaved(att[v])' /\ WriterIsKnown(att[v])'
      BY <2>1 DEF AttemptIsSound, PlanIsOrdered, PackIsSaved, WriterIsKnown
    <2>3. ~past.overlap' => FilesAreFound(att[v])' /\ WorkIsThere(att[v])'
      BY <1>1, <2>1 DEF FilesAreFound, WorkIsThere, Housed, Planned
    <2>4. QED
      BY <2>2, <2>3 DEF AttemptIsSound
  <1>4. QED
    BY <1>2, <1>3 DEF ExecInv

----------------------------------------------------------------------------
(* The steps of an attempt, by what they change.                           *)

LEMMA AttemptHasType == ExecInv =>
  /\ att \in [Executors -> AttemptType]
  /\ task \in [dryRun : BOOLEAN, setup : BOOLEAN]
  /\ lease \in [status : {"queued", "running", "stalled", "completed", "failed"},
                number : 0 .. MaxClaims, mutated : BOOLEAN]
  /\ dir \in [state : PhaseFiles \cup {Absent, Torn}, pack : BOOLEAN,
              manifest : {"none", "torn", "running", "completed", "failed"},
              verdict : {"none", "passed", "failed"}]
  /\ tree \in [Roots -> [exists : BOOLEAN, registered : BOOLEAN, work : SUBSET Phases]]
  /\ past \in [roots : SUBSET Roots, overlap : BOOLEAN, recovered : BOOLEAN]
  BY DEF ExecInv, ExecTypeOK, AttemptType, Housed, Planned

LEMMA TypeFromParts ==
  ASSUME ExecInv, UNCHANGED task, att' \in [Executors -> AttemptType],
         lease' = lease \/ lease' \in [status : {"queued", "running", "stalled", "completed", "failed"},
                                       number : 0 .. MaxClaims, mutated : BOOLEAN],
         dir' = dir \/ dir' \in [state : PhaseFiles \cup {Absent, Torn}, pack : BOOLEAN,
                                 manifest : {"none", "torn", "running", "completed", "failed"},
                                 verdict : {"none", "passed", "failed"}],
         tree' = tree \/ tree' \in [Roots -> [exists : BOOLEAN, registered : BOOLEAN, work : SUBSET Phases]],
         past' = past \/ past' \in [roots : SUBSET Roots, overlap : BOOLEAN, recovered : BOOLEAN]
  PROVE  ExecTypeOK'
  BY DEF ExecInv, ExecTypeOK, AttemptType, Housed, Planned

(* An attempt moves on, and leaves the lease, the files and the worktrees  *)
(* alone.                                                                  *)
LEMMA AttemptMovesAlone ==
  ASSUME ExecInv, NEW w \in Executors, att[w].pc # "off", NEW new \in AttemptType,
         att' = [att EXCEPT ![w] = new], UNCHANGED <<task, lease, dir, tree, past>>,
         AttemptIsSound(new)
  PROVE  ExecInv'
  <1>1. att \in [Executors -> AttemptType]
    BY AttemptHasType
  <1>2. att' \in [Executors -> AttemptType] /\ att'[w] = new /\ \A v \in Executors \ {w} : att'[v] = att[v]
    BY <1>1
  <1>3. ExecTypeOK'
    BY <1>2, TypeFromParts
  <1>4. FilesAreSound'
    BY DEF ExecInv, FilesAreSound, FilesAreOrdered, PackIsKept, WritesAreKnown, FilesTellTheWork, OneRoot,
           VerdictIsRight
  <1>5. AttemptIsSound(att[w])'
    BY <1>2 DEF AttemptIsSound, PlanIsOrdered, PackIsSaved, WriterIsKnown, FilesAreFound, WorkIsThere, OneRoot,
                VerdictIsRight
  <1>6. ~past.overlap => lease.status # "completed"
    BY DEF ExecInv, OneAtATime
  <1>7. QED
    BY <1>2, <1>3, <1>4, <1>5, <1>6, AttemptMoves

(* It is sound by itself to end, to give up, or to go where nothing is     *)
(* asked that it has not got.                                              *)
LEMMA SoundToGoOn ==
  ASSUME ExecInv, NEW w \in Executors, att[w].pc # "off",
         NEW new \in AttemptType, new.root = att[w].root, new.phases = att[w].phases, new.index = att[w].index,
         \/ new.pc = "report" /\ ~new.ok /\ att[w].pc # "prepare"
         \/ new.pc = "close" /\ ~new.ok /\ att[w].pc \in Housed
         \/ new.pc \in {"load", "throw"} /\ att[w].pc \in Housed
         \/ new.pc = att[w].pc /\ new.ok = att[w].ok
  PROVE  AttemptIsSound(new)
  <1>1. AttemptIsSound(att[w])
    BY DEF ExecInv
  <1>2. QED
    BY <1>1 DEF AttemptIsSound, PlanIsOrdered, PackIsSaved, WriterIsKnown, FilesAreFound, WorkIsThere, Housed,
                Planned

LEMMA SoundToBeOff ==
  ASSUME NEW r \in Roots
  PROVE  NoAttempt(r) \in AttemptType /\ NoAttempt(r).pc = "off" /\ AttemptIsSound(NoAttempt(r))
  <1>1. NoAttempt(r) \in AttemptType /\ NoAttempt(r).pc = "off" /\ NoAttempt(r).phases = FreshPlan
    BY PlansDiffer, PhasesAreNumbers, ExecutionAssumption DEF NoAttempt, AttemptType
  <1>2. QED
    BY <1>1, PlansDiffer, PhasesAreNumbers
    DEF AttemptIsSound, PlanIsOrdered, PackIsSaved, WriterIsKnown, FilesAreFound, WorkIsThere, Housed, Planned

(* The steps that change nothing but where the attempt stands.             *)
LEMMA QuietSteps ==
  ASSUME ExecInv, NEW w \in Executors,
         AbortSignal(w) \/ ProbeProvider(w) \/ ManifestThrows(w) \/ Throw(w)
  PROVE  ExecInv'
  <1>t. att \in [Executors -> AttemptType] /\ att[w] \in AttemptType
    BY AttemptHasType
  <1>1. ASSUME NEW new \in AttemptType, new.root = att[w].root, new.phases = att[w].phases,
               new.index = att[w].index, att[w].pc # "off", att' = [att EXCEPT ![w] = new],
               UNCHANGED <<task, lease, dir, tree, past>>,
               \/ new.pc = "report" /\ ~new.ok /\ att[w].pc # "prepare"
               \/ new.pc = "close" /\ ~new.ok /\ att[w].pc \in Housed
               \/ new.pc \in {"load", "throw"} /\ att[w].pc \in Housed
               \/ new.pc = att[w].pc /\ new.ok = att[w].ok
        PROVE  ExecInv'
    BY <1>1, SoundToGoOn, AttemptMovesAlone
  <1>2. CASE AbortSignal(w)
    <2> DEFINE new == [att[w] EXCEPT !.aborted = TRUE]
    <2>1. new \in AttemptType /\ new.root = att[w].root /\ new.phases = att[w].phases
          /\ new.index = att[w].index /\ new.pc = att[w].pc /\ new.ok = att[w].ok
      BY <1>t DEF AttemptType
    <2>2. att' = [att EXCEPT ![w] = new] /\ UNCHANGED <<task, lease, dir, tree, past>> /\ att[w].pc # "off"
      BY <1>2 DEF AbortSignal
    <2> HIDE DEF new
    <2>3. QED
      BY <1>1, <2>1, <2>2
  <1>3. CASE ProbeProvider(w) /\ Go(w, "load")
    <2> DEFINE new == [att[w] EXCEPT !.pc = "load"]
    <2>1. new \in AttemptType /\ new.root = att[w].root /\ new.phases = att[w].phases
          /\ new.index = att[w].index /\ new.pc = "load"
      BY <1>t DEF AttemptType, Housed
    <2>2. att' = [att EXCEPT ![w] = new] /\ UNCHANGED <<task, lease, dir, tree, past>> /\ att[w].pc = "probe"
      BY <1>3 DEF ProbeProvider, Go
    <2> HIDE DEF new
    <2>3. QED
      BY <1>1, <2>1, <2>2 DEF Housed
  <1>4. CASE ProbeProvider(w) /\ Close(w, FALSE)
    <2> DEFINE new == [att[w] EXCEPT !.pc = "close", !.ok = FALSE]
    <2>1. new \in AttemptType /\ new.root = att[w].root /\ new.phases = att[w].phases
          /\ new.index = att[w].index /\ new.pc = "close" /\ ~new.ok
      BY <1>t DEF AttemptType, Housed
    <2>2. att' = [att EXCEPT ![w] = new] /\ UNCHANGED <<task, lease, dir, tree, past>> /\ att[w].pc = "probe"
      BY <1>4 DEF ProbeProvider, Close
    <2> HIDE DEF new
    <2>3. QED
      BY <1>1, <2>1, <2>2 DEF Housed
  <1>5. CASE ManifestThrows(w) \/ Throw(w)
    <2> DEFINE new == [att[w] EXCEPT !.pc = "report", !.ok = FALSE]
    <2>1. new \in AttemptType /\ new.root = att[w].root /\ new.phases = att[w].phases
          /\ new.index = att[w].index /\ new.pc = "report" /\ ~new.ok
      BY <1>t DEF AttemptType
    <2>2. att' = [att EXCEPT ![w] = new] /\ UNCHANGED <<task, lease, dir, tree, past>>
          /\ att[w].pc \notin {"off", "prepare"}
      BY <1>5 DEF ManifestThrows, Throw, ReportFailure
    <2> HIDE DEF new
    <2>3. QED
      BY <1>1, <2>1, <2>2
  <1>6. QED
    BY <1>2, <1>3, <1>4, <1>5 DEF ProbeProvider

(* What a step must show: the types of what it changes, and that the files *)
(* and the attempt are sound.                                              *)
LEMMA AttemptStepsOn ==
  ASSUME ExecInv, NEW w \in Executors, NEW new \in AttemptType, att[w].pc # "off",
         att' = [att EXCEPT ![w] = new], ExecTypeOK',
         UNCHANGED <<task, past.overlap, past.recovered>>,
         dir.pack => dir'.pack, lease.mutated => lease'.mutated,
         lease'.status = "completed" => lease.status = "completed" \/ new.pc = "off",
         FilesAreSound', AttemptIsSound(att[w])'
  PROVE  ExecInv'
  <1>1. att \in [Executors -> AttemptType]
    BY AttemptHasType
  <1>2. att'[w] = new /\ \A v \in Executors \ {w} : att'[v] = att[v]
    BY <1>1
  <1>3. ~past.overlap => lease.status # "completed"
    BY DEF ExecInv, OneAtATime
  <1>4. QED
    BY <1>2, <1>3, AttemptMoves

(* prepareWorkerWorktree: a state file has its worktree, in one of the     *)
(* roots; if there was one root only, it is in this one and is kept.       *)
LEMMA PrepareStep ==
  ASSUME ExecInv, NEW w \in Executors, PrepareWorktree(w)
  PROVE  ExecInv'
  <1> DEFINE a == att[w]
             r == att[w].root
             kept == dir.state # Absent /\ tree[r].exists
             pc == IF kept \/ ~tree[r].registered THEN "mark" ELSE "report"
             new == [att[w] EXCEPT !.pc = pc, !.ok = IF pc = "report" THEN FALSE ELSE @]
  <1>t. /\ att \in [Executors -> AttemptType] /\ a \in AttemptType /\ r \in Roots
        /\ tree \in [Roots -> [exists : BOOLEAN, registered : BOOLEAN, work : SUBSET Phases]]
        /\ past \in [roots : SUBSET Roots, overlap : BOOLEAN, recovered : BOOLEAN]
    BY AttemptHasType DEF AttemptType
  <1>1. new \in AttemptType /\ new.root = r /\ new.pc = pc /\ new.phases = a.phases /\ new.index = a.index
        /\ (pc = "report" => ~new.ok)
    BY <1>t DEF AttemptType, Housed
  <1>2. a.pc = "prepare" /\ UNCHANGED <<task, lease, dir>>
    BY DEF PrepareWorktree
  <1>3. att' = [att EXCEPT ![w] = new]
    BY <1>t DEF PrepareWorktree, Go, ReportFailure, AttemptType
  <1>4. past'.roots = past.roots \cup {r} /\ past'.overlap = past.overlap /\ past'.recovered = past.recovered
        /\ past' \in [roots : SUBSET Roots, overlap : BOOLEAN, recovered : BOOLEAN]
    BY <1>t DEF PrepareWorktree
  <1>5. /\ tree' \in [Roots -> [exists : BOOLEAN, registered : BOOLEAN, work : SUBSET Phases]]
        /\ \A q \in Roots \ {r} : tree'[q] = tree[q]
        /\ kept => tree' = tree
        /\ ~kept => tree'[r].work = {}
        /\ pc = "mark" => tree'[r].exists
    <2>1. kept => tree' = tree
      BY DEF PrepareWorktree
    <2>2. ~kept => tree' = [tree EXCEPT ![r] = [exists |-> ~tree[r].registered, registered |-> TRUE, work |-> {}]]
      BY DEF PrepareWorktree
    <2>3. CASE kept
      BY <1>t, <2>1, <2>3
    <2>4. CASE ~kept
      <3> DEFINE fresh == ~tree[r].registered
      <3>1. fresh \in BOOLEAN /\ (pc = "mark" => fresh)
        BY <2>4
      <3>2. tree' = [tree EXCEPT ![r] = [exists |-> fresh, registered |-> TRUE, work |-> {}]]
        BY <2>2, <2>4
      <3> HIDE DEF fresh, pc
      <3>3. /\ tree' \in [Roots -> [exists : BOOLEAN, registered : BOOLEAN, work : SUBSET Phases]]
            /\ \A q \in Roots \ {r} : tree'[q] = tree[q]
            /\ tree'[r].work = {} /\ tree'[r].exists = fresh
        BY <1>t, <3>1, <3>2
      <3> HIDE DEF kept
      <3>4. QED
        BY <2>4, <3>1, <3>3
    <2>5. QED
      BY <2>3, <2>4
  <1> HIDE DEF new
  <1>6. att' \in [Executors -> AttemptType] /\ att'[w] = new
    BY <1>1, <1>3, <1>t
  <1>7. ExecTypeOK'
    BY <1>2, <1>4, <1>5, <1>6, TypeFromParts
  <1>8. ~past.overlap => lease.status # "completed"
    BY <1>2 DEF ExecInv, OneAtATime
  <1>9. FilesAreSound'
    <2>0. FilesAreOrdered /\ PackIsKept /\ WritesAreKnown /\ FilesTellTheWork /\ past.roots \subseteq Roots
      BY <1>t DEF ExecInv, FilesAreSound
    <2>1. FilesAreOrdered'
      BY <1>2, <1>4, <2>0, FS_AddElement DEF FilesAreOrdered
    <2>2. PackIsKept'
      BY <1>2, <2>0 DEF PackIsKept
    <2>3. WritesAreKnown'
      <3>1. \A q \in Roots : tree'[q].work # {} => tree[q].work # {}
        BY <1>5
      <3>2. QED
        BY <1>2, <1>4, <2>0, <3>1 DEF WritesAreKnown
    <2>4. FilesTellTheWork'
      <3> SUFFICES ASSUME ~past.overlap PROVE FilesTellTheWork'
        BY <1>4 DEF FilesTellTheWork
      <3>1. dir.state # Absent => \E q \in past.roots : tree[q].exists /\ (q = r => kept) /\ tree'[q].exists
        BY <1>5, <2>0 DEF FilesTellTheWork
      <3>2. (\E p \in Phases : dir.state[p] = "completed") => dir.state # Absent
        BY PlansDiffer
      <3>3. ASSUME OneRoot', NEW q \in past'.roots, NEW p \in Phases, dir'.state[p] = "completed"
            PROVE  p \in tree'[q].work
        <4>1. PICK q0 \in past.roots : tree[q0].exists /\ (q0 = r => kept)
          BY <1>2, <3>1, <3>2, <3>3
        <4>2. q0 = r /\ q = r /\ OneRoot /\ r \in past.roots
          BY <1>4, <3>3, <4>1 DEF OneRoot
        <4>3. QED
          BY <1>2, <1>5, <2>0, <3>3, <4>1, <4>2 DEF FilesTellTheWork
      <3>4. QED
        BY <1>2, <1>4, <1>8, <3>1, <3>3 DEF FilesTellTheWork
    <2>5. QED
      BY <2>1, <2>2, <2>3, <2>4 DEF FilesAreSound
  <1>10. AttemptIsSound(att[w])'
    <2>1. PackIsSaved(a)
      BY DEF ExecInv, AttemptIsSound
    <2>2. pc \in {"mark", "report"}
      OBVIOUS
    <2> HIDE DEF pc
    <2>3. QED
      BY <1>1, <1>2, <1>4, <1>5, <1>6, <2>1, <2>2
      DEF AttemptIsSound, PlanIsOrdered, PackIsSaved, WriterIsKnown, FilesAreFound, WorkIsThere, Housed, Planned
  <1>11. QED
    BY <1>1, <1>2, <1>3, <1>4, <1>7, <1>9, <1>10, AttemptStepsOn

(* markFilesystemMutation: once it is acknowledged the sweep of the leases *)
(* does not queue the job again.                                           *)
LEMMA MarkStep ==
  ASSUME ExecInv, NEW w \in Executors, MarkMutation(w)
  PROVE  ExecInv'
  <1> DEFINE a == att[w]
             next == IF att[w].pc = "mark" THEN "open" ELSE "loop"
  <1>t. /\ att \in [Executors -> AttemptType] /\ a \in AttemptType /\ AttemptIsSound(a)
        /\ lease \in [status : {"queued", "running", "stalled", "completed", "failed"},
                      number : 0 .. MaxClaims, mutated : BOOLEAN]
    BY AttemptHasType DEF ExecInv
  <1>1. a.pc \in {"mark", "mark_phases"} /\ UNCHANGED <<task, dir, tree, past>>
    BY DEF MarkMutation
  <1>2. CASE ReportFailure(w) /\ UNCHANGED lease
    <2> DEFINE new == [att[w] EXCEPT !.pc = "report", !.ok = FALSE]
    <2>1. new \in AttemptType /\ new.root = a.root /\ new.phases = a.phases
          /\ new.index = a.index /\ new.pc = "report" /\ ~new.ok
      BY <1>t DEF AttemptType
    <2>2. att' = [att EXCEPT ![w] = new]
      BY <1>2 DEF ReportFailure
    <2> HIDE DEF new
    <2>3. QED
      BY <1>1, <1>2, <2>1, <2>2, SoundToGoOn, AttemptMovesAlone
  <1>3. CASE /\ Go(w, next)
             /\ \/ task.dryRun /\ UNCHANGED lease
                \/ ~task.dryRun /\ Current(w) /\ lease' = [lease EXCEPT !.mutated = TRUE]
    <2> DEFINE new == [att[w] EXCEPT !.pc = next]
    <2>1. new \in AttemptType /\ new.root = a.root /\ new.phases = a.phases
          /\ new.index = a.index /\ new.pc = next /\ new.ok = a.ok
      BY <1>t DEF AttemptType, Housed, Planned
    <2>2. att' = [att EXCEPT ![w] = new]
      BY <1>3 DEF Go
    <2>3. /\ lease'.status = lease.status /\ (lease.mutated => lease'.mutated)
          /\ lease' \in [status : {"queued", "running", "stalled", "completed", "failed"},
                         number : 0 .. MaxClaims, mutated : BOOLEAN]
          /\ ~task.dryRun => lease'.mutated /\ lease'.status # "queued"
      BY <1>3, <1>t DEF Current
    <2> HIDE DEF new
    <2>4. att' \in [Executors -> AttemptType] /\ att'[w] = new
      BY <1>t, <2>1, <2>2
    <2>5. ExecTypeOK'
      BY <1>1, <2>3, <2>4, TypeFromParts
    <2>6. FilesAreSound'
      BY <1>1, <2>3 DEF ExecInv, FilesAreSound, FilesAreOrdered, PackIsKept, WritesAreKnown, FilesTellTheWork,
                        OneRoot, VerdictIsRight
    <2>7. AttemptIsSound(att[w])'
      BY <1>1, <1>t, <2>1, <2>3, <2>4
      DEF AttemptIsSound, PlanIsOrdered, PackIsSaved, WriterIsKnown, FilesAreFound, WorkIsThere, Housed, Planned
    <2>8. QED
      BY <1>1, <2>1, <2>2, <2>3, <2>5, <2>6, <2>7, AttemptStepsOn
  <1>4. QED
    <2>1. CASE task.dryRun /\ Go(w, next) /\ UNCHANGED lease
      BY <1>3, <2>1
    <2>2. CASE ~task.dryRun /\ Current(w) /\ lease' = [lease EXCEPT !.mutated = TRUE] /\ Go(w, next)
      BY <1>3, <2>2
    <2>3. CASE ~task.dryRun /\ ReportFailure(w) /\ UNCHANGED lease
      BY <1>2, <2>3
    <2>4. QED
      BY Zenon, <2>1, <2>2, <2>3 DEF MarkMutation


(* initializeWorkerManifest, and finishWorkerJob.                          *)
LEMMA ManifestSteps ==
  ASSUME ExecInv, NEW w \in Executors, OpenManifest(w) \/ CloseManifest(w)
  PROVE  ExecInv'
  <1> DEFINE a == att[w]
             pc == IF a.pc = "open" THEN "probe" ELSE "report"
             new == [att[w] EXCEPT !.pc = pc]
  <1>t. /\ att \in [Executors -> AttemptType] /\ a \in AttemptType /\ AttemptIsSound(a)
        /\ dir \in [state : PhaseFiles \cup {Absent, Torn}, pack : BOOLEAN,
                    manifest : {"none", "torn", "running", "completed", "failed"},
                    verdict : {"none", "passed", "failed"}]
    BY AttemptHasType DEF ExecInv
  <1>1. a.pc \in {"open", "close"} /\ UNCHANGED <<task, lease, tree, past>>
    BY DEF OpenManifest, CloseManifest
  <1>2. new \in AttemptType /\ new.root = a.root /\ new.phases = a.phases
        /\ new.index = a.index /\ new.pc = pc /\ new.ok = a.ok
    BY <1>t DEF AttemptType, Housed
  <1>3. att' = [att EXCEPT ![w] = new]
    BY <1>1 DEF OpenManifest, CloseManifest, Go
  <1>4. /\ dir' \in [state : PhaseFiles \cup {Absent, Torn}, pack : BOOLEAN,
                     manifest : {"none", "torn", "running", "completed", "failed"},
                     verdict : {"none", "passed", "failed"}]
        /\ dir'.state = dir.state /\ dir'.pack = dir.pack /\ dir'.verdict = dir.verdict
        /\ a.pc = "close" /\ a.ok => dir'.manifest = "completed"
    BY <1>t DEF OpenManifest, CloseManifest
  <1> HIDE DEF new
  <1>5. att' \in [Executors -> AttemptType] /\ att'[w] = new
    BY <1>t, <1>2, <1>3
  <1>6. ExecTypeOK'
    BY <1>1, <1>4, <1>5, TypeFromParts
  <1>7. ~past.overlap => lease.status # "completed"
    BY <1>1 DEF ExecInv, OneAtATime
  <1>8. FilesAreSound'
    BY <1>1, <1>4, <1>7 DEF ExecInv, FilesAreSound, FilesAreOrdered, PackIsKept, WritesAreKnown, FilesTellTheWork,
                            OneRoot, VerdictIsRight
  <1>9. AttemptIsSound(att[w])'
    BY <1>1, <1>t, <1>2, <1>4, <1>5
    DEF AttemptIsSound, PlanIsOrdered, PackIsSaved, WriterIsKnown, FilesAreFound, WorkIsThere, Housed, Planned,
        OneRoot, VerdictIsRight
  <1>10. QED
    BY <1>1, <1>2, <1>3, <1>4, <1>6, <1>8, <1>9, AttemptStepsOn

DirType ==
    [state : PhaseFiles \cup {Absent, Torn}, pack : BOOLEAN,
     manifest : {"none", "torn", "running", "completed", "failed"},
     verdict : {"none", "passed", "failed"}]

(* A plan that is saved, with the same phases completed or with one more   *)
(* that the worktree has: what the shared files say stays sound.           *)
LEMMA PlanIsSaved ==
  ASSUME ExecInv, NEW w \in Executors, att[w].pc \in Housed,
         NEW ph \in PhaseFiles, Ordered(ph), task.setup /\ ph[1] = "completed" => dir.pack,
         dir' = [dir EXCEPT !.state = ph], UNCHANGED <<task, lease, tree, past>>,
         ~past.overlap /\ OneRoot =>
           \A p \in Phases : ph[p] = "completed" =>
             dir.state[p] = "completed" \/ p \in tree[att[w].root].work,
         ~past.overlap => att'[w].pc # "off"
  PROVE  FilesAreSound' /\ dir' \in DirType /\ dir'.state = ph /\ dir'.pack = dir.pack
         /\ dir'.verdict = dir.verdict /\ dir'.manifest = dir.manifest
  <1>1. dir \in DirType
    BY AttemptHasType DEF DirType
  <1>2. dir' \in DirType /\ dir'.state = ph /\ dir'.pack = dir.pack
        /\ dir'.verdict = dir.verdict /\ dir'.manifest = dir.manifest
    BY <1>1 DEF DirType
  <1>3. FilesAreOrdered /\ WritesAreKnown /\ FilesTellTheWork
    BY DEF ExecInv, FilesAreSound
  <1>4. FilesAreOrdered'
    BY <1>2, <1>3 DEF FilesAreOrdered
  <1>5. PackIsKept'
    BY <1>2 DEF PackIsKept
  <1>6. WritesAreKnown'
    BY <1>3 DEF WritesAreKnown
  <1>7. FilesTellTheWork'
    <2> SUFFICES ASSUME ~past.overlap PROVE FilesTellTheWork'
      BY DEF FilesTellTheWork
    <2>1. tree[att[w].root].exists /\ att[w].root \in past.roots /\ lease.status # "completed"
      BY DEF ExecInv, AttemptIsSound, FilesAreFound, OneAtATime, Housed, Planned
    <2>2. ASSUME OneRoot, NEW r \in past.roots, NEW p \in Phases, ph[p] = "completed"
          PROVE  p \in tree[r].work
      <3>1. r = att[w].root
        BY <2>1, <2>2 DEF OneRoot
      <3>2. QED
        BY <1>3, <2>2, <3>1 DEF FilesTellTheWork
    <2>3. QED
      BY <1>2, <2>1, <2>2 DEF FilesTellTheWork, OneRoot
  <1>8. QED
    BY <1>2, <1>4, <1>5, <1>6, <1>7 DEF FilesAreSound

(* A state file that is there is gone on with; one that is missing or torn *)
(* is planned anew, and no phase of the new plan is completed.             *)
LEMMA LoadStep ==
  ASSUME ExecInv, NEW w \in Executors, LoadPhases(w)
  PROVE  ExecInv'
  <1> DEFINE a == att[w]
             ph == IF dir.state \in {Absent, Torn} THEN FreshPlan ELSE dir.state
             new == [att[w] EXCEPT !.pc = "mark_phases", !.phases = ph, !.index = ResumeIndex(ph)]
  <1>t. att \in [Executors -> AttemptType] /\ a \in AttemptType /\ AttemptIsSound(a) /\ dir \in DirType
    BY AttemptHasType DEF ExecInv, DirType
  <1>1. a.pc = "load" /\ UNCHANGED <<task, lease, tree, past>> /\ dir' = [dir EXCEPT !.state = ph]
        /\ att' = [att EXCEPT ![w] = new]
    BY DEF LoadPhases
  <1>2. ph \in PhaseFiles /\ Ordered(ph) /\ \A p \in Phases : ph[p] = "completed" => dir.state[p] = "completed"
    BY <1>t, PlansDiffer DEF DirType, ExecInv, FilesAreSound, FilesAreOrdered
  <1>3. ResumeIndex(ph) \in 1 .. PhaseCount + 1 /\ WorkedUpTo(ph, ResumeIndex(ph))
    BY <1>2, ResumeIndexIsRight
  <1> HIDE DEF ph
  <1>4. new \in AttemptType /\ new.root = a.root /\ new.phases = ph
        /\ new.index = ResumeIndex(ph) /\ new.pc = "mark_phases"
    BY <1>2, <1>3, <1>t DEF AttemptType, Housed, Planned
  <1> HIDE DEF new
  <1>5. att' \in [Executors -> AttemptType] /\ att'[w] = new
    BY <1>1, <1>4, <1>t
  <1>6. task.setup /\ ph[1] = "completed" => dir.pack
    BY <1>2, PhasesAreNumbers DEF ExecInv, FilesAreSound, PackIsKept
  <1>7. FilesAreSound' /\ dir' \in DirType /\ dir'.state = ph /\ dir'.pack = dir.pack
        /\ dir'.verdict = dir.verdict /\ dir'.manifest = dir.manifest
    BY <1>1, <1>2, <1>4, <1>5, <1>6, PlanIsSaved DEF Housed
  <1>8. ExecTypeOK'
    BY <1>1, <1>5, <1>7, TypeFromParts DEF DirType
  <1>9. AttemptIsSound(att[w])'
    BY <1>1, <1>3, <1>4, <1>5, <1>6, <1>7, <1>t
    DEF AttemptIsSound, PlanIsOrdered, PackIsSaved, WriterIsKnown, FilesAreFound, WorkIsThere, Housed, Planned
  <1>10. QED
    BY <1>1, <1>4, <1>7, <1>8, <1>9, AttemptStepsOn

(* The phase at the index starts, or fails: it is not completed, and no    *)
(* other changes.                                                          *)
LEMMA PhaseIsMarked ==
  ASSUME ExecInv, NEW w \in Executors, att[w].pc \in Planned, att[w].index \in Phases,
         NEW status \in {"running", "failed"}, NEW new \in AttemptType,
         new.root = att[w].root, new.index = att[w].index,
         new.phases = [att[w].phases EXCEPT ![att[w].index] = status],
         att' = [att EXCEPT ![w] = new], dir' = [dir EXCEPT !.state = new.phases],
         UNCHANGED <<task, lease, tree, past>>,
         \/ new.pc = "execute" /\ att[w].pc = "loop"
         \/ new.pc = "close" /\ ~new.ok
  PROVE  ExecInv'
  <1> DEFINE a == att[w]
  <1>t. att \in [Executors -> AttemptType] /\ a \in AttemptType /\ AttemptIsSound(a) /\ dir \in DirType
    BY AttemptHasType DEF ExecInv, DirType
  <1>1. a.phases \in PhaseFiles /\ WorkedUpTo(a.phases, a.index) /\ status \in PhaseStatus
    BY <1>t DEF AttemptType, AttemptIsSound, PlanIsOrdered, PhaseStatus
  <1>2. new.phases \in PhaseFiles /\ Ordered(new.phases) /\ WorkedUpTo(new.phases, new.index)
    BY <1>1, SavedPlanIsOrdered
  <1>3. \A p \in Phases : new.phases[p] = "completed" => a.phases[p] = "completed"
    BY <1>1 DEF PhaseFiles
  <1>4. ~past.overlap => dir.state = a.phases
    BY <1>t DEF AttemptIsSound, FilesAreFound
  <1>5. task.setup /\ new.phases[1] = "completed" => dir.pack
    BY <1>3, <1>t, PhasesAreNumbers DEF AttemptIsSound, PackIsSaved
  <1>6. att' \in [Executors -> AttemptType] /\ att'[w] = new
    BY <1>t
  <1>7. FilesAreSound' /\ dir' \in DirType /\ dir'.state = new.phases /\ dir'.pack = dir.pack
        /\ dir'.verdict = dir.verdict /\ dir'.manifest = dir.manifest
    <2> DEFINE ph == new.phases
    <2>1. att[w].pc \in Housed /\ att'[w].pc # "off"
      BY <1>6 DEF Housed
    <2>2. ~past.overlap => \A p \in Phases : ph[p] = "completed" => dir.state[p] = "completed"
      BY <1>3, <1>4
    <2>3. ph \in PhaseFiles /\ Ordered(ph) /\ (task.setup /\ ph[1] = "completed" => dir.pack)
          /\ dir' = [dir EXCEPT !.state = ph]
      BY <1>2, <1>5
    <2> HIDE DEF ph
    <2>4. FilesAreSound' /\ dir' \in DirType /\ dir'.state = ph /\ dir'.pack = dir.pack
          /\ dir'.verdict = dir.verdict /\ dir'.manifest = dir.manifest
      BY <2>1, <2>2, <2>3, PlanIsSaved
    <2>5. QED
      BY <2>4 DEF ph
  <1>8. ExecTypeOK'
    BY <1>6, <1>7, TypeFromParts DEF DirType
  <1>9. AttemptIsSound(att[w])'
    BY <1>2, <1>5, <1>6, <1>7, <1>t
    DEF AttemptIsSound, PlanIsOrdered, PackIsSaved, WriterIsKnown, FilesAreFound, WorkIsThere, Housed, Planned
  <1>10. QED
    BY <1>7, <1>8, <1>9, AttemptStepsOn DEF Planned

LEMMA StartStep ==
  ASSUME ExecInv, NEW w \in Executors, StartPhase(w)
  PROVE  ExecInv'
  <1> DEFINE a == att[w]
  <1>t. att \in [Executors -> AttemptType] /\ a \in AttemptType /\ AttemptIsSound(a) /\ a.pc = "loop"
    BY AttemptHasType DEF ExecInv, StartPhase
  <1>1. CASE a.index > PhaseCount
    <2> DEFINE new == [att[w] EXCEPT !.pc = "guards"]
    <2>1. att' = [att EXCEPT ![w] = new] /\ UNCHANGED <<task, lease, dir, tree, past>>
      BY <1>1 DEF StartPhase, Go
    <2>2. new \in AttemptType /\ new.root = a.root /\ new.phases = a.phases /\ new.pc = "guards"
          /\ new.index = a.index
      BY <1>t DEF AttemptType, Housed
    <2> HIDE DEF new
    <2>3. \A p \in Phases : a.phases[p] = "completed"
      BY <1>1, <1>t, PhasesAreNumbers DEF AttemptIsSound, PlanIsOrdered, WorkedUpTo, AttemptType, Phases, Planned
    <2>4. ~past.overlap => FilesAreFound(a)
      BY <1>t DEF AttemptIsSound
    <2>5. ~past.overlap /\ OneRoot => tree[a.root].work = Phases
      <3>1. ~past.overlap => dir.state = a.phases /\ a.root \in past.roots
        BY <1>t, <2>4 DEF FilesAreFound, Planned
      <3>2. ~past.overlap /\ OneRoot => \A p \in Phases : p \in tree[a.root].work
        BY <2>3, <3>1 DEF ExecInv, FilesAreSound, FilesTellTheWork
      <3>3. tree[a.root].work \subseteq Phases
        BY <1>t, AttemptHasType DEF AttemptType
      <3>4. QED
        BY <3>2, <3>3
    <2>6. AttemptIsSound(new)
      BY <1>t, <2>2, <2>4, <2>5
      DEF AttemptIsSound, PlanIsOrdered, PackIsSaved, WriterIsKnown, FilesAreFound, WorkIsThere, Housed, Planned
    <2>7. QED
      BY <1>t, <2>1, <2>2, <2>6, AttemptMovesAlone
  <1>2. CASE ~(a.index > PhaseCount) /\ a.aborted
    <2> DEFINE new == [att[w] EXCEPT !.pc = "close", !.ok = FALSE]
    <2>1. att' = [att EXCEPT ![w] = new] /\ UNCHANGED <<task, lease, dir, tree, past>>
      BY <1>2 DEF StartPhase, Close
    <2>2. new \in AttemptType /\ new.root = a.root /\ new.phases = a.phases
          /\ new.index = a.index /\ new.pc = "close" /\ ~new.ok
      BY <1>t DEF AttemptType, Housed
    <2> HIDE DEF new
    <2>3. AttemptIsSound(new)
      BY <1>t, <2>2, SoundToGoOn DEF Housed, Planned
    <2>4. QED
      BY <1>t, <2>1, <2>2, <2>3, AttemptMovesAlone
  <1>3. CASE ~(a.index > PhaseCount) /\ ~a.aborted
    <2> DEFINE ph == [a.phases EXCEPT ![a.index] = "running"]
               new == [att[w] EXCEPT !.phases = ph, !.pc = "execute"]
    <2>1. att' = [att EXCEPT ![w] = new] /\ dir' = [dir EXCEPT !.state = ph] /\ UNCHANGED <<task, lease, tree, past>>
      BY <1>3 DEF StartPhase, SavePhase
    <2>2. a.index \in Phases
      BY <1>3, <1>t, PhasesAreNumbers DEF AttemptType, Phases
    <2>3. ph \in PhaseFiles
      BY <1>t DEF AttemptType, PhaseFiles, PhaseStatus
    <2> HIDE DEF ph
    <2>4. new \in AttemptType /\ new.root = a.root /\ new.phases = ph
          /\ new.index = a.index /\ new.pc = "execute"
      BY <1>t, <2>3 DEF AttemptType, Housed, Planned
    <2> HIDE DEF new
    <2>5. QED
      BY <1>t, <2>1, <2>2, <2>4, PhaseIsMarked DEF Planned, ph
  <1>4. QED
    BY <1>1, <1>2, <1>3

LEMMA FailStep ==
  ASSUME ExecInv, NEW w \in Executors, FailPhase(w)
  PROVE  ExecInv'
  <1> DEFINE a == att[w]
             ph == [a.phases EXCEPT ![a.index] = "failed"]
             new == [att[w] EXCEPT !.phases = ph, !.pc = "close", !.ok = FALSE]
  <1>t. att \in [Executors -> AttemptType] /\ a \in AttemptType /\ AttemptIsSound(a) /\ a.pc = "undone"
    BY AttemptHasType DEF ExecInv, FailPhase
  <1>1. att' = [att EXCEPT ![w] = new] /\ dir' = [dir EXCEPT !.state = ph] /\ UNCHANGED <<task, lease, tree, past>>
    BY DEF FailPhase
  <1>2. a.index \in Phases
    BY <1>t DEF AttemptIsSound, PlanIsOrdered, Planned
  <1>3. ph \in PhaseFiles
    BY <1>t DEF AttemptType, PhaseFiles, PhaseStatus
  <1> HIDE DEF ph
  <1>4. new \in AttemptType /\ new.root = a.root /\ new.phases = ph
        /\ new.index = a.index /\ new.pc = "close" /\ ~new.ok
    BY <1>t, <1>3 DEF AttemptType, Housed, Planned
  <1> HIDE DEF new
  <1>5. QED
    BY <1>t, <1>1, <1>2, <1>4, PhaseIsMarked DEF Planned, ph

(* provider.execute: the attempt writes to its worktree, which it was      *)
(* acknowledged to do.                                                     *)
LEMMA ExecuteStep ==
  ASSUME ExecInv, NEW w \in Executors, ExecutePhase(w)
  PROVE  ExecInv'
  <1> DEFINE a == att[w]
             more == [tree EXCEPT ![a.root].work = @ \cup {a.index}]
  <1>t. /\ att \in [Executors -> AttemptType] /\ a \in AttemptType /\ AttemptIsSound(a) /\ a.pc = "execute"
        /\ tree \in [Roots -> [exists : BOOLEAN, registered : BOOLEAN, work : SUBSET Phases]]
        /\ a.root \in Roots /\ past.roots \subseteq Roots
    BY AttemptHasType DEF ExecInv, ExecutePhase, AttemptType
  <1>1. UNCHANGED <<task, lease, dir, past>> /\ a.index \in Phases
    BY <1>t DEF ExecutePhase, AttemptIsSound, PlanIsOrdered, Planned
  <1>2. PICK pc \in {"throw", "pack", "done", "undone"} :
          /\ Go(w, pc)
          /\ pc \in {"pack", "done"} => tree' = more
          /\ tree' \in {tree, more}
          /\ pc = "done" => ~(task.setup /\ a.index = 1)
    BY DEF ExecutePhase
  <1> DEFINE new == [att[w] EXCEPT !.pc = pc]
  <1>3. att' = [att EXCEPT ![w] = new]
    BY <1>2 DEF Go
  <1>4. new \in AttemptType /\ new.root = a.root /\ new.phases = a.phases /\ new.index = a.index /\ new.pc = pc
    BY <1>t DEF AttemptType, Housed, Planned
  <1>5. /\ tree' \in [Roots -> [exists : BOOLEAN, registered : BOOLEAN, work : SUBSET Phases]]
        /\ \A r \in Roots : tree'[r].exists = tree[r].exists /\ tree[r].work \subseteq tree'[r].work
        /\ pc \in {"pack", "done"} => a.index \in tree'[a.root].work
    <2>1. /\ more \in [Roots -> [exists : BOOLEAN, registered : BOOLEAN, work : SUBSET Phases]]
          /\ \A r \in Roots : more[r].exists = tree[r].exists /\ tree[r].work \subseteq more[r].work
          /\ a.index \in more[a.root].work
      BY <1>1, <1>t
    <2> HIDE DEF more
    <2>2. QED
      BY <1>2, <1>t, <2>1
  <1> HIDE DEF new
  <1>6. att' \in [Executors -> AttemptType] /\ att'[w] = new
    BY <1>3, <1>4, <1>t
  <1>7. ExecTypeOK'
    BY <1>1, <1>5, <1>6, TypeFromParts
  <1>8. FilesAreSound'
    <2>0. FilesAreOrdered /\ PackIsKept /\ WritesAreKnown /\ FilesTellTheWork
      BY DEF ExecInv, FilesAreSound
    <2>1. FilesAreOrdered' /\ PackIsKept'
      BY <1>1, <2>0 DEF FilesAreOrdered, PackIsKept
    <2>2. WritesAreKnown'
      BY <1>1, <1>t, <2>0 DEF WritesAreKnown, AttemptIsSound, WriterIsKnown
    <2>3. ~past.overlap => lease.status # "completed"
      BY <1>t DEF ExecInv, OneAtATime
    <2>4. FilesTellTheWork'
      BY <1>1, <1>5, <1>t, <2>0, <2>3 DEF FilesTellTheWork, OneRoot
    <2>5. QED
      BY <2>1, <2>2, <2>4 DEF FilesAreSound
  <1>9. AttemptIsSound(att[w])'
    BY <1>1, <1>2, <1>4, <1>5, <1>6, <1>t
    DEF AttemptIsSound, PlanIsOrdered, PackIsSaved, WriterIsKnown, FilesAreFound, WorkIsThere, Housed, Planned
  <1>10. QED
    BY <1>1, <1>3, <1>4, <1>7, <1>8, <1>9, <1>t, AttemptStepsOn

LEMMA PackStep ==
  ASSUME ExecInv, NEW w \in Executors, SavePack(w)
  PROVE  ExecInv'
  <1> DEFINE a == att[w]
             pc == IF Readable THEN "done" ELSE "throw"
             new == [att[w] EXCEPT !.pc = pc]
  <1>t. /\ att \in [Executors -> AttemptType] /\ a \in AttemptType /\ AttemptIsSound(a) /\ a.pc = "pack"
        /\ dir \in DirType
    BY AttemptHasType DEF ExecInv, SavePack, DirType
  <1>1. UNCHANGED <<task, lease, tree, past>> /\ att' = [att EXCEPT ![w] = new]
    BY DEF SavePack, Go
  <1>2. new \in AttemptType /\ new.root = a.root /\ new.phases = a.phases /\ new.index = a.index
        /\ new.pc \in {"done", "throw"}
    BY <1>t DEF AttemptType, Housed, Planned
  <1>3. dir' \in DirType /\ dir'.pack /\ dir'.state = dir.state /\ dir'.verdict = dir.verdict
        /\ dir'.manifest = dir.manifest
    BY <1>t DEF SavePack, DirType
  <1> HIDE DEF new
  <1>4. att' \in [Executors -> AttemptType] /\ att'[w] = new
    BY <1>1, <1>2, <1>t
  <1>5. ExecTypeOK'
    BY <1>1, <1>3, <1>4, TypeFromParts DEF DirType
  <1>6. ~past.overlap => lease.status # "completed"
    BY <1>t DEF ExecInv, OneAtATime
  <1>7. FilesAreSound'
    BY <1>1, <1>3, <1>6 DEF ExecInv, FilesAreSound, FilesAreOrdered, PackIsKept, WritesAreKnown, FilesTellTheWork,
                            OneRoot, VerdictIsRight
  <1>8. AttemptIsSound(att[w])'
    BY <1>1, <1>2, <1>3, <1>4, <1>t
    DEF AttemptIsSound, PlanIsOrdered, PackIsSaved, WriterIsKnown, FilesAreFound, WorkIsThere, OneRoot, Housed,
        Planned
  <1>9. QED
    BY <1>1, <1>2, <1>3, <1>5, <1>6, <1>7, <1>8, <1>t, AttemptStepsOn

LEMMA CompleteStep ==
  ASSUME ExecInv, NEW w \in Executors, CompletePhase(w)
  PROVE  ExecInv'
  <1> DEFINE a == att[w]
             ph == [a.phases EXCEPT ![a.index] = "completed"]
             new == [att[w] EXCEPT !.phases = ph, !.pc = "loop", !.index = @ + 1]
  <1>t. att \in [Executors -> AttemptType] /\ a \in AttemptType /\ AttemptIsSound(a) /\ a.pc = "done"
    BY AttemptHasType DEF ExecInv, CompletePhase
  <1>1. att' = [att EXCEPT ![w] = new] /\ dir' = [dir EXCEPT !.state = ph] /\ UNCHANGED <<task, lease, tree, past>>
    BY DEF CompletePhase
  <1>2. a.index \in Phases /\ WorkedUpTo(a.phases, a.index) /\ a.phases \in PhaseFiles
    BY <1>t DEF AttemptIsSound, PlanIsOrdered, Planned, AttemptType
  <1>3. ph \in PhaseFiles /\ Ordered(ph)
    BY <1>2, SavedPlanIsOrdered DEF PhaseStatus
  <1>4. \A p \in Phases : ph[p] = IF p = a.index THEN "completed" ELSE a.phases[p]
    BY <1>2 DEF PhaseFiles
  <1>5. WorkedUpTo(ph, a.index + 1) /\ a.index + 1 \in 1 .. PhaseCount + 1
    BY <1>2, <1>4, PhasesAreNumbers DEF WorkedUpTo, Phases
  <1> HIDE DEF ph
  <1>6. new \in AttemptType /\ new.root = a.root /\ new.phases = ph /\ new.index = a.index + 1 /\ new.pc = "loop"
    BY <1>3, <1>5, <1>t DEF AttemptType, Housed, Planned
  <1> HIDE DEF new
  <1>7. att' \in [Executors -> AttemptType] /\ att'[w] = new
    BY <1>1, <1>6, <1>t
  <1>8. task.setup /\ ph[1] = "completed" => dir.pack
    BY <1>4, <1>t, PhasesAreNumbers DEF AttemptIsSound, PackIsSaved
  <1>9. ~past.overlap /\ OneRoot =>
          \A p \in Phases : ph[p] = "completed" => dir.state[p] = "completed" \/ p \in tree[a.root].work
    BY <1>4, <1>t DEF AttemptIsSound, FilesAreFound, WorkIsThere, Planned
  <1>10. FilesAreSound' /\ dir' \in DirType /\ dir'.state = ph /\ dir'.pack = dir.pack
         /\ dir'.verdict = dir.verdict /\ dir'.manifest = dir.manifest
    <2>1. att[w].pc \in Housed /\ att'[w].pc # "off"
      BY <1>6, <1>7, <1>t DEF Housed, Planned
    <2>2. QED
      BY <1>1, <1>3, <1>8, <1>9, <2>1, PlanIsSaved
  <1>11. ExecTypeOK'
    BY <1>1, <1>7, <1>10, TypeFromParts DEF DirType
  <1>12. AttemptIsSound(att[w])'
    BY <1>1, <1>5, <1>6, <1>7, <1>8, <1>10, <1>t
    DEF AttemptIsSound, PlanIsOrdered, PackIsSaved, WriterIsKnown, FilesAreFound, WorkIsThere, Housed, Planned
  <1>13. QED
    BY <1>1, <1>6, <1>10, <1>11, <1>12, <1>t, AttemptStepsOn

(* The guards: a job passes them with a verdict, or is a dry run.          *)
LEMMA GuardsStep ==
  ASSUME ExecInv, NEW w \in Executors, CheckGuards(w)
  PROVE  ExecInv'
  <1> DEFINE a == att[w]
  <1>t. /\ att \in [Executors -> AttemptType] /\ a \in AttemptType /\ AttemptIsSound(a) /\ a.pc = "guards"
        /\ dir \in DirType
    BY AttemptHasType DEF ExecInv, CheckGuards, DirType
  <1>1. UNCHANGED <<task, lease, tree, past>>
    BY DEF CheckGuards
  <1>2. PICK ok \in BOOLEAN : /\ Close(w, ok)
                              /\ \/ UNCHANGED dir /\ (ok => task.dryRun)
                                 \/ /\ ~task.dryRun
                                    /\ dir' = [dir EXCEPT !.verdict = IF ok THEN "passed" ELSE "failed"]
    <2>1. CASE task.dryRun
      BY <2>1 DEF CheckGuards
    <2>2. CASE ~task.dryRun
      BY <2>2 DEF CheckGuards
    <2>3. QED
      BY <2>1, <2>2
  <1> DEFINE new == [att[w] EXCEPT !.pc = "close", !.ok = ok]
  <1>3. att' = [att EXCEPT ![w] = new]
    BY <1>2 DEF Close
  <1>4. new \in AttemptType /\ new.root = a.root /\ new.phases = a.phases /\ new.index = a.index
        /\ new.pc = "close" /\ new.ok = ok
    BY <1>t DEF AttemptType, Housed
  <1>5. /\ dir' \in DirType /\ dir'.state = dir.state /\ dir'.pack = dir.pack /\ dir'.manifest = dir.manifest
        /\ task.dryRun => dir'.verdict = dir.verdict
        /\ ok /\ ~task.dryRun => dir'.verdict = "passed"
    BY <1>2, <1>t DEF DirType
  <1> HIDE DEF new
  <1>6. att' \in [Executors -> AttemptType] /\ att'[w] = new
    BY <1>3, <1>4, <1>t
  <1>7. ExecTypeOK'
    BY <1>1, <1>5, <1>6, TypeFromParts DEF DirType
  <1>8. ~past.overlap => lease.status # "completed"
    BY <1>t DEF ExecInv, OneAtATime
  <1>9. FilesAreSound'
    BY <1>1, <1>5, <1>8 DEF ExecInv, FilesAreSound, FilesAreOrdered, PackIsKept, WritesAreKnown, FilesTellTheWork,
                            OneRoot
  <1>10. new.ok => VerdictIsRight'
    BY <1>1, <1>4, <1>5 DEF ExecInv, FilesAreSound, FilesAreOrdered, VerdictIsRight
  <1>11. AttemptIsSound(att[w])'
    BY <1>1, <1>4, <1>5, <1>6, <1>10, <1>t
    DEF AttemptIsSound, PlanIsOrdered, PackIsSaved, WriterIsKnown, FilesAreFound, WorkIsThere, OneRoot, Housed,
        Planned
  <1>12. QED
    BY <1>1, <1>3, <1>4, <1>5, <1>7, <1>8, <1>9, <1>11, <1>t, AttemptStepsOn

(* complete or fail: the server takes it of the holder of the lease only.  *)
LEMMA ReportStep ==
  ASSUME ExecInv, NEW w \in Executors, Report(w)
  PROVE  ExecInv'
  <1> DEFINE a == att[w]
             new == NoAttempt(a.root)
  <1>t. /\ att \in [Executors -> AttemptType] /\ a \in AttemptType /\ AttemptIsSound(a) /\ a.pc = "report"
        /\ lease \in [status : {"queued", "running", "stalled", "completed", "failed"},
                      number : 0 .. MaxClaims, mutated : BOOLEAN]
    BY AttemptHasType DEF ExecInv, Report
  <1>1. att' = [att EXCEPT ![w] = new] /\ UNCHANGED <<task, dir, tree, past>>
    BY DEF Report
  <1>2. new \in AttemptType /\ new.pc = "off" /\ AttemptIsSound(new)
    BY <1>t, SoundToBeOff DEF AttemptType
  <1> HIDE DEF new
  <1>3. att' \in [Executors -> AttemptType] /\ att'[w] = new
    BY <1>1, <1>2, <1>t
  <1>4. /\ lease' \in [status : {"queued", "running", "stalled", "completed", "failed"},
                       number : 0 .. MaxClaims, mutated : BOOLEAN]
        /\ lease'.mutated = lease.mutated
        /\ lease'.status = "queued" => lease.status = "queued"
        /\ lease'.status = "completed" => lease.status = "completed" \/ a.ok
    <2>1. CASE Current(w) /\ ~att[w].aborted
      <3>1. lease' = [lease EXCEPT !.status = IF att[w].ok THEN "completed" ELSE "failed"]
        BY <2>1 DEF Report
      <3>2. QED
        BY <1>t, <3>1
    <2>2. CASE ~(Current(w) /\ ~att[w].aborted)
      <3>1. lease' = lease
        BY <2>2 DEF Report
      <3>2. QED
        BY <1>t, <3>1
    <2>3. QED
      BY <2>1, <2>2
  <1>5. ExecTypeOK'
    BY <1>1, <1>3, <1>4, TypeFromParts
  <1>6. ~past.overlap => lease.status # "completed"
    BY <1>t DEF ExecInv, OneAtATime
  <1>7. FilesAreSound'
    <2>0. FilesAreOrdered /\ PackIsKept /\ WritesAreKnown /\ FilesTellTheWork
      BY DEF ExecInv, FilesAreSound
    <2>1. FilesAreOrdered' /\ PackIsKept' /\ WritesAreKnown'
      BY <1>1, <1>4, <2>0 DEF FilesAreOrdered, PackIsKept, WritesAreKnown
    <2>2. ASSUME ~past.overlap, OneRoot, lease'.status = "completed"
          PROVE  (\A r \in past.roots : tree[r].work = Phases) /\ VerdictIsRight /\ dir.manifest = "completed"
      <3>1. a.ok
        BY <1>4, <1>6, <2>2
      <3>2. FilesAreFound(a) /\ WorkIsThere(a)
        BY <1>t, <2>2 DEF AttemptIsSound
      <3>3. a.root \in past.roots
        BY <1>t, <3>2 DEF FilesAreFound
      <3>4. tree[a.root].work = Phases /\ VerdictIsRight /\ dir.manifest = "completed"
        BY <1>t, <2>2, <3>1, <3>2 DEF WorkIsThere
      <3>5. QED
        BY <2>2, <3>3, <3>4 DEF OneRoot
    <2>3. FilesTellTheWork'
      BY <1>1, <2>0, <2>2 DEF FilesTellTheWork, OneRoot, VerdictIsRight
    <2>4. QED
      BY <2>1, <2>3 DEF FilesAreSound
  <1>8. AttemptIsSound(att[w])'
    BY <1>1, <1>2, <1>3, <1>4
    DEF AttemptIsSound, PlanIsOrdered, PackIsSaved, WriterIsKnown, FilesAreFound, WorkIsThere, OneRoot,
        VerdictIsRight
  <1>9. QED
    BY <1>1, <1>2, <1>4, <1>5, <1>7, <1>8, <1>t, AttemptStepsOn

(* The worker dies, with half a file behind it: what is torn tells of no   *)
(* phase that was completed.                                               *)
LEMMA DiesStep ==
  ASSUME ExecInv, NEW w \in Executors, WorkerDies(w)
  PROVE  ExecInv'
  <1> DEFINE a == att[w]
             new == NoAttempt(a.root)
  <1>t. att \in [Executors -> AttemptType] /\ a \in AttemptType /\ AttemptIsSound(a) /\ a.pc # "off" /\ dir \in DirType
    BY AttemptHasType DEF ExecInv, WorkerDies, DirType
  <1>1. att' = [att EXCEPT ![w] = new] /\ UNCHANGED <<task, lease, tree, past>>
    BY DEF WorkerDies
  <1>2. new \in AttemptType /\ new.pc = "off" /\ AttemptIsSound(new)
    BY <1>t, SoundToBeOff DEF AttemptType
  <1> HIDE DEF new
  <1>3. att' \in [Executors -> AttemptType] /\ att'[w] = new
    BY <1>1, <1>2, <1>t
  <1>4. \/ dir' = dir
        \/ dir' = [dir EXCEPT !.state = Torn] /\ a.pc \in Housed
        \/ dir' = [dir EXCEPT !.manifest = "torn"]
    BY DEF WorkerDies, Housed, Planned
  <1>5. /\ dir' \in DirType /\ dir'.pack = dir.pack /\ dir'.verdict = dir.verdict
        /\ \/ dir'.state = dir.state
           \/ dir'.state = Torn /\ a.pc \in Housed
    <2>1. CASE dir' = dir
      BY <2>1, <1>t
    <2>2. CASE dir' = [dir EXCEPT !.state = Torn] /\ a.pc \in Housed
      BY <2>2, <1>t DEF DirType
    <2>3. CASE dir' = [dir EXCEPT !.manifest = "torn"]
      BY <2>3, <1>t DEF DirType
    <2>4. QED
      BY <1>4, <2>1, <2>2, <2>3
  <1>6. ExecTypeOK'
    BY <1>1, <1>3, <1>5, TypeFromParts DEF DirType
  <1>7. ~past.overlap => lease.status # "completed"
    BY <1>t DEF ExecInv, OneAtATime
  <1>8. FilesAreSound'
    <2>0. FilesAreOrdered /\ PackIsKept /\ WritesAreKnown /\ FilesTellTheWork
      BY DEF ExecInv, FilesAreSound
    <2>1. FilesAreOrdered' /\ PackIsKept' /\ WritesAreKnown'
      BY <1>1, <1>5, <2>0, PlansDiffer, PhasesAreNumbers DEF FilesAreOrdered, PackIsKept, WritesAreKnown
    <2>2. ~past.overlap /\ a.pc \in Housed => a.root \in past.roots /\ tree[a.root].exists
      BY <1>t DEF AttemptIsSound, FilesAreFound, Housed, Planned
    <2>3. FilesTellTheWork'
      BY <1>1, <1>5, <1>7, <2>0, <2>2, PlansDiffer DEF FilesTellTheWork, OneRoot
    <2>4. QED
      BY <2>1, <2>3 DEF FilesAreSound
  <1>9. AttemptIsSound(att[w])'
    <2>1. att'[w].pc = "off" /\ (task.setup /\ att'[w].phases[1] = "completed" => dir'.pack) /\ task' = task
      BY <1>1, <1>2, <1>3, <1>5 DEF AttemptIsSound, PackIsSaved
    <2>2. QED
      BY <2>1
      DEF AttemptIsSound, PlanIsOrdered, PackIsSaved, WriterIsKnown, FilesAreFound, WorkIsThere, Housed, Planned
  <1>10. QED
    BY <1>1, <1>2, <1>5, <1>6, <1>8, <1>9, <1>t, AttemptStepsOn

(* claimLease: when another attempt is still under way, they overlap.      *)
LEMMA ClaimStep ==
  ASSUME ExecInv, NEW w \in Executors, NEW r \in Roots, ClaimLease(w, r)
  PROVE  ExecInv'
  <1> DEFINE new == [NoAttempt(r) EXCEPT !.pc = "prepare", !.lease = lease.number + 1]
             on == \E v \in Executors : att[v].pc # "off"
  <1>t. /\ att \in [Executors -> AttemptType]
        /\ lease \in [status : {"queued", "running", "stalled", "completed", "failed"},
                      number : 0 .. MaxClaims, mutated : BOOLEAN]
        /\ past \in [roots : SUBSET Roots, overlap : BOOLEAN, recovered : BOOLEAN]
    BY AttemptHasType
  <1>1. /\ att[w].pc = "off" /\ lease.status = "queued" /\ lease.number < MaxClaims
        /\ att' = [att EXCEPT ![w] = new]
        /\ lease' = [lease EXCEPT !.status = "running", !.number = lease.number + 1]
        /\ past' = [past EXCEPT !.overlap = past.overlap \/ on]
        /\ UNCHANGED <<task, dir, tree>>
    BY DEF ClaimLease
  <1>n. lease.number + 1 \in 0 .. MaxClaims
    <2>1. lease.number \in 0 .. MaxClaims
      BY <1>t
    <2>2. QED
      BY <1>1, <2>1, ExecutionAssumption
  <1>2. new \in AttemptType /\ new.pc = "prepare" /\ new.phases = FreshPlan
    <2>1. NoAttempt(r) \in AttemptType /\ NoAttempt(r).phases = FreshPlan
      BY SoundToBeOff DEF NoAttempt
    <2>2. QED
      BY <1>n, <2>1 DEF AttemptType
  <1> HIDE DEF new
  <1>3. on \in BOOLEAN
    OBVIOUS
  <1>4. ~on => \A v \in Executors : att[v].pc = "off"
    OBVIOUS
  <1> HIDE DEF on
  <1>5. /\ past' \in [roots : SUBSET Roots, overlap : BOOLEAN, recovered : BOOLEAN]
        /\ past'.roots = past.roots /\ past'.recovered = past.recovered
        /\ ~past'.overlap => ~past.overlap /\ ~on
    BY <1>1, <1>3, <1>t
  <1>6. /\ lease' \in [status : {"queued", "running", "stalled", "completed", "failed"},
                       number : 0 .. MaxClaims, mutated : BOOLEAN]
        /\ lease'.status = "running" /\ lease'.mutated = lease.mutated
    BY <1>1, <1>n, <1>t
  <1>7. /\ att' \in [Executors -> AttemptType] /\ att'[w] = new
        /\ \A v \in Executors \ {w} : att'[v] = att[v]
    BY <1>1, <1>2, <1>t
  <1>8. ExecTypeOK'
    BY <1>1, <1>5, <1>6, <1>7, TypeFromParts
  <1>9. FilesAreSound'
    BY <1>1, <1>5, <1>6 DEF ExecInv, FilesAreSound, FilesAreOrdered, PackIsKept, WritesAreKnown, FilesTellTheWork,
                            OneRoot
  <1>10. AttemptIsSound(att[w])'
    BY <1>2, <1>7, PlansDiffer, PhasesAreNumbers
    DEF AttemptIsSound, PlanIsOrdered, PackIsSaved, WriterIsKnown, FilesAreFound, WorkIsThere, Housed, Planned
  <1>11. ASSUME NEW v \in Executors \ {w} PROVE AttemptIsSound(att[v])'
    <2>1. AttemptIsSound(att[v]) /\ att'[v] = att[v]
      BY <1>7 DEF ExecInv
    <2>2. QED
      BY <1>1, <1>5, <1>6, <2>1
      DEF AttemptIsSound, PlanIsOrdered, PackIsSaved, WriterIsKnown, FilesAreFound, WorkIsThere, OneRoot,
          VerdictIsRight
  <1>12. OneAtATime'
    BY <1>4, <1>5, <1>6, <1>7 DEF OneAtATime
  <1>13. QED
    BY <1>8, <1>9, <1>10, <1>11, <1>12 DEF ExecInv

(* The sweep and the operator: the lease only.  What was acknowledged is   *)
(* forgotten by a recovery, and by nothing else.                           *)
LEMMA LeaseSteps ==
  ASSUME ExecInv, SweepLease \/ RecoverLease
  PROVE  ExecInv'
  <1>t. /\ att \in [Executors -> AttemptType]
        /\ lease \in [status : {"queued", "running", "stalled", "completed", "failed"},
                      number : 0 .. MaxClaims, mutated : BOOLEAN]
        /\ past \in [roots : SUBSET Roots, overlap : BOOLEAN, recovered : BOOLEAN]
    BY AttemptHasType
  <1>1. UNCHANGED <<task, dir, tree, att>>
    BY DEF SweepLease, RecoverLease
  <1>2. /\ lease' \in [status : {"queued", "running", "stalled", "completed", "failed"},
                       number : 0 .. MaxClaims, mutated : BOOLEAN]
        /\ lease'.status # "completed"
        /\ lease'.mutated => lease'.status # "queued"
        /\ past' \in [roots : SUBSET Roots, overlap : BOOLEAN, recovered : BOOLEAN]
        /\ past'.roots = past.roots /\ past'.overlap = past.overlap
        /\ ~past'.recovered => ~past.recovered /\ lease'.mutated = lease.mutated
    <2>1. CASE SweepLease
      <3>1. CASE lease.mutated
        BY <2>1, <3>1, <1>t DEF SweepLease
      <3>2. CASE ~lease.mutated
        BY <2>1, <3>2, <1>t DEF SweepLease
      <3>3. QED
        BY <3>1, <3>2
    <2>2. CASE RecoverLease
      BY <2>2, <1>t DEF RecoverLease
    <2>3. QED
      BY <2>1, <2>2
  <1>3. ExecTypeOK'
    BY <1>1, <1>2, <1>t, TypeFromParts
  <1>4. FilesAreSound'
    BY <1>1, <1>2 DEF ExecInv, FilesAreSound, FilesAreOrdered, PackIsKept, WritesAreKnown, FilesTellTheWork, OneRoot
  <1>5. ASSUME NEW v \in Executors PROVE AttemptIsSound(att[v])'
    <2>1. AttemptIsSound(att[v]) /\ att'[v] = att[v]
      BY <1>1 DEF ExecInv
    <2>2. QED
      BY <1>1, <1>2, <2>1
      DEF AttemptIsSound, PlanIsOrdered, PackIsSaved, WriterIsKnown, FilesAreFound, WorkIsThere, OneRoot,
          VerdictIsRight
  <1>6. OneAtATime'
    BY <1>1, <1>2 DEF ExecInv, OneAtATime
  <1>7. QED
    BY <1>3, <1>4, <1>5, <1>6 DEF ExecInv

LEMMA ExecStepInv == ExecInv /\ [ExecNext]_execVars => ExecInv'
  <1> SUFFICES ASSUME ExecInv, [ExecNext]_execVars PROVE ExecInv'
    OBVIOUS
  <1>1. ASSUME NEW w \in Executors, NEW r \in Roots, ClaimLease(w, r) PROVE ExecInv'
    BY <1>1, ClaimStep
  <1>2. ASSUME NEW w \in Executors, AttemptStep(w) PROVE ExecInv'
    <2>1. CASE PrepareWorktree(w)
      BY <2>1, PrepareStep
    <2>2. CASE MarkMutation(w)
      BY <2>2, MarkStep
    <2>3. CASE OpenManifest(w) \/ CloseManifest(w)
      BY <2>3, ManifestSteps
    <2>4. CASE AbortSignal(w) \/ ProbeProvider(w) \/ ManifestThrows(w) \/ Throw(w)
      BY <2>4, QuietSteps
    <2>5. CASE LoadPhases(w)
      BY <2>5, LoadStep
    <2>6. CASE StartPhase(w)
      BY <2>6, StartStep
    <2>7. CASE ExecutePhase(w)
      BY <2>7, ExecuteStep
    <2>8. CASE SavePack(w)
      BY <2>8, PackStep
    <2>9. CASE CompletePhase(w)
      BY <2>9, CompleteStep
    <2>10. CASE FailPhase(w)
      BY <2>10, FailStep
    <2>11. CASE CheckGuards(w)
      BY <2>11, GuardsStep
    <2>12. CASE Report(w)
      BY <2>12, ReportStep
    <2>13. QED
      BY <1>2, <2>1, <2>2, <2>3, <2>4, <2>5, <2>6, <2>7, <2>8, <2>9, <2>10, <2>11, <2>12, Zenon DEF AttemptStep
  <1>3. ASSUME NEW w \in Executors, AbortSignal(w) \/ WorkerDies(w) PROVE ExecInv'
    BY <1>3, QuietSteps, DiesStep
  <1>4. CASE SweepLease \/ RecoverLease
    BY <1>4, LeaseSteps
  <1>5. CASE UNCHANGED execVars
    <2>1. UNCHANGED <<task, lease, dir, tree, att, past>>
      BY <1>5 DEF execVars
    <2>2. ExecTypeOK' /\ FilesAreSound' /\ OneAtATime'
      BY <2>1 DEF ExecInv, ExecTypeOK, FilesAreSound, FilesAreOrdered, PackIsKept, WritesAreKnown, FilesTellTheWork,
                  OneRoot, VerdictIsRight, OneAtATime
    <2>3. \A v \in Executors : AttemptIsSound(att[v])'
      BY <2>1 DEF ExecInv, AttemptIsSound, PlanIsOrdered, PackIsSaved, WriterIsKnown, FilesAreFound, WorkIsThere,
                  OneRoot, VerdictIsRight
    <2>4. QED
      BY <2>2, <2>3 DEF ExecInv
  <1>6. QED
    BY <1>1, <1>2, <1>3, <1>4, <1>5, Zenon DEF ExecNext

----------------------------------------------------------------------------
(* What the invariant says of the job.                                     *)

LEMMA ExecInvIsSound == ExecInv => ExecutionIsSound
  <1> SUFFICES ASSUME ExecInv PROVE ExecutionIsSound
    OBVIOUS
  <1>1. ExecTypeOK /\ PackIsKept
    BY DEF ExecInv, FilesAreSound
  <1>2. RequeuedIsClean
    BY DEF ExecInv, FilesAreSound, WritesAreKnown, RequeuedIsClean
  <1>3. CompletedIsWhole
    <2>1. SUFFICES ASSUME lease.status = "completed", ~past.overlap, Cardinality(past.roots) = 1
                   PROVE  /\ \E r \in past.roots : tree[r].work = Phases
                          /\ dir.manifest = "completed"
                          /\ dir.verdict = IF task.dryRun THEN "none" ELSE "passed"
      BY DEF CompletedIsWhole
    <2>2. PICK r : past.roots = {r}
      BY <2>1, FS_Singleton DEF ExecInv, FilesAreSound, FilesAreOrdered
    <2>3. OneRoot
      BY <2>2 DEF OneRoot
    <2>4. QED
      BY <2>1, <2>2, <2>3 DEF ExecInv, FilesAreSound, FilesTellTheWork, VerdictIsRight
  <1>4. WorktreeIsKept
    BY DEF ExecInv, FilesAreSound, FilesTellTheWork, WorktreeIsKept
  <1>5. QED
    BY <1>1, <1>2, <1>3, <1>4 DEF ExecutionIsSound

(* A phase is written to the file only by the attempt that has its plan    *)
(* there, and never one that is completed.                                 *)
LEMMA StepResumes == ExecInv /\ [ExecNext]_execVars => ResumeIsExact
  <1> SUFFICES ASSUME ExecInv, [ExecNext]_execVars PROVE ResumeIsExact
    OBVIOUS
  <1>1. SUFFICES ASSUME ~past'.overlap, dir'.state # Torn, dir'.state # dir.state
                 PROVE  \A p \in Phases : dir.state[p] = "completed" => dir'.state[p] = "completed"
    BY Zenon DEF ResumeIsExact
  <1>t. /\ att \in [Executors -> AttemptType]
        /\ dir \in DirType
    BY AttemptHasType DEF DirType
  <1>2. ASSUME NEW w \in Executors, NEW i \in Phases, NEW status \in PhaseStatus, ~past.overlap,
               att[w].pc \in Planned, att[w].index = i, att[w].pc # "done" \/ status = "completed",
               dir'.state = [att[w].phases EXCEPT ![i] = status]
        PROVE  \A p \in Phases : dir.state[p] = "completed" => dir'.state[p] = "completed"
    <2>1. AttemptIsSound(att[w]) /\ att[w] \in AttemptType
      BY <1>t DEF ExecInv
    <2>2. dir.state = att[w].phases /\ att[w].phases[i] # "completed"
      BY <1>2, <2>1 DEF AttemptIsSound, PlanIsOrdered, WorkedUpTo, FilesAreFound, Housed
    <2>3. att[w].phases \in PhaseFiles
      BY <2>1 DEF AttemptType
    <2>4. QED
      BY <1>2, <2>2, <2>3 DEF PhaseFiles
  <1>3. ~past.overlap
    BY <1>1 DEF ExecNext, execVars, ClaimLease, SweepLease, RecoverLease, AbortSignal, WorkerDies, AttemptStep,
                PrepareWorktree, MarkMutation, OpenManifest, ProbeProvider, ManifestThrows, LoadPhases, StartPhase,
                ExecutePhase, Throw, SavePack, CompletePhase, FailPhase, CheckGuards, CloseManifest, Report
  <1>4. ASSUME NEW w \in Executors, LoadPhases(w)
        PROVE  \A p \in Phases : dir.state[p] = "completed" => dir'.state[p] = "completed"
    <2>1. dir.state \in {Absent, Torn}
      BY <1>1, <1>4, <1>t DEF LoadPhases, DirType
    <2>2. QED
      BY <2>1, PlansDiffer
  <1>5. ASSUME NEW w \in Executors, StartPhase(w)
        PROVE  \A p \in Phases : dir.state[p] = "completed" => dir'.state[p] = "completed"
    <2>1. /\ att[w].pc = "loop" /\ ~(att[w].index > PhaseCount)
          /\ dir' = [dir EXCEPT !.state = [att[w].phases EXCEPT ![att[w].index] = "running"]]
      BY <1>1, <1>5 DEF StartPhase, SavePhase
    <2>2. att[w].index \in Phases /\ att[w].pc \in Planned
      <3>1. att[w].index \in 1 .. PhaseCount + 1
        BY <1>t DEF AttemptType
      <3>2. QED
        BY <2>1, <3>1, PhasesAreNumbers DEF Phases, Planned
    <2>3. dir'.state = [att[w].phases EXCEPT ![att[w].index] = "running"]
      BY <2>1, <1>t DEF DirType
    <2>4. QED
      BY <1>2, <1>3, <2>1, <2>2, <2>3 DEF PhaseStatus
  <1>6. ASSUME NEW w \in Executors, CompletePhase(w) \/ FailPhase(w)
        PROVE  \A p \in Phases : dir.state[p] = "completed" => dir'.state[p] = "completed"
    <2>1. PICK status \in PhaseStatus :
             /\ att[w].pc = "done" \/ att[w].pc = "undone"
             /\ att[w].pc = "done" => status = "completed"
             /\ dir' = [dir EXCEPT !.state = [att[w].phases EXCEPT ![att[w].index] = status]]
      BY <1>6 DEF CompletePhase, FailPhase, PhaseStatus
    <2>2. att[w].index \in Phases /\ att[w].pc \in Planned
      BY <2>1 DEF ExecInv, AttemptIsSound, PlanIsOrdered, Planned
    <2>3. dir'.state = [att[w].phases EXCEPT ![att[w].index] = status]
      BY <2>1, <1>t DEF DirType
    <2>4. QED
      BY <1>2, <1>3, <2>1, <2>2, <2>3
  <1>7. ASSUME NEW w \in Executors, WorkerDies(w) PROVE FALSE
    <2>1. \/ dir' = dir
          \/ dir' = [dir EXCEPT !.state = Torn]
          \/ dir' = [dir EXCEPT !.manifest = "torn"]
      BY <1>7 DEF WorkerDies
    <2>2. QED
      BY <1>1, <1>t, <2>1 DEF DirType
  <1>8. ASSUME NEW w \in Executors, OpenManifest(w) \/ SavePack(w) \/ CheckGuards(w) \/ CloseManifest(w)
        PROVE  FALSE
    <2>1. dir'.state = dir.state
      BY <1>8, <1>t DEF DirType, OpenManifest, SavePack, CheckGuards, CloseManifest
    <2>2. QED
      BY <1>1, <2>1
  <1>9. dir' # dir
    BY <1>1
  <1>10. PICK w \in Executors : AttemptStep(w) \/ WorkerDies(w)
    BY <1>9 DEF ExecNext, execVars, ClaimLease, SweepLease, RecoverLease, AbortSignal
  <1>11. CASE AttemptStep(w)
    <2>1. \/ LoadPhases(w) \/ StartPhase(w) \/ CompletePhase(w) \/ FailPhase(w)
          \/ OpenManifest(w) \/ SavePack(w) \/ CheckGuards(w) \/ CloseManifest(w)
      BY <1>9, <1>11 DEF AttemptStep, PrepareWorktree, MarkMutation, ProbeProvider, ManifestThrows, ExecutePhase,
                         Throw, Report
    <2>2. QED
      BY <2>1, <1>4, <1>5, <1>6, <1>8
  <1>12. QED
    BY <1>7, <1>10, <1>11

(* Whatever workers die, lose their lease or are given it again, the files *)
(* keep to the job: a setup phase that is called completed has its context *)
(* pack, only a job nothing was written for is queued again by the sweep,  *)
(* and one that completed without overlap in one root has all its changes, *)
(* an agreeing manifest and a passed verification.                         *)
THEOREM ExecutionSound == ExecSpec => []ExecutionIsSound
  <1>1. ExecSpec => []ExecInv
    BY ExecInitInv, ExecStepInv, PTL DEF ExecSpec
  <1>2. QED
    BY <1>1, ExecInvIsSound, PTL

(* As long as attempts do not overlap, no attempt takes back what the      *)
(* state file calls completed, short of dying while it writes it.          *)
THEOREM ExecutionResumes == ExecSpec => [][ResumeIsExact]_execVars
  <1>1. ExecSpec => []ExecInv
    BY ExecInitInv, ExecStepInv, PTL DEF ExecSpec
  <1>2. ExecInv /\ [ExecNext]_execVars => [ResumeIsExact]_execVars
    BY StepResumes
  <1>3. QED
    BY <1>1, <1>2, PTL DEF ExecSpec
=============================================================================
